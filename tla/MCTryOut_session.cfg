\* Two requests of one operation, on a page with two loads, two schemes and an api
\* key, all of which the operation names.
SPECIFICATION FairSpec
CONSTANTS
  S = S
  T = T
  P = P
  V = V
  MaxLoads = 2
  Schemes = {S, T}
  Operations = {}
  Params = {P}
  Mandatory = {P}
  Values = {V}
  Security = {S, T, "api_key"}
  MaxSubmits = 2
INVARIANTS TypeOK CurlRepeatsRequest
PROPERTIES Authorized WaitingEnds
