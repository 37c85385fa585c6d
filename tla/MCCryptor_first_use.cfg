\* No key files, two first requests at the same time.
SPECIFICATION Spec
CONSTANTS
  Workers = {w1, w2}
  KeyPairs = {k0, k1, k2}
  Shipped = k0
  Docs = {d1}
  InitialFiles <- Fresh
  MaxCrashes = 0
  MaxIoErrors = 0
INVARIANTS RoundTrip
\* The model stops when its bounded supply of key pairs is used up.
CHECK_DEADLOCK FALSE
