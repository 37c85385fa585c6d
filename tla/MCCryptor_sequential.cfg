\* One request at a time, with crashes and failing file operations.
SPECIFICATION Spec
CONSTANTS
  Workers = {w1}
  KeyPairs = {k0, k1, k2, k3}
  Shipped = k0
  Docs = {d1, d2}
  InitialFiles <- FreshOrShipped
  MaxCrashes = 2
  MaxIoErrors = 2
INVARIANTS TypeOK RoundTrip KeyDiscipline
PROPERTIES ImplementsService
\* The model stops when its bounded supply of key pairs is used up.
CHECK_DEADLOCK FALSE
