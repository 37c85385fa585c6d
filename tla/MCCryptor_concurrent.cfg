\* Concurrent requests, with or without key files at deployment, and crashes.
SPECIFICATION Spec
CONSTANTS
  Workers = {w1, w2}
  KeyPairs = {k0, k1, k2, k3}
  Shipped = k0
  Docs = {d1}
  InitialFiles <- FreshOrShipped
  MaxCrashes = 1
  MaxIoErrors = 1
PROPERTIES OnlyFirstGenerate
\* The model stops when its bounded supply of key pairs is used up.
CHECK_DEADLOCK FALSE
