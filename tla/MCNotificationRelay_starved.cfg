\* As many calls to the bundled client as threads.
SPECIFICATION FairSpec
CONSTANTS
  Calls = {c1, c2}
  Threads = {t1, t2}
  Kinds <- OnlyBundled
  MaxLosses = 0
PROPERTIES InsideCallsAnswered
\* The calls wait for each other: the system really stops.
CHECK_DEADLOCK FALSE
