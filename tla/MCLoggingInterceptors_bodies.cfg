\* Bodies of no to five bytes through a buffer of two.
SPECIFICATION FairSpec
CONSTANTS
  Bodies <- AllLengths
  BufferSize = 2
INVARIANTS TypeOK DeliveredWhole StreamPutBack
PROPERTIES TransferEnds
\* Every message ends.
CHECK_DEADLOCK FALSE
