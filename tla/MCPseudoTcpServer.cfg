SPECIFICATION Spec
CONSTANTS
  Mss = {1}
  SndBuf = 4
  RcvBuf = 3
  SeqSpace = 16
  MaxXmit = 2
  MaxSynXmit = 3
  MaxProbes = 1
  Nagling = TRUE
  AckDelay = TRUE
  Bytes <- ServerWrites
  Closers = {}
  MaxNet = 1
INVARIANTS InOrder
CHECK_DEADLOCK FALSE
