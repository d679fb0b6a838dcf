SPECIFICATION Spec
CONSTANTS
  Mss = {2}
  SndBuf = 3
  RcvBuf = 2
  SeqSpace = 16
  MaxXmit = 2
  MaxSynXmit = 2
  MaxProbes = 1
  Nagling = TRUE
  AckDelay = TRUE
  Bytes <- BothWrite
  Closers = {}
  MaxNet = 1
INVARIANTS AckOwed
CHECK_DEADLOCK FALSE
