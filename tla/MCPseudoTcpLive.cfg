SPECIFICATION FairSpec
CONSTANTS
  Mss = {1, 2}
  SndBuf = 2
  RcvBuf = 2
  SeqSpace = 4
  MaxXmit = 2
  MaxSynXmit = 2
  MaxProbes = 1
  Nagling = TRUE
  AckDelay = TRUE
  Bytes <- ClientWrites
  Closers = {}
  MaxNet = 1
INVARIANTS SegmentsAreTheBuffer
PROPERTIES Delivered
CHECK_DEADLOCK FALSE
