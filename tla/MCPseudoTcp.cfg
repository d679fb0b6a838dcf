SPECIFICATION Spec
CONSTANTS
  Mss = {1}
  SndBuf = 2
  RcvBuf = 2
  SeqSpace = 16
  MaxXmit = 2
  MaxSynXmit = 2
  MaxProbes = 1
  Nagling = TRUE
  AckDelay = TRUE
  Bytes <- ClientWrites
  Closers = {"client"}
  MaxNet = 2
INVARIANTS InOrder WindowFits
PROPERTIES GracefulClose
CHECK_DEADLOCK FALSE
