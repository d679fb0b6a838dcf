\* Two threads that call each other; the first may stop the second.
CONSTANTS
  signaling = signaling
  worker = worker
  Threads = {signaling, worker}
  Owned = {worker}
  MaxMessages = 3
  MaxDelayed = 1
SPECIFICATION FairSpec
INVARIANTS
  NoLostWakeUp
PROPERTIES
  Delivers
  EveryMessageEnds
CHECK_DEADLOCK FALSE
