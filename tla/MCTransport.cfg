\* RTP and RTCP channels: created, connected, destroyed; no ICE restart.
CONSTANTS
  Components = {1, 2}
  MaxRefs = 2
  MaxCandidates = 2
  MaxChanges = 2
  MaxDestroys = 1
  MaxRestarts = 0
  MaxResets = 0
SPECIFICATION Spec
INVARIANTS
  WritableReported
  AnnouncedOnceInOrder
PROPERTIES
  CompleteMeansGathered
CHECK_DEADLOCK FALSE
