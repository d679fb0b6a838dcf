\* RTP and RTCP channels with an ICE restart and a reset, under fairness.
CONSTANTS
  Components = {1, 2}
  MaxRefs = 1
  MaxCandidates = 1
  MaxChanges = 0
  MaxDestroys = 0
  MaxRestarts = 1
  MaxResets = 1
SPECIFICATION FairSpec
INVARIANTS
  HeldCandidatesAnnounced
PROPERTIES
  EveryChannelGathers
CHECK_DEADLOCK FALSE
