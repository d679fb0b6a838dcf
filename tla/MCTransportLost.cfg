\* The end of gathering when both channels connect at once, under fairness.
CONSTANTS
  Components = {1, 2}
  MaxRefs = 1
  MaxCandidates = 0
  MaxChanges = 0
  MaxDestroys = 0
  MaxRestarts = 0
  MaxResets = 0
SPECIFICATION FairSpec
PROPERTIES
  CompletionReported
CHECK_DEADLOCK FALSE
