\* The state of an open channel against the state of its impl.
CONSTANTS
  Fingerprints = {"good"}
  MaxOffers = 1
  MaxLosses = 0
  MaxNet = 1
SPECIFICATION Spec
INVARIANTS
  OpenMirrorsImpl
CHECK_DEADLOCK FALSE
