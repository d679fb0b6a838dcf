\* The transports of two contents, all created before a role is switched.
CONSTANTS
  Contents = {audio, video}
  Tiebreaker <- SmallTiebreakers
  LateTransports = FALSE
SPECIFICATION FairSpec
INVARIANTS
  TypeOK
  OnlyTheLoserSwitches
PROPERTIES
  RolesSettle
CHECK_DEADLOCK FALSE
