\* A content that is added after the roles were switched.
CONSTANTS
  Contents = {audio, video}
  Tiebreaker <- SmallTiebreakers
  LateTransports = TRUE
SPECIFICATION FairSpec
PROPERTIES
  RolesSettle
CHECK_DEADLOCK FALSE
