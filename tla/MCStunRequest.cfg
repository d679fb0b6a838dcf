\* Two retransmitting requests and a ping; backoff 1, 2, 4, 4 ticks.
CONSTANTS
  r1 = r1
  r2 = r2
  p1 = p1
  Requests = {r1, r2, p1}
  Pings = {p1}
  MAX_SENDS = 4
  DELAY_UNIT = 1
  DELAY_MAX_FACTOR = 4
  PING_TIMEOUT = 3
  StartDelays = {0, 2}
SPECIFICATION FairSpec
INVARIANTS
  TypeOK
  OneTimerPerRequest
  EndsAtMostOnce
  OnSchedule
  DestroyedManagerIsSilent
PROPERTIES
  EveryRequestEnds
CHECK_DEADLOCK FALSE
