\* One tick is half of WRITE_CONNECT_TIMEOUT.
CONSTANTS
  READ_TIMEOUT = 5
  WRITE_CONNECT_FAILURES = 2
  WRITE_CONNECT_TIMEOUT = 2
  WRITE_TIMEOUT = 4
  RESPONSE_TIMEOUT = 2
  Rtts = {0, 1}
  RemoteIceLite = FALSE
SPECIFICATION FairSpec



PROPERTIES
  RestartedChecksStart
CHECK_DEADLOCK FALSE
