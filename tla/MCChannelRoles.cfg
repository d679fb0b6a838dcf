\* One port, an ICE restart and a role change: who may be nominated.
CONSTANTS
  lan = lan
  wlan = wlan
  peer = peer
  newer = newer
  NoConn = NoConn
  Ports = {lan}
  Remotes = {peer}
  Pairs <- PeerPairs
  NetworkOf <- OneNetwork
  Preference <- LanPreferred
  RemoteGeneration <- Generations
  Rtts = {0}
  DEFAULT_RTT = 0
  kMinImprovement = 1
  Protocols = {"RFC5245"}
  InitialRoles = {"CONTROLLING", "CONTROLLED"}
  MaxResets = 0
  MaxRestarts = 1
  MaxRoleChanges = 1
  MaxTimers = 1
SPECIFICATION Spec
PROPERTIES
  UseCandidateAssertion
CHECK_DEADLOCK FALSE
