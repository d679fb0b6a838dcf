\* As MCChannel: what OnConnectionRequestResponse says of pruned connections.
CONSTANTS
  lan = lan
  wlan = wlan
  peer = peer
  newer = newer
  NoConn = NoConn
  Ports = {lan, wlan}
  Remotes = {peer}
  Pairs <- PeerPairs
  NetworkOf <- OneNetwork
  Preference <- LanPreferred
  RemoteGeneration <- Generations
  Rtts = {0}
  DEFAULT_RTT = 0
  kMinImprovement = 1
  Protocols = {"RFC5245"}
  InitialRoles = {"CONTROLLING", "CONTROLLED"}
  MaxResets = 0
  MaxRestarts = 0
  MaxRoleChanges = 0
  MaxTimers = 1
SPECIFICATION Spec
INVARIANTS
  PrunedAgain
CHECK_DEADLOCK FALSE
