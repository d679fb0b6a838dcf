\* Three ports: a connection that is heard from after it has posted MSG_DELETE.
CONSTANTS
  lan = lan
  wlan = wlan
  peer = peer
  newer = newer
  NoConn = NoConn
  Ports = {lan, wlan, eth}
  Remotes = {peer, newer}
  Pairs <- PeerPairs
  NetworkOf <- OneNetwork
  Preference <- LanPreferred
  RemoteGeneration <- Generations
  Rtts = {0}
  DEFAULT_RTT = 0
  kMinImprovement = 1
  Protocols = {"RFC5245"}
  InitialRoles = {"CONTROLLING"}
  MaxResets = 0
  MaxRestarts = 0
  MaxRoleChanges = 0
  MaxTimers = 1
SPECIFICATION Spec
INVARIANTS
  StaysReadable
CHECK_DEADLOCK FALSE
