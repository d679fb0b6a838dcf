\* Two equally preferred ports whose RTTs differ by less than kMinImprovement.
CONSTANTS
  lan = lan
  wlan = wlan
  peer = peer
  newer = newer
  NoConn = NoConn
  Ports = {lan, wlan}
  Remotes = {peer}
  Pairs <- PeerPairs
  NetworkOf <- OneNetwork
  Preference <- NonePreferred
  RemoteGeneration <- Generations
  Rtts = {0, 1}
  DEFAULT_RTT = 0
  kMinImprovement = 2
  Protocols = {"RFC5245"}
  InitialRoles = {"CONTROLLING", "CONTROLLED"}
  MaxResets = 0
  MaxRestarts = 0
  MaxRoleChanges = 0
  MaxTimers = 1
SPECIFICATION Spec
PROPERTIES
  SwitchNeedsImprovement
CHECK_DEADLOCK FALSE
