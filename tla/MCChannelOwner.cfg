\* One port, both protocols and all that the owner may do: Reset, an ICE restart,
\* a role change; remote candidates of two generations.
CONSTANTS
  lan = lan
  wlan = wlan
  peer = peer
  newer = newer
  NoConn = NoConn
  Ports = {lan}
  Remotes = {peer, newer}
  Pairs <- PeerPairs
  NetworkOf <- OneNetwork
  Preference <- LanPreferred
  RemoteGeneration <- Generations
  Rtts = {0}
  DEFAULT_RTT = 0
  kMinImprovement = 1
  Protocols = {"RFC5245", "GOOGLE"}
  InitialRoles = {"CONTROLLING", "CONTROLLED"}
  MaxResets = 1
  MaxRestarts = 1
  MaxRoleChanges = 1
  MaxTimers = 2
SPECIFICATION Spec
INVARIANTS
  NoLostSort
  FlagsAgree
CHECK_DEADLOCK FALSE
