----------------------- MODULE MCP2PTransportChannel -----------------------
(* Instances of P2PTransportChannel with one or two ports on one network,   *)
(* where connections prune each other.  They can be paired with the         *)
(* candidate peer; newer is a candidate of a later generation, of a         *)
(* protocol that none of the ports has.                                     *)
EXTENDS P2PTransportChannel
CONSTANTS lan, wlan, peer, newer
PeerPairs == Ports \X {peer}
OneNetwork == [p \in Ports |-> 1]
LanPreferred == [c \in PeerPairs |-> IF c[1] = lan THEN 2 ELSE 1]
NonePreferred == [c \in PeerPairs |-> 1]
Generations == [r \in Remotes |-> IF r = peer THEN 1 ELSE 2]
=============================================================================
