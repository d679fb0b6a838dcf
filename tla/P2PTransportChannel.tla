------------------------ MODULE P2PTransportChannel ------------------------
(***************************************************************************)
(* The ICE agent of one component: class P2PTransportChannel of            *)
(* talk/p2p/base/p2ptransportchannel.cc with the Connections it owns.      *)
(*                                                                         *)
(* The channel creates a Connection for each compatible pair of a local    *)
(* port and a remote candidate, pings them from a timer, sorts them when   *)
(* one of them changes state, elects the best one (or, when the peer       *)
(* controls, follows the peer's nomination), prunes the ones that are not  *)
(* needed and forgets the ones that delete themselves.                     *)
(*                                                                         *)
(* Everything runs on the worker thread, one handler at a time.  What      *)
(* interleaves is the thread's queue (MSG_SORT, MSG_DELETE), the ping      *)
(* timers, the packets and the calls from the Transport.  The thread reads *)
(* sockets only when its queue is empty, one packet from each ready socket *)
(* before it returns to the queue.                                         *)
(*                                                                         *)
(* Time is left out: a timeout whose condition can hold at some time may   *)
(* happen at any time (Connection.tla models the times themselves), and a  *)
(* pingable connection may be the oldest one at any time.  An operator     *)
(* marked as a variant is a definition with a mistake in it, which the     *)
(* property it names detects.                                              *)
(***************************************************************************)
EXTENDS Naturals, Sequences, FiniteSets, Functions

CONSTANTS
  Ports,             \* local ports, in the order of any number of sessions
  Remotes,           \* remote candidates, by address
  Pairs,             \* the compatible pairs: Port::CreateConnection succeeds
  NoConn,            \* NULL
  NetworkOf,         \* the network of each port
  Preference,        \* per pair: priority(), then generation, as one rank
  RemoteGeneration,  \* the generation of each remote candidate
  Rtts,              \* values of rtt_
  DEFAULT_RTT,       \* the initial one
  kMinImprovement,
  Protocols,         \* the values protocol_type_ may have
  InitialRoles,      \* the roles the channel may be created with
  MaxResets,         \* bound: how often the owner calls Reset
  MaxRestarts,       \* bound: how often it restarts ICE
  MaxRoleChanges,    \* bound: how often the owner calls SetIceRole
  MaxTimers          \* bound: ping timers the model follows

ASSUME ChannelAssumption ==
  /\ Pairs \subseteq Ports \X Remotes /\ IsFiniteSet(Pairs)
  /\ NoConn \notin Pairs
  /\ NetworkOf \in [Ports -> Nat]
  /\ Preference \in [Pairs -> Nat]
  /\ RemoteGeneration \in [Remotes -> Nat]
  /\ Rtts \subseteq Nat /\ DEFAULT_RTT \in Rtts
  /\ kMinImprovement \in Nat
  /\ Protocols \subseteq {"RFC5245", "GOOGLE"}
  /\ InitialRoles \subseteq {"CONTROLLING", "CONTROLLED"}
  /\ MaxResets \in Nat /\ MaxRestarts \in Nat /\ MaxRoleChanges \in Nat
  /\ MaxTimers \in Nat \ {0}

VARIABLES
  \* P2PTransportChannel
  protocol,     \* protocol_type_
  role,         \* ice_role_
  ports,        \* ports_
  remotes,      \* remote_candidates_
  conns,        \* connections_
  best,         \* best_connection_
  pending,      \* pending_best_connection_
  sortDirty,    \* sort_dirty_
  writable,     \* writable()
  readable,     \* readable()
  wasWritable,  \* was_writable_
  waiting,      \* waiting_for_signaling_
  \* its Ports and Connections; a pair that has no Connection now keeps the
  \* values its next Connection starts with
  started,      \* ports that exist, whether or not still in ports_
  portRole,     \* GetIceRole() of each port
  read,         \* read_state_
  write,        \* write_state_
  pruned,       \* the connections with pruned_
  unanswered,   \* those with pings_since_last_response_ not empty
  outstanding,  \* those with a ping request outstanding
  rtt,          \* rtt_
  \* the worker thread and the Transport
  queue,        \* messages posted and not yet dispatched
  timers,       \* MSG_PINGs posted, each at its own time
  ready,        \* ports it may still read before it looks at its queue again
  connecting,   \* the Transport's connect_requested_
  gathering,    \* an allocator session exists
  resets,       \* calls of Reset so far
  restarts,     \* ICE restarts so far
  roleChanges   \* calls of SetIceRole so far

modeVars    == <<protocol, role>>
flagVars    == <<writable, readable, wasWritable>>
channelVars == <<modeVars, ports, remotes, conns, best, pending, sortDirty,
                 flagVars, waiting>>
connVars    == <<started, portRole, read, write, pruned, unanswered,
                 outstanding, rtt>>
ownerVars   == <<connecting, gathering, resets, restarts, roleChanges>>
vars == <<channelVars, connVars, ownerVars, queue, timers, ready>>

Roles       == {"CONTROLLING", "CONTROLLED"}
StandardIce == protocol = "RFC5245"
ReadStates  == {"READ_INIT", "READABLE", "READ_TIMEOUT"}
WriteStates == {"WRITABLE", "WRITE_UNRELIABLE", "WRITE_INIT", "WRITE_TIMEOUT"}

MSG_SORT == [msg |-> "MSG_SORT", conn |-> NoConn]
MSG_DELETE(c) == [msg |-> "MSG_DELETE", conn |-> c]
Messages == {MSG_SORT} \cup {MSG_DELETE(c) : c \in Pairs}

Queued(m, q) == \E i \in DOMAIN q : q[i] = m
PortOf(c)    == c[1]
RemoteOf(c)  == c[2]
Network(c)   == NetworkOf[PortOf(c)]

-----------------------------------------------------------------------------
(* Comparing connections.                                                  *)

\* The order of enum WriteState: better states have lower values.
WriteRank(w) == CASE w = "WRITABLE"         -> 0
                  [] w = "WRITE_UNRELIABLE" -> 1
                  [] w = "WRITE_INIT"       -> 2
                  [] w = "WRITE_TIMEOUT"    -> 3

\* CompareConnections(a, b) > 0 and = 0, in the write states w.
Better(a, b, w) ==
  \/ WriteRank(w[a]) < WriteRank(w[b])
  \/ WriteRank(w[a]) = WriteRank(w[b]) /\ Preference[a] > Preference[b]
Tied(a, b, w) ==
  WriteRank(w[a]) = WriteRank(w[b]) /\ Preference[a] = Preference[b]

\* ConnectionCompare: a is sorted before b whatever their order was.
SortsBefore(a, b, w) == Better(a, b, w) \/ (Tied(a, b, w) /\ rtt[a] < rtt[b])

\* The connections of S that may come first after the stable sort.
First(S, w) == {a \in S : \A b \in S : ~SortsBefore(b, a, w)}

\* Variant (ElectsTheBest): connections are compared by their RTTs only.
ShouldSwitchByRtt(a, b, w) ==
  /\ a # b
  /\ a = NoConn \/ b = NoConn \/ rtt[b] + kMinImprovement <= rtt[a]

ShouldSwitch(a, b, w) ==
  /\ a # b
  /\ \/ a = NoConn \/ b = NoConn
     \/ Better(b, a, w)
     \/ Tied(a, b, w) /\ rtt[b] <= rtt[a] + kMinImprovement

-----------------------------------------------------------------------------
(* Connection state changes, as the channel and the queue see them.        *)

Useless(r, w) == r \in {"READ_TIMEOUT", "READ_INIT"} /\ w = "WRITE_TIMEOUT"

\* The orders in which the connections of S may post their MSG_DELETE.
DeleteOrders(S) ==
  IF S = {} THEN {<<>>}
  ELSE Bijection(1..Cardinality(S), {MSG_DELETE(c) : c \in S})

\* Variant (NoLostSort): RequestSort posts to an empty queue only.
PostedWhenIdle(q, dirty, changed, r, w) ==
  {q \o (IF changed # {} /\ q = <<>> THEN <<MSG_SORT>> ELSE <<>>) \o d :
     d \in DeleteOrders({c \in changed : Useless(r[c], w[c])
                                         /\ ~Queued(MSG_DELETE(c), q)})}

\* Variant (DeletesAgree): a change of state does not call CheckTimeout.
PostedSortOnly(q, dirty, changed, r, w) ==
  {q \o (IF changed # {} /\ ~dirty THEN <<MSG_SORT>> ELSE <<>>)}

\* What the queue q may be after the connections of changed have gone to the
\* states r and w: RequestSort unless a sort is already asked for, then
\* CheckTimeout.  A second MSG_DELETE for a connection is not kept: ~Connection
\* would remove it.
Posted(q, dirty, changed, r, w) ==
  IF changed = {} THEN {q}
  ELSE {q \o (IF dirty THEN <<>> ELSE <<MSG_SORT>>) \o d :
     d \in DeleteOrders({c \in changed : Useless(r[c], w[c])
                                         /\ ~Queued(MSG_DELETE(c), q)})}

\* UpdateConnectionStates: the read and write states that UpdateState may
\* give the connections cs, depending on the time.
ReadUpdates(cs, r) ==
  {[c \in Pairs |-> IF c \in lost THEN "READ_TIMEOUT" ELSE r[c]] :
     lost \in SUBSET {c \in cs : r[c] = "READABLE"}}
WriteUpdates(cs) ==
  LET tried == {c \in cs \cap unanswered : write[c] # "WRITE_TIMEOUT"}
  IN {[c \in Pairs |-> IF c \in lost THEN "WRITE_TIMEOUT"
                       ELSE IF c \in weak THEN "WRITE_UNRELIABLE"
                       ELSE write[c]] :
        lost \in SUBSET tried,
        weak \in SUBSET {c \in tried : write[c] = "WRITABLE"}}

\* OnConnectionStateChange, when the read states change to r: a controlled
\* channel follows a nomination whose connection is already writable (its role
\* was another one when it became so).  UpdateState sets the read state first.
Follows(r) ==
  /\ StandardIce /\ role = "CONTROLLED"
  /\ pending \in conns /\ write[pending] = "WRITABLE"
  /\ r[pending] # read[pending]
Followed(r) == IF Follows(r) THEN pending ELSE best
StillPending(r) == IF Follows(r) THEN NoConn ELSE pending

Changed(cs, r, r1, w, w1) == {c \in cs : r1[c] # r[c] \/ w1[c] # w[c]}

-----------------------------------------------------------------------------
(* SortConnections.                                                        *)

\* The connections that GetBestConnectionOnNetwork may return.
BestOnNetwork(n, cs, b, w) ==
  IF b # NoConn /\ Network(b) = n
    THEN {b}
    ELSE First({c \in cs : Network(c) = n}, w)

\* Variant (OnePathPerNetwork): the preferences are compared the other way.
LosersReversed(cs, premier, w) ==
  {c \in cs : LET q == premier[Network(c)] IN
                 /\ c # q
                 /\ w[q] = "WRITABLE"
                 /\ Preference[q] < Preference[c]}

\* The connections that are pruned, when premier[n] is the best connection on
\* network n: those that a writable premier of their network is at least as
\* preferred as.
Losers(cs, premier, w) ==
  {c \in cs : LET p == premier[Network(c)] IN
                 /\ c # p
                 /\ w[p] = "WRITABLE"
                 /\ Preference[p] >= Preference[c]}

\* Networks that have a connection; the choices of a premier for each of them.
Networks(cs) == {Network(c) : c \in cs}
Premiers(cs, b, w) ==
  {f \in [Networks(cs) -> cs] :
     \A n \in Networks(cs) : f[n] \in BestOnNetwork(n, cs, b, w)}

\* Variant (ControlledFollowsPeer): a controlled channel elects too.
MayElectAlways == TRUE

\* A controlled channel leaves the choice to its peer.
MayElect == ~StandardIce \/ role = "CONTROLLING"

\* Variant (FlagsAgree): HandleNotWritable does nothing.
WritableForever(usable) == usable \/ writable

\* The writable flag after HandleWritable or HandleNotWritable.
WritableAfter(usable) == usable \/ (writable /\ ~wasWritable)

\* Variant (FlagsAgree): only the best connection counts.
ReadableIfBest(cs, r, b) == b # NoConn /\ r[b] = "READABLE"

\* The readable flag after UpdateChannelState.
ReadableAfter(cs, r, b) == \E c \in cs : r[c] = "READABLE"

\* SortConnections, called with the connections cs in the read states r, those
\* of fresh just heard from, the queue q and sort_dirty_ = dirty.  It ends with
\* HandleWritable or HandleNotWritable and UpdateChannelState.
SortConnections(cs, fresh, r, q, dirty) ==
  \E r1 \in ReadUpdates(cs \ fresh, r), w1 \in WriteUpdates(cs) :
  \E q1 \in Posted(q, dirty, Changed(cs, r, r1, write, w1), r1, w1) :
  \E top \in IF cs = {} THEN {NoConn} ELSE First(cs, w1) :
    LET b == IF MayElect /\ ShouldSwitch(best, top, w1)
               THEN top ELSE Followed(r1)
    IN \E premier \in Premiers(cs, b, w1) :
       LET losers == Losers(cs, premier, w1) \ pruned
           w2 == [c \in Pairs |->
                    IF c \in losers THEN "WRITE_TIMEOUT" ELSE w1[c]]
           stopped == Changed(cs, r1, r1, w1, w2)
           usable == b # NoConn /\ w2[b] = "WRITABLE"
       IN /\ best' = b
          /\ pending' = StillPending(r1)
          /\ read' = r1
          /\ write' = w2
          /\ pruned' = pruned \cup losers
          /\ outstanding' = outstanding \ losers
          /\ queue' \in Posted(q1, FALSE, stopped, r1, w2)
          /\ sortDirty' = (stopped # {})
          /\ writable' = WritableAfter(usable)
          /\ wasWritable' = usable
          /\ readable' = ReadableAfter(cs, r1, b)

-----------------------------------------------------------------------------
(* Calls of the Transport and of the allocator sessions.                   *)

\* Connect, from Transport::ConnectChannels_w: Allocate and start pinging.
Connect ==
  /\ ~connecting /\ timers < MaxTimers
  /\ connecting' = TRUE
  /\ waiting' = TRUE
  /\ timers' = timers + 1
  /\ ready' = {}
  /\ UNCHANGED <<modeVars, ports, remotes, conns, best, pending, sortDirty,
                 flagVars, connVars, queue, gathering, resets, restarts,
                 roleChanges>>

\* SetIceCredentials with new credentials: an ICE restart.
SetIceCredentials ==
  /\ restarts < MaxRestarts
  /\ restarts' = restarts + 1
  /\ waiting' = TRUE
  /\ ready' = {}
  /\ UNCHANGED <<modeVars, ports, remotes, conns, best, pending, sortDirty,
                 flagVars, connVars, queue, timers, connecting, gathering,
                 resets, roleChanges>>

\* OnSignalingReady and AddAllocatorSession: ports_ starts over, while the
\* ports of earlier sessions live on with their connections.
OnSignalingReady ==
  /\ waiting
  /\ waiting' = FALSE
  /\ gathering' = TRUE
  /\ ports' = {}
  /\ ready' = {}
  /\ UNCHANGED <<modeVars, remotes, conns, best, pending, sortDirty, flagVars,
                 connVars, queue, timers, connecting, resets, restarts,
                 roleChanges>>

\* SetIceRole tells the ports in ports_ only.
SetIceRole(newRole) ==
  /\ newRole # role /\ roleChanges < MaxRoleChanges
  /\ roleChanges' = roleChanges + 1
  /\ role' = newRole
  /\ portRole' = [p \in Ports |-> IF p \in ports THEN newRole ELSE portRole[p]]
  /\ ready' = {}
  /\ UNCHANGED <<protocol, ports, remotes, conns, best, pending, sortDirty,
                 flagVars,
                 waiting, started, read, write, pruned, unanswered,
                 outstanding, rtt, queue, timers, connecting, gathering,
                 resets, restarts>>

\* OnPortReady: pair the port with all remote candidates known so far.
OnPortReady(p) ==
  /\ gathering /\ p \notin started
  /\ started' = started \cup {p}
  /\ ports' = ports \cup {p}
  /\ portRole' = [portRole EXCEPT ![p] = role]
  /\ LET cs == conns \cup (Pairs \cap ({p} \X remotes))
     IN /\ conns' = cs
        /\ SortConnections(cs, {}, read, queue, sortDirty)
  /\ ready' = {}
  /\ UNCHANGED <<modeVars, remotes, waiting, unanswered, rtt, timers,
                 ownerVars>>

\* OnPortDestroyed: a port that has outlived its connections.
OnPortDestroyed(p) ==
  /\ p \in started
  /\ \A c \in conns : PortOf(c) # p
  /\ started' = started \ {p}
  /\ ports' = ports \ {p}
  /\ ready' = {}
  /\ UNCHANGED <<modeVars, remotes, conns, best, pending, sortDirty, flagVars,
                 waiting, portRole, read, write, pruned, unanswered,
                 outstanding, rtt, queue, timers, ownerVars>>

\* RememberRemoteCandidate drops the candidates of older generations.
Remember(r) ==
  {x \in remotes : RemoteGeneration[x] >= RemoteGeneration[r]} \cup {r}

\* OnCandidate: pair the candidate with all ports in ports_.
OnCandidate(r) ==
  /\ remotes' = Remember(r)
  /\ LET cs == conns \cup (Pairs \cap (ports \X {r}))
     IN /\ conns' = cs
        /\ SortConnections(cs, {}, read, queue, sortDirty)
  /\ ready' = {}
  /\ UNCHANGED <<modeVars, ports, waiting, started, portRole, unanswered,
                 rtt, timers, ownerVars>>

\* Variant (NoLostSort): sort_dirty_ is forgotten.
ReinitializeWaitingOnly == waiting' = FALSE /\ UNCHANGED sortDirty

\* "Reinitialize the rest of our state", the last part of Reset.
ReinitializeRest == waiting' = FALSE /\ sortDirty' = FALSE

\* Reset: the allocator sessions go, with them their ports and connections,
\* which do not signal their destruction; MSG_SORT and the ping timers are
\* cleared and one MSG_PING is posted.  pending_best_connection_ and
\* was_writable_ keep their values: the former then points to freed memory,
\* where a later Connection may or may not be allocated.
Reset ==
  /\ resets < MaxResets
  /\ resets' = resets + 1
  /\ connecting' = FALSE /\ gathering' = FALSE
  /\ ports' = {} /\ started' = {} /\ remotes' = {}
  /\ conns' = {}
  /\ best' = NoConn
  /\ pending' \in {pending, NoConn}
  /\ writable' = FALSE /\ readable' = FALSE
  /\ ReinitializeRest
  /\ read' = [c \in Pairs |-> "READ_INIT"]
  /\ write' = [c \in Pairs |-> "WRITE_INIT"]
  /\ pruned' = {} /\ unanswered' = {} /\ outstanding' = {}
  /\ rtt' = [c \in Pairs |-> DEFAULT_RTT]
  /\ queue' = <<>>
  /\ timers' = 1
  /\ ready' = {}
  /\ UNCHANGED <<modeVars, wasWritable, portRole, restarts, roleChanges>>

-----------------------------------------------------------------------------
(* Packets.                                                                *)

\* The thread may read port p: it found its queue empty, or has not finished
\* going through the sockets that were ready then.
MayRead(p) == queue = <<>> \/ p \in ready

\* It has read p, and reads the other ports that are ready before it returns
\* to the queue (if that is still empty, it will look at all of them again).
HasRead(p) ==
  ready' = IF queue' = <<>> THEN {}
           ELSE (IF queue = <<>> THEN started ELSE ready) \ {p}

\* Connection c goes to the states r and w, OnConnectionStateChange follows a
\* nomination that was waiting for it, and posts what there is to post.
StateChange(c, r, w) ==
  LET changed == IF <<r, w>> # <<read[c], write[c]>> THEN {c} ELSE {}
      follow  == /\ changed # {} /\ pending = c /\ w = "WRITABLE"
                 /\ StandardIce /\ role = "CONTROLLED"
  IN /\ read' = [read EXCEPT ![c] = r]
     /\ write' = [write EXCEPT ![c] = w]
     /\ best' = IF follow THEN c ELSE best
     /\ pending' = IF follow THEN NoConn ELSE pending
     /\ sortDirty' = (sortDirty \/ changed # {})
     /\ queue' \in Posted(queue, sortDirty, changed, read', write')

\* The write state after a sign of life from the peer.
Restarted(c) ==
  IF c \notin pruned /\ write[c] = "WRITE_TIMEOUT"
    THEN "WRITE_INIT" ELSE write[c]

\* A binding request that does not nominate.
OnBindingRequest(c) ==
  /\ MayRead(PortOf(c))
  /\ StateChange(c, "READABLE", Restarted(c))
  /\ HasRead(PortOf(c))
  /\ UNCHANGED <<modeVars, ports, remotes, conns, flagVars, waiting, started,
                 portRole, pruned, unanswered, outstanding, rtt, timers,
                 ownerVars>>

\* A binding request with USE-CANDIDATE, on a port that is controlled:
\* OnUseCandidate switches to the connection if it is writable and otherwise
\* remembers it.
OnUseCandidate(c) ==
  /\ MayRead(PortOf(c))
  /\ StandardIce /\ portRole[PortOf(c)] = "CONTROLLED"
  /\ LET w == Restarted(c)
         changed == <<"READABLE", w>> # <<read[c], write[c]>>
         follow == changed /\ pending = c /\ role = "CONTROLLED"
         switch == w = "WRITABLE" /\ best # c
     IN /\ read' = [read EXCEPT ![c] = "READABLE"]
        /\ write' = [write EXCEPT ![c] = w]
        /\ best' = IF switch THEN c ELSE best
        /\ pending' = IF w # "WRITABLE" THEN c
                      ELSE IF switch \/ follow THEN NoConn ELSE pending
        /\ sortDirty' = (sortDirty \/ changed \/ switch)
        /\ queue' \in Posted(queue, sortDirty,
                             IF changed \/ switch THEN {c} ELSE {},
                             read', write')
  /\ HasRead(PortOf(c))
  /\ UNCHANGED <<modeVars, ports, remotes, conns, flagVars, waiting, started,
                 portRole, pruned, unanswered, outstanding, rtt, timers,
                 ownerVars>>

\* Data on a readable connection.
OnData(c) ==
  /\ MayRead(PortOf(c))
  /\ read[c] = "READABLE"
  /\ StateChange(c, "READABLE", Restarted(c))
  /\ HasRead(PortOf(c))
  /\ UNCHANGED <<modeVars, ports, remotes, conns, flagVars, waiting, started,
                 portRole, pruned, unanswered, outstanding, rtt, timers,
                 ownerVars>>

\* OnConnectionRequestResponse.  Other requests may remain outstanding.
OnPingResponse(c, newRtt) ==
  /\ MayRead(PortOf(c))
  /\ c \in outstanding
  /\ StateChange(c, read[c], "WRITABLE")
  /\ unanswered' = unanswered \ {c}
  /\ outstanding' \in {outstanding, outstanding \ {c}}
  /\ rtt' = [rtt EXCEPT ![c] = newRtt]
  /\ HasRead(PortOf(c))
  /\ UNCHANGED <<modeVars, ports, remotes, conns, flagVars, waiting, started,
                 portRole, pruned, timers, ownerVars>>

\* OnConnectionRequestErrorResponse with an error that is not recoverable.
OnPingError(c) ==
  /\ MayRead(PortOf(c))
  /\ c \in outstanding
  /\ StateChange(c, read[c], "WRITE_TIMEOUT")
  /\ outstanding' \in {outstanding, outstanding \ {c}}
  /\ HasRead(PortOf(c))
  /\ UNCHANGED <<modeVars, ports, remotes, conns, flagVars, waiting, started,
                 portRole, pruned, unanswered, rtt, timers, ownerVars>>

\* The last outstanding request is answered with a recoverable error, or
\* times out: nothing else changes.
OnPingTimeout(c) ==
  /\ c \in outstanding
  /\ outstanding' = outstanding \ {c}
  /\ ready' = {}
  /\ UNCHANGED <<channelVars, started, portRole, read, write, pruned,
                 unanswered, rtt, queue, timers, ownerVars>>

\* OnUnknownAddress: a binding request from an address that no connection of
\* the port has.  RFC 5245: a peer-reflexive candidate, paired with this port.
\* Google ICE: a new candidate for every port, and every pair with it counts
\* as pinged.
OnUnknownAddress(p, r) ==
  /\ MayRead(p)
  /\ p \in started /\ remotes # {}
  /\ <<p, r>> \in Pairs \ conns
  /\ LET pinged == IF StandardIce THEN {<<p, r>>}
                   ELSE Pairs \cap ((ports \cup {p}) \X {r})
         cs == conns \cup pinged
         r1 == [c \in Pairs |-> IF c \in pinged THEN "READABLE" ELSE read[c]]
         changed == {c \in pinged : read[c] # "READABLE"}
     IN /\ conns' = cs
        /\ remotes' = IF StandardIce THEN remotes ELSE Remember(r)
        /\ \E q \in Posted(queue, sortDirty, changed, r1, write) :
             SortConnections(cs, pinged, r1, q, sortDirty \/ changed # {})
  /\ HasRead(p)
  /\ UNCHANGED <<modeVars, ports, waiting, started, portRole, unanswered,
                 rtt, timers, ownerVars>>

-----------------------------------------------------------------------------
(* The worker thread: messages and timers.                                 *)

\* OnSort.
OnSort ==
  /\ queue # <<>> /\ Head(queue) = MSG_SORT
  /\ SortConnections(conns, {}, read, Tail(queue), sortDirty)
  /\ ready' = {}
  /\ UNCHANGED <<modeVars, ports, remotes, conns, waiting, started, portRole,
                 unanswered, rtt, timers, ownerVars>>

\* Variant (PointersAreLive): the pointer is left as it was.
ForgetNothing(pointer, c) == pointer

\* A pointer of the channel after connection c is deleted.
Forget(pointer, c) == IF pointer = c THEN NoConn ELSE pointer

\* Connection::OnMessage(MSG_DELETE) and OnConnectionDestroyed: only the loss
\* of the best connection asks for a sort.
OnConnectionDestroyed(c) ==
  /\ queue # <<>> /\ Head(queue) = MSG_DELETE(c)
  /\ conns' = conns \ {c}
  /\ pending' = Forget(pending, c)
  /\ best' = Forget(best, c)
  /\ sortDirty' = (sortDirty \/ best = c)
  /\ queue' = Tail(queue) \o
                (IF best = c /\ ~sortDirty THEN <<MSG_SORT>> ELSE <<>>)
  /\ read' = [read EXCEPT ![c] = "READ_INIT"]
  /\ write' = [write EXCEPT ![c] = "WRITE_INIT"]
  /\ rtt' = [rtt EXCEPT ![c] = DEFAULT_RTT]
  /\ pruned' = pruned \ {c}
  /\ unanswered' = unanswered \ {c}
  /\ outstanding' = outstanding \ {c}
  /\ ready' = {}
  /\ UNCHANGED <<modeVars, ports, remotes, flagVars, waiting, started,
                 portRole, timers, ownerVars>>

\* IsPingable (of a UDP connection, which is always connected).
IsPingable(c, r, w) ==
  w[c] # "WRITE_TIMEOUT" \/ (~writable /\ r[c] # "READ_TIMEOUT")

\* OnPing: update the states, ping one of the pingable connections if there
\* is any, and post the next MSG_PING.
OnPing ==
  /\ timers > 0
  /\ \E r1 \in ReadUpdates(conns, read), w1 \in WriteUpdates(conns) :
       LET changed == Changed(conns, read, r1, write, w1)
           pingable == {c \in conns : IsPingable(c, r1, w1)}
       IN /\ best' = Followed(r1)
          /\ pending' = StillPending(r1)
          /\ read' = r1
          /\ write' = w1
          /\ queue' \in Posted(queue, sortDirty, changed, r1, w1)
          /\ sortDirty' = (sortDirty \/ changed # {})
          /\ \E ping \in IF pingable = {} THEN {{}}
                         ELSE {{c} : c \in pingable} :
               /\ unanswered' = unanswered \cup ping
               /\ outstanding' = outstanding \cup ping
  /\ ready' = {}
  /\ UNCHANGED <<modeVars, ports, remotes, conns, flagVars, waiting, started,
                 portRole, pruned, rtt, timers, ownerVars>>

-----------------------------------------------------------------------------
Init ==
  /\ protocol \in Protocols /\ role \in InitialRoles
  /\ ports = {} /\ remotes = {} /\ conns = {}
  /\ best = NoConn /\ pending = NoConn
  /\ sortDirty = FALSE
  /\ writable = FALSE /\ readable = FALSE /\ wasWritable = FALSE
  /\ waiting = FALSE
  /\ started = {}
  /\ portRole = [p \in Ports |-> role]
  /\ read = [c \in Pairs |-> "READ_INIT"]
  /\ write = [c \in Pairs |-> "WRITE_INIT"]
  /\ pruned = {} /\ unanswered = {} /\ outstanding = {}
  /\ rtt = [c \in Pairs |-> DEFAULT_RTT]
  /\ queue = <<>> /\ timers = 0 /\ ready = {}
  /\ connecting = FALSE /\ gathering = FALSE
  /\ resets = 0 /\ restarts = 0 /\ roleChanges = 0

Next ==
  \/ OnSort
  \/ \E c \in conns : OnConnectionDestroyed(c)
  \/ Connect
  \/ SetIceCredentials
  \/ OnSignalingReady
  \/ \E newRole \in Roles : SetIceRole(newRole)
  \/ \E p \in Ports : OnPortReady(p) \/ OnPortDestroyed(p)
  \/ \E r \in Remotes : OnCandidate(r)
  \/ Reset
  \/ \E c \in conns : OnBindingRequest(c) \/ OnUseCandidate(c) \/ OnData(c)
  \/ \E c \in conns, newRtt \in Rtts : OnPingResponse(c, newRtt)
  \/ \E c \in conns : OnPingError(c) \/ OnPingTimeout(c)
  \/ \E p \in Ports, r \in Remotes : OnUnknownAddress(p, r)
  \/ OnPing

Spec == Init /\ [][Next]_vars

-----------------------------------------------------------------------------
(* Properties.                                                             *)

PortsOK ==
  /\ protocol \in Protocols /\ role \in Roles
  /\ remotes \subseteq Remotes
  /\ started \subseteq Ports /\ ports \subseteq started
  /\ portRole \in [Ports -> Roles]
  /\ ready \subseteq Ports
ConnsOK ==
  /\ conns \subseteq Pairs
  /\ \A c \in conns : PortOf(c) \in started
  /\ best \in Pairs \cup {NoConn} /\ pending \in Pairs \cup {NoConn}
  /\ read \in [Pairs -> ReadStates] /\ write \in [Pairs -> WriteStates]
  /\ pruned \subseteq conns /\ unanswered \subseteq conns
  /\ outstanding \subseteq conns
  /\ rtt \in [Pairs -> Rtts]
QueueOK == queue \in Seq(Messages)
FlagsOK ==
  /\ sortDirty \in BOOLEAN /\ waiting \in BOOLEAN
  /\ writable \in BOOLEAN /\ readable \in BOOLEAN
  /\ wasWritable \in BOOLEAN
CountersOK ==
  /\ connecting \in BOOLEAN /\ gathering \in BOOLEAN
  /\ timers \in Nat
  /\ resets \in Nat /\ restarts \in Nat /\ roleChanges \in Nat

TypeOK == PortsOK /\ ConnsOK /\ QueueOK /\ FlagsOK /\ CountersOK

SortQueued == Queued(MSG_SORT, queue)

\* sort_dirty_ never blocks a sort: while it is set, a MSG_SORT is queued, so a
\* change that RequestSort does not post for is still followed by a sort.
NoLostSort == sortDirty => SortQueued

\* best_connection_ and pending_best_connection_ never point to a deleted
\* connection (as long as the channel is not Reset).
PointersAreLive == {best, pending} \subseteq conns \cup {NoConn}

\* Whenever no sort is on its way, the flags the application sees agree with
\* the connections: the channel is writable exactly when its best connection
\* is, which UpdateChannelState asserts after every sort, and readable if any
\* connection is (see StaysReadable for the converse).
FlagsAgree ==
  ~SortQueued =>
    /\ writable <=> best # NoConn /\ write[best] = "WRITABLE"
    /\ (\E c \in conns : read[c] = "READABLE") => readable

\* The queue never holds a message for a connection that is gone, and every
\* useless connection has its MSG_DELETE queued.
DeletesAgree ==
  /\ \A c \in Pairs : Queued(MSG_DELETE(c), queue) => c \in conns
  /\ \A c \in conns : Useless(read[c], write[c])
                        => Queued(MSG_DELETE(c), queue)

\* A channel that may elect does not sit idle on a writable connection: when
\* no sort is on its way and some connection is writable, so is the best one,
\* and no other one is better.
ElectsTheBest ==
  MayElect /\ ~SortQueued
    => \A c \in conns : /\ best # NoConn
                        /\ ~(write[c] = "WRITABLE" /\ Better(c, best, write))

\* Sorting leaves one path per network: when the best connection is writable
\* and no sort is on its way, every other connection of its network that is
\* no more preferred has been pruned.
OnePathPerNetwork ==
  ~SortQueued /\ best # NoConn /\ write[best] = "WRITABLE"
    => \A c \in conns \ {best} :
         Network(c) = Network(best) /\ Preference[c] <= Preference[best]
           => c \in pruned

\* A controlled channel never elects, on any path: its best connection changes
\* only in the step in which the peer nominates the new one, or to the one
\* whose nomination is pending (or to none), and only a nomination makes it
\* pending.
ControlledFollowsPeer ==
  [][StandardIce /\ role = "CONTROLLED" =>
       /\ best' \notin {best, NoConn}
            => best' = pending \/ OnUseCandidate(best')
       /\ pending' \notin {pending, NoConn} => OnUseCandidate(pending')]_vars

-----------------------------------------------------------------------------
(* What comments and assertions of the code say, or a reader may expect,   *)
(* and the code does not do.                                               *)

\* OnConnectionRequestResponse on a pruned connection that is answered: "we
\* can always prune it again".  No connection stays writable beside a best
\* connection of its network that is at least as preferred.
PrunedAgain ==
  ~SortQueued /\ best # NoConn /\ write[best] = "WRITABLE"
    => \A c \in conns \ {best} :
         Network(c) = Network(best) /\ Preference[c] <= Preference[best]
           => write[c] # "WRITABLE"

\* The channel is readable only if a connection is.  It fails when a connection
\* is heard from after it has posted its MSG_DELETE, while a sort is asked for
\* already: the sort comes first, and OnConnectionDestroyed asks for no other.
StaysReadable ==
  ~SortQueued /\ readable => \E c \in conns : read[c] = "READABLE"

\* OnUseCandidate asserts that the channel is controlled when a nomination
\* reaches it.
UseCandidateAssertion ==
  [][\A c \in conns : OnUseCandidate(c) => role = "CONTROLLED"]_vars

\* kMinImprovement is "the minimum improvement in RTT that justifies a switch"
\* between connections that are otherwise equal.  (Of two that have the same
\* RTT too, the stable sort keeps the first one first, which First does not.)
SwitchNeedsImprovement ==
  [][OnSort /\ best' # best /\ best \in conns /\ best' \in conns
        /\ Tied(best, best', write') /\ rtt[best'] # rtt[best]
       => rtt[best'] + kMinImprovement <= rtt[best]]_vars

=============================================================================
