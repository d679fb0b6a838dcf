# The transport layer of libjingle, modelled in TLA+

This directory models the part of the repository that decides whether two
peers can talk at all, and what they can rely on when they do: the ICE agent of
libjingle, its STUN transactions and role conflicts, the DTLS handshake and the
reliable stream on top of it, and the threads all of this runs on. It is
event-driven C++ full of timers, late packets, blocking calls and objects that
delete themselves, and its unit tests drive it mostly along the paths its
authors had in mind. The modules below check it along the others.

File names without a directory are under `src/trunk/talk/p2p/base`, other
paths are relative to `src/trunk`.

## The system

The repository is a checkout of WebRTC (`webrtc`: voice and video engines,
codecs, RTP), libjingle (`talk`: sessions, transports, the PeerConnection API)
and everything they are built with (`third_party`, `tools`, `build`). The
control logic that is the project's own is in libjingle; the rest is signal
processing or vendored.

From the top down:

| Component | State | Operations | Hard because |
|---|---|---|---|
| PeerConnection, `WebRtcSession` (`talk/app/webrtc`) | descriptions, streams | create/set offer and answer | calls cross threads |
| `BaseSession`, `TransportProxy` (session.cc) | session state, transports per content, `role_switch_` | connect, mux, role conflicts | transports shared by contents (BUNDLE), both sides decide alone |
| `Transport` (transport.cc) | channel map with reference counts, `ready_candidates_`, `readable_`, `writable_`, `connect_requested_` | create, destroy, connect, reset channels; forward the channels' events | two threads, posted messages overtake calls |
| `DtlsTransport`, `DtlsTransportChannelWrapper` (dtlstransport.h, dtlstransportchannel.cc), `OpenSSLStreamAdapter` (`talk/base`) | `dtls_state_`, handshake | negotiate fingerprints, start, retransmit, open, close | packets before the descriptions, offers during the handshake |
| `P2PTransportChannel` (p2ptransportchannel.cc) | `connections_`, `ports_`, `remote_candidates_`, `best_connection_`, `pending_best_connection_`, `sort_dirty_`, flags | ports and candidates arrive, ping, sort, switch, prune, nominate, restart, reset | everything changes everything, in any order |
| `Connection` (port.cc) | read, write, pruned state, ping times | ping, response, data, timeouts, prune, destroy itself | timeouts race late answers |
| `Port` and its kinds (port.cc, stunport.cc, turnport.cc, relayport.cc, tcpport.cc) | lifetime, candidates, role, server state | gather, answer, relay | self-deletion, role conflicts |
| `StunRequestManager`, `StunRequest` (stunrequest.cc) | outstanding requests, retransmission count | send, retransmit, match, time out, clear | duplicated and late replies, deletion from callbacks |
| `BasicPortAllocator` (`talk/p2p/client`) | gathering phases per network | allocate, done | many ports fail or finish in any order |
| `PseudoTcp` (pseudotcp.cc) | segment list, buffers, windows, sequence numbers, timers | connect, send, receive, close | wrap-around, loss, reordering, path MTU |
| `Thread`, `MessageQueue` (`talk/base`) | queues, delayed messages, Sends, the wake-up signal | Post, Send, Clear, Quit, Stop | blocking Sends both ways, unlocked flags |

How they interact. The session runs on the *signaling thread*; channels,
connections, ports and STUN requests run on the *worker thread*. A call of the
Transport that needs an answer is a blocking `Send` to the worker; events of
the channels are `Post`ed to the signaling thread and handled there later.
Within the worker thread components call each other directly and through
synchronous signals; whatever must not happen in the middle of a handler is a
message to oneself: `MSG_SORT`, `MSG_PING`, `MSG_DELETE`, `MSG_STUN_SEND`. The
thread dispatches its queue until it is empty and then reads one packet from
every socket that is ready. The DTLS wrapper stands between `Transport` and the
ICE channel and shows the former the interface of the latter; `PseudoTcp` uses
a channel for its datagrams.

What makes each component correct:

* STUN transactions: one timer per request, one outcome per request, on
  schedule; nothing happens to a deleted request.
* Connection: it is not given up before its timeouts, and does not outlive its
  use.
* Channel: a change is always followed by a sort; the flags the application
  sees agree with the connections; the best connection is a live one, the best
  one (controlling) or the nominated one (controlled); redundant paths are
  pruned.
* Transport: what the session sees on its thread is what the channels did on
  theirs, in order, once, and in the end.
* Roles: when both sides claim the same role, exactly the one that loses by
  tie-breaker gives way, whatever is lost or duplicated.
* DTLS: both ends do it or neither does; once both do, nothing goes in clear,
  and a channel reported usable is an open one.
* Threads: a message is handled once, by the right thread; `Send` returns when
  its message was handled and not before; no wake-up is lost; two threads that
  `Send` to each other do not wait for ever.
* PseudoTcp: what is read is a prefix of what was written, everything is read
  in the end or the connection ends, and a graceful close loses nothing.

## Modules

| Module | Models | State ↔ code |
|---|---|---|
| `StunRequest` | stunrequest.cc, `ConnectionRequest::GetNextDelay` of port.cc | `requests` is `requests_`, `count`/`timeout` are the members of each request, `object` the lifetime of the C++ objects, `pending` the `MSG_STUN_SEND`s on the thread's queue with the ticks left |
| `Connection` | class `Connection` of port.cc | `read`, `write`, `pruned`; `pings` is `pings_since_last_response_` and `heard` the later of `last_ping_received_` and `last_data_received_`, both as ages; `doomed` says that `MSG_DELETE` is queued |
| `P2PTransportChannel` | p2ptransportchannel.cc with its connections | one variable per member; `protocol` is `protocol_type_`; `queue` is the worker's queue as far as it concerns the channel, `timers` the number of `MSG_PING`s, `ready` the sockets the thread has still to read in this round |
| `Transport` | transport.cc between both threads | `refs` and `allocated` are the `ChannelMapEntry`s, `held` is `ready_candidates_`, one queue per thread |
| `IceRole` | `Port::MaybeIceRoleConflict` and the 487 responses (port.cc), `Transport::SetIceRole`, `BaseSession::OnRoleConflict` (session.cc), on two sides | `role` is `ice_role_` of each transport and its ports, `switched` is `role_switch_`, `conflicts` the queued `MSG_ROLECONFLICT`s, `changing` the rest of the loop in `OnRoleConflict`; `checks` and `errors` are the network |
| `Dtls` | dtlstransport.h, dtlstransportchannel.cc, opensslstreamadapter.cc, at two ends | `dtls_state`, `readable`, `writable` are the wrapper's, `ssl` is `state_` of the adapter, `impl` the state of the ICE channel below, `flight` what OpenSSL would retransmit, `mail` the answers under way |
| `Thread` | thread.cc, messagequeue.cc, physicalsocketserver.cc of `talk/base` | `stack` is each thread's C++ calls, innermost first, `msgq`, `dmsgq`, `sendlist`, `hasSends`, `fStop` the members of the queue, `signaled` and `fWait` those of the socket server, `ready` the flags the senders wait for |
| `Messaging` | what `Thread` promises | `phase` of each message: idle, waiting, running or served, handled, over |
| `PseudoTcp` | pseudotcp.cc, driven as in `talk/session/tunnel/pseudotcpchannel.cc` | an end is a record with one field per member; its methods are functions of such records; `net` is the datagrams under way, `path` the largest the path carries, 0 if it carries none. `failed` is not in the code: it records that the last segment was refused |

Every module has an `MC` module that instantiates it (`MCStunRequest`,
`MCConnection`, `MCP2PTransportChannel`, `MCTransport`, `MCIceRole`, `MCDtls`,
`MCThread`, `MCPseudoTcp`); the `.cfg` files give the constants.
`StunRequestProofs`, `ConnectionProofs`, `P2PTransportChannelProofs`,
`TransportProofs`, `IceRoleProofs`, `DtlsProofs`, `ThreadProofs` and
`PseudoTcpProofs` hold the theorems.

One action is one handler, with all that it calls. `SortConnections` for
instance is the whole of the C++ function: `UpdateState` of all connections,
the messages those changes post, the sort, the switch, the pruning, the
messages that posts, and the update of the channel's flags. `NotifyPacket` of
`PseudoTcp` is one datagram's way through `process`, with what `Control`,
`Acked`, `Retransmit` and `Accept` make of the end, `attemptSend` and `packet`.
Only `Thread` is finer: there a step is what happens under one
lock, or one unlocked access to shared memory, since that is what its hazards
are about.

**Refinement.** `Thread` implements `Messaging`: `Promise == INSTANCE Messaging`
maps every message to a phase by where it is (a queue, a send list, a stack);
the run `thread` checks `Delivers == Promise!Spec`, and `ThreadProofs` proves
it. The mapping says when a
message may move at all: into a thread's queue only by a call, out of it only
by being handled, by its handler's destruction, or by a thread that was told
to quit. What the other modules assume of "the thread dispatches its queue" is
this specification.

Before some definitions there is a *variant*: the same definition with a
plausible mistake (a dropped guard, an off-by-one, a missing reset). No
specification uses it. Put in the place of the definition, it violates the
property it names: this shows that the property depends on that piece of code.
`PROJECT.json` lists the pairs.

### What is abstracted

* **Time.** `StunRequest` and `Connection` count ticks, and dispatch what is
  due before the next tick. `Connection` keeps timestamps as ages and caps them
  at the value above which no test tells them apart. `P2PTransportChannel`,
  `Dtls`, `PseudoTcp` and `Thread` leave time out: a timer that is armed may
  expire at any moment (in `Thread`, delayed messages in the order in which
  they are due). What they satisfy holds under every timing.
* **Packets.** A STUN message is its kind; whether it carries valid credentials
  is decided before the handler is reached. The network loses, delays,
  duplicates and reorders. A DTLS packet is the flight it belongs to, and
  OpenSSL is an external state machine of four flights with retransmission.
* **Addresses and priorities.** A candidate is a model value; `priority()` and
  the generation are one rank (`Preference`), since the code only compares
  them. The stable sort's order among equal connections is left open (`First`).
* **Bytes.** Byte number k of a stream of `PseudoTcp` is the number k, so that
  a byte read at a wrong offset is a wrong number. A CONNECT is one byte. The
  congestion window is any value from one segment up each time it is read, and
  any duplicate ack may be the one that starts a fast retransmit: congestion
  control decides when to send, never what.
* **Refused datagrams.** `TcpWritePacket` maps a send that would block to
  success, so that the datagram is lost, and any error but `EMSGSIZE` to
  `WR_FAIL`. The channel below may refuse any segment: `Chances` chooses, for
  each call of `attemptSend`, how many bytes are in flight when it begins to
  refuse (a segment sent before that is on its way), and with which `m_mss` it
  stops, of those `transmit` tries; `taken` and `fast` choose for a
  retransmission. `attemptSend` then gives up, a retransmission ends the
  connection. With `path = 0` no segment ever fits ("MTU too small").
* **Sequence numbers** are counted modulo `SeqSpace`. The code compares them by
  plain `<` and `>`, and takes their differences unsigned; so does the model,
  modulo `SeqSpace`.
* **Freed memory.** After `Reset`, `pending_best_connection_` points to a
  deleted object. A later connection may or may not be allocated there: the
  model chooses.
* **`Connection` beside `P2PTransportChannel`.** The former has the timeouts
  and one connection, the latter many connections and no time; both have the
  same read and write states. The channel's steps appear in `Connection` as
  calls that may come at any time, except that the ping timer fires in every
  tick.
* **Callbacks of `StunRequest`** may send one further request, or do nothing
  with the manager (`FollowUps`). One that clears or destroys the manager it is
  called from is not modelled.
* **Handlers of `Thread`** do any sequence of Post, PostDelayed, Send, Clear
  and Stop; a message is used once. The lifetime of the `AutoThread` that
  `Thread::Send` makes for a caller without a thread (thread.cc:395) is left
  out.

## Runs

Bounds are chosen so that every handler runs in every interesting order: what
can go wrong here takes two actors and one thing happening at the wrong moment,
not many of them.

| Run | Instance | Shows |
|---|---|---|
| `stun` | two requests and a ping, 4 sends, backoff 1, 2, 4, 4 | timers, map and objects agree; one outcome per request; the schedule of `stunrequest_unittest.cc`; silence after the manager's destruction; every request ends |
| `connection` | read/write/connect timeouts 5/4/2 ticks, 2 failures, RTT 0 or 1 | no state is left too early, useless connections are deleted, heard ones are kept, those of a silent peer go in the end |
| `channel` | RFC 5245, both roles, two ports on one network, one preferred | no lost sort, live pointers, right flags, one path per network; a controlling channel elects the best connection, a controlled one follows its peer |
| `channel_owner` | both ICE protocols, one port, candidates of two generations; one `Reset`, one ICE restart, one role change | the same invariants around the calls of the Transport |
| `transport` | two components with up to two references each, two candidates, two flag changes, one `DestroyChannel` | the writable bit, candidates once and in order, the end of gathering |
| `transport_live` | two components, a restart, a `ResetChannels` | no candidate that is held back is left behind; a channel that asks for signaling gathers in the end |
| `ice_role` | two contents, tie-breakers 1 and 2, any initial roles, checks and 487s lost, late and duplicated | only the loser switches, and no transport stays in conflict |
| `dtls` | every pair of fingerprints (none, right, wrong, unknown algorithm), two offers, provisional answers, one lost packet, ICE that comes and goes | both ends or neither; nothing in clear; usable means open; the handshake completes |
| `thread` | two threads, one of which may be stopped, three messages, one of them delayed | refinement of `Messaging`; no lost wake-up; every message and every `Send` ends |
| `pseudotcp` | three bytes from client to server, segments of one byte, buffers of two, a close at any time, two datagrams under way, any segment may be refused | the stream is intact, the advertised window fits the buffer, a graceful close loses nothing |
| `pseudotcp_live` | segments of one or two bytes of which the path may carry only the smaller or neither, any segment may be refused, sequence numbers modulo 4 that wrap | the segment list and the buffer stay in step; everything written is read or the connection ends, except that a segment refused when nothing was in flight may wait for ever (`Stranded`) |
| `pseudotcp_server` | the server writes first, three bytes | violation, see below |

Two pairs are enough for the channel: its rules compare connections pairwise,
and what it keeps is one pointer to the best, one to the nominated connection
and one bit each for the sort and the flags. One restart, one reset and one
role change each separate an earlier life from a later one. Two components are
what a content has (RTP and RTCP); two references are what BUNDLE creates.
The timeouts of `connection` keep the order of the real ones (15 s to write
time-out, 5 s and 5 failures to unreliable, 30 s to read time-out) on a scale
where each one separates several pings. Two threads and three messages are
enough for both to `Send` to each other while a third message is in a queue.
Three bytes against buffers of two fill the send buffer, close the window and
open it again. Two offers separate a first negotiation from a renegotiation.

Deadlock is not checked by TLC: all of these systems may come to rest (a
connection that is deleted, a manager that is destroyed, bounds that are used
up, everything delivered). Waiting for each other is excluded by liveness: `EveryMessageEnds` says
that a `Send` returns, unless it is to a thread that is itself blocked in
`Join` (`Deadlocked`).

### Fairness

* `stun`: the thread dispatches due messages (`OnMessage*`) and the clock
  advances (`Tick`); nothing is assumed of the network or the owner. This is
  the loop of `MessageQueue::Get`.
* `connection`: the queue is dispatched, the ping timer fires
  (`P2PTransportChannel::OnPing` re-posts itself), and a connection that can be
  pinged again and again is pinged again and again, because the channel pings
  the one it pinged longest ago (`FindNextPingableConnection`). The last one is
  a strong fairness assumption on `OnPing`.
* `transport_live`: both threads dispatch their queues, and an allocator
  session ends, as all of its ports' requests time out.
* `ice_role`: both threads dispatch (weak fairness of `Ping`, `OnRoleConflict`
  and `SetIceRole`), and of the checks, which are sent again and again,
  some arrive (strong fairness of `ReceiveCheck`). Nothing is assumed of the
  487s.
* `dtls`: the retransmission timer fires and handshake packets that arrived
  are read; the number of losses is bounded, so one of the retransmissions
  arrives.
* `thread`: the operating system schedules the threads, handlers return and
  time passes (weak fairness of `Run` for each thread and of `Elapse`).
* `pseudotcp_live`: as long as a timer is armed or a user was notified that
  there is something to read, some timer expires or some such user reads (weak
  fairness of the disjunction of `Timeouts` and `Recv`, over both ends). The
  clock of `PseudoTcpChannel` runs and readers read until there is nothing
  left. No datagram has to arrive: a connection that hears nothing ends after
  `MaxXmit` transmissions. Nor does a user have to write.

### Where the code does something else than it says

| Run | Test | What happens |
|---|---|---|
| `pseudotcp_server` | pseudotcp_unittest.cc:254, what is received is what was sent | any packet takes a server from `TCP_SYN_RECEIVED` to `TCP_ESTABLISHED`, also one that does not acknowledge its CONNECT; if that CONNECT was lost, the server's first data is saved ahead of it at the client, and the retransmitted CONNECT moves `m_rcv_nxt` but not `m_rbuf`: the client reads bytes nobody wrote |

Further configurations, not among the runs of `PROJECT.json`, each end in a
violation of a sentence of a comment or an assertion that the code does not
keep:

| Configuration | Comment or assertion | What happens |
|---|---|---|
| `MCConnectionRestart` | port.cc:975 "start up again" | the restarted write checks time out at once, since the old pings still count |
| `MCChannelPruned` | port.cc:1199 "we can always prune it again" | a pruned connection is never pruned again |
| `MCChannelRoles` | p2ptransportchannel.cc:583 `ASSERT` | ports of an earlier session keep their role |
| `MCChannelRtt` | p2ptransportchannel.cc:60 "minimum improvement" | the hysteresis has the wrong sign (line 148) |
| `MCChannelReadable` | p2ptransportchannel.cc:1177 "If this is currently the best connection, then we need to pick a new one" | for other connections no sort is requested: with three ports, one that is heard from after it has posted `MSG_DELETE` makes the channel readable in the sort that comes before its deletion, and the channel stays readable without any readable connection until the next sort (`StaysReadable`). `FlagsAgree` therefore asks of `readable` only that a readable connection sets it |
| `MCTransportLost` | transport.cc:583 "If all channels belonging to this Transport got signal, then forward" | a late request for signaling clears the mark of a channel that is already done (line 523); completion is never reported |
| `MCPseudoTcpAcks` | pseudotcp.cc:857 "Conditions were acks must be sent" | the early return of Nagle's rule in `attemptSend` (line 1110) comes before the ack that was owed, which is dropped |
| `MCPseudoTcpRefused` | pseudotcpchannel.cc:517 `ASSERT(false)`, the channel below refuses nothing | in a build without assertions `attemptSend` leaves the refused segment unsent ("TODO: consider closing socket", pseudotcp.cc:1131); with nothing in flight `m_rto_base` is 0, no timer runs, and what was written may wait for ever in an open connection (`AlwaysDelivered`). `Delivered` excepts this outcome, and no other |
| `MCIceRoleLate` | session.cc:473 | a transport created after the roles were switched gets the initial role, and `role_switch_` keeps the new conflict from being resolved |
| `MCDtlsOpen` | dtlstransportchannel.cc:346 "Once the DTLS handshake completes, the state is that of the impl again" | the end of the handshake reports the channel readable and writable whatever the impl is by then (lines 479–482) |

Seen with the same modules, without a configuration of their own:

* `CompleteMeansGathered` speaks of the time until the first restart or reset.
  After an ICE restart the end of gathering may be posted while the other
  channel still gathers, since its `candidates_allocated` of the previous round
  is cleared only by its own `MSG_REQUESTSIGNALING`.
* `readable()` is not re-evaluated when a readable channel is destroyed
  (`DestroyChannel_w` looks at the write state only), although transport.h:212
  says both bits are the ORs of the channels' bits. Hence there is a
  `WritableReported` and no `ReadableReported`.
* `Reset` of a channel leaves `pending_best_connection_` pointing to a deleted
  connection (`PointersAreLive` fails with `MaxResets = 1`, and a connection
  that nobody nominated may become the best one), and the `Connect` after it
  starts a second ping timer. `ResetChannels` leaves a `MSG_CANDIDATEREADY`
  behind that its handler asserts cannot come. Both are public operations that
  nothing in this repository calls. Nor does anything call the DTLS wrapper's
  `Reset`.
* At the wrap of PseudoTcp's sequence numbers the sender's `m_snd_una` stops,
  since acks are compared by plain `>` (pseudotcp.cc:727): the connection
  retransmits and ends. It is not corrupted: `InOrder` and
  `SegmentsAreTheBuffer` hold with six bytes modulo four.
* DTLS negotiation refuses more than it must. A local provisional answer that
  is followed by an answer, or a new offer during the handshake, sets the same
  identity again, which `SetLocalIdentity` refuses in `STATE_ACCEPTED` and
  `STATE_STARTED`; the session then fails. A provisional answer with a fingerprint to
  an offer without one is accepted and only the final answer is refused. A new
  offer on a channel without DTLS leaves it writable while `SendPacket` fails
  in `STATE_OFFERED`. The result of `SetRemoteFingerprint` in
  `DtlsTransport` and that of `ContinueSSL` in `OnMessage` are ignored.
* The DTLS handshake would never start if the impl became writable before the
  wrapper was accepted; the session prevents it by saving remote candidates
  until both descriptions are set (talk/app/webrtc/webrtcsession.cc:732–739).

Type invariants are part of every module. They are checked and proved for
`StunRequest`, `Connection` and `IceRole`, and proved for `Transport`,
`P2PTransportChannel` and `Thread`; the `TypeOK` of the others holds in their
runs too and can be added to any configuration, but no run is listed for it.

## Proofs

TLAPS checks eight modules for every value of the constants that satisfies the
named assumptions (`ConstantsAssumption`, `TimeoutsAssumption`,
`ChannelAssumption`, `TransportAssumption`, `TiebreakerAssumption`,
`DtlsAssumption`, `ThreadAssumption`, `PseudoTcpConstants`): any set of
requests, ports, candidates, components, contents or threads, any number of
calls, sends, messages, bytes, offers and losses, any delays, timeouts, segment
sizes and buffers.

* **STUN transactions** (`StunRequestProofs`). `StunTypeCorrect`, `StunTimers`,
  `StunOutcome` and `StunSilence` follow from one inductive invariant,
  `StunInv`, their conjunction. Its parts lean on each other: the delays stay
  natural numbers in a tick only because each queued timer is one of a live
  request and not yet due (`OneTimerPerRequest`), and a callback is a request's
  first only because the map holds live requests and a request is deleted in
  the step that calls it (a reply that finds no entry is dropped). The proof
  has a lemma on `Register`, the one operator that creates and destroys
  requests, one on a tick, one on a callback, and one case per action.
  `StunSchedule` is about the timing: with k transmissions made the next message
  is due exactly `TotalDelay[k]` after the first, the sum of the doubling, capped
  delays. `TotalDelay` is a recursive function, so its recursion equation has to
  be proved: a function that satisfies it exists (`SumsFunction`), by induction
  in the form "a nonempty set of naturals has a least element". `ScheduleInv`
  adds to `StunInv` what `count_` and `timeout_` tell about a request: one not
  sent yet has not aged, only the last transmission sets `timeout_`, and the
  timing override of `ConnectionRequest` leaves `count_` alone.
* **Connections** (`ConnectionProofs`). `ConnectionNotForgotten` is inductive
  with the types: each action that changes a state goes through `SetState`.
  `ConnectionPatience` is an action property. It needs an invariant that links
  the code's list of pings to the time of the last response, which the code
  does not look at: `PingsAreNewer`, no ping in `pings_since_last_response_` is
  older than the last response (it suffices to say so of the first). Then the
  age test of `UpdateState` on the first ping bounds the time without a
  response. `ConnectionInv` is the types, `UselessIsDoomed` and
  `PingsAreNewer`. `ConnectionHeard`, that only `Destroy` ends a connection its
  peer still talks to, needs one more: a read state that timed out means
  silence for `READ_TIMEOUT`, or `Destroy` set it and `MSG_DELETE` is queued
  (`TimedOutIsUnheard`); packets may revive the former and the latter alike.
* **The channel** (`P2PTransportChannelProofs`). `SortsAreNotLost`,
  `PointersLive`, `DeletesMatch`, `FlagsMatch`, `OnePath`, `Elected` and
  `ControlledFollows` hold for any set of ports and remote candidates, both
  protocols and any number of resets, restarts and role changes (`PointersLive`
  of the nominated connection only without a reset, and `Elected` while the
  role has not changed; see above for the former). `ChannelInv` is the types
  with `Safe`: the pointers are live, nothing has been posted or chosen before
  `Connect` (`Unconnected`), no `MSG_DELETE` is queued twice (`DeletesOnce`: a
  second copy would outlive its connection), and the properties themselves,
  because a property that speaks of the time between sorts is kept by every
  other action only since whatever disturbs it asks for a sort (`NoLostSort`).
  All actions touch the queue in two ways only, `Posted` and the removal of its
  head, for which there are lemmas; what `SortConnections` establishes is a
  second group of lemmas about `First`, `ShouldSwitch` and `Losers`.
* **Transport** (`TransportProofs`). `TransportWritable`, `TransportHeld` and
  `TransportOrder` say what the session can rely on though everything reaches
  it through a queue, and though ICE restarts and resets, which the run
  `transport` leaves out, come in between. `TransportInv` is the conjunction of the three
  with the types; of the types the part that matters is that only a channel
  that exists has flags, so that `GetTransportState_s`, which looks at the
  channels there are, sees every flag that is set. A step either posts messages
  (`PostKeeps`) or handles the first one (`HandlingKeeps`); `Untouched` deals
  with the many steps that leave flags and candidates alone, or post the
  message that makes up for the change. For the order of the candidates, those
  announced and those held are one increasing list (`OrderMeans`), to which a
  new candidate is appended and whose end `ResetChannels` cuts off.
  `TransportComplete`, the end of gathering, is an action property with an
  invariant of its own, `GatherInv`: until the first restart or reset a channel
  counted as allocated has been signalled as such, one that waits for signaling
  has not begun to gather, and none has before the client connects.
* **Roles** (`IceRoleProofs`). `LoserSwitches` says that only the side that
  loses by tie-breaker reverses its roles, `NeverBothSwitch` that the two sides
  never both do. That a side has not switched wrongly follows only from what is
  under way to it: `IInv` adds that every 487 and every `MSG_ROLECONFLICT` is
  for a loser (`OnlyLosersHear`), that a check carries a role its sender has or
  had (`ChecksAreKnown`), and that roles are reversed only after `role_switch_`
  is set (`ChangesFollowSwitch`). The step that matters is a check that
  arrives: `ConflictBlamesTheLoser` shows that whoever `MaybeIceRoleConflict`
  blames is the loser, and `OneLoser` that there is only one, since the
  tie-breakers differ. (They are 64 random bits; equal ones are the case
  `TiebreakerAssumption` excludes.)
* **DTLS** (`DtlsProofs`). `ClearNeverDelivered` and `UsableIsOpen` speak of
  calls in which both descriptions have a fingerprint. `SecureInv` says why
  nothing goes in clear although the wrappers start out passing packets
  through: an end that does not have both descriptions has its ICE channel
  down, so that it sends nothing; an end that has them has left `STATE_NONE`;
  an answer under way means that the answerer has both. Hence no packet in
  clear is ever on the network, and the readable and writable flags are set
  only by `SE_OPEN` or by an open wrapper that mirrors its impl. `Agreement` is
  about all calls. Where a description lacks a fingerprint, `ClearInv` takes
  the place of `SecureInv`: the answerer stays in `STATE_NONE` unless its answer
  is refused, and the offerer has left it only while no answer to its last
  offer has arrived, since every answer takes it back (`NegotiationRetreats`).
* **Threads** (`ThreadProofs`). `WakeUpsAreNotLost`: a thread that sleeps has
  nothing to do. There is one signal per thread and there may be many Waits on
  its stack, so the invariant `ThreadInv` looks at all calls of the stack, not
  the innermost one only. `Nested` says which call may be above which.
  `AnswersWake`: a `Send` whose message has been answered finds the signal, or
  a `Send` above it that has waited will signal again (thread.cc:433, the
  repair the variant `SignalLost` leaves out). `PostsWake`: a message loop that
  will sleep without another look, or sleeps, has empty queues or the signal.
  `SendsFlagged` and `SendsWake` deal with `has_sends_`, which is read without
  the lock, and with a sender that has pushed its message and not yet called
  `WakeUp`. `OneSender` makes sure that an answer wakes the thread that waits
  for it: no two stacks hold a `Send` of the same message. Since `Sends` nest
  to any depth, most lemmas are about sequences: what pushing, popping and
  replacing the innermost call does to a property of all calls.
* **Delivery** (`ThreadProofs`). `ThreadsDeliver`: `Thread` implements
  `Messaging`. The phase of a message is computed from where it is, so a step
  could lose, duplicate or revive a message only if it could be in two places.
  `MessagesAreInOnePlace` excludes that: `Placed` says that a message occurs at
  most once over all queues, send lists and stacks, that what is queued was
  posted and what is on a send list was sent, and that a message that was sent
  belongs to one `Send` at most. With it the phase is a function of the place
  (one lemma for each place), and each action is shown to move at most the
  messages it takes out of a queue or off a list, in a step of `Messaging`. The
  actions that move several at once are `Clear`, which drops all messages of a
  handler, and the end of a thread, which drops what it left in its queues.

* **PseudoTcp** (`PseudoTcpProofs`). The two ends never see each other's state,
  only datagrams of any age, so the invariant `Inv` says of each end, and of
  every datagram under way, what the other may rely on for ever: the numbers it
  may acknowledge (`Acks`: ends of segments that were transmitted, or below
  `m_snd_una`) and the room it was promised (`Room`: up to `m_rcv_nxt +
  m_rcv_wnd`, which never moves back). `Sound` is what an end keeps for itself:
  the segments of `m_slist` are the bytes of the send buffer in order
  (`Chained`), the transmitted ones are those before `m_snd_nxt` (`Marked`), and
  window and buffer agree. `Got` is what it received: the readable bytes follow
  the ones that were read, and each segment of `m_rlist` is in the buffer at its
  distance from `m_rcv_nxt` (`Holds`). `Stated` and `GreetInv` are the
  handshake.

  The proof has three layers. The first shows of each function of the code
  (`Split`, `transmit`, `queue`, `Free`, `Recover`, `Trim`, ...) what it makes of
  its arguments, then of each method that it keeps `Sound` and `Got` and takes
  nothing back (`Grows`). The loops of `attemptSend` and `Recover` are recursive
  functions; what holds after k turns is proved by induction in the form "a
  nonempty set of naturals has a least element". The second layer shows that a
  *turn* of an end, in which it makes of itself what a method returned and its
  datagrams are put on their way, keeps the invariant of both ends and of all
  datagrams (`TurnKeeps`). The third shows that each action is such a turn.
  `BufferIsCut`, `WindowsFit`, `ClosesGracefully`, `ServerReadsInOrder` and
  `ReadsInOrder` follow from the invariant. Refused segments are covered: one
  is cut and left where it is (`CutNextSound`, `RefuseNextSound`), which keeps
  the end `Sound`.

  Two hypotheses are about the constants. `Short`: a stream, its CONNECT
  counted, is shorter than `SeqSpace`, 2^32 in the code, which compares sequence
  numbers by plain `<` and so has no meaning for longer ones.
  `Bytes["server"] = 0`, of `ReadsInOrder` only: the client's CONNECT is the
  first thing the server hears, but the server's may be overtaken by its data,
  and then the code goes wrong (run `pseudotcp_server`). `ServerReadsInOrder`,
  and all other theorems of the module, do without it.

Only model-checked:

* liveness (`EveryRequestEnds`, `SilentPeerIsForgotten`, `EveryChannelGathers`,
  `RolesSettle`, `HandshakeCompletes`, `EveryMessageEnds`, `Delivered`), which
  TLAPS cannot prove under fairness;
* the wrap-around of PseudoTcp's sequence numbers, which `Short` excludes from
  its theorems: the run `pseudotcp_live` counts them modulo 4 and writes three
  bytes after the CONNECT, so that the number after the last byte is 0 again;
* the `TypeOK` of `PseudoTcp`. Its types and the bounds of its buffers are part
  of `Inv` (`Typed`, `Sending`, `Sound`); that the last two numbers it names,
  the peer's window and the last ack, are below `SeqSpace` is not;
* `AckOwed`, which the code does not keep (`MCPseudoTcpAcks`).

## Plan

Done: `StunRequest`, `Connection`, `P2PTransportChannel`, `Transport`,
`IceRole`, `Dtls`, `Thread` and `PseudoTcp`, with proofs of their safety
properties; `Messaging`, with the proof that `Thread` implements it.

Left, in this order:

1. An abstract specification of a request ("answered, timed out or dropped,
   once") that `StunRequest` implements.
2. `PingSchedule`: `FindNextPingableConnection` with the ping times of several
   connections. Properties: no pingable connection starves (which discharges
   the fairness assumed in `Connection`), and a pair that works becomes
   writable.
3. `Port` lifetime with the allocator session, then the end-of-gathering
   signal of `BasicPortAllocatorSession`, composed with `Transport`.
4. `TurnPort` allocations and channel bindings; `RelayPort`'s list of servers;
   the rest of `BaseSession` and `TransportProxy`.

## Not modelled

The voice and video engines (`webrtc`), media channels, codecs and RTP, because
they compute on data rather than decide; XMPP and the Gingle/Jingle parsers;
the build, tools and third-party code. Together these are by far most of the
repository's lines.

Of the modelled classes: statistics, logging, socket options; in `Transport`
the negotiation of descriptions other than fingerprints, remote candidates and
route changes; in `P2PTransportChannel` the order of pings, remote credentials,
packet forwarding and TCP connections that are not connected yet; of
`Connection`, `state_`, which only `ToString` reads; of `PseudoTcp`, window
scaling, congestion control, RTT estimation and wall-clock timeouts; of the
DTLS adapter, key export, peer certificates beyond their fingerprint, and the
stream interface; of `Thread`, priorities, thread-local storage and the sockets
themselves (a socket event is a message).

## Running

    tlc -workers 2 -config MCChannel.cfg MCP2PTransportChannel
    tlc -workers 2 -config MCThread.cfg MCThread
    tlc -workers 2 -config MCPseudoTcpServer.cfg MCPseudoTcp
    tlapm StunRequestProofs.tla
    tlapm ConnectionProofs.tla
    tlapm TransportProofs.tla
    tlapm IceRoleProofs.tla
    tlapm DtlsProofs.tla
    tlapm P2PTransportChannelProofs.tla
    tlapm ThreadProofs.tla
    tlapm PseudoTcpProofs.tla

A configuration `MC<name>.cfg` belongs to the module `MC<component>` of its
prefix (`MCChannel*` to `MCP2PTransportChannel`). `dtls`, `channel`, `thread`,
`pseudotcp`, `transport` and `pseudotcp_live` take one to two minutes each on
two cores, the others less than half a minute. `ThreadProofs` and
`PseudoTcpProofs` take about ten minutes each, the other proofs one or two.
