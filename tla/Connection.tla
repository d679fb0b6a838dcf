----------------------------- MODULE Connection -----------------------------
(***************************************************************************)
(* One candidate pair: class Connection of talk/p2p/base/port.{h,cc}, its  *)
(* ping transactions and the two timers that decide its fate.              *)
(*                                                                         *)
(* A connection is readable while the peer's pings or data keep coming in  *)
(* and writable while its own pings keep being answered.  When it is       *)
(* neither it posts MSG_DELETE to itself.  The channel that owns it calls  *)
(* UpdateState and perhaps Ping from its ping timer, and Prune when a      *)
(* better connection is writable.                                          *)
(*                                                                         *)
(* Time is counted in ticks and timestamps are kept as ages, capped where  *)
(* the code no longer tells them apart.  The thread dispatches its queue   *)
(* before time passes, so no tick passes while MSG_DELETE is queued; but   *)
(* it goes through all ready sockets first, so a packet may still reach a  *)
(* connection that is about to be deleted.  An operator marked as a        *)
(* variant is a definition with a mistake in it, which the property it     *)
(* names detects.                                                          *)
(***************************************************************************)
EXTENDS Naturals, Sequences, FiniteSets

CONSTANTS
  READ_TIMEOUT,            \* CONNECTION_READ_TIMEOUT
  WRITE_CONNECT_FAILURES,  \* CONNECTION_WRITE_CONNECT_FAILURES
  WRITE_CONNECT_TIMEOUT,   \* CONNECTION_WRITE_CONNECT_TIMEOUT
  WRITE_TIMEOUT,           \* CONNECTION_WRITE_TIMEOUT
  RESPONSE_TIMEOUT,        \* CONNECTION_RESPONSE_TIMEOUT
  Rtts,                    \* values of ConservativeRTTEstimate, in ticks
  RemoteIceLite            \* remote_ice_mode_ = ICEMODE_LITE

ASSUME TimeoutsAssumption ==
  /\ READ_TIMEOUT \in Nat \ {0}
  /\ WRITE_CONNECT_FAILURES \in Nat \ {0}
  /\ WRITE_CONNECT_TIMEOUT \in Nat
  /\ WRITE_TIMEOUT \in Nat /\ WRITE_TIMEOUT > WRITE_CONNECT_TIMEOUT
  /\ RESPONSE_TIMEOUT \in Nat \ {0}
  /\ Rtts \subseteq 0..WRITE_TIMEOUT
  /\ RemoteIceLite \in BOOLEAN

VARIABLES
  alive,     \* the object has not been deleted
  read,      \* read_state_
  write,     \* write_state_
  pruned,    \* pruned_
  pings,     \* ages of the first pings in pings_since_last_response_
  requests,  \* ages of the outstanding ConnectionRequests
  heard,     \* age of the later of last_ping_received_, last_data_received_
  rtt,       \* ConservativeRTTEstimate(rtt_)
  doomed,    \* a MSG_DELETE for the connection is queued
  silent,    \* the peer is gone and nothing of it is left in the network
  polled,    \* the channel's ping timer has fired in this tick
  answered,  \* history: age of the last ping response
  fresh      \* history: the write checks were restarted in this tick and no
             \* ping was sent since

vars == <<alive, read, write, pruned, pings, requests, heard, rtt, doomed,
          silent, polled, answered, fresh>>

ReadStates  == {"READ_INIT", "READABLE", "READ_TIMEOUT"}
WriteStates == {"WRITABLE", "WRITE_UNRELIABLE", "WRITE_INIT", "WRITE_TIMEOUT"}

Oldest == WRITE_TIMEOUT + 1  \* no test tells ages above this one apart
Ages == 0..Oldest

-----------------------------------------------------------------------------
(* State changes.                                                          *)

\* Variant (DeletedOnlyWhenUnheard): CheckTimeout ignores the read state.
UselessUnwritable(r, w) == w = "WRITE_TIMEOUT"

\* Connection::CheckTimeout: neither readable nor ever likely to be writable.
Useless(r, w) == r \in {"READ_TIMEOUT", "READ_INIT"} /\ w = "WRITE_TIMEOUT"

\* Variant (UselessIsDoomed): only set_read_state calls CheckTimeout.
SetStateReadOnly(r, w) ==
  /\ read' = r
  /\ write' = w
  /\ doomed' = (doomed \/ (r # read /\ Useless(r, w)))

\* set_read_state and set_write_state: a change of either that leaves the
\* connection useless posts MSG_DELETE.  Further copies of the message change
\* nothing, since the first one deletes the object and with it the others.
SetState(r, w) ==
  /\ read' = r
  /\ write' = w
  /\ doomed' = (doomed \/ (<<r, w>> # <<read, write>> /\ Useless(r, w)))

\* Variant (WriteStatePatience): off by one, one failure less suffices.
TooManyFailuresEarly ==
  /\ Len(pings) >= WRITE_CONNECT_FAILURES - 1
  /\ pings # <<>> /\ pings[1] > rtt

\* TooManyFailures and TooLongWithoutResponse.
TooManyFailures ==
  /\ Len(pings) >= WRITE_CONNECT_FAILURES
  /\ pings[WRITE_CONNECT_FAILURES] > rtt
TooLongWithoutResponse(limit) == pings # <<>> /\ pings[1] > limit

\* Variant (SilentPeerIsForgotten): the read state is looked at only while
\* the connection is writable.
ReadAfterUpdateIfWritable ==
  IF read = "READABLE" /\ write = "WRITABLE" /\ heard >= READ_TIMEOUT
    THEN "READ_TIMEOUT" ELSE read

\* Connection::UpdateState: the read state, then the write state, which may
\* fall by two levels in one call.
ReadAfterUpdate ==
  IF read = "READABLE" /\ heard >= READ_TIMEOUT THEN "READ_TIMEOUT" ELSE read
WriteAfterUpdate ==
  LET w == IF /\ write = "WRITABLE"
              /\ TooManyFailures
              /\ TooLongWithoutResponse(WRITE_CONNECT_TIMEOUT)
             THEN "WRITE_UNRELIABLE" ELSE write
  IN IF /\ w \in {"WRITE_UNRELIABLE", "WRITE_INIT"}
        /\ TooLongWithoutResponse(WRITE_TIMEOUT)
       THEN "WRITE_TIMEOUT" ELSE w

\* P2PTransportChannel::IsPingable, given whether the channel is writable.
IsPingable(channelWritable, r, w) ==
  w # "WRITE_TIMEOUT" \/ (~channelWritable /\ r # "READ_TIMEOUT")

-----------------------------------------------------------------------------
(* Calls of the owning channel.                                            *)

\* SortConnections: UpdateState without a ping.
UpdateState ==
  /\ alive
  /\ SetState(ReadAfterUpdate, WriteAfterUpdate)
  /\ UNCHANGED <<silent, alive, pruned, pings, requests, heard, rtt, polled,
                 answered, fresh>>

\* P2PTransportChannel::OnPing: UpdateState, then another connection is
\* pinged, or this one cannot be.
OnPingOther ==
  /\ alive /\ ~polled
  /\ SetState(ReadAfterUpdate, WriteAfterUpdate)
  /\ polled' = TRUE
  /\ UNCHANGED <<silent, alive, pruned, pings, requests, heard, rtt,
                 answered, fresh>>

\* P2PTransportChannel::OnPing: UpdateState, then Connection::Ping.
OnPing(channelWritable) ==
  /\ alive /\ ~polled
  /\ SetState(ReadAfterUpdate, WriteAfterUpdate)
  /\ IsPingable(channelWritable, read', write')
  /\ pings' = IF Len(pings) < WRITE_CONNECT_FAILURES
                THEN Append(pings, 0) ELSE pings
  /\ requests' = requests \cup {0}
  /\ polled' = TRUE
  /\ fresh' = FALSE
  /\ UNCHANGED <<silent, alive, pruned, heard, rtt, answered>>

\* Connection::Prune.
Prune ==
  /\ alive /\ ~pruned
  /\ pruned' = TRUE
  /\ requests' = {}
  /\ SetState(read, "WRITE_TIMEOUT")
  /\ UNCHANGED <<silent, alive, pings, heard, rtt, polled, answered, fresh>>

\* Connection::ReceivedPing, called for an existing connection when a ping
\* from its remote address reaches another port (CreateConnection).
ReceivedPing ==
  /\ alive
  /\ heard' = 0
  /\ SetState("READABLE", write)
  /\ UNCHANGED <<silent, alive, pruned, pings, requests, rtt, polled,
                 answered, fresh>>

-----------------------------------------------------------------------------
(* Connection::OnReadPacket.                                               *)

\* The write state after a sign of life from the peer.
Restarted == IF ~pruned /\ write = "WRITE_TIMEOUT" THEN "WRITE_INIT" ELSE write

\* A binding request: answer, become readable, restart the write checks.
OnBindingRequest ==
  /\ alive
  /\ heard' = 0
  /\ SetState("READABLE", Restarted)
  /\ fresh' = (fresh \/ Restarted # write)
  /\ UNCHANGED <<silent, alive, pruned, pings, requests, rtt, polled,
                 answered>>

\* Anything that is not STUN, on a readable connection: data.
OnData ==
  /\ alive
  /\ read = "READABLE"
  /\ heard' = 0
  /\ SetState(read, Restarted)
  /\ fresh' = (fresh \/ Restarted # write)
  /\ UNCHANGED <<silent, alive, pruned, pings, requests, rtt, polled,
                 answered>>

\* A binding indication, on a readable connection.
OnBindingIndication ==
  /\ alive
  /\ read = "READABLE"
  /\ heard' = 0
  /\ UNCHANGED <<silent, alive, read, write, pruned, pings, requests, rtt,
                 doomed, polled, answered, fresh>>

\* OnConnectionRequestResponse: the answer to any outstanding request.  An
\* ice-lite peer sends no pings, so its answers count as such.
OnConnectionRequestResponse(age, estimate) ==
  /\ alive
  /\ age \in requests
  /\ requests' = requests \ {age}
  /\ SetState(IF RemoteIceLite THEN "READABLE" ELSE read, "WRITABLE")
  /\ heard' = IF RemoteIceLite THEN 0 ELSE heard
  /\ pings' = <<>>
  /\ rtt' = estimate
  /\ answered' = 0
  /\ UNCHANGED <<silent, alive, pruned, polled, fresh>>

\* OnConnectionRequestErrorResponse with a recoverable error: retry.
OnRecoverableError(age) ==
  /\ alive
  /\ age \in requests
  /\ requests' = requests \ {age}
  /\ UNCHANGED <<silent, alive, read, write, pruned, pings, heard, rtt, doomed,
                 polled, answered, fresh>>

\* OnConnectionRequestErrorResponse with any other error: give up writing.
OnFatalError(age) ==
  /\ alive
  /\ age \in requests
  /\ requests' = requests \ {age}
  /\ SetState(read, "WRITE_TIMEOUT")
  /\ UNCHANGED <<silent, alive, pruned, pings, heard, rtt, polled, answered,
                 fresh>>

\* Connection::Destroy, called by the allocator session that shakes its ports.
Destroy ==
  /\ alive
  /\ SetState("READ_TIMEOUT", "WRITE_TIMEOUT")
  /\ UNCHANGED <<silent, alive, pruned, pings, requests, heard, rtt, polled,
                 answered, fresh>>

-----------------------------------------------------------------------------
(* The thread and the clock.                                               *)

\* Connection::OnMessage(MSG_DELETE): SignalDestroyed, delete this.
OnMessageDelete ==
  /\ alive /\ doomed
  /\ alive' = FALSE
  /\ doomed' = FALSE
  /\ requests' = {}
  /\ UNCHANGED <<silent, read, write, pruned, pings, heard, rtt, polled,
                 answered, fresh>>

Older(age, limit) == IF age < limit THEN age + 1 ELSE age

\* Variant (TypeOK): transactions that are not answered never end.
TickKeepsRequests ==
  /\ alive /\ ~doomed /\ polled
  /\ polled' = FALSE
  /\ requests' = {Older(a, RESPONSE_TIMEOUT) : a \in requests}
  /\ UNCHANGED <<silent, alive, read, write, pruned, pings, heard, rtt,
                 doomed, answered, fresh>>

\* A tick ends the transactions that have waited RESPONSE_TIMEOUT; their
\* OnTimeout only logs.
Tick ==
  /\ alive /\ ~doomed /\ polled
  /\ polled' = FALSE
  /\ pings' = [i \in DOMAIN pings |-> Older(pings[i], Oldest)]
  /\ requests' = {a + 1 : a \in requests} \ {RESPONSE_TIMEOUT}
  /\ heard' = Older(heard, READ_TIMEOUT)
  /\ answered' = Older(answered, Oldest)
  /\ fresh' = FALSE
  /\ UNCHANGED <<silent, alive, read, write, pruned, rtt, doomed>>

-----------------------------------------------------------------------------
Init ==
  /\ alive = TRUE
  /\ read = "READ_INIT"
  /\ write = "WRITE_INIT"
  /\ pruned = FALSE
  /\ pings = <<>>
  /\ requests = {}
  /\ heard = READ_TIMEOUT   \* last_ping_received_ = last_data_received_ = 0
  /\ rtt \in Rtts
  /\ doomed = FALSE
  /\ silent = FALSE
  /\ polled = FALSE
  /\ answered = Oldest
  /\ fresh = FALSE

FromPeer ==
  /\ ~silent
  /\ \/ OnBindingRequest
     \/ ReceivedPing
     \/ OnData
     \/ OnBindingIndication
     \/ \E age \in requests :
          \/ \E estimate \in Rtts : OnConnectionRequestResponse(age, estimate)
          \/ OnRecoverableError(age)
          \/ OnFatalError(age)

\* The environment: from some time on nothing arrives any more.
PeerGoesSilent ==
  /\ ~silent
  /\ silent' = TRUE
  /\ UNCHANGED <<alive, read, write, pruned, pings, requests, heard, rtt,
                 doomed, polled, answered, fresh>>

Next ==
  \/ \E channelWritable \in BOOLEAN : OnPing(channelWritable)
  \/ OnPingOther
  \/ UpdateState
  \/ Prune
  \/ Destroy
  \/ OnMessageDelete
  \/ FromPeer
  \/ PeerGoesSilent
  \/ Tick

Spec == Init /\ [][Next]_vars

\* The thread dispatches its queue, the ping timer keeps firing, and the
\* channel, which pings its oldest pingable connection, keeps coming back to
\* this one.
Fairness ==
  /\ WF_vars(OnMessageDelete)
  /\ WF_vars(Tick)
  /\ WF_vars(OnPingOther)
  /\ SF_vars(\E channelWritable \in BOOLEAN : OnPing(channelWritable))

FairSpec == Spec /\ Fairness

-----------------------------------------------------------------------------
(* Properties.                                                             *)

TypeOK ==
  /\ alive \in BOOLEAN
  /\ read \in ReadStates
  /\ write \in WriteStates
  /\ pruned \in BOOLEAN
  /\ pings \in Seq(Ages)
  /\ requests \subseteq 0..(RESPONSE_TIMEOUT - 1)
  /\ heard \in 0..READ_TIMEOUT
  /\ rtt \in Rtts
  /\ doomed \in BOOLEAN
  /\ silent \in BOOLEAN
  /\ polled \in BOOLEAN
  /\ answered \in Ages
  /\ fresh \in BOOLEAN

\* A useless connection is never left behind: whenever a live connection is
\* neither readable nor writable in any way, its MSG_DELETE is already queued,
\* whichever of the two states changed last and whatever changed it.
UselessIsDoomed == alive /\ Useless(read, write) => doomed

\* A connection is given the time it is entitled to: UpdateState (whoever
\* calls it) takes away writability only when no response came for more than
\* WRITE_CONNECT_TIMEOUT although WRITE_CONNECT_FAILURES pings were sent since
\* the last one, and times the connection out only after more than
\* WRITE_TIMEOUT without any response.
WriteStatePatience ==
  [][(UpdateState \/ OnPingOther \/ \E cw \in BOOLEAN : OnPing(cw)) =>
       /\ write = "WRITABLE" /\ write' # "WRITABLE"
            => /\ answered > WRITE_CONNECT_TIMEOUT
               /\ Len(pings) >= WRITE_CONNECT_FAILURES
       /\ write # "WRITE_TIMEOUT" /\ write' = "WRITE_TIMEOUT"
            => answered > WRITE_TIMEOUT]_vars

\* A connection that heard from its peer less than READ_TIMEOUT ago is given
\* up only on purpose: Prune, fatal errors and write timeouts stop writing but
\* leave a readable connection alone, so only Destroy posts its MSG_DELETE.
DeletedOnlyWhenUnheard ==
  [][~Destroy /\ ~doomed /\ doomed'
       => read = "READ_INIT" \/ heard >= READ_TIMEOUT]_vars

\* The comment of OnReadPacket on a packet for a write-timed-out connection:
\* "start up again".  Restarted write checks are not abandoned by the very next
\* UpdateState, before any time has passed and any ping could be sent.
RestartedChecksStart ==
  [][(UpdateState \/ OnPingOther \/ \E cw \in BOOLEAN : OnPing(cw)) =>
       (write = "WRITE_INIT" /\ write' = "WRITE_TIMEOUT" => ~fresh)]_vars

\* A connection whose peer is gone does not live on: it is deleted in the end,
\* in whatever state it was, pruned, restarted or never connected.
SilentPeerIsForgotten == silent ~> ~alive

=============================================================================
