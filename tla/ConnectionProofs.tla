-------------------------- MODULE ConnectionProofs --------------------------
(***************************************************************************)
(* Proofs for Connection, for any timeouts that satisfy                    *)
(* TimeoutsAssumption.                                                     *)
(*                                                                         *)
(* That a connection is not written off too early rests on one relation    *)
(* between the ping log and the time of the last response: no unanswered   *)
(* ping is older than the last response (PingsAreNewer).  A tick ages both *)
(* and a response empties the log, so the relation is inductive.           *)
(*                                                                         *)
(* That a connection its peer still talks to is not deleted rests on a     *)
(* second one: READ_TIMEOUT is the state of a connection that has not been *)
(* heard for that long, unless Destroy set it, and then MSG_DELETE is      *)
(* queued (TimedOutIsUnheard).                                             *)
(***************************************************************************)
EXTENDS Connection, SequenceTheorems, TLAPS

\* Every ping in pings_since_last_response_ was sent after the last response.
PingsAreNewer == pings # <<>> => pings[1] <= answered

\* The inductive invariant.
ConnectionInv == TypeOK /\ UselessIsDoomed /\ PingsAreNewer

\* UpdateState as the channel's timers and sorts call it.
Updates == UpdateState \/ OnPingOther \/ \E cw \in BOOLEAN : OnPing(cw)

-----------------------------------------------------------------------------
(* The helpers.                                                            *)

\* UpdateState yields a read and a write state.
LEMMA UpdateType ==
  ASSUME TypeOK
  PROVE  ReadAfterUpdate \in ReadStates /\ WriteAfterUpdate \in WriteStates
BY DEF TypeOK, ReadAfterUpdate, WriteAfterUpdate, ReadStates, WriteStates

\* A change made by set_read_state and set_write_state keeps the states in
\* their types and cannot leave a useless connection without a MSG_DELETE.
LEMMA SetStateKeepsDoom ==
  ASSUME TypeOK, UselessIsDoomed, alive,
         NEW r \in ReadStates, NEW w \in WriteStates, SetState(r, w)
  PROVE  /\ read' \in ReadStates /\ write' \in WriteStates
         /\ doomed' \in BOOLEAN
         /\ Useless(read', write') => doomed'
BY DEF TypeOK, UselessIsDoomed, SetState

\* Ages stay natural numbers as time passes.
LEMMA OlderType ==
  ASSUME NEW limit \in Nat, NEW age \in 0..limit
  PROVE  Older(age, limit) \in 0..limit /\ age <= Older(age, limit)
BY DEF Older

\* Ageing keeps the order of two ages under the same cap.
LEMMA OlderMonotone ==
  ASSUME NEW limit \in Nat, NEW a \in 0..limit, NEW b \in 0..limit, a <= b
  PROVE  Older(a, limit) <= Older(b, limit)
BY DEF Older

\* The largest age that a connection's timers tell apart is a number.
LEMMA OldestType == Oldest \in Nat /\ 0 \in Ages /\ Ages \subseteq Nat
BY TimeoutsAssumption DEF Oldest, Ages

\* A new ping is appended to the log only while the log is short.
LEMMA PingLog ==
  ASSUME TypeOK, PingsAreNewer,
         pings' = IF Len(pings) < WRITE_CONNECT_FAILURES
                    THEN Append(pings, 0) ELSE pings,
         answered' = answered
  PROVE  pings' \in Seq(Ages) /\ PingsAreNewer'
<1>1. pings \in Seq(Ages) /\ 0 \in Ages /\ answered \in Nat
  BY OldestType DEF TypeOK
<1>2. CASE pings' = pings
  BY <1>1, <1>2 DEF PingsAreNewer
<1>3. CASE pings' = Append(pings, 0)
  <2>1. pings' \in Seq(Ages)
    BY <1>1, <1>3
  <2>2. CASE pings = <<>>
    <3>1. pings' = <<0>>
      BY <1>3, <2>2
    <3> QED
      BY <1>1, <2>1, <3>1 DEF PingsAreNewer
  <2>3. CASE pings # <<>>
    <3>1. pings'[1] = pings[1]
      BY <1>1, <1>3, <2>3
    <3> QED
      BY <2>1, <2>3, <3>1 DEF PingsAreNewer
  <2> QED
    BY <2>2, <2>3
<1> QED
  BY <1>2, <1>3

\* A tick ages the log and the last response alike.
LEMMA TickLog ==
  ASSUME TypeOK, PingsAreNewer, Tick
  PROVE  /\ pings' \in Seq(Ages)
         /\ answered' \in Ages
         /\ PingsAreNewer'
<1> DEFINE t == [i \in 1..Len(pings) |-> Older(pings[i], Oldest)]
<1>1. pings \in Seq(Ages) /\ answered \in Ages
  BY DEF TypeOK
<1>2. pings' = t /\ answered' = Older(answered, Oldest)
  BY <1>1 DEF Tick
<1>3. \A a \in Ages : Older(a, Oldest) \in Ages
  BY OldestType, OlderType DEF Ages
<1>4. \A i \in 1..Len(pings) : Older(pings[i], Oldest) \in Ages
  BY <1>1, <1>3, ElementOfSeq
<1>5. t \in Seq(Ages) /\ Len(t) = Len(pings)
  <2>1. Len(pings) \in Nat
    BY <1>1
  <2>2. t \in [1..Len(pings) -> Ages]
    BY <1>4
  <2> HIDE DEF t
  <2> QED
    BY <2>1, <2>2
<1>6. answered' \in Ages
  BY <1>1, <1>2, <1>3
<1>7. PingsAreNewer'
  <2> SUFFICES ASSUME t # <<>> PROVE t[1] <= answered'
    BY <1>2 DEF PingsAreNewer
  <2>1. Len(t) \in Nat \ {0}
    BY <1>5, EmptySeq
  <2>2. pings # <<>> /\ 1 \in 1..Len(pings)
    BY <1>1, <1>5, <2>1
  <2>3. pings[1] \in Ages /\ pings[1] <= answered
    BY <1>1, <2>2, ElementOfSeq DEF PingsAreNewer
  <2>4. t[1] = Older(pings[1], Oldest)
    BY <2>2
  <2> HIDE DEF t
  <2>5. Older(pings[1], Oldest) <= Older(answered, Oldest)
    BY <1>1, <2>3, OldestType, OlderMonotone DEF Ages
  <2> QED
    BY <1>2, <2>4, <2>5
<1> QED
  BY <1>2, <1>5, <1>6, <1>7

-----------------------------------------------------------------------------
(* The invariant.                                                          *)

\* A new connection has sent no ping and is not useless.
LEMMA InitConnectionInv == Init => ConnectionInv
<1> SUFFICES ASSUME Init PROVE ConnectionInv
  OBVIOUS
<1>1. Oldest \in Ages /\ READ_TIMEOUT \in 0..READ_TIMEOUT
  BY OldestType, TimeoutsAssumption DEF Ages
<1>2. pings \in Seq(Ages) /\ requests \subseteq 0..(RESPONSE_TIMEOUT - 1)
  BY DEF Init
<1>3. TypeOK
  BY <1>1, <1>2 DEF Init, TypeOK, ReadStates, WriteStates
<1>4. UselessIsDoomed /\ PingsAreNewer
  BY DEF Init, UselessIsDoomed, Useless, PingsAreNewer
<1> QED
  BY <1>3, <1>4 DEF ConnectionInv

\* Every packet, ping, prune, error, tick and deletion keeps the invariant.
LEMMA NextConnectionInv == ConnectionInv /\ [Next]_vars => ConnectionInv'
<1> SUFFICES ASSUME ConnectionInv, [Next]_vars
             PROVE  ConnectionInv'
  OBVIOUS
<1> USE DEF ConnectionInv
<1>0. /\ TypeOK /\ UselessIsDoomed /\ PingsAreNewer
      /\ ReadAfterUpdate \in ReadStates /\ WriteAfterUpdate \in WriteStates
      /\ 0 \in 0..READ_TIMEOUT /\ 0 \in Ages
      /\ 0 \in 0..(RESPONSE_TIMEOUT - 1)
      /\ read \in ReadStates /\ write \in WriteStates
      /\ Restarted \in WriteStates
      /\ {"READABLE", "READ_TIMEOUT"} \subseteq ReadStates
      /\ {"WRITABLE", "WRITE_TIMEOUT"} \subseteq WriteStates
  BY UpdateType, OldestType, TimeoutsAssumption
  DEF TypeOK, ReadStates, WriteStates, Restarted
<1> DEFINE StateOK == /\ read' \in ReadStates /\ write' \in WriteStates
                      /\ doomed' \in BOOLEAN
                      /\ Useless(read', write') => doomed'
<1>a. ASSUME alive, NEW r \in ReadStates, NEW w \in WriteStates,
             SetState(r, w)
      PROVE  StateOK
  BY <1>0, <1>a, SetStateKeepsDoom
<1>b. ASSUME StateOK, UNCHANGED <<pings, answered>>,
             alive' \in BOOLEAN, pruned' \in BOOLEAN,
             requests' \subseteq 0..(RESPONSE_TIMEOUT - 1),
             heard' \in 0..READ_TIMEOUT, rtt' \in Rtts,
             silent' \in BOOLEAN, polled' \in BOOLEAN, fresh' \in BOOLEAN
      PROVE  ConnectionInv'
  <2>1. TypeOK'
    BY <1>b DEF TypeOK
  <2>2. UselessIsDoomed'
    BY <1>b DEF UselessIsDoomed
  <2>3. PingsAreNewer'
    BY <1>b DEF PingsAreNewer
  <2> QED
    BY <2>1, <2>2, <2>3
<1> HIDE DEF StateOK
<1>1. CASE UpdateState
  <2>1. StateOK
    BY <1>0, <1>1, <1>a DEF UpdateState
  <2> QED
    BY <1>1, <1>b, <2>1 DEF UpdateState, TypeOK
<1>2. CASE OnPingOther
  <2>1. StateOK
    BY <1>0, <1>2, <1>a DEF OnPingOther
  <2> QED
    BY <1>2, <1>b, <2>1 DEF OnPingOther, TypeOK
<1>3. ASSUME NEW cw \in BOOLEAN, OnPing(cw)
      PROVE  ConnectionInv'
  <2>1. StateOK
    BY <1>0, <1>3, <1>a DEF OnPing
  <2>2. pings' \in Seq(Ages) /\ PingsAreNewer'
    BY <1>0, <1>3, PingLog DEF OnPing
  <2>3. requests' \subseteq 0..(RESPONSE_TIMEOUT - 1)
    BY <1>0, <1>3 DEF OnPing, TypeOK
  <2>4. TypeOK'
    BY <1>3, <2>1, <2>2, <2>3 DEF OnPing, TypeOK, StateOK
  <2>5. UselessIsDoomed'
    BY <2>1 DEF UselessIsDoomed, StateOK
  <2> QED
    BY <2>2, <2>4, <2>5
<1>4. CASE Prune
  <2>1. StateOK
    BY <1>0, <1>4, <1>a DEF Prune
  <2> QED
    BY <1>4, <1>b, <2>1 DEF Prune, TypeOK
<1>5. CASE Destroy
  <2>1. StateOK
    BY <1>0, <1>5, <1>a DEF Destroy
  <2> QED
    BY <1>5, <1>b, <2>1 DEF Destroy, TypeOK
<1>6. CASE OnMessageDelete
  <2>1. TypeOK'
    BY <1>6 DEF OnMessageDelete, TypeOK
  <2> QED
    BY <1>6, <2>1 DEF OnMessageDelete, UselessIsDoomed, PingsAreNewer
<1>7. CASE FromPeer
  <2>1. CASE OnBindingRequest
    <3>1. StateOK
      BY <1>0, <2>1, <1>a DEF OnBindingRequest
    <3>2. fresh' \in BOOLEAN
      BY <2>1 DEF OnBindingRequest, TypeOK
    <3> QED
      BY <1>0, <2>1, <1>b, <3>1, <3>2 DEF OnBindingRequest, TypeOK
  <2>2. CASE ReceivedPing
    <3>1. StateOK
      BY <1>0, <2>2, <1>a DEF ReceivedPing
    <3> QED
      BY <1>0, <2>2, <1>b, <3>1 DEF ReceivedPing, TypeOK
  <2>3. CASE OnData
    <3>1. StateOK
      BY <1>0, <2>3, <1>a DEF OnData
    <3>2. fresh' \in BOOLEAN
      BY <2>3 DEF OnData, TypeOK
    <3> QED
      BY <1>0, <2>3, <1>b, <3>1, <3>2 DEF OnData, TypeOK
  <2>4. CASE OnBindingIndication
    <3>1. StateOK
      BY <1>0, <2>4 DEF OnBindingIndication, TypeOK, UselessIsDoomed, StateOK
    <3> QED
      BY <1>0, <2>4, <1>b, <3>1 DEF OnBindingIndication, TypeOK
  <2>5. ASSUME NEW age \in requests, NEW estimate \in Rtts,
               OnConnectionRequestResponse(age, estimate)
        PROVE  ConnectionInv'
    <3>1. (IF RemoteIceLite THEN "READABLE" ELSE read) \in ReadStates
      BY <1>0
    <3>2. StateOK
      BY <1>0, <2>5, <1>a, <3>1 DEF OnConnectionRequestResponse
    <3>3. heard' \in 0..READ_TIMEOUT
      BY <1>0, <2>5 DEF OnConnectionRequestResponse, TypeOK
    <3>4. pings' \in Seq(Ages) /\ PingsAreNewer' /\ answered' \in Ages
      BY <1>0, <2>5 DEF OnConnectionRequestResponse, PingsAreNewer
    <3>5. TypeOK'
      BY <2>5, <3>2, <3>3, <3>4
      DEF OnConnectionRequestResponse, TypeOK, StateOK
    <3>6. UselessIsDoomed'
      BY <3>2 DEF UselessIsDoomed, StateOK
    <3> QED
      BY <3>4, <3>5, <3>6
  <2>6. ASSUME NEW age \in requests, OnRecoverableError(age)
        PROVE  ConnectionInv'
    <3>1. StateOK
      BY <1>0, <2>6 DEF OnRecoverableError, TypeOK, UselessIsDoomed, StateOK
    <3> QED
      BY <1>0, <2>6, <1>b, <3>1 DEF OnRecoverableError, TypeOK
  <2>7. ASSUME NEW age \in requests, OnFatalError(age)
        PROVE  ConnectionInv'
    <3>1. StateOK
      BY <1>0, <2>7, <1>a DEF OnFatalError
    <3> QED
      BY <1>0, <2>7, <1>b, <3>1 DEF OnFatalError, TypeOK
  <2> QED
    BY <1>7, <2>1, <2>2, <2>3, <2>4, <2>5, <2>6, <2>7 DEF FromPeer
<1>8. CASE PeerGoesSilent
  <2>1. TypeOK'
    BY <1>8 DEF PeerGoesSilent, TypeOK
  <2> QED
    BY <1>8, <2>1 DEF PeerGoesSilent, UselessIsDoomed, PingsAreNewer
<1>9. CASE Tick
  <2>1. pings' \in Seq(Ages) /\ answered' \in Ages /\ PingsAreNewer'
    BY <1>9, TickLog
  <2>2. heard' \in 0..READ_TIMEOUT
    BY <1>9, OlderType, TimeoutsAssumption DEF Tick, TypeOK
  <2>3. requests' \subseteq 0..(RESPONSE_TIMEOUT - 1)
    BY <1>9, TimeoutsAssumption DEF Tick, TypeOK
  <2>4. TypeOK'
    BY <1>9, <2>1, <2>2, <2>3 DEF Tick, TypeOK
  <2>5. UselessIsDoomed'
    BY <1>9 DEF Tick, UselessIsDoomed
  <2> QED
    BY <2>1, <2>4, <2>5
<1>10. CASE UNCHANGED vars
  <2>1. TypeOK'
    BY <1>10 DEF vars, TypeOK
  <2> QED
    BY <1>10, <2>1 DEF vars, UselessIsDoomed, PingsAreNewer
<1> QED
  BY <1>1, <1>2, <1>3, <1>4, <1>5, <1>6, <1>7, <1>8, <1>9, <1>10 DEF Next

\* UpdateState, called in a state that satisfies the invariant, is patient.
LEMMA UpdatesArePatient ==
  ASSUME ConnectionInv, Updates
  PROVE  /\ write = "WRITABLE" /\ write' # "WRITABLE"
              => /\ answered > WRITE_CONNECT_TIMEOUT
                 /\ Len(pings) >= WRITE_CONNECT_FAILURES
         /\ write # "WRITE_TIMEOUT" /\ write' = "WRITE_TIMEOUT"
              => answered > WRITE_TIMEOUT
<1>1. write' = WriteAfterUpdate
  BY DEF Updates, UpdateState, OnPingOther, OnPing, SetState
<1>2. ASSUME NEW limit \in Nat, TooLongWithoutResponse(limit)
      PROVE  answered > limit
  <2>1. pings \in Seq(Ages) /\ pings # <<>>
    BY <1>2 DEF TooLongWithoutResponse, ConnectionInv, TypeOK
  <2>2. 1 \in 1..Len(pings)
    BY <2>1
  <2>3. pings[1] \in Nat
    BY <2>1, <2>2, ElementOfSeq, OldestType
  <2>4. answered \in Nat
    BY OldestType DEF ConnectionInv, TypeOK
  <2> QED
    BY <1>2, <2>1, <2>3, <2>4
    DEF TooLongWithoutResponse, ConnectionInv, PingsAreNewer
<1>3. WRITE_CONNECT_TIMEOUT \in Nat /\ WRITE_TIMEOUT \in Nat
  BY TimeoutsAssumption
<1>4. ASSUME write = "WRITABLE", write' # "WRITABLE"
      PROVE  TooManyFailures /\ TooLongWithoutResponse(WRITE_CONNECT_TIMEOUT)
  BY <1>1, <1>4 DEF WriteAfterUpdate
<1>5. ASSUME write # "WRITE_TIMEOUT", write' = "WRITE_TIMEOUT"
      PROVE  TooLongWithoutResponse(WRITE_TIMEOUT)
  BY <1>1, <1>5 DEF WriteAfterUpdate
<1> QED
  BY <1>2, <1>3, <1>4, <1>5 DEF TooManyFailures

-----------------------------------------------------------------------------
(* The read state tells when the peer was last heard.                      *)

\* A connection whose read state timed out, and that nobody destroyed, has not
\* been heard for READ_TIMEOUT.
TimedOutIsUnheard ==
  alive /\ ~doomed /\ read = "READ_TIMEOUT" => heard >= READ_TIMEOUT

\* UpdateState ends the read state only of a connection that was not heard.
LEMMA UpdatesKeepUnheard ==
  ASSUME TimedOutIsUnheard, alive, heard' = heard,
         NEW w, SetState(ReadAfterUpdate, w)
  PROVE  TimedOutIsUnheard'
BY DEF TimedOutIsUnheard, SetState, ReadAfterUpdate

\* The other changes leave the read state and the time of the last packet
\* alone, or a packet sets both.
LEMMA NextTimedOutIsUnheard ==
  ConnectionInv /\ TimedOutIsUnheard /\ [Next]_vars => TimedOutIsUnheard'
<1> SUFFICES ASSUME ConnectionInv, TimedOutIsUnheard, [Next]_vars
             PROVE  TimedOutIsUnheard'
  OBVIOUS
<1>1. CASE UpdateState
  BY <1>1, UpdatesKeepUnheard DEF UpdateState
<1>2. CASE OnPingOther
  BY <1>2, UpdatesKeepUnheard DEF OnPingOther
<1>3. ASSUME NEW cw \in BOOLEAN, OnPing(cw)
      PROVE  TimedOutIsUnheard'
  BY <1>3, UpdatesKeepUnheard DEF OnPing
<1>4. CASE Prune
  BY <1>4 DEF Prune, SetState, TimedOutIsUnheard
<1>5. CASE Destroy
  <2>1. Useless("READ_TIMEOUT", "WRITE_TIMEOUT")
    BY DEF Useless
  <2>2. doomed'
    BY <1>5, <2>1 DEF Destroy, SetState, ConnectionInv, UselessIsDoomed
  <2> QED
    BY <2>2 DEF TimedOutIsUnheard
<1>6. CASE OnMessageDelete
  BY <1>6 DEF OnMessageDelete, TimedOutIsUnheard
<1>7. CASE FromPeer
  <2>1. CASE OnBindingRequest \/ ReceivedPing
    BY <2>1 DEF OnBindingRequest, ReceivedPing, SetState, TimedOutIsUnheard
  <2>2. CASE OnData \/ OnBindingIndication
    BY <2>2 DEF OnData, OnBindingIndication, SetState, TimedOutIsUnheard
  <2>3. ASSUME NEW age \in requests, NEW estimate \in Rtts,
               OnConnectionRequestResponse(age, estimate)
        PROVE  TimedOutIsUnheard'
    BY <2>3 DEF OnConnectionRequestResponse, SetState, TimedOutIsUnheard
  <2>4. ASSUME NEW age \in requests, OnRecoverableError(age)
        PROVE  TimedOutIsUnheard'
    BY <2>4 DEF OnRecoverableError, TimedOutIsUnheard
  <2>5. ASSUME NEW age \in requests, OnFatalError(age)
        PROVE  TimedOutIsUnheard'
    BY <2>5 DEF OnFatalError, SetState, TimedOutIsUnheard
  <2> QED
    BY <1>7, <2>1, <2>2, <2>3, <2>4, <2>5 DEF FromPeer
<1>8. CASE PeerGoesSilent
  BY <1>8 DEF PeerGoesSilent, TimedOutIsUnheard
<1>9. CASE Tick
  <2>1. heard \in 0..READ_TIMEOUT /\ READ_TIMEOUT \in Nat
    BY TimeoutsAssumption DEF ConnectionInv, TypeOK
  <2>2. heard' \in 0..READ_TIMEOUT /\ heard <= heard'
    BY <1>9, <2>1, OlderType DEF Tick
  <2> QED
    BY <1>9, <2>1, <2>2 DEF Tick, TimedOutIsUnheard
<1>10. CASE UNCHANGED vars
  BY <1>10 DEF vars, TimedOutIsUnheard
<1> QED
  BY <1>1, <1>2, <1>3, <1>4, <1>5, <1>6, <1>7, <1>8, <1>9, <1>10 DEF Next

\* set_read_state and set_write_state post MSG_DELETE only for a connection
\* that is not readable after them.
LEMMA DoomNeedsUseless ==
  ASSUME NEW r, NEW w, SetState(r, w), ~doomed, doomed'
  PROVE  r \in {"READ_TIMEOUT", "READ_INIT"}
BY DEF SetState, Useless

\* Any step but Destroy that posts MSG_DELETE finds a connection that was never
\* heard, or not for READ_TIMEOUT.
LEMMA DoomedIsUnheard ==
  ASSUME TimedOutIsUnheard, Next, ~Destroy, ~doomed, doomed'
  PROVE  read = "READ_INIT" \/ heard >= READ_TIMEOUT
<1>0. ASSUME alive, read \in {"READ_TIMEOUT", "READ_INIT"}
      PROVE  read = "READ_INIT" \/ heard >= READ_TIMEOUT
  BY <1>0 DEF TimedOutIsUnheard
<1>1. ASSUME alive, NEW w, SetState(ReadAfterUpdate, w)
      PROVE  read = "READ_INIT" \/ heard >= READ_TIMEOUT
  <2>1. ReadAfterUpdate \in {"READ_TIMEOUT", "READ_INIT"}
    BY <1>1, DoomNeedsUseless
  <2> QED
    BY <1>0, <1>1, <2>1 DEF ReadAfterUpdate
<1>2. ASSUME alive, NEW w, SetState(read, w)
      PROVE  read = "READ_INIT" \/ heard >= READ_TIMEOUT
  BY <1>0, <1>2, DoomNeedsUseless
<1>3. ASSUME NEW w, SetState("READABLE", w)
      PROVE  FALSE
  BY <1>3, DoomNeedsUseless
<1>4. CASE UpdateState
  BY <1>1, <1>4 DEF UpdateState
<1>5. CASE OnPingOther
  BY <1>1, <1>5 DEF OnPingOther
<1>6. ASSUME NEW cw \in BOOLEAN, OnPing(cw)
      PROVE  read = "READ_INIT" \/ heard >= READ_TIMEOUT
  BY <1>1, <1>6 DEF OnPing
<1>7. CASE Prune
  BY <1>2, <1>7 DEF Prune
<1>8. CASE FromPeer
  <2>1. CASE OnBindingRequest
    BY <1>3, <2>1 DEF OnBindingRequest
  <2>2. CASE ReceivedPing
    BY <1>3, <2>2 DEF ReceivedPing
  <2>3. CASE OnData
    BY <1>2, <2>3 DEF OnData
  <2>4. ASSUME NEW age \in requests, NEW estimate \in Rtts,
               OnConnectionRequestResponse(age, estimate)
        PROVE  read = "READ_INIT" \/ heard >= READ_TIMEOUT
    BY <1>2, <1>3, <2>4 DEF OnConnectionRequestResponse
  <2>5. ASSUME NEW age \in requests, OnFatalError(age)
        PROVE  read = "READ_INIT" \/ heard >= READ_TIMEOUT
    BY <1>2, <2>5 DEF OnFatalError
  <2>6. ~OnBindingIndication /\ \A age \in requests : ~OnRecoverableError(age)
    BY DEF OnBindingIndication, OnRecoverableError
  <2> QED
    BY <1>8, <2>1, <2>2, <2>3, <2>4, <2>5, <2>6 DEF FromPeer
<1>9. ~OnMessageDelete /\ ~PeerGoesSilent /\ ~Tick
  BY DEF OnMessageDelete, PeerGoesSilent, Tick
<1> QED
  BY <1>4, <1>5, <1>6, <1>7, <1>8, <1>9 DEF Next

-----------------------------------------------------------------------------
(* The theorems.                                                           *)

\* The inductive invariant holds in every behaviour of a connection.
THEOREM ConnectionSafety == Spec => []ConnectionInv
BY InitConnectionInv, NextConnectionInv, PTL DEF Spec

\* Every variable keeps its type.
THEOREM ConnectionTypeCorrect == Spec => []TypeOK
<1>1. ConnectionInv => TypeOK
  BY DEF ConnectionInv
<1> QED
  BY <1>1, ConnectionSafety, PTL

\* Whatever sequence of pings, prunes, errors and timeouts a connection goes
\* through, once it is useless its MSG_DELETE is in the queue.
THEOREM ConnectionNotForgotten == Spec => []UselessIsDoomed
<1>1. ConnectionInv => UselessIsDoomed
  BY DEF ConnectionInv
<1> QED
  BY <1>1, ConnectionSafety, PTL

\* No connection is called unreliable or timed out by UpdateState before the
\* configured time without a response has passed.
THEOREM ConnectionPatience == Spec => WriteStatePatience
<1> DEFINE A == Updates =>
                  /\ write = "WRITABLE" /\ write' # "WRITABLE"
                       => /\ answered > WRITE_CONNECT_TIMEOUT
                          /\ Len(pings) >= WRITE_CONNECT_FAILURES
                  /\ write # "WRITE_TIMEOUT" /\ write' = "WRITE_TIMEOUT"
                       => answered > WRITE_TIMEOUT
<1>1. ConnectionInv /\ [Next]_vars => [A]_vars
  BY UpdatesArePatient
<1>2. WriteStatePatience <=> [][A]_vars
  BY DEF WriteStatePatience, Updates
<1> HIDE DEF A
<1> QED
  BY <1>1, <1>2, ConnectionSafety, PTL DEF Spec

\* Unless it is destroyed on purpose, a connection asks for its deletion only
\* when its peer was never heard, or not for READ_TIMEOUT: prunes, fatal errors
\* and write timeouts, in any order, do not end a readable connection.
THEOREM ConnectionHeard == Spec => DeletedOnlyWhenUnheard
<1> DEFINE A == ~Destroy /\ ~doomed /\ doomed'
                  => read = "READ_INIT" \/ heard >= READ_TIMEOUT
<1>1. Init => TimedOutIsUnheard
  BY DEF Init, TimedOutIsUnheard
<1>2. TimedOutIsUnheard /\ [Next]_vars => [A]_vars
  BY DoomedIsUnheard
<1>3. DeletedOnlyWhenUnheard <=> [][A]_vars
  BY DEF DeletedOnlyWhenUnheard
<1> HIDE DEF A
<1> QED
  BY <1>1, <1>2, <1>3, ConnectionSafety, NextTimedOutIsUnheard, PTL DEF Spec

=============================================================================
