---------------------------- MODULE StunRequest ----------------------------
(***************************************************************************)
(* STUN transactions: StunRequestManager and StunRequest                   *)
(* (talk/p2p/base/stunrequest.{h,cc}).                                     *)
(*                                                                         *)
(* A manager keeps the map of outstanding requests.  A request is a C++    *)
(* object that retransmits itself with exponential backoff, driven by one  *)
(* delayed MSG_STUN_SEND message on the manager's thread, until a response *)
(* arrives, it times out, or its manager drops it.  Everything happens on  *)
(* one thread, so every handler is one atomic step; the interleaving is    *)
(* between the message queue, the network and the calls of the owner.      *)
(*                                                                         *)
(* Time is counted in ticks; each pending message carries the ticks left   *)
(* until it is due.  An operator marked as a variant is a definition with a *)
(* mistake in it, which the property it names detects.                     *)
(***************************************************************************)
EXTENDS Naturals, Sequences, FiniteSets

CONSTANTS
  Requests,          \* request objects (their transaction ids are unique)
  Pings,             \* those that are ConnectionRequests (port.cc)
  MAX_SENDS,         \* transmissions before a request times out
  DELAY_UNIT,        \* ticks of the first retransmission delay
  DELAY_MAX_FACTOR,  \* bound of the exponential backoff
  PING_TIMEOUT,      \* CONNECTION_RESPONSE_TIMEOUT, in ticks
  StartDelays        \* delays an owner passes to SendDelayed

ASSUME ConstantsAssumption ==
  /\ Pings \subseteq Requests
  /\ MAX_SENDS \in Nat \ {0}
  /\ DELAY_UNIT \in Nat \ {0}
  /\ DELAY_MAX_FACTOR \in Nat \ {0}
  /\ PING_TIMEOUT \in Nat \ {0}
  /\ StartDelays \subseteq Nat

VARIABLES
  manager,    \* is the StunRequestManager alive?
  object,     \* lifetime of each request object: "new", "live", "deleted"
  requests,   \* the manager's map requests_
  count,      \* count_ of each request
  timeout,    \* timeout_ of each request
  pending,    \* per request, the ticks left of its queued MSG_STUN_SENDs
  sent,       \* the requests the network has seen
  callbacks,  \* history: the callbacks each request has received
  age         \* history: ticks since the request was first transmitted

vars == <<manager, object, requests, count, timeout, pending, sent,
          callbacks, age>>

\* What a message that carries a transaction id of ours can be, by its type.
Replies == {"success", "error", "other"}
Outcomes == {"OnResponse", "OnErrorResponse", "OnTimeout"}

-----------------------------------------------------------------------------
(* Backoff.                                                                *)

\* Variant (OnSchedule): the count is incremented before it is used.
BackoffTooLong(k) ==
  IF 2^(k + 1) \in 1..DELAY_MAX_FACTOR THEN 2^(k + 1) ELSE DELAY_MAX_FACTOR

\* min(1 << count_, DELAY_MAX_FACTOR).
Backoff(k) == IF 2^k \in 1..DELAY_MAX_FACTOR THEN 2^k ELSE DELAY_MAX_FACTOR

\* The delay GetNextDelay computes from count_; a ConnectionRequest overrides
\* it with a single, fixed delay.
NextDelay(r) ==
  IF r \in Pings THEN PING_TIMEOUT ELSE DELAY_UNIT * Backoff(count[r])

\* Variant (EveryRequestEnds): a ConnectionRequest does not set timeout_.
LastSendOfOthers(r) == r \notin Pings /\ count[r] + 1 = MAX_SENDS

\* Whether the send that is being made is the last one.
LastSend(r) == r \in Pings \/ count[r] + 1 = MAX_SENDS

-----------------------------------------------------------------------------
(* Lifetime of request objects.                                            *)

\* Variant (OneTimerPerRequest): ~StunRequest does not clear its messages.
RegisterLeavesMessages(born, delay, dead) ==
  /\ requests' = (requests \cup born) \ dead
  /\ object' = [r \in Requests |-> IF r \in dead THEN "deleted"
                                   ELSE IF r \in born THEN "live"
                                   ELSE object[r]]
  /\ pending' = [r \in Requests |-> IF r \in born
                                      THEN Append(pending[r], delay)
                                    ELSE pending[r]]

\* The set-up of the requests born (SendDelayed) and the destruction of the
\* requests dead: ~StunRequest erases the request from the manager's map and
\* clears its messages from the thread.
Register(born, delay, dead) ==
  /\ requests' = (requests \cup born) \ dead
  /\ object' = [r \in Requests |-> IF r \in dead THEN "deleted"
                                   ELSE IF r \in born THEN "live"
                                   ELSE object[r]]
  /\ pending' = [r \in Requests |-> IF r \in dead THEN <<>>
                                    ELSE IF r \in born
                                      THEN Append(pending[r], delay)
                                    ELSE pending[r]]

\* What a callback may do through the manager: nothing, or send one new
\* request (a keep-alive, a retry, the next request of a sequence).
FollowUps == {{}} \cup {{r} : r \in {q \in Requests : object[q] = "new"}}

Finish(r, outcome) ==
  /\ callbacks' = [callbacks EXCEPT ![r] = Append(@, outcome)]
  /\ \E born \in FollowUps, delay \in StartDelays :
       Register(born, delay, {r})
  /\ UNCHANGED <<manager, count, timeout, sent, age>>

-----------------------------------------------------------------------------
(* Handlers.                                                               *)

\* StunRequestManager::Send and SendDelayed.
SendDelayed(r, delay) ==
  /\ manager
  /\ object[r] = "new"
  /\ Register({r}, delay, {})
  /\ UNCHANGED <<manager, count, timeout, sent, callbacks, age>>

\* The thread's queue has a message due for the request.
Due(r) == pending[r] # <<>> /\ Head(pending[r]) = 0

\* StunRequest::OnMessage when the request has used up its transmissions.
OnMessageTimeout(r) ==
  /\ Due(r)
  /\ timeout[r]
  /\ Finish(r, "OnTimeout")

\* StunRequest::OnMessage: transmit and schedule the next transmission.
OnMessageSend(r) ==
  /\ Due(r)
  /\ ~timeout[r]
  /\ sent' = sent \cup {r}
  /\ pending' = [pending EXCEPT ![r] = Append(Tail(@), NextDelay(r))]
  /\ count' = [count EXCEPT ![r] = IF r \in Pings THEN @ ELSE @ + 1]
  /\ timeout' = [timeout EXCEPT ![r] = LastSend(r)]
  /\ UNCHANGED <<manager, object, requests, callbacks, age>>

\* Variant (EndsAtMostOnce): the transaction id is not looked up in the map.
CheckResponseUnmatched(r, kind) ==
  /\ manager
  /\ r \in sent
  /\ \/ kind = "success" /\ Finish(r, "OnResponse")
     \/ kind = "error" /\ Finish(r, "OnErrorResponse")
     \/ kind = "other" /\ UNCHANGED vars

\* StunRequestManager::CheckResponse.  The network delivers a reply to any
\* request it has seen, at any later time and any number of times, or never.
CheckResponse(r, kind) ==
  /\ manager
  /\ r \in sent
  /\ \/ /\ r \in requests /\ kind = "success"
        /\ Finish(r, "OnResponse")
     \/ /\ r \in requests /\ kind = "error"
        /\ Finish(r, "OnErrorResponse")
     \/ /\ r \notin requests \/ kind = "other"  \* returns false
        /\ UNCHANGED vars

\* StunRequestManager::Clear deletes every outstanding request.
Clear ==
  /\ manager
  /\ Register({}, 0, requests)
  /\ UNCHANGED <<manager, count, timeout, sent, callbacks, age>>

\* Variant (DestroyedManagerIsSilent): the requests outlive their manager.
DestroyManagerOnly ==
  /\ manager
  /\ manager' = FALSE
  /\ UNCHANGED <<object, requests, count, timeout, pending, sent, callbacks,
                 age>>

\* ~StunRequestManager.
DestroyManager ==
  /\ manager
  /\ manager' = FALSE
  /\ Register({}, 0, requests)
  /\ UNCHANGED <<count, timeout, sent, callbacks, age>>

\* Variant (TypeOK): time passes over messages that are due.
TickPastDue ==
  /\ \E r \in Requests : pending[r] # <<>>
  /\ pending' = [r \in Requests |->
                   [i \in DOMAIN pending[r] |-> pending[r][i] - 1]]
  /\ UNCHANGED <<manager, object, requests, count, timeout, sent, callbacks,
                 age>>

\* Time passes; the thread dispatches what is due before the next tick.
Tick ==
  /\ \E r \in Requests : pending[r] # <<>>
  /\ \A r \in Requests : ~Due(r)
  /\ pending' = [r \in Requests |->
                   [i \in DOMAIN pending[r] |-> pending[r][i] - 1]]
  /\ age' = [r \in Requests |->
               IF object[r] = "live" /\ (count[r] > 0 \/ timeout[r])
                 THEN age[r] + 1 ELSE age[r]]
  /\ UNCHANGED <<manager, object, requests, count, timeout, sent, callbacks>>

-----------------------------------------------------------------------------
Init ==
  /\ manager = TRUE
  /\ object = [r \in Requests |-> "new"]
  /\ requests = {}
  /\ count = [r \in Requests |-> 0]
  /\ timeout = [r \in Requests |-> FALSE]
  /\ pending = [r \in Requests |-> <<>>]
  /\ sent = {}
  /\ callbacks = [r \in Requests |-> <<>>]
  /\ age = [r \in Requests |-> 0]

Next ==
  \/ \E r \in Requests, d \in StartDelays : SendDelayed(r, d)
  \/ \E r \in Requests : OnMessageTimeout(r) \/ OnMessageSend(r)
  \/ \E r \in Requests, k \in Replies : CheckResponse(r, k)
  \/ Clear
  \/ DestroyManager
  \/ Tick

Spec == Init /\ [][Next]_vars

\* The thread's loop keeps dispatching due messages and the clock advances.
Fairness ==
  /\ WF_vars(Tick)
  /\ \A r \in Requests : WF_vars(OnMessageTimeout(r) \/ OnMessageSend(r))

FairSpec == Spec /\ Fairness

-----------------------------------------------------------------------------
(* Properties.                                                             *)

TypeOK ==
  /\ manager \in BOOLEAN
  /\ object \in [Requests -> {"new", "live", "deleted"}]
  /\ requests \subseteq Requests
  /\ count \in [Requests -> Nat]
  /\ timeout \in [Requests -> BOOLEAN]
  /\ pending \in [Requests -> Seq(Nat)]
  /\ sent \subseteq Requests
  /\ callbacks \in [Requests -> Seq(Outcomes)]
  /\ age \in [Requests -> Nat]

\* The manager's map, the live objects and the thread's queue agree: every
\* outstanding request has exactly one MSG_STUN_SEND queued (so its
\* retransmission or timeout is never lost, and never doubled), and no other
\* request has one (so no message is dispatched to a freed StunRequest).
OneTimerPerRequest ==
  \A r \in Requests :
    /\ r \in requests <=> object[r] = "live"
    /\ Len(pending[r]) = IF object[r] = "live" THEN 1 ELSE 0

\* A request ends at most once: it never hears both an answer and the timeout,
\* nor two answers, however replies are duplicated or delayed; and while it is
\* outstanding it has heard nothing.
EndsAtMostOnce ==
  \A r \in Requests :
    /\ Len(callbacks[r]) <= 1
    /\ object[r] # "deleted" => callbacks[r] = <<>>

\* The ticks after the first transmission at which transmission k + 1, or the
\* timeout, is due: the schedule of stunrequest_unittest.cc TotalDelay.
TotalDelay[k \in Nat] ==
  IF k = 0 THEN 0
  ELSE TotalDelay[k - 1]
         + DELAY_UNIT * (IF 2^(k - 1) \in 1..DELAY_MAX_FACTOR
                           THEN 2^(k - 1) ELSE DELAY_MAX_FACTOR)

\* Transmissions and the timeout happen on the documented schedule: after k
\* transmissions the next message is due exactly TotalDelay(k) after the first
\* one, and a request times out only after MAX_SENDS transmissions (one for a
\* ConnectionRequest) and the whole schedule has elapsed unanswered.
OnSchedule ==
  \A r \in Requests :
    LET finish == IF r \in Pings THEN PING_TIMEOUT ELSE TotalDelay[MAX_SENDS]
        due    == IF r \in Pings THEN PING_TIMEOUT ELSE TotalDelay[count[r]]
    IN /\ object[r] = "live" /\ (count[r] > 0 \/ timeout[r])
            => age[r] + Head(pending[r]) = due
       /\ callbacks[r] = <<"OnTimeout">> => age[r] = finish

\* Once its manager is gone nothing is left that could still call back.
DestroyedManagerIsSilent ==
  ~manager => \A r \in Requests : object[r] # "live" /\ pending[r] = <<>>

\* Every request that was sent ends: it is answered, times out or is dropped
\* with its manager.
EveryRequestEnds ==
  \A r \in Requests : object[r] = "live" ~> object[r] = "deleted"

=============================================================================
