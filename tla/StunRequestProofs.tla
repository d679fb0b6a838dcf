------------------------- MODULE StunRequestProofs -------------------------
(***************************************************************************)
(* Invariance proofs for StunRequest, for any set of requests and any      *)
(* backoff constants.                                                      *)
(*                                                                         *)
(* Neither the type of the timers nor the callback history is inductive on *)
(* its own: a tick keeps the remaining delays natural only because every   *)
(* queue holds a single timer that is not yet due, and a callback is the   *)
(* first only because a request is deleted with it.  The inductive         *)
(* invariant is therefore the conjunction StunInv.                         *)
(***************************************************************************)
EXTENDS StunRequest, Integers, WellFoundedInduction, TLAPS

\* The inductive invariant.
StunInv ==
  /\ TypeOK
  /\ OneTimerPerRequest
  /\ EndsAtMostOnce
  /\ DestroyedManagerIsSilent

-----------------------------------------------------------------------------
(* The helpers.                                                            *)

\* GetNextDelay yields a number of ticks whatever count_ is.
LEMMA NextDelayType ==
  ASSUME TypeOK, NEW r \in Requests
  PROVE  NextDelay(r) \in Nat
<1>1. Backoff(count[r]) \in Nat
  BY ConstantsAssumption DEF Backoff
<1>2. DELAY_UNIT * Backoff(count[r]) \in Nat
  BY <1>1, ConstantsAssumption
<1> QED
  BY <1>2, ConstantsAssumption DEF NextDelay

\* Creating requests that were never sent and deleting outstanding ones keeps
\* the map, the objects and the timers in step.
LEMMA RegisterKeepsTimers ==
  ASSUME TypeOK, OneTimerPerRequest,
         NEW born \in SUBSET Requests, NEW dead \in SUBSET Requests,
         NEW delay \in Nat,
         \A r \in born : object[r] = "new",
         Register(born, delay, dead)
  PROVE  /\ requests' \in SUBSET Requests
         /\ object' \in [Requests -> {"new", "live", "deleted"}]
         /\ pending' \in [Requests -> Seq(Nat)]
         /\ OneTimerPerRequest'
<1>1. requests' \in SUBSET Requests
  BY DEF Register, TypeOK
<1>2. object' \in [Requests -> {"new", "live", "deleted"}]
  BY DEF Register, TypeOK
<1>3. pending' \in [Requests -> Seq(Nat)]
  BY DEF Register, TypeOK
<1>4. ASSUME NEW r \in Requests
      PROVE  /\ (r \in requests <=> object[r] = "live")'
             /\ (Len(pending[r]) = IF object[r] = "live" THEN 1 ELSE 0)'
  <2>1. CASE r \in dead
    BY <2>1 DEF Register
  <2>2. CASE r \notin dead /\ r \in born
    <3>1. Len(pending[r]) = 0
      BY <2>2 DEF OneTimerPerRequest
    <3>2. Len(Append(pending[r], delay)) = 1
      BY <3>1 DEF TypeOK
    <3> QED
      BY <2>2, <3>2 DEF Register, TypeOK
  <2>3. CASE r \notin dead /\ r \notin born
    BY <2>3 DEF Register, OneTimerPerRequest, TypeOK
  <2> QED
    BY <2>1, <2>2, <2>3
<1> QED
  BY <1>1, <1>2, <1>3, <1>4 DEF OneTimerPerRequest

\* A request that has one timer and is not due keeps one timer after a tick.
LEMMA TickKeepsTimers ==
  ASSUME TypeOK, OneTimerPerRequest, Tick
  PROVE  pending' \in [Requests -> Seq(Nat)] /\ OneTimerPerRequest'
<1>1. ASSUME NEW r \in Requests
      PROVE  /\ pending'[r] \in Seq(Nat)
             /\ Len(pending'[r]) = Len(pending[r])
  <2> DEFINE q == pending[r]
             t == [i \in DOMAIN q |-> q[i] - 1]
  <2>1. q \in Seq(Nat) /\ Len(q) \in {0, 1} /\ pending'[r] = t
    BY DEF TypeOK, OneTimerPerRequest, Tick
  <2>2. CASE Len(q) = 0
    BY <2>1, <2>2
  <2>3. CASE Len(q) = 1
    <3>1. q # <<>> /\ Head(q) = q[1] /\ q[1] \in Nat
      BY <2>1, <2>3
    <3>2. q[1] - 1 \in Nat
      BY <3>1 DEF Tick, Due
    <3>3. t = << q[1] - 1 >>
      BY <2>1, <2>3
    <3> QED
      BY <2>1, <2>3, <3>2, <3>3
  <2> QED
    BY <2>1, <2>2, <2>3
<1>2. pending' \in [Requests -> Seq(Nat)]
  BY <1>1 DEF Tick
<1> QED
  BY <1>1, <1>2 DEF OneTimerPerRequest, Tick, TypeOK

\* A callback is delivered to an outstanding request only, which is deleted in
\* the same step; what the callback sends next is a new request.
LEMMA FinishKeepsInv ==
  ASSUME StunInv, NEW r \in Requests, NEW outcome \in Outcomes,
         object[r] = "live", Finish(r, outcome)
  PROVE  StunInv'
<1>1. PICK born \in FollowUps, delay \in StartDelays :
        Register(born, delay, {r})
  BY DEF Finish
<1>2. /\ born \in SUBSET Requests /\ delay \in Nat
      /\ \A q \in born : object[q] = "new"
  BY ConstantsAssumption DEF FollowUps
<1>3. /\ requests' \in SUBSET Requests
      /\ object' \in [Requests -> {"new", "live", "deleted"}]
      /\ pending' \in [Requests -> Seq(Nat)]
      /\ OneTimerPerRequest'
  BY <1>1, <1>2, RegisterKeepsTimers DEF StunInv
<1>4. callbacks[r] = <<>>
  BY DEF StunInv, EndsAtMostOnce
<1>5. callbacks' = [callbacks EXCEPT ![r] = <<outcome>>]
  BY <1>4 DEF Finish, StunInv, TypeOK
<1>6. TypeOK'
  <2>1. callbacks' \in [Requests -> Seq(Outcomes)]
    <3>1. <<outcome>> \in Seq(Outcomes)
      OBVIOUS
    <3> QED
      BY <1>5, <3>1 DEF StunInv, TypeOK
  <2> QED
    BY <1>3, <2>1 DEF StunInv, TypeOK, Finish
<1>7. EndsAtMostOnce'
  BY <1>1, <1>2, <1>5 DEF StunInv, TypeOK, EndsAtMostOnce, Register
<1>8. DestroyedManagerIsSilent'
  BY DEF StunInv, DestroyedManagerIsSilent, Finish
<1> QED
  BY <1>3, <1>6, <1>7, <1>8 DEF StunInv

-----------------------------------------------------------------------------
(* The invariant.                                                          *)

\* A new manager has no requests and no timers.
LEMMA InitStunInv == Init => StunInv
BY DEF Init, StunInv, TypeOK, OneTimerPerRequest, EndsAtMostOnce,
       DestroyedManagerIsSilent

\* Every operation of the manager and of its requests keeps the invariant.
LEMMA NextStunInv == StunInv /\ [Next]_vars => StunInv'
<1> SUFFICES ASSUME StunInv, [Next]_vars
             PROVE  StunInv'
  OBVIOUS
<1> USE DEF StunInv
<1>1. ASSUME NEW r \in Requests, NEW d \in StartDelays, SendDelayed(r, d)
      PROVE  StunInv'
  <2>1. /\ requests' \in SUBSET Requests
        /\ object' \in [Requests -> {"new", "live", "deleted"}]
        /\ pending' \in [Requests -> Seq(Nat)]
        /\ OneTimerPerRequest'
    BY <1>1, RegisterKeepsTimers, ConstantsAssumption DEF SendDelayed
  <2>2. TypeOK'
    BY <1>1, <2>1 DEF SendDelayed, TypeOK
  <2>3. EndsAtMostOnce'
    BY <1>1 DEF SendDelayed, Register, EndsAtMostOnce, TypeOK
  <2>4. DestroyedManagerIsSilent'
    BY <1>1 DEF SendDelayed, DestroyedManagerIsSilent
  <2> QED
    BY <2>1, <2>2, <2>3, <2>4
<1>2. ASSUME NEW r \in Requests, OnMessageTimeout(r)
      PROVE  StunInv'
  <2>1. object[r] = "live"
    BY <1>2 DEF OnMessageTimeout, Due, OneTimerPerRequest, TypeOK
  <2> QED
    BY <1>2, <2>1, FinishKeepsInv DEF OnMessageTimeout, Outcomes
<1>3. ASSUME NEW r \in Requests, OnMessageSend(r)
      PROVE  StunInv'
  <2> DEFINE d == NextDelay(r)
  <2>1. object[r] = "live" /\ Len(pending[r]) = 1
    BY <1>3 DEF OnMessageSend, Due, OneTimerPerRequest, TypeOK
  <2>2. d \in Nat
    BY NextDelayType
  <2>3. Append(Tail(pending[r]), d) \in Seq(Nat)
        /\ Len(Append(Tail(pending[r]), d)) = 1
    <3>1. pending[r] \in Seq(Nat) /\ pending[r] # <<>>
      BY <1>3 DEF TypeOK, OnMessageSend, Due
    <3>2. Tail(pending[r]) \in Seq(Nat) /\ Len(Tail(pending[r])) = 0
      BY <2>1, <3>1
    <3> HIDE DEF d
    <3> QED
      BY <2>2, <3>2
  <2>4. pending' = [pending EXCEPT ![r] = Append(Tail(pending[r]), d)]
    BY <1>3 DEF OnMessageSend
  <2> HIDE DEF d
  <2>5. TypeOK'
    <3>1. pending' \in [Requests -> Seq(Nat)]
      BY <2>3, <2>4 DEF TypeOK
    <3>2. count' \in [Requests -> Nat]
      BY <1>3 DEF OnMessageSend, TypeOK
    <3>3. timeout' \in [Requests -> BOOLEAN]
      BY <1>3, LastSend(r) \in BOOLEAN DEF OnMessageSend, TypeOK, LastSend
    <3> QED
      BY <1>3, <3>1, <3>2, <3>3 DEF OnMessageSend, TypeOK
  <2>6. OneTimerPerRequest'
    BY <1>3, <2>1, <2>3, <2>4
    DEF OnMessageSend, OneTimerPerRequest, TypeOK
  <2>7. EndsAtMostOnce'
    BY <1>3 DEF OnMessageSend, EndsAtMostOnce
  <2>8. DestroyedManagerIsSilent'
    BY <1>3, <2>1, <2>4
    DEF OnMessageSend, DestroyedManagerIsSilent, TypeOK
  <2> QED
    BY <2>5, <2>6, <2>7, <2>8
<1>4. ASSUME NEW r \in Requests, NEW k \in Replies, CheckResponse(r, k)
      PROVE  StunInv'
  <2>1. r \in requests => object[r] = "live"
    BY DEF OneTimerPerRequest
  <2>2. CASE r \in requests /\ Finish(r, "OnResponse")
    BY <2>1, <2>2, FinishKeepsInv DEF Outcomes
  <2>3. CASE r \in requests /\ Finish(r, "OnErrorResponse")
    BY <2>1, <2>3, FinishKeepsInv DEF Outcomes
  <2>4. CASE UNCHANGED vars
    BY <2>4 DEF vars, TypeOK, OneTimerPerRequest, EndsAtMostOnce,
                DestroyedManagerIsSilent
  <2> QED
    BY <1>4, <2>2, <2>3, <2>4 DEF CheckResponse
<1>5. ASSUME Register({}, 0, requests),
             UNCHANGED <<count, timeout, sent, callbacks, age>>,
             manager' \in BOOLEAN
      PROVE  StunInv'
  <2>1. /\ requests' \in SUBSET Requests
        /\ object' \in [Requests -> {"new", "live", "deleted"}]
        /\ pending' \in [Requests -> Seq(Nat)]
        /\ OneTimerPerRequest'
    <3>1. /\ requests \in SUBSET Requests
          /\ {} \in SUBSET Requests
          /\ 0 \in Nat
          /\ \A r \in {} : object[r] = "new"
      BY DEF TypeOK
    <3>2. Register({}, 0, requests)
      BY <1>5
    <3> HIDE DEF StunInv
    <3>3. TypeOK /\ OneTimerPerRequest
      BY DEF StunInv
    <3> QED
      BY <3>1, <3>2, <3>3, RegisterKeepsTimers, Zenon
  <2>2. TypeOK'
    BY <1>5, <2>1 DEF TypeOK
  <2>3. EndsAtMostOnce'
    BY <1>5 DEF Register, EndsAtMostOnce, TypeOK
  <2>4. \A r \in Requests : object'[r] # "live"
    BY <1>5 DEF Register, OneTimerPerRequest, TypeOK
  <2>5. DestroyedManagerIsSilent'
    BY <2>1, <2>4 DEF DestroyedManagerIsSilent, OneTimerPerRequest
  <2> QED
    BY <2>1, <2>2, <2>3, <2>5
<1>6. CASE Clear
  BY <1>5, <1>6 DEF Clear, TypeOK
<1>7. CASE DestroyManager
  BY <1>5, <1>7 DEF DestroyManager
<1>8. CASE Tick
  <2>1. pending' \in [Requests -> Seq(Nat)] /\ OneTimerPerRequest'
    BY <1>8, TickKeepsTimers
  <2>2. TypeOK'
    BY <1>8, <2>1 DEF Tick, TypeOK
  <2>3. EndsAtMostOnce'
    BY <1>8 DEF Tick, EndsAtMostOnce
  <2>4. DestroyedManagerIsSilent'
    BY <1>8, <2>1
    DEF Tick, DestroyedManagerIsSilent, OneTimerPerRequest
  <2> QED
    BY <2>1, <2>2, <2>3, <2>4
<1>9. CASE UNCHANGED vars
  BY <1>9 DEF vars, TypeOK, OneTimerPerRequest, EndsAtMostOnce,
              DestroyedManagerIsSilent
<1> QED
  BY <1>1, <1>2, <1>3, <1>4, <1>6, <1>7, <1>8, <1>9 DEF Next

\* In every behaviour of the transaction layer the inductive invariant holds.
THEOREM StunSafety == Spec => []StunInv
BY InitStunInv, NextStunInv, PTL DEF Spec

\* Every variable keeps its type; in particular no remaining delay ever
\* becomes negative.
THEOREM StunTypeCorrect == Spec => []TypeOK
<1>1. StunInv => TypeOK
  BY DEF StunInv
<1> QED
  BY <1>1, StunSafety, PTL

\* The map of the manager, the live requests and the queued MSG_STUN_SENDs
\* always agree, so no timer is lost, doubled or left behind by a deletion.
THEOREM StunTimers == Spec => []OneTimerPerRequest
<1>1. StunInv => OneTimerPerRequest
  BY DEF StunInv
<1> QED
  BY <1>1, StunSafety, PTL

\* No request ever hears two outcomes.
THEOREM StunOutcome == Spec => []EndsAtMostOnce
<1>1. StunInv => EndsAtMostOnce
  BY DEF StunInv
<1> QED
  BY <1>1, StunSafety, PTL

\* Nothing outlives ~StunRequestManager.
THEOREM StunSilence == Spec => []DestroyedManagerIsSilent
<1>1. StunInv => DestroyedManagerIsSilent
  BY DEF StunInv
<1> QED
  BY <1>1, StunSafety, PTL

-----------------------------------------------------------------------------
(* Induction.  The library states it for a predicate; here it is stated for *)
(* the set of numbers that satisfy it.                                     *)

\* The natural numbers are well-founded.
LEMMA LessIsWellFounded ==
  IsWellFoundedOn({ss \in Nat \X Nat : ss[1] < ss[2]}, Nat)
BY NatLessThanWellFounded DEF OpToRel

\* A set of natural numbers that is not empty has a least element.
LEMMA LeastElement ==
  ASSUME NEW T, T \subseteq Nat, T # {}
  PROVE  \E x \in T : \A y \in T : ~(y < x)
<1> DEFINE R == {ss \in Nat \X Nat : ss[1] < ss[2]}
<1>1. IsWellFoundedOn(R, Nat)
  BY LessIsWellFounded
<1>2. \A x, y \in Nat : y < x => <<y, x>> \in R
  OBVIOUS
<1> HIDE DEF R
<1>3. \E x \in T : \A y \in T : ~(<<y, x>> \in R)
  BY <1>1, WFMin
<1> QED
  BY <1>2, <1>3

\* A set that holds 0 and with every number the next one holds them all.
LEMMA SetInduction ==
  ASSUME NEW S, 0 \in S, \A n \in Nat : n \in S => n + 1 \in S
  PROVE  \A n \in Nat : n \in S
<1> SUFFICES ASSUME NEW k \in Nat, k \notin S
             PROVE  FALSE
  OBVIOUS
<1> DEFINE T == {n \in Nat : n \notin S}
<1>1. T \subseteq Nat /\ T # {}
  OBVIOUS
<1> HIDE DEF T
<1>2. PICK x \in T : \A y \in T : ~(y < x)
  BY <1>1, LeastElement
<1>3. x \in Nat /\ x # 0
  BY <1>1 DEF T
<1>4. x - 1 \in Nat /\ x - 1 < x /\ (x - 1) + 1 = x
  BY <1>3
<1>5. x - 1 \in S
  BY <1>2, <1>4 DEF T
<1> QED
  BY <1>3, <1>4, <1>5 DEF T

\* f holds the sums of a up to its n-th term.
SumsUpTo(f, a, n) ==
  /\ f \in [Nat -> Nat]
  /\ f[0] = 0
  /\ \A k \in 0 .. n - 1 : f[k + 1] = f[k] + a[k]

\* For every n there is such a function.
LEMMA SumsExist ==
  ASSUME NEW a \in [Nat -> Nat]
  PROVE  \A n \in Nat : \E f : SumsUpTo(f, a, n)
<1> DEFINE S == {n \in Nat : \E f : SumsUpTo(f, a, n)}
<1>1. 0 \in S
  <2> DEFINE zero == [k \in Nat |-> 0]
  <2>1. SumsUpTo(zero, a, 0)
    BY DEF SumsUpTo
  <2> QED
    BY <2>1, Zenon
<1>2. ASSUME NEW n \in Nat, n \in S
      PROVE  n + 1 \in S
  <2>1. PICK f : SumsUpTo(f, a, n)
    BY <1>2
  <2> DEFINE g == [f EXCEPT ![n + 1] = f[n] + a[n]]
  <2>2. f \in [Nat -> Nat] /\ f[n] + a[n] \in Nat
    BY <2>1 DEF SumsUpTo
  <2>3. g \in [Nat -> Nat] /\ g[n + 1] = f[n] + a[n]
        /\ \A k \in 0 .. n : g[k] = f[k]
    BY <2>2
  <2>4. \A k \in 0 .. n - 1 : f[k + 1] = f[k] + a[k]
    BY <2>1 DEF SumsUpTo
  <2>5. g[0] = 0
    BY <2>1, <2>3 DEF SumsUpTo
  <2> HIDE DEF g
  <2>6. ASSUME NEW k \in 0 .. (n + 1) - 1
        PROVE  g[k + 1] = g[k] + a[k]
    <3>1. CASE k = n
      BY <2>3, <3>1
    <3>2. CASE k # n
      <4>1. k \in 0 .. n - 1 /\ k \in 0 .. n /\ k + 1 \in 0 .. n
        BY <3>2
      <4> QED
        BY <2>3, <2>4, <4>1
    <3> QED
      BY <3>1, <3>2
  <2>7. SumsUpTo(g, a, n + 1)
    BY <2>3, <2>5, <2>6 DEF SumsUpTo
  <2> QED
    BY <2>7, n + 1 \in Nat
<1> HIDE DEF S
<1>3. \A n \in Nat : n \in S
  BY <1>1, <1>2, SetInduction
<1> QED
  BY <1>3 DEF S

\* The sums are determined.
LEMMA SumsAgree ==
  ASSUME NEW a \in [Nat -> Nat], NEW f, NEW g, NEW n \in Nat,
         SumsUpTo(f, a, n), SumsUpTo(g, a, n)
  PROVE  f[n] = g[n]
<1> DEFINE S == {k \in Nat : k <= n => f[k] = g[k]}
<1>1. 0 \in S
  BY DEF SumsUpTo
<1>2. ASSUME NEW k \in Nat, k \in S
      PROVE  k + 1 \in S
  <2>1. CASE k + 1 <= n
    <3>1. k <= n /\ k \in 0 .. n - 1
      BY <2>1
    <3>2. f[k] = g[k]
      BY <1>2, <3>1
    <3> QED
      BY <3>1, <3>2 DEF SumsUpTo
  <2>2. CASE ~(k + 1 <= n)
    BY <2>2
  <2> QED
    BY <2>1, <2>2
<1> HIDE DEF S
<1>3. \A k \in Nat : k \in S
  BY <1>1, <1>2, SetInduction
<1> QED
  BY <1>3 DEF S

\* Every sequence of numbers has a function of its sums.
LEMMA SumsFunction ==
  ASSUME NEW a \in [Nat -> Nat]
  PROVE  \E h \in [Nat -> Nat] :
           h = [k \in Nat |-> IF k = 0 THEN 0 ELSE h[k - 1] + a[k - 1]]
<1> DEFINE F(n) == CHOOSE f : SumsUpTo(f, a, n)
           h == [n \in Nat |-> F(n)[n]]
<1>1. \A n \in Nat : SumsUpTo(F(n), a, n)
  BY SumsExist
<1> HIDE DEF F
<1>2. h \in [Nat -> Nat] /\ h[0] = 0
  BY <1>1 DEF SumsUpTo
<1>3. ASSUME NEW n \in Nat
      PROVE  h[n + 1] = h[n] + a[n]
  <2>1. SumsUpTo(F(n + 1), a, n + 1) /\ SumsUpTo(F(n), a, n)
    BY <1>1
  <2>2. SumsUpTo(F(n + 1), a, n)
    BY <2>1 DEF SumsUpTo
  <2>3. F(n + 1)[n] = F(n)[n]
    BY <2>1, <2>2, SumsAgree
  <2>4. F(n + 1)[n + 1] = F(n + 1)[n] + a[n]
    BY <2>1 DEF SumsUpTo
  <2> QED
    BY <2>3, <2>4
<1> HIDE DEF h
<1>4. ASSUME NEW k \in Nat
      PROVE  h[k] = IF k = 0 THEN 0 ELSE h[k - 1] + a[k - 1]
  <2>1. CASE k = 0
    BY <1>2, <2>1
  <2>2. CASE k # 0
    <3>1. k - 1 \in Nat /\ (k - 1) + 1 = k
      BY <2>2
    <3>2. h[(k - 1) + 1] = h[k - 1] + a[k - 1]
      BY <1>3, <3>1
    <3> QED
      BY <2>2, <3>1, <3>2
  <2> QED
    BY <2>1, <2>2
<1>5. h = [k \in Nat |-> IF k = 0 THEN 0 ELSE h[k - 1] + a[k - 1]]
  BY <1>2, <1>4
<1> QED
  BY <1>2, <1>5

-----------------------------------------------------------------------------
(* The schedule.                                                           *)

\* What the schedule adds up: the delay before transmission k + 2.
Delay(k) == DELAY_UNIT * Backoff(k)

\* A retransmission delay is a number of ticks.
LEMMA DelayType == \A k \in Nat : Delay(k) \in Nat
<1>1. \A k \in Nat : Backoff(k) \in Nat
  BY ConstantsAssumption DEF Backoff
<1>2. \A k, n \in Nat : k * n \in Nat
  OBVIOUS
<1> QED
  BY <1>1, <1>2, ConstantsAssumption DEF Delay

\* The recursive definition of the schedule has a solution, and so defines
\* what it says: each transmission adds its delay to the ones before.
LEMMA TotalDelayUnfolds ==
  /\ TotalDelay[0] = 0
  /\ \A k \in Nat : TotalDelay[k + 1] = TotalDelay[k] + Delay(k)
<1> DEFINE a == [k \in Nat |-> Delay(k)]
           Def(f) == [k \in Nat |->
                        IF k = 0 THEN 0
                        ELSE f[k - 1]
                               + DELAY_UNIT * (IF 2^(k - 1) \in 1..DELAY_MAX_FACTOR
                                                 THEN 2^(k - 1)
                                                 ELSE DELAY_MAX_FACTOR)]
<1>1. a \in [Nat -> Nat]
  BY DelayType
<1>2. PICK h \in [Nat -> Nat] :
        h = [k \in Nat |-> IF k = 0 THEN 0 ELSE h[k - 1] + a[k - 1]]
  BY <1>1, SumsFunction
<1>3. ASSUME NEW k \in Nat, k # 0
      PROVE  a[k - 1] = DELAY_UNIT * (IF 2^(k - 1) \in 1..DELAY_MAX_FACTOR
                                        THEN 2^(k - 1)
                                        ELSE DELAY_MAX_FACTOR)
  <2>1. k - 1 \in Nat
    BY <1>3
  <2> QED
    BY <2>1 DEF Delay, Backoff
<1>4. h = Def(h)
  BY <1>2, <1>3
<1>5. TotalDelay = CHOOSE f : f = Def(f)
  BY DEF TotalDelay
<1>6. TotalDelay = Def(TotalDelay)
  <2> HIDE DEF Def
  <2> QED
    BY <1>4, <1>5, Zenon
<1>7. TotalDelay[0] = 0
  BY <1>6
<1>8. ASSUME NEW k \in Nat
      PROVE  TotalDelay[k + 1] = TotalDelay[k] + Delay(k)
  <2>1. k + 1 \in Nat /\ k + 1 # 0 /\ (k + 1) - 1 = k
    OBVIOUS
  <2>2. TotalDelay[k + 1] = Def(TotalDelay)[k + 1]
    BY <1>6
  <2> QED
    BY <2>1, <2>2 DEF Delay, Backoff
<1> QED
  BY <1>7, <1>8

\* The inductive invariant behind OnSchedule: a request that was not sent yet
\* has not aged, one that was not even created has no transmissions, only the
\* last transmission sets timeout_, and a ConnectionRequest leaves count_ alone.
ScheduleOf(r) ==
  /\ object[r] = "new" => count[r] = 0 /\ ~timeout[r]
  /\ count[r] = 0 /\ ~timeout[r] => age[r] = 0
  /\ r \in Pings => count[r] = 0
  /\ timeout[r] /\ r \notin Pings => count[r] = MAX_SENDS
  /\ object[r] = "live" /\ (count[r] > 0 \/ timeout[r])
       => age[r] + Head(pending[r])
            = IF r \in Pings THEN PING_TIMEOUT ELSE TotalDelay[count[r]]
  /\ callbacks[r] = <<"OnTimeout">>
       => age[r] = IF r \in Pings THEN PING_TIMEOUT ELSE TotalDelay[MAX_SENDS]

ScheduleInv == \A r \in Requests : ScheduleOf(r)

\* The creation and the deletion of requests, this one or others, keep the
\* schedule of a request that hears no timeout.
LEMMA RegisterKeepsSchedule ==
  ASSUME NEW r \in Requests, ScheduleOf(r),
         NEW born \in SUBSET Requests, NEW dead \in SUBSET Requests,
         NEW delay, Register(born, delay, dead),
         \A q \in born : object[q] = "new",
         UNCHANGED <<count, timeout, age>>,
         callbacks'[r] = <<"OnTimeout">> => callbacks[r] = <<"OnTimeout">>
  PROVE  ScheduleOf(r)'
<1>1. object'[r] = "new" => object[r] = "new"
  BY DEF Register
<1>2. object'[r] = "live"
        => object[r] = "new" \/ (object[r] = "live" /\ pending'[r] = pending[r])
  <2>1. CASE r \in dead
    BY <2>1 DEF Register
  <2>2. CASE r \notin dead /\ r \in born
    BY <2>2
  <2>3. CASE r \notin dead /\ r \notin born
    BY <2>3 DEF Register
  <2> QED
    BY <2>1, <2>2, <2>3
<1>3. object[r] = "new" => ~(count[r] > 0 \/ timeout[r])
  BY DEF ScheduleOf
<1>4. count'[r] = count[r] /\ timeout'[r] = timeout[r] /\ age'[r] = age[r]
  OBVIOUS
<1>5. object'[r] = "live" /\ (count'[r] > 0 \/ timeout'[r])
        => age'[r] + Head(pending'[r])
             = IF r \in Pings THEN PING_TIMEOUT ELSE TotalDelay[count'[r]]
  BY <1>2, <1>3, <1>4 DEF ScheduleOf
<1> QED
  BY <1>1, <1>4, <1>5 DEF ScheduleOf

\* When the last timer of a request fires, the whole schedule has elapsed.
LEMMA TimeoutOnTime ==
  ASSUME StunInv, NEW r \in Requests, ScheduleOf(r), OnMessageTimeout(r)
  PROVE  age[r] = IF r \in Pings THEN PING_TIMEOUT ELSE TotalDelay[MAX_SENDS]
<1>1. object[r] = "live"
  BY DEF StunInv, OnMessageTimeout, Due, OneTimerPerRequest, TypeOK
<1>2. Head(pending[r]) = 0 /\ timeout[r]
  BY DEF OnMessageTimeout, Due
<1>3. age[r] + 0 = IF r \in Pings THEN PING_TIMEOUT ELSE TotalDelay[count[r]]
  BY <1>1, <1>2 DEF ScheduleOf
<1>4. age[r] + 0 = age[r]
  BY DEF StunInv, TypeOK
<1> QED
  BY <1>2, <1>3, <1>4 DEF ScheduleOf

\* A callback ends one request and leaves the schedule of the others alone.
LEMMA FinishKeepsSchedule ==
  ASSUME StunInv, ScheduleInv, NEW r \in Requests, NEW outcome \in Outcomes,
         object[r] = "live", Finish(r, outcome),
         outcome = "OnTimeout" =>
           age[r] = IF r \in Pings THEN PING_TIMEOUT ELSE TotalDelay[MAX_SENDS]
  PROVE  ScheduleInv'
<1>1. PICK born \in FollowUps, delay \in StartDelays :
        Register(born, delay, {r})
  BY DEF Finish
<1>2. /\ born \in SUBSET Requests /\ {r} \in SUBSET Requests
      /\ \A q \in born : object[q] = "new"
  BY DEF FollowUps
<1>3. UNCHANGED <<count, timeout, age>>
  BY DEF Finish
<1>4. ASSUME NEW q \in Requests, q # r
      PROVE  ScheduleOf(q)'
  <2>1. callbacks'[q] = callbacks[q]
    BY <1>4 DEF Finish, StunInv, TypeOK
  <2> QED
    BY <1>1, <1>2, <1>3, <2>1, RegisterKeepsSchedule DEF ScheduleInv
<1>5. ScheduleOf(r)'
  <2>1. callbacks'[r] = <<outcome>>
    <3>1. callbacks[r] = <<>> /\ callbacks \in [Requests -> Seq(Outcomes)]
      BY DEF StunInv, TypeOK, EndsAtMostOnce
    <3>2. callbacks'[r] = Append(callbacks[r], outcome)
      BY <3>1 DEF Finish
    <3> QED
      BY <3>1, <3>2
  <2>2. callbacks'[r] = <<"OnTimeout">> => outcome = "OnTimeout"
    BY <2>1
  <2>3. object'[r] = "deleted"
    BY <1>1 DEF Register
  <2>4. count'[r] = count[r] /\ timeout'[r] = timeout[r] /\ age'[r] = age[r]
    BY <1>3
  <2> QED
    BY <2>2, <2>3, <2>4 DEF ScheduleInv, ScheduleOf
<1> QED
  BY <1>4, <1>5 DEF ScheduleInv

\* A transmission happens when the delays of the ones before it have elapsed,
\* and sets the timer to the delay that the schedule adds next.
LEMMA SendKeepsSchedule ==
  ASSUME StunInv, ScheduleInv, NEW r \in Requests, OnMessageSend(r)
  PROVE  ScheduleInv'
<1>1. ASSUME NEW q \in Requests, q # r
      PROVE  ScheduleOf(q)'
  <2>1. /\ count'[q] = count[q] /\ timeout'[q] = timeout[q]
        /\ pending'[q] = pending[q] /\ age' = age /\ object' = object
        /\ callbacks' = callbacks
    BY <1>1 DEF OnMessageSend, StunInv, TypeOK
  <2> QED
    BY <2>1 DEF ScheduleInv, ScheduleOf
<1>2. ScheduleOf(r)'
  <2>1. /\ object[r] = "live" /\ Len(pending[r]) = 1 /\ Head(pending[r]) = 0
        /\ ~timeout[r] /\ callbacks[r] = <<>>
    BY DEF OnMessageSend, Due, StunInv, OneTimerPerRequest, EndsAtMostOnce,
           TypeOK
  <2>2. /\ object' = object /\ callbacks' = callbacks /\ age' = age
        /\ timeout'[r] = LastSend(r)
        /\ count'[r] = IF r \in Pings THEN count[r] ELSE count[r] + 1
    BY DEF OnMessageSend, StunInv, TypeOK
  <2>3. Head(pending'[r]) = NextDelay(r)
    <3>1. pending[r] \in Seq(Nat)
      BY DEF StunInv, TypeOK
    <3>2. Tail(pending[r]) \in Seq(Nat) /\ Len(Tail(pending[r])) = 0
      BY <2>1, <3>1
    <3>3. NextDelay(r) \in Nat
      BY NextDelayType DEF StunInv
    <3>4. \A d \in Nat : Head(Append(Tail(pending[r]), d)) = d
      BY <3>2
    <3>5. pending'[r] = Append(Tail(pending[r]), NextDelay(r))
      BY DEF OnMessageSend, StunInv, TypeOK
    <3> QED
      BY <3>3, <3>4, <3>5
  <2>4. age[r] \in Nat /\ count[r] \in Nat
    BY DEF StunInv, TypeOK
  <2>5. CASE r \in Pings
    <3>1. count[r] = 0 /\ age[r] = 0
      BY <2>1, <2>5 DEF ScheduleInv, ScheduleOf
    <3>2. NextDelay(r) = PING_TIMEOUT /\ 0 + PING_TIMEOUT = PING_TIMEOUT
      BY <2>5, ConstantsAssumption DEF NextDelay
    <3>3. timeout'[r]
      BY <2>2, <2>5 DEF LastSend
    <3>4. count'[r] = 0 /\ age'[r] = 0 /\ object'[r] = "live"
      BY <2>1, <2>2, <2>5, <3>1
    <3>5. age'[r] + Head(pending'[r]) = PING_TIMEOUT
      BY <2>3, <3>2, <3>4
    <3>6. callbacks'[r] # <<"OnTimeout">>
      <4>1. callbacks'[r] = <<>> /\ <<>> # <<"OnTimeout">>
        BY <2>1, <2>2
      <4> QED
        BY <4>1
    <3> QED
      BY <2>5, <3>3, <3>4, <3>5, <3>6 DEF ScheduleOf
  <2>6. CASE r \notin Pings
    <3>1. age[r] = TotalDelay[count[r]]
      <4>1. CASE count[r] = 0
        BY <2>1, <4>1, TotalDelayUnfolds DEF ScheduleInv, ScheduleOf
      <4>2. CASE count[r] # 0
        <5>1. age[r] + 0 = TotalDelay[count[r]]
          BY <2>1, <2>4, <2>6, <4>2 DEF ScheduleInv, ScheduleOf
        <5> QED
          BY <5>1, <2>4
      <4> QED
        BY <4>1, <4>2
    <3>2. NextDelay(r) = Delay(count[r])
      BY <2>6 DEF NextDelay, Delay
    <3>3. age[r] + NextDelay(r) = TotalDelay[count[r] + 1]
      BY <2>4, <3>1, <3>2, TotalDelayUnfolds
    <3>4. count'[r] = count[r] + 1 /\ count'[r] # 0
      BY <2>2, <2>4, <2>6
    <3>5. timeout'[r] => count'[r] = MAX_SENDS
      BY <2>2, <2>6, <3>4 DEF LastSend
    <3> QED
      BY <2>1, <2>2, <2>3, <2>6, <3>3, <3>4, <3>5 DEF ScheduleOf
  <2> QED
    BY <2>5, <2>6
<1> QED
  BY <1>1, <1>2 DEF ScheduleInv

\* A tick moves as much from what a timer has left to the age of its request.
LEMMA TickKeepsSchedule ==
  ASSUME StunInv, ScheduleInv, Tick
  PROVE  ScheduleInv'
<1> SUFFICES ASSUME NEW r \in Requests
             PROVE  ScheduleOf(r)'
  BY DEF ScheduleInv
<1>1. /\ object' = object /\ callbacks' = callbacks /\ count' = count
      /\ timeout' = timeout
  BY DEF Tick
<1>2. age'[r] = IF object[r] = "live" /\ (count[r] > 0 \/ timeout[r])
                  THEN age[r] + 1 ELSE age[r]
  BY DEF Tick
<1>3. ScheduleOf(r)
  BY DEF ScheduleInv
<1>4. CASE object[r] = "live" /\ (count[r] > 0 \/ timeout[r])
  <2>1. pending[r] \in Seq(Nat) /\ Len(pending[r]) = 1
    BY <1>4 DEF StunInv, TypeOK, OneTimerPerRequest
  <2>2. Head(pending[r]) \in Nat /\ Head(pending[r]) = pending[r][1]
        /\ 1 \in DOMAIN pending[r]
    BY <2>1
  <2>3. pending'[r] = [i \in DOMAIN pending[r] |-> pending[r][i] - 1]
    BY DEF Tick
  <2>4. Head(pending'[r]) = pending[r][1] - 1
    <3> DEFINE q == pending[r]
    <3>1. q \in Seq(Nat) /\ Len(q) = 1
      BY <2>1
    <3>2. pending'[r] = <<q[1] - 1>>
      BY <2>3, <3>1
    <3> QED
      BY <3>2
  <2>5. age[r] \in Nat
    BY DEF StunInv, TypeOK
  <2>6. (age[r] + 1) + (pending[r][1] - 1) = age[r] + Head(pending[r])
    BY <2>2, <2>5
  <2>7. age'[r] + Head(pending'[r])
          = IF r \in Pings THEN PING_TIMEOUT ELSE TotalDelay[count[r]]
    BY <1>2, <1>3, <1>4, <2>4, <2>6 DEF ScheduleOf
  <2>8. callbacks[r] = <<>> /\ <<>> # <<"OnTimeout">>
    BY <1>4 DEF StunInv, EndsAtMostOnce
  <2>9. ~(count[r] = 0 /\ ~timeout[r])
    BY <1>4
  <2> QED
    BY <1>1, <1>3, <1>4, <2>7, <2>8, <2>9 DEF ScheduleOf
<1>5. CASE ~(object[r] = "live" /\ (count[r] > 0 \/ timeout[r]))
  BY <1>1, <1>2, <1>3, <1>5 DEF ScheduleOf
<1> QED
  BY <1>4, <1>5

\* Every step keeps every request on its schedule.
LEMMA NextScheduleInv ==
  StunInv /\ ScheduleInv /\ [Next]_vars => ScheduleInv'
<1> SUFFICES ASSUME StunInv, ScheduleInv, [Next]_vars
             PROVE  ScheduleInv'
  OBVIOUS
<1>1. ASSUME NEW r \in Requests, NEW d \in StartDelays, SendDelayed(r, d)
      PROVE  ScheduleInv'
  <2>1. /\ Register({r}, d, {}) /\ UNCHANGED <<count, timeout, age>>
        /\ callbacks' = callbacks /\ \A q \in {r} : object[q] = "new"
    BY <1>1 DEF SendDelayed
  <2>2. {r} \in SUBSET Requests /\ {} \in SUBSET Requests
    OBVIOUS
  <2> QED
    BY <2>1, <2>2, RegisterKeepsSchedule DEF ScheduleInv
<1>2. ASSUME NEW r \in Requests, OnMessageTimeout(r)
      PROVE  ScheduleInv'
  <2>1. object[r] = "live"
    BY <1>2 DEF StunInv, OnMessageTimeout, Due, OneTimerPerRequest, TypeOK
  <2>2. age[r] = IF r \in Pings THEN PING_TIMEOUT ELSE TotalDelay[MAX_SENDS]
    BY <1>2, TimeoutOnTime DEF ScheduleInv
  <2>3. Finish(r, "OnTimeout") /\ "OnTimeout" \in Outcomes
    BY <1>2 DEF OnMessageTimeout, Outcomes
  <2> QED
    BY <2>1, <2>2, <2>3, FinishKeepsSchedule
<1>3. ASSUME NEW r \in Requests, NEW k \in Replies, CheckResponse(r, k)
      PROVE  ScheduleInv'
  <2>1. r \in requests => object[r] = "live"
    BY DEF StunInv, OneTimerPerRequest
  <2>2. CASE r \in requests /\ Finish(r, "OnResponse")
    BY <2>1, <2>2, FinishKeepsSchedule DEF Outcomes
  <2>3. CASE r \in requests /\ Finish(r, "OnErrorResponse")
    BY <2>1, <2>3, FinishKeepsSchedule DEF Outcomes
  <2>4. CASE UNCHANGED vars
    BY <2>4 DEF vars, ScheduleInv, ScheduleOf
  <2> QED
    BY <1>3, <2>2, <2>3, <2>4 DEF CheckResponse
<1>4. ASSUME Register({}, 0, requests),
             UNCHANGED <<count, timeout, age>>, callbacks' = callbacks
      PROVE  ScheduleInv'
  <2>1. /\ requests \in SUBSET Requests /\ {} \in SUBSET Requests
        /\ \A q \in {} : object[q] = "new"
    BY DEF StunInv, TypeOK
  <2> QED
    BY <1>4, <2>1, RegisterKeepsSchedule DEF ScheduleInv
<1>5. CASE Clear
  BY <1>4, <1>5 DEF Clear
<1>6. CASE DestroyManager
  BY <1>4, <1>6 DEF DestroyManager
<1>7. CASE UNCHANGED vars
  BY <1>7 DEF vars, ScheduleInv, ScheduleOf
<1> QED
  BY <1>1, <1>2, <1>3, <1>5, <1>6, <1>7, SendKeepsSchedule,
     TickKeepsSchedule DEF Next

\* Retransmissions and timeouts keep to the schedule that the unit test of
\* StunRequest computes, for any number of transmissions and any backoff.
THEOREM StunSchedule == Spec => []OnSchedule
<1>1. Init => ScheduleInv
  BY DEF Init, ScheduleInv, ScheduleOf
<1>2. ScheduleInv => OnSchedule
  BY DEF ScheduleInv, ScheduleOf, OnSchedule
<1> QED
  BY <1>1, <1>2, NextScheduleInv, StunSafety, PTL DEF Spec

=============================================================================
