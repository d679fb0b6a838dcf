--------------------------- MODULE TransportProofs ---------------------------
(***************************************************************************)
(* What the session sees of a Transport's channels, for any set of         *)
(* components and any number of calls, candidates, flag changes, restarts  *)
(* and resets.                                                             *)
(*                                                                         *)
(* The three invariants are about what is on its way from one thread to    *)
(* the other.  A step posts messages at the end of the signaling thread's  *)
(* queue, or handles the first one: the lemmas about the queue say what    *)
(* that does to the messages in it.                                        *)
(***************************************************************************)
EXTENDS Transport, FiniteSetTheorems, SequenceTheorems, TLAPS

\* The inductive invariant.
TransportInv ==
  /\ TypeOK
  /\ WritableReported
  /\ HeldCandidatesAnnounced
  /\ AnnouncedOnceInOrder

\* A step that posts the messages of r.
Posts(r) ==
  /\ r \in Seq(SignalingMessages)
  /\ signalingQueue' = signalingQueue \o r

Has(q, m) == \E i \in DOMAIN q : q[i] = m

-----------------------------------------------------------------------------
\* Messages are told apart by their ids.
LEMMA MessagesDiffer ==
  /\ MSG_WRITESTATE \notin {MSG_CONNECTING, MSG_CANDIDATEREADY, MSG_READSTATE,
       MSG_CANDIDATEALLOCATIONCOMPLETE}
  /\ MSG_CANDIDATEREADY \notin {MSG_CONNECTING, MSG_WRITESTATE, MSG_READSTATE,
       MSG_CANDIDATEALLOCATIONCOMPLETE}
  /\ \A c : MSG_REQUESTSIGNALING(c) \notin {MSG_WRITESTATE, MSG_CANDIDATEREADY}
  BY DEF Message, MSG_CONNECTING, MSG_CANDIDATEREADY, MSG_READSTATE,
         MSG_WRITESTATE, MSG_CANDIDATEALLOCATIONCOMPLETE, MSG_REQUESTSIGNALING

\* What is posted joins what is queued, and nothing leaves the queue.
LEMMA PostKeeps ==
  ASSUME TypeOK, NEW r, Posts(r), NEW m
  PROVE  /\ signalingQueue' \in Seq(SignalingMessages)
         /\ Queued(m)' <=> Queued(m) \/ Has(r, m)
<1> DEFINE q == signalingQueue
           n == Len(q)
<1>1. q \in Seq(SignalingMessages) /\ n \in Nat /\ DOMAIN q = 1..n
  BY DEF TypeOK, QueuesOK
<1>2. r \in Seq(SignalingMessages) /\ q' = q \o r
  BY DEF Posts
<1>3. Len(r) \in Nat /\ DOMAIN r = 1..Len(r)
  BY <1>2
<1>4. q' \in Seq(SignalingMessages) /\ DOMAIN q' = 1..(n + Len(r))
  BY <1>1, <1>2, <1>3
<1>5. ASSUME Queued(m) PROVE Queued(m)'
  <2>1. PICK i \in 1..n : q[i] = m
    BY <1>1, <1>5 DEF Queued
  <2>2. i \in 1..(n + Len(r)) /\ q'[i] = q[i]
    BY <1>1, <1>2, <1>3, <2>1
  <2>. QED
    BY <1>4, <2>1, <2>2 DEF Queued
<1>6. ASSUME Has(r, m) PROVE Queued(m)'
  <2>1. PICK i \in 1..Len(r) : r[i] = m
    BY <1>3, <1>6 DEF Has
  <2>2. n + i \in 1..(n + Len(r)) /\ q'[n + i] = r[i]
    BY <1>1, <1>2, <1>3, <2>1
  <2>. QED
    BY <1>4, <2>1, <2>2 DEF Queued
<1>7. ASSUME Queued(m)' PROVE Queued(m) \/ Has(r, m)
  <2>1. PICK i \in 1..(n + Len(r)) : q'[i] = m
    BY <1>4, <1>7 DEF Queued
  <2>2. CASE i <= n
    <3>1. i \in 1..n /\ q[i] = q'[i]
      BY <1>1, <1>2, <1>3, <2>1, <2>2
    <3>. QED
      BY <1>1, <2>1, <3>1 DEF Queued
  <2>3. CASE i > n
    <3>1. i - n \in 1..Len(r) /\ r[i - n] = q'[i]
      BY <1>1, <1>2, <1>3, <2>1, <2>3
    <3>. QED
      BY <1>3, <2>1, <3>1 DEF Has
  <2>. QED
    BY <1>1, <2>1, <2>2, <2>3
<1>. QED
  BY <1>4, <1>5, <1>6, <1>7

\* A message that is handled is the only one to leave the queue.
LEMMA HandlingKeeps ==
  ASSUME TypeOK, NEW h, Handles(h), NEW m, Queued(m), m # h
  PROVE  Queued(m)'
<1> DEFINE q == signalingQueue
<1>1. q \in Seq(SignalingMessages) /\ q # <<>> /\ Head(q) = h /\ q' = Tail(q)
  BY DEF TypeOK, QueuesOK, Handles
<1>2. Len(q) \in Nat /\ DOMAIN q = 1..Len(q)
  BY <1>1
<1>3. PICK i \in 1..Len(q) : q[i] = m
  BY <1>2 DEF Queued
<1>4. i # 1
  BY <1>1, <1>3
<1>5. DOMAIN Tail(q) = 1..(Len(q) - 1) /\ Tail(q)[i - 1] = q[i]
  BY <1>1, <1>2, <1>3, <1>4
<1>6. i - 1 \in 1..(Len(q) - 1)
  BY <1>2, <1>3, <1>4
<1>. QED
  BY <1>1, <1>3, <1>5, <1>6 DEF Queued

\* Handling a message leaves a queue of messages.
LEMMA HandlingType ==
  ASSUME TypeOK, NEW h, Handles(h)
  PROVE  signalingQueue' \in Seq(SignalingMessages)
  BY DEF TypeOK, QueuesOK, Handles

\* The requests of some channels are messages of the signaling thread.
LEMMA RequestsType ==
  ASSUME NEW S \in SUBSET Components, NEW q \in Requests(S)
  PROVE  q \in Seq(SignalingMessages)
<1>1. Cardinality(S) \in Nat
  BY TransportAssumption, FS_Subset, FS_CardinalityType
<1>2. {MSG_REQUESTSIGNALING(c) : c \in S} \subseteq SignalingMessages
  BY DEF SignalingMessages
<1>3. q \in [1..Cardinality(S) -> SignalingMessages]
  BY <1>2 DEF Requests
<1>. QED
  BY <1>1, <1>3

\* A message that is posted if b holds.
Either(b, m) == IF b THEN <<m>> ELSE <<>>

\* Posting two such messages is one post, and the second one, if it was posted,
\* is queued.
LEMMA EitherPosts ==
  ASSUME TypeOK, NEW a \in BOOLEAN, NEW m \in SignalingMessages,
                 NEW b \in BOOLEAN, NEW n \in SignalingMessages,
         signalingQueue' = signalingQueue \o Either(a, m) \o Either(b, n)
  PROVE  /\ Posts(Either(a, m) \o Either(b, n))
         /\ b => Has(Either(a, m) \o Either(b, n), n)
<1> DEFINE s == Either(a, m)
           t == Either(b, n)
<1>1. s \in Seq(SignalingMessages) /\ t \in Seq(SignalingMessages)
  BY DEF Either
<1>2. Posts(s \o t)
  <2>1. s \o t \in Seq(SignalingMessages)
    BY <1>1
  <2>2. signalingQueue \in Seq(SignalingMessages)
    BY DEF TypeOK, QueuesOK
  <2>3. (signalingQueue \o s) \o t = signalingQueue \o (s \o t)
    BY <1>1, <2>2, ConcatAssociative
  <2>. QED
    BY <2>1, <2>3 DEF Posts
<1>3. ASSUME b PROVE Has(s \o t, n)
  <2>1. t = <<n>>
    BY <1>3 DEF Either
  <2> HIDE DEF s, t
  <2>2. Len(s) \in Nat /\ Len(t) = 1 /\ t[1] = n
    BY <1>1, <2>1
  <2>3. Len(s) + 1 \in DOMAIN (s \o t) /\ (s \o t)[Len(s) + 1] = n
    <3>1. s \o t \in Seq(SignalingMessages) /\ Len(s \o t) = Len(s) + 1
      BY <1>1, <2>2, ConcatProperties
    <3>2. (s \o t)[Len(s) + 1] = t[1]
      BY <1>1, <2>2, <3>1, ConcatProperties
    <3>. QED
      BY <2>2, <3>1, <3>2
  <2>. QED
    BY <2>3 DEF Has
<1>. QED
  BY <1>2, <1>3

-----------------------------------------------------------------------------
\* The initial state satisfies the invariant.
LEMMA InitHolds == Init => TransportInv
<1> SUFFICES ASSUME Init PROVE TransportInv
  OBVIOUS
<1>1. TypeOK
  <2>1. TransportOK
    <3>1. refs \in [Components -> 0..MaxRefs]
      BY TransportAssumption DEF Init
    <3>. QED
      BY <3>1 DEF Init, TransportOK, TransportStates
  <2>2. ChannelsOK
    BY DEF Init, ChannelsOK
  <2>3. QueuesOK
    BY DEF Init, QueuesOK
  <2>4. HistoryOK
    <3>1. produced \in 0..MaxCandidates
      BY TransportAssumption DEF Init
    <3>2. held \in Seq(1..MaxCandidates) /\ announced \in Seq(1..MaxCandidates)
      BY DEF Init
    <3>3. reported \in BOOLEAN
      BY DEF Init
    <3>. QED
      BY <3>1, <3>2, <3>3 DEF Init, HistoryOK
  <2>. QED
    BY <2>1, <2>2, <2>3, <2>4 DEF TypeOK
<1>2. AnnouncedOnceInOrder
  BY DEF Init, AnnouncedOnceInOrder, Range
<1>. QED
  BY <1>1, <1>2 DEF Init, TransportInv, WritableReported,
                    HeldCandidatesAnnounced

\* The messages without a component.
LEMMA MessagesKnown ==
  /\ {MSG_CONNECTING, MSG_CANDIDATEREADY, MSG_READSTATE, MSG_WRITESTATE,
      MSG_CANDIDATEALLOCATIONCOMPLETE} \subseteq SignalingMessages
  /\ \A c \in Components : MSG_REQUESTSIGNALING(c) \in SignalingMessages
  BY DEF SignalingMessages

\* A step that leaves the candidates and the flags alone, and of the queue
\* takes nothing away, keeps the three invariants.
LEMMA Untouched ==
  ASSUME TransportInv, NEW r, Posts(r), destroyed' = destroyed,
         UNCHANGED <<produced, held, announced, dropped>>,
         UNCHANGED connectRequested \/ Has(r, MSG_CANDIDATEREADY),
         UNCHANGED <<writable, chWritable>> \/ Has(r, MSG_WRITESTATE)
  PROVE  WritableReported' /\ HeldCandidatesAnnounced' /\ AnnouncedOnceInOrder'
<1>1. \A m : Queued(m)' <=> Queued(m) \/ Has(r, m)
  BY PostKeeps DEF TransportInv
<1>2. WritableReported'
  BY <1>1 DEF TransportInv, WritableReported
<1>3. HeldCandidatesAnnounced'
  BY <1>1 DEF TransportInv, HeldCandidatesAnnounced
<1>4. AnnouncedOnceInOrder'
  BY DEF TransportInv, AnnouncedOnceInOrder
<1>. QED
  BY <1>2, <1>3, <1>4

-----------------------------------------------------------------------------
\* CreateChannel and DestroyChannel keep the invariant.
LEMMA ChannelCallsKeep ==
  ASSUME TransportInv, NEW c \in Components,
         CreateChannel(c) \/ DestroyChannel(c)
  PROVE  TransportInv'
<1>0. TypeOK /\ TransportOK /\ ChannelsOK /\ QueuesOK /\ HistoryOK
  BY DEF TransportInv, TypeOK
<1> USE TransportAssumption
<1>1. ASSUME CreateChannel(c) PROVE TransportInv'
  <2> DEFINE new == refs[c] = 0 /\ connectRequested
             r == Either(new, MSG_REQUESTSIGNALING(c)) \o
                  Either(new /\ Channels = {}, MSG_CONNECTING)
  <2>1. Posts(r)
    BY <1>0, <1>1, MessagesKnown, EitherPosts DEF CreateChannel, Either
  <2>2. TransportOK'
    BY <1>0, <1>1 DEF CreateChannel, TransportOK
  <2>3. Channels \subseteq Channels' /\ c \in Channels'
    BY <1>0, <1>1 DEF CreateChannel, TransportOK, Channels
  <2>4. ChannelsOK'
    BY <1>0, <1>1, <2>3 DEF CreateChannel, ChannelsOK
  <2>5. QueuesOK'
    BY <1>0, <1>1, <2>1, PostKeeps DEF CreateChannel, QueuesOK
  <2>6. HistoryOK'
    BY <1>0, <1>1 DEF CreateChannel, HistoryOK, historyVars, boundVars
  <2>7. WritableReported' /\ HeldCandidatesAnnounced' /\ AnnouncedOnceInOrder'
    BY <1>1, <2>1, Untouched DEF CreateChannel, historyVars
  <2>. QED
    BY <2>2, <2>4, <2>5, <2>6, <2>7 DEF TransportInv, TypeOK
<1>2. ASSUME DestroyChannel(c) PROVE TransportInv'
  <2> DEFINE gone == DestroyedWith(c)
             r == Either(Channels = gone /\ connectRequested, MSG_CONNECTING)
                    \o Either(gone # {}, MSG_WRITESTATE)
  <2>1. Posts(r) /\ (gone # {} => Has(r, MSG_WRITESTATE))
    BY <1>0, <1>2, MessagesKnown, EitherPosts DEF DestroyChannel, Either
  <2>2. TransportOK'
    <3>1. refs' \in [Components -> 0..MaxRefs]
      BY <1>0, <1>2 DEF DestroyChannel, TransportOK, Channels
    <3>2. allocated' \subseteq allocated
          /\ UNCHANGED <<connectRequested, described, destroyed, readable,
                         writable>>
      BY <1>2 DEF DestroyChannel
    <3>. QED
      BY <1>0, <3>1, <3>2 DEF TransportOK
  <2>3. Channels' = Channels \ gone
    BY <1>0, <1>2 DEF DestroyChannel, DestroyedWith, TransportOK, Channels
  <2>4. ChannelsOK'
    BY <1>0, <1>2, <2>3 DEF DestroyChannel, ChannelsOK
  <2>5. QueuesOK'
    BY <1>0, <1>2, <2>1, PostKeeps DEF DestroyChannel, QueuesOK
  <2>6. HistoryOK'
    <3>1. signalled' \subseteq signalled /\ destroys' = destroys + 1
          /\ UNCHANGED <<produced, held, announced, dropped, reported, changes,
                         restarts, resets>>
      BY <1>2 DEF DestroyChannel
    <3>. QED
      BY <1>0, <3>1 DEF HistoryOK
  <2>7. UNCHANGED <<writable, chWritable>> \/ Has(r, MSG_WRITESTATE)
    BY <1>2, <2>1 DEF DestroyChannel
  <2>8. WritableReported' /\ HeldCandidatesAnnounced' /\ AnnouncedOnceInOrder'
    BY <1>2, <2>1, <2>7, Untouched DEF DestroyChannel
  <2>. QED
    BY <2>2, <2>4, <2>5, <2>6, <2>8 DEF TransportInv, TypeOK
<1>. QED
  BY <1>1, <1>2

\* ConnectChannels and SetLocalTransportDescription keep the invariant: the
\* candidates held so far are announced by the message posted with it.
LEMMA ConnectKeeps ==
  ASSUME TransportInv, ConnectChannels \/ SetLocalTransportDescription
  PROVE  TransportInv'
<1>0. TypeOK /\ TransportOK /\ ChannelsOK /\ QueuesOK /\ HistoryOK
  BY DEF TransportInv, TypeOK
<1>1. Channels \in SUBSET Components
  BY DEF Channels
<1>2. ASSUME ConnectChannels PROVE TransportInv'
  <2>1. PICK q \in Requests(Channels) :
          signalingQueue' = signalingQueue \o <<MSG_CANDIDATEREADY>> \o q
                              \o <<MSG_CONNECTING>>
    BY <1>2 DEF ConnectChannels
  <2> DEFINE first == <<MSG_CANDIDATEREADY>>
             last  == <<MSG_CONNECTING>>
             r     == first \o q \o last
  <2>2. /\ first \in Seq(SignalingMessages) /\ q \in Seq(SignalingMessages)
        /\ last \in Seq(SignalingMessages)
    BY <1>1, RequestsType, MessagesKnown
  <2>3. r \in Seq(SignalingMessages) /\ first \o q \in Seq(SignalingMessages)
    BY <2>2
  <2>4. signalingQueue' = signalingQueue \o r
    BY <1>0, <2>1, <2>2, <2>3, ConcatAssociative DEF QueuesOK
  <2>5. Has(r, MSG_CANDIDATEREADY)
    <3>1. 1 \in DOMAIN r /\ r[1] = MSG_CANDIDATEREADY
      BY <2>2
    <3>. QED
      BY <3>1 DEF Has
  <2>6. Posts(r)
    BY <2>3, <2>4 DEF Posts
  <2>7. TransportOK'
    BY <1>0, <1>2 DEF ConnectChannels, TransportOK
  <2>8. ChannelsOK'
    BY <1>0, <1>2 DEF ConnectChannels, ChannelsOK, Channels
  <2>9. QueuesOK'
    BY <1>0, <1>2, <2>6, PostKeeps DEF ConnectChannels, QueuesOK
  <2>10. HistoryOK'
    BY <1>0, <1>2 DEF ConnectChannels, HistoryOK, historyVars, boundVars
  <2>11. WritableReported' /\ HeldCandidatesAnnounced'
           /\ AnnouncedOnceInOrder'
    BY <1>2, <2>5, <2>6, Untouched DEF ConnectChannels, historyVars
  <2>. QED
    BY <2>7, <2>8, <2>9, <2>10, <2>11 DEF TransportInv, TypeOK
<1>3. ASSUME SetLocalTransportDescription PROVE TransportInv'
  <2> DEFINE again == IF described THEN Channels ELSE {}
  <2>1. PICK q \in Requests(again) : signalingQueue' = signalingQueue \o q
    BY <1>3 DEF SetLocalTransportDescription
  <2>2. again \in SUBSET Components
    BY <1>1
  <2>3. Posts(q)
    BY <2>1, <2>2, RequestsType DEF Posts
  <2>4. TransportOK'
    BY <1>0, <1>3 DEF SetLocalTransportDescription, TransportOK
  <2>5. ChannelsOK'
    BY <1>0, <1>3 DEF SetLocalTransportDescription, ChannelsOK, Channels
  <2>6. QueuesOK'
    BY <1>0, <1>3, <2>3, PostKeeps DEF SetLocalTransportDescription, QueuesOK
  <2>7. HistoryOK'
    BY <1>0, <1>3 DEF SetLocalTransportDescription, HistoryOK, historyVars
  <2>8. WritableReported' /\ HeldCandidatesAnnounced' /\ AnnouncedOnceInOrder'
    BY <1>3, <2>3, Untouched DEF SetLocalTransportDescription, historyVars
  <2>. QED
    BY <2>4, <2>5, <2>6, <2>7, <2>8 DEF TransportInv, TypeOK
<1>. QED
  BY <1>2, <1>3

-----------------------------------------------------------------------------
(* The candidates.                                                         *)

\* The candidates of two lists are those of one and of the other.
LEMMA RangeOfConcat ==
  ASSUME NEW S, NEW s \in Seq(S), NEW t \in Seq(S)
  PROVE  Range(s \o t) = Range(s) \cup Range(t)
<1>1. /\ s \o t \in Seq(S) /\ Len(s) \in Nat /\ Len(t) \in Nat
      /\ Len(s \o t) = Len(s) + Len(t)
  BY ConcatProperties
<1>2. ASSUME NEW i \in 1..Len(s) PROVE s[i] \in Range(s \o t)
  <2>1. i \in 1..(Len(s) + Len(t)) /\ (s \o t)[i] = s[i]
    BY <1>1, ConcatProperties
  <2>. QED
    BY <1>1, <2>1 DEF Range
<1>3. ASSUME NEW i \in 1..Len(t) PROVE t[i] \in Range(s \o t)
  <2>1. Len(s) + i \in 1..(Len(s) + Len(t)) /\ (s \o t)[Len(s) + i] = t[i]
    BY <1>1, ConcatProperties
  <2>. QED
    BY <1>1, <2>1 DEF Range
<1>4. ASSUME NEW i \in 1..(Len(s) + Len(t))
      PROVE  (s \o t)[i] \in Range(s) \cup Range(t)
  <2>1. CASE i <= Len(s)
    <3>1. i \in 1..Len(s) /\ (s \o t)[i] = s[i]
      BY <1>1, <2>1, ConcatProperties
    <3>. QED
      BY <3>1 DEF Range
  <2>2. CASE i > Len(s)
    <3>1. i - Len(s) \in 1..Len(t) /\ (s \o t)[i] = t[i - Len(s)]
      BY <1>1, <2>2, ConcatProperties
    <3>. QED
      BY <3>1 DEF Range
  <2>. QED
    BY <1>1, <2>1, <2>2
<1>5. /\ DOMAIN s = 1..Len(s) /\ DOMAIN t = 1..Len(t)
      /\ DOMAIN (s \o t) = 1..(Len(s) + Len(t))
  BY <1>1
<1>6. Range(s) \subseteq Range(s \o t) /\ Range(t) \subseteq Range(s \o t)
  <2>1. \A x \in Range(s) : \E i \in 1..Len(s) : x = s[i]
    BY <1>5 DEF Range
  <2>2. \A x \in Range(t) : \E i \in 1..Len(t) : x = t[i]
    BY <1>5 DEF Range
  <2>. QED
    BY <1>2, <1>3, <2>1, <2>2
<1>7. Range(s \o t) \subseteq Range(s) \cup Range(t)
  <2>1. \A x \in Range(s \o t) : \E i \in 1..(Len(s) + Len(t)) : x = (s \o t)[i]
    BY <1>5 DEF Range
  <2>. QED
    BY <1>4, <2>1
<1>. QED
  BY <1>6, <1>7

Increasing(s) == \A i, j \in DOMAIN s : i < j => s[i] < s[j]

\* A later candidate at the end of an increasing list.
LEMMA AppendIncreases ==
  ASSUME NEW s \in Seq(Nat), Increasing(s), NEW n \in Nat,
         \A k \in Range(s) : k < n
  PROVE  Increasing(Append(s, n))
<1>1. /\ Append(s, n) \in Seq(Nat) /\ Len(s) \in Nat
      /\ DOMAIN Append(s, n) = 1..(Len(s) + 1)
      /\ \A i \in 1..Len(s) : Append(s, n)[i] = s[i]
      /\ Append(s, n)[Len(s) + 1] = n
  OBVIOUS
<1>2. SUFFICES ASSUME NEW i \in 1..(Len(s) + 1), NEW j \in 1..(Len(s) + 1),
                      i < j
               PROVE  Append(s, n)[i] < Append(s, n)[j]
  BY <1>1 DEF Increasing
<1>3. i \in 1..Len(s) /\ s[i] \in Range(s)
  BY <1>1, <1>2 DEF Range
<1>4. CASE j = Len(s) + 1
  BY <1>1, <1>3, <1>4
<1>5. CASE j # Len(s) + 1
  <2>1. j \in 1..Len(s)
    BY <1>1, <1>5
  <2>. QED
    BY <1>1, <1>2, <1>3, <2>1 DEF Increasing
<1>. QED
  BY <1>4, <1>5

\* What is left of an increasing list without its end is increasing.
LEMMA PrefixIncreases ==
  ASSUME NEW s \in Seq(Nat), NEW t \in Seq(Nat), Increasing(s \o t)
  PROVE  Increasing(s)
<1>1. /\ s \o t \in Seq(Nat) /\ Len(s) \in Nat /\ Len(t) \in Nat
      /\ Len(s \o t) = Len(s) + Len(t)
      /\ \A i \in 1..Len(s) : (s \o t)[i] = s[i]
  BY ConcatProperties
<1>2. DOMAIN s = 1..Len(s) /\ \A i \in 1..Len(s) : i \in DOMAIN (s \o t)
  BY <1>1
<1>3. SUFFICES ASSUME NEW i \in 1..Len(s), NEW j \in 1..Len(s), i < j
               PROVE  s[i] < s[j]
  BY <1>2 DEF Increasing
<1>4. (s \o t)[i] < (s \o t)[j]
  BY <1>2, <1>3 DEF Increasing
<1>. QED
  BY <1>1, <1>4

\* The candidates announced and held, in order.
All == announced \o held

\* The order of the candidates in these terms; candidates are numbers.
LEMMA OrderMeans ==
  ASSUME TypeOK
  PROVE  /\ AnnouncedOnceInOrder <=>
              Increasing(All) /\ Range(All) \cup dropped = 1..produced
         /\ announced \in Seq(Nat) /\ held \in Seq(Nat)
         /\ All \in Seq(Nat) /\ produced \in Nat
         /\ Range(All) = Range(announced) \cup Range(held)
<1>1. announced \in Seq(Nat) /\ held \in Seq(Nat) /\ produced \in Nat
  <2>1. 1..MaxCandidates \subseteq Nat
    OBVIOUS
  <2>2. /\ announced \in Seq(1..MaxCandidates) /\ held \in Seq(1..MaxCandidates)
        /\ produced \in 0..MaxCandidates
    BY DEF TypeOK, HistoryOK
  <2>3. announced \in Seq(Nat) /\ held \in Seq(Nat)
    BY <2>1, <2>2, SeqMonotonic
  <2>. QED
    BY <2>2, <2>3
<1>2. All \in Seq(Nat)
  BY <1>1 DEF All
<1>3. Range(All) = Range(announced) \cup Range(held)
  BY <1>1, RangeOfConcat DEF All
<1>4. AnnouncedOnceInOrder <=>
        Increasing(All) /\ Range(All) \cup dropped = 1..produced
  BY DEF AnnouncedOnceInOrder, Increasing, All
<1>. QED
  BY <1>1, <1>2, <1>3, <1>4

\* ResetChannels and DestroyAllChannels keep the invariant: the candidates
\* that are cleared are the last ones.
LEMMA ResetKeeps ==
  ASSUME TransportInv, ResetChannels \/ DestroyAllChannels
  PROVE  TransportInv'
<1>0. /\ TypeOK /\ TransportOK /\ ChannelsOK /\ QueuesOK /\ HistoryOK
      /\ AnnouncedOnceInOrder
  BY DEF TransportInv, TypeOK
<1>1. ASSUME ResetChannels PROVE TransportInv'
  <2> DEFINE r == Either(chReadable # {}, MSG_READSTATE)
                    \o Either(chWritable # {}, MSG_WRITESTATE)
  <2>1. Posts(r) /\ (chWritable # {} => Has(r, MSG_WRITESTATE))
    <3> DEFINE s == Either(chReadable # {}, MSG_READSTATE)
               t == Either(chWritable # {}, MSG_WRITESTATE)
    <3>1. signalingQueue' = signalingQueue \o (s \o t)
      BY <1>1 DEF ResetChannels, ResetMessages, Either
    <3>2. s \in Seq(SignalingMessages) /\ t \in Seq(SignalingMessages)
      BY MessagesKnown DEF Either
    <3>3. signalingQueue' = signalingQueue \o s \o t
      <4> HIDE DEF s, t
      <4>1. signalingQueue \in Seq(SignalingMessages)
        BY <1>0 DEF QueuesOK
      <4>. QED
        BY <3>1, <3>2, <4>1, ConcatAssociative
    <3>. QED
      BY <1>0, <3>3, MessagesKnown, EitherPosts
  <2>2. TransportOK'
    BY <1>0, <1>1 DEF ResetChannels, TransportOK
  <2>3. ChannelsOK'
    BY <1>1 DEF ResetChannels, ChannelsOK
  <2>4. QueuesOK'
    BY <1>0, <1>1, <2>1, PostKeeps DEF ResetChannels, QueuesOK
  <2>5. HistoryOK'
    <3>1. Range(held) \subseteq 1..MaxCandidates
      <4>1. held \in Seq(1..MaxCandidates)
        BY <1>0 DEF HistoryOK
      <4>2. \A i \in DOMAIN held : held[i] \in 1..MaxCandidates
        BY <4>1, LenProperties, ElementOfSeq
      <4>. QED
        BY <4>2 DEF Range
    <3>2. held' \in Seq(1..MaxCandidates)
      BY <1>1 DEF ResetChannels
    <3>3. dropped' \subseteq 1..MaxCandidates
      BY <1>0, <1>1, <3>1 DEF ResetChannels, HistoryOK
    <3>4. /\ resets' = resets + 1 /\ signalled' = {}
          /\ UNCHANGED <<produced, announced, reported, changes, destroys,
                         restarts>>
      BY <1>1 DEF ResetChannels
    <3>. QED
      BY <1>0, <3>2, <3>3, <3>4 DEF HistoryOK
  <2>6. TypeOK'
    BY <2>2, <2>3, <2>4, <2>5 DEF TypeOK
  <2>7. WritableReported'
    <3>1. Queued(MSG_WRITESTATE)' <=>
            Queued(MSG_WRITESTATE) \/ Has(r, MSG_WRITESTATE)
      BY <1>0, <2>1, PostKeeps
    <3>. QED
      BY <1>1, <2>1, <3>1 DEF ResetChannels, WritableReported, TransportInv
  <2>8. HeldCandidatesAnnounced'
    BY <1>1 DEF ResetChannels, HeldCandidatesAnnounced
  <2>9. AnnouncedOnceInOrder'
    <3>1. All' = announced
      BY <1>0, <1>1, OrderMeans DEF ResetChannels, All
    <3>2. Increasing(announced)
      BY <1>0, OrderMeans, PrefixIncreases DEF All
    <3>3. Range(announced) \cup dropped' = 1..produced'
      BY <1>0, <1>1, OrderMeans DEF ResetChannels
    <3>4. (AnnouncedOnceInOrder <=>
             Increasing(All) /\ Range(All) \cup dropped = 1..produced)'
      BY <2>6, OrderMeans, PTL
    <3>. QED
      BY <3>1, <3>2, <3>3, <3>4
  <2>. QED
    BY <2>6, <2>7, <2>8, <2>9 DEF TransportInv
<1>2. ASSUME DestroyAllChannels PROVE TransportInv'
  <2>1. TransportOK'
    BY <1>0, <1>2, TransportAssumption DEF DestroyAllChannels, TransportOK
  <2>2. ChannelsOK' /\ QueuesOK'
    BY <1>2 DEF DestroyAllChannels, ChannelsOK, QueuesOK
  <2>3. HistoryOK'
    BY <1>0, <1>2 DEF DestroyAllChannels, HistoryOK, historyVars, boundVars
  <2>4. WritableReported' /\ HeldCandidatesAnnounced'
    BY <1>2 DEF DestroyAllChannels, WritableReported, HeldCandidatesAnnounced
  <2>5. AnnouncedOnceInOrder'
    BY <1>0, <1>2 DEF DestroyAllChannels, AnnouncedOnceInOrder, historyVars
  <2>. QED
    BY <2>1, <2>2, <2>3, <2>4, <2>5 DEF TransportInv, TypeOK
<1>. QED
  BY <1>1, <1>2

-----------------------------------------------------------------------------
\* The messages handled on the signaling thread keep the invariant.  Each is
\* the only one to leave the queue; the one that reports the write state and
\* the one that announces candidates leave nothing to be reported.
LEMMA SignalingKeeps ==
  ASSUME TransportInv, SignalingMessage
  PROVE  TransportInv'
<1>0. /\ TypeOK /\ TransportOK /\ ChannelsOK /\ QueuesOK /\ HistoryOK
      /\ WritableReported /\ HeldCandidatesAnnounced /\ AnnouncedOnceInOrder
  BY DEF TransportInv, TypeOK
<1>1. ASSUME OnChannelReadableState_s \/ OnConnecting_s
             \/ OnChannelCandidatesAllocationDone_s
             \/ \E c \in Components : OnChannelRequestSignaling_s(c)
      PROVE  TransportInv'
  <2>1. \E h : Handles(h) /\ h # MSG_WRITESTATE /\ h # MSG_CANDIDATEREADY
    <3>1. CASE OnChannelReadableState_s \/ OnConnecting_s
               \/ OnChannelCandidatesAllocationDone_s
      BY <3>1, MessagesDiffer DEF OnChannelReadableState_s, OnConnecting_s,
        OnChannelCandidatesAllocationDone_s
    <3>2. CASE \E c \in Components : OnChannelRequestSignaling_s(c)
      BY <3>2, MessagesDiffer DEF OnChannelRequestSignaling_s
    <3>. QED
      BY <1>1, <3>1, <3>2
  <2>2. /\ UNCHANGED <<refs, connectRequested, described, destroyed, writable>>
        /\ UNCHANGED channelVars /\ UNCHANGED boundVars
        /\ UNCHANGED <<produced, held, announced, dropped, signalled>>
    BY <1>1 DEF OnChannelReadableState_s, OnConnecting_s, transportVars,
      OnChannelCandidatesAllocationDone_s, OnChannelRequestSignaling_s,
      historyVars
  <2>3. allocated' \subseteq allocated
    BY <1>1 DEF OnChannelReadableState_s, OnConnecting_s, transportVars,
      OnChannelCandidatesAllocationDone_s, OnChannelRequestSignaling_s
  <2>4. readable' \in TransportStates /\ reported' \in BOOLEAN
    BY <1>0, <1>1 DEF OnChannelReadableState_s, OnConnecting_s, transportVars,
      OnChannelCandidatesAllocationDone_s, OnChannelRequestSignaling_s,
      historyVars, TransportOK, HistoryOK, GetTransportState, TransportStates
  <2>5. workerQueue' \in Seq({MSG_ONSIGNALINGREADY})
    BY <1>0, <1>1 DEF OnChannelReadableState_s, OnConnecting_s,
      OnChannelCandidatesAllocationDone_s, OnChannelRequestSignaling_s,
      QueuesOK
  <2>6. TransportOK'
    BY <1>0, <2>2, <2>3, <2>4 DEF TransportOK
  <2>7. ChannelsOK'
    BY <1>0, <2>2 DEF ChannelsOK, channelVars, Channels
  <2>8. QueuesOK'
    BY <1>0, <2>1, <2>5, HandlingType DEF QueuesOK
  <2>9. HistoryOK'
    BY <1>0, <2>2, <2>4 DEF HistoryOK, boundVars
  <2>10. /\ Queued(MSG_WRITESTATE) => Queued(MSG_WRITESTATE)'
         /\ Queued(MSG_CANDIDATEREADY) => Queued(MSG_CANDIDATEREADY)'
    BY <1>0, <2>1, HandlingKeeps
  <2>11. WritableReported' /\ HeldCandidatesAnnounced'
    BY <1>0, <2>2, <2>10 DEF WritableReported, HeldCandidatesAnnounced,
      channelVars
  <2>12. AnnouncedOnceInOrder'
    BY <1>0, <2>2 DEF AnnouncedOnceInOrder
  <2>. QED
    BY <2>6, <2>7, <2>8, <2>9, <2>11, <2>12 DEF TransportInv, TypeOK
<1>2. ASSUME OnChannelWritableState_s PROVE TransportInv'
  <2>1. Handles(MSG_WRITESTATE)
    BY <1>2 DEF OnChannelWritableState_s
  <2>2. GetTransportState(chWritable) \in TransportStates
        /\ (GetTransportState(chWritable) # "NONE" <=> chWritable # {})
    BY <1>0 DEF GetTransportState, TransportStates, ChannelsOK
  <2>3. TransportOK'
    BY <1>0, <1>2, <2>2 DEF OnChannelWritableState_s, TransportOK
  <2>4. ChannelsOK'
    BY <1>0, <1>2 DEF OnChannelWritableState_s, ChannelsOK, channelVars,
      Channels
  <2>5. QueuesOK'
    BY <1>0, <1>2, <2>1, HandlingType DEF OnChannelWritableState_s, QueuesOK
  <2>6. HistoryOK'
    BY <1>0, <1>2 DEF OnChannelWritableState_s, HistoryOK, historyVars,
      boundVars
  <2>7. WritableReported'
    BY <1>2, <2>2 DEF OnChannelWritableState_s, WritableReported, channelVars
  <2>8. HeldCandidatesAnnounced'
    BY <1>0, <1>2, <2>1, HandlingKeeps, MessagesDiffer
    DEF OnChannelWritableState_s, HeldCandidatesAnnounced
  <2>9. AnnouncedOnceInOrder'
    BY <1>0, <1>2
    DEF OnChannelWritableState_s, AnnouncedOnceInOrder, historyVars
  <2>. QED
    BY <2>3, <2>4, <2>5, <2>6, <2>7, <2>8, <2>9 DEF TransportInv, TypeOK
<1>3. ASSUME OnChannelCandidateReady_s PROVE TransportInv'
  <2>1. Handles(MSG_CANDIDATEREADY)
    BY <1>3 DEF OnChannelCandidateReady_s
  <2>2. TransportOK'
    BY <1>0, <1>3 DEF OnChannelCandidateReady_s, TransportOK
  <2>3. ChannelsOK'
    BY <1>0, <1>3 DEF OnChannelCandidateReady_s, ChannelsOK, channelVars,
      Channels
  <2>4. QueuesOK'
    BY <1>0, <1>3, <2>1, HandlingType DEF OnChannelCandidateReady_s, QueuesOK
  <2>5. HistoryOK'
    <3>1. /\ announced' \in Seq(1..MaxCandidates)
          /\ held' \in Seq(1..MaxCandidates)
      BY <1>0, <1>3 DEF OnChannelCandidateReady_s, HistoryOK
    <3>2. UNCHANGED <<produced, dropped, signalled, reported, changes,
                      destroys, restarts, resets>>
      BY <1>3 DEF OnChannelCandidateReady_s, boundVars
    <3>. QED
      BY <1>0, <3>1, <3>2 DEF HistoryOK
  <2>6. WritableReported'
    BY <1>0, <1>3, <2>1, HandlingKeeps, MessagesDiffer
    DEF OnChannelCandidateReady_s, WritableReported, channelVars
  <2>7. HeldCandidatesAnnounced'
    BY <1>3 DEF OnChannelCandidateReady_s, HeldCandidatesAnnounced
  <2>8. AnnouncedOnceInOrder'
    <3>1. announced' \o held' = announced \o held
      BY <1>0, <1>3, OrderMeans DEF OnChannelCandidateReady_s, All
    <3>. QED
      BY <1>0, <1>3, <3>1 DEF OnChannelCandidateReady_s, AnnouncedOnceInOrder
  <2>. QED
    BY <2>2, <2>3, <2>4, <2>5, <2>6, <2>7, <2>8 DEF TransportInv, TypeOK
<1>. QED
  BY <1>1, <1>2, <1>3 DEF SignalingMessage

-----------------------------------------------------------------------------
\* OnSignalingReady_w keeps the invariant.
LEMMA SignalingReadyKeeps ==
  ASSUME TransportInv, OnSignalingReady_w
  PROVE  TransportInv'
<1>0. /\ TypeOK /\ TransportOK /\ ChannelsOK /\ QueuesOK /\ HistoryOK
      /\ WritableReported /\ HeldCandidatesAnnounced /\ AnnouncedOnceInOrder
  BY DEF TransportInv, TypeOK
<1>1. TransportOK'
  BY <1>0 DEF OnSignalingReady_w, TransportOK, transportVars
<1>2. ChannelsOK'
  BY <1>0 DEF OnSignalingReady_w, ChannelsOK, transportVars, Channels
<1>3. QueuesOK'
  BY <1>0 DEF OnSignalingReady_w, QueuesOK
<1>4. HistoryOK'
  <2>1. /\ signalled' \subseteq signalled /\ reported' \in BOOLEAN
        /\ UNCHANGED <<produced, held, announced, dropped, changes, destroys,
                       restarts, resets>>
    BY <1>0 DEF OnSignalingReady_w, transportVars, boundVars
  <2>. QED
    BY <1>0, <2>1 DEF HistoryOK
<1>5. WritableReported' /\ HeldCandidatesAnnounced'
  BY <1>0 DEF OnSignalingReady_w, WritableReported, transportVars,
    HeldCandidatesAnnounced, Queued
<1>6. AnnouncedOnceInOrder'
  BY <1>0 DEF OnSignalingReady_w, AnnouncedOnceInOrder, transportVars
<1>. QED
  BY <1>1, <1>2, <1>3, <1>4, <1>5, <1>6 DEF TransportInv, TypeOK

\* What the channels report to the Transport keeps the invariant.
LEMMA WorkerKeeps ==
  ASSUME TransportInv, NEW c \in Components,
         ChannelEvent(c) \/ OnChannelCandidatesAllocationDone(c)
  PROVE  TransportInv'
<1>0. /\ TypeOK /\ TransportOK /\ ChannelsOK /\ QueuesOK /\ HistoryOK
      /\ WritableReported /\ HeldCandidatesAnnounced /\ AnnouncedOnceInOrder
  BY DEF TransportInv, TypeOK
<1>1. ASSUME OnChannelCandidateReady(c) PROVE TransportInv'
  <2> DEFINE r == Either(connectRequested, MSG_CANDIDATEREADY)
  <2>1. /\ Posts(r)
        /\ connectRequested => Has(r, MSG_CANDIDATEREADY)
    <3>1. CASE connectRequested
      <4>1. r = <<MSG_CANDIDATEREADY>> /\ r \in Seq(SignalingMessages)
        BY <3>1, MessagesKnown DEF Either
      <4>2. signalingQueue' = signalingQueue \o <<MSG_CANDIDATEREADY>>
        BY <1>0, <1>1, <3>1, MessagesKnown, AppendIsConcat
        DEF OnChannelCandidateReady, QueuesOK
      <4>. QED
        BY <4>1, <4>2 DEF Posts, Has
    <3>2. CASE ~connectRequested
      <4>1. r = <<>> /\ r \in Seq(SignalingMessages)
        BY <3>2 DEF Either
      <4>2. signalingQueue' = signalingQueue \o <<>>
        BY <1>0, <1>1, <3>2, ConcatEmptySeq
        DEF OnChannelCandidateReady, QueuesOK
      <4>. QED
        BY <3>2, <4>1, <4>2 DEF Posts
    <3>. QED
      BY <1>0, <3>1, <3>2 DEF TransportOK
  <2>2. TransportOK'
    BY <1>0, <1>1 DEF OnChannelCandidateReady, TransportOK
  <2>3. ChannelsOK'
    BY <1>0, <1>1 DEF OnChannelCandidateReady, ChannelsOK, channelVars,
      Channels
  <2>4. QueuesOK'
    BY <1>0, <1>1, <2>1, PostKeeps DEF OnChannelCandidateReady, QueuesOK
  <2>5. /\ produced \in Nat /\ produced' = produced + 1
        /\ produced' \in 1..MaxCandidates /\ held' = Append(held, produced + 1)
    BY <1>0, <1>1, TransportAssumption DEF OnChannelCandidateReady, HistoryOK
  <2>6. HistoryOK'
    <3>1. held' \in Seq(1..MaxCandidates)
      BY <1>0, <2>5 DEF HistoryOK
    <3>2. UNCHANGED <<announced, dropped, signalled, reported, changes,
                      destroys, restarts, resets>>
      BY <1>1 DEF OnChannelCandidateReady, boundVars
    <3>. QED
      BY <1>0, <2>5, <3>1, <3>2 DEF HistoryOK
  <2>7. TypeOK'
    BY <2>2, <2>3, <2>4, <2>6 DEF TypeOK
  <2>8. WritableReported'
    BY <1>0, <1>1, <2>1, PostKeeps DEF OnChannelCandidateReady,
      WritableReported, channelVars
  <2>9. HeldCandidatesAnnounced'
    BY <1>0, <1>1, <2>1, PostKeeps DEF OnChannelCandidateReady,
      HeldCandidatesAnnounced
  <2>10. AnnouncedOnceInOrder'
    <3> DEFINE n == produced + 1
    <3>1. /\ Increasing(All) /\ Range(All) \cup dropped = 1..produced
          /\ announced \in Seq(Nat) /\ held \in Seq(Nat) /\ All \in Seq(Nat)
      BY <1>0, OrderMeans
    <3>2. n \in Nat /\ <<n>> \in Seq(Nat) /\ Range(<<n>>) = {n}
      BY <2>5 DEF Range
    <3>3. All' = All \o <<n>> /\ All \o <<n>> = Append(All, n)
      <4>1. held' = held \o <<n>> /\ announced' = announced
        BY <1>1, <2>5, <3>1, <3>2, AppendIsConcat DEF OnChannelCandidateReady
      <4>2. announced \o (held \o <<n>>) = (announced \o held) \o <<n>>
        BY <3>1, <3>2, ConcatAssociative
      <4>. QED
        BY <3>1, <3>2, <4>1, <4>2, AppendIsConcat DEF All
    <3>4. Increasing(All')
      <4>1. \A k \in Range(All) : k < n
        BY <2>5, <3>1
      <4>. QED
        BY <3>1, <3>2, <3>3, <4>1, AppendIncreases
    <3>5. Range(All') \cup dropped' = 1..produced'
      <4>1. Range(All') = Range(All) \cup {n}
        <5>1. Range(All \o <<n>>) = Range(All) \cup Range(<<n>>)
          <6> DEFINE t == <<n>>
          <6>1. t \in Seq(Nat)
            BY <3>2
          <6> HIDE DEF t
          <6>2. Range(All \o t) = Range(All) \cup Range(t)
            BY <3>1, <6>1, RangeOfConcat
          <6>. QED
            BY <6>2 DEF t
        <5>. QED
          BY <3>2, <3>3, <5>1
      <4>2. dropped' = dropped /\ 1..produced' = (1..produced) \cup {n}
        BY <1>1, <2>5 DEF OnChannelCandidateReady
      <4>. QED
        BY <3>1, <4>1, <4>2
    <3>6. (AnnouncedOnceInOrder <=>
             Increasing(All) /\ Range(All) \cup dropped = 1..produced)'
      BY <2>7, OrderMeans, PTL
    <3>. QED
      BY <3>4, <3>5, <3>6
  <2>. QED
    BY <2>7, <2>8, <2>9, <2>10 DEF TransportInv
<1>2. ASSUME OnChannelReadableState(c) \/ OnChannelWritableState(c)
      PROVE  TransportInv'
  <2>1. PICK m \in {MSG_READSTATE, MSG_WRITESTATE} :
          /\ signalingQueue' = Append(signalingQueue, m)
          /\ UNCHANGED chWritable \/ m = MSG_WRITESTATE
    BY <1>2 DEF OnChannelReadableState, OnChannelWritableState
  <2>2. Posts(<<m>>) /\ Has(<<m>>, m)
    <3>1. m \in SignalingMessages /\ <<m>> \in Seq(SignalingMessages)
      BY <2>1, MessagesKnown
    <3>. QED
      BY <1>0, <2>1, <3>1, AppendIsConcat DEF QueuesOK, Posts, Has
  <2>3. /\ UNCHANGED transportVars /\ UNCHANGED historyVars
        /\ UNCHANGED <<waiting, gathering, workerQueue>>
        /\ changes' = changes + 1 /\ UNCHANGED <<destroys, restarts, resets>>
    BY <1>2 DEF OnChannelReadableState, OnChannelWritableState
  <2>4. chReadable' \subseteq Channels /\ chWritable' \subseteq Channels
    BY <1>0, <1>2 DEF OnChannelReadableState, OnChannelWritableState,
      HasSession, ChannelsOK
  <2>5. TransportOK'
    BY <1>0, <2>3 DEF TransportOK, transportVars
  <2>6. ChannelsOK'
    BY <1>0, <2>3, <2>4 DEF ChannelsOK, Channels, transportVars
  <2>7. QueuesOK'
    BY <1>0, <2>2, <2>3, PostKeeps DEF QueuesOK
  <2>8. HistoryOK'
    BY <1>0, <2>3 DEF HistoryOK, historyVars, transportVars
  <2>9. WritableReported' /\ HeldCandidatesAnnounced' /\ AnnouncedOnceInOrder'
    BY <2>1, <2>2, <2>3, Untouched DEF transportVars, historyVars
  <2>. QED
    BY <2>5, <2>6, <2>7, <2>8, <2>9 DEF TransportInv, TypeOK
<1>3. ASSUME OnChannelCandidatesAllocationDone(c) PROVE TransportInv'
  <2>1. PICK r : Posts(r)
    <3> DEFINE m == MSG_CANDIDATEALLOCATIONCOMPLETE
    <3>1. /\ <<m>> \in Seq(SignalingMessages)
          /\ Append(signalingQueue, m) = signalingQueue \o <<m>>
          /\ signalingQueue = signalingQueue \o <<>>
      BY <1>0, MessagesKnown, AppendIsConcat, ConcatEmptySeq DEF QueuesOK
    <3>2. \/ signalingQueue' = Append(signalingQueue, m)
          \/ signalingQueue' = signalingQueue
      BY <1>3 DEF OnChannelCandidatesAllocationDone
    <3>3. \/ Posts(<<m>>) \/ Posts(<<>>)
      BY <3>1, <3>2 DEF Posts
    <3>. QED
      BY <3>3
  <2>2. TransportOK'
    BY <1>0, <1>3 DEF OnChannelCandidatesAllocationDone, TransportOK
  <2>3. ChannelsOK'
    BY <1>0, <1>3 DEF OnChannelCandidatesAllocationDone, ChannelsOK, Channels
  <2>4. QueuesOK'
    BY <1>0, <1>3, <2>1, PostKeeps
    DEF OnChannelCandidatesAllocationDone, QueuesOK
  <2>5. HistoryOK'
    BY <1>0, <1>3
    DEF OnChannelCandidatesAllocationDone, HistoryOK, boundVars
  <2>6. WritableReported' /\ HeldCandidatesAnnounced' /\ AnnouncedOnceInOrder'
    BY <1>3, <2>1, Untouched DEF OnChannelCandidatesAllocationDone
  <2>. QED
    BY <2>2, <2>3, <2>4, <2>5, <2>6 DEF TransportInv, TypeOK
<1>. QED
  BY <1>1, <1>2, <1>3 DEF ChannelEvent

-----------------------------------------------------------------------------
\* A step that changes nothing keeps the invariant.
LEMMA StutterKeeps ==
  ASSUME TransportInv, UNCHANGED vars
  PROVE  TransportInv'
<1> USE DEF vars, transportVars, channelVars, historyVars, boundVars
<1>1. TypeOK'
  <2>1. TransportOK'
    BY DEF TransportInv, TypeOK, TransportOK
  <2>2. ChannelsOK'
    BY DEF TransportInv, TypeOK, ChannelsOK, Channels
  <2>3. QueuesOK' /\ HistoryOK'
    BY DEF TransportInv, TypeOK, QueuesOK, HistoryOK
  <2>. QED
    BY <2>1, <2>2, <2>3 DEF TypeOK
<1>2. WritableReported' /\ HeldCandidatesAnnounced'
  BY DEF TransportInv, WritableReported, HeldCandidatesAnnounced, Queued
<1>3. AnnouncedOnceInOrder'
  BY DEF TransportInv, AnnouncedOnceInOrder
<1>. QED
  BY <1>1, <1>2, <1>3 DEF TransportInv

\* The inductive invariant of a Transport (TransportInv), for any components
\* and any number of calls, candidates, flag changes, restarts and resets.
THEOREM TransportSafety == Spec => []TransportInv
<1>1. TransportInv /\ [Next]_vars => TransportInv'
  <2> SUFFICES ASSUME TransportInv, [Next]_vars PROVE TransportInv'
    OBVIOUS
  <2>1. CASE Calls
    BY <2>1, ChannelCallsKeep, ConnectKeeps, ResetKeeps DEF Calls
  <2>2. CASE SignalingMessage
    BY <2>2, SignalingKeeps
  <2>3. CASE OnSignalingReady_w
    BY <2>3, SignalingReadyKeeps
  <2>4. ASSUME NEW c \in Components,
               ChannelEvent(c) \/ OnChannelCandidatesAllocationDone(c)
        PROVE  TransportInv'
    BY <2>4, WorkerKeeps
  <2>5. CASE UNCHANGED vars
    BY <2>5, StutterKeeps
  <2>. QED
    BY <2>1, <2>2, <2>3, <2>4, <2>5 DEF Next
<1>. QED
  BY InitHolds, <1>1, PTL DEF Spec

\* Type correctness: only a channel that exists has flags, waits or gathers,
\* and the queues hold the messages of their threads.
THEOREM TransportTypeCorrect == Spec => []TypeOK
<1>1. TransportInv => TypeOK
  BY DEF TransportInv
<1>. QED
  BY TransportSafety, <1>1, PTL

\* The writable bit of the Transport is right or about to be corrected
\* (OnChannelWritableState, DestroyChannel_w, ResetChannels_w).
THEOREM TransportWritable == Spec => []WritableReported
<1>1. TransportInv => WritableReported
  BY DEF TransportInv
<1>. QED
  BY TransportSafety, <1>1, PTL

\* A candidate that may be announced is about to be: whether it came before
\* or after the connect, a MSG_CANDIDATEREADY is queued.
THEOREM TransportHeld == Spec => []HeldCandidatesAnnounced
<1>1. TransportInv => HeldCandidatesAnnounced
  BY DEF TransportInv
<1>. QED
  BY TransportSafety, <1>1, PTL

\* Candidates reach the session once, in the order in which they were
\* gathered (OnChannelCandidateReady_s), and only ResetChannels loses any.
THEOREM TransportOrder == Spec => []AnnouncedOnceInOrder
<1>1. TransportInv => AnnouncedOnceInOrder
  BY DEF TransportInv
<1>. QED
  BY TransportSafety, <1>1, PTL

-----------------------------------------------------------------------------
(* The end of gathering.                                                   *)

\* Until the first restart or reset: a channel that counts as done
\* (candidates_allocated) is, one that waits for signaling has not begun, and
\* before the client connects none does anything.
GatherInv ==
  restarts = 0 /\ resets = 0 =>
    /\ allocated \subseteq signalled \cap Channels
    /\ \A c \in waiting : gathering[c] = 0 /\ c \notin allocated
    /\ ~connectRequested =>
         /\ waiting = {} /\ allocated = {}
         /\ \A c \in Components : gathering[c] = 0

\* A step that leaves the channels' allocation alone keeps it.
LEMMA GatherUntouched ==
  ASSUME GatherInv,
         UNCHANGED <<signalled, refs, waiting, gathering, connectRequested,
                     restarts, resets>>,
         allocated' \subseteq allocated
  PROVE  GatherInv'
  BY DEF GatherInv, Channels

\* Every step keeps the invariant: a channel counts as done only when its
\* allocator has just signalled it.
LEMMA GatherKeeps ==
  ASSUME TypeOK, GatherInv, [Next]_vars
  PROVE  GatherInv'
<1>0. TransportOK /\ ChannelsOK /\ HistoryOK
  BY DEF TypeOK
<1>1. ASSUME NEW c \in Components, CreateChannel(c) PROVE GatherInv'
  <2>1. Channels \subseteq Channels' /\ c \in Channels'
    BY <1>0, <1>1, TransportAssumption
    DEF CreateChannel, TransportOK, Channels
  <2>2. /\ UNCHANGED <<allocated, connectRequested, gathering, signalled,
                       restarts, resets>>
        /\ \/ waiting' = waiting
           \/ refs[c] = 0 /\ connectRequested /\ waiting' = waiting \cup {c}
    BY <1>1 DEF CreateChannel, historyVars, boundVars
  <2>3. refs[c] = 0 => gathering[c] = 0 /\ c \notin Channels
    BY <1>0 DEF Channels, ChannelsOK
  <2>. QED
    BY <2>1, <2>2, <2>3 DEF GatherInv
<1>2. ASSUME NEW c \in Components, DestroyChannel(c) PROVE GatherInv'
  <2> DEFINE gone == DestroyedWith(c)
  <2>1. Channels' = Channels \ gone
    BY <1>0, <1>2, TransportAssumption
    DEF DestroyChannel, DestroyedWith, TransportOK, Channels
  <2>2. /\ allocated' = allocated \ gone /\ waiting' = waiting \ gone
        /\ signalled' = signalled \ gone
        /\ gathering' = [d \in Components |->
                           IF d \in gone THEN 0 ELSE gathering[d]]
        /\ UNCHANGED <<connectRequested, restarts, resets>>
    BY <1>2 DEF DestroyChannel
  <2>3. waiting \subseteq Components
    BY <1>0 DEF ChannelsOK, Channels
  <2> HIDE DEF gone
  <2>. QED
    BY <2>1, <2>2, <2>3 DEF GatherInv
<1>3. ASSUME ConnectChannels PROVE GatherInv'
  <2>1. /\ ~connectRequested /\ connectRequested'
        /\ UNCHANGED <<refs, allocated, gathering, signalled, restarts, resets>>
        /\ waiting' = waiting \cup Channels
    BY <1>3 DEF ConnectChannels, historyVars, boundVars
  <2>2. Channels' = Channels /\ Channels \subseteq Components
    BY <2>1 DEF Channels
  <2>. QED
    BY <2>1, <2>2 DEF GatherInv
<1>4. ASSUME SetLocalTransportDescription PROVE GatherInv'
  <2>1. CASE described
    <3>1. restarts' = restarts + 1 /\ restarts \in Nat
      BY <1>0, <1>4, <2>1 DEF SetLocalTransportDescription, HistoryOK
    <3>2. restarts' # 0
      BY <3>1
    <3>. QED
      BY <3>2 DEF GatherInv
  <2>2. CASE ~described
    <3>1. waiting' = waiting /\ restarts' = restarts
      BY <1>4, <2>2 DEF SetLocalTransportDescription
    <3>. QED
      BY <1>4, <3>1, GatherUntouched
      DEF SetLocalTransportDescription, historyVars
  <2>. QED
    BY <2>1, <2>2
<1>5. ASSUME ResetChannels PROVE GatherInv'
  <2>1. resets' = resets + 1 /\ resets \in Nat
    BY <1>0, <1>5 DEF ResetChannels, HistoryOK
  <2>2. resets' # 0
    BY <2>1
  <2>. QED
    BY <2>2 DEF GatherInv
<1>6. ASSUME DestroyAllChannels PROVE GatherInv'
  BY <1>6 DEF DestroyAllChannels, GatherInv
<1>7. ASSUME SignalingMessage PROVE GatherInv'
  <2>1. /\ UNCHANGED <<signalled, refs, waiting, gathering, connectRequested,
                       restarts, resets>>
        /\ allocated' \subseteq allocated
    BY <1>7 DEF SignalingMessage, OnChannelReadableState_s,
      OnChannelWritableState_s, OnConnecting_s, OnChannelRequestSignaling_s,
      OnChannelCandidateReady_s, OnChannelCandidatesAllocationDone_s,
      transportVars, channelVars, historyVars, boundVars
  <2>. QED
    BY <2>1, GatherUntouched
<1>8. ASSUME OnSignalingReady_w PROVE GatherInv'
  <2>1. /\ UNCHANGED <<refs, allocated, connectRequested, restarts, resets>>
        /\ waiting' = {} /\ signalled' = signalled \ waiting
        /\ gathering' = [c \in Components |->
                           IF c \in waiting THEN gathering[c] + 1
                                            ELSE gathering[c]]
    BY <1>8 DEF OnSignalingReady_w, transportVars, boundVars
  <2>2. Channels' = Channels
    BY <2>1 DEF Channels
  <2>. QED
    BY <2>1, <2>2 DEF GatherInv
<1>9. ASSUME NEW c \in Components, ChannelEvent(c) PROVE GatherInv'
  <2>1. UNCHANGED <<signalled, refs, waiting, gathering, connectRequested,
                    allocated, restarts, resets>>
    BY <1>9 DEF ChannelEvent, OnChannelCandidateReady, OnChannelReadableState,
      OnChannelWritableState, transportVars, channelVars, historyVars,
      boundVars
  <2>. QED
    BY <2>1, GatherUntouched
<1>10. ASSUME NEW c \in Components, OnChannelCandidatesAllocationDone(c)
       PROVE  GatherInv'
  <2>1. /\ gathering[c] > 0
        /\ UNCHANGED <<refs, connectRequested, waiting, restarts, resets>>
        /\ allocated' = allocated \cup {c} /\ signalled' = signalled \cup {c}
        /\ gathering' = [gathering EXCEPT ![c] = @ - 1]
    BY <1>10 DEF OnChannelCandidatesAllocationDone, boundVars
  <2>2. /\ Channels' = Channels /\ gathering[c] # 0 /\ c \in Channels
        /\ gathering \in [Components -> Nat] /\ waiting \subseteq Components
    BY <1>0, <2>1 DEF ChannelsOK, Channels
  <2>3. \A d \in Components \ {c} : gathering'[d] = gathering[d]
    BY <2>1, <2>2
  <2>. QED
    BY <2>1, <2>2, <2>3 DEF GatherInv
<1>11. ASSUME UNCHANGED vars PROVE GatherInv'
  BY <1>11, GatherUntouched
  DEF vars, transportVars, channelVars, historyVars, boundVars
<1>. QED
  BY <1>1, <1>2, <1>3, <1>4, <1>5, <1>6, <1>7, <1>8, <1>9, <1>10, <1>11
  DEF Next, Calls

\* Only the end of an allocation posts the end of gathering.
LEMMA OnlyDonePosts ==
  ASSUME TypeOK, [Next]_vars, PostsComplete
  PROVE  \E c \in Components : OnChannelCandidatesAllocationDone(c)
<1> DEFINE m == MSG_CANDIDATEALLOCATIONCOMPLETE
           q == signalingQueue
<1>0. q \in Seq(SignalingMessages) /\ Len(q) \in Nat /\ DOMAIN q = 1..Len(q)
  BY DEF TypeOK, QueuesOK
<1>1. PICK i \in DOMAIN q' : i > Len(q) /\ q'[i] = m
  BY DEF PostsComplete
<1>2. ASSUME NEW r \in Seq(SignalingMessages), q' = q \o r PROVE Has(r, m)
  <2>1. /\ Len(r) \in Nat /\ DOMAIN r = 1..Len(r)
        /\ DOMAIN (q \o r) = 1..(Len(q) + Len(r))
    BY <1>0
  <2>2. i - Len(q) \in 1..Len(r) /\ r[i - Len(q)] = q'[i]
    BY <1>0, <1>1, <1>2, <2>1
  <2>. QED
    BY <1>1, <2>1, <2>2 DEF Has
<1>3. \A c : m # MSG_REQUESTSIGNALING(c)
  BY DEF Message, MSG_CANDIDATEALLOCATIONCOMPLETE, MSG_REQUESTSIGNALING
<1>4. m \notin {MSG_CONNECTING, MSG_CANDIDATEREADY, MSG_READSTATE, MSG_WRITESTATE}
  BY DEF Message, MSG_CONNECTING, MSG_CANDIDATEREADY, MSG_READSTATE,
         MSG_WRITESTATE, MSG_CANDIDATEALLOCATIONCOMPLETE
<1> HIDE DEF m
<1>5. ASSUME NEW a \in BOOLEAN, NEW x, NEW b \in BOOLEAN, NEW y,
             Has(Either(a, x) \o Either(b, y), m)
      PROVE  m = x \/ m = y
  BY <1>5 DEF Has, Either
<1>6. ASSUME NEW c \in Components, CreateChannel(c) PROVE FALSE
  <2>1. /\ (refs[c] = 0 /\ connectRequested) \in BOOLEAN
        /\ ((refs[c] = 0 /\ connectRequested) /\ Channels = {}) \in BOOLEAN
    OBVIOUS
  <2>2. q' = q \o Either(refs[c] = 0 /\ connectRequested, MSG_REQUESTSIGNALING(c))
                 \o Either((refs[c] = 0 /\ connectRequested) /\ Channels = {},
                           MSG_CONNECTING)
    BY <1>6 DEF CreateChannel, Either
  <2> DEFINE r == Either(refs[c] = 0 /\ connectRequested, MSG_REQUESTSIGNALING(c))
                 \o Either((refs[c] = 0 /\ connectRequested) /\ Channels = {},
                           MSG_CONNECTING)
  <2>3. r \in Seq(SignalingMessages) /\ q' = q \o r
    BY <2>2, MessagesKnown, EitherPosts DEF Posts
  <2>4. Has(r, m)
    BY <1>2, <2>3
  <2>. QED
    BY <1>3, <1>4, <1>5, <2>4
<1>7. ASSUME NEW c \in Components, DestroyChannel(c) PROVE FALSE
  <2> DEFINE gone == DestroyedWith(c)
             r == Either(Channels = gone /\ connectRequested, MSG_CONNECTING)
                    \o Either(gone # {}, MSG_WRITESTATE)
  <2>1. q' = q \o Either(Channels = gone /\ connectRequested, MSG_CONNECTING)
               \o Either(gone # {}, MSG_WRITESTATE)
    BY <1>7 DEF DestroyChannel, Either
  <2>2. r \in Seq(SignalingMessages) /\ q' = q \o r
    BY <2>1, MessagesKnown, EitherPosts DEF Posts
  <2>3. Has(r, m)
    BY <1>2, <2>2
  <2>. QED
    BY <1>4, <1>5, <2>3
<1>8. ASSUME NEW S \in SUBSET Components, NEW s \in Requests(S)
      PROVE  s \in Seq(SignalingMessages) /\ ~Has(s, m)
  <2>1. s \in Seq(SignalingMessages)
    BY RequestsType
  <2>2. s \in [1..Cardinality(S) -> {MSG_REQUESTSIGNALING(c) : c \in S}]
    BY DEF Requests
  <2>. QED
    BY <1>3, <2>1, <2>2 DEF Has
<1>9. Channels \in SUBSET Components
  BY DEF Channels
<1>10. ASSUME ConnectChannels PROVE FALSE
  <2>1. PICK s \in Requests(Channels) :
          q' = q \o <<MSG_CANDIDATEREADY>> \o s \o <<MSG_CONNECTING>>
    BY <1>10 DEF ConnectChannels
  <2> DEFINE first == <<MSG_CANDIDATEREADY>>
             last  == <<MSG_CONNECTING>>
  <2>2. /\ first \in Seq(SignalingMessages) /\ s \in Seq(SignalingMessages)
        /\ last \in Seq(SignalingMessages) /\ ~Has(s, m)
    BY <1>8, <1>9, MessagesKnown
  <2>3. ~Has(first, m) /\ ~Has(last, m)
    BY <1>4 DEF Has
  <2>4. first \o s \o last \in Seq(SignalingMessages) /\ q' = q \o (first \o s \o last)
    BY <1>0, <2>1, <2>2, ConcatAssociative
  <2>5. Has(first \o s \o last, m)
    BY <1>2, <2>4
  <2> HIDE DEF first, last
  <2>6. ASSUME NEW a \in Seq(SignalingMessages), NEW b \in Seq(SignalingMessages),
               Has(a \o b, m)
        PROVE  Has(a, m) \/ Has(b, m)
    <3>1. /\ Len(a) \in Nat /\ Len(b) \in Nat /\ DOMAIN a = 1..Len(a)
          /\ DOMAIN b = 1..Len(b) /\ DOMAIN (a \o b) = 1..(Len(a) + Len(b))
      OBVIOUS
    <3>2. PICK j \in 1..(Len(a) + Len(b)) : (a \o b)[j] = m
      BY <2>6, <3>1 DEF Has
    <3>3. CASE j <= Len(a)
      BY <3>1, <3>2, <3>3 DEF Has
    <3>4. CASE j > Len(a)
      <4>1. j - Len(a) \in 1..Len(b) /\ b[j - Len(a)] = m
        BY <3>1, <3>2, <3>4
      <4>. QED
        BY <3>1, <4>1 DEF Has
    <3>. QED
      BY <3>1, <3>3, <3>4
  <2>7. first \o s \in Seq(SignalingMessages)
    BY <2>2
  <2>. QED
    BY <2>2, <2>3, <2>5, <2>6, <2>7
<1>11. ASSUME SetLocalTransportDescription PROVE FALSE
  <2> DEFINE again == IF described THEN Channels ELSE {}
  <2>1. PICK s \in Requests(again) : q' = q \o s
    BY <1>11 DEF SetLocalTransportDescription
  <2>2. again \in SUBSET Components
    BY <1>9
  <2>. QED
    BY <1>2, <1>8, <2>1, <2>2
<1>12. ASSUME ResetChannels PROVE FALSE
  <2> DEFINE r == Either(chReadable # {}, MSG_READSTATE)
                    \o Either(chWritable # {}, MSG_WRITESTATE)
  <2>1. q' = q \o r
    BY <1>12 DEF ResetChannels, ResetMessages, Either
  <2>2. r \in Seq(SignalingMessages)
    BY MessagesKnown DEF Either
  <2>3. Has(r, m)
    BY <1>2, <2>1, <2>2
  <2>. QED
    BY <1>4, <1>5, <2>3
<1>13. q' # <<>> /\ q' # q
  BY <1>0, <1>1
<1>14. ~DestroyAllChannels /\ ~OnSignalingReady_w /\ ~UNCHANGED vars
  BY <1>13 DEF DestroyAllChannels, OnSignalingReady_w, vars
<1>15. ASSUME SignalingMessage PROVE FALSE
  <2>1. q # <<>> /\ q' = Tail(q)
    BY <1>15 DEF SignalingMessage, OnChannelReadableState_s,
      OnChannelWritableState_s, OnConnecting_s, OnChannelRequestSignaling_s,
      OnChannelCandidateReady_s, OnChannelCandidatesAllocationDone_s, Handles
  <2>. QED
    BY <1>0, <1>1, <2>1
<1>16. ASSUME NEW c \in Components, ChannelEvent(c) PROVE FALSE
  <2>1. \E x \in {MSG_CANDIDATEREADY, MSG_READSTATE, MSG_WRITESTATE} :
          q' = Append(q, x)
    BY <1>13, <1>16 DEF ChannelEvent, OnChannelCandidateReady,
      OnChannelReadableState, OnChannelWritableState
  <2>2. PICK x \in {MSG_CANDIDATEREADY, MSG_READSTATE, MSG_WRITESTATE} :
          q' = Append(q, x)
    BY <2>1
  <2>3. i = Len(q) + 1 /\ q'[i] = x
    BY <1>0, <1>1, <2>2
  <2>. QED
    BY <1>1, <1>4, <2>3
<1>. QED
  BY <1>6, <1>7, <1>10, <1>11, <1>12, <1>14, <1>15, <1>16 DEF Next, Calls

\* Until the first ICE restart or reset, OnChannelCandidatesAllocationDone
\* posts the end of gathering only when every channel's allocation is done,
\* whatever channels are created and destroyed meanwhile.
THEOREM TransportComplete == Spec => CompleteMeansGathered
<1>1. Init => GatherInv
  BY DEF Init, GatherInv
<1>2. TypeOK /\ GatherInv /\ [Next]_vars => GatherInv'
  BY GatherKeeps
<1>3. TypeOK /\ GatherInv /\ [Next]_vars =>
        [PostsComplete /\ restarts = 0 /\ resets = 0
           => Channels \subseteq signalled']_vars
  <2> SUFFICES ASSUME TypeOK, GatherInv, [Next]_vars, PostsComplete,
                      restarts = 0, resets = 0
               PROVE  Channels \subseteq signalled'
    OBVIOUS
  <2>1. PICK c \in Components : OnChannelCandidatesAllocationDone(c)
    BY OnlyDonePosts
  <2>2. Channels \subseteq allocated \cup {c}
    <3>1. AllAllocated(allocated')
      <4>1. signalingQueue' # signalingQueue
        BY DEF PostsComplete, TypeOK, QueuesOK
      <4>. QED
        BY <2>1, <4>1 DEF OnChannelCandidatesAllocationDone
    <3>. QED
      BY <2>1, <3>1 DEF OnChannelCandidatesAllocationDone, AllAllocated
  <2>. QED
    BY <2>1, <2>2 DEF OnChannelCandidatesAllocationDone, GatherInv
<1>. QED
  BY <1>1, <1>2, <1>3, TransportTypeCorrect, PTL DEF Spec, CompleteMeansGathered

=============================================================================
