---------------------- MODULE P2PTransportChannelProofs ----------------------
(***************************************************************************)
(* The ICE agent with any number of ports, remote candidates and           *)
(* connections, any preferences and RTTs, and any number of calls of its   *)
(* owner.                                                                  *)
(*                                                                         *)
(* All actions change the queue in one of two ways: Posted adds messages   *)
(* at its end, the two handlers of the worker thread take its head.  The   *)
(* lemmas of the first part say what that does to the messages in it, the  *)
(* ones of the second part what a call of SortConnections establishes.     *)
(***************************************************************************)
EXTENDS P2PTransportChannel, FiniteSetTheorems, SequenceTheorems, TLAPS

\* Only MSG_SORT may be queued more than once.
DeletesOnce(q) ==
  \A i, j \in DOMAIN q : q[i] = q[j] /\ q[i] # MSG_SORT => i = j

-----------------------------------------------------------------------------
(* Messages and queues.                                                    *)

\* Messages are told apart by their ids and their connections.
LEMMA MessagesDiffer ==
  \A c, d : /\ MSG_DELETE(c) # MSG_SORT
            /\ MSG_DELETE(c) = MSG_DELETE(d) => c = d
  BY DEF MSG_SORT, MSG_DELETE

\* A message is queued in the concatenation of two queues if it is in one.
LEMMA QueuedConcat ==
  ASSUME NEW q \in Seq(Messages), NEW s \in Seq(Messages)
  PROVE  /\ q \o s \in Seq(Messages)
         /\ \A m : Queued(m, q \o s) <=> Queued(m, q) \/ Queued(m, s)
<1>1. /\ Len(q) \in Nat /\ DOMAIN q = 1..Len(q)
      /\ Len(s) \in Nat /\ DOMAIN s = 1..Len(s)
  OBVIOUS
<1>2. q \o s \in Seq(Messages) /\ DOMAIN (q \o s) = 1..(Len(q) + Len(s))
  BY <1>1
<1>3. \A i \in 1..Len(q) : (q \o s)[i] = q[i] /\ i \in DOMAIN (q \o s)
  BY <1>1, <1>2
<1>4. \A i \in 1..Len(s) : /\ (q \o s)[Len(q) + i] = s[i]
                           /\ Len(q) + i \in DOMAIN (q \o s)
  BY <1>1, <1>2
<1>5. \A i \in DOMAIN (q \o s) \ (1..Len(q)) :
        i - Len(q) \in 1..Len(s) /\ (q \o s)[i] = s[i - Len(q)]
  BY <1>1, <1>2
<1>6. ASSUME NEW m PROVE Queued(m, q \o s) <=> Queued(m, q) \/ Queued(m, s)
  BY <1>1, <1>3, <1>4, <1>5 DEF Queued
<1>. QED
  BY <1>2, <1>6

\* Two queues without a MSG_DELETE in common make one without duplicates.
LEMMA DeletesOnceConcat ==
  ASSUME NEW q \in Seq(Messages), NEW s \in Seq(Messages),
         DeletesOnce(q), DeletesOnce(s),
         \A m \in Messages \ {MSG_SORT} : ~(Queued(m, q) /\ Queued(m, s))
  PROVE  DeletesOnce(q \o s)
<1>1. /\ Len(q) \in Nat /\ DOMAIN q = 1..Len(q)
      /\ Len(s) \in Nat /\ DOMAIN s = 1..Len(s)
  OBVIOUS
<1>2. q \o s \in Seq(Messages) /\ DOMAIN (q \o s) = 1..(Len(q) + Len(s))
  BY <1>1
<1>3. \A i \in 1..Len(q) : (q \o s)[i] = q[i] /\ q[i] \in Messages
  BY <1>1, <1>2
<1>4. \A i \in DOMAIN (q \o s) \ (1..Len(q)) :
        /\ i \in Nat /\ i - Len(q) \in 1..Len(s)
        /\ (q \o s)[i] = s[i - Len(q)] /\ s[i - Len(q)] \in Messages
  BY <1>1, <1>2
<1>5. SUFFICES ASSUME NEW i \in DOMAIN (q \o s), NEW j \in DOMAIN (q \o s),
                      (q \o s)[i] = (q \o s)[j], (q \o s)[i] # MSG_SORT
               PROVE  i = j
  BY DEF DeletesOnce
<1>6. CASE i \in 1..Len(q) /\ j \in 1..Len(q)
  BY <1>1, <1>3, <1>5, <1>6 DEF DeletesOnce
<1>7. CASE i \notin 1..Len(q) /\ j \notin 1..Len(q)
  <2>1. i - Len(q) = j - Len(q)
    BY <1>1, <1>4, <1>5, <1>7 DEF DeletesOnce
  <2>. QED
    BY <2>1, <1>1, <1>4, <1>7
<1>8. CASE i \in 1..Len(q) /\ j \notin 1..Len(q)
  BY <1>1, <1>3, <1>4, <1>5, <1>8 DEF Queued
<1>9. CASE i \notin 1..Len(q) /\ j \in 1..Len(q)
  BY <1>1, <1>3, <1>4, <1>5, <1>9 DEF Queued
<1>. QED
  BY <1>6, <1>7, <1>8, <1>9

\* A queue of one MSG_SORT, or of none.
LEMMA SortOnly ==
  ASSUME NEW dirty \in BOOLEAN
  PROVE  LET s == IF dirty THEN <<>> ELSE <<MSG_SORT>>
         IN /\ s \in Seq(Messages) /\ DeletesOnce(s)
            /\ \A m : Queued(m, s) <=> ~dirty /\ m = MSG_SORT
<1>1. /\ <<>> \in Seq(Messages) /\ DeletesOnce(<<>>)
      /\ \A m : ~Queued(m, <<>>)
  BY DEF Queued, DeletesOnce
<1>2. /\ <<MSG_SORT>> \in Seq(Messages) /\ DeletesOnce(<<MSG_SORT>>)
      /\ \A m : Queued(m, <<MSG_SORT>>) <=> m = MSG_SORT
  BY DEF Queued, DeletesOnce, Messages
<1>. QED
  BY <1>1, <1>2

\* DeleteOrders queues one MSG_DELETE for each connection of S.
LEMMA DeleteOrdersQueue ==
  ASSUME NEW S \in SUBSET Pairs, NEW d \in DeleteOrders(S)
  PROVE  /\ d \in Seq(Messages) /\ DeletesOnce(d)
         /\ \A m : Queued(m, d) <=> \E c \in S : m = MSG_DELETE(c)
<1>1. CASE S = {}
  <2>1. d = <<>>
    BY <1>1 DEF DeleteOrders
  <2>. QED
    BY <1>1, <2>1 DEF Queued, DeletesOnce
<1>2. CASE S # {}
  <2> DEFINE n == Cardinality(S)
             T == {MSG_DELETE(c) : c \in S}
  <2>1. n \in Nat
    BY ChannelAssumption, FS_Subset, FS_CardinalityType
  <2>2. d \in Bijection(1..n, T)
    BY <1>2 DEF DeleteOrders
  <2>3. /\ d \in [1..n -> T]
        /\ \A t \in T : \E i \in 1..n : d[i] = t
        /\ \A i, j \in 1..n : d[i] = d[j] => i = j
    BY <2>2 DEF Bijection, Injection, Surjection, IsInjective
  <2>4. T \subseteq Messages
    BY DEF Messages
  <2>5. d \in Seq(Messages) /\ DOMAIN d = 1..n
    BY <2>1, <2>3, <2>4
  <2>. QED
    BY <2>3, <2>5 DEF Queued, DeletesOnce
<1>. QED
  BY <1>1, <1>2

\* What Posted does: a MSG_SORT unless none changed or one is asked for, and a
\* MSG_DELETE for each connection that changed and is useless.
LEMMA PostedQueue ==
  ASSUME NEW q \in Seq(Messages), NEW dirty \in BOOLEAN,
         NEW changed \in SUBSET Pairs, NEW r, NEW w,
         NEW q1 \in Posted(q, dirty, changed, r, w)
  PROVE  /\ q1 \in Seq(Messages)
         /\ DeletesOnce(q) => DeletesOnce(q1)
         /\ Queued(MSG_SORT, q1)
              <=> Queued(MSG_SORT, q) \/ (changed # {} /\ ~dirty)
         /\ \A c \in Pairs :
              Queued(MSG_DELETE(c), q1)
                <=> \/ Queued(MSG_DELETE(c), q)
                    \/ c \in changed /\ Useless(r[c], w[c])
<1>1. CASE changed = {}
  BY <1>1 DEF Posted
<1>2. CASE changed # {}
  <2> DEFINE s == IF dirty THEN <<>> ELSE <<MSG_SORT>>
             S == {c \in changed : Useless(r[c], w[c])
                                   /\ ~Queued(MSG_DELETE(c), q)}
  <2>1. PICK d \in DeleteOrders(S) : q1 = q \o s \o d
    BY <1>2 DEF Posted
  <2>2. /\ s \in Seq(Messages) /\ DeletesOnce(s)
        /\ \A m : Queued(m, s) <=> ~dirty /\ m = MSG_SORT
    BY SortOnly
  <2>3. /\ d \in Seq(Messages) /\ DeletesOnce(d)
        /\ \A m : Queued(m, d) <=> \E c \in S : m = MSG_DELETE(c)
    <3>1. S \in SUBSET Pairs
      OBVIOUS
    <3>. QED
      BY <2>1, <3>1, DeleteOrdersQueue
  <2> HIDE DEF s, S
  <2>4. /\ q \o s \in Seq(Messages)
        /\ \A m : Queued(m, q \o s) <=> Queued(m, q) \/ Queued(m, s)
    BY <2>2, QueuedConcat
  <2>5. /\ q1 \in Seq(Messages)
        /\ \A m : Queued(m, q1) <=> Queued(m, q \o s) \/ Queued(m, d)
    BY <2>1, <2>3, <2>4, QueuedConcat
  <2>6. ASSUME DeletesOnce(q) PROVE DeletesOnce(q1)
    <3>1. DeletesOnce(q \o s)
      BY <2>2, <2>6, DeletesOnceConcat
    <3>2. \A m \in Messages \ {MSG_SORT} :
            ~(Queued(m, q \o s) /\ Queued(m, d))
      BY <2>2, <2>3, <2>4 DEF S
    <3>. QED
      BY <2>1, <2>3, <2>4, <3>1, <3>2, DeletesOnceConcat
  <2>7. Queued(MSG_SORT, q1)
          <=> Queued(MSG_SORT, q) \/ (changed # {} /\ ~dirty)
    BY <1>2, <2>2, <2>3, <2>4, <2>5, MessagesDiffer
  <2>8. \A c \in Pairs :
          Queued(MSG_DELETE(c), q1)
            <=> \/ Queued(MSG_DELETE(c), q)
                \/ c \in changed /\ Useless(r[c], w[c])
    BY <2>2, <2>3, <2>4, <2>5, MessagesDiffer DEF S
  <2>. QED
    BY <2>5, <2>6, <2>7, <2>8
<1>. QED
  BY <1>1, <1>2

\* Handling the head of the queue takes it out, and nothing else; a MSG_DELETE
\* that is handled is not queued a second time.
LEMMA TailQueue ==
  ASSUME NEW q \in Seq(Messages), q # <<>>
  PROVE  /\ Tail(q) \in Seq(Messages)
         /\ \A m : m # Head(q) => (Queued(m, Tail(q)) <=> Queued(m, q))
         /\ Queued(Head(q), q)
         /\ DeletesOnce(q) =>
              /\ DeletesOnce(Tail(q))
              /\ Head(q) # MSG_SORT => ~Queued(Head(q), Tail(q))
<1>1. Len(q) \in Nat \ {0} /\ DOMAIN q = 1..Len(q) /\ Head(q) = q[1]
  OBVIOUS
<1>2. /\ Tail(q) \in Seq(Messages)
      /\ DOMAIN Tail(q) = 1..(Len(q) - 1)
      /\ \A i \in 1..(Len(q) - 1) : Tail(q)[i] = q[i + 1]
  BY <1>1
<1>3. ASSUME NEW m, m # Head(q)
      PROVE  Queued(m, Tail(q)) <=> Queued(m, q)
  <2>1. ASSUME Queued(m, Tail(q)) PROVE Queued(m, q)
    BY <1>1, <1>2, <2>1 DEF Queued
  <2>2. ASSUME Queued(m, q) PROVE Queued(m, Tail(q))
    <3>1. PICK i \in 1..Len(q) : q[i] = m
      BY <1>1, <2>2 DEF Queued
    <3>2. i - 1 \in 1..(Len(q) - 1) /\ (i - 1) + 1 = i
      BY <1>1, <1>3, <3>1
    <3>. QED
      BY <1>2, <3>1, <3>2 DEF Queued
  <2>. QED
    BY <2>1, <2>2
<1>4. Queued(Head(q), q)
  BY <1>1 DEF Queued
<1>5. ASSUME DeletesOnce(q)
      PROVE  /\ DeletesOnce(Tail(q))
             /\ Head(q) # MSG_SORT => ~Queued(Head(q), Tail(q))
  BY <1>1, <1>2, <1>5 DEF DeletesOnce, Queued
<1>. QED
  BY <1>2, <1>3, <1>4, <1>5

-----------------------------------------------------------------------------
(* Sorting.                                                                *)

\* Write states are compared by natural numbers.
LEMMA WriteRankType ==
  \A w \in WriteStates : WriteRank(w) \in Nat
  BY DEF WriteStates, WriteRank

\* Better is a strict weak order: of two connections, one that is better than
\* the second is better than the first, or the first is better than the second.
LEMMA BetterIsWeakOrder ==
  ASSUME NEW a \in Pairs, NEW b \in Pairs, NEW c \in Pairs,
         NEW w \in [Pairs -> WriteStates], Better(c, a, w), ~Better(c, b, w)
  PROVE  Better(b, a, w)
<1>1. /\ WriteRank(w[a]) \in Nat /\ WriteRank(w[b]) \in Nat
      /\ WriteRank(w[c]) \in Nat
  BY WriteRankType
<1>2. Preference[a] \in Nat /\ Preference[b] \in Nat /\ Preference[c] \in Nat
  BY ChannelAssumption
<1>. QED
  BY <1>1, <1>2 DEF Better

\* UpdateState only takes a readable connection to READ_TIMEOUT.
LEMMA ReadUpdatesType ==
  ASSUME NEW cs, NEW r \in [Pairs -> ReadStates], NEW r1 \in ReadUpdates(cs, r)
  PROVE  /\ r1 \in [Pairs -> ReadStates]
         /\ \A c \in Pairs : r1[c] # r[c] => c \in cs
  BY DEF ReadUpdates, ReadStates

\* UpdateState changes the write states of the channel's connections only.
LEMMA WriteUpdatesType ==
  ASSUME ConnsOK, NEW cs, NEW w1 \in WriteUpdates(cs)
  PROVE  /\ w1 \in [Pairs -> WriteStates]
         /\ \A c \in Pairs : w1[c] # write[c] => c \in cs
<1>1. write \in [Pairs -> WriteStates]
  BY DEF ConnsOK
<1>. QED
  BY <1>1 DEF WriteUpdates, WriteStates

\* Connections that are useless after a change had their MSG_DELETE queued
\* before it, or have it queued by it.
LEMMA UselessQueued ==
  ASSUME NEW cs \in SUBSET Pairs, NEW q \in Seq(Messages),
         NEW dirty \in BOOLEAN, NEW r, NEW r1, NEW w, NEW w1,
         \A c \in cs : Useless(r[c], w[c]) => Queued(MSG_DELETE(c), q),
         NEW q1 \in Posted(q, dirty, Changed(cs, r, r1, w, w1), r1, w1)
  PROVE  \A c \in cs : Useless(r1[c], w1[c]) => Queued(MSG_DELETE(c), q1)
<1> DEFINE changed == Changed(cs, r, r1, w, w1)
<1>1. changed \in SUBSET Pairs
  BY DEF Changed
<1>2. \A c \in Pairs : Queued(MSG_DELETE(c), q1)
                         <=> \/ Queued(MSG_DELETE(c), q)
                             \/ c \in changed /\ Useless(r1[c], w1[c])
  BY <1>1, PostedQueue
<1>3. \A c \in cs \ changed : r1[c] = r[c] /\ w1[c] = w[c]
  BY DEF Changed
<1>. QED
  BY <1>2, <1>3

\* What SortConnections may be called with: connections, among them the ones
\* the channel has, and a queue that agrees with their states.
SortInput(cs, r, q) ==
  /\ cs \subseteq Pairs /\ conns \subseteq cs
  /\ r \in [Pairs -> ReadStates]
  /\ \A c \in Pairs \ cs : r[c] = "READ_INIT"
  /\ q \in Seq(Messages) /\ DeletesOnce(q)
  /\ \A c \in Pairs : Queued(MSG_DELETE(c), q) => c \in cs
  /\ \A c \in cs : Useless(r[c], write[c]) => Queued(MSG_DELETE(c), q)

\* What it leaves: types and pointers,
SortedConns(cs) ==
  /\ read' \in [Pairs -> ReadStates] /\ write' \in [Pairs -> WriteStates]
  /\ \A c \in Pairs \ cs : read'[c] = "READ_INIT" /\ write'[c] = write[c]
  /\ best' \in cs \cup {NoConn}
  /\ pending' \in {pending, NoConn}
  /\ pruned' \subseteq pruned \cup cs
  /\ outstanding' \subseteq outstanding
\* the queue,
SortedQueue(cs) ==
  /\ queue' \in Seq(Messages) /\ DeletesOnce(queue')
  /\ sortDirty' \in BOOLEAN
  /\ sortDirty' => Queued(MSG_SORT, queue')
  /\ \A c \in Pairs : Queued(MSG_DELETE(c), queue') => c \in cs
  /\ \A c \in cs : Useless(read'[c], write'[c])
                     => Queued(MSG_DELETE(c), queue')
\* the flags,
SortedFlags(cs) ==
  /\ writable' \in BOOLEAN /\ readable' \in BOOLEAN
  /\ wasWritable' \in BOOLEAN
  /\ wasWritable' <=> best' # NoConn /\ write'[best'] = "WRITABLE"
  /\ (writable => wasWritable) => (writable' <=> wasWritable')
  /\ (\E c \in cs : read'[c] = "READABLE") => readable'
\* and the choice of the best connection.
SortedChoice(cs) ==
  /\ best' # NoConn /\ write'[best'] = "WRITABLE"
       => \A c \in cs \ {best'} :
            Network(c) = Network(best') /\ Preference[c] <= Preference[best']
              => c \in pruned'
  /\ MayElect
       => \A c \in cs :
            /\ best' # NoConn
            /\ ~(write'[c] = "WRITABLE" /\ Better(c, best', write'))

\* What SortConnections establishes, whoever calls it.
LEMMA Sorting ==
  ASSUME ConnsOK, FlagsOK, best \in conns \cup {NoConn},
         NEW cs, NEW fresh, NEW r, NEW q, NEW dirty \in BOOLEAN,
         SortInput(cs, r, q), SortConnections(cs, fresh, r, q, dirty)
  PROVE  SortedConns(cs) /\ SortedQueue(cs) /\ SortedFlags(cs)
           /\ SortedChoice(cs)
<1> DEFINE B(r1, w1, top) == IF MayElect /\ ShouldSwitch(best, top, w1)
                               THEN top ELSE Followed(r1)
           L(w1, premier) == Losers(cs, premier, w1) \ pruned
           W2(w1, premier) == [c \in Pairs |->
                                 IF c \in L(w1, premier) THEN "WRITE_TIMEOUT"
                                 ELSE w1[c]]
           Stopped(r1, w1, premier) ==
             Changed(cs, r1, r1, w1, W2(w1, premier))
           Usable(r1, w1, top, premier) ==
             /\ B(r1, w1, top) # NoConn
             /\ W2(w1, premier)[B(r1, w1, top)] = "WRITABLE"
           Body(r1, w1, q1, top, premier) ==
             /\ best' = B(r1, w1, top)
             /\ pending' = StillPending(r1)
             /\ read' = r1
             /\ write' = W2(w1, premier)
             /\ pruned' = pruned \cup L(w1, premier)
             /\ outstanding' = outstanding \ L(w1, premier)
             /\ queue' \in Posted(q1, FALSE, Stopped(r1, w1, premier), r1,
                                  W2(w1, premier))
             /\ sortDirty' = (Stopped(r1, w1, premier) # {})
             /\ writable' = WritableAfter(Usable(r1, w1, top, premier))
             /\ wasWritable' = Usable(r1, w1, top, premier)
             /\ readable' = ReadableAfter(cs, r1, B(r1, w1, top))
<1>a. \E r1 \in ReadUpdates(cs \ fresh, r), w1 \in WriteUpdates(cs) :
      \E q1 \in Posted(q, dirty, Changed(cs, r, r1, write, w1), r1, w1) :
      \E top \in IF cs = {} THEN {NoConn} ELSE First(cs, w1) :
      \E premier \in Premiers(cs, B(r1, w1, top), w1) :
        Body(r1, w1, q1, top, premier)
  BY DEF SortConnections
<1> HIDE DEF B, Body
<1>b. PICK r1 \in ReadUpdates(cs \ fresh, r), w1 \in WriteUpdates(cs) :
      \E q1 \in Posted(q, dirty, Changed(cs, r, r1, write, w1), r1, w1) :
      \E top \in IF cs = {} THEN {NoConn} ELSE First(cs, w1) :
      \E premier \in Premiers(cs, B(r1, w1, top), w1) :
        Body(r1, w1, q1, top, premier)
  BY <1>a
<1>c. PICK q1 \in Posted(q, dirty, Changed(cs, r, r1, write, w1), r1, w1) :
      \E top \in IF cs = {} THEN {NoConn} ELSE First(cs, w1) :
      \E premier \in Premiers(cs, B(r1, w1, top), w1) :
        Body(r1, w1, q1, top, premier)
  BY <1>b
<1>d. PICK top \in IF cs = {} THEN {NoConn} ELSE First(cs, w1) :
      \E premier \in Premiers(cs, B(r1, w1, top), w1) :
        Body(r1, w1, q1, top, premier)
  BY <1>c
<1>e. PICK premier \in Premiers(cs, B(r1, w1, top), w1) :
        Body(r1, w1, q1, top, premier)
  BY <1>d
<1> DEFINE b == B(r1, w1, top)
           losers == L(w1, premier)
           w2 == W2(w1, premier)
           stopped == Stopped(r1, w1, premier)
           usable == Usable(r1, w1, top, premier)
<1>1. /\ premier \in Premiers(cs, b, w1)
      /\ best' = b
      /\ pending' = StillPending(r1)
      /\ read' = r1
      /\ write' = w2
      /\ pruned' = pruned \cup losers
      /\ outstanding' = outstanding \ losers
      /\ queue' \in Posted(q1, FALSE, stopped, r1, w2)
      /\ sortDirty' = (stopped # {})
      /\ writable' = WritableAfter(usable)
      /\ wasWritable' = usable
      /\ readable' = ReadableAfter(cs, r1, b)
  BY <1>e DEF Body
<1>0. /\ b = IF MayElect /\ ShouldSwitch(best, top, w1)
               THEN top ELSE Followed(r1)
      /\ losers = Losers(cs, premier, w1) \ pruned
      /\ w2 = [c \in Pairs |-> IF c \in losers THEN "WRITE_TIMEOUT"
                               ELSE w1[c]]
      /\ stopped = Changed(cs, r1, r1, w1, w2)
      /\ usable = (b # NoConn /\ w2[b] = "WRITABLE")
  BY DEF B
<1> HIDE DEF L, W2, Stopped, Usable, b, losers, w2, stopped, usable
<1>2. /\ cs \subseteq Pairs /\ conns \subseteq cs
      /\ r \in [Pairs -> ReadStates] /\ q \in Seq(Messages) /\ DeletesOnce(q)
  BY DEF SortInput
<1>3. /\ r1 \in [Pairs -> ReadStates]
      /\ \A c \in Pairs \ cs : r1[c] = r[c]
  BY <1>2, ReadUpdatesType
<1>4. /\ w1 \in [Pairs -> WriteStates]
      /\ \A c \in Pairs \ cs : w1[c] = write[c]
  BY WriteUpdatesType
<1>5. top \in cs \cup {NoConn} /\ (cs # {} => top \in First(cs, w1))
  BY DEF First
<1>6. /\ Followed(r1) \in conns \cup {NoConn}
      /\ StillPending(r1) \in {pending, NoConn}
  BY DEF Followed, StillPending, Follows
<1>7. b \in cs \cup {NoConn}
  BY <1>0, <1>2, <1>5, <1>6
<1>8. losers \subseteq cs
  BY <1>0 DEF Losers
<1>9. /\ w2 \in [Pairs -> WriteStates]
      /\ \A c \in Pairs \ losers : w2[c] = w1[c]
      /\ \A c \in losers : w2[c] = "WRITE_TIMEOUT"
  BY <1>0, <1>2, <1>4, <1>8 DEF WriteStates
<1>10. SortedConns(cs)
  BY <1>1, <1>2, <1>3, <1>4, <1>6, <1>7, <1>8, <1>9
     DEF SortedConns, SortInput
<1>11. SortedQueue(cs)
  <2> DEFINE changed == Changed(cs, r, r1, write, w1)
  <2>1. changed \in SUBSET Pairs /\ stopped \in SUBSET Pairs
        /\ changed \subseteq cs /\ stopped \subseteq cs
    BY <1>0, <1>2 DEF Changed
  <2>2. /\ q1 \in Seq(Messages) /\ DeletesOnce(q1)
        /\ \A c \in Pairs :
             Queued(MSG_DELETE(c), q1)
               <=> \/ Queued(MSG_DELETE(c), q)
                   \/ c \in changed /\ Useless(r1[c], w1[c])
    BY <1>2, <2>1, PostedQueue
  <2>3. /\ queue' \in Seq(Messages) /\ DeletesOnce(queue')
        /\ Queued(MSG_SORT, queue')
              <=> Queued(MSG_SORT, q1) \/ (stopped # {} /\ ~FALSE)
        /\ \A c \in Pairs :
             Queued(MSG_DELETE(c), queue')
               <=> \/ Queued(MSG_DELETE(c), q1)
                   \/ c \in stopped /\ Useless(r1[c], w2[c])
    BY <1>1, <2>1, <2>2, PostedQueue
  <2>4. \A c \in Pairs : Queued(MSG_DELETE(c), queue') => c \in cs
    BY <2>1, <2>2, <2>3 DEF SortInput
  <2>5. \A c \in cs : Useless(r1[c], w1[c]) => Queued(MSG_DELETE(c), q1)
    BY <1>2, UselessQueued DEF SortInput
  <2>6. \A c \in cs : Useless(r1[c], w2[c]) => Queued(MSG_DELETE(c), queue')
    BY <1>0, <1>1, <1>2, <2>2, <2>5, UselessQueued
  <2>. QED
    BY <1>1, <2>3, <2>4, <2>6 DEF SortedQueue
<1>12. SortedFlags(cs)
  BY <1>0, <1>1 DEF SortedFlags, WritableAfter, ReadableAfter, FlagsOK
<1>13. ASSUME b # NoConn
       PROVE  /\ b \notin losers /\ w2[b] = w1[b]
              /\ w1[b] = "WRITABLE"
                   => \A c \in cs \ {b} :
                        Network(c) = Network(b)
                          /\ Preference[c] <= Preference[b]
                          => c \in pruned \cup losers
  <2>1. b \in cs /\ b \in Pairs
    BY <1>2, <1>7, <1>13
  <2>2. premier[Network(b)] = b
    BY <1>1, <1>13, <2>1 DEF Premiers, Networks, BestOnNetwork
  <2>3. b \notin losers
    BY <1>0, <2>2 DEF Losers
  <2>4. ASSUME NEW c \in cs \ {b}, w1[b] = "WRITABLE",
               Network(c) = Network(b), Preference[c] <= Preference[b]
        PROVE  c \in pruned \cup losers
    <3>1. Preference[b] >= Preference[c]
      BY <1>2, <2>1, <2>4, ChannelAssumption
    <3>. QED
      BY <1>0, <2>2, <2>4, <3>1 DEF Losers
  <2>. QED
    BY <1>9, <2>1, <2>3, <2>4
<1>14. ASSUME MayElect, NEW c \in cs
       PROVE  b # NoConn /\ ~(w2[c] = "WRITABLE" /\ Better(c, b, w2))
  <2>1. top \in cs /\ \A d \in cs : ~Better(d, top, w1)
    BY <1>5, <1>14 DEF First, SortsBefore
  <2>2. NoConn \notin Pairs /\ top # NoConn
    BY <1>2, <2>1, ChannelAssumption
  <2>3. Followed(r1) = best
    BY <1>14 DEF Followed, Follows, MayElect, StandardIce
  <2>4. b # NoConn /\ (b = top \/ ~Better(top, b, w1))
    BY <1>0, <1>14, <2>2, <2>3 DEF ShouldSwitch
  <2>5. b \in Pairs /\ top \in Pairs /\ c \in Pairs
    BY <1>2, <1>7, <2>1, <2>4
  <2>6. ~Better(c, b, w1)
    BY <1>4, <2>1, <2>4, <2>5, BetterIsWeakOrder
  <2>7. w2[c] = "WRITABLE" => w2[c] = w1[c]
    BY <1>9, <2>5
  <2>. QED
    BY <1>13, <2>4, <2>6, <2>7 DEF Better
<1>15. SortedChoice(cs)
  <2>1. MayElect \in BOOLEAN
    BY DEF MayElect, StandardIce
  <2>. QED
    BY <1>1, <1>13, <1>14 DEF SortedChoice
<1>. QED
  BY <1>10, <1>11, <1>12, <1>15

-----------------------------------------------------------------------------
(* The inductive invariant.                                                *)

\* The pointers of the channel; pending_best_connection_ survives a Reset.
Pointers ==
  /\ best \in conns \cup {NoConn}
  /\ resets = 0 => pending \in conns \cup {NoConn}

\* A pair without a Connection keeps the values a Connection starts with, so
\* that a new one is not useless.
Unconnected ==
  \A c \in Pairs \ conns : read[c] = "READ_INIT" /\ write[c] = "WRITE_INIT"

Safe ==
  /\ Pointers
  /\ Unconnected
  /\ DeletesOnce(queue)
  /\ NoLostSort
  /\ DeletesAgree
  /\ writable => wasWritable
  /\ FlagsAgree
  /\ OnePathPerNetwork
  /\ roleChanges = 0 => ElectsTheBest

ChannelInv == TypeOK /\ Safe

\* The connections of changed go to other states, the pointers may follow, and
\* what there is to post is posted: what StateChange, OnUseCandidate and OnPing
\* have in common.
Updated(changed) ==
  /\ changed \subseteq conns
  /\ read' \in [Pairs -> ReadStates] /\ write' \in [Pairs -> WriteStates]
  /\ \A c \in Pairs \ changed : read'[c] = read[c] /\ write'[c] = write[c]
  /\ best' \in conns \cup {best} /\ (changed = {} => best' = best)
  /\ pending' \in conns \cup {NoConn, pending}
  /\ queue' \in Posted(queue, sortDirty, changed, read', write')
  /\ sortDirty' = (sortDirty \/ changed # {})

\* The parts of the state such a step leaves alone.
Frame ==
  UNCHANGED <<protocol, role, conns, writable, readable, wasWritable, pruned,
              resets, roleChanges>>

\* NoConn is no connection.
LEMMA NoConnIsNone == ASSUME ConnsOK PROVE NoConn \notin conns
  BY ChannelAssumption DEF ConnsOK

\* Changes of state, with the messages posted for them, keep the invariant.
LEMMA UpdateKeeps ==
  ASSUME ChannelInv, NEW changed, Updated(changed), Frame
  PROVE  Safe' /\ QueueOK' /\ sortDirty' \in BOOLEAN
<1>1. /\ conns \subseteq Pairs /\ NoConn \notin conns
      /\ queue \in Seq(Messages) /\ sortDirty \in BOOLEAN
  BY NoConnIsNone DEF ChannelInv, TypeOK, ConnsOK, QueueOK, FlagsOK
<1>2. /\ changed \in SUBSET Pairs /\ changed \subseteq conns
      /\ \A c \in Pairs \ changed : read'[c] = read[c] /\ write'[c] = write[c]
      /\ best' \in conns \cup {best} /\ (changed = {} => best' = best)
      /\ pending' \in conns \cup {NoConn, pending}
      /\ queue' \in Posted(queue, sortDirty, changed, read', write')
      /\ sortDirty' = (sortDirty \/ changed # {})
  BY <1>1 DEF Updated
<1>3. /\ queue' \in Seq(Messages)
      /\ DeletesOnce(queue) => DeletesOnce(queue')
      /\ Queued(MSG_SORT, queue')
           <=> Queued(MSG_SORT, queue) \/ (changed # {} /\ ~sortDirty)
      /\ \A c \in Pairs :
           Queued(MSG_DELETE(c), queue')
             <=> \/ Queued(MSG_DELETE(c), queue)
                 \/ c \in changed /\ Useless(read'[c], write'[c])
  BY <1>1, <1>2, PostedQueue
<1>4. Pointers'
  BY <1>2 DEF ChannelInv, Safe, Pointers, Frame
<1>5. Unconnected'
  BY <1>1, <1>2 DEF ChannelInv, Safe, Unconnected, Frame
<1>6. NoLostSort'
  BY <1>1, <1>2, <1>3 DEF ChannelInv, Safe, NoLostSort, SortQueued
<1>7. DeletesAgree'
  BY <1>1, <1>2, <1>3 DEF ChannelInv, Safe, DeletesAgree, Frame
<1>8. SortQueued' \/ (changed = {} /\ ~SortQueued)
  BY <1>1, <1>2, <1>3 DEF ChannelInv, Safe, NoLostSort, SortQueued
<1>9. FlagsAgree'
  BY <1>1, <1>2, <1>8 DEF ChannelInv, Safe, Pointers, FlagsAgree, Frame
<1>10. OnePathPerNetwork'
  BY <1>1, <1>2, <1>8
     DEF ChannelInv, Safe, Pointers, OnePathPerNetwork, Frame
<1>11. (roleChanges = 0 => ElectsTheBest)'
  BY <1>1, <1>2, <1>8
     DEF ChannelInv, Safe, Pointers, ElectsTheBest, MayElect, StandardIce,
         Better, Frame
<1>12. (writable => wasWritable)'
  BY DEF ChannelInv, Safe, Frame
<1>. QED
  BY <1>2, <1>3, <1>4, <1>5, <1>6, <1>7, <1>9, <1>10, <1>11, <1>12
     DEF Safe, ChannelInv, QueueOK

\* So does sorting.
LEMMA SortKeeps ==
  ASSUME ChannelInv, NEW cs, NEW fresh, NEW r, NEW q, NEW dirty \in BOOLEAN,
         SortInput(cs, r, q), SortConnections(cs, fresh, r, q, dirty),
         conns' = cs, UNCHANGED <<protocol, role, resets, roleChanges>>
  PROVE  /\ Safe' /\ QueueOK' /\ SortedConns(cs)
         /\ sortDirty' \in BOOLEAN /\ writable' \in BOOLEAN
         /\ readable' \in BOOLEAN /\ wasWritable' \in BOOLEAN
<1>1. SortedConns(cs) /\ SortedQueue(cs) /\ SortedFlags(cs)
        /\ SortedChoice(cs)
  BY Sorting DEF ChannelInv, TypeOK, Safe, Pointers
<1>2. conns \subseteq cs /\ cs \subseteq Pairs
  BY DEF SortInput
<1>3. Pointers'
  BY <1>1, <1>2 DEF ChannelInv, Safe, Pointers, SortedConns
<1>4. Unconnected'
  BY <1>1, <1>2 DEF ChannelInv, Safe, Unconnected, SortedConns
<1>5. DeletesOnce(queue)' /\ NoLostSort' /\ DeletesAgree' /\ QueueOK'
  BY <1>1 DEF SortedQueue, DeletesOnce, NoLostSort, SortQueued, DeletesAgree,
              QueueOK
<1>6. (writable => wasWritable)' /\ FlagsAgree'
  BY <1>1 DEF ChannelInv, Safe, SortedFlags, FlagsAgree
<1>7. OnePathPerNetwork'
  BY <1>1 DEF SortedChoice, OnePathPerNetwork
<1>8. (roleChanges = 0 => ElectsTheBest)'
  BY <1>1 DEF SortedChoice, ElectsTheBest, MayElect, StandardIce
<1>. QED
  BY <1>1, <1>3, <1>4, <1>5, <1>6, <1>7, <1>8
     DEF Safe, SortedQueue, SortedFlags

\* A step that touches none of the connections, the queue or the flags.
LEMMA QuietKeeps ==
  ASSUME ChannelInv,
         UNCHANGED <<protocol, conns, best, pending, sortDirty, writable,
                     readable, wasWritable, read, write, pruned, queue,
                     resets>>,
         UNCHANGED <<role, roleChanges>> \/ roleChanges' # 0
  PROVE  Safe' /\ QueueOK'
<1>1. Pointers' /\ Unconnected' /\ DeletesOnce(queue)' /\ NoLostSort'
        /\ DeletesAgree' /\ (writable => wasWritable)' /\ QueueOK'
  BY DEF ChannelInv, TypeOK, Safe, Pointers, Unconnected, DeletesOnce,
         NoLostSort, SortQueued, DeletesAgree, QueueOK
<1>2. FlagsAgree' /\ OnePathPerNetwork'
  BY DEF ChannelInv, Safe, FlagsAgree, SortQueued, OnePathPerNetwork
<1>3. (roleChanges = 0 => ElectsTheBest)'
  BY DEF ChannelInv, Safe, ElectsTheBest, SortQueued, MayElect, StandardIce,
         Better
<1>. QED
  BY <1>1, <1>2, <1>3 DEF Safe

\* StateChange updates at most the connection it is called on.
LEMMA StateChangeUpdates ==
  ASSUME ChannelInv, NEW c \in conns, NEW r \in ReadStates,
         NEW w \in WriteStates, StateChange(c, r, w)
  PROVE  \E changed : Updated(changed)
<1> DEFINE changed == IF <<r, w>> # <<read[c], write[c]>> THEN {c} ELSE {}
<1>1. /\ read \in [Pairs -> ReadStates] /\ write \in [Pairs -> WriteStates]
      /\ c \in Pairs
  BY DEF ChannelInv, TypeOK, ConnsOK
<1>2. /\ read' = [read EXCEPT ![c] = r]
      /\ write' = [write EXCEPT ![c] = w]
      /\ best' \in {best, c} /\ (changed = {} => best' = best)
      /\ pending' \in {pending, NoConn}
      /\ sortDirty' = (sortDirty \/ changed # {})
      /\ queue' \in Posted(queue, sortDirty, changed, read', write')
  BY DEF StateChange
<1>3. \A d \in Pairs \ changed : read'[d] = read[d] /\ write'[d] = write[d]
  BY <1>1, <1>2
<1>4. Updated(changed)
  BY <1>1, <1>2, <1>3 DEF Updated
<1>. QED
  BY <1>4

\* The state of a connection that is heard from is a write state.
LEMMA RestartedType ==
  ASSUME ConnsOK, NEW c \in conns
  PROVE  Restarted(c) \in WriteStates
  BY DEF ConnsOK, Restarted, WriteStates

\* What is read next are ports.
LEMMA HasReadType ==
  ASSUME PortsOK, NEW p, HasRead(p)
  PROVE  ready' \subseteq Ports
  BY DEF PortsOK, HasRead

\* The types of what such an action changes, and of what it leaves alone.
LEMMA UpdateTypes ==
  ASSUME ChannelInv, NEW changed, Updated(changed), Frame,
         UNCHANGED <<ports, remotes, waiting, started, portRole, timers,
                     connecting, gathering, restarts>>,
         ready' \subseteq Ports, unanswered' \subseteq conns,
         outstanding' \subseteq conns, rtt' \in [Pairs -> Rtts]
  PROVE  ChannelInv'
<1>1. Safe' /\ QueueOK' /\ sortDirty' \in BOOLEAN
  BY UpdateKeeps
<1>2. PortsOK' /\ CountersOK'
  BY DEF ChannelInv, TypeOK, PortsOK, CountersOK, Frame
<1>3. FlagsOK'
  BY <1>1 DEF ChannelInv, TypeOK, FlagsOK, Frame
<1>4. ConnsOK'
  <2>1. conns \subseteq Pairs
    BY DEF ChannelInv, TypeOK, ConnsOK
  <2>2. best' \in Pairs \cup {NoConn} /\ pending' \in Pairs \cup {NoConn}
    BY <2>1 DEF ChannelInv, TypeOK, ConnsOK, Updated
  <2>. QED
    BY <2>2 DEF ChannelInv, TypeOK, ConnsOK, Updated, Frame
<1>. QED
  BY <1>1, <1>2, <1>3, <1>4 DEF ChannelInv, TypeOK

-----------------------------------------------------------------------------
(* The actions.                                                            *)

\* The calls of the owner that do not touch the connections.
LEMMA OwnerStep ==
  ASSUME ChannelInv,
         \/ Connect \/ SetIceCredentials \/ OnSignalingReady
         \/ \E newRole \in Roles : SetIceRole(newRole)
         \/ \E p \in Ports : OnPortDestroyed(p)
         \/ \E c \in conns : OnPingTimeout(c)
  PROVE  ChannelInv'
<1> USE DEF ChannelInv, TypeOK
<1>1. CASE Connect
  <2>1. /\ UNCHANGED <<modeVars, ports, remotes, conns, best, pending,
                       sortDirty, flagVars, connVars, queue, gathering,
                       resets, restarts, roleChanges>>
        /\ connecting' = TRUE /\ waiting' = TRUE /\ timers' = timers + 1
        /\ ready' = {}
    BY <1>1 DEF Connect
  <2>2. Safe' /\ QueueOK'
    BY <2>1, QuietKeeps DEF modeVars, flagVars, connVars
  <2>3. PortsOK' /\ ConnsOK' /\ FlagsOK' /\ CountersOK'
    BY <2>1 DEF PortsOK, ConnsOK, FlagsOK, CountersOK, modeVars, flagVars,
                connVars
  <2>. QED
    BY <2>2, <2>3
<1>2. CASE SetIceCredentials
  <2>1. /\ UNCHANGED <<modeVars, ports, remotes, conns, best, pending,
                       sortDirty, flagVars, connVars, queue, timers,
                       connecting, gathering, resets, roleChanges>>
        /\ restarts' = restarts + 1 /\ waiting' = TRUE /\ ready' = {}
    BY <1>2 DEF SetIceCredentials
  <2>2. Safe' /\ QueueOK'
    BY <2>1, QuietKeeps DEF modeVars, flagVars, connVars
  <2>3. PortsOK' /\ ConnsOK' /\ FlagsOK' /\ CountersOK'
    BY <2>1 DEF PortsOK, ConnsOK, FlagsOK, CountersOK, modeVars, flagVars,
                connVars
  <2>. QED
    BY <2>2, <2>3
<1>3. CASE OnSignalingReady
  <2>1. /\ UNCHANGED <<modeVars, remotes, conns, best, pending, sortDirty,
                       flagVars, connVars, queue, timers, connecting, resets,
                       restarts, roleChanges>>
        /\ waiting' = FALSE /\ gathering' = TRUE /\ ports' = {} /\ ready' = {}
    BY <1>3 DEF OnSignalingReady
  <2>2. Safe' /\ QueueOK'
    BY <2>1, QuietKeeps DEF modeVars, flagVars, connVars
  <2>3. PortsOK' /\ ConnsOK' /\ FlagsOK' /\ CountersOK'
    BY <2>1 DEF PortsOK, ConnsOK, FlagsOK, CountersOK, modeVars, flagVars,
                connVars
  <2>. QED
    BY <2>2, <2>3
<1>4. CASE \E newRole \in Roles : SetIceRole(newRole)
  <2>1. PICK newRole \in Roles :
          /\ UNCHANGED <<protocol, ports, remotes, conns, best, pending,
                         sortDirty, flagVars, waiting, started, read, write,
                         pruned, unanswered, outstanding, rtt, queue, timers,
                         connecting, gathering, resets, restarts>>
          /\ roleChanges' = roleChanges + 1 /\ role' = newRole
          /\ portRole' = [p \in Ports |-> IF p \in ports THEN newRole
                                          ELSE portRole[p]]
          /\ ready' = {}
    BY <1>4 DEF SetIceRole
  <2>2. roleChanges' # 0
    BY <2>1 DEF CountersOK
  <2>3. Safe' /\ QueueOK'
    BY <2>1, <2>2, QuietKeeps DEF flagVars
  <2>4. PortsOK'
    BY <2>1 DEF PortsOK
  <2>5. ConnsOK' /\ FlagsOK' /\ CountersOK'
    BY <2>1 DEF ConnsOK, FlagsOK, CountersOK, flagVars
  <2>. QED
    BY <2>3, <2>4, <2>5
<1>5. CASE \E p \in Ports : OnPortDestroyed(p)
  <2>1. PICK p \in Ports : OnPortDestroyed(p)
    BY <1>5
  <2>2. /\ UNCHANGED <<modeVars, remotes, conns, best, pending, sortDirty,
                       flagVars, waiting, portRole, read, write, pruned,
                       unanswered, outstanding, rtt, queue, timers, ownerVars>>
        /\ \A c \in conns : PortOf(c) # p
        /\ started' = started \ {p} /\ ports' = ports \ {p} /\ ready' = {}
    BY <2>1 DEF OnPortDestroyed
  <2>3. Safe' /\ QueueOK'
    BY <2>2, QuietKeeps DEF modeVars, flagVars, ownerVars
  <2>4. PortsOK' /\ ConnsOK' /\ FlagsOK' /\ CountersOK'
    BY <2>2 DEF PortsOK, ConnsOK, FlagsOK, CountersOK, modeVars, flagVars,
                ownerVars
  <2>. QED
    BY <2>3, <2>4
<1>6. CASE \E c \in conns : OnPingTimeout(c)
  <2>1. PICK c \in conns : OnPingTimeout(c)
    BY <1>6
  <2>2. /\ UNCHANGED <<channelVars, started, portRole, read, write, pruned,
                       unanswered, rtt, queue, timers, ownerVars>>
        /\ outstanding' = outstanding \ {c} /\ ready' = {}
    BY <2>1 DEF OnPingTimeout
  <2>3. Safe' /\ QueueOK'
    BY <2>2, QuietKeeps DEF channelVars, modeVars, flagVars, ownerVars
  <2>4. PortsOK' /\ ConnsOK' /\ FlagsOK' /\ CountersOK'
    BY <2>2 DEF PortsOK, ConnsOK, FlagsOK, CountersOK, channelVars, modeVars,
                flagVars, ownerVars
  <2>. QED
    BY <2>3, <2>4
<1>. QED
  BY <1>1, <1>2, <1>3, <1>4, <1>5, <1>6

\* The packets of a connection, and the ping timer.
LEMMA PacketStep ==
  ASSUME ChannelInv,
         \/ \E c \in conns : OnBindingRequest(c) \/ OnUseCandidate(c)
                               \/ OnData(c)
         \/ \E c \in conns, newRtt \in Rtts : OnPingResponse(c, newRtt)
         \/ \E c \in conns : OnPingError(c)
         \/ OnPing
  PROVE  ChannelInv'
<1> USE DEF Frame, modeVars, flagVars, ownerVars
<1>1. /\ PortsOK /\ ConnsOK /\ unanswered \subseteq conns
      /\ outstanding \subseteq conns /\ rtt \in [Pairs -> Rtts]
      /\ conns \subseteq Pairs
      /\ read \in [Pairs -> ReadStates] /\ write \in [Pairs -> WriteStates]
  BY DEF ChannelInv, TypeOK, ConnsOK
<1>2. "READABLE" \in ReadStates
      /\ {"WRITABLE", "WRITE_TIMEOUT"} \subseteq WriteStates
  BY DEF ReadStates, WriteStates
<1>3. ASSUME NEW c \in conns, OnBindingRequest(c) \/ OnData(c)
      PROVE  ChannelInv'
  <2>1. /\ StateChange(c, "READABLE", Restarted(c)) /\ HasRead(PortOf(c))
        /\ UNCHANGED <<modeVars, ports, remotes, conns, flagVars, waiting,
                       started, portRole, pruned, unanswered, outstanding,
                       rtt, timers, ownerVars>>
    BY <1>3 DEF OnBindingRequest, OnData
  <2>2. PICK changed : Updated(changed)
    BY <1>1, <1>2, <2>1, RestartedType, StateChangeUpdates
  <2>3. ready' \subseteq Ports
    BY <1>1, <2>1, HasReadType
  <2>. QED
    BY <1>1, <2>1, <2>2, <2>3, UpdateTypes
<1>4. ASSUME NEW c \in conns, OnUseCandidate(c) PROVE ChannelInv'
  <2> DEFINE w == Restarted(c)
             changed == <<"READABLE", w>> # <<read[c], write[c]>>
             follow == changed /\ pending = c /\ role = "CONTROLLED"
             switch == w = "WRITABLE" /\ best # c
             S == IF changed \/ switch THEN {c} ELSE {}
  <2>1. /\ read' = [read EXCEPT ![c] = "READABLE"]
        /\ write' = [write EXCEPT ![c] = w]
        /\ best' = IF switch THEN c ELSE best
        /\ pending' = IF w # "WRITABLE" THEN c
                      ELSE IF switch \/ follow THEN NoConn ELSE pending
        /\ sortDirty' = (sortDirty \/ changed \/ switch)
        /\ queue' \in Posted(queue, sortDirty, S, read', write')
        /\ HasRead(PortOf(c))
        /\ UNCHANGED <<modeVars, ports, remotes, conns, flagVars, waiting,
                       started, portRole, pruned, unanswered, outstanding,
                       rtt, timers, ownerVars>>
    BY <1>4 DEF OnUseCandidate
  <2>2. w \in WriteStates
    BY <1>1, RestartedType
  <2>3. \A d \in Pairs \ S : read'[d] = read[d] /\ write'[d] = write[d]
    BY <1>1, <2>1
  <2>4. Updated(S)
    <3>1. read' \in [Pairs -> ReadStates] /\ write' \in [Pairs -> WriteStates]
      BY <1>1, <1>2, <2>1, <2>2
    <3>2. sortDirty' = (sortDirty \/ S # {})
      BY <2>1
    <3>3. best' \in conns \cup {best} /\ (S = {} => best' = best)
          /\ pending' \in conns \cup {NoConn, pending}
      BY <2>1
    <3>. QED
      BY <1>1, <2>1, <2>3, <3>1, <3>2, <3>3 DEF Updated
  <2>5. ready' \subseteq Ports
    BY <1>1, <2>1, HasReadType
  <2>. QED
    BY <1>1, <2>1, <2>4, <2>5, UpdateTypes
<1>5. ASSUME NEW c \in conns, NEW newRtt \in Rtts, OnPingResponse(c, newRtt)
      PROVE  ChannelInv'
  <2>1. /\ StateChange(c, read[c], "WRITABLE") /\ HasRead(PortOf(c))
        /\ unanswered' = unanswered \ {c}
        /\ outstanding' \in {outstanding, outstanding \ {c}}
        /\ rtt' = [rtt EXCEPT ![c] = newRtt]
        /\ UNCHANGED <<modeVars, ports, remotes, conns, flagVars, waiting,
                       started, portRole, pruned, timers, ownerVars>>
    BY <1>5 DEF OnPingResponse
  <2>2. PICK changed : Updated(changed)
    BY <1>1, <1>2, <2>1, StateChangeUpdates
  <2>3. ready' \subseteq Ports
    BY <1>1, <2>1, HasReadType
  <2>4. unanswered' \subseteq conns /\ outstanding' \subseteq conns
        /\ rtt' \in [Pairs -> Rtts]
    BY <1>1, <2>1
  <2>. QED
    BY <2>1, <2>2, <2>3, <2>4, UpdateTypes
<1>6. ASSUME NEW c \in conns, OnPingError(c) PROVE ChannelInv'
  <2>1. /\ StateChange(c, read[c], "WRITE_TIMEOUT") /\ HasRead(PortOf(c))
        /\ outstanding' \in {outstanding, outstanding \ {c}}
        /\ UNCHANGED <<modeVars, ports, remotes, conns, flagVars, waiting,
                       started, portRole, pruned, unanswered, rtt, timers,
                       ownerVars>>
    BY <1>6 DEF OnPingError
  <2>2. PICK changed : Updated(changed)
    BY <1>1, <1>2, <2>1, StateChangeUpdates
  <2>3. ready' \subseteq Ports
    BY <1>1, <2>1, HasReadType
  <2>4. outstanding' \subseteq conns
    BY <1>1, <2>1
  <2>. QED
    BY <1>1, <2>1, <2>2, <2>3, <2>4, UpdateTypes
<1>7. CASE OnPing
  <2>1. PICK r1 \in ReadUpdates(conns, read), w1 \in WriteUpdates(conns) :
          /\ best' = Followed(r1) /\ pending' = StillPending(r1)
          /\ read' = r1 /\ write' = w1
          /\ queue' \in Posted(queue, sortDirty,
                               Changed(conns, read, r1, write, w1), r1, w1)
          /\ sortDirty'
               = (sortDirty \/ Changed(conns, read, r1, write, w1) # {})
          /\ unanswered' \subseteq unanswered \cup conns
          /\ outstanding' \subseteq outstanding \cup conns
    BY <1>7 DEF OnPing
  <2>2. /\ UNCHANGED <<modeVars, ports, remotes, conns, flagVars, waiting,
                       started, portRole, pruned, rtt, timers, ownerVars>>
        /\ ready' = {}
    BY <1>7 DEF OnPing
  <2> DEFINE changed == Changed(conns, read, r1, write, w1)
  <2>3. /\ r1 \in [Pairs -> ReadStates] /\ w1 \in [Pairs -> WriteStates]
        /\ \A c \in Pairs : r1[c] # read[c] \/ w1[c] # write[c]
                              => c \in conns
    BY <1>1, ReadUpdatesType, WriteUpdatesType
  <2>4. /\ changed \subseteq conns
        /\ \A c \in Pairs \ changed : r1[c] = read[c] /\ w1[c] = write[c]
    BY <2>3 DEF Changed
  <2>5. /\ Followed(r1) \in conns \cup {best}
        /\ changed = {} => Followed(r1) = best
        /\ StillPending(r1) \in {NoConn, pending}
    BY <1>1, <2>4 DEF Followed, StillPending, Follows
  <2>6. Updated(changed)
    BY <2>1, <2>3, <2>4, <2>5 DEF Updated
  <2>7. unanswered' \subseteq conns /\ outstanding' \subseteq conns
    BY <1>1, <2>1
  <2>. QED
    BY <1>1, <2>2, <2>6, <2>7, UpdateTypes
<1>. QED
  BY <1>3, <1>4, <1>5, <1>6, <1>7

\* The types of what an action that sorts changes.
LEMMA SortTypes ==
  ASSUME ChannelInv, NEW cs, NEW fresh, NEW r, NEW q, NEW dirty \in BOOLEAN,
         SortInput(cs, r, q), SortConnections(cs, fresh, r, q, dirty),
         conns' = cs, \A c \in cs : PortOf(c) \in started',
         UNCHANGED <<protocol, role, waiting, unanswered, rtt, timers,
                     connecting, gathering, resets, restarts, roleChanges>>,
         PortsOK'
  PROVE  ChannelInv'
<1>1. /\ Safe' /\ QueueOK' /\ SortedConns(cs)
      /\ sortDirty' \in BOOLEAN /\ writable' \in BOOLEAN
      /\ readable' \in BOOLEAN /\ wasWritable' \in BOOLEAN
  BY SortKeeps
<1>2. FlagsOK'
  BY <1>1 DEF ChannelInv, TypeOK, FlagsOK
<1>3. CountersOK'
  BY DEF ChannelInv, TypeOK, CountersOK
<1>4. ConnsOK'
  <2>1. cs \subseteq Pairs /\ conns \subseteq cs
    BY DEF SortInput
  <2>2. pruned' \subseteq cs /\ unanswered' \subseteq cs
        /\ outstanding' \subseteq cs
    BY <1>1, <2>1 DEF ChannelInv, TypeOK, ConnsOK, SortedConns
  <2>. QED
    BY <1>1, <2>1, <2>2 DEF ChannelInv, TypeOK, ConnsOK, SortedConns
<1>. QED
  BY <1>1, <1>2, <1>3, <1>4 DEF ChannelInv, TypeOK

\* The state of the channel, with some new connections, is what it may sort.
LEMMA InputWithNew ==
  ASSUME ChannelInv, NEW cs, conns \subseteq cs, cs \subseteq Pairs
  PROVE  SortInput(cs, read, queue)
<1>1. /\ read \in [Pairs -> ReadStates] /\ queue \in Seq(Messages)
      /\ DeletesOnce(queue)
  BY DEF ChannelInv, TypeOK, ConnsOK, QueueOK, Safe
<1>2. \A c \in Pairs : Queued(MSG_DELETE(c), queue) => c \in cs
  BY DEF ChannelInv, Safe, DeletesAgree
<1>3. \A c \in cs \ conns : ~Useless(read[c], write[c])
  BY DEF ChannelInv, Safe, Unconnected, Useless
<1>4. \A c \in conns : Useless(read[c], write[c])
                         => Queued(MSG_DELETE(c), queue)
  BY DEF ChannelInv, Safe, DeletesAgree
<1>5. \A c \in Pairs \ cs : read[c] = "READ_INIT"
  BY DEF ChannelInv, Safe, Unconnected
<1>. QED
  BY <1>1, <1>2, <1>3, <1>4, <1>5 DEF SortInput

\* The actions that sort: new ports, new candidates, and MSG_SORT.
LEMMA SortStep ==
  ASSUME ChannelInv,
         \/ \E p \in Ports : OnPortReady(p)
         \/ \E r \in Remotes : OnCandidate(r)
         \/ \E p \in Ports, r \in Remotes : OnUnknownAddress(p, r)
         \/ OnSort
  PROVE  ChannelInv'
<1> USE DEF modeVars, ownerVars
<1>1. PortsOK /\ conns \subseteq Pairs /\ sortDirty \in BOOLEAN
      /\ \A c \in conns : PortOf(c) \in started
  BY DEF ChannelInv, TypeOK, ConnsOK, FlagsOK
<1>2. ASSUME NEW p \in Ports, OnPortReady(p) PROVE ChannelInv'
  <2> DEFINE cs == conns \cup (Pairs \cap ({p} \X remotes))
  <2>1. /\ started' = started \cup {p} /\ ports' = ports \cup {p}
        /\ portRole' = [portRole EXCEPT ![p] = role]
        /\ conns' = cs /\ SortConnections(cs, {}, read, queue, sortDirty)
        /\ ready' = {}
        /\ UNCHANGED <<modeVars, remotes, waiting, unanswered, rtt, timers,
                       ownerVars>>
    BY <1>2 DEF OnPortReady
  <2>2. SortInput(cs, read, queue)
    BY <1>1, InputWithNew
  <2>3. PortsOK'
    BY <1>1, <2>1 DEF PortsOK
  <2>4. \A c \in cs : PortOf(c) \in started'
    BY <1>1, <2>1 DEF PortOf
  <2>. QED
    BY <1>1, <2>1, <2>2, <2>3, <2>4, SortTypes
<1>3. ASSUME NEW r \in Remotes, OnCandidate(r) PROVE ChannelInv'
  <2> DEFINE cs == conns \cup (Pairs \cap (ports \X {r}))
  <2>1. /\ remotes' = Remember(r)
        /\ conns' = cs /\ SortConnections(cs, {}, read, queue, sortDirty)
        /\ ready' = {}
        /\ UNCHANGED <<modeVars, ports, waiting, started, portRole,
                       unanswered, rtt, timers, ownerVars>>
    BY <1>3 DEF OnCandidate
  <2>2. SortInput(cs, read, queue)
    BY <1>1, InputWithNew
  <2>3. PortsOK'
    BY <1>1, <1>3, <2>1 DEF PortsOK, Remember
  <2>4. \A c \in cs : PortOf(c) \in started'
    BY <1>1, <2>1 DEF PortOf, PortsOK
  <2>. QED
    BY <1>1, <2>1, <2>2, <2>3, <2>4, SortTypes
<1>4. ASSUME NEW p \in Ports, NEW r \in Remotes, OnUnknownAddress(p, r)
      PROVE  ChannelInv'
  <2> DEFINE pinged == IF StandardIce THEN {<<p, r>>}
                       ELSE Pairs \cap ((ports \cup {p}) \X {r})
             cs == conns \cup pinged
             r1 == [c \in Pairs |-> IF c \in pinged THEN "READABLE"
                                    ELSE read[c]]
             changed == {c \in pinged : read[c] # "READABLE"}
             dirty == sortDirty \/ changed # {}
  <2>1. /\ p \in started /\ <<p, r>> \in Pairs
        /\ conns' = cs
        /\ remotes' = IF StandardIce THEN remotes ELSE Remember(r)
        /\ HasRead(p)
        /\ UNCHANGED <<modeVars, ports, waiting, started, portRole,
                       unanswered, rtt, timers, ownerVars>>
    BY <1>4 DEF OnUnknownAddress
  <2>2. PICK q \in Posted(queue, sortDirty, changed, r1, write) :
          SortConnections(cs, pinged, r1, q, dirty)
    BY <1>4 DEF OnUnknownAddress
  <2>3. pinged \subseteq Pairs /\ changed \in SUBSET Pairs
        /\ changed \subseteq pinged
    BY <2>1
  <2>4. /\ read \in [Pairs -> ReadStates] /\ queue \in Seq(Messages)
        /\ DeletesOnce(queue)
        /\ \A c \in Pairs : Queued(MSG_DELETE(c), queue) => c \in conns
        /\ \A c \in conns : Useless(read[c], write[c])
                              => Queued(MSG_DELETE(c), queue)
        /\ \A c \in Pairs \ conns : read[c] = "READ_INIT"
    BY DEF ChannelInv, TypeOK, ConnsOK, QueueOK, Safe, DeletesAgree,
           Unconnected
  <2>5. /\ r1 \in [Pairs -> ReadStates]
        /\ \A c \in pinged : ~Useless(r1[c], write[c])
        /\ \A c \in Pairs \ pinged : r1[c] = read[c]
    BY <2>3, <2>4 DEF ReadStates, Useless
  <2> HIDE DEF pinged, r1, changed
  <2>6. /\ q \in Seq(Messages) /\ DeletesOnce(q)
        /\ \A c \in Pairs :
             Queued(MSG_DELETE(c), q)
               <=> \/ Queued(MSG_DELETE(c), queue)
                   \/ c \in changed /\ Useless(r1[c], write[c])
    BY <1>1, <2>2, <2>3, <2>4, PostedQueue
  <2>7. SortInput(cs, r1, q)
    BY <1>1, <2>3, <2>4, <2>5, <2>6 DEF SortInput
  <2>8. PortsOK'
    <3>1. ready' \subseteq Ports
      BY <1>1, <2>1, HasReadType
    <3>2. remotes' \subseteq Remotes
      BY <1>1, <1>4, <2>1 DEF PortsOK, Remember
    <3>. QED
      BY <1>1, <2>1, <3>1, <3>2 DEF PortsOK
  <2>9. \A c \in cs : PortOf(c) \in started'
    BY <1>1, <2>1 DEF PortOf, PortsOK, pinged
  <2>10. dirty \in BOOLEAN
    BY <1>1
  <2>. QED
    BY <2>1, <2>2, <2>7, <2>8, <2>9, <2>10, SortTypes
<1>5. CASE OnSort
  <2>1. /\ queue # <<>> /\ Head(queue) = MSG_SORT
        /\ SortConnections(conns, {}, read, Tail(queue), sortDirty)
        /\ ready' = {} /\ conns' = conns
        /\ UNCHANGED <<modeVars, ports, remotes, waiting, started, portRole,
                       unanswered, rtt, timers, ownerVars>>
    BY <1>5 DEF OnSort
  <2>2. SortInput(conns, read, queue)
    BY <1>1, InputWithNew
  <2>3. /\ Tail(queue) \in Seq(Messages) /\ DeletesOnce(Tail(queue))
        /\ \A c : Queued(MSG_DELETE(c), Tail(queue))
                    <=> Queued(MSG_DELETE(c), queue)
    BY <2>1, <2>2, TailQueue, MessagesDiffer DEF SortInput
  <2>4. SortInput(conns, read, Tail(queue))
    BY <2>2, <2>3 DEF SortInput
  <2>5. PortsOK'
    BY <1>1, <2>1 DEF PortsOK
  <2>. QED
    BY <1>1, <2>1, <2>4, <2>5, SortTypes
<1>. QED
  BY <1>2, <1>3, <1>4, <1>5

\* A connection deletes itself.
LEMMA DestroyStep ==
  ASSUME ChannelInv, NEW c \in conns, OnConnectionDestroyed(c)
  PROVE  ChannelInv'
<1> DEFINE s == IF best = c /\ ~sortDirty THEN <<MSG_SORT>> ELSE <<>>
<1>1. /\ queue # <<>> /\ Head(queue) = MSG_DELETE(c)
      /\ conns' = conns \ {c}
      /\ pending' = Forget(pending, c) /\ best' = Forget(best, c)
      /\ sortDirty' = (sortDirty \/ best = c)
      /\ queue' = Tail(queue) \o s
      /\ read' = [read EXCEPT ![c] = "READ_INIT"]
      /\ write' = [write EXCEPT ![c] = "WRITE_INIT"]
      /\ rtt' = [rtt EXCEPT ![c] = DEFAULT_RTT]
      /\ pruned' = pruned \ {c} /\ unanswered' = unanswered \ {c}
      /\ outstanding' = outstanding \ {c} /\ ready' = {}
      /\ UNCHANGED <<modeVars, ports, remotes, flagVars, waiting, started,
                     portRole, timers, ownerVars>>
  BY DEF OnConnectionDestroyed
<1>2. /\ conns \subseteq Pairs /\ c \in Pairs /\ NoConn \notin conns
      /\ queue \in Seq(Messages) /\ sortDirty \in BOOLEAN
      /\ read \in [Pairs -> ReadStates] /\ write \in [Pairs -> WriteStates]
      /\ DeletesOnce(queue)
  BY NoConnIsNone DEF ChannelInv, TypeOK, ConnsOK, QueueOK, FlagsOK, Safe
<1>3. /\ s \in Seq(Messages) /\ DeletesOnce(s)
      /\ \A m : Queued(m, s) <=> best = c /\ ~sortDirty /\ m = MSG_SORT
  BY <1>2, SortOnly
<1> HIDE DEF s
<1>4. /\ Tail(queue) \in Seq(Messages) /\ DeletesOnce(Tail(queue))
      /\ \A m : m # MSG_DELETE(c) => (Queued(m, Tail(queue))
                                        <=> Queued(m, queue))
      /\ ~Queued(MSG_DELETE(c), Tail(queue))
  BY <1>1, <1>2, TailQueue, MessagesDiffer
<1>5. /\ queue' \in Seq(Messages)
      /\ \A m : Queued(m, queue') <=> Queued(m, Tail(queue)) \/ Queued(m, s)
  BY <1>1, <1>3, <1>4, QueuedConcat
<1>6. DeletesOnce(queue')
  BY <1>1, <1>3, <1>4, DeletesOnceConcat
<1>7. /\ Queued(MSG_SORT, queue')
           <=> Queued(MSG_SORT, queue) \/ (best = c /\ ~sortDirty)
      /\ \A d : Queued(MSG_DELETE(d), queue')
                  <=> d # c /\ Queued(MSG_DELETE(d), queue)
  BY <1>3, <1>4, <1>5, MessagesDiffer
<1>8. \A d \in Pairs \ {c} : read'[d] = read[d] /\ write'[d] = write[d]
  BY <1>1, <1>2
<1>9. best' # c /\ pending' # c /\ (best # c => best' = best)
      /\ best' \in {best, NoConn} /\ pending' \in {pending, NoConn}
  BY <1>1, <1>2 DEF Forget
<1>10. SortQueued' \/ (best' = best /\ best # c /\ ~SortQueued)
  BY <1>2, <1>7, <1>9 DEF SortQueued, ChannelInv, Safe, NoLostSort
<1>11. NoLostSort' /\ DeletesOnce(queue)'
  BY <1>1, <1>6, <1>7
     DEF NoLostSort, SortQueued, ChannelInv, Safe, DeletesOnce
<1>12. Pointers'
  BY <1>1, <1>9 DEF Pointers, ChannelInv, Safe, ownerVars
<1>13. Unconnected'
  BY <1>1, <1>2, <1>8 DEF Unconnected, ChannelInv, Safe
<1>14. DeletesAgree'
  BY <1>1, <1>2, <1>7, <1>8 DEF DeletesAgree, ChannelInv, Safe
<1>15. FlagsAgree' /\ (writable => wasWritable)'
  BY <1>1, <1>2, <1>8, <1>9, <1>10
     DEF FlagsAgree, ChannelInv, Safe, Pointers, flagVars
<1>16. OnePathPerNetwork'
  BY <1>1, <1>2, <1>8, <1>9, <1>10
     DEF OnePathPerNetwork, ChannelInv, Safe, Pointers
<1>17. (roleChanges = 0 => ElectsTheBest)'
  BY <1>1, <1>2, <1>8, <1>9, <1>10
     DEF ElectsTheBest, MayElect, StandardIce, Better, ChannelInv, Safe,
         Pointers, modeVars, ownerVars
<1>18. PortsOK'
  BY <1>1 DEF ChannelInv, TypeOK, PortsOK, modeVars
<1>19. ConnsOK'
  <2>1. rtt' \in [Pairs -> Rtts]
    BY <1>1, ChannelAssumption DEF ChannelInv, TypeOK, ConnsOK
  <2>2. read' \in [Pairs -> ReadStates] /\ write' \in [Pairs -> WriteStates]
    BY <1>1, <1>2 DEF ReadStates, WriteStates
  <2>. QED
    BY <1>1, <1>9, <2>1, <2>2 DEF ChannelInv, TypeOK, ConnsOK
<1>20. FlagsOK' /\ CountersOK'
  BY <1>1, <1>2 DEF ChannelInv, TypeOK, FlagsOK, CountersOK, flagVars,
                    ownerVars
<1>. QED
  BY <1>5, <1>11, <1>12, <1>13, <1>14, <1>15, <1>16, <1>17, <1>18, <1>19,
     <1>20 DEF ChannelInv, TypeOK, Safe, QueueOK

\* Reset leaves no connection and an empty queue.
LEMMA ResetStep ==
  ASSUME ChannelInv, Reset
  PROVE  ChannelInv'
<1>1. /\ resets' = resets + 1 /\ connecting' = FALSE /\ gathering' = FALSE
      /\ ports' = {} /\ started' = {} /\ remotes' = {} /\ conns' = {}
      /\ best' = NoConn /\ pending' \in {pending, NoConn}
      /\ writable' = FALSE /\ readable' = FALSE
      /\ waiting' = FALSE /\ sortDirty' = FALSE
      /\ read' = [c \in Pairs |-> "READ_INIT"]
      /\ write' = [c \in Pairs |-> "WRITE_INIT"]
      /\ pruned' = {} /\ unanswered' = {} /\ outstanding' = {}
      /\ rtt' = [c \in Pairs |-> DEFAULT_RTT]
      /\ queue' = <<>> /\ timers' = 1 /\ ready' = {}
      /\ UNCHANGED <<modeVars, wasWritable, portRole, restarts, roleChanges>>
  BY DEF Reset, ReinitializeRest
<1>2. /\ queue' \in Seq(Messages) /\ DeletesOnce(queue')
      /\ \A m : ~Queued(m, queue')
  BY <1>1 DEF Queued, DeletesOnce
<1>3. PortsOK' /\ FlagsOK' /\ CountersOK'
  <2>1. PortsOK'
    BY <1>1 DEF ChannelInv, TypeOK, PortsOK, modeVars
  <2>2. FlagsOK'
    BY <1>1 DEF ChannelInv, TypeOK, FlagsOK
  <2>3. connecting' \in BOOLEAN /\ gathering' \in BOOLEAN
    BY <1>1
  <2>4. /\ timers' \in Nat /\ resets' \in Nat /\ restarts' \in Nat
        /\ roleChanges' \in Nat
    BY <1>1 DEF ChannelInv, TypeOK, CountersOK
  <2>. QED
    BY <2>1, <2>2, <2>3, <2>4 DEF CountersOK
<1>4. ConnsOK'
  BY <1>1, ChannelAssumption
     DEF ChannelInv, TypeOK, ConnsOK, ReadStates, WriteStates
<1>5. resets' # 0
  BY <1>1 DEF ChannelInv, TypeOK, CountersOK
<1>6. Pointers' /\ Unconnected' /\ NoLostSort' /\ DeletesAgree'
  BY <1>1, <1>2, <1>5 DEF Pointers, Unconnected, NoLostSort, DeletesAgree
<1>7. (writable => wasWritable)' /\ FlagsAgree' /\ OnePathPerNetwork'
        /\ ElectsTheBest'
  BY <1>1 DEF FlagsAgree, OnePathPerNetwork, ElectsTheBest
<1>. QED
  BY <1>2, <1>3, <1>4, <1>6, <1>7
     DEF ChannelInv, TypeOK, Safe, QueueOK, DeletesOnce

-----------------------------------------------------------------------------
(* The theorems.                                                           *)

\* The invariant holds in every reachable state.
THEOREM Invariance == Spec => []ChannelInv
<1>1. Init => ChannelInv
  <2> SUFFICES ASSUME Init PROVE ChannelInv
    OBVIOUS
  <2>1. /\ queue \in Seq(Messages) /\ DeletesOnce(queue)
        /\ \A m : ~Queued(m, queue)
    BY DEF Init, Queued, DeletesOnce
  <2>2. PortsOK /\ FlagsOK /\ CountersOK
    BY ChannelAssumption DEF Init, PortsOK, FlagsOK, CountersOK, Roles
  <2>3. ConnsOK
    BY ChannelAssumption DEF Init, ConnsOK, ReadStates, WriteStates
  <2>4. Pointers /\ Unconnected /\ NoLostSort /\ DeletesAgree
    BY <2>1 DEF Init, Pointers, Unconnected, NoLostSort, DeletesAgree
  <2>5. (writable => wasWritable) /\ FlagsAgree /\ OnePathPerNetwork
          /\ ElectsTheBest
    BY DEF Init, FlagsAgree, OnePathPerNetwork, ElectsTheBest
  <2>. QED
    BY <2>1, <2>2, <2>3, <2>4, <2>5 DEF ChannelInv, TypeOK, Safe, QueueOK
<1>2. ChannelInv /\ [Next]_vars => ChannelInv'
  <2> SUFFICES ASSUME ChannelInv, [Next]_vars PROVE ChannelInv'
    OBVIOUS
  <2>1. CASE OnSort
    BY <2>1, SortStep
  <2>2. ASSUME NEW c \in conns, OnConnectionDestroyed(c) PROVE ChannelInv'
    BY <2>2, DestroyStep
  <2>3. CASE Connect \/ SetIceCredentials \/ OnSignalingReady
    BY <2>3, OwnerStep
  <2>4. ASSUME NEW newRole \in Roles, SetIceRole(newRole) PROVE ChannelInv'
    BY <2>4, OwnerStep
  <2>5. ASSUME NEW p \in Ports, OnPortReady(p) \/ OnPortDestroyed(p)
        PROVE  ChannelInv'
    BY <2>5, OwnerStep, SortStep
  <2>6. ASSUME NEW r \in Remotes, OnCandidate(r) PROVE ChannelInv'
    BY <2>6, SortStep
  <2>7. CASE Reset
    BY <2>7, ResetStep
  <2>8. ASSUME NEW c \in conns,
               OnBindingRequest(c) \/ OnUseCandidate(c) \/ OnData(c)
        PROVE  ChannelInv'
    BY <2>8, PacketStep
  <2>9. ASSUME NEW c \in conns, NEW newRtt \in Rtts, OnPingResponse(c, newRtt)
        PROVE  ChannelInv'
    BY <2>9, PacketStep
  <2>10. ASSUME NEW c \in conns, OnPingError(c) \/ OnPingTimeout(c)
         PROVE  ChannelInv'
    BY <2>10, PacketStep, OwnerStep
  <2>11. ASSUME NEW p \in Ports, NEW r \in Remotes, OnUnknownAddress(p, r)
         PROVE  ChannelInv'
    BY <2>11, SortStep
  <2>12. CASE OnPing
    BY <2>12, PacketStep
  <2>13. CASE UNCHANGED vars
    <3>1. UNCHANGED <<channelVars, connVars, ownerVars, queue, timers, ready>>
      BY <2>13 DEF vars
    <3>2. Safe' /\ QueueOK'
      BY <3>1, QuietKeeps
         DEF channelVars, connVars, modeVars, flagVars, ownerVars
    <3>3. PortsOK' /\ ConnsOK' /\ FlagsOK' /\ CountersOK'
      BY <3>1 DEF ChannelInv, TypeOK, PortsOK, ConnsOK, FlagsOK, CountersOK,
                  channelVars, connVars, modeVars, flagVars, ownerVars
    <3>. QED
      BY <3>2, <3>3 DEF ChannelInv, TypeOK
  <2>. QED
    BY <2>1, <2>2, <2>3, <2>4, <2>5, <2>6, <2>7, <2>8, <2>9, <2>10, <2>11,
       <2>12, <2>13 DEF Next
<1>. QED
  BY <1>1, <1>2, PTL DEF Spec

\* The variables have their types.
THEOREM TypeCorrect == Spec => []TypeOK
  BY Invariance, PTL DEF ChannelInv

\* RequestSort never loses a sort: while sort_dirty_ keeps it from posting one,
\* a MSG_SORT is queued.
THEOREM SortsAreNotLost == Spec => []NoLostSort
<1>1. ChannelInv => NoLostSort
  BY DEF ChannelInv, Safe
<1>. QED
  BY <1>1, Invariance, PTL

\* best_connection_ always points to a connection of the channel, or to none,
\* and until a Reset so does pending_best_connection_.
THEOREM PointersLive ==
  Spec => [](/\ resets = 0 => PointersAreLive
             /\ best \in conns \cup {NoConn})
<1>1. ChannelInv => /\ resets = 0 => PointersAreLive
                    /\ best \in conns \cup {NoConn}
  BY DEF ChannelInv, Safe, Pointers, PointersAreLive
<1>. QED
  BY <1>1, Invariance, PTL

\* The MSG_DELETEs in the queue are those of connections the channel still has,
\* and each connection that is useless will be deleted.
THEOREM DeletesMatch == Spec => []DeletesAgree
<1>1. ChannelInv => DeletesAgree
  BY DEF ChannelInv, Safe
<1>. QED
  BY <1>1, Invariance, PTL

\* What HandleWritable, HandleNotWritable and UpdateChannelState tell the
\* application is true of the connections whenever no sort is on its way.
THEOREM FlagsMatch == Spec => []FlagsAgree
<1>1. ChannelInv => FlagsAgree
  BY DEF ChannelInv, Safe
<1>. QED
  BY <1>1, Invariance, PTL

\* Pruning leaves one path on the network of a writable best connection.
THEOREM OnePath == Spec => []OnePathPerNetwork
<1>1. ChannelInv => OnePathPerNetwork
  BY DEF ChannelInv, Safe
<1>. QED
  BY <1>1, Invariance, PTL

\* As long as its role is the one it was created with, a channel that elects
\* has elected a connection than which no writable one is better.
THEOREM Elected == Spec => [](roleChanges = 0 => ElectsTheBest)
<1>1. ChannelInv => (roleChanges = 0 => ElectsTheBest)
  BY DEF ChannelInv, Safe
<1>. QED
  BY <1>1, Invariance, PTL

\* Sorting, a controlled channel keeps its best connection or follows the
\* nomination that is pending.
LEMMA SortFollows ==
  ASSUME StandardIce, role = "CONTROLLED", NEW cs, NEW fresh, NEW r, NEW q,
         NEW dirty, SortConnections(cs, fresh, r, q, dirty)
  PROVE  best' \in {best, pending} /\ pending' \in {pending, NoConn}
<1>1. ~MayElect
  BY DEF MayElect
<1>2. \E r1 : best' = Followed(r1) /\ pending' = StillPending(r1)
  BY <1>1 DEF SortConnections
<1>. QED
  BY <1>2 DEF Followed, StillPending

\* A controlled channel only goes to a connection its peer has nominated.
THEOREM ControlledFollows == Spec => ControlledFollowsPeer
<1>1. [Next]_vars =>
        [StandardIce /\ role = "CONTROLLED" =>
           /\ best' \notin {best, NoConn}
                => best' = pending \/ OnUseCandidate(best')
           /\ pending' \notin {pending, NoConn}
                => OnUseCandidate(pending')]_vars
  <2> SUFFICES ASSUME Next, StandardIce, role = "CONTROLLED"
               PROVE  /\ best' \notin {best, NoConn}
                           => best' = pending \/ OnUseCandidate(best')
                      /\ pending' \notin {pending, NoConn}
                           => OnUseCandidate(pending')
    OBVIOUS
  <2>1. CASE OnSort \/ (\E p \in Ports : OnPortReady(p))
               \/ (\E r \in Remotes : OnCandidate(r))
               \/ (\E p \in Ports, r \in Remotes : OnUnknownAddress(p, r))
    <3>1. \E cs, fresh, r, q, dirty :
            SortConnections(cs, fresh, r, q, dirty)
      BY <2>1, Zenon DEF OnSort, OnPortReady, OnCandidate, OnUnknownAddress
    <3>. QED
      BY <3>1, SortFollows
  <2>2. CASE \/ Connect \/ SetIceCredentials \/ OnSignalingReady
             \/ \E newRole \in Roles : SetIceRole(newRole)
             \/ \E p \in Ports : OnPortDestroyed(p)
             \/ \E c \in conns : OnPingTimeout(c)
    <3>1. UNCHANGED <<best, pending>>
      BY <2>2 DEF Connect, SetIceCredentials, OnSignalingReady, SetIceRole,
                  OnPortDestroyed, OnPingTimeout, channelVars
    <3>. QED
      BY <3>1
  <2>3. CASE Reset \/ \E c \in conns : OnConnectionDestroyed(c)
    <3>1. best' \in {best, NoConn} /\ pending' \in {pending, NoConn}
      BY <2>3 DEF Reset, OnConnectionDestroyed, Forget
    <3>. QED
      BY <3>1
  <2>4. CASE OnPing
    <3>1. best' \in {best, pending} /\ pending' \in {pending, NoConn}
      BY <2>4 DEF OnPing, Followed, StillPending
    <3>. QED
      BY <3>1
  <2>5. ASSUME NEW c \in conns, NEW r, NEW w, StateChange(c, r, w)
        PROVE  best' \in {best, pending} /\ pending' \in {pending, NoConn}
    BY <2>5 DEF StateChange
  <2>6. CASE \/ \E c \in conns : OnBindingRequest(c) \/ OnData(c)
             \/ \E c \in conns, newRtt \in Rtts : OnPingResponse(c, newRtt)
             \/ \E c \in conns : OnPingError(c)
    <3>1. \E c \in conns : \E r, w : StateChange(c, r, w)
      BY <2>6, Zenon DEF OnBindingRequest, OnData, OnPingResponse, OnPingError
    <3>. QED
      BY <2>5, <3>1
  <2>7. ASSUME NEW c \in conns, OnUseCandidate(c)
        PROVE  /\ best' \notin {best, NoConn}
                    => best' = pending \/ OnUseCandidate(best')
               /\ pending' \notin {pending, NoConn}
                    => OnUseCandidate(pending')
    <3>1. best' \in {best, c} /\ pending' \in {pending, NoConn, c}
      BY <2>7 DEF OnUseCandidate
    <3>2. best' = c => OnUseCandidate(best')
      BY <2>7
    <3>3. pending' = c => OnUseCandidate(pending')
      BY <2>7
    <3>. QED
      BY <3>1, <3>2, <3>3
  <2>. QED
    BY <2>1, <2>2, <2>3, <2>4, <2>6, <2>7 DEF Next
<1>. QED
  BY <1>1, PTL DEF Spec, ControlledFollowsPeer

=============================================================================
