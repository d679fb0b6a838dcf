-------------------------- MODULE PseudoTcpProofs --------------------------
(***************************************************************************)
(* What PseudoTcp promises the two ends, for all sizes of segments and     *)
(* buffers, all numbers of retransmissions and probes, and any number of   *)
(* datagrams on their way: SegmentsAreTheBuffer, WindowFits, InOrder and   *)
(* GracefulClose.                                                          *)
(*                                                                         *)
(* An action of an end is a Turn: the end makes of itself what its methods *)
(* return, its datagrams are put on their way.  Inv says of each end what  *)
(* its peer may rely on: Sound, what it keeps for itself, and that the     *)
(* numbers and the room it names are ones its peer knows of (Acks, Room),  *)
(* Got, what it received, and Stated, how far its handshake is; and it     *)
(* says the same of every datagram (NetInv).  Each method is shown to keep *)
(* Sound and never to take back what was promised (Grows), so that a turn  *)
(* disturbs neither the peer nor the datagrams that come late.             *)
(*                                                                         *)
(* Short is assumed throughout: the streams are shorter than the space of  *)
(* the sequence numbers, which the code compares without regard to their   *)
(* wrapping around.                                                        *)
(***************************************************************************)
EXTENDS PseudoTcp, FiniteSetTheorems, SequenceTheorems, WellFoundedInduction,
        TLAPS

-----------------------------------------------------------------------------
(* The records.                                                            *)

Segment  == [seq : Nat, len : Nat, ctl : BOOLEAN, xmit : Nat]
Saved    == [seq : Nat, len : Nat]
Datagram == [seq : Nat, ack : Nat, wnd : Nat, ctl : BOOLEAN, data : Seq(Nat)]

Tcp ==
  [state : {"LISTEN", "SYN_SENT", "SYN_RECEIVED", "ESTABLISHED", "CLOSED",
            "GONE"},
   shutdown : {"NONE", "GRACEFUL", "FORCEFUL"},
   una : Nat, nxt : Nat, swnd : Nat, rcv : Nat, rwnd : Nat,
   mss : Mss, advise : Mss, slist : Seq(Segment), sbuf : Seq(Nat),
   rbuf : Seq(Int), ahead : [0 .. RcvBuf - 1 -> Int], rlist : SUBSET Saved,
   rto : BOOLEAN, tack : BOOLEAN, lastack : Nat, probes : Nat,
   readEnable : BOOLEAN, writeEnable : BOOLEAN, aborted : BOOLEAN,
   failed : BOOLEAN, out : SUBSET Datagram]

\* What a path carries, what an end meets when it sends, and what becomes of a
\* retransmission.
Paths  == Mss \cup {0}
Chance == [more : Nat, upto : Nat, mss : Mss]
Fates  == {"none", "taken", "refused"}

\* The sequence number after the last byte that was queued,
Total(s) == s.una + Len(s.sbuf)
\* after the last one there is room for,
Edge(s) == s.rcv + s.rwnd
\* after a segment, and after a datagram.
End(g) == g.seq + g.len
DataEnd(p) == p.seq + Len(p.data)

-----------------------------------------------------------------------------
(* The sending half.                                                       *)

\* The segments of list are the bytes from a to z, in order.
Chained(list, a, z) ==
  /\ \A i \in 1 .. Len(list) :
       list[i].len > 0 /\ (i < Len(list) => list[i + 1].seq = End(list[i]))
  /\ IF list = <<>> THEN a = z
     ELSE list[1].seq = a /\ End(list[Len(list)]) = z

\* A segment begins at n.
Begins(list, n) == \E i \in 1 .. Len(list) : list[i].seq = n

\* A segment was transmitted if it is before m_snd_nxt, and a CONNECT if it is
\* the first byte.
Marked(list, nxt) ==
  \A i \in 1 .. Len(list) :
    /\ list[i].xmit > 0 <=> list[i].seq < nxt
    /\ list[i].ctl <=> list[i].seq = 0
    /\ list[i].ctl => list[i].len = 1

Sending(s) ==
  /\ Len(s.sbuf) <= SndBuf
  /\ \A i \in 1 .. Len(s.sbuf) : s.sbuf[i] = s.una + i - 1
  /\ Chained(s.slist, s.una, Total(s))
  /\ s.una <= s.nxt /\ s.nxt <= Total(s)
  /\ s.nxt = Total(s) \/ Begins(s.slist, s.nxt)
  /\ Marked(s.slist, s.nxt)
  /\ s.rto <=> s.una < s.nxt

\* n is where some segment that was transmitted ends, or is acknowledged.
Known(s, n) ==
  n <= s.nxt /\ (n < s.una \/ n = s.nxt \/ Begins(s.slist, n))

-----------------------------------------------------------------------------
(* Numbers.                                                                *)

\* What PseudoTcpConstants says of the constants, one by one.
LEMMA Constants ==
  /\ SndBuf \in Nat /\ SndBuf > 0 /\ RcvBuf \in Nat /\ RcvBuf > 0
  /\ SeqSpace \in Nat /\ SeqSpace > 0 /\ SndBuf < SeqSpace /\ RcvBuf < SeqSpace
  /\ \A m \in Mss : m \in Nat /\ m > 0
  /\ Mss # {} /\ Mss \subseteq Nat /\ IsFiniteSet(Mss)
  /\ Bytes \in [Ends -> Nat]
BY PseudoTcpConstants

\* Below SeqSpace the arithmetic of the code does not wrap around.
LEMMA NoWrap ==
  ASSUME NEW n \in Nat, n < SeqSpace
  PROVE  Wrap(n) = n
BY Constants DEF Wrap

\* A number that is wrapped is a natural number.
LEMMA WrapNat ==
  ASSUME NEW n \in Int
  PROVE  Wrap(n) \in Nat
BY Constants DEF Wrap

\* The distance of a byte does not change when both ends of it move.
LEMMA Shift ==
  ASSUME NEW a \in Nat, NEW b \in Nat, NEW c \in Nat
  PROVE  (a + b) + (c - b) - 1 = a + c - 1
OBVIOUS

\* A segment does not end before it begins.
LEMMA Reaches ==
  ASSUME NEW a \in Nat, NEW b \in Nat
  PROVE  a + b \in Nat /\ a <= a + b
OBVIOUS

\* A set has one greatest number,
LEMMA Greatest ==
  ASSUME NEW S, S \subseteq Int, NEW m \in S, NEW k \in S,
         \A y \in S : y <= m, \A y \in S : k >= y
  PROVE  k = m
<1>1. m \in Int /\ k \in Int
  OBVIOUS
<1>2. k <= m /\ k >= m
  OBVIOUS
<1> QED
  BY <1>1, <1>2

\* which is what Max returns.
LEMMA MaxIs ==
  ASSUME NEW S, S \subseteq Int, NEW m \in S, \A y \in S : y <= m
  PROVE  Max(S) = m
<1>1. \A y \in S : m >= y
  OBVIOUS
<1>2. Max(S) \in S /\ \A y \in S : Max(S) >= y
  BY <1>1, Zenon DEF Max
<1> QED
  BY <1>2, Greatest, Zenon

\* A set has one smallest number,
LEMMA Smallest ==
  ASSUME NEW S, S \subseteq Int, NEW m \in S, NEW k \in S,
         \A y \in S : m <= y, \A y \in S : k <= y
  PROVE  k = m
<1>1. m \in Int /\ k \in Int
  OBVIOUS
<1>2. k <= m /\ m <= k
  OBVIOUS
<1> QED
  BY <1>1, <1>2

\* which is what Min returns.
LEMMA MinIs ==
  ASSUME NEW S, S \subseteq Int, NEW m \in S, \A y \in S : m <= y
  PROVE  Min(S) = m
<1>1. Min(S) \in S /\ \A y \in S : Min(S) <= y
  BY Zenon DEF Min
<1> QED
  BY <1>1, Smallest, Zenon

\* The natural numbers are well-founded.
LEMMA LessIsWellFounded ==
  IsWellFoundedOn({ss \in Nat \X Nat : ss[1] < ss[2]}, Nat)
BY NatLessThanWellFounded DEF OpToRel

\* A set of natural numbers that is not empty has a least element.
LEMMA LeastElement ==
  ASSUME NEW T, T \subseteq Nat, T # {}
  PROVE  \E x \in T : \A y \in T : ~(y < x)
<1> DEFINE R == {ss \in Nat \X Nat : ss[1] < ss[2]}
<1>1. IsWellFoundedOn(R, Nat)
  BY LessIsWellFounded
<1>2. \A x, y \in Nat : y < x => <<y, x>> \in R
  OBVIOUS
<1> HIDE DEF R
<1>3. \E x \in T : \A y \in T : ~(<<y, x>> \in R)
  BY <1>1, WFMin
<1> QED
  BY <1>2, <1>3

\* A set that holds 0 and with every number the next one holds them all.
LEMMA SetInduction ==
  ASSUME NEW S, 0 \in S, \A n \in Nat : n \in S => n + 1 \in S
  PROVE  \A n \in Nat : n \in S
<1> SUFFICES ASSUME NEW k \in Nat, k \notin S
             PROVE  FALSE
  OBVIOUS
<1> DEFINE T == {n \in Nat : n \notin S}
<1>1. T \subseteq Nat /\ T # {}
  OBVIOUS
<1> HIDE DEF T
<1>2. PICK x \in T : \A y \in T : ~(y < x)
  BY <1>1, LeastElement
<1>3. x \in Nat /\ x # 0
  BY <1>1 DEF T
<1>4. x - 1 \in Nat /\ x - 1 < x /\ (x - 1) + 1 = x
  BY <1>3
<1>5. x - 1 \in S
  BY <1>2, <1>4 DEF T
<1> QED
  BY <1>3, <1>4, <1>5 DEF T

\* The fields of a segment.
LEMMA SegmentFields ==
  ASSUME NEW g \in Segment
  PROVE  /\ g.seq \in Nat /\ g.len \in Nat /\ g.ctl \in BOOLEAN
         /\ g.xmit \in Nat
BY DEF Segment

\* The members of the segments of m_slist.
LEMMA SegmentsOf ==
  ASSUME NEW list \in Seq(Segment)
  PROVE  /\ Len(list) \in Nat
         /\ \A i \in 1 .. Len(list) :
              /\ list[i] \in Segment /\ list[i].seq \in Nat
              /\ list[i].len \in Nat /\ list[i].ctl \in BOOLEAN
              /\ list[i].xmit \in Nat
<1>1. Len(list) \in Nat /\ \A i \in 1 .. Len(list) : list[i] \in Segment
  OBVIOUS
<1> QED
  BY <1>1, SegmentFields

-----------------------------------------------------------------------------
(* Cutting segments.                                                       *)

\* Splitting segment i: it keeps its first n bytes, the rest follows it.
LEMMA SplitShape ==
  ASSUME NEW list \in Seq(Segment), NEW i \in 1 .. Len(list),
         NEW n \in Nat, n > 0, n < list[i].len, End(list[i]) < SeqSpace
  PROVE  /\ Split(list, i, n) \in Seq(Segment)
         /\ Len(Split(list, i, n)) = Len(list) + 1
         /\ \A j \in 1 .. Len(list) :
              /\ j < i => Split(list, i, n)[j] = list[j]
              /\ j > i => Split(list, i, n)[j + 1] = list[j]
         /\ Split(list, i, n)[i].seq = list[i].seq
         /\ Split(list, i, n)[i].len = n
         /\ Split(list, i, n)[i].ctl = list[i].ctl
         /\ Split(list, i, n)[i].xmit = list[i].xmit
         /\ Split(list, i, n)[i + 1].seq = list[i].seq + n
         /\ Split(list, i, n)[i + 1].len = list[i].len - n
         /\ Split(list, i, n)[i + 1].ctl = list[i].ctl
         /\ Split(list, i, n)[i + 1].xmit = list[i].xmit
<1> DEFINE cut == [list[i] EXCEPT !.len = n]
           first == [list EXCEPT ![i] = cut]
           rest == [list[i] EXCEPT !.seq = Wrap(@ + n), !.len = @ - n]
           one == SubSeq(first, 1, i)
           two == SubSeq(first, i + 1, Len(list))
           new == Split(list, i, n)
<1>1. /\ list[i] \in Segment /\ list[i].seq \in Nat /\ list[i].len \in Nat
      /\ Len(list) \in Nat /\ i \in Nat /\ 1 <= i /\ i <= Len(list)
  BY SegmentsOf
<1>2. list[i].seq + n \in Nat /\ list[i].len - n \in Nat
  BY <1>1
<1>3. Wrap(list[i].seq + n) = list[i].seq + n
  <2>1. list[i].seq + n < SeqSpace
    BY <1>1, Constants DEF End
  <2> QED
    BY <1>2, <2>1, NoWrap
<1>4. /\ rest \in Segment /\ rest.seq = list[i].seq + n
      /\ rest.len = list[i].len - n /\ rest.ctl = list[i].ctl
      /\ rest.xmit = list[i].xmit
  <2> PICK g \in Segment : g = list[i]
    BY <1>1
  <2>1. /\ Wrap(g.seq + n) = g.seq + n /\ g.seq + n \in Nat
        /\ g.len - n \in Nat
    BY <1>2, <1>3
  <2> QED
    BY <2>1 DEF Segment
<1>5. /\ cut \in Segment /\ cut.seq = list[i].seq
      /\ cut.len = n /\ cut.ctl = list[i].ctl
      /\ cut.xmit = list[i].xmit
  <2> PICK g \in Segment : g = list[i]
    BY <1>1
  <2> QED
    BY DEF Segment
<1>6. [list EXCEPT ![i].len = n] = first
  OBVIOUS
<1>7. rest = [list[i] EXCEPT !.seq = Wrap(list[i].seq + n), !.len = list[i].len - n]
  OBVIOUS
<1> HIDE DEF cut, rest
<1>8. first \in Seq(Segment) /\ Len(first) = Len(list)
      /\ \A j \in 1 .. Len(list) : first[j] = IF j = i THEN cut ELSE list[j]
  BY <1>5, ExceptSeq
<1>9. ~(list[i].len <= n)
  BY <1>1
<1>10. Split(list, i, n) = InsertAt(first, i + 1, rest)
  BY <1>6, <1>9 DEF Split, rest
<1> HIDE DEF first
<1>11. InsertAt(first, i + 1, rest) = (one \o <<rest>>) \o two
  <2>1. (i + 1) - 1 = i /\ Len(first) = Len(list)
    BY <1>1, <1>8
  <2> QED
    BY <2>1 DEF InsertAt
<1>12. /\ one \in Seq(Segment) /\ Len(one) = i
       /\ \A j \in 1 .. i : one[j] = first[j]
  <2>1. \A j \in 1 .. i : first[j] \in Segment
    BY <1>1, <1>8, ElementOfSeq
  <2> QED
    BY <1>1, <2>1, SubSeqProperties
<1>13. /\ two \in Seq(Segment) /\ Len(two) = Len(list) - i
       /\ \A j \in 1 .. Len(list) - i : two[j] = first[i + j]
  <2>1. \A j \in i + 1 .. Len(list) : first[j] \in Segment
    BY <1>1, <1>8, ElementOfSeq
  <2>2. /\ SubSeq(first, i + 1, Len(list)) \in Seq(Segment)
        /\ Len(SubSeq(first, i + 1, Len(list))) =
             IF i + 1 <= Len(list) THEN Len(list) - (i + 1) + 1 ELSE 0
        /\ \A j \in 1 .. Len(list) - (i + 1) + 1 :
             SubSeq(first, i + 1, Len(list))[j] = first[(i + 1) + j - 1]
    BY <1>1, <2>1, SubSeqProperties, i + 1 \in Int, Len(list) \in Int
  <2> QED
    BY <1>1, <2>2
<1> HIDE DEF one, two
<1>14. /\ <<rest>> \in Seq(Segment) /\ Len(<<rest>>) = 1
       /\ <<rest>>[1] = rest
  BY <1>4
<1> DEFINE head == one \o <<rest>>
<1>15. /\ head \in Seq(Segment) /\ Len(head) = i + 1
       /\ \A j \in 1 .. i : head[j] = one[j]
       /\ head[i + 1] = rest
  <2>1. /\ one \o <<rest>> \in Seq(Segment)
        /\ Len(one \o <<rest>>) = Len(one) + Len(<<rest>>)
        /\ \A j \in 1 .. Len(one) + Len(<<rest>>) : (one \o <<rest>>)[j] =
             IF j <= Len(one) THEN one[j] ELSE <<rest>>[j - Len(one)]
    BY <1>12, <1>14, ConcatProperties
  <2> HIDE DEF head
  <2>2. /\ head \in Seq(Segment) /\ Len(head) = i + 1
        /\ \A j \in 1 .. i + 1 : head[j] =
             IF j <= i THEN one[j] ELSE <<rest>>[j - i]
    BY <1>12, <1>14, <2>1 DEF head
  <2>3. head[i + 1] = <<rest>>[(i + 1) - i]
    BY <1>1, <2>2
  <2> QED
    BY <1>1, <1>14, <2>2, <2>3
<1>16. new = head \o two
  BY <1>10, <1>11
<1> HIDE DEF head, new
<1>17. /\ new \in Seq(Segment) /\ Len(new) = (i + 1) + (Len(list) - i)
       /\ \A j \in 1 .. (i + 1) + (Len(list) - i) :
            new[j] = IF j <= i + 1 THEN head[j] ELSE two[j - (i + 1)]
  <2>1. /\ head \o two \in Seq(Segment)
        /\ Len(head \o two) = Len(head) + Len(two)
        /\ \A j \in 1 .. Len(head) + Len(two) : (head \o two)[j] =
             IF j <= Len(head) THEN head[j] ELSE two[j - Len(head)]
    BY <1>13, <1>15, ConcatProperties
  <2> QED
    BY <1>13, <1>15, <1>16, <2>1
<1>18. Len(new) = Len(list) + 1
  BY <1>1, <1>17
<1>19. \A j \in 1 .. i + 1 : new[j] = head[j]
  BY <1>1, <1>17, SMTT(30)
<1>20. ASSUME NEW j \in 1 .. Len(list), j < i
       PROVE  new[j] = list[j]
  <2>1. j \in 1 .. i + 1 /\ j \in 1 .. i /\ j # i
    BY <1>1, <1>20
  <2> QED
    BY <1>8, <1>12, <1>15, <1>19, <2>1
<1>21. ASSUME NEW j \in 1 .. Len(list), j > i
       PROVE  new[j + 1] = list[j]
  <2>1. /\ j + 1 \in 1 .. (i + 1) + (Len(list) - i) /\ ~(j + 1 <= i + 1)
        /\ (j + 1) - (i + 1) = j - i /\ j - i \in 1 .. Len(list) - i
        /\ i + (j - i) = j /\ j # i
    BY <1>1, <1>21
  <2>2. new[j + 1] = two[j - i]
    BY <1>17, <2>1
  <2>3. two[j - i] = first[j]
    BY <1>13, <2>1
  <2> QED
    BY <1>8, <2>1, <2>2, <2>3
<1>22. new[i] = cut
  BY <1>1, <1>8, <1>12, <1>15, <1>19
<1>23. new[i + 1] = rest
  <2>1. i + 1 \in 1 .. i + 1
    BY <1>1
  <2> QED
    BY <1>15, <1>19, <2>1
<1> QED
  BY <1>4, <1>5, <1>17, <1>18, <1>20, <1>21, <1>22, <1>23 DEF new

\* The bytes of a chain are in order: of two segments the earlier one ends
\* before the later one begins, and all lie between a and z.
LEMMA ChainOrder ==
  ASSUME NEW list \in Seq(Segment), NEW a \in Nat, NEW z \in Nat,
         Chained(list, a, z)
  PROVE  /\ \A i, j \in 1 .. Len(list) : i < j => End(list[i]) <= list[j].seq
         /\ \A i \in 1 .. Len(list) :
              a <= list[i].seq /\ list[i].seq < End(list[i]) /\ End(list[i]) <= z
         /\ a <= z
<1>1. /\ Len(list) \in Nat
      /\ \A i \in 1 .. Len(list) :
           /\ list[i].seq \in Nat /\ list[i].len \in Nat /\ list[i].len > 0
           /\ End(list[i]) = list[i].seq + list[i].len
  BY SegmentsOf DEF Chained, End
<1>2. \A i \in 1 .. Len(list) : i < Len(list) => list[i + 1].seq = End(list[i])
  BY DEF Chained
<1> DEFINE Bad == {k \in Nat : \E i \in 1 .. Len(list) :
                      i + k + 1 <= Len(list) /\ ~(End(list[i]) <= list[i + k + 1].seq)}
<1>3. Bad = {}
  <2> SUFFICES ASSUME Bad # {} PROVE FALSE
    OBVIOUS
  <2>1. PICK k \in Nat : k \in Bad /\ \A y \in Bad : ~(y < k)
    <3>1. Bad \subseteq Nat
      OBVIOUS
    <3> HIDE DEF Bad
    <3> QED
      BY <3>1, LeastElement
  <2>2. PICK i \in 1 .. Len(list) :
          i + k + 1 <= Len(list) /\ ~(End(list[i]) <= list[i + k + 1].seq)
    BY <2>1
  <2> HIDE DEF Bad
  <2>3. CASE k = 0
    <3>1. i < Len(list) /\ i + k + 1 = i + 1
      BY <1>1, <2>2, <2>3
    <3>2. list[i + 1].seq = End(list[i])
      BY <1>2, <3>1
    <3> QED
      BY <1>1, <2>2, <3>1, <3>2
  <2>4. CASE k # 0
    <3>1. k - 1 \in Nat /\ k - 1 < k
      BY <2>4
    <3>2. k - 1 \notin Bad
      BY <2>1, <3>1
    <3>3. /\ k \in Nat /\ i + (k - 1) + 1 = i + k /\ i + k \in 1 .. Len(list)
          /\ i + k < Len(list) /\ (i + k) + 1 = i + k + 1
          /\ i + k + 1 \in 1 .. Len(list)
      <4>1. i \in Nat /\ k \in Nat /\ i >= 1 /\ k - 1 \in Nat
        BY <3>1
      <4>2. PICK m \in Nat : m = Len(list)
        BY <1>1
      <4>3. i + k + 1 <= m
        BY <2>2, <4>2
      <4>4. /\ i + (k - 1) + 1 = i + k /\ i + k \in 1 .. m
            /\ i + k < m /\ (i + k) + 1 = i + k + 1 /\ i + k + 1 \in 1 .. m
        BY <4>1, <4>2, <4>3, SMTT(30)
      <4> QED
        BY <4>1, <4>2, <4>4
    <3>4. End(list[i]) <= list[i + k].seq
      BY <3>1, <3>2, <3>3 DEF Bad
    <3>5. list[i + k + 1].seq = End(list[i + k])
      BY <1>2, <3>3
    <3>6. /\ End(list[i]) \in Nat /\ list[i + k].seq \in Nat
          /\ list[i + k].seq <= End(list[i + k])
      <4>1. /\ list[i].seq \in Nat /\ list[i].len \in Nat
            /\ End(list[i]) = list[i].seq + list[i].len
        BY <1>1
      <4>2. /\ list[i + k].seq \in Nat /\ list[i + k].len \in Nat
            /\ End(list[i + k]) = list[i + k].seq + list[i + k].len
        BY <1>1, <3>3
      <4>3. PICK x \in Nat, y \in Nat : x = list[i].seq /\ y = list[i].len
        BY <4>1
      <4>4. PICK v \in Nat, w \in Nat :
              v = list[i + k].seq /\ w = list[i + k].len
        BY <4>2
      <4>5. End(list[i]) = x + y /\ End(list[i + k]) = v + w
        BY <4>1, <4>2, <4>3, <4>4
      <4>6. x + y \in Nat /\ v <= v + w
        BY <4>3, <4>4, Reaches, Zenon
      <4> QED
        BY <4>4, <4>5, <4>6
    <3> QED
      BY <1>1, <2>2, <3>3, <3>4, <3>5, <3>6
  <2> QED
    BY <2>3, <2>4
<1> HIDE DEF Bad
<1>4. ASSUME NEW i \in 1 .. Len(list), NEW j \in 1 .. Len(list), i < j
      PROVE  End(list[i]) <= list[j].seq
  <2>1. j - i - 1 \in Nat /\ i + (j - i - 1) + 1 = j /\ j <= Len(list)
    BY <1>1, <1>4
  <2>2. j - i - 1 \notin Bad
    BY <1>3
  <2> QED
    BY <2>1, <2>2 DEF Bad
<1>5. ASSUME NEW i \in 1 .. Len(list)
      PROVE  /\ a <= list[i].seq /\ list[i].seq < End(list[i])
             /\ End(list[i]) <= z
  <2>1. /\ list # <<>> /\ 1 \in 1 .. Len(list) /\ Len(list) \in 1 .. Len(list)
        /\ 1 <= i /\ i <= Len(list)
    BY <1>1
  <2>2. list[1].seq = a /\ End(list[Len(list)]) = z
    BY <2>1 DEF Chained
  <2>3. a <= list[i].seq
    <3>1. CASE i = 1
      BY <1>1, <2>2, <3>1
    <3>2. CASE 1 < i
      <4>1. End(list[1]) <= list[i].seq
        BY <1>4, <2>1, <3>2
      <4>2. /\ a \in Nat /\ list[1].len \in Nat /\ End(list[1]) = a + list[1].len
        BY <1>1, <2>1, <2>2
      <4>3. list[i].seq \in Nat
        BY <1>1
      <4> QED
        BY <4>1, <4>2, <4>3
    <3> QED
      BY <2>1, <3>1, <3>2
  <2>4. End(list[i]) <= z
    <3>1. CASE i = Len(list)
      BY <1>1, <2>2, <3>1
    <3>2. CASE i < Len(list)
      <4>1. End(list[i]) <= list[Len(list)].seq
        BY <1>4, <2>1, <3>2
      <4>2. /\ list[Len(list)].seq \in Nat /\ list[Len(list)].len \in Nat
            /\ z = list[Len(list)].seq + list[Len(list)].len
        BY <1>1, <2>1, <2>2
      <4>3. End(list[i]) \in Nat
        <5>1. /\ list[i].seq \in Nat /\ list[i].len \in Nat
              /\ End(list[i]) = list[i].seq + list[i].len
          BY <1>1
        <5> QED
          BY <5>1
      <4> QED
        BY <4>1, <4>2, <4>3
    <3> QED
      BY <2>1, <3>1, <3>2
  <2> QED
    BY <1>1, <2>3, <2>4
<1>6. a <= z
  <2>1. CASE list = <<>>
    BY <2>1 DEF Chained
  <2>2. CASE list # <<>>
    <3>1. 1 \in 1 .. Len(list)
      BY <1>1, <2>2
    <3> QED
      BY <1>1, <1>5, <3>1
  <2> QED
    BY <2>1, <2>2
<1> QED
  BY <1>4, <1>5, <1>6

\* Cutting a segment leaves the bytes and what was transmitted alone, and
\* makes a segment begin wherever one did.
Divided(list, i, n, a, z, nxt, new) ==
  /\ new \in Seq(Segment) /\ i \in 1 .. Len(new)
  /\ new[i] \in Segment /\ new[i].len > 0 /\ new[i].len <= n
  /\ new[i].seq = list[i].seq /\ new[i].xmit = list[i].xmit
  /\ new[i].ctl = list[i].ctl
  /\ Chained(new, a, z) /\ Marked(new, nxt)
  /\ \A q \in Nat : Begins(list, q) => Begins(new, q)

\* The segments are a chain after one is split (SSegment in transmit and
\* attemptSend), and begin where they began.
LEMMA SplitKeeps ==
  ASSUME NEW list \in Seq(Segment), NEW i \in 1 .. Len(list),
         NEW n \in Nat, n > 0, NEW a \in Nat, NEW z \in Nat, z < SeqSpace,
         NEW nxt \in Nat,
         Chained(list, a, z), Marked(list, nxt),
         nxt = z \/ Begins(list, nxt)
  PROVE  Divided(list, i, n, a, z, nxt, Split(list, i, n))
<1> DEFINE new == Split(list, i, n)
           g == list[i]
<1>1. g \in Segment /\ g.seq \in Nat /\ g.len \in Nat /\ g.xmit \in Nat
      /\ g.ctl \in BOOLEAN
  BY SegmentsOf
<1>2. g.len > 0 /\ End(g) <= z
  BY ChainOrder DEF Chained
<1>3. CASE g.len <= n
  <2>1. new = list
    BY <1>3 DEF Split
  <2> QED
    BY <1>1, <1>2, <1>3, <2>1 DEF Divided
<1>4. CASE ~(g.len <= n)
  <2>1. n < g.len /\ End(g) < SeqSpace
    BY <1>1, <1>2, <1>4, Constants, SMTT(30) DEF End
  <2>2. /\ new \in Seq(Segment) /\ Len(new) = Len(list) + 1
        /\ \A j \in 1 .. Len(list) : /\ j < i => new[j] = list[j]
                                     /\ j > i => new[j + 1] = list[j]
    BY <2>1, SplitShape
  <2>3. /\ new[i].seq = g.seq /\ new[i].len = n /\ new[i].ctl = g.ctl
        /\ new[i].xmit = g.xmit
    BY <2>1, SplitShape
  <2>4. /\ new[i + 1].seq = g.seq + n /\ new[i + 1].len = g.len - n
        /\ new[i + 1].ctl = g.ctl /\ new[i + 1].xmit = g.xmit
    BY <2>1, SplitShape
  <2> HIDE DEF new
  <2>5. \A j \in 1 .. Len(list) :
          list[j].seq \in Nat /\ list[j].len \in Nat
    BY SegmentsOf
  <2>6. Len(list) \in Nat /\ i \in Nat /\ 1 <= i /\ i <= Len(list)
    BY SegmentsOf
  <2>7. ASSUME NEW j \in 1 .. Len(new)
        PROVE  /\ j < i => new[j] = list[j] /\ j \in 1 .. Len(list)
               /\ j > i + 1 => new[j] = list[j - 1] /\ j - 1 \in 1 .. Len(list)
               /\ j = i \/ j = i + 1 \/ j < i \/ j > i + 1
    <3>1. j > i + 1 => j - 1 \in 1 .. Len(list) /\ j - 1 > i /\ (j - 1) + 1 = j
      BY <2>2, <2>6
    <3>2. j < i => j \in 1 .. Len(list)
      BY <2>2, <2>6
    <3> QED
      BY <2>2, <2>6, <3>1, <3>2
  <2>8. ASSUME NEW j \in 1 .. Len(new)
        PROVE  new[j].len > 0
    <3>1. CASE j < i \/ j > i + 1
      BY <2>7, <3>1 DEF Chained
    <3>2. CASE j = i
      BY <2>3, <3>2
    <3>3. CASE j = i + 1
      BY <1>1, <2>1, <2>4, <3>3
    <3> QED
      BY <2>7, <3>1, <3>2, <3>3
  <2>9. ASSUME NEW j \in 1 .. Len(new), j < Len(new)
        PROVE  new[j + 1].seq = End(new[j])
    <3>1. CASE j + 1 < i
      <4>1. /\ j \in 1 .. Len(list) /\ j + 1 \in 1 .. Len(list) /\ j < i
            /\ j < Len(list)
        BY <2>6, <3>1
      <4> QED
        BY <2>2, <3>1, <4>1 DEF Chained
    <3>2. CASE j + 1 = i
      <4>1. j \in 1 .. Len(list) /\ j < i /\ j < Len(list)
        BY <2>6, <3>2
      <4>2. list[i].seq = End(list[j]) /\ new[j] = list[j]
        BY <2>2, <3>2, <4>1 DEF Chained
      <4> QED
        BY <2>3, <3>2, <4>2
    <3>3. CASE j = i
      BY <2>3, <2>4, <3>3 DEF End
    <3>4. CASE j = i + 1
      <4>1. i + 1 \in 1 .. Len(list) /\ i + 1 > i /\ i < Len(list)
            /\ j + 1 = (i + 1) + 1
        BY <2>2, <2>6, <2>9, <3>4
      <4>2. new[j + 1] = list[i + 1]
        BY <2>2, <4>1, SMTT(30)
      <4>3. list[i + 1].seq = End(g)
        BY <4>1 DEF Chained
      <4>4. End(g) = End(new[i + 1])
        <5>1. g.seq + g.len = (g.seq + n) + (g.len - n)
          BY <1>1, SMTT(30)
        <5> QED
          BY <2>4, <5>1 DEF End
      <4> QED
        BY <3>4, <4>2, <4>3, <4>4
    <3>5. CASE j > i + 1
      <4>1. /\ j - 1 \in 1 .. Len(list) /\ j - 1 > i /\ j \in 1 .. Len(list)
            /\ j > i /\ (j - 1) + 1 = j /\ j - 1 < Len(list)
        BY <2>2, <2>6, <2>9, <3>5
      <4>2. new[j] = list[j - 1] /\ new[j + 1] = list[j]
        BY <2>2, <4>1
      <4>3. list[j].seq = End(list[j - 1])
        BY <4>1 DEF Chained
      <4> QED
        BY <4>2, <4>3
    <3> QED
      BY <2>6, <3>1, <3>2, <3>3, <3>4, <3>5
  <2>11. new # <<>> /\ list # <<>>
    BY <2>2, <2>6
  <2>12. new[1].seq = a
    <3>1. list[1].seq = a
      BY <2>11 DEF Chained
    <3>2. CASE i = 1
      BY <2>3, <3>1, <3>2
    <3>3. CASE 1 < i
      BY <2>2, <2>6, <3>1, <3>3
    <3> QED
      BY <2>6, <3>2, <3>3
  <2>13. End(new[Len(new)]) = z
    <3>1. End(list[Len(list)]) = z
      BY <2>11 DEF Chained
    <3>2. CASE i = Len(list)
      <4>1. Len(new) = i + 1
        BY <2>2, <3>2
      <4>2. End(new[i + 1]) = End(g)
        BY <1>1, <2>4, SMTT(30) DEF End
      <4> QED
        BY <3>1, <3>2, <4>1, <4>2
    <3>3. CASE i < Len(list)
      <4>1. Len(list) \in 1 .. Len(list) /\ Len(list) > i
        BY <2>6, <3>3
      <4>2. new[Len(list) + 1] = list[Len(list)]
        BY <2>2, <4>1
      <4> QED
        BY <2>2, <3>1, <4>2
    <3> QED
      BY <2>6, <3>2, <3>3
  <2>14. Chained(new, a, z)
    BY <2>8, <2>9, <2>11, <2>12, <2>13 DEF Chained
  <2>15. g.seq < nxt => g.seq + n < nxt
    <3> SUFFICES ASSUME g.seq < nxt PROVE g.seq + n < nxt
      OBVIOUS
    <3>1. CASE nxt = z
      BY <1>1, <1>2, <2>1, <3>1 DEF End
    <3>2. CASE Begins(list, nxt)
      <4> PICK k \in 1 .. Len(list) : list[k].seq = nxt
        BY <3>2 DEF Begins
      <4>1. i < k
        <5>1. SUFFICES ASSUME k < i PROVE FALSE
          BY <1>1
        <5>2. End(list[k]) <= g.seq /\ list[k].seq < End(list[k])
          BY <5>1, ChainOrder
        <5> QED
          BY <1>1, <2>5, <5>2, SMTT(30) DEF End
      <4>2. End(g) <= nxt
        BY <4>1, ChainOrder
      <4> QED
        BY <1>1, <2>1, <4>2, SMTT(30) DEF End
    <3> QED
      BY <3>1, <3>2
  <2>16. Marked(new, nxt)
    <3>1. g.ctl => g.len = 1
      BY DEF Marked
    <3>2. ~g.ctl
      BY <1>1, <2>1, <3>1
    <3>3. /\ g.xmit > 0 <=> g.seq < nxt
          /\ g.seq # 0
      BY <3>2 DEF Marked
    <3>4. g.seq < nxt <=> g.seq + n < nxt
      BY <1>1, <2>15
    <3>5. ASSUME NEW j \in 1 .. Len(new)
          PROVE  /\ new[j].xmit > 0 <=> new[j].seq < nxt
                 /\ new[j].ctl <=> new[j].seq = 0
                 /\ new[j].ctl => new[j].len = 1
      <4>1. CASE j < i \/ j > i + 1
        <5>1. PICK k \in 1 .. Len(list) : new[j] = list[k]
          BY <2>7, <4>1
        <5> QED
          BY <5>1 DEF Marked
      <4>2. CASE j = i
        BY <2>3, <3>2, <3>3, <4>2
      <4>3. CASE j = i + 1
        BY <1>1, <2>4, <3>2, <3>3, <3>4, <4>3, SMTT(30)
      <4> QED
        BY <2>7, <4>1, <4>2, <4>3
    <3> QED
      BY <3>5 DEF Marked
  <2>17. ASSUME NEW q \in Nat, Begins(list, q)
         PROVE  Begins(new, q)
    <3> PICK k \in 1 .. Len(list) : list[k].seq = q
      BY <2>17 DEF Begins
    <3>1. CASE k <= i
      <4>1. new[k].seq = q
        BY <2>2, <2>3, <2>6, <3>1, SMTT(30)
      <4>2. k \in 1 .. Len(new)
        BY <2>2, <2>6
      <4> QED
        BY <4>1, <4>2 DEF Begins
    <3>2. CASE k > i
      <4>1. k + 1 \in 1 .. Len(new)
        BY <2>2, <2>6, <3>2
      <4>2. new[k + 1].seq = q
        BY <2>2, <3>2
      <4> QED
        BY <4>1, <4>2 DEF Begins
    <3> QED
      BY <2>6, <3>1, <3>2
  <2>18. i \in 1 .. Len(new)
    BY <2>2, <2>6
  <2>19. new[i] \in Segment
    BY <2>2, <2>18, SegmentsOf
  <2> QED
    BY <2>1, <2>2, <2>3, <2>14, <2>16, <2>17, <2>18, <2>19 DEF new, Divided
<1> QED
  BY <1>1, <1>3, <1>4

\* Where a segment ends another one begins, or the bytes end.
LEMMA EndBegins ==
  ASSUME NEW list \in Seq(Segment), NEW a \in Nat, NEW z \in Nat,
         Chained(list, a, z), NEW i \in 1 .. Len(list)
  PROVE  End(list[i]) = z \/ Begins(list, End(list[i]))
<1>1. Len(list) \in Nat
  OBVIOUS
<1>2. CASE i = Len(list)
  BY <1>1, <1>2 DEF Chained
<1>3. CASE i < Len(list)
  <2>1. i + 1 \in 1 .. Len(list) /\ list[i + 1].seq = End(list[i])
    BY <1>1, <1>3 DEF Chained
  <2> QED
    BY <2>1 DEF Begins
<1> QED
  BY <1>1, <1>2, <1>3

\* A segment that begins before m_snd_nxt ends there at the latest.
LEMMA EndBeforeNext ==
  ASSUME NEW list \in Seq(Segment), NEW a \in Nat, NEW z \in Nat,
         Chained(list, a, z), NEW i \in 1 .. Len(list), NEW nxt \in Nat,
         nxt = z \/ Begins(list, nxt), list[i].seq < nxt
  PROVE  End(list[i]) <= nxt
<1>1. list[i].seq \in Nat /\ list[i].len \in Nat /\ Len(list) \in Nat
  BY SegmentsOf
<1>2. CASE nxt = z
  BY <1>2, ChainOrder
<1>3. CASE Begins(list, nxt)
  <2> PICK k \in 1 .. Len(list) : list[k].seq = nxt
    BY <1>3 DEF Begins
  <2>1. ~(k < i)
    <3> SUFFICES ASSUME k < i PROVE FALSE
      OBVIOUS
    <3>1. End(list[k]) <= list[i].seq /\ list[k].seq < End(list[k])
      BY ChainOrder
    <3>2. End(list[k]) \in Nat
      BY SegmentsOf DEF End
    <3> QED
      BY <1>1, <3>1, <3>2
  <2>2. k # i
    BY <1>1
  <2>3. i < k
    BY <1>1, <2>1, <2>2
  <2> QED
    BY <2>3, ChainOrder
<1> QED
  BY <1>2, <1>3

\* The list after segment i was transmitted once more.
Bumped(list, i) == [list EXCEPT ![i].xmit = @ + 1]

\* Counting a transmission changes nothing else of the list,
LEMMA BumpShape ==
  ASSUME NEW list \in Seq(Segment), NEW i \in 1 .. Len(list)
  PROVE  /\ Bumped(list, i) \in Seq(Segment)
         /\ Len(Bumped(list, i)) = Len(list)
         /\ \A j \in 1 .. Len(list) :
              /\ Bumped(list, i)[j].seq = list[j].seq
              /\ Bumped(list, i)[j].len = list[j].len
              /\ Bumped(list, i)[j].ctl = list[j].ctl
              /\ j # i => Bumped(list, i)[j].xmit = list[j].xmit
         /\ Bumped(list, i)[i].xmit = list[i].xmit + 1
<1> DEFINE new == Bumped(list, i)
<1>1. list[i] \in Segment /\ Len(list) \in Nat
  BY SegmentsOf
<1> DEFINE more == [list[i] EXCEPT !.xmit = @ + 1]
<1>2. /\ more \in Segment /\ more.seq = list[i].seq /\ more.len = list[i].len
      /\ more.ctl = list[i].ctl /\ more.xmit = list[i].xmit + 1
  <2>1. PICK g \in Segment : g = list[i]
    BY <1>1
  <2>2. PICK k \in Nat : k = g.xmit + 1
    <3>1. g.xmit \in Nat
      BY SegmentFields
    <3>2. g.xmit + 1 \in Nat
      BY <3>1
    <3> QED
      BY <3>2
  <2>3. more = [g EXCEPT !.xmit = k]
    BY <2>1, <2>2
  <2> QED
    BY <2>1, <2>2, <2>3 DEF Segment
<1>3. new = [list EXCEPT ![i] = more]
  BY DEF Bumped
<1> HIDE DEF more, new
<1>4. /\ new \in Seq(Segment) /\ Len(new) = Len(list)
      /\ \A j \in 1 .. Len(list) : new[j] = IF j = i THEN more ELSE list[j]
  BY <1>2, <1>3, ExceptSeq
<1> QED
  BY <1>2, <1>4 DEF new

\* so that it is a chain as before.
LEMMA BumpKeeps ==
  ASSUME NEW list \in Seq(Segment), NEW a \in Nat, NEW z \in Nat,
         Chained(list, a, z), NEW i \in 1 .. Len(list)
  PROVE  /\ Chained(Bumped(list, i), a, z)
         /\ \A q \in Nat : Begins(list, q) => Begins(Bumped(list, i), q)
<1> DEFINE new == Bumped(list, i)
<1>1. /\ new \in Seq(Segment) /\ Len(new) = Len(list) /\ Len(list) \in Nat
      /\ \A j \in 1 .. Len(list) :
           new[j].seq = list[j].seq /\ new[j].len = list[j].len
  BY BumpShape
<1> HIDE DEF new
<1>2. \A j \in 1 .. Len(list) : End(new[j]) = End(list[j])
  BY <1>1 DEF End
<1>3. list # <<>> /\ new # <<>> /\ 1 \in 1 .. Len(list)
      /\ Len(list) \in 1 .. Len(list)
  BY <1>1
<1>4. ASSUME NEW j \in 1 .. Len(new)
      PROVE  new[j].len > 0 /\ (j < Len(new) => new[j + 1].seq = End(new[j]))
  <2>1. list[j].len > 0 /\ (j < Len(list) => list[j + 1].seq = End(list[j]))
    BY <1>1 DEF Chained
  <2>2. j < Len(list) => j + 1 \in 1 .. Len(list)
    BY <1>1
  <2> QED
    BY <1>1, <1>2, <2>1, <2>2
<1>5. new[1].seq = a /\ End(new[Len(new)]) = z
  <2>1. list[1].seq = a /\ End(list[Len(list)]) = z
    BY <1>3 DEF Chained
  <2> QED
    BY <1>1, <1>2, <1>3, <2>1
<1>6. Chained(new, a, z)
  BY <1>3, <1>4, <1>5 DEF Chained
<1>7. \A q \in Nat : Begins(list, q) => Begins(new, q)
  BY <1>1 DEF Begins
<1> QED
  BY <1>6, <1>7 DEF new

\* A segment that is transmitted again.
LEMMA BumpAgain ==
  ASSUME NEW list \in Seq(Segment), NEW i \in 1 .. Len(list), NEW nxt \in Nat,
         Marked(list, nxt), list[i].seq < nxt
  PROVE  Marked(Bumped(list, i), nxt) /\ list[i].xmit # 0
<1> DEFINE new == Bumped(list, i)
<1>1. /\ new \in Seq(Segment) /\ Len(new) = Len(list)
      /\ \A j \in 1 .. Len(list) :
           /\ new[j].seq = list[j].seq /\ new[j].len = list[j].len
           /\ new[j].ctl = list[j].ctl /\ (j # i => new[j].xmit = list[j].xmit)
      /\ new[i].xmit = list[i].xmit + 1
  BY BumpShape
<1>2. list[i].xmit \in Nat /\ list[i].xmit > 0
  BY SegmentsOf DEF Marked
<1> HIDE DEF new
<1>3. ASSUME NEW j \in 1 .. Len(new)
      PROVE  /\ new[j].xmit > 0 <=> new[j].seq < nxt
             /\ new[j].ctl <=> new[j].seq = 0
             /\ new[j].ctl => new[j].len = 1
  <2>1. /\ list[j].xmit > 0 <=> list[j].seq < nxt
        /\ list[j].ctl <=> list[j].seq = 0
        /\ list[j].ctl => list[j].len = 1
    BY <1>1 DEF Marked
  <2>2. CASE j = i
    BY <1>1, <1>2, <2>1, <2>2
  <2>3. CASE j # i
    BY <1>1, <2>1, <2>3
  <2> QED
    BY <2>2, <2>3
<1> QED
  BY <1>2, <1>3 DEF Marked, new

\* The first segment that was not transmitted yet.
LEMMA BumpFirst ==
  ASSUME NEW list \in Seq(Segment), NEW a \in Nat, NEW z \in Nat,
         Chained(list, a, z), NEW i \in 1 .. Len(list), NEW nxt \in Nat,
         Marked(list, nxt), list[i].seq = nxt
  PROVE  Marked(Bumped(list, i), End(list[i])) /\ list[i].xmit = 0
<1> DEFINE new == Bumped(list, i)
<1>1. /\ new \in Seq(Segment) /\ Len(new) = Len(list)
      /\ \A j \in 1 .. Len(list) :
           /\ new[j].seq = list[j].seq /\ new[j].len = list[j].len
           /\ new[j].ctl = list[j].ctl /\ (j # i => new[j].xmit = list[j].xmit)
      /\ new[i].xmit = list[i].xmit + 1
  BY BumpShape
<1>2. list[i].xmit \in Nat /\ list[i].xmit = 0
  BY SegmentsOf DEF Marked
<1>3. nxt < End(list[i]) /\ End(list[i]) \in Nat
  BY ChainOrder, SegmentsOf DEF End
<1> HIDE DEF new
<1>4. ASSUME NEW j \in 1 .. Len(new)
      PROVE  /\ new[j].xmit > 0 <=> new[j].seq < End(list[i])
             /\ new[j].ctl <=> new[j].seq = 0
             /\ new[j].ctl => new[j].len = 1
  <2>1. /\ list[j].xmit > 0 <=> list[j].seq < nxt
        /\ list[j].ctl <=> list[j].seq = 0
        /\ list[j].ctl => list[j].len = 1
        /\ j \in 1 .. Len(list)
    BY <1>1 DEF Marked
  <2>2. CASE j = i
    BY <1>1, <1>2, <1>3, <2>1, <2>2
  <2>3. CASE j < i
    <3>1. list[j].seq < End(list[j]) /\ End(list[j]) <= nxt
      BY <2>1, <2>3, ChainOrder
    <3>2. list[j].seq \in Nat /\ End(list[j]) \in Nat
      BY <2>1, SegmentsOf, SMTT(30) DEF End
    <3> QED
      BY <1>1, <1>3, <2>1, <2>3, <3>1, <3>2
  <2>4. CASE j > i
    <3>1. End(list[i]) <= list[j].seq /\ list[j].seq \in Nat
      BY <2>1, <2>4, ChainOrder, SegmentsOf
    <3> QED
      BY <1>1, <1>3, <2>1, <2>4, <3>1
  <2> QED
    BY <2>1, <2>2, <2>3, <2>4
<1> QED
  BY <1>2, <1>4 DEF Marked, new

-----------------------------------------------------------------------------
(* Transmission.                                                           *)

\* The datagrams an end sends: byte n of the stream is the number n, the first
\* one is its CONNECT and a datagram of its own.
DataOK(p) ==
  /\ \A i \in 1 .. Len(p.data) : p.data[i] = p.seq + i - 1
  /\ p.ctl => p.seq = 0 /\ Len(p.data) = 1
  /\ ~p.ctl /\ p.data # <<>> => p.seq > 0

\* t is s but for what transmitting changes.
Alike(s, t) ==
  /\ t.state = s.state /\ t.shutdown = s.shutdown /\ t.aborted = s.aborted
  /\ t.una = s.una /\ t.swnd = s.swnd /\ t.sbuf = s.sbuf
  /\ t.rcv = s.rcv /\ t.rwnd = s.rwnd /\ t.rbuf = s.rbuf
  /\ t.ahead = s.ahead /\ t.rlist = s.rlist

\* The members of an end.
LEMMA TcpFields ==
  ASSUME NEW s \in Tcp
  PROVE  /\ s.state \in {"LISTEN", "SYN_SENT", "SYN_RECEIVED", "ESTABLISHED",
                         "CLOSED", "GONE"}
         /\ s.shutdown \in {"NONE", "GRACEFUL", "FORCEFUL"}
         /\ s.una \in Nat /\ s.nxt \in Nat /\ s.swnd \in Nat
         /\ s.rcv \in Nat /\ s.rwnd \in Nat
         /\ s.mss \in Mss /\ s.advise \in Mss
         /\ s.mss \in Nat /\ s.mss > 0 /\ s.advise \in Nat
         /\ s.slist \in Seq(Segment) /\ Len(s.slist) \in Nat
         /\ s.sbuf \in Seq(Nat) /\ Len(s.sbuf) \in Nat
         /\ s.rbuf \in Seq(Int) /\ Len(s.rbuf) \in Nat
         /\ s.ahead \in [0 .. RcvBuf - 1 -> Int]
         /\ s.rlist \in SUBSET Saved
         /\ s.rto \in BOOLEAN /\ s.tack \in BOOLEAN /\ s.out \in SUBSET Datagram
<1>1. /\ s.mss \in Mss /\ s.advise \in Mss /\ s.slist \in Seq(Segment)
      /\ s.sbuf \in Seq(Nat) /\ s.rbuf \in Seq(Int)
  BY DEF Tcp
<1>2. s.mss \in Nat /\ s.mss > 0 /\ s.advise \in Nat
  BY <1>1, Constants
<1>3. Len(s.slist) \in Nat /\ Len(s.sbuf) \in Nat /\ Len(s.rbuf) \in Nat
  BY <1>1, LenProperties
<1> QED
  BY <1>1, <1>2, <1>3 DEF Tcp

\* The datagram that packet sends.
Sent(s, seq, ctl, offset, len) ==
  [seq |-> seq, ack |-> s.rcv, wnd |-> s.rwnd, ctl |-> ctl,
   data |-> SubSeq(s.sbuf, offset + 1, offset + len)]

Carries(p, s, seq, ctl, offset, len) ==
  /\ p \in Datagram
  /\ p.seq = seq /\ p.ack = s.rcv /\ p.wnd = s.rwnd /\ p.ctl = ctl
  /\ Len(p.data) = len
  /\ \A i \in 1 .. len : p.data[i] = s.sbuf[offset + i]

\* The datagram of packet carries the bytes of the send buffer at offset.
LEMMA SentIs ==
  ASSUME NEW s \in Tcp, NEW seq \in Nat, NEW ctl \in BOOLEAN,
         NEW offset \in Nat, NEW len \in Nat, offset + len <= Len(s.sbuf)
  PROVE  Carries(Sent(s, seq, ctl, offset, len), s, seq, ctl, offset, len)
<1> DEFINE d == SubSeq(s.sbuf, offset + 1, offset + len)
<1>1. s.sbuf \in Seq(Nat) /\ Len(s.sbuf) \in Nat
  BY TcpFields
<1>2. /\ d \in Seq(Nat)
      /\ Len(d) = IF offset + 1 <= offset + len
                  THEN (offset + len) - (offset + 1) + 1 ELSE 0
      /\ \A i \in 1 .. (offset + len) - (offset + 1) + 1 :
           d[i] = s.sbuf[(offset + 1) + i - 1]
  <2>1. \A i \in offset + 1 .. offset + len : s.sbuf[i] \in Nat
    BY <1>1, ElementOfSeq
  <2> QED
    BY <2>1, SubSeqProperties, offset + 1 \in Int, offset + len \in Int, SMTT(30)
<1> HIDE DEF d
<1>3. Len(d) = len /\ \A i \in 1 .. len : d[i] = s.sbuf[offset + i]
  BY <1>2
<1>4. s.rcv \in Nat /\ s.rwnd \in Nat
  BY TcpFields
<1>5. Sent(s, seq, ctl, offset, len) =
        [seq |-> seq, ack |-> s.rcv, wnd |-> s.rwnd, ctl |-> ctl, data |-> d]
  BY DEF Sent, d
<1> QED
  BY <1>2, <1>3, <1>4, <1>5 DEF Datagram, Carries

\* t is s after packet sent p.
Packeted(s, t, p) ==
  /\ t \in Tcp /\ Alike(s, t)
  /\ t.slist = s.slist /\ t.nxt = s.nxt /\ t.rto = s.rto /\ t.mss = s.mss
  /\ t.out = s.out \cup {p}

\* packet puts that datagram on its way and takes note of what it acknowledges.
LEMMA PacketIs ==
  ASSUME NEW s \in Tcp, NEW seq \in Nat, NEW ctl \in BOOLEAN,
         NEW offset \in Nat, NEW len \in Nat, offset + len <= Len(s.sbuf)
  PROVE  Packeted(s, packet(s, seq, ctl, offset, len),
                  Sent(s, seq, ctl, offset, len))
<1>1. Sent(s, seq, ctl, offset, len) \in Datagram
  BY SentIs DEF Carries
<1>2. packet(s, seq, ctl, offset, len) =
        [s EXCEPT !.out = @ \cup {Sent(s, seq, ctl, offset, len)},
                  !.lastack = s.rcv, !.tack = FALSE]
  BY DEF packet, Sent
<1>3. PICK p \in Datagram : p = Sent(s, seq, ctl, offset, len)
  BY <1>1
<1>4. PICK t : t = [s EXCEPT !.out = @ \cup {p}, !.lastack = s.rcv,
                             !.tack = FALSE]
  OBVIOUS
<1>5. /\ t \in Tcp /\ Alike(s, t) /\ t.slist = s.slist /\ t.nxt = s.nxt
      /\ t.rto = s.rto /\ t.mss = s.mss /\ t.out = s.out \cup {p}
  BY <1>4, ZenonT(60) DEF Tcp, Alike
<1>6. packet(s, seq, ctl, offset, len) = t
  BY <1>2, <1>3, <1>4
<1> QED
  BY <1>3, <1>5, <1>6 DEF Packeted

\* The largest m_mss that the path carries is what transmit falls back to.
LEMMA PathFits ==
  ASSUME NEW s \in Tcp, NEW want \in Nat, want <= s.mss, ~(want <= path),
         path \in Mss
  PROVE  Max({m \in Mss : m < s.mss /\ m <= path}) = path
<1>1. {m \in Mss : m < s.mss /\ m <= path} \subseteq Int
  <2>1. \A m \in Mss : m \in Int
    BY Constants
  <2> QED
    BY <2>1
<1>2. path \in {m \in Mss : m < s.mss /\ m <= path}
  <2>1. path \in Nat /\ s.mss \in Nat
    BY Constants, TcpFields
  <2> QED
    BY <2>1
<1>3. \A y \in {m \in Mss : m < s.mss /\ m <= path} : y <= path
  OBVIOUS
<1> QED
  BY <1>1, <1>2, <1>3, MaxIs, Zenon

\* m_snd_nxt after segment i was transmitted.
NextAfter(list, i, nxt) ==
  IF list[i].xmit = 0 THEN Wrap(nxt + list[i].len) ELSE nxt

\* What transmit does to the list and to m_snd_nxt, the segment being the first
\* of those that were not transmitted, or one that was.
Advances(list, i, nxt, a, z, to, new) ==
  /\ to \in Nat /\ nxt <= to /\ to <= z
  /\ to = nxt \/ (list[i].seq = nxt /\ to = End(list[i]))
  /\ End(list[i]) <= to
  /\ new \in Seq(Segment) /\ Chained(new, a, z) /\ Marked(new, to)
  /\ to = z \/ Begins(new, to)
  /\ \A q \in Nat : Begins(list, q) => Begins(new, q)
  /\ Begins(new, nxt) \/ to = nxt
  /\ End(list[i]) = to \/ Begins(new, End(list[i]))

\* Transmitting the segment at m_snd_nxt, or one before it, moves m_snd_nxt to
\* the end of a segment.
LEMMA TransmitList ==
  ASSUME NEW list \in Seq(Segment), NEW a \in Nat, NEW z \in Nat, z < SeqSpace,
         NEW nxt \in Nat, Chained(list, a, z), Marked(list, nxt),
         nxt <= z, nxt = z \/ Begins(list, nxt),
         NEW i \in 1 .. Len(list), list[i].seq <= nxt
  PROVE  Advances(list, i, nxt, a, z, NextAfter(list, i, nxt), Bumped(list, i))
<1> DEFINE to == NextAfter(list, i, nxt)
           new == Bumped(list, i)
<1>1. /\ list[i].seq \in Nat /\ list[i].len \in Nat /\ list[i].xmit \in Nat
      /\ End(list[i]) = list[i].seq + list[i].len
  BY SegmentsOf DEF End
<1>2. /\ new \in Seq(Segment) /\ Chained(new, a, z)
      /\ \A q \in Nat : Begins(list, q) => Begins(new, q)
  BY BumpShape, BumpKeeps
<1>3. list[i].seq < End(list[i]) /\ End(list[i]) <= z
  BY ChainOrder
<1>4. End(list[i]) = z \/ Begins(list, End(list[i]))
  BY EndBegins
<1>5. CASE list[i].seq < nxt
  <2>1. to = nxt /\ Marked(new, nxt)
    BY <1>5, BumpAgain DEF NextAfter
  <2>2. End(list[i]) <= nxt
    BY <1>5, EndBeforeNext
  <2> HIDE DEF to, new
  <2>3. End(list[i]) = nxt \/ Begins(new, End(list[i]))
    <3>1. CASE Begins(list, End(list[i]))
      BY <1>1, <1>2, <3>1
    <3>2. CASE End(list[i]) = z
      BY <1>1, <1>3, <2>2, <3>2
    <3> QED
      BY <1>4, <3>1, <3>2
  <2>4. to = z \/ Begins(new, to)
    BY <1>2, <2>1
  <2>5. to \in Nat /\ nxt <= to /\ to <= z
    BY <2>1
  <2>6. /\ to = nxt \/ (list[i].seq = nxt /\ to = End(list[i]))
        /\ End(list[i]) <= to /\ Marked(new, to)
        /\ End(list[i]) = to \/ Begins(new, End(list[i]))
        /\ Begins(new, nxt) \/ to = nxt
    BY <2>1, <2>2, <2>3
  <2>7. Advances(list, i, nxt, a, z, to, new)
    BY <1>2, <2>4, <2>5, <2>6, Zenon DEF Advances
  <2> QED
    BY <2>7 DEF to, new
<1>6. CASE list[i].seq = nxt
  <2>1. list[i].xmit = 0 /\ Marked(new, End(list[i]))
    BY <1>6, BumpFirst
  <2>2. to = End(list[i])
    <3>1. nxt + list[i].len \in Nat /\ nxt + list[i].len < SeqSpace
          /\ nxt + list[i].len = End(list[i])
      BY <1>1, <1>3, <1>6, Constants
    <3>2. Wrap(nxt + list[i].len) = nxt + list[i].len
      BY <3>1, NoWrap
    <3> QED
      BY <2>1, <3>1, <3>2 DEF NextAfter
  <2>3. Begins(list, nxt)
    BY <1>6 DEF Begins
  <2> HIDE DEF to, new
  <2>4. to \in Nat /\ nxt <= to /\ to <= z
    BY <1>1, <1>3, <1>6, <2>2
  <2>5. to = z \/ Begins(new, to)
    BY <1>2, <1>4, <2>2, <2>4
  <2>6. Begins(new, nxt)
    BY <1>2, <2>3
  <2>7. /\ to = nxt \/ (list[i].seq = nxt /\ to = End(list[i]))
        /\ End(list[i]) <= to /\ Marked(new, to)
        /\ End(list[i]) = to \/ Begins(new, End(list[i]))
    BY <1>6, <2>1, <2>2, <2>4
  <2>8. Advances(list, i, nxt, a, z, to, new)
    BY <1>2, <2>4, <2>5, <2>6, <2>7, Zenon DEF Advances
  <2> QED
    BY <2>8 DEF to, new
<1> QED
  BY <1>1, <1>5, <1>6

\* A datagram with bytes, sent by an end in state s.
Goes(s, p) ==
  /\ p \in Datagram /\ DataOK(p) /\ p.data # <<>>
  /\ p.ack = s.rcv /\ p.wnd = s.rwnd
  /\ DataEnd(p) <= s.nxt /\ Known(s, DataEnd(p))

\* What transmit does to an end, if the segment is the next one to be
\* transmitted or was transmitted.
Transmitted(s, i, t) ==
  /\ t \in Tcp /\ Alike(s, t) /\ Sending(t)
  /\ \/ t.nxt = s.nxt
     \/ s.slist[i].seq = s.nxt /\ t.nxt <= End(s.slist[i])
  /\ s.nxt <= t.nxt
  /\ \A q \in Nat : Known(s, q) => Known(t, q)
  /\ \E p : Goes(t, p) /\ t.out = s.out \cup {p}

\* All that transmit does: the segment is cut to what may be sent, put on its
\* way and counted, and m_snd_nxt moves behind it if it is new.
LEMMA TransmitIs ==
  ASSUME NEW s \in Tcp, Sending(s), Total(s) < SeqSpace, path \in Mss,
         NEW i \in 1 .. Len(s.slist), s.slist[i].seq <= s.nxt
  PROVE  Transmitted(s, i, transmit(s, i))
<1> DEFINE want == Least(s.slist[i].len, s.mss)
           mss == IF want <= path THEN s.mss
                  ELSE Max({m \in Mss : m < s.mss /\ m <= path})
           n == Least(want, mss)
           list == Split(s.slist, i, n)
           z == Total(s)
<1>1. /\ s.una \in Nat /\ s.nxt \in Nat /\ s.slist \in Seq(Segment)
      /\ s.sbuf \in Seq(Nat) /\ Len(s.sbuf) \in Nat /\ s.mss \in Mss
      /\ s.mss \in Nat /\ s.mss > 0 /\ z \in Nat /\ s.rcv \in Nat
  BY TcpFields DEF Total
<1>2. /\ Chained(s.slist, s.una, z) /\ Marked(s.slist, s.nxt)
      /\ s.una <= s.nxt /\ s.nxt <= z
      /\ s.nxt = z \/ Begins(s.slist, s.nxt)
  BY DEF Sending
<1>3. s.slist[i].len \in Nat /\ s.slist[i].len > 0 /\ s.slist[i].seq \in Nat
  BY <1>1, <1>2, SegmentsOf DEF Chained
<1>4. want \in Nat /\ want > 0 /\ want <= s.mss
  BY <1>1, <1>3 DEF Least
<1>5. mss \in Mss /\ mss \in Nat /\ mss > 0
  <2>1. CASE want <= path
    BY <1>1, <2>1
  <2>2. CASE ~(want <= path)
    <3>1. mss = path
      BY <1>4, <2>2, PathFits
    <3> HIDE DEF mss
    <3> QED
      BY <3>1, Constants
  <2> QED
    BY <2>1, <2>2
<1> HIDE DEF want, mss
<1>6. n \in Nat /\ n > 0
  BY <1>4, <1>5 DEF Least
<1> HIDE DEF n, z
<1>7. /\ list \in Seq(Segment) /\ i \in 1 .. Len(list) /\ list[i] \in Segment
      /\ list[i].seq = s.slist[i].seq
      /\ Chained(list, s.una, z) /\ Marked(list, s.nxt)
      /\ \A q \in Nat : Begins(s.slist, q) => Begins(list, q)
  <2>1. Divided(s.slist, i, n, s.una, z, s.nxt, list)
    BY <1>1, <1>2, <1>6, SplitKeeps DEF z
  <2> QED
    BY <2>1, Zenon DEF Divided
<1>8. list[i].len <= s.slist[i].len
  <2>1. CASE s.slist[i].len <= n
    BY <2>1, <1>3 DEF Split
  <2>2. CASE ~(s.slist[i].len <= n)
    <3>1. list[i].len <= n
      BY <1>1, <1>2, <1>6, SplitKeeps DEF z, Divided
    <3>2. list[i].len \in Nat
      BY <1>7, SegmentFields
    <3> HIDE DEF list
    <3> QED
      BY <1>3, <1>6, <2>2, <3>1, <3>2
  <2> QED
    BY <2>1, <2>2
<1> HIDE DEF list
<1> DEFINE seg == list[i]
           to == NextAfter(list, i, s.nxt)
           new == Bumped(list, i)
<1>9. /\ seg.seq \in Nat /\ seg.len \in Nat /\ seg.ctl \in BOOLEAN
      /\ seg.xmit \in Nat /\ seg.seq <= s.nxt
  BY <1>7, SegmentFields
<1>10. /\ to \in Nat /\ s.nxt <= to /\ to <= z
       /\ to = s.nxt \/ (seg.seq = s.nxt /\ to = End(seg))
       /\ End(seg) <= to
       /\ new \in Seq(Segment) /\ Chained(new, s.una, z) /\ Marked(new, to)
       /\ to = z \/ Begins(new, to)
       /\ \A q \in Nat : Begins(list, q) => Begins(new, q)
       /\ Begins(new, s.nxt) \/ to = s.nxt
       /\ End(seg) = to \/ Begins(new, End(seg))
  <2>1. s.nxt = z \/ Begins(list, s.nxt)
    BY <1>1, <1>2, <1>7
  <2>2. z < SeqSpace
    BY DEF z
  <2>3. i \in 1 .. Len(list) /\ list[i].seq <= s.nxt
    BY <1>7, <1>9
  <2>4. Advances(list, i, s.nxt, s.una, z, to, new)
    BY <1>1, <1>2, <1>7, <2>1, <2>2, <2>3, TransmitList
  <2> QED
    BY <2>4, Zenon DEF Advances
<1>11. s.una <= seg.seq /\ seg.seq < End(seg) /\ End(seg) <= z
       /\ End(seg) = seg.seq + seg.len
  BY <1>1, <1>7, ChainOrder DEF End
<1>12. (seg.ctl <=> seg.seq = 0) /\ (seg.ctl => seg.len = 1)
  BY <1>7 DEF Marked
<1> HIDE DEF to, new, seg
<1> DEFINE offset == seg.seq - s.una
           s1 == [s EXCEPT !.mss = mss]
           sent == packet(s1, seg.seq, seg.ctl, offset, seg.len)
           p == Sent(s1, seg.seq, seg.ctl, offset, seg.len)
           t == [sent EXCEPT !.slist = new, !.nxt = to, !.rto = TRUE,
                             !.failed = FALSE]
<1>13. /\ offset \in Nat /\ offset + seg.len <= Len(s.sbuf)
       /\ Wrap(seg.seq - s.una) = offset
  <2>1. z = s.una + Len(s.sbuf) /\ z < SeqSpace
    BY DEF z, Total
  <2>2. /\ s.una \in Nat /\ seg.seq \in Nat /\ seg.len \in Nat
        /\ Len(s.sbuf) \in Nat /\ SeqSpace \in Nat
    BY <1>1, <1>9, Constants
  <2>3. s.una <= seg.seq /\ seg.seq + seg.len <= s.una + Len(s.sbuf)
        /\ s.una + Len(s.sbuf) < SeqSpace
    BY <1>11, <2>1
  <2>4. offset \in Nat /\ offset + seg.len <= Len(s.sbuf) /\ offset < SeqSpace
    BY <2>2, <2>3, SMTT(30)
  <2> QED
    BY <2>4, NoWrap
<1>14. s1 \in Tcp /\ Alike(s, s1) /\ s1.slist = s.slist /\ s1.nxt = s.nxt
       /\ s1.out = s.out
  BY <1>5 DEF Tcp, Alike
<1>15. transmit(s, i) = [sent EXCEPT !.slist = new,
                                     !.nxt = NextAfter(list, i, sent.nxt),
                                     !.rto = TRUE, !.failed = FALSE]
  BY <1>13, ZenonT(60) DEF transmit, sent, s1, new, seg, list, n, mss, want, Bumped, NextAfter
<1> HIDE DEF s1, offset
<1>16. /\ sent \in Tcp /\ Alike(s, sent) /\ sent.out = s.out \cup {p}
       /\ sent.nxt = s.nxt
  <2>1. offset + seg.len <= Len(s1.sbuf)
    BY <1>13, <1>14 DEF Alike
  <2>2. Packeted(s1, sent, p)
    BY <1>9, <1>13, <1>14, <2>1, PacketIs
  <2>3. /\ sent \in Tcp /\ Alike(s1, sent) /\ sent.out = s1.out \cup {p}
        /\ sent.nxt = s1.nxt
    BY <2>2, Zenon DEF Packeted
  <2> HIDE DEF sent
  <2> QED
    BY <1>14, <2>3 DEF Alike
<1>17. /\ p \in Datagram /\ p.seq = seg.seq /\ p.ack = s.rcv /\ p.wnd = s.rwnd
       /\ p.ctl = seg.ctl /\ Len(p.data) = seg.len
       /\ \A k \in 1 .. seg.len : p.data[k] = s.sbuf[offset + k]
  <2>1. offset + seg.len <= Len(s1.sbuf)
    BY <1>13, <1>14 DEF Alike
  <2>2. Carries(p, s1, seg.seq, seg.ctl, offset, seg.len)
    BY <1>9, <1>13, <1>14, <2>1, SentIs
  <2> HIDE DEF p
  <2>3. /\ p \in Datagram /\ p.seq = seg.seq /\ p.ack = s1.rcv
        /\ p.wnd = s1.rwnd /\ p.ctl = seg.ctl /\ Len(p.data) = seg.len
        /\ \A k \in 1 .. seg.len : p.data[k] = s1.sbuf[offset + k]
    BY <2>2, Zenon DEF Carries
  <2> QED
    BY <1>14, <2>3 DEF Alike
<1> HIDE DEF sent, p
<1>18. /\ t \in Tcp /\ Alike(s, t) /\ t.out = s.out \cup {p}
       /\ t.slist = new /\ t.nxt = to /\ t.rto = TRUE
  BY <1>10, <1>16 DEF Tcp, Alike
<1> HIDE DEF t
<1>19. t.una = s.una /\ t.sbuf = s.sbuf /\ Total(t) = z /\ t.rcv = s.rcv
       /\ t.rwnd = s.rwnd
  BY <1>18 DEF Alike, Total, z
<1>20. s.una < to
  BY <1>1, <1>9, <1>10, <1>11
<1>21. Sending(t)
  BY <1>1, <1>10, <1>18, <1>19, <1>20 DEF Sending
<1>22. t.nxt = s.nxt \/ (s.slist[i].seq = s.nxt /\ t.nxt <= End(s.slist[i]))
  <2>1. End(seg) <= End(s.slist[i])
    BY <1>3, <1>7, <1>8, <1>9, <1>11 DEF End, seg
  <2>2. seg.seq = s.slist[i].seq
    BY <1>7 DEF seg
  <2> QED
    BY <1>10, <1>18, <2>1, <2>2
<1>23. ASSUME NEW q \in Nat, Known(s, q)
       PROVE  Known(t, q)
  <2>1. q <= t.nxt
    BY <1>1, <1>10, <1>18, <1>23 DEF Known
  <2>2. CASE q < s.una
    BY <1>19, <2>1, <2>2 DEF Known
  <2>3. CASE q = s.nxt
    BY <1>10, <1>18, <2>1, <2>3 DEF Known
  <2>4. CASE Begins(s.slist, q)
    BY <1>7, <1>10, <1>18, <2>1, <2>4 DEF Known
  <2> QED
    BY <1>23, <2>2, <2>3, <2>4 DEF Known
<1>24. DataEnd(p) = End(seg)
  BY <1>11, <1>17 DEF DataEnd
<1>25. DataOK(p)
  <2>1. ASSUME NEW k \in 1 .. seg.len
        PROVE  p.data[k] = p.seq + k - 1
    <3>1. offset + k \in 1 .. Len(s.sbuf)
      BY <1>1, <1>9, <1>13
    <3>2. s.sbuf[offset + k] = s.una + (offset + k) - 1
      BY <3>1 DEF Sending
    <3>3. s.una + (offset + k) - 1 = seg.seq + k - 1
      BY <1>1, <1>9, SMTT(30) DEF offset
    <3> QED
      BY <1>17, <3>2, <3>3
  <2> QED
    BY <1>9, <1>12, <1>17, <2>1 DEF DataOK
<1>26. p.data # <<>>
  <2>1. Len(p.data) # 0
    BY <1>9, <1>11, <1>17
  <2> QED
    BY <2>1
<1>27. Goes(t, p)
  <2>1. Known(t, End(seg))
    BY <1>10, <1>18 DEF Known
  <2> QED
    BY <1>10, <1>17, <1>18, <1>19, <1>24, <1>25, <1>26, <2>1 DEF Goes
<1> QED
  <2>1. transmit(s, i) = t
    BY <1>15, <1>16 DEF t, to
  <2>2. s.nxt <= t.nxt
    BY <1>10, <1>18
  <2> QED
    BY <1>18, <1>21, <1>22, <1>23, <1>27, <2>1, <2>2 DEF Transmitted

-----------------------------------------------------------------------------
(* What an end keeps while it works: A are the numbers its peer knows, F     *)
(* those its peer has room for.                                              *)

\* The datagrams it has sent in this step.
Outs(s, A) ==
  \A p \in s.out :
    /\ DataOK(p) /\ p.ack \in A /\ p.ack <= s.rcv /\ p.ack + p.wnd <= Edge(s)
    /\ p.data # <<>> => Known(s, DataEnd(p))

Sound(s, A, F) ==
  /\ s \in Tcp /\ Sending(s) /\ Total(s) < SeqSpace
  /\ s.nxt \in F /\ s.una + s.swnd \in F
  /\ s.rcv \in A /\ s.rwnd <= Space(s) /\ Outs(s, A)

\* What is never taken back: bytes that were received, room that was promised
\* and numbers that were sent.
Grows(s, t) ==
  /\ s.rcv <= t.rcv /\ Edge(s) <= Edge(t)
  /\ \A q \in Nat : Known(s, q) => Known(t, q)

\* With a number F has the ones below it.
Down(F) == \A x \in F, y \in Nat : x \in Nat /\ (y <= x => y \in F)

\* Nothing is taken back in two steps if nothing is in each.
LEMMA GrowsOn ==
  ASSUME NEW s \in Tcp, NEW t \in Tcp, NEW u \in Tcp, Grows(s, t), Grows(t, u)
  PROVE  Grows(s, u)
<1>1. /\ s.rcv \in Nat /\ t.rcv \in Nat /\ u.rcv \in Nat
      /\ Edge(s) \in Nat /\ Edge(t) \in Nat /\ Edge(u) \in Nat
  BY TcpFields, SMTT(30) DEF Edge
<1> QED
  BY <1>1 DEF Grows

\* The same for what transmitting leaves alone.
LEMMA AlikeOn ==
  ASSUME NEW s, NEW t, NEW u, Alike(s, t), Alike(t, u)
  PROVE  Alike(s, u)
BY DEF Alike

\* Datagrams sent before stay good.
LEMMA OutsStay ==
  ASSUME NEW s \in Tcp, NEW t \in Tcp, NEW A, Outs(s, A), Grows(s, t),
         NEW p \in s.out
  PROVE  /\ DataOK(p) /\ p.ack \in A /\ p.ack <= t.rcv /\ p.ack + p.wnd <= Edge(t)
         /\ p.data # <<>> => Known(t, DataEnd(p))
<1>1. /\ s.rcv \in Nat /\ t.rcv \in Nat /\ Edge(s) \in Nat /\ Edge(t) \in Nat
      /\ p \in Datagram
  BY TcpFields DEF Edge
<1>2. p.ack \in Nat /\ p.wnd \in Nat /\ p.seq \in Nat /\ p.data \in Seq(Nat)
  BY <1>1 DEF Datagram
<1>3. DataEnd(p) \in Nat
  BY <1>2 DEF DataEnd
<1>4. /\ DataOK(p) /\ p.ack \in A /\ p.ack <= s.rcv /\ p.ack + p.wnd <= Edge(s)
      /\ p.data # <<>> => Known(s, DataEnd(p))
  BY DEF Outs
<1>5. s.rcv <= t.rcv /\ Edge(s) <= Edge(t)
  BY DEF Grows
<1>6. p.data # <<>> => Known(t, DataEnd(p))
  BY <1>3, <1>4 DEF Grows
<1> QED
  BY <1>1, <1>2, <1>4, <1>5, <1>6

\* Segment i is transmitted, and what it has of new bytes there is room for.
LEMMA TransmitSound ==
  ASSUME NEW A, NEW F, Down(F), NEW s, Sound(s, A, F), path \in Mss,
         NEW i \in 1 .. Len(s.slist), s.slist[i].seq <= s.nxt,
         s.slist[i].seq = s.nxt => End(s.slist[i]) \in F
  PROVE  /\ Sound(transmit(s, i), A, F) /\ Alike(s, transmit(s, i))
         /\ Grows(s, transmit(s, i))
<1> DEFINE t == transmit(s, i)
<1>1. s \in Tcp /\ Sending(s) /\ Total(s) < SeqSpace /\ Outs(s, A)
  BY DEF Sound
<1>2. Transmitted(s, i, t)
  BY <1>1, TransmitIs
<1> HIDE DEF t
<1>3. /\ t \in Tcp /\ Alike(s, t) /\ Sending(t)
      /\ \A q \in Nat : Known(s, q) => Known(t, q)
  BY <1>2, Zenon DEF Transmitted
<1>4. PICK p : Goes(t, p) /\ t.out = s.out \cup {p}
  BY <1>2, Zenon DEF Transmitted
<1>5. /\ t.una = s.una /\ t.sbuf = s.sbuf /\ t.swnd = s.swnd /\ t.rcv = s.rcv
      /\ t.rwnd = s.rwnd /\ t.rbuf = s.rbuf
  BY <1>3 DEF Alike
<1>6. Edge(t) = Edge(s) /\ Total(t) = Total(s) /\ Space(t) = Space(s)
  BY <1>5 DEF Edge, Total, Space
<1>7. s.rcv \in Nat /\ Edge(s) \in Nat /\ t.nxt \in Nat
  BY <1>1, <1>3, TcpFields DEF Edge
<1>8. Grows(s, t)
  BY <1>3, <1>5, <1>6, <1>7 DEF Grows
<1>9. t.nxt \in F
  <2>1. CASE t.nxt = s.nxt
    BY <2>1 DEF Sound
  <2>2. CASE s.slist[i].seq = s.nxt /\ t.nxt <= End(s.slist[i])
    BY <1>7, <2>2 DEF Down
  <2> QED
    BY <1>2, <2>1, <2>2 DEF Transmitted
<1>10. Outs(t, A)
  <2> SUFFICES ASSUME NEW x \in t.out
               PROVE  /\ DataOK(x) /\ x.ack \in A /\ x.ack <= t.rcv
                      /\ x.ack + x.wnd <= Edge(t)
                      /\ x.data # <<>> => Known(t, DataEnd(x))
    BY DEF Outs
  <2>1. CASE x \in s.out
    BY <1>1, <1>3, <1>8, <2>1, OutsStay
  <2>2. CASE x = p
    <3>1. /\ DataOK(p) /\ p.ack = t.rcv /\ p.wnd = t.rwnd
          /\ Known(t, DataEnd(p))
      BY <1>4 DEF Goes
    <3>2. t.rcv \in A /\ p.ack + p.wnd = Edge(t)
      BY <1>5, <3>1 DEF Sound, Edge
    <3> QED
      BY <1>5, <1>6, <1>7, <2>2, <3>1, <3>2
  <2> QED
    BY <1>4, <2>1, <2>2
<1>11. s.una + s.swnd \in F /\ s.rcv \in A /\ s.rwnd <= Space(s)
  BY DEF Sound
<1>12. Sound(t, A, F)
  BY <1>1, <1>3, <1>5, <1>6, <1>9, <1>10, <1>11 DEF Sound
<1> QED
  BY <1>3, <1>8, <1>12 DEF t

\* A datagram without bytes.
LEMMA PacketSound ==
  ASSUME NEW A, NEW F, NEW s, Sound(s, A, F), NEW seq \in Nat
  PROVE  /\ Sound(packet(s, seq, FALSE, 0, 0), A, F)
         /\ Alike(s, packet(s, seq, FALSE, 0, 0))
         /\ Grows(s, packet(s, seq, FALSE, 0, 0))
<1> DEFINE t == packet(s, seq, FALSE, 0, 0)
           p == Sent(s, seq, FALSE, 0, 0)
<1>1. s \in Tcp /\ Sending(s) /\ Total(s) < SeqSpace /\ Outs(s, A)
  BY DEF Sound
<1>2. 0 + 0 <= Len(s.sbuf) /\ FALSE \in BOOLEAN /\ 0 \in Nat
  BY <1>1, TcpFields
<1>3. Packeted(s, t, p)
  BY <1>1, <1>2, PacketIs
<1>4. Carries(p, s, seq, FALSE, 0, 0)
  BY <1>1, <1>2, SentIs
<1> HIDE DEF t, p
<1>5. /\ t \in Tcp /\ Alike(s, t) /\ t.slist = s.slist /\ t.nxt = s.nxt
      /\ t.rto = s.rto /\ t.out = s.out \cup {p}
  BY <1>3, Zenon DEF Packeted
<1>6. /\ p \in Datagram /\ p.ack = s.rcv /\ p.wnd = s.rwnd /\ p.ctl = FALSE
      /\ Len(p.data) = 0
  BY <1>4 DEF Carries
<1>7. /\ t.una = s.una /\ t.sbuf = s.sbuf /\ t.swnd = s.swnd /\ t.rcv = s.rcv
      /\ t.rwnd = s.rwnd /\ t.rbuf = s.rbuf
  BY <1>5 DEF Alike
<1>8. Edge(t) = Edge(s) /\ Total(t) = Total(s) /\ Space(t) = Space(s)
  BY <1>7 DEF Edge, Total, Space
<1>9. s.rcv \in Nat /\ Edge(s) \in Nat
  BY <1>1, TcpFields DEF Edge
<1>10. Grows(s, t)
  BY <1>5, <1>7, <1>8, <1>9 DEF Grows, Known
<1>11. p.data = <<>>
  BY <1>6 DEF Datagram
<1>12. Outs(t, A)
  <2> SUFFICES ASSUME NEW x \in t.out
               PROVE  /\ DataOK(x) /\ x.ack \in A /\ x.ack <= t.rcv
                      /\ x.ack + x.wnd <= Edge(t)
                      /\ x.data # <<>> => Known(t, DataEnd(x))
    BY DEF Outs
  <2>1. CASE x \in s.out
    BY <1>1, <1>5, <1>10, <2>1, OutsStay
  <2>2. CASE x = p
    <3>1. DataOK(p)
      BY <1>6, <1>11 DEF DataOK
    <3>2. s.rcv \in A /\ p.ack + p.wnd = Edge(t)
      BY <1>6, <1>7 DEF Sound, Edge
    <3> QED
      BY <1>6, <1>7, <1>8, <1>9, <1>11, <2>2, <3>1, <3>2
  <2> QED
    BY <1>5, <2>1, <2>2
<1>13. Sending(t)
  BY <1>1, <1>5, <1>7, <1>8 DEF Sending
<1>14. /\ s.una + s.swnd \in F /\ s.rcv \in A /\ s.rwnd <= Space(s)
       /\ s.nxt \in F
  BY DEF Sound
<1>15. Sound(t, A, F)
  BY <1>1, <1>5, <1>7, <1>8, <1>12, <1>13, <1>14 DEF Sound
<1> QED
  BY <1>5, <1>10, <1>15 DEF t

\* t differs from s in nothing that is sent or received.
SameStream(s, t) ==
  /\ t.una = s.una /\ t.nxt = s.nxt /\ t.swnd = s.swnd /\ t.slist = s.slist
  /\ t.sbuf = s.sbuf /\ t.rto = s.rto /\ t.out = s.out
  /\ t.rcv = s.rcv /\ t.rwnd = s.rwnd /\ t.rbuf = s.rbuf

\* An end that differs only in flags, timers and sizes is as sound.
LEMMA SameSound ==
  ASSUME NEW A, NEW F, NEW s, Sound(s, A, F), NEW t \in Tcp, SameStream(s, t)
  PROVE  Sound(t, A, F) /\ Grows(s, t)
<1>1. s \in Tcp /\ Sending(s) /\ Total(s) < SeqSpace /\ Outs(s, A)
      /\ s.una + s.swnd \in F /\ s.rcv \in A /\ s.rwnd <= Space(s)
      /\ s.nxt \in F
  BY DEF Sound
<1>2. Edge(t) = Edge(s) /\ Total(t) = Total(s) /\ Space(t) = Space(s)
  BY DEF SameStream, Edge, Total, Space
<1>3. s.rcv \in Nat /\ Edge(s) \in Nat
  BY <1>1, TcpFields DEF Edge
<1>4. Grows(s, t)
  BY <1>2, <1>3 DEF Grows, Known, SameStream
<1>5. Sending(t)
  BY <1>1, <1>2 DEF Sending, SameStream
<1>6. Outs(t, A)
  BY <1>1, <1>4, OutsStay DEF SameStream, Outs
<1> QED
  BY <1>1, <1>2, <1>4, <1>5, <1>6 DEF Sound, SameStream

Flags == {"none", "delayed", "immediate"}

\* Sending the ack that is owed, or delaying it, keeps the end sound.
LEMMA SendAckSound ==
  ASSUME NEW A, NEW F, NEW s, Sound(s, A, F), NEW flags \in Flags
  PROVE  /\ Sound(SendAck(s, flags), A, F) /\ Alike(s, SendAck(s, flags))
         /\ Grows(s, SendAck(s, flags))
<1>1. s \in Tcp /\ s.nxt \in Nat
  BY TcpFields DEF Sound
<1>2. SameStream(s, s) /\ Alike(s, s)
  BY DEF SameStream, Alike
<1>3. CASE flags = "none"
  <2>1. SendAck(s, flags) = s
    BY <1>3 DEF SendAck
  <2> QED
    BY <1>1, <1>2, <2>1, SameSound
<1>4. CASE flags # "none" /\ (flags = "immediate" \/ s.tack)
  <2>1. SendAck(s, flags) = packet(s, s.nxt, FALSE, 0, 0)
    BY <1>4 DEF SendAck
  <2> QED
    BY <1>1, <2>1, PacketSound
<1>5. CASE ~(flags = "none" \/ flags = "immediate" \/ s.tack)
  <2>1. PICK t : t = [s EXCEPT !.tack = TRUE]
    OBVIOUS
  <2>2. t \in Tcp /\ SameStream(s, t) /\ Alike(s, t)
    BY <1>1, <2>1 DEF Tcp, SameStream, Alike
  <2>3. SendAck(s, flags) = t
    BY <1>5, <2>1 DEF SendAck
  <2> QED
    BY <2>2, <2>3, SameSound
<1> QED
  BY <1>3, <1>4, <1>5

\* What is in flight, and what one turn of attemptSend may send.
LEMMA InFlightIs ==
  ASSUME NEW s \in Tcp, Sending(s), Total(s) < SeqSpace
  PROVE  /\ InFlight(s) = s.nxt - s.una /\ InFlight(s) \in Nat
         /\ InFlight(s) <= Len(s.sbuf)
<1>1. /\ s.una \in Nat /\ s.nxt \in Nat /\ Len(s.sbuf) \in Nat
      /\ s.una <= s.nxt /\ s.nxt <= s.una + Len(s.sbuf)
      /\ s.una + Len(s.sbuf) < SeqSpace /\ SeqSpace \in Nat
  BY TcpFields, Constants DEF Sending, Total
<1>2. s.nxt - s.una \in Nat /\ s.nxt - s.una < SeqSpace
      /\ s.nxt - s.una <= Len(s.sbuf)
  BY <1>1, SMTT(30)
<1> QED
  BY <1>2, NoWrap DEF InFlight

\* attemptSend never sends beyond its peer's window, nor beyond what was
\* queued.
LEMMA SendableFits ==
  ASSUME NEW s \in Tcp, Sending(s), Total(s) < SeqSpace, NEW cwnd \in Nat
  PROVE  /\ Sendable(s, cwnd) \in Nat
         /\ Sendable(s, cwnd) > 0 =>
              /\ s.nxt + Sendable(s, cwnd) <= s.una + s.swnd
              /\ s.nxt + Sendable(s, cwnd) <= Total(s)
<1> DEFINE f == InFlight(s)
           b == Len(s.sbuf)
           window == Least(s.swnd, cwnd)
           useable == IF f < window THEN window - f ELSE 0
           avail == Least(b - f, s.mss)
           n == Sendable(s, cwnd)
<1>1. /\ s.una \in Nat /\ s.nxt \in Nat /\ b \in Nat /\ s.swnd \in Nat
      /\ s.mss \in Nat /\ s.mss > 0
  BY TcpFields
<1>2. f = s.nxt - s.una /\ f \in Nat /\ f <= b
  BY InFlightIs
<1>3. Wrap(b - f) = b - f /\ b - f \in Nat
  <2>1. b - f \in Nat /\ b - f <= b
    BY <1>1, <1>2
  <2>2. b < SeqSpace /\ SeqSpace \in Nat
    BY <1>1, Constants DEF Total
  <2>3. b - f < SeqSpace
    BY <1>1, <2>1, <2>2
  <2> QED
    BY <2>1, <2>3, NoWrap
<1>4. n = IF avail <= useable THEN avail
          ELSE IF useable * 4 < window THEN 0 ELSE useable
  BY <1>3 DEF Sendable
<1> HIDE DEF n, f, b
<1>5. window \in Nat /\ window <= s.swnd
  BY <1>1 DEF Least
<1>6. avail \in Nat /\ avail <= b - f
  BY <1>1, <1>3 DEF Least
<1> HIDE DEF window, avail
<1>7. useable \in Nat /\ (useable > 0 => f + useable <= s.swnd)
  BY <1>1, <1>2, <1>5
<1> HIDE DEF useable
<1>8. n \in Nat /\ n <= useable
  BY <1>4, <1>6, <1>7
<1>9. n > 0 => n <= avail
  BY <1>4, <1>6, <1>7
<1>10. n > 0 => s.nxt + n <= s.una + s.swnd
  <2>1. n > 0 => f + n <= s.swnd
    BY <1>1, <1>2, <1>7, <1>8
  <2> QED
    BY <1>1, <1>2, <1>8, <2>1
<1>11. n > 0 => s.nxt + n <= s.una + b
  <2>1. n > 0 => n <= b - f
    BY <1>1, <1>2, <1>3, <1>6, <1>8, <1>9
  <2> QED
    BY <1>1, <1>2, <1>8, <2>1
<1> QED
  BY <1>8, <1>10, <1>11 DEF n, b, Total

\* The first segment that was not transmitted is the one at m_snd_nxt.
LEMMA FirstUnsent ==
  ASSUME NEW list \in Seq(Segment), NEW a \in Nat, NEW z \in Nat,
         NEW nxt \in Nat, Chained(list, a, z), Marked(list, nxt),
         NEW k \in 1 .. Len(list), list[k].seq = nxt
  PROVE  Min({j \in DOMAIN list : list[j].xmit = 0}) = k
<1> DEFINE S == {j \in DOMAIN list : list[j].xmit = 0}
<1>1. DOMAIN list = 1 .. Len(list) /\ Len(list) \in Nat
  OBVIOUS
<1>2. \A j \in 1 .. Len(list) : list[j].xmit \in Nat /\ list[j].seq \in Nat
                                /\ list[j].len \in Nat
  BY SegmentsOf
<1>3. S \subseteq Int
  BY <1>1
<1>4. k \in S
  <2>1. ~(list[k].xmit > 0)
    BY <1>2 DEF Marked
  <2> QED
    BY <1>1, <1>2, <2>1
<1>5. ASSUME NEW j \in S
      PROVE  k <= j
  <2>1. j \in 1 .. Len(list) /\ list[j].xmit = 0
    BY <1>1
  <2>2. ~(list[j].seq < nxt)
    BY <2>1 DEF Marked
  <2>3. SUFFICES ASSUME j < k PROVE FALSE
    BY <1>1, <2>1
  <2>4. End(list[j]) <= list[k].seq /\ list[j].seq < End(list[j])
    BY <2>1, <2>3, ChainOrder
  <2>5. End(list[j]) \in Nat /\ list[j].seq \in Nat
    BY <1>2, <2>1, SMTT(30) DEF End
  <2> QED
    BY <2>2, <2>4, <2>5
<1> HIDE DEF S
<1>6. Min(S) = k
  BY <1>3, <1>4, <1>5, MinIs
<1> QED
  BY <1>6 DEF S

\* t is s after its first segment that was not transmitted, the k-th, was cut
\* to n bytes at most.
Ready(s, n, k, t, A, F) ==
  /\ Sound(t, A, F) /\ Alike(s, t) /\ Grows(s, t)
  /\ k \in 1 .. Len(t.slist) /\ t.slist[k].seq <= t.nxt
  /\ End(t.slist[k]) \in F

\* Cutting a new segment to what is within the window keeps the end sound.
LEMMA CutNextSound ==
  ASSUME NEW A, NEW F, Down(F), NEW s, Sound(s, A, F),
         NEW n \in Nat, n > 0, s.nxt + n <= s.una + s.swnd,
         s.nxt + n <= Total(s)
  PROVE  Ready(s, n, Unsent(s), CutNext(s, n), A, F)
<1>1. s \in Tcp /\ Sending(s) /\ Total(s) < SeqSpace /\ Outs(s, A)
      /\ s.una + s.swnd \in F /\ s.rcv \in A /\ s.rwnd <= Space(s)
      /\ s.nxt \in F
  BY DEF Sound
<1>2. /\ s.una \in Nat /\ s.nxt \in Nat /\ s.slist \in Seq(Segment)
      /\ s.swnd \in Nat /\ Total(s) \in Nat /\ s.rcv \in Nat /\ Edge(s) \in Nat
  BY <1>1, TcpFields, SMTT(30) DEF Total, Edge
<1>3. /\ Chained(s.slist, s.una, Total(s)) /\ Marked(s.slist, s.nxt)
      /\ s.nxt = Total(s) \/ Begins(s.slist, s.nxt)
  BY <1>1 DEF Sending
<1>4. s.nxt # Total(s)
  BY <1>2
<1>5. PICK k \in 1 .. Len(s.slist) : s.slist[k].seq = s.nxt
  BY <1>3, <1>4 DEF Begins
<1>6. Unsent(s) = k
  BY <1>2, <1>3, <1>5, FirstUnsent DEF Unsent
<1> DEFINE list == Split(s.slist, k, n)
<1>7. /\ list \in Seq(Segment) /\ k \in 1 .. Len(list)
      /\ list[k] \in Segment /\ list[k].len <= n /\ list[k].seq = s.slist[k].seq
      /\ Chained(list, s.una, Total(s)) /\ Marked(list, s.nxt)
      /\ \A q \in Nat : Begins(s.slist, q) => Begins(list, q)
  <2>1. Divided(s.slist, k, n, s.una, Total(s), s.nxt, list)
    BY <1>1, <1>2, <1>3, SplitKeeps
  <2> QED
    BY <2>1, Zenon DEF Divided
<1>8. PICK t : t = [s EXCEPT !.slist = list]
  OBVIOUS
<1>9. CutNext(s, n) = t
  BY <1>6, <1>8 DEF CutNext
<1> HIDE DEF list
<1>10. t \in Tcp /\ Alike(s, t) /\ t.slist = list /\ t.nxt = s.nxt
       /\ t.rto = s.rto /\ t.out = s.out
  BY <1>1, <1>7, <1>8 DEF Tcp, Alike
<1>11. /\ t.una = s.una /\ t.sbuf = s.sbuf /\ t.swnd = s.swnd /\ t.rcv = s.rcv
       /\ t.rwnd = s.rwnd /\ t.rbuf = s.rbuf
  BY <1>10 DEF Alike
<1>12. Edge(t) = Edge(s) /\ Total(t) = Total(s) /\ Space(t) = Space(s)
  BY <1>11 DEF Edge, Total, Space
<1>13. Grows(s, t)
  BY <1>2, <1>7, <1>10, <1>11, <1>12, SMTT(30) DEF Grows, Known
<1>14. Sending(t)
  <2>1. t.nxt = Total(t) \/ Begins(t.slist, t.nxt)
    BY <1>2, <1>3, <1>7, <1>10, <1>12
  <2> QED
    BY <1>1, <1>7, <1>10, <1>11, <1>12, <2>1 DEF Sending
<1>15. Outs(t, A)
  BY <1>1, <1>10, <1>13, OutsStay DEF Outs
<1>16. Sound(t, A, F)
  BY <1>1, <1>10, <1>11, <1>12, <1>14, <1>15 DEF Sound
<1>17. End(list[k]) \in F
  <2>1. list[k].seq = s.nxt /\ list[k].len \in Nat /\ list[k].len <= n
    BY <1>5, <1>7, SegmentFields
  <2>2. End(list[k]) = s.nxt + list[k].len
    BY <2>1 DEF End
  <2>3. End(list[k]) \in Nat /\ End(list[k]) <= s.una + s.swnd
    <3>1. PICK m \in Nat : m = list[k].len
      BY <2>1
    <3>2. PICK x \in Nat : x = s.nxt
      BY <1>2
    <3>3. PICK y \in Nat : y = s.una + s.swnd
      BY <1>2
    <3>4. x + n <= y /\ m <= n
      BY <2>1, <3>1, <3>2, <3>3
    <3>5. x + m \in Nat /\ x + m <= y
      BY <3>4
    <3> QED
      BY <2>2, <3>1, <3>2, <3>3, <3>5
  <2> QED
    BY <1>1, <2>3 DEF Down
<1>18. k \in 1 .. Len(t.slist) /\ t.slist[k].seq <= t.nxt
       /\ End(t.slist[k]) \in F
  BY <1>2, <1>5, <1>7, <1>10, <1>17
<1> QED
  BY <1>6, <1>9, <1>10, <1>13, <1>16, <1>18 DEF Ready

\* Sending a new segment within the window keeps the end sound,
LEMMA SendNextSound ==
  ASSUME NEW A, NEW F, Down(F), NEW s, Sound(s, A, F), path \in Mss,
         NEW n \in Nat, n > 0, s.nxt + n <= s.una + s.swnd,
         s.nxt + n <= Total(s)
  PROVE  /\ Sound(SendNext(s, n), A, F) /\ Alike(s, SendNext(s, n))
         /\ Grows(s, SendNext(s, n))
<1>1. PICK k : k = Unsent(s)
  OBVIOUS
<1>2. PICK t : t = CutNext(s, n)
  OBVIOUS
<1>3. SendNext(s, n) = transmit(t, k)
  BY <1>1, <1>2 DEF SendNext
<1>4. Ready(s, n, k, t, A, F)
  BY <1>1, <1>2, CutNextSound
<1>5. /\ Sound(t, A, F) /\ Alike(s, t) /\ Grows(s, t)
      /\ k \in 1 .. Len(t.slist) /\ t.slist[k].seq <= t.nxt
      /\ End(t.slist[k]) \in F
  BY <1>4 DEF Ready
<1>6. /\ Sound(transmit(t, k), A, F) /\ Alike(t, transmit(t, k))
      /\ Grows(t, transmit(t, k))
  BY <1>5, TransmitSound
<1>7. s \in Tcp /\ t \in Tcp /\ transmit(t, k) \in Tcp
  BY <1>5, <1>6 DEF Sound
<1> QED
  BY <1>3, <1>5, <1>6, <1>7, GrowsOn, AlikeOn

\* and so does cutting one that the channel below then refuses.
LEMMA RefuseNextSound ==
  ASSUME NEW A, NEW F, Down(F), NEW s, Sound(s, A, F), NEW mss \in Mss,
         NEW n \in Nat, n > 0, s.nxt + n <= s.una + s.swnd,
         s.nxt + n <= Total(s)
  PROVE  /\ Sound(RefuseNext(s, n, mss), A, F)
         /\ Alike(s, RefuseNext(s, n, mss)) /\ Grows(s, RefuseNext(s, n, mss))
<1>1. PICK k : k = Unsent(s)
  OBVIOUS
<1>2. PICK t : t = CutNext(s, n)
  OBVIOUS
<1>3. PICK u : u = RefuseNext(s, n, mss)
  OBVIOUS
<1>4. Ready(s, n, k, t, A, F)
  BY <1>1, <1>2, CutNextSound
<1>5. Sound(t, A, F) /\ Alike(s, t) /\ Grows(s, t)
  BY <1>4 DEF Ready
<1>6. s \in Tcp /\ t \in Tcp
  BY <1>5 DEF Sound
<1>7. PICK m \in Mss : u = [t EXCEPT !.mss = m, !.lastack = t.rcv,
                                    !.failed = TRUE]
  <2>1. u = [t EXCEPT !.mss = IF mss \in Tried(t, k) THEN mss ELSE @,
                      !.lastack = t.rcv, !.failed = TRUE]
    BY <1>1, <1>2, <1>3 DEF RefuseNext, Refused
  <2>2. t.mss \in Mss
    BY <1>6, TcpFields
  <2> QED
    BY <2>1, <2>2
<1>8. t.rcv \in Nat
  BY <1>6, TcpFields
<1>9. u \in Tcp /\ SameStream(t, u) /\ Alike(t, u)
  BY <1>6, <1>7, <1>8 DEF Tcp, SameStream, Alike
<1>10. Sound(u, A, F) /\ Grows(t, u)
  BY <1>5, <1>9, SameSound
<1> QED
  BY <1>3, <1>5, <1>6, <1>9, <1>10, GrowsOn, AlikeOn

\* Where attemptSend's loop may be, having begun with s.
Turns(s, A, F) ==
  {x \in [s : Tcp, flags : Flags, go : BOOLEAN] :
     Sound(x.s, A, F) /\ Alike(s, x.s) /\ Grows(s, x.s)}

\* One turn of the loop of attemptSend,
LEMMA SendTurnKeeps ==
  ASSUME NEW A, NEW F, Down(F), path \in Paths, NEW s \in Tcp, NEW luck \in Chance,
         NEW x \in Turns(s, A, F)
  PROVE  SendTurn(x, luck) \in Turns(s, A, F)
<1> DEFINE n == Sendable(x.s, x.s.mss + luck.more)
<1>1. /\ x \in [s : Tcp, flags : Flags, go : BOOLEAN]
      /\ Sound(x.s, A, F) /\ Alike(s, x.s) /\ Grows(s, x.s)
  BY DEF Turns
<1>2. x.s \in Tcp /\ x.flags \in Flags /\ x.go \in BOOLEAN
  BY <1>1
<1>3. ASSUME NEW u, Sound(u, A, F), Alike(x.s, u), Grows(x.s, u),
             NEW flags \in Flags, NEW go \in BOOLEAN, NEW y,
             y = [s |-> u, flags |-> flags, go |-> go]
      PROVE  y \in Turns(s, A, F)
  <2>1. u \in Tcp
    BY <1>3 DEF Sound
  <2>2. Alike(s, u) /\ Grows(s, u)
    BY <1>1, <1>2, <1>3, <2>1, AlikeOn, GrowsOn
  <2>3. y \in [s : Tcp, flags : Flags, go : BOOLEAN] /\ y.s = u
    BY <1>3, <2>1
  <2> QED
    BY <1>3, <2>2, <2>3 DEF Turns
<1>4. n \in Nat /\ (n > 0 => /\ x.s.nxt + n <= x.s.una + x.s.swnd
                             /\ x.s.nxt + n <= Total(x.s))
  <2>1. Sending(x.s) /\ Total(x.s) < SeqSpace
    BY <1>1 DEF Sound
  <2>2. x.s.mss + luck.more \in Nat
    BY <1>2, TcpFields DEF Chance
  <2> QED
    BY <1>2, <2>1, <2>2, SendableFits
<1> HIDE DEF n
<1>5. CASE ~x.go
  <2>1. SendTurn(x, luck) = x
    BY <1>5 DEF SendTurn
  <2> QED
    BY <2>1
<1>6. CASE x.go /\ n = 0
  <2>1. SendTurn(x, luck) = [x EXCEPT !.s = SendAck(@, x.flags), !.go = FALSE]
    BY <1>6 DEF SendTurn, n
  <2>2. SendTurn(x, luck) =
          [s |-> SendAck(x.s, x.flags), flags |-> x.flags, go |-> FALSE]
    BY <1>1, <2>1
  <2>3. /\ Sound(SendAck(x.s, x.flags), A, F) /\ Alike(x.s, SendAck(x.s, x.flags))
        /\ Grows(x.s, SendAck(x.s, x.flags))
    BY <1>1, <1>2, SendAckSound
  <2> QED
    BY <1>2, <1>3, <2>2, <2>3
<1>7. CASE x.go /\ n > 0 /\ HoldBack(x.s, n)
  <2>1. SendTurn(x, luck) = [x EXCEPT !.go = FALSE]
    BY <1>4, <1>7 DEF SendTurn, n
  <2>2. [x EXCEPT !.go = FALSE] \in [s : Tcp, flags : Flags, go : BOOLEAN]
        /\ [x EXCEPT !.go = FALSE].s = x.s
    BY <1>1
  <2> QED
    BY <1>1, <2>1, <2>2 DEF Turns
<1>8. CASE x.go /\ n > 0 /\ ~HoldBack(x.s, n) /\ Refuses(x.s, luck)
  <2> DEFINE u == RefuseNext(x.s, n, luck.mss)
  <2>1. SendTurn(x, luck) = [x EXCEPT !.s = RefuseNext(@, n, luck.mss),
                                      !.go = FALSE]
    BY <1>4, <1>8 DEF SendTurn, n
  <2>2. SendTurn(x, luck) = [s |-> u, flags |-> x.flags, go |-> FALSE]
    BY <1>1, <2>1
  <2>3. luck.mss \in Mss
    BY DEF Chance
  <2>4. Sound(u, A, F) /\ Alike(x.s, u) /\ Grows(x.s, u)
    BY <1>1, <1>4, <1>8, <2>3, RefuseNextSound
  <2> HIDE DEF u
  <2> QED
    BY <1>2, <1>3, <2>2, <2>4
<1>9. CASE x.go /\ n > 0 /\ ~HoldBack(x.s, n) /\ ~Refuses(x.s, luck)
  <2>0. path \in Mss
    BY <1>9 DEF Refuses, Paths
  <2>1. SendTurn(x, luck) = [x EXCEPT !.s = SendNext(@, n), !.flags = "none"]
    BY <1>4, <1>9 DEF SendTurn, n
  <2>2. SendTurn(x, luck) =
          [s |-> SendNext(x.s, n), flags |-> "none", go |-> x.go]
    BY <1>1, <2>1
  <2>3. /\ Sound(SendNext(x.s, n), A, F) /\ Alike(x.s, SendNext(x.s, n))
        /\ Grows(x.s, SendNext(x.s, n))
    BY <1>1, <1>4, <1>9, <2>0, SendNextSound
  <2>4. "none" \in Flags
    BY DEF Flags
  <2> QED
    BY <1>2, <1>3, <2>2, <2>3, <2>4
<1> QED
  BY <1>2, <1>4, <1>5, <1>6, <1>7, <1>8, <1>9

\* f is attemptSend's loop of N turns.
SendLoop(f, x, luck, N) ==
  f = [k \in 0 .. N |-> IF k = 0 THEN x ELSE SendTurn(f[k - 1], luck)]

\* the function that iterates it,
LEMMA SendLoopExists ==
  ASSUME NEW x, NEW luck
  PROVE  \A N \in Nat : \E f : SendLoop(f, x, luck, N)
<1> DEFINE S == {N \in Nat : \E f : SendLoop(f, x, luck, N)}
<1>1. 0 \in S
  <2>1. PICK f : f = [k \in 0 .. 0 |-> x]
    OBVIOUS
  <2>2. SendLoop(f, x, luck, 0)
    BY <2>1 DEF SendLoop
  <2> QED
    BY <2>2
<1>2. ASSUME NEW N \in Nat, N \in S
      PROVE  N + 1 \in S
  <2>1. PICK f : SendLoop(f, x, luck, N)
    BY <1>2
  <2>2. PICK g : g = [k \in 0 .. N + 1 |->
                        IF k = N + 1 THEN SendTurn(f[N], luck) ELSE f[k]]
    OBVIOUS
  <2>3. \A k \in 0 .. N : f[k] = IF k = 0 THEN x ELSE SendTurn(f[k - 1], luck)
    BY <2>1 DEF SendLoop
  <2>4. \A k \in 0 .. N : g[k] = f[k]
    BY <2>2
  <2>5. ASSUME NEW k \in 0 .. N + 1
        PROVE  g[k] = IF k = 0 THEN x ELSE SendTurn(g[k - 1], luck)
    <3>1. CASE k = N + 1
      <4>1. k # 0 /\ k - 1 = N /\ N \in 0 .. N
        BY <3>1
      <4>2. g[k] = SendTurn(f[N], luck)
        BY <2>2, <3>1
      <4> QED
        BY <2>4, <4>1, <4>2
    <3>2. CASE k # N + 1
      <4>1. k \in 0 .. N /\ (k # 0 => k - 1 \in 0 .. N)
        BY <3>2
      <4> QED
        BY <2>3, <2>4, <4>1
    <3> QED
      BY <3>1, <3>2
  <2>6. g = [k \in 0 .. N + 1 |-> g[k]]
    BY <2>2
  <2>7. SendLoop(g, x, luck, N + 1)
    BY <2>5, <2>6 DEF SendLoop
  <2> QED
    BY <2>7
<1> HIDE DEF S
<1>3. \A N \in Nat : N \in S
  BY <1>1, <1>2, SetInduction
<1> QED
  BY <1>3 DEF S

\* and the loop as a whole: attemptSend keeps the end sound.
LEMMA AttemptSendSound ==
  ASSUME NEW A, NEW F, Down(F), path \in Paths, NEW s, Sound(s, A, F),
         NEW flags \in Flags, NEW luck \in Chance
  PROVE  /\ Sound(attemptSend(s, flags, luck), A, F)
         /\ Alike(s, attemptSend(s, flags, luck))
         /\ Grows(s, attemptSend(s, flags, luck))
<1> DEFINE x == [s |-> s, flags |-> flags, go |-> TRUE]
           N == SndBuf + 1
           loop == CHOOSE f : SendLoop(f, x, luck, N)
<1>1. s \in Tcp
  BY DEF Sound
<1>2. SameStream(s, s) /\ Alike(s, s)
  BY DEF SameStream, Alike
<1>3. Sound(s, A, F) /\ Grows(s, s)
  BY <1>1, <1>2, SameSound
<1>4. x \in Turns(s, A, F)
  <2>1. x \in [s : Tcp, flags : Flags, go : BOOLEAN] /\ x.s = s
    BY <1>1
  <2> QED
    BY <1>2, <1>3, <2>1 DEF Turns
<1>5. attemptSend(s, flags, luck) = loop[N].s
  BY Zenon DEF attemptSend, SendLoop
<1> HIDE DEF x
<1>6. N \in Nat
  BY Constants
<1> HIDE DEF N
<1>7. SendLoop(loop, x, luck, N)
  BY <1>6, SendLoopExists
<1> HIDE DEF loop
<1>8. \A k \in 0 .. N : loop[k] = IF k = 0 THEN x ELSE SendTurn(loop[k - 1], luck)
  BY <1>7 DEF SendLoop
<1> DEFINE S == {k \in Nat : k <= N => loop[k] \in Turns(s, A, F)}
<1>9. 0 \in S
  BY <1>4, <1>6, <1>8
<1>10. ASSUME NEW k \in Nat, k \in S
       PROVE  k + 1 \in S
  <2> SUFFICES ASSUME k + 1 <= N PROVE loop[k + 1] \in Turns(s, A, F)
    OBVIOUS
  <2>1. k + 1 \in 0 .. N /\ k + 1 # 0 /\ (k + 1) - 1 = k /\ k <= N
    BY <1>6
  <2>2. loop[k + 1] = SendTurn(loop[k], luck)
    BY <1>8, <2>1
  <2>3. loop[k] \in Turns(s, A, F)
    BY <1>10, <2>1
  <2> QED
    BY <1>1, <2>2, <2>3, SendTurnKeeps
<1> HIDE DEF S
<1>11. N \in S
  BY <1>6, <1>9, <1>10, SetInduction
<1>12. loop[N] \in Turns(s, A, F)
  BY <1>6, <1>11 DEF S
<1> QED
  BY <1>5, <1>12 DEF Turns

-----------------------------------------------------------------------------
(* Queueing bytes.                                                         *)

\* new is list with m more bytes after z.
Queued(list, a, z, m, nxt, new) ==
  /\ new \in Seq(Segment) /\ Chained(new, a, z + m) /\ Marked(new, nxt)
  /\ Begins(new, nxt)
  /\ \A q \in Nat : Begins(list, q) => Begins(new, q)

\* Bytes that join the last segment, which was never transmitted,
LEMMA QueueJoins ==
  ASSUME NEW list \in Seq(Segment), NEW a \in Nat, NEW z \in Nat,
         NEW nxt \in Nat, Chained(list, a, z), Marked(list, nxt),
         nxt = z \/ Begins(list, nxt), NEW m \in Nat, m > 0, z > 0,
         NEW n, n = Len(list), n > 0, ~list[n].ctl, list[n].xmit = 0
  PROVE  Queued(list, a, z, m, nxt, [list EXCEPT ![n].len = @ + m])
<1> DEFINE g == list[n]
           h == [g EXCEPT !.len = g.len + m]
           new == [list EXCEPT ![n] = h]
<1>1. /\ n \in Nat /\ n \in 1 .. Len(list) /\ g \in Segment /\ g.seq \in Nat
      /\ g.len \in Nat /\ g.xmit \in Nat /\ list # <<>>
  BY SegmentsOf
<1>2. /\ h \in Segment /\ h.seq = g.seq /\ h.len = g.len + m /\ h.ctl = g.ctl
      /\ h.xmit = g.xmit
  <2> PICK x \in Segment : x = g
    BY <1>1
  <2>1. x.len + m \in Nat
    BY <1>1
  <2> QED
    BY <2>1 DEF Segment
<1>3. [list EXCEPT ![n].len = @ + m] = new
  OBVIOUS
<1> HIDE DEF h
<1>4. /\ new \in Seq(Segment) /\ Len(new) = n
      /\ \A j \in 1 .. n : new[j] = IF j = n THEN h ELSE list[j]
  BY <1>1, <1>2, ExceptSeq
<1> HIDE DEF new, g
<1>5. End(g) = z /\ list[1].seq = a
  BY <1>1 DEF Chained, g
<1>6. End(h) = z + m
  <2>1. PICK x \in Nat : x = g.seq
    BY <1>1
  <2>2. PICK y \in Nat : y = g.len
    BY <1>1
  <2>3. x + y = z /\ End(h) = x + (y + m)
    BY <1>2, <1>5, <2>1, <2>2 DEF End
  <2> QED
    BY <2>3
<1>7. \A j \in 1 .. n : new[j].seq = list[j].seq
  BY <1>2, <1>4 DEF g
<1>8. ASSUME NEW j \in 1 .. Len(new)
      PROVE  new[j].len > 0 /\ (j < Len(new) => new[j + 1].seq = End(new[j]))
  <2>1. list[j].len > 0 /\ (j < Len(list) => list[j + 1].seq = End(list[j]))
    BY <1>4 DEF Chained
  <2>2. CASE j = n
    BY <1>1, <1>2, <1>4, <2>2
  <2>3. CASE j # n
    <3>1. j < n /\ j + 1 \in 1 .. n /\ j \in 1 .. n
      BY <1>1, <1>4, <2>3
    <3> QED
      BY <1>4, <1>7, <2>1, <2>3, <3>1
  <2> QED
    BY <2>2, <2>3
<1>9. Chained(new, a, z + m)
  <2>1. new # <<>> /\ new[1].seq = a
    BY <1>1, <1>4, <1>5, <1>7
  <2>2. End(new[Len(new)]) = z + m
    BY <1>1, <1>4, <1>6
  <2> QED
    BY <1>8, <2>1, <2>2 DEF Chained
<1>10. g.xmit = 0 /\ ~g.ctl
  BY DEF g
<1>11. ~(g.seq < nxt) /\ (g.ctl <=> g.seq = 0)
  BY <1>1, <1>10 DEF Marked, g
<1>12. Marked(new, nxt)
  <2> SUFFICES ASSUME NEW j \in 1 .. Len(new)
               PROVE  /\ new[j].xmit > 0 <=> new[j].seq < nxt
                      /\ new[j].ctl <=> new[j].seq = 0
                      /\ new[j].ctl => new[j].len = 1
    BY DEF Marked
  <2>1. CASE j = n
    BY <1>1, <1>2, <1>4, <1>10, <1>11, <2>1
  <2>2. CASE j # n
    BY <1>1, <1>4, <2>2 DEF Marked
  <2> QED
    BY <2>1, <2>2
<1>13. \A q \in Nat : Begins(list, q) => Begins(new, q)
  BY <1>4, <1>7 DEF Begins
<1>14. Begins(list, nxt)
  <2>1. g.seq < z
    BY <1>1, <1>5, ChainOrder DEF g
  <2> QED
    BY <1>1, <1>11, <2>1
<1> QED
  BY <1>3, <1>4, <1>9, <1>12, <1>13, <1>14 DEF Queued

\* or become a segment of their own leave the list a chain.
LEMMA QueueAppends ==
  ASSUME NEW list \in Seq(Segment), NEW a \in Nat, NEW z \in Nat,
         NEW nxt \in Nat, Chained(list, a, z), Marked(list, nxt), nxt <= z,
         nxt = z \/ Begins(list, nxt), NEW m \in Nat, m > 0,
         NEW g \in Segment, g.seq = z, g.len = m, g.xmit = 0,
         g.ctl <=> z = 0, g.ctl => m = 1
  PROVE  Queued(list, a, z, m, nxt, Append(list, g))
<1> DEFINE new == Append(list, g)
           n == Len(list)
<1>1. /\ new \in Seq(Segment) /\ new # <<>> /\ Len(new) = n + 1
      /\ \A j \in 1 .. n : new[j] = list[j]
      /\ new[n + 1] = g
  BY AppendProperties
<1> HIDE DEF new
<1>2. n \in Nat
  OBVIOUS
<1>3. End(g) = z + m
  BY DEF End
<1>4. n > 0 => End(list[n]) = z /\ list[1].seq = a
  BY DEF Chained
<1>5. n = 0 => a = z
  BY DEF Chained
<1>6. ASSUME NEW j \in 1 .. Len(new)
      PROVE  new[j].len > 0 /\ (j < Len(new) => new[j + 1].seq = End(new[j]))
  <2>1. CASE j = n + 1
    BY <1>1, <1>2, <2>1
  <2>2. CASE j = n
    BY <1>1, <1>2, <1>4, <2>2 DEF Chained
  <2>3. CASE j < n
    <3>1. j \in 1 .. n /\ j + 1 \in 1 .. n /\ j < Len(list)
      BY <1>1, <1>2, <2>3
    <3> QED
      BY <1>1, <3>1 DEF Chained
  <2> QED
    BY <1>1, <1>2, <2>1, <2>2, <2>3
<1>7. new[1].seq = a
  <2>1. CASE n = 0
    BY <1>1, <1>5, <2>1
  <2>2. CASE n > 0
    BY <1>1, <1>2, <1>4, <2>2
  <2> QED
    BY <1>2, <2>1, <2>2
<1>8. Chained(new, a, z + m)
  BY <1>1, <1>3, <1>6, <1>7 DEF Chained
<1>9. Marked(new, nxt)
  <2> SUFFICES ASSUME NEW j \in 1 .. Len(new)
               PROVE  /\ new[j].xmit > 0 <=> new[j].seq < nxt
                      /\ new[j].ctl <=> new[j].seq = 0
                      /\ new[j].ctl => new[j].len = 1
    BY DEF Marked
  <2>1. CASE j = n + 1
    BY <1>1, <2>1
  <2>2. CASE j # n + 1
    <3>1. j \in 1 .. Len(list)
      BY <1>1, <1>2, <2>2
    <3> QED
      BY <1>1, <3>1 DEF Marked
  <2> QED
    BY <2>1, <2>2
<1>10. ASSUME NEW q \in Nat, Begins(list, q)
       PROVE  Begins(new, q)
  <2>1. PICK j \in 1 .. n : list[j].seq = q
    BY <1>10 DEF Begins
  <2>2. j \in 1 .. Len(new) /\ new[j].seq = q
    BY <1>1, <1>2, <2>1
  <2> QED
    BY <2>2 DEF Begins
<1>11. Begins(new, nxt)
  <2>1. CASE nxt = z
    <3>1. n + 1 \in 1 .. Len(new) /\ new[n + 1].seq = nxt
      BY <1>1, <1>2, <2>1
    <3> QED
      BY <3>1 DEF Begins
  <2>2. CASE Begins(list, nxt)
    BY <1>10, <2>2
  <2> QED
    BY <2>1, <2>2
<1> QED
  BY <1>1, <1>8, <1>9, <1>10, <1>11 DEF Queued, new

\* t is s but for the bytes that are queued.
Otherwise(s, t) ==
  /\ t.state = s.state /\ t.shutdown = s.shutdown /\ t.aborted = s.aborted
  /\ t.una = s.una /\ t.nxt = s.nxt /\ t.swnd = s.swnd
  /\ t.rcv = s.rcv /\ t.rwnd = s.rwnd /\ t.rbuf = s.rbuf
  /\ t.ahead = s.ahead /\ t.rlist = s.rlist /\ t.out = s.out

\* data goes on where the bytes of s end.
Continues(s, data, ctl) ==
  /\ \A i \in 1 .. Len(data) : data[i] = Total(s) + i - 1
  /\ ctl <=> Total(s) = 0
  /\ ctl => Len(data) = 1

\* t is s after m bytes were queued.
QueueOf(s, t, m) ==
  /\ Grows(s, t) /\ Otherwise(s, t)
  /\ Total(t) = Total(s) + m /\ Len(t.sbuf) = Len(s.sbuf) + m
  /\ m \in Nat /\ m > 0

\* queue appends as many of the bytes as there is room for, at least one.
LEMMA QueueSound ==
  ASSUME NEW A, NEW F, NEW s, Sound(s, A, F), NEW data \in Seq(Nat),
         NEW ctl \in BOOLEAN, Len(s.sbuf) < SndBuf, Len(data) > 0,
         Continues(s, data, ctl), Total(s) + Len(data) < SeqSpace
  PROVE  \E m \in 1 .. Len(data) : /\ QueueOf(s, queue(s, data, ctl), m)
                                   /\ Sound(queue(s, data, ctl), A, F)
<1> DEFINE m == Least(Len(data), SndBuf - Len(s.sbuf))
           d == SubSeq(data, 1, m)
           z == Total(s)
           n == Len(s.slist)
           join == n > 0 /\ s.slist[n].ctl = ctl /\ s.slist[n].xmit = 0
           g == [seq |-> Wrap(s.una + Len(s.sbuf)), len |-> Len(d), ctl |-> ctl, xmit |-> 0]
           new == IF join THEN [s.slist EXCEPT ![n].len = @ + Len(d)]
                  ELSE Append(s.slist, g)
           buf == s.sbuf \o d
           t == [s EXCEPT !.slist = new, !.sbuf = buf]
<1>1. s \in Tcp /\ Sending(s) /\ Total(s) < SeqSpace /\ Outs(s, A)
      /\ s.una + s.swnd \in F /\ s.rcv \in A /\ s.rwnd <= Space(s)
      /\ s.nxt \in F
  BY DEF Sound
<1>2. /\ s.una \in Nat /\ s.nxt \in Nat /\ s.slist \in Seq(Segment)
      /\ s.sbuf \in Seq(Nat) /\ Len(s.sbuf) \in Nat /\ z \in Nat
      /\ s.rcv \in Nat /\ Edge(s) \in Nat /\ n \in Nat
      /\ Len(data) \in Nat /\ SndBuf \in Nat
  <2>1. s \in Tcp
    BY <1>1
  <2>2. /\ s.una \in Nat /\ s.nxt \in Nat /\ s.slist \in Seq(Segment)
        /\ s.sbuf \in Seq(Nat) /\ Len(s.sbuf) \in Nat /\ s.rcv \in Nat
        /\ s.rwnd \in Nat /\ n \in Nat
    BY <2>1, TcpFields
  <2>3. z \in Nat /\ Edge(s) \in Nat
    <3>1. s.una + Len(s.sbuf) \in Nat /\ s.rcv + s.rwnd \in Nat
      BY <2>2, SMTT(30)
    <3> QED
      BY <3>1 DEF Total, Edge
  <2>4. Len(data) \in Nat /\ SndBuf \in Nat
    BY Constants
  <2> QED
    BY <2>2, <2>3, <2>4
<1>3. m \in Nat /\ m > 0 /\ m <= Len(data) /\ Len(s.sbuf) + m <= SndBuf
  <2>1. PICK x \in Nat : x = Len(data)
    BY <1>2
  <2>2. PICK y \in Nat : y = Len(s.sbuf)
    BY <1>2
  <2>3. x > 0 /\ y < SndBuf /\ SndBuf \in Nat
    BY <1>2, <2>1, <2>2
  <2>4. /\ Least(x, SndBuf - y) \in Nat /\ Least(x, SndBuf - y) > 0
        /\ Least(x, SndBuf - y) <= x /\ y + Least(x, SndBuf - y) <= SndBuf
    BY <2>3 DEF Least
  <2> QED
    BY <2>1, <2>2, <2>4
<1>4. queue(s, data, ctl) = t
  BY DEF queue
<1> HIDE DEF m
<1>5. /\ d \in Seq(Nat) /\ Len(d) = m
      /\ \A i \in 1 .. m : d[i] = data[i]
  <2>1. ASSUME NEW i \in 1 .. m
        PROVE  data[i] \in Nat
    <3>1. i \in 1 .. Len(data)
      BY <1>2, <1>3
    <3> QED
      BY <3>1, ElementOfSeq
  <2>2. /\ d \in Seq(Nat)
        /\ Len(d) = IF 1 <= m THEN m - 1 + 1 ELSE 0
        /\ \A i \in 1 .. m - 1 + 1 : d[i] = data[1 + i - 1]
    BY <1>3, <2>1, SubSeqProperties
  <2> QED
    BY <1>3, <2>2
<1> HIDE DEF d
<1>6. /\ buf \in Seq(Nat) /\ Len(buf) = Len(s.sbuf) + m
      /\ \A i \in 1 .. Len(s.sbuf) + m :
           buf[i] = IF i <= Len(s.sbuf) THEN s.sbuf[i] ELSE d[i - Len(s.sbuf)]
  BY <1>2, <1>5, ConcatProperties, ZenonT(60)
<1> HIDE DEF buf
<1>7. Wrap(s.una + Len(s.sbuf)) = z
  BY <1>1, <1>2, NoWrap DEF Total
<1>8. /\ Chained(s.slist, s.una, z) /\ Marked(s.slist, s.nxt) /\ s.nxt <= z
      /\ s.nxt = z \/ Begins(s.slist, s.nxt)
  BY <1>1 DEF Sending
<1>9. /\ g \in Segment /\ g.seq = z /\ g.len = m /\ g.ctl = ctl /\ g.xmit = 0
  BY <1>2, <1>3, <1>5, <1>7 DEF Segment
<1>10. z = s.una + Len(s.sbuf)
  BY DEF Total
<1> HIDE DEF g, z
<1>11. Queued(s.slist, s.una, z, m, s.nxt, new)
  <2>1. CASE join
    <3>1. n \in 1 .. Len(s.slist) /\ z > 0
      <4>1. n \in 1 .. Len(s.slist)
        BY <1>2, <2>1
      <4>2. /\ s.slist[n].seq < End(s.slist[n]) /\ End(s.slist[n]) <= z
            /\ s.slist[n].seq \in Nat /\ s.slist[n].len \in Nat
        BY <1>2, <1>8, <4>1, ChainOrder, SegmentsOf
      <4> QED
        BY <1>2, <4>1, <4>2, SMTT(30) DEF End
    <3>2. ~ctl
      BY <1>2, <3>1 DEF z, Continues
    <3>3. /\ n > 0 /\ ~s.slist[n].ctl /\ s.slist[n].xmit = 0
      BY <2>1, <3>2
    <3>4. new = [s.slist EXCEPT ![n].len = @ + m]
      BY <1>5, <2>1
    <3>5. Queued(s.slist, s.una, z, m, s.nxt, [s.slist EXCEPT ![n].len = @ + m])
      BY <1>2, <1>3, <1>8, <3>1, <3>3, QueueJoins
    <3> QED
      BY <3>4, <3>5
  <2>2. CASE ~join
    <3>1. new = Append(s.slist, g)
      BY <2>2
    <3>2. (g.ctl <=> z = 0) /\ (g.ctl => m = 1)
      <4>1. ctl => m = 1
        <5>1. ctl => Len(data) = 1
          BY DEF Continues
        <5>2. PICK x \in Nat : x = Len(data)
          BY <1>2
        <5>3. (ctl => x = 1) /\ m <= x /\ m > 0 /\ m \in Nat
          BY <1>3, <5>1, <5>2
        <5> QED
          BY <5>3
      <4>2. ctl <=> z = 0
        BY DEF z, Continues
      <4> QED
        BY <1>9, <4>1, <4>2, Zenon
    <3>3. Queued(s.slist, s.una, z, m, s.nxt, Append(s.slist, g))
      BY <1>2, <1>3, <1>8, <1>9, <3>2, QueueAppends
    <3> QED
      BY <3>1, <3>3
  <2> QED
    BY <2>1, <2>2
<1> HIDE DEF new, join
<1>12. /\ new \in Seq(Segment) /\ Chained(new, s.una, z + m)
       /\ Marked(new, s.nxt) /\ Begins(new, s.nxt)
       /\ \A q \in Nat : Begins(s.slist, q) => Begins(new, q)
  BY <1>11, Zenon DEF Queued
<1>13. /\ t \in Tcp /\ Otherwise(s, t) /\ t.slist = new /\ t.sbuf = buf
       /\ t.rto = s.rto
  BY <1>1, <1>6, <1>12 DEF Tcp, Otherwise
<1> HIDE DEF t
<1>14. /\ t.una = s.una /\ t.nxt = s.nxt /\ t.swnd = s.swnd /\ t.rcv = s.rcv
       /\ t.rwnd = s.rwnd /\ t.rbuf = s.rbuf /\ t.out = s.out
  BY <1>13 DEF Otherwise
<1>15. /\ Edge(t) = Edge(s) /\ Space(t) = Space(s)
       /\ Total(t) = s.una + (Len(s.sbuf) + m)
       /\ s.una + (Len(s.sbuf) + m) = z + m
  <2>1. /\ Edge(t) = Edge(s) /\ Space(t) = Space(s)
        /\ Total(t) = s.una + (Len(s.sbuf) + m)
    BY <1>6, <1>13, <1>14 DEF Edge, Space, Total
  <2>2. s.una + (Len(s.sbuf) + m) = (s.una + Len(s.sbuf)) + m
    BY <1>2, <1>3, SMTT(30)
  <2> QED
    BY <1>10, <2>1, <2>2
<1>16. Grows(s, t)
  BY <1>2, <1>12, <1>13, <1>14, <1>15, SMTT(30) DEF Grows, Known
<1>17. ASSUME NEW i \in 1 .. Len(buf)
       PROVE  buf[i] = s.una + i - 1
  <2>1. CASE i <= Len(s.sbuf)
    <3>1. i \in 1 .. Len(s.sbuf) /\ i \in 1 .. Len(s.sbuf) + m
      BY <1>2, <1>3, <1>6, <2>1
    <3> QED
      BY <1>1, <1>6, <2>1, <3>1 DEF Sending
  <2>2. CASE ~(i <= Len(s.sbuf))
    <3> PICK y \in Nat : y = Len(s.sbuf)
      BY <1>2
    <3> PICK x \in Nat : x = Len(data)
      BY <1>2
    <3>0. i \in 1 .. y + m /\ ~(i <= y) /\ m <= x
      BY <1>3, <1>6, <2>2
    <3>1. /\ i - Len(s.sbuf) \in 1 .. m /\ i - Len(s.sbuf) \in 1 .. Len(data)
          /\ i \in 1 .. Len(s.sbuf) + m
      <4>1. i - y \in 1 .. m /\ i - y \in 1 .. x
        BY <1>3, <3>0
      <4> QED
        BY <3>0, <4>1
    <3>2. buf[i] = data[i - Len(s.sbuf)]
      BY <1>5, <1>6, <2>2, <3>1
    <3>3. data[i - Len(s.sbuf)] = z + (i - Len(s.sbuf)) - 1
      BY <3>1 DEF z, Continues
    <3>4. (s.una + y) + (i - y) - 1 = s.una + i - 1
      <4>1. i \in Nat
        BY <1>3, <3>0
      <4>2. PICK x1 \in Nat : x1 = s.una
        BY <1>2
      <4>3. (x1 + y) + (i - y) - 1 = x1 + i - 1
        BY <4>1, Shift, ZenonT(60)
      <4> QED
        BY <4>2, <4>3
    <3> QED
      BY <1>10, <3>2, <3>3, <3>4
  <2> QED
    BY <2>1, <2>2
<1>18. Sending(t)
  <2>1. Len(t.sbuf) <= SndBuf
    BY <1>3, <1>6, <1>13
  <2>2. Chained(t.slist, t.una, Total(t)) /\ Marked(t.slist, t.nxt)
        /\ Begins(t.slist, t.nxt)
    BY <1>12, <1>13, <1>14, <1>15
  <2>3. t.una <= t.nxt /\ t.nxt <= Total(t)
    BY <1>1, <1>2, <1>3, <1>8, <1>14, <1>15 DEF Sending
  <2>4. t.rto <=> t.una < t.nxt
    BY <1>1, <1>13, <1>14 DEF Sending
  <2> QED
    BY <1>13, <1>14, <1>17, <2>1, <2>2, <2>3, <2>4 DEF Sending
<1>19. Outs(t, A)
  BY <1>1, <1>13, <1>14, <1>16, OutsStay DEF Outs
<1>20. Total(t) < SeqSpace
  BY <1>2, <1>3, <1>15, Constants DEF z
<1>21. Sound(t, A, F)
  BY <1>1, <1>13, <1>14, <1>15, <1>18, <1>19, <1>20 DEF Sound
<1>22. Total(t) = Total(s) + m /\ Len(t.sbuf) = Len(s.sbuf) + m
  BY <1>6, <1>13, <1>15 DEF z
<1>23. m \in 1 .. Len(data)
  BY <1>2, <1>3
<1>24. QueueOf(s, t, m)
  BY <1>3, <1>13, <1>16, <1>22 DEF QueueOf
<1> QED
  BY <1>4, <1>21, <1>23, <1>24

-----------------------------------------------------------------------------
(* Acknowledgements.                                                       *)

\* f are the lengths of the first segments of list together.
Lengths(f, list) ==
  f = [i \in 0 .. Len(list) |-> IF i = 0 THEN 0 ELSE f[i - 1] + list[i].len]

\* In a chain those lengths are the distances of the segments' ends.
LEMMA LengthsAre ==
  ASSUME NEW list \in Seq(Segment), NEW a \in Nat, NEW z \in Nat,
         Chained(list, a, z)
  PROVE  /\ \E f : Lengths(f, list)
         /\ \A f : Lengths(f, list) =>
              /\ DOMAIN f = 0 .. Len(list) /\ f[0] = 0
              /\ \A i \in 1 .. Len(list) : f[i] = End(list[i]) - a
<1>1. /\ Len(list) \in Nat
      /\ \A i \in 1 .. Len(list) :
           /\ list[i].seq \in Nat /\ list[i].len \in Nat
           /\ End(list[i]) = list[i].seq + list[i].len /\ End(list[i]) \in Nat
  BY SegmentsOf DEF End
<1>2. Len(list) > 0 => list[1].seq = a
  BY <1>1 DEF Chained
<1> DEFINE at(i) == IF i = 0 THEN 0 ELSE End(list[i]) - a
<1>3. ASSUME NEW i \in 1 .. Len(list)
      PROVE  at(i) = at(i - 1) + list[i].len
  <2> PICK x \in Nat : x = list[i].seq
    BY <1>1
  <2> PICK y \in Nat : y = list[i].len
    BY <1>1
  <2>1. at(i) = (x + y) - a
    BY <1>1
  <2>2. at(i - 1) = x - a
    <3>1. CASE i = 1
      BY <1>2, <3>1
    <3>2. CASE i # 1
      <4>1. /\ i - 1 \in 1 .. Len(list) /\ i - 1 < Len(list) /\ (i - 1) + 1 = i
            /\ i - 1 # 0
        BY <1>1, <3>2
      <4>2. list[i].seq = End(list[i - 1])
        BY <4>1 DEF Chained
      <4> QED
        BY <4>1, <4>2
    <3> QED
      BY <3>1, <3>2
  <2> HIDE DEF at
  <2> QED
    BY <2>1, <2>2
<1>4. \E f : Lengths(f, list)
  <2>1. PICK f : f = [i \in 0 .. Len(list) |-> at(i)]
    OBVIOUS
  <2>2. ASSUME NEW i \in 0 .. Len(list)
        PROVE  f[i] = IF i = 0 THEN 0 ELSE f[i - 1] + list[i].len
    <3>1. CASE i = 0
      BY <2>1, <3>1
    <3>2. CASE i # 0
      <4>1. i \in 1 .. Len(list) /\ i - 1 \in 0 .. Len(list)
        BY <1>1, <3>2
      <4>2. f[i] = at(i) /\ f[i - 1] = at(i - 1)
        BY <2>1, <4>1
      <4>3. at(i) = at(i - 1) + list[i].len
        BY <1>3, <4>1
      <4> HIDE DEF at
      <4> QED
        BY <3>2, <4>2, <4>3
    <3> QED
      BY <3>1, <3>2
  <2>3. f = [i \in 0 .. Len(list) |-> f[i]]
    BY <2>1
  <2>4. Lengths(f, list)
    BY <2>2, <2>3 DEF Lengths
  <2> QED
    BY <2>4
<1>5. ASSUME NEW f, Lengths(f, list)
      PROVE  /\ DOMAIN f = 0 .. Len(list) /\ f[0] = 0
             /\ \A i \in 1 .. Len(list) : f[i] = End(list[i]) - a
  <2>1. /\ DOMAIN f = 0 .. Len(list)
        /\ \A i \in 0 .. Len(list) :
             f[i] = IF i = 0 THEN 0 ELSE f[i - 1] + list[i].len
    BY <1>5 DEF Lengths
  <2> DEFINE S == {i \in Nat : i <= Len(list) => f[i] = at(i)}
  <2>2. 0 \in S
    BY <1>1, <2>1
  <2>3. ASSUME NEW i \in Nat, i \in S
        PROVE  i + 1 \in S
    <3> SUFFICES ASSUME i + 1 <= Len(list) PROVE f[i + 1] = at(i + 1)
      OBVIOUS
    <3>1. /\ i + 1 \in 0 .. Len(list) /\ i + 1 \in 1 .. Len(list)
          /\ i + 1 # 0 /\ (i + 1) - 1 = i /\ i <= Len(list)
      BY <1>1
    <3>2. f[i + 1] = f[i] + list[i + 1].len
      BY <2>1, <3>1
    <3>3. at(i + 1) = at(i) + list[i + 1].len
      BY <1>3, <3>1
    <3>4. f[i] = at(i)
      BY <2>3, <3>1
    <3> HIDE DEF at
    <3> QED
      BY <3>2, <3>3, <3>4
  <2> HIDE DEF S, at
  <2>4. \A i \in Nat : i \in S
    BY <2>2, <2>3, SetInduction
  <2>5. f[0] = 0
    BY <1>1, <2>1
  <2>6. ASSUME NEW i \in 1 .. Len(list)
        PROVE  f[i] = End(list[i]) - a
    <3>1. i \in Nat /\ i <= Len(list) /\ i # 0
      BY <1>1
    <3>2. i \in S
      BY <2>4, <3>1
    <3> QED
      BY <3>1, <3>2 DEF S, at
  <2> QED
    BY <2>1, <2>5, <2>6
<1> QED
  BY <1>4, <1>5

\* The first k segments.
LEMMA DropFirst ==
  ASSUME NEW list \in Seq(Segment), NEW a \in Nat, NEW z \in Nat,
         NEW nxt \in Nat, Chained(list, a, z), Marked(list, nxt),
         NEW k \in 0 .. Len(list), NEW c \in Nat,
         IF k = 0 THEN c = a ELSE c = End(list[k])
  PROVE  LET new == SubSeq(list, k + 1, Len(list))
         IN  /\ new \in Seq(Segment) /\ Chained(new, c, z) /\ Marked(new, nxt)
             /\ \A q \in Nat : q >= c /\ Begins(list, q) => Begins(new, q)
<1> DEFINE new == SubSeq(list, k + 1, Len(list))
           n == Len(list)
<1>1. /\ n \in Nat /\ k \in Nat /\ k <= n
      /\ \A i \in 1 .. n :
           /\ list[i] \in Segment /\ list[i].seq \in Nat /\ list[i].len \in Nat
           /\ End(list[i]) \in Nat
  BY SegmentsOf, SMTT(30) DEF End
<1>2. /\ new \in Seq(Segment) /\ Len(new) = n - k
      /\ \A j \in 1 .. n - k : new[j] = list[k + j]
  <2>1. \A j \in k + 1 .. n : list[j] \in Segment
    BY <1>1
  <2>2. /\ SubSeq(list, k + 1, n) \in Seq(Segment)
        /\ Len(SubSeq(list, k + 1, n)) =
             IF k + 1 <= n THEN n - (k + 1) + 1 ELSE 0
        /\ \A j \in 1 .. n - (k + 1) + 1 :
             SubSeq(list, k + 1, n)[j] = list[(k + 1) + j - 1]
    BY <1>1, <2>1, SubSeqProperties, k + 1 \in Int, n \in Int
  <2> HIDE DEF new
  <2>3. /\ new \in Seq(Segment)
        /\ Len(new) = IF k + 1 <= n THEN n - (k + 1) + 1 ELSE 0
        /\ \A j \in 1 .. n - (k + 1) + 1 : new[j] = list[(k + 1) + j - 1]
    BY <2>2 DEF new
  <2>4. n - (k + 1) + 1 = n - k /\ (~(k + 1 <= n) => n - k = 0)
    BY <1>1
  <2>5. \A j \in 1 .. n - k : (k + 1) + j - 1 = k + j
    BY <1>1
  <2> QED
    BY <2>3, <2>4, <2>5
<1> HIDE DEF new
<1>3. ASSUME NEW j \in 1 .. Len(new)
      PROVE  /\ k + j \in 1 .. n /\ new[j] = list[k + j]
             /\ j < Len(new) => /\ k + j < n /\ new[j + 1] = list[(k + j) + 1]
  <2>1. j \in 1 .. n - k /\ k + j \in 1 .. n
    BY <1>1, <1>2
  <2>2. j < Len(new) => /\ k + j < n /\ j + 1 \in 1 .. n - k
                        /\ k + (j + 1) = (k + j) + 1
    BY <1>1, <1>2
  <2> QED
    BY <1>2, <2>1, <2>2
<1>4. ASSUME NEW j \in 1 .. Len(new)
      PROVE  new[j].len > 0 /\ (j < Len(new) => new[j + 1].seq = End(new[j]))
  BY <1>3 DEF Chained
<1>5. CASE k = n
  <2>1. new = <<>> /\ Len(new) = 0
    BY <1>1, <1>2, <1>5
  <2>2. c = z
    BY <1>1, <1>5 DEF Chained
  <2>3. Chained(new, c, z) /\ Marked(new, nxt)
    BY <2>1, <2>2 DEF Chained, Marked
  <2>4. ASSUME NEW q \in Nat, q >= c, Begins(list, q)
        PROVE  FALSE
    <3> PICK i \in 1 .. n : list[i].seq = q
      BY <2>4 DEF Begins
    <3>1. list[i].seq < End(list[i]) /\ End(list[i]) <= z
      BY ChainOrder
    <3> QED
      BY <1>1, <2>2, <2>4, <3>1
  <2> QED
    BY <1>2, <2>3, <2>4 DEF new
<1>6. CASE k < n
  <2>1. new # <<>> /\ 1 \in 1 .. Len(new) /\ Len(new) \in 1 .. Len(new)
        /\ k + Len(new) = n /\ list # <<>>
    BY <1>1, <1>2, <1>6
  <2>2. new[1].seq = c
    <3>1. new[1] = list[k + 1]
      BY <1>3, <2>1
    <3>2. CASE k = 0
      BY <2>1, <3>1, <3>2 DEF Chained
    <3>3. CASE k # 0
      <4>1. k \in 1 .. Len(list) /\ k < Len(list)
        BY <1>1, <1>6, <3>3
      <4> QED
        BY <3>1, <3>3, <4>1 DEF Chained
    <3> QED
      BY <3>2, <3>3
  <2>3. End(new[Len(new)]) = z
    <3>1. new[Len(new)] = list[n]
      BY <1>3, <2>1
    <3> QED
      BY <2>1, <3>1 DEF Chained
  <2>4. Chained(new, c, z)
    BY <1>4, <2>1, <2>2, <2>3 DEF Chained
  <2>5. Marked(new, nxt)
    BY <1>3, SMTT(30) DEF Marked
  <2>6. ASSUME NEW q \in Nat, q >= c, Begins(list, q)
        PROVE  Begins(new, q)
    <3> PICK i \in 1 .. n : list[i].seq = q
      BY <2>6 DEF Begins
    <3>1. i > k
      <4> SUFFICES ASSUME i <= k PROVE FALSE
        BY <1>1
      <4>1. k # 0 /\ k \in 1 .. n
        BY <1>1
      <4>2. list[i].seq < End(list[i])
        BY ChainOrder
      <4>3. CASE i = k
        BY <1>1, <2>6, <4>1, <4>2, <4>3
      <4>4. CASE i < k
        <5>1. End(list[i]) <= list[k].seq /\ list[k].seq < End(list[k])
          BY <4>1, <4>4, ChainOrder
        <5> QED
          BY <1>1, <2>6, <4>1, <4>2, <5>1
      <4> QED
        BY <1>1, <4>3, <4>4
    <3>2. i - k \in 1 .. Len(new) /\ k + (i - k) = i
      BY <1>1, <1>2, <3>1
    <3>3. new[i - k].seq = q
      BY <1>3, <3>2
    <3> QED
      BY <3>2, <3>3 DEF Begins
  <2> QED
    BY <1>2, <2>4, <2>5, <2>6 DEF new
<1> QED
  BY <1>1, <1>5, <1>6

\* The segments that are left when the bytes before a + n were acknowledged, if
\* a segment begins there.
Freed(list, c, z, nxt, new) ==
  /\ new \in Seq(Segment) /\ Chained(new, c, z) /\ Marked(new, nxt)
  /\ \A q \in Nat : q >= c /\ Begins(list, q) => Begins(new, q)

\* Freeing the segments that are acknowledged leaves the chain that begins at
\* the ack.
LEMMA FreeIs ==
  ASSUME NEW list \in Seq(Segment), NEW a \in Nat, NEW z \in Nat,
         NEW nxt \in Nat, Chained(list, a, z), Marked(list, nxt),
         NEW n \in Nat, a + n = z \/ Begins(list, a + n)
  PROVE  Freed(list, a + n, z, nxt, Free(list, n))
<1> DEFINE end == CHOOSE f : Lengths(f, list)
           S == {i \in DOMAIN end : end[i] <= n}
           rest(k) == SubSeq(list, k + 1, Len(list))
<1>1. Free(list, n) =
        IF end[Max(S)] = n THEN rest(Max(S))
        ELSE [rest(Max(S)) EXCEPT ![1].len = @ - (n - end[Max(S)])]
  BY Zenon DEF Free, Lengths
<1>2. Lengths(end, list)
  BY LengthsAre
<1> HIDE DEF end
<1>3. /\ DOMAIN end = 0 .. Len(list) /\ end[0] = 0
      /\ \A i \in 1 .. Len(list) : end[i] = End(list[i]) - a
  BY <1>2, LengthsAre
<1>4. /\ Len(list) \in Nat
      /\ \A i \in 1 .. Len(list) : End(list[i]) \in Nat /\ list[i].seq \in Nat
  BY SegmentsOf DEF End
<1>5. /\ Len(list) = 0 => a = z
      /\ Len(list) > 0 => End(list[Len(list)]) = z /\ list[1].seq = a
  BY <1>4 DEF Chained
<1>6. PICK k \in 0 .. Len(list) :
        end[k] = n /\ IF k = 0 THEN a + n = a ELSE a + n = End(list[k])
  <2>1. ASSUME NEW i \in 1 .. Len(list), End(list[i]) = a + n
        PROVE  end[i] = n
    BY <1>3, <1>4, <2>1
  <2>2. CASE a + n = z
    <3>1. CASE Len(list) = 0
      BY <1>3, <1>4, <1>5, <2>2, <3>1
    <3>2. CASE Len(list) > 0
      <4>1. /\ Len(list) \in 1 .. Len(list) /\ Len(list) # 0
            /\ Len(list) \in 0 .. Len(list)
        BY <1>4, <3>2
      <4> QED
        BY <1>5, <2>1, <2>2, <3>2, <4>1
    <3> QED
      BY <1>4, <3>1, <3>2
  <2>3. CASE Begins(list, a + n)
    <3> PICK j \in 1 .. Len(list) : list[j].seq = a + n
      BY <2>3 DEF Begins
    <3>1. CASE j = 1
      <4>1. n = 0 /\ 0 \in 0 .. Len(list)
        BY <1>4, <1>5, <3>1
      <4> QED
        BY <1>3, <4>1
    <3>2. CASE j # 1
      <4>1. /\ j - 1 \in 1 .. Len(list) /\ j - 1 < Len(list)
            /\ (j - 1) + 1 = j /\ j - 1 # 0 /\ j - 1 \in 0 .. Len(list)
        BY <1>4, <3>2
      <4>2. End(list[j - 1]) = a + n
        BY <4>1 DEF Chained
      <4> QED
        BY <2>1, <4>1, <4>2
    <3> QED
      BY <3>1, <3>2
  <2> QED
    BY <2>2, <2>3
<1>7. S \subseteq Int /\ k \in S
  BY <1>3, <1>6
<1>8. ASSUME NEW i \in S
      PROVE  i <= k
  <2>1. i \in 0 .. Len(list) /\ end[i] <= n
    BY <1>3
  <2>2. SUFFICES ASSUME k < i PROVE FALSE
    BY <1>4, <2>1
  <2>3. i \in 1 .. Len(list) /\ k \in Nat
    BY <1>4, <2>1, <2>2
  <2>4. End(list[i]) - a <= n /\ End(list[i]) \in Nat
    BY <1>3, <1>4, <2>1, <2>3
  <2>5. list[i].seq < End(list[i]) /\ a <= list[i].seq /\ list[i].seq \in Nat
    BY <1>4, <2>3, ChainOrder
  <2>6. a + n <= list[i].seq
    <3>1. CASE k = 0
      BY <1>6, <2>5, <3>1
    <3>2. CASE k # 0
      <4>1. k \in 1 .. Len(list)
        BY <1>4, <3>2
      <4>2. End(list[k]) <= list[i].seq
        BY <2>2, <2>3, <4>1, ChainOrder
      <4> QED
        BY <1>6, <3>2, <4>2
    <3> QED
      BY <3>1, <3>2
  <2> QED
    BY <2>4, <2>5, <2>6
<1> HIDE DEF S
<1>9. Max(S) = k
  BY <1>7, <1>8, MaxIs
<1>10. Free(list, n) = rest(k)
  BY <1>1, <1>6, <1>9, Zenon
<1>11. IF k = 0 THEN a + n = a ELSE a + n = End(list[k])
  BY <1>6
<1>12. a + n \in Nat
  OBVIOUS
<1>13. Freed(list, a + n, z, nxt, rest(k))
  BY <1>11, <1>12, DropFirst DEF Freed
<1> QED
  BY <1>10, <1>13

\* t is s but for what sending changes.
SameEnd(s, t) ==
  /\ t.state = s.state /\ t.shutdown = s.shutdown /\ t.aborted = s.aborted
  /\ t.rcv = s.rcv /\ t.rwnd = s.rwnd /\ t.rbuf = s.rbuf
  /\ t.ahead = s.ahead /\ t.rlist = s.rlist

\* The members of a datagram.
LEMMA DatagramFields ==
  ASSUME NEW p \in Datagram
  PROVE  /\ p.seq \in Nat /\ p.ack \in Nat /\ p.wnd \in Nat /\ p.ctl \in BOOLEAN
         /\ p.data \in Seq(Nat) /\ Len(p.data) \in Nat /\ DataEnd(p) \in Nat
         /\ (p.data = <<>> <=> Len(p.data) = 0)
<1>1. /\ p.seq \in Nat /\ p.ack \in Nat /\ p.wnd \in Nat /\ p.ctl \in BOOLEAN
      /\ p.data \in Seq(Nat)
  BY DEF Datagram
<1>2. Len(p.data) \in Nat
  BY <1>1
<1>3. DataEnd(p) \in Nat
  BY <1>1, <1>2 DEF DataEnd
<1>4. p.data = <<>> <=> Len(p.data) = 0
  BY <1>1
<1> QED
  BY <1>1, <1>2, <1>3, <1>4

\* What the ack of a datagram does to an end.
AckOf(s, p, t) ==
  /\ SameEnd(s, t) /\ Total(t) = Total(s) /\ t.nxt = s.nxt
  /\ t.una = s.una \/ t.una = p.ack

\* An ack of something that was sent, however late it comes, keeps the end
\* sound: m_snd_una moves to it, or stays, and the window is one that was
\* promised.
LEMMA AckedSound ==
  ASSUME NEW A, NEW F, NEW s, Sound(s, A, F), NEW p \in Datagram,
         Known(s, p.ack), p.ack + p.wnd \in F
  PROVE  /\ Sound(Acked(s, p), A, F) /\ Grows(s, Acked(s, p))
         /\ AckOf(s, p, Acked(s, p))
<1>1. s \in Tcp /\ Sending(s) /\ Total(s) < SeqSpace /\ Outs(s, A)
      /\ s.una + s.swnd \in F /\ s.rcv \in A /\ s.rwnd <= Space(s)
      /\ s.nxt \in F
  BY DEF Sound
<1>2. /\ s.una \in Nat /\ s.nxt \in Nat /\ s.slist \in Seq(Segment)
      /\ s.sbuf \in Seq(Nat) /\ Len(s.sbuf) \in Nat
      /\ s.rcv \in Nat /\ s.rwnd \in Nat
  BY <1>1, TcpFields
<1>3. Total(s) \in Nat /\ Edge(s) \in Nat
  BY <1>2 DEF Total, Edge
<1>4. p.ack \in Nat /\ p.wnd \in Nat
  BY DatagramFields
<1>5. CASE Valuable(s, p)
  <2> DEFINE a == p.ack
             n == a - s.una
             new == Free(s.slist, n)
             buf == SubSeq(s.sbuf, n + 1, Len(s.sbuf))
             t == [s EXCEPT !.swnd = p.wnd, !.una = a, !.rto = a # s.nxt,
                            !.sbuf = buf, !.slist = new, !.probes = 0]
  <2>1. Acked(s, p) = t
    <3>1. p.ack # s.una
      BY <1>2, <1>4, <1>5 DEF Valuable
    <3> QED
      BY <1>5, <3>1 DEF Acked
  <2>2. a > s.una /\ a <= s.nxt
    BY <1>5 DEF Valuable
  <2>3. /\ Chained(s.slist, s.una, Total(s)) /\ Marked(s.slist, s.nxt)
        /\ s.nxt <= Total(s)
        /\ s.nxt = Total(s) \/ Begins(s.slist, s.nxt)
    BY <1>1 DEF Sending
  <2>4. a = Total(s) \/ Begins(s.slist, a)
    BY <1>2, <1>4, <2>2, <2>3 DEF Known
  <2>5. n \in Nat /\ s.una + n = a
    BY <1>2, <1>4, <2>2
  <2>6. a = s.una + n
    BY <2>5
  <2> HIDE DEF n
  <2>7. Freed(s.slist, s.una + n, Total(s), s.nxt, new)
    <3>1. s.una + n = Total(s) \/ Begins(s.slist, s.una + n)
      BY <2>4, <2>6
    <3> QED
      BY <1>2, <1>3, <2>3, <2>5, <3>1, FreeIs
  <2>8. Freed(s.slist, a, Total(s), s.nxt, new)
    BY <2>6, <2>7
  <2> HIDE DEF new
  <2>9. /\ new \in Seq(Segment) /\ Chained(new, a, Total(s))
        /\ Marked(new, s.nxt)
        /\ \A q \in Nat : q >= a /\ Begins(s.slist, q) => Begins(new, q)
    BY <2>8, Zenon DEF Freed
  <2>10. n <= Len(s.sbuf)
    <3>1. s.una + n <= s.una + Len(s.sbuf)
      <4>1. a <= Total(s)
        BY <1>2, <1>3, <1>4, <2>2, <2>3
      <4> QED
        BY <2>6, <4>1 DEF Total
    <3> QED
      BY <1>2, <2>5, <3>1
  <2>11. /\ buf \in Seq(Nat) /\ Len(buf) = Len(s.sbuf) - n
         /\ \A i \in 1 .. Len(s.sbuf) - n : buf[i] = s.sbuf[n + i]
    <3> PICK b \in Nat : b = Len(s.sbuf)
      BY <1>2
    <3>1. ASSUME NEW j \in n + 1 .. b
          PROVE  s.sbuf[j] \in Nat
      <4>1. j \in 1 .. b
        BY <2>5
      <4> QED
        BY <1>2, <4>1, ElementOfSeq
    <3>2. /\ SubSeq(s.sbuf, n + 1, b) \in Seq(Nat)
          /\ Len(SubSeq(s.sbuf, n + 1, b)) =
               IF n + 1 <= b THEN b - (n + 1) + 1 ELSE 0
          /\ \A j \in 1 .. b - (n + 1) + 1 :
               SubSeq(s.sbuf, n + 1, b)[j] = s.sbuf[(n + 1) + j - 1]
      BY <2>5, <3>1, SubSeqProperties, n + 1 \in Int, b \in Int, SMTT(30)
    <3> HIDE DEF buf
    <3>3. /\ buf \in Seq(Nat)
          /\ Len(buf) = IF n + 1 <= b THEN b - (n + 1) + 1 ELSE 0
          /\ \A j \in 1 .. b - (n + 1) + 1 : buf[j] = s.sbuf[(n + 1) + j - 1]
      BY <3>2 DEF buf
    <3>4. b - (n + 1) + 1 = b - n /\ (~(n + 1 <= b) => b - n = 0)
      BY <2>5, <2>10
    <3>5. \A j \in 1 .. b - n : (n + 1) + j - 1 = n + j
      BY <2>5
    <3> QED
      BY <3>3, <3>4, <3>5
  <2> HIDE DEF buf
  <2>12. t \in Tcp
    BY <1>1, <1>4, <2>9, <2>11 DEF Tcp
  <2>13. /\ SameEnd(s, t) /\ t.una = a /\ t.swnd = p.wnd /\ t.nxt = s.nxt
         /\ t.sbuf = buf /\ t.slist = new /\ t.out = s.out
         /\ t.rto <=> a # s.nxt
    BY <1>1 DEF Tcp, SameEnd
  <2> HIDE DEF t
  <2>14. t.rcv = s.rcv /\ t.rwnd = s.rwnd /\ t.rbuf = s.rbuf
    BY <2>13 DEF SameEnd
  <2>15. Total(t) = Total(s)
    <3>1. (s.una + n) + (Len(s.sbuf) - n) = s.una + Len(s.sbuf)
      BY <1>2, <2>5
    <3> QED
      BY <2>6, <2>11, <2>13, <3>1 DEF Total
  <2>16. Edge(t) = Edge(s) /\ Space(t) = Space(s)
    BY <2>14 DEF Edge, Space
  <2>17. ASSUME NEW q \in Nat, Known(s, q)
         PROVE  Known(t, q)
    <3>1. q <= t.nxt
      BY <2>13, <2>17 DEF Known
    <3>2. CASE q < a
      BY <2>13, <3>1, <3>2 DEF Known
    <3>3. CASE q = s.nxt
      BY <2>13, <3>1, <3>3 DEF Known
    <3>4. CASE q >= a /\ Begins(s.slist, q)
      BY <2>9, <2>13, <3>1, <3>4 DEF Known
    <3> QED
      BY <1>2, <1>4, <2>2, <2>17, <3>2, <3>3, <3>4 DEF Known
  <2>18. Grows(s, t)
    BY <1>2, <1>3, <2>14, <2>16, <2>17 DEF Grows
  <2>19. ASSUME NEW i \in 1 .. Len(buf)
         PROVE  buf[i] = a + i - 1
    <3> PICK b \in Nat : b = Len(s.sbuf)
      BY <1>2
    <3>1. i \in 1 .. b - n /\ n <= b
      BY <2>10, <2>11
    <3>2. n + i \in 1 .. b
      BY <2>5, <3>1
    <3>3. s.sbuf[n + i] = s.una + (n + i) - 1
      BY <1>1, <3>2 DEF Sending
    <3>4. PICK x \in Nat : x = s.una
      BY <1>2
    <3>5. x + (n + i) - 1 = (x + n) + i - 1
      BY <2>5, <3>1
    <3> QED
      BY <2>6, <2>11, <3>1, <3>3, <3>4, <3>5
  <2>20. Sending(t)
    <3>1. Len(t.sbuf) <= SndBuf
      <4> PICK b \in Nat : b = Len(s.sbuf)
        BY <1>2
      <4>1. Len(t.sbuf) = b - n /\ b <= SndBuf /\ SndBuf \in Nat
        BY <1>1, <2>11, <2>13, Constants DEF Sending
      <4> QED
        BY <2>5, <4>1
    <3>2. Chained(t.slist, t.una, Total(t)) /\ Marked(t.slist, t.nxt)
      BY <2>9, <2>13, <2>15
    <3>3. t.una <= t.nxt /\ t.nxt <= Total(t)
      BY <2>2, <2>3, <2>13, <2>15
    <3>4. t.nxt = Total(t) \/ Begins(t.slist, t.nxt)
      BY <1>2, <1>4, <2>2, <2>3, <2>9, <2>13, <2>15
    <3>5. t.rto <=> t.una < t.nxt
      BY <1>2, <1>4, <2>2, <2>13
    <3>6. \A i \in 1 .. Len(t.sbuf) : t.sbuf[i] = t.una + i - 1
      BY <2>13, <2>19
    <3> QED
      BY <3>1, <3>2, <3>3, <3>4, <3>5, <3>6 DEF Sending
  <2>21. Outs(t, A)
    BY <1>1, <2>12, <2>13, <2>18, OutsStay DEF Outs
  <2>22. t.una + t.swnd \in F
    BY <2>13
  <2>23. Sound(t, A, F)
    BY <1>1, <2>12, <2>13, <2>14, <2>15, <2>16, <2>20, <2>21, <2>22 DEF Sound
  <2>24. AckOf(s, p, t)
    BY <2>13, <2>15 DEF AckOf
  <2> QED
    BY <2>1, <2>18, <2>23, <2>24
<1>6. CASE ~Valuable(s, p) /\ p.ack = s.una
  <2>1. PICK t : t = [s EXCEPT !.swnd = p.wnd]
    OBVIOUS
  <2>2. Acked(s, p) = t
    BY <1>6, <2>1 DEF Acked
  <2>3. /\ t \in Tcp /\ SameEnd(s, t) /\ t.una = s.una /\ t.swnd = p.wnd
        /\ t.nxt = s.nxt /\ t.sbuf = s.sbuf /\ t.slist = s.slist
        /\ t.rto = s.rto /\ t.out = s.out
    BY <1>1, <1>4, <2>1 DEF Tcp, SameEnd
  <2>4. t.rcv = s.rcv /\ t.rwnd = s.rwnd /\ t.rbuf = s.rbuf
    BY <2>3 DEF SameEnd
  <2>5. Total(t) = Total(s) /\ Edge(t) = Edge(s) /\ Space(t) = Space(s)
    BY <2>3, <2>4 DEF Total, Edge, Space
  <2>6. Grows(s, t)
    BY <1>2, <1>3, <2>3, <2>4, <2>5 DEF Grows, Known
  <2>7. Sending(t)
    BY <1>1, <2>3, <2>5 DEF Sending
  <2>8. Outs(t, A)
    BY <1>1, <2>3, <2>6, OutsStay DEF Outs
  <2>9. Sound(t, A, F)
    BY <1>1, <1>6, <2>3, <2>4, <2>5, <2>7, <2>8 DEF Sound
  <2>10. AckOf(s, p, t)
    BY <2>3, <2>5 DEF AckOf
  <2> QED
    BY <2>2, <2>6, <2>9, <2>10
<1>7. CASE ~Valuable(s, p) /\ p.ack # s.una
  <2>1. Acked(s, p) = s
    BY <1>7 DEF Acked
  <2>2. SameStream(s, s) /\ AckOf(s, p, s)
    BY DEF SameStream, AckOf, SameEnd
  <2> QED
    BY <1>1, <2>1, <2>2, SameSound
<1> QED
  BY <1>5, <1>6, <1>7

\* The first segment is transmitted again, or the end gives up.
GivesUp(s, t) ==
  \/ t.state = s.state /\ t.aborted = s.aborted
  \/ t.state = "CLOSED" /\ t.aborted

\* Giving up changes nothing but the state.
LEMMA ClosedownSound ==
  ASSUME NEW A, NEW F, NEW s, Sound(s, A, F)
  PROVE  LET t == closedown(s)
         IN  /\ Sound(t, A, F) /\ Grows(s, t) /\ t.una = s.una
             /\ t.sbuf = s.sbuf /\ t.rcv = s.rcv /\ t.rwnd = s.rwnd
             /\ t.rbuf = s.rbuf /\ t.ahead = s.ahead /\ t.rlist = s.rlist
             /\ t.shutdown = s.shutdown /\ t.state = "CLOSED" /\ t.aborted
<1> DEFINE t == closedown(s)
<1>1. s \in Tcp
  BY DEF Sound
<1>2. /\ t \in Tcp /\ SameStream(s, t) /\ t.una = s.una
      /\ t.sbuf = s.sbuf /\ t.rcv = s.rcv /\ t.rwnd = s.rwnd
      /\ t.rbuf = s.rbuf /\ t.ahead = s.ahead /\ t.rlist = s.rlist
      /\ t.shutdown = s.shutdown /\ t.state = "CLOSED" /\ t.aborted
  BY <1>1 DEF closedown, Tcp, SameStream
<1> HIDE DEF t
<1>3. Sound(t, A, F) /\ Grows(s, t)
  BY <1>2, SameSound
<1> QED
  BY <1>2, <1>3 DEF t

\* t is s, perhaps closed down, after it transmitted something.
Sends(s, t) ==
  /\ t.una = s.una /\ t.sbuf = s.sbuf /\ t.rcv = s.rcv /\ t.rwnd = s.rwnd
  /\ t.rbuf = s.rbuf /\ t.ahead = s.ahead /\ t.rlist = s.rlist
  /\ t.shutdown = s.shutdown /\ GivesUp(s, t)

\* Retransmitting the first segment, or giving up, keeps the end sound.
LEMMA RetransmitSound ==
  ASSUME NEW A, NEW F, Down(F), path \in Paths, NEW s, Sound(s, A, F),
         s.una < s.nxt, NEW taken \in BOOLEAN, NEW t, t = Retransmit(s, taken)
  PROVE  Sound(t, A, F) /\ Grows(s, t) /\ Sends(s, t)
<1>1. CASE Exhausted(s, 1) \/ ~taken \/ path = 0
  <2>1. t = closedown(s)
    BY <1>1 DEF Retransmit
  <2> QED
    BY <2>1, ClosedownSound DEF Sends, GivesUp
<1>2. CASE ~(Exhausted(s, 1) \/ ~taken \/ path = 0)
  <2>0. path \in Mss
    BY <1>2 DEF Paths
  <2>1. t = transmit(s, 1)
    BY <1>2 DEF Retransmit
  <2>2. /\ s \in Tcp /\ s.una \in Nat /\ s.nxt \in Nat /\ Total(s) \in Nat
        /\ Chained(s.slist, s.una, Total(s)) /\ s.nxt <= Total(s)
        /\ s.slist \in Seq(Segment) /\ Len(s.slist) \in Nat
    BY TcpFields DEF Sound, Sending, Total
  <2>3. s.slist # <<>> /\ s.slist[1].seq = s.una
    BY <2>2 DEF Chained
  <2>4. 1 \in 1 .. Len(s.slist) /\ s.slist[1].seq <= s.nxt
        /\ s.slist[1].seq # s.nxt
    BY <2>2, <2>3
  <2>5. /\ Sound(transmit(s, 1), A, F) /\ Alike(s, transmit(s, 1))
        /\ Grows(s, transmit(s, 1))
    BY <2>0, <2>4, TransmitSound
  <2> QED
    BY <2>1, <2>5 DEF Sends, GivesUp, Alike
<1> QED
  BY <1>1, <1>2

-----------------------------------------------------------------------------
(* The state of the connection.                                            *)

\* The bytes that were queued, the CONNECT counted, are the w the user wrote.
Stated(s, w) ==
  /\ s.state = "LISTEN" => Total(s) = 0 /\ w = 0
  /\ s.state \in {"SYN_SENT", "SYN_RECEIVED", "ESTABLISHED"} =>
       Total(s) = w + 1
  /\ Total(s) <= w + 1

\* t has received what s has.
SameGot(s, t) ==
  /\ t.rcv = s.rcv /\ t.rwnd = s.rwnd /\ t.rbuf = s.rbuf
  /\ t.ahead = s.ahead /\ t.rlist = s.rlist /\ t.shutdown = s.shutdown

\* What was received stays the same in two steps if it does in each.
LEMMA SameGotOn ==
  ASSUME NEW s, NEW t, NEW u, SameGot(s, t), SameGot(t, u)
  PROVE  SameGot(s, u)
BY DEF SameGot

\* t is s after its CONNECT was queued.
Greets(s, t, state) ==
  /\ Grows(s, t) /\ SameGot(s, t)
  /\ t.una = s.una /\ t.nxt = s.nxt /\ t.state = state
  /\ t.aborted = s.aborted /\ Total(t) = 1

\* Queueing the CONNECT keeps an end that has queued nothing sound.
LEMMA GreetSound ==
  ASSUME NEW A, NEW F, 1 \in F, NEW s, Sound(s, A, F), 1 < SeqSpace,
         Total(s) = 0, NEW state \in {"SYN_SENT", "SYN_RECEIVED"}
  PROVE  /\ Sound(queueConnectMessage([s EXCEPT !.state = state]), A, F)
         /\ Greets(s, queueConnectMessage([s EXCEPT !.state = state]), state)
<1>1. s \in Tcp /\ Sending(s) /\ Total(s) < SeqSpace /\ Outs(s, A)
      /\ s.rcv \in A /\ s.rwnd <= Space(s) /\ s.nxt \in F
  BY DEF Sound
<1>2. /\ s.una \in Nat /\ Len(s.sbuf) \in Nat /\ s.rcv \in Nat
      /\ s.rwnd \in Nat /\ Edge(s) \in Nat
  BY <1>1, TcpFields DEF Edge
<1>3. s.una = 0 /\ Len(s.sbuf) = 0
  BY <1>2 DEF Total
<1>4. PICK u : u = [[s EXCEPT !.state = state] EXCEPT !.swnd = 1]
  OBVIOUS
<1>5. /\ u \in Tcp /\ SameGot(s, u) /\ u.una = s.una /\ u.nxt = s.nxt
      /\ u.swnd = 1 /\ u.slist = s.slist /\ u.sbuf = s.sbuf /\ u.rto = s.rto
      /\ u.out = s.out /\ u.state = state /\ u.aborted = s.aborted
  BY <1>1, <1>4, ZenonT(60) DEF Tcp, SameGot
<1>6. u.rcv = s.rcv /\ u.rwnd = s.rwnd /\ u.rbuf = s.rbuf
  BY <1>5 DEF SameGot
<1>7. Total(u) = Total(s) /\ Edge(u) = Edge(s) /\ Space(u) = Space(s)
  BY <1>5, <1>6 DEF Total, Edge, Space
<1>8. Grows(s, u)
  BY <1>2, <1>5, <1>6, <1>7 DEF Grows, Known
<1>9. Sending(u)
  BY <1>1, <1>5, <1>7 DEF Sending
<1>10. Outs(u, A)
  BY <1>1, <1>5, <1>8, OutsStay DEF Outs
<1>11. u.una + u.swnd \in F
  BY <1>3, <1>5
<1>12. Sound(u, A, F)
  BY <1>1, <1>5, <1>6, <1>7, <1>9, <1>10, <1>11 DEF Sound
<1>13. /\ <<0>> \in Seq(Nat) /\ Len(<<0>>) = 1 /\ <<0>>[1] = 0
       /\ TRUE \in BOOLEAN
  OBVIOUS
<1>14. Continues(u, <<0>>, TRUE)
  BY <1>7, <1>13 DEF Continues
<1>15. Len(u.sbuf) < SndBuf /\ Len(<<0>>) > 0
  BY <1>3, <1>5, <1>13, Constants
<1>16. Total(u) + Len(<<0>>) < SeqSpace
  BY <1>7, <1>13
<1> DEFINE t == queue(u, <<0>>, TRUE)
<1>17. queueConnectMessage([s EXCEPT !.state = state]) = t
  BY <1>4 DEF queueConnectMessage
<1>18. /\ Sound(t, A, F) /\ Grows(u, t) /\ Otherwise(u, t)
       /\ Total(t) = Total(u) + 1
  <2>1. PICK m \in 1 .. Len(<<0>>) : QueueOf(u, t, m) /\ Sound(t, A, F)
    BY <1>12, <1>13, <1>14, <1>15, <1>16, QueueSound
  <2> HIDE DEF t
  <2>2. m = 1
    BY <1>13, <2>1
  <2> QED
    BY <2>1, <2>2 DEF QueueOf
<1> HIDE DEF t
<1>19. Total(t) = 1
  BY <1>7, <1>18
<1>20. t \in Tcp
  BY <1>18 DEF Sound
<1>21. Grows(s, t)
  BY <1>1, <1>5, <1>8, <1>18, <1>20, GrowsOn
<1>22. /\ SameGot(u, t) /\ t.una = u.una /\ t.nxt = u.nxt /\ t.state = u.state
       /\ t.aborted = u.aborted
  BY <1>18 DEF Otherwise, SameGot
<1>23. SameGot(s, t)
  BY <1>5, <1>22, SameGotOn
<1>24. Greets(s, t, state)
  BY <1>5, <1>19, <1>21, <1>22, <1>23 DEF Greets
<1> QED
  BY <1>17, <1>18, <1>24

\* What a datagram's control byte does to an end.
Hears(s, p, t, w) ==
  /\ SameGot(s, t) /\ Stated(t, w) /\ t.una = s.una /\ t.nxt = s.nxt
  /\ t.aborted = s.aborted
  /\ t.state # s.state =>
       /\ p.ctl /\ s.state \in {"LISTEN", "SYN_SENT"}
       /\ t.state \in {"SYN_RECEIVED", "ESTABLISHED"}
  /\ Total(t) # Total(s) => p.ctl /\ s.state = "LISTEN"

\* So does the end of the handshake,
LEMMA EstablishSound ==
  ASSUME NEW A, NEW F, NEW s, Sound(s, A, F)
  PROVE  LET t == Establish(s)
         IN  /\ Sound(t, A, F) /\ Grows(s, t) /\ SameGot(s, t)
             /\ t.una = s.una /\ t.nxt = s.nxt /\ t.state = "ESTABLISHED"
             /\ t.aborted = s.aborted /\ t.sbuf = s.sbuf
<1> DEFINE t == Establish(s)
<1>1. s \in Tcp
  BY DEF Sound
<1>2. /\ t \in Tcp /\ SameStream(s, t) /\ SameGot(s, t) /\ t.una = s.una
      /\ t.nxt = s.nxt /\ t.state = "ESTABLISHED" /\ t.aborted = s.aborted
      /\ t.sbuf = s.sbuf
  BY <1>1 DEF Establish, adjustMTU, Tcp, SameStream, SameGot
<1> HIDE DEF t
<1>3. Sound(t, A, F) /\ Grows(s, t)
  BY <1>2, SameSound
<1> QED
  BY <1>2, <1>3 DEF t

\* and so does a CONNECT that arrives, in whatever state.
LEMMA ControlSound ==
  ASSUME NEW A, NEW F, 1 \in F, NEW s, Sound(s, A, F), NEW w \in Nat,
         w + 1 < SeqSpace, Stated(s, w), NEW p \in Datagram
  PROVE  /\ Sound(Control(s, p), A, F) /\ Grows(s, Control(s, p))
         /\ Hears(s, p, Control(s, p), w)
<1>0. s \in Tcp
  BY DEF Sound
<1>1. CASE p.ctl /\ s.state = "LISTEN"
  <2> DEFINE t == queueConnectMessage([s EXCEPT !.state = "SYN_RECEIVED"])
  <2>1. Control(s, p) = t
    BY <1>1 DEF Control
  <2>2. Total(s) = 0 /\ w = 0 /\ 1 < SeqSpace
    BY <1>1 DEF Stated
  <2>3. "SYN_RECEIVED" \in {"SYN_SENT", "SYN_RECEIVED"}
    OBVIOUS
  <2>31. Sound(t, A, F) /\ Greets(s, t, "SYN_RECEIVED")
    BY <2>2, <2>3, GreetSound
  <2> HIDE DEF t
  <2>4. /\ Sound(t, A, F) /\ Grows(s, t) /\ SameGot(s, t)
        /\ t.una = s.una /\ t.nxt = s.nxt /\ t.state = "SYN_RECEIVED"
        /\ t.aborted = s.aborted /\ Total(t) = 1
    BY <2>31 DEF Greets
  <2>5. Stated(t, w)
    BY <2>2, <2>4 DEF Stated
  <2> QED
    BY <1>1, <2>1, <2>4, <2>5 DEF Hears
<1>2. CASE p.ctl /\ s.state = "SYN_SENT"
  <2> DEFINE t == Establish(s)
  <2>1. Control(s, p) = t
    BY <1>2 DEF Control
  <2>2. /\ Sound(t, A, F) /\ Grows(s, t) /\ SameGot(s, t)
        /\ t.una = s.una /\ t.nxt = s.nxt /\ t.state = "ESTABLISHED"
        /\ t.aborted = s.aborted /\ t.sbuf = s.sbuf
    BY EstablishSound
  <2> HIDE DEF t
  <2>3. Total(t) = Total(s)
    BY <2>2 DEF Total
  <2>4. Stated(t, w)
    BY <1>2, <2>2, <2>3 DEF Stated
  <2> QED
    BY <1>2, <2>1, <2>2, <2>3, <2>4 DEF Hears
<1>3. CASE ~(p.ctl /\ s.state \in {"LISTEN", "SYN_SENT"})
  <2>1. Control(s, p) = s
    BY <1>3 DEF Control
  <2>2. SameStream(s, s) /\ SameGot(s, s)
    BY DEF SameStream, SameGot
  <2>3. Grows(s, s)
    BY <1>0, <2>2, SameSound
  <2> QED
    BY <2>1, <2>2, <2>3 DEF Hears
<1> QED
  BY <1>1, <1>2, <1>3

\* t is s but for its state, and for what nobody else sees.
Marks(s, t, w) ==
  /\ SameGot(s, t) /\ t.una = s.una /\ t.sbuf = s.sbuf /\ t.aborted = s.aborted
  /\ Stated(s, w) => Stated(t, w)

\* Completing the handshake and telling the writer keep an end sound.
LEMMA CompleteSound ==
  ASSUME NEW A, NEW F, NEW s, Sound(s, A, F), NEW p, NEW w
  PROVE  LET t == NotifyWriteable(Complete(s, p))
         IN  /\ Sound(t, A, F) /\ Grows(s, t) /\ Marks(s, t, w)
             /\ t.state = s.state \/
                (s.state = "SYN_RECEIVED" /\ t.state = "ESTABLISHED")
<1> DEFINE u == Complete(s, p)
           t == NotifyWriteable(u)
<1>1. s \in Tcp
  BY DEF Sound
<1>2. /\ Sound(u, A, F) /\ Grows(s, u) /\ SameGot(s, u) /\ u.una = s.una
      /\ u.aborted = s.aborted /\ u.sbuf = s.sbuf
      /\ u.state = s.state \/
         (s.state = "SYN_RECEIVED" /\ u.state = "ESTABLISHED")
  <2>1. CASE s.state = "SYN_RECEIVED" /\ ~p.ctl
    <3>1. u = Establish(s)
      BY <2>1 DEF Complete
    <3> QED
      BY <2>1, <3>1, EstablishSound
  <2>2. CASE ~(s.state = "SYN_RECEIVED" /\ ~p.ctl)
    <3>1. u = s
      BY <2>2 DEF Complete
    <3>2. SameStream(s, s) /\ SameGot(s, s)
      BY DEF SameStream, SameGot
    <3>3. Grows(s, s)
      BY <1>1, <3>2, SameSound
    <3> HIDE DEF u
    <3> QED
      BY <3>1, <3>2, <3>3
  <2> QED
    BY <2>1, <2>2
<1> HIDE DEF u
<1>3. u \in Tcp
  BY <1>2 DEF Sound
<1>4. /\ t \in Tcp /\ SameStream(u, t) /\ SameGot(u, t) /\ t.una = u.una
      /\ t.aborted = u.aborted /\ t.sbuf = u.sbuf /\ t.state = u.state
  <2>1. CASE t = [u EXCEPT !.writeEnable = FALSE]
    BY <1>3, <2>1, ZenonT(60) DEF Tcp, SameStream, SameGot
  <2>2. CASE t = u
    <3> HIDE DEF t
    <3> QED
      BY <1>3, <2>2 DEF SameStream, SameGot
  <2> QED
    BY <2>1, <2>2 DEF NotifyWriteable
<1> HIDE DEF t
<1>5. Sound(t, A, F) /\ Grows(u, t)
  BY <1>2, <1>4, SameSound
<1>6. Grows(s, t) /\ SameGot(s, t)
  BY <1>1, <1>2, <1>3, <1>4, <1>5, GrowsOn, SameGotOn
<1>7. Total(t) = Total(s)
  BY <1>2, <1>4 DEF Total
<1>8. Stated(s, w) => Stated(t, w)
  BY <1>2, <1>4, <1>7 DEF Stated
<1> QED
  BY <1>2, <1>4, <1>5, <1>6, <1>8 DEF t, u, Marks

-----------------------------------------------------------------------------
(* Receiving bytes.                                                        *)

\* A set of natural numbers with a bound has a greatest element.
LEMMA GreatestElement ==
  ASSUME NEW T, T \subseteq Nat, T # {}, NEW n \in Nat, \A y \in T : y <= n
  PROVE  \E x \in T : \A y \in T : y <= x
<1> DEFINE S == {n - y : y \in T}
<1>1. S \subseteq Nat /\ S # {}
  <2>1. \A y \in T : n - y \in Nat
    BY DEF S
  <2> QED
    BY <2>1
<1> HIDE DEF S
<1>2. PICK x \in S : \A y \in S : ~(y < x)
  BY <1>1, LeastElement
<1>3. PICK z \in T : x = n - z
  BY DEF S
<1>4. ASSUME NEW y \in T
      PROVE  y <= z
  <2>1. n - y \in S
    BY DEF S
  <2>2. ~(n - y < n - z)
    BY <1>2, <1>3, <2>1
  <2>3. y \in Nat /\ z \in Nat
    OBVIOUS
  <2> QED
    BY <2>2, <2>3
<1> QED
  BY <1>4

\* t sends as s does.
SameSend(s, t) ==
  /\ t.una = s.una /\ t.nxt = s.nxt /\ t.swnd = s.swnd /\ t.slist = s.slist
  /\ t.sbuf = s.sbuf /\ t.rto = s.rto /\ t.out = s.out
  /\ t.state = s.state /\ t.shutdown = s.shutdown /\ t.aborted = s.aborted

\* What was sent stays the same in two steps if it does in each.
LEMMA SameSendOn ==
  ASSUME NEW s, NEW t, NEW u, SameSend(s, t), SameSend(t, u)
  PROVE  SameSend(s, u)
BY DEF SameSend

\* An end that only receives stays sound if its window still fits its buffer
\* and never moves back.
LEMMA ReceiveSound ==
  ASSUME NEW A, NEW F, NEW s, Sound(s, A, F), NEW t \in Tcp, SameSend(s, t),
         t.rcv \in A, s.rcv <= t.rcv, Edge(s) <= Edge(t), t.rwnd <= Space(t)
  PROVE  Sound(t, A, F) /\ Grows(s, t)
<1>1. s \in Tcp /\ Sending(s) /\ Total(s) < SeqSpace /\ Outs(s, A)
      /\ s.una + s.swnd \in F /\ s.nxt \in F
  BY DEF Sound
<1>2. Total(t) = Total(s)
  BY DEF Total, SameSend
<1>3. Grows(s, t)
  BY DEF Grows, Known, SameSend
<1>4. Sending(t)
  BY <1>1, <1>2 DEF Sending, SameSend
<1>5. Outs(t, A)
  BY <1>1, <1>3, OutsStay DEF SameSend, Outs
<1> QED
  BY <1>1, <1>2, <1>3, <1>4, <1>5 DEF Sound, SameSend

\* t is s after the first n bytes that are ahead were appended to its buffer.
Consumed(s, n, t) ==
  /\ t \in Tcp /\ SameSend(s, t) /\ t.rlist = s.rlist
  /\ t.rcv = s.rcv + n /\ t.rwnd = s.rwnd - n
  /\ Len(t.rbuf) = Len(s.rbuf) + n
  /\ \A i \in 1 .. Len(s.rbuf) : t.rbuf[i] = s.rbuf[i]
  /\ \A i \in 1 .. n : t.rbuf[Len(s.rbuf) + i] = s.ahead[i - 1]
  /\ \A i \in 0 .. RcvBuf - 1 : i + n < RcvBuf => t.ahead[i] = s.ahead[i + n]
  /\ Edge(t) = Edge(s) /\ t.rwnd <= Space(t)

\* ConsumeWriteBuffer moves the n bytes that are next to the readable ones, and
\* the window stays where it is.
LEMMA ConsumeIs ==
  ASSUME NEW s \in Tcp, NEW n \in Nat, n <= s.rwnd, s.rwnd <= Space(s),
         s.rcv + n < SeqSpace
  PROVE  Consumed(s, n, Consume(s, n))
<1> DEFINE d == [i \in 1 .. n |-> s.ahead[i - 1]]
           buf == s.rbuf \o d
           new == [i \in 0 .. RcvBuf - 1 |->
                     IF i + n < RcvBuf THEN s.ahead[i + n] ELSE Junk]
           t == [s EXCEPT !.rbuf = buf, !.ahead = new, !.rcv = s.rcv + n,
                          !.rwnd = s.rwnd - n]
<1>1. /\ s.rcv \in Nat /\ s.rwnd \in Nat /\ s.rbuf \in Seq(Int)
      /\ Len(s.rbuf) \in Nat /\ s.ahead \in [0 .. RcvBuf - 1 -> Int]
      /\ RcvBuf \in Nat /\ RcvBuf < SeqSpace /\ SeqSpace \in Nat
  BY TcpFields, Constants
<1>2. s.rwnd <= RcvBuf - Len(s.rbuf)
  BY DEF Space
<1>3. n <= RcvBuf /\ s.rwnd <= RcvBuf
  BY <1>1, <1>2
<1>4. s.rcv + n \in Nat /\ s.rwnd - n \in Nat /\ s.rwnd - n < SeqSpace
  BY <1>1, <1>3, SMTT(30)
<1>5. Wrap(s.rcv + n) = s.rcv + n /\ Wrap(s.rwnd - n) = s.rwnd - n
  BY <1>4, NoWrap
<1>6. Consume(s, n) = t
  <2>1. DOMAIN s.ahead = 0 .. RcvBuf - 1
    BY <1>1
  <2> QED
    BY <1>5, <2>1, Zenon DEF Consume
<1>7. d \in Seq(Int) /\ Len(d) = n
  <2>1. \A i \in 1 .. n : s.ahead[i - 1] \in Int
    <3>1. \A i \in 1 .. n : i - 1 \in 0 .. RcvBuf - 1
      BY <1>1, <1>3
    <3> QED
      BY <1>1, <3>1
  <2>2. d \in [1 .. n -> Int]
    BY <2>1
  <2> HIDE DEF d
  <2> QED
    BY <2>2
<1>8. \A i \in 1 .. n : d[i] = s.ahead[i - 1]
  OBVIOUS
<1> HIDE DEF d
<1>9. /\ buf \in Seq(Int) /\ Len(buf) = Len(s.rbuf) + n
      /\ \A i \in 1 .. Len(s.rbuf) + n :
           buf[i] = IF i <= Len(s.rbuf) THEN s.rbuf[i] ELSE d[i - Len(s.rbuf)]
  BY <1>1, <1>7, ConcatProperties
<1> HIDE DEF buf
<1>10. new \in [0 .. RcvBuf - 1 -> Int]
  <2>1. Junk \in Int
    BY DEF Junk
  <2>2. \A i \in 0 .. RcvBuf - 1 : i + n < RcvBuf => s.ahead[i + n] \in Int
    BY <1>1
  <2> QED
    BY <2>1, <2>2
<1>11. \A i \in 0 .. RcvBuf - 1 : i + n < RcvBuf => new[i] = s.ahead[i + n]
  OBVIOUS
<1> HIDE DEF new
<1>12. /\ t \in Tcp /\ SameSend(s, t) /\ t.rlist = s.rlist
       /\ t.rcv = s.rcv + n /\ t.rwnd = s.rwnd - n /\ t.rbuf = buf
       /\ t.ahead = new
  BY <1>4, <1>9, <1>10 DEF Tcp, SameSend
<1> HIDE DEF t
<1>13. Edge(t) = Edge(s)
  BY <1>1, <1>12 DEF Edge
<1>14. t.rwnd <= Space(t)
  BY <1>1, <1>2, <1>9, <1>12 DEF Space
<1>15. ASSUME NEW i \in 1 .. Len(s.rbuf)
       PROVE  buf[i] = s.rbuf[i]
  <2>1. PICK b \in Nat : b = Len(s.rbuf)
    BY <1>1
  <2>2. i \in 1 .. b + n /\ i <= b
    BY <2>1
  <2> QED
    BY <1>9, <2>1, <2>2
<1>16. ASSUME NEW i \in 1 .. n
       PROVE  buf[Len(s.rbuf) + i] = s.ahead[i - 1]
  <2>1. PICK b \in Nat : b = Len(s.rbuf)
    BY <1>1
  <2>2. /\ b + i \in 1 .. b + n /\ ~(b + i <= b) /\ (b + i) - b = i
    OBVIOUS
  <2> QED
    BY <1>8, <1>9, <2>1, <2>2
<1> QED
  BY <1>6, <1>9, <1>11, <1>12, <1>13, <1>14, <1>15, <1>16 DEF Consumed

\* What an end has received: v is what its peer's user wrote, b what its own
\* user has read.
Taking(s, A, v) ==
  /\ s.rcv <= v + 1 /\ IsFiniteSet(s.rlist)
  /\ \A x \in s.rlist : /\ x.seq > 0 /\ x.len > 0
                        /\ End(x) <= v + 1 /\ End(x) <= Edge(s) /\ End(x) \in A

Counts(s, b, v) ==
  /\ b + Len(s.rbuf) <= v
  /\ s.shutdown = "NONE" =>
       b + Len(s.rbuf) = IF s.rcv = 0 THEN 0 ELSE s.rcv - 1

\* The bytes in the buffer are the ones after b.
Numbered(s, b) == \A i \in 1 .. Len(s.rbuf) : s.rbuf[i] = b + i

\* The bytes of x that are still to come are ahead.
Holds(s, x) ==
  \A q \in x.seq .. End(x) - 1 : q >= s.rcv => s.ahead[q - s.rcv] = q

Filled(s, b) ==
  /\ Numbered(s, b)
  /\ s.rcv = 0 => s.rlist = {}
  /\ s.shutdown = "NONE" => \A x \in s.rlist : Holds(s, x)

Got(s, A, v, b, safe) ==
  Taking(s, A, v) /\ Counts(s, b, v) /\ (safe => Filled(s, b))

\* What an end has received does not depend on what it sends.
LEMMA SameGotKeeps ==
  ASSUME NEW A, NEW v, NEW b, NEW safe, NEW s, NEW t, SameGot(s, t),
         Got(s, A, v, b, safe)
  PROVE  Got(t, A, v, b, safe)
<1>1. Edge(t) = Edge(s)
  BY DEF SameGot, Edge
<1>2. Taking(t, A, v)
  BY <1>1 DEF SameGot, Got, Taking
<1>3. Counts(t, b, v)
  BY DEF SameGot, Got, Counts
<1>4. safe => Filled(t, b)
  BY DEF SameGot, Got, Filled, Holds, Numbered
<1> QED
  BY <1>2, <1>3, <1>4 DEF Got

\* The members of a segment that was saved.
LEMMA SavedFields ==
  ASSUME NEW x \in Saved
  PROVE  x.seq \in Nat /\ x.len \in Nat /\ End(x) \in Nat
         /\ End(x) = x.seq + x.len
BY DEF Saved, End

\* Consuming the bytes of x keeps what is ahead of the others.
LEMMA ConsumeHolds ==
  ASSUME NEW s \in Tcp, NEW n \in Nat, NEW t, Consumed(s, n, t),
         s.rwnd <= Space(s), NEW y \in Saved, End(y) <= Edge(s), Holds(s, y)
  PROVE  Holds(t, y)
<1> SUFFICES ASSUME NEW q \in y.seq .. End(y) - 1, q >= t.rcv
             PROVE  t.ahead[q - t.rcv] = q
  BY DEF Holds
<1>1. /\ s.rcv \in Nat /\ s.rwnd \in Nat /\ Len(s.rbuf) \in Nat /\ RcvBuf \in Nat
      /\ y.seq \in Nat /\ End(y) \in Nat
  BY TcpFields, Constants, SavedFields
<1>2. t.rcv = s.rcv + n
  BY DEF Consumed
<1>3. q \in Nat /\ q < End(y) /\ q >= s.rcv /\ q >= s.rcv + n
  BY <1>1, <1>2
<1>4. s.ahead[q - s.rcv] = q
  BY <1>3 DEF Holds
<1>5. s.rcv + s.rwnd >= End(y) /\ s.rwnd <= RcvBuf
  <2>1. s.rwnd <= RcvBuf - Len(s.rbuf)
    BY DEF Space
  <2>2. End(y) <= s.rcv + s.rwnd
    BY DEF Edge
  <2> QED
    BY <1>1, <2>1, <2>2
<1>6. PICK i \in Nat : i = q - t.rcv /\ i + n = q - s.rcv
  <2>1. q - (s.rcv + n) \in Nat /\ (q - (s.rcv + n)) + n = q - s.rcv
    BY <1>1, <1>3
  <2> QED
    BY <1>2, <2>1
<1>7. i + n < RcvBuf
  BY <1>1, <1>3, <1>5, <1>6, SMTT(30)
<1>8. i \in 0 .. RcvBuf - 1
  BY <1>1, <1>7
<1> QED
  BY <1>4, <1>6, <1>7, <1>8 DEF Consumed

\* Consumed bytes that a saved segment holds are the ones that follow.
LEMMA ConsumeFills ==
  ASSUME NEW s \in Tcp, NEW n \in Nat, NEW t, Consumed(s, n, t), NEW b \in Nat,
         s.rcv > 0, b + Len(s.rbuf) = s.rcv - 1,
         Numbered(s, b), NEW x \in Saved, Holds(s, x),
         n > 0 => x.seq <= s.rcv /\ End(x) = s.rcv + n
  PROVE  Numbered(t, b)
<1>1. /\ s.rcv \in Nat /\ Len(s.rbuf) \in Nat /\ x.seq \in Nat
      /\ End(x) \in Nat
  BY TcpFields, SavedFields
<1>2. /\ Len(t.rbuf) = Len(s.rbuf) + n
      /\ \A i \in 1 .. Len(s.rbuf) : t.rbuf[i] = s.rbuf[i]
      /\ \A i \in 1 .. n : t.rbuf[Len(s.rbuf) + i] = s.ahead[i - 1]
  BY DEF Consumed
<1> SUFFICES ASSUME NEW i \in 1 .. Len(t.rbuf)
             PROVE  t.rbuf[i] = b + i
  BY DEF Numbered
<1>3. CASE i <= Len(s.rbuf)
  <2>1. i \in 1 .. Len(s.rbuf)
    BY <1>1, <1>2, <1>3
  <2> QED
    BY <1>2, <2>1 DEF Numbered
<1>4. CASE ~(i <= Len(s.rbuf))
  <2>1. PICK k \in Nat : k = Len(s.rbuf)
    BY <1>1
  <2>2. i \in 1 .. k + n /\ ~(i <= k)
    BY <1>2, <1>4, <2>1
  <2>3. PICK j \in 1 .. n : i = k + j
    <3>1. i - k \in 1 .. n /\ i = k + (i - k)
      BY <2>2
    <3> QED
      BY <3>1
  <2>4. t.rbuf[i] = s.ahead[j - 1]
    BY <1>2, <2>1, <2>3
  <2>5. PICK q \in Nat : q = s.rcv + (j - 1)
    BY <1>1
  <2>6. /\ n > 0 /\ q \in x.seq .. End(x) - 1 /\ q >= s.rcv
        /\ q - s.rcv = j - 1
    BY <1>1, <2>5, SMTT(30)
  <2>7. s.ahead[j - 1] = q
    BY <2>6 DEF Holds
  <2>8. b + i = q
    <3>1. PICK r \in Nat : r = s.rcv
      BY <1>1
    <3>2. b + k = r - 1 /\ i = k + j /\ q = r + (j - 1) /\ j \in Nat
      BY <2>1, <2>3, <2>5, <3>1
    <3> QED
      BY <3>2
  <2> QED
    BY <2>4, <2>7, <2>8
<1> QED
  BY <1>3, <1>4

\* t is s after bytes that were saved became the next ones.
Recovered(s, A, F, v, b, safe, t) ==
  /\ Sound(t, A, F) /\ Grows(s, t) /\ SameSend(s, t)
  /\ Got(t, A, v, b, safe) /\ t.rcv > 0

\* One turn of the loop over m_rlist takes whole segments, and only bytes that
\* were received.
LEMMA RecoverTurnKeeps ==
  ASSUME NEW A, NEW F, NEW v \in Nat, NEW b \in Nat, NEW safe,
         v + 1 < SeqSpace, NEW s, Sound(s, A, F), Got(s, A, v, b, safe),
         s.shutdown = "NONE", s.rcv > 0
  PROVE  Recovered(s, A, F, v, b, safe, RecoverTurn(s))
<1> DEFINE now == {r \in s.rlist : r.seq <= s.rcv}
           S == {s.rcv} \cup {Wrap(r.seq + r.len) : r \in now}
<1>1. s \in Tcp /\ s.rwnd <= Space(s) /\ s.rcv \in A
  BY DEF Sound
<1>2. /\ s.rcv \in Nat /\ s.rwnd \in Nat /\ Len(s.rbuf) \in Nat
      /\ s.rlist \in SUBSET Saved /\ Edge(s) \in Nat
  BY <1>1, TcpFields DEF Edge
<1>3. /\ s.rcv <= v + 1 /\ IsFiniteSet(s.rlist)
      /\ b + Len(s.rbuf) = s.rcv - 1
      /\ \A x \in s.rlist : /\ x.seq > 0 /\ x.len > 0 /\ End(x) <= v + 1
                            /\ End(x) <= Edge(s) /\ End(x) \in A
  <2>1. Taking(s, A, v) /\ Counts(s, b, v)
    BY DEF Got
  <2>2. b + Len(s.rbuf) = IF s.rcv = 0 THEN 0 ELSE s.rcv - 1
    BY <2>1 DEF Counts
  <2>3. s.rcv # 0
    BY <1>2
  <2> QED
    BY <2>1, <2>2, <2>3 DEF Taking
<1>4. ASSUME NEW x \in s.rlist
      PROVE  x \in Saved /\ End(x) \in Nat /\ x.seq \in Nat
             /\ Wrap(x.seq + x.len) = End(x)
  <2>1. x \in Saved
    BY <1>2
  <2>2. End(x) \in Nat /\ End(x) = x.seq + x.len /\ End(x) <= v + 1
        /\ x.seq \in Nat
    BY <1>3, <2>1, SavedFields
  <2>3. End(x) < SeqSpace
    BY <2>2, Constants
  <2>4. Wrap(End(x)) = End(x)
    BY <2>2, <2>3, NoWrap
  <2> QED
    BY <2>1, <2>2, <2>4
<1>5. PICK m \in S : /\ \A y \in S : y <= m
                     /\ m \in Nat /\ m >= s.rcv /\ m <= v + 1 /\ m <= Edge(s)
                     /\ m \in A /\ Max(S) = m
                     /\ m > s.rcv => \E x \in now : End(x) = m
  <2>1. \A y \in S : y = s.rcv \/ \E x \in now : y = End(x)
    BY <1>4
  <2>2. \A y \in S : y \in Nat /\ y <= v + 1
    BY <1>2, <1>3, <1>4, <2>1
  <2>3. S \subseteq Nat /\ S # {} /\ s.rcv \in S
    BY <2>2
  <2> HIDE DEF S
  <2>4. v + 1 \in Nat
    OBVIOUS
  <2>5. PICK m \in S : \A y \in S : y <= m
    BY <2>2, <2>3, <2>4, GreatestElement
  <2>6. Max(S) = m
    <3>1. S \subseteq Int
      BY <2>3
    <3> QED
      BY <2>5, <3>1, MaxIs
  <2>7. m \in Nat /\ m >= s.rcv /\ m <= v + 1
    BY <1>2, <2>2, <2>3, <2>5
  <2>8. m <= Edge(s) /\ m \in A
    <3>1. s.rcv <= Edge(s)
      BY <1>2 DEF Edge
    <3> QED
      BY <1>1, <1>3, <2>1, <3>1
  <2>9. m > s.rcv => \E x \in now : End(x) = m
    BY <1>2, <2>1
  <2> QED
    BY <2>5, <2>6, <2>7, <2>8, <2>9
<1> HIDE DEF S
<1>6. PICK n \in Nat : n = m - s.rcv
  BY <1>2, <1>5
<1>7. s.rcv + n = m /\ n <= s.rwnd /\ s.rcv + n < SeqSpace
  <2>1. m <= s.rcv + s.rwnd
    BY <1>5 DEF Edge
  <2> QED
    BY <1>2, <1>5, <1>6, <2>1, Constants
<1> DEFINE u == Consume(s, n)
<1>8. Consumed(s, n, u)
  BY <1>1, <1>7, ConsumeIs
<1>9. RecoverTurn(s) = [u EXCEPT !.rlist = @ \ now]
  BY <1>5, <1>6, Zenon DEF RecoverTurn, S
<1> HIDE DEF u
<1>10. PICK t : t = [u EXCEPT !.rlist = @ \ now]
  OBVIOUS
<1>11. /\ u \in Tcp /\ SameSend(s, u) /\ u.rlist = s.rlist
       /\ u.rcv = m /\ u.rwnd = s.rwnd - n /\ Len(u.rbuf) = Len(s.rbuf) + n
       /\ Edge(u) = Edge(s) /\ u.rwnd <= Space(u)
  BY <1>7, <1>8 DEF Consumed
<1>12. /\ t \in Tcp /\ SameSend(u, t) /\ t.rlist = s.rlist \ now
       /\ t.rcv = u.rcv /\ t.rwnd = u.rwnd /\ t.rbuf = u.rbuf
       /\ t.ahead = u.ahead
  <2>1. u.rlist \ now \in SUBSET Saved
    BY <1>2, <1>11
  <2> HIDE DEF now
  <2> QED
    BY <1>10, <1>11, <2>1 DEF Tcp, SameSend
<1>13. SameSend(s, t) /\ Edge(t) = Edge(s) /\ t.rwnd <= Space(t)
       /\ t.shutdown = "NONE"
  <2>1. SameSend(s, t)
    BY <1>11, <1>12, SameSendOn
  <2>2. Edge(t) = Edge(u) /\ Space(t) = Space(u)
    BY <1>12 DEF Edge, Space
  <2> QED
    BY <1>11, <1>12, <2>1, <2>2 DEF SameSend
<1>14. Sound(t, A, F) /\ Grows(s, t)
  <2>1. t.rcv \in A /\ s.rcv <= t.rcv /\ Edge(s) <= Edge(t)
    BY <1>2, <1>5, <1>11, <1>12, <1>13
  <2> QED
    BY <1>12, <1>13, <2>1, ReceiveSound
<1>15. Taking(t, A, v)
  <2>1. IsFiniteSet(t.rlist)
    BY <1>3, <1>12, FS_Subset
  <2>2. t.rcv <= v + 1
    BY <1>5, <1>11, <1>12
  <2> QED
    BY <1>3, <1>12, <1>13, <2>1, <2>2 DEF Taking
<1>16. Counts(t, b, v)
  <2>1. PICK k \in Nat : k = Len(s.rbuf)
    BY <1>2
  <2>2. Len(t.rbuf) = k + n /\ t.rcv = s.rcv + n /\ b + k = s.rcv - 1
    BY <1>3, <1>7, <1>11, <1>12, <2>1
  <2>3. b + Len(t.rbuf) = t.rcv - 1 /\ t.rcv # 0
    <3>1. PICK r \in Nat : r = s.rcv
      BY <1>2
    <3>2. b + k = r - 1
      BY <2>2, <3>1
    <3>3. b + (k + n) = (r + n) - 1 /\ r + n # 0
      BY <3>2
    <3> QED
      BY <2>2, <3>1, <3>3
  <2>4. b + Len(t.rbuf) <= v
    BY <1>5, <1>11, <1>12, <2>3
  <2> QED
    BY <2>3, <2>4 DEF Counts
<1>17. ASSUME safe
       PROVE  Filled(t, b)
  <2>1. Numbered(s, b) /\ \A x \in s.rlist : Holds(s, x)
    BY <1>17 DEF Got, Filled
  <2>2. \A x \in s.rlist : Holds(u, x)
    BY <1>1, <1>3, <1>4, <1>8, <2>1, ConsumeHolds
  <2>3. \A x \in s.rlist : Holds(t, x)
    BY <1>12, <2>2 DEF Holds
  <2>4. Numbered(u, b)
    <3>1. CASE n = 0
      <4>1. /\ Len(u.rbuf) = Len(s.rbuf)
            /\ \A i \in 1 .. Len(s.rbuf) : u.rbuf[i] = s.rbuf[i]
        <5>1. Len(u.rbuf) = Len(s.rbuf)
          BY <1>2, <1>11, <3>1
        <5> QED
          BY <1>8, <5>1 DEF Consumed
      <4> QED
        BY <2>1, <4>1 DEF Numbered
    <3>2. CASE n > 0
      <4>1. PICK x \in now : End(x) = m
        BY <1>2, <1>5, <1>6, <3>2
      <4>2. x \in Saved /\ Holds(s, x) /\ x.seq <= s.rcv /\ End(x) = s.rcv + n
        BY <1>4, <1>7, <2>1, <4>1
      <4> QED
        BY <1>1, <1>3, <1>8, <2>1, <4>2, ConsumeFills
    <3> QED
      BY <3>1, <3>2
  <2>5. Numbered(t, b)
    BY <1>12, <2>4 DEF Numbered
  <2>6. t.rcv # 0
    BY <1>2, <1>5, <1>11, <1>12
  <2> QED
    BY <1>12, <2>3, <2>5, <2>6 DEF Filled
<1>18. t.rcv > 0
  BY <1>2, <1>5, <1>11, <1>12
<1> QED
  BY <1>9, <1>10, <1>13, <1>14, <1>15, <1>16, <1>17, <1>18 DEF Recovered, Got

\* f is the loop over m_rlist of N turns.
RecoverLoop(f, s, N) ==
  f = [k \in 0 .. N |-> IF k = 0 THEN s ELSE RecoverTurn(f[k - 1])]

\* The function that iterates RecoverTurn.
LEMMA RecoverLoopExists ==
  ASSUME NEW s
  PROVE  \A N \in Nat : \E f : RecoverLoop(f, s, N)
<1> DEFINE S == {N \in Nat : \E f : RecoverLoop(f, s, N)}
<1>1. 0 \in S
  <2>1. PICK f : f = [k \in 0 .. 0 |-> s]
    OBVIOUS
  <2>2. RecoverLoop(f, s, 0)
    BY <2>1 DEF RecoverLoop
  <2> QED
    BY <2>2
<1>2. ASSUME NEW N \in Nat, N \in S
      PROVE  N + 1 \in S
  <2>1. PICK f : RecoverLoop(f, s, N)
    BY <1>2
  <2>2. PICK g : g = [k \in 0 .. N + 1 |->
                        IF k = N + 1 THEN RecoverTurn(f[N]) ELSE f[k]]
    OBVIOUS
  <2>3. \A k \in 0 .. N : f[k] = IF k = 0 THEN s ELSE RecoverTurn(f[k - 1])
    BY <2>1 DEF RecoverLoop
  <2>4. \A k \in 0 .. N : g[k] = f[k]
    BY <2>2
  <2>5. ASSUME NEW k \in 0 .. N + 1
        PROVE  g[k] = IF k = 0 THEN s ELSE RecoverTurn(g[k - 1])
    <3>1. CASE k = N + 1
      <4>1. k # 0 /\ k - 1 = N /\ N \in 0 .. N
        BY <3>1
      <4>2. g[k] = RecoverTurn(f[N])
        BY <2>2, <3>1
      <4> QED
        BY <2>4, <4>1, <4>2
    <3>2. CASE k # N + 1
      <4>1. k \in 0 .. N /\ (k # 0 => k - 1 \in 0 .. N)
        BY <3>2
      <4> QED
        BY <2>3, <2>4, <4>1
    <3> QED
      BY <3>1, <3>2
  <2>6. g = [k \in 0 .. N + 1 |-> g[k]]
    BY <2>2
  <2>7. RecoverLoop(g, s, N + 1)
    BY <2>5, <2>6 DEF RecoverLoop
  <2> QED
    BY <2>7
<1> HIDE DEF S
<1>3. \A N \in Nat : N \in S
  BY <1>1, <1>2, SetInduction
<1> QED
  BY <1>3 DEF S

\* So does the whole loop.
LEMMA RecoverKeeps ==
  ASSUME NEW A, NEW F, NEW v \in Nat, NEW b \in Nat, NEW safe,
         v + 1 < SeqSpace, NEW s, Sound(s, A, F), Got(s, A, v, b, safe),
         s.shutdown = "NONE", s.rcv > 0
  PROVE  Recovered(s, A, F, v, b, safe, Recover(s))
<1> DEFINE N == Cardinality(s.rlist)
           loop == CHOOSE f : RecoverLoop(f, s, N)
<1>1. s \in Tcp
  BY DEF Sound
<1>2. SameStream(s, s) /\ SameSend(s, s)
  BY DEF SameStream, SameSend
<1>3. Recovered(s, A, F, v, b, safe, s)
  BY <1>1, <1>2, SameSound DEF Recovered
<1>4. Recover(s) = loop[N]
  BY Zenon DEF Recover, RecoverLoop
<1>5. N \in Nat
  <2>1. IsFiniteSet(s.rlist)
    BY DEF Got, Taking
  <2> QED
    BY <2>1, FS_CardinalityType
<1> HIDE DEF N
<1>6. RecoverLoop(loop, s, N)
  BY <1>5, RecoverLoopExists
<1> HIDE DEF loop
<1>7. \A k \in 0 .. N : loop[k] = IF k = 0 THEN s ELSE RecoverTurn(loop[k - 1])
  BY <1>6 DEF RecoverLoop
<1> DEFINE S == {k \in Nat : k <= N => Recovered(s, A, F, v, b, safe, loop[k])}
<1>8. 0 \in S
  BY <1>3, <1>5, <1>7
<1>9. ASSUME NEW k \in Nat, k \in S
      PROVE  k + 1 \in S
  <2> SUFFICES ASSUME k + 1 <= N
               PROVE  Recovered(s, A, F, v, b, safe, loop[k + 1])
    OBVIOUS
  <2>1. k + 1 \in 0 .. N /\ k + 1 # 0 /\ (k + 1) - 1 = k /\ k <= N
    BY <1>5
  <2>2. loop[k + 1] = RecoverTurn(loop[k])
    BY <1>7, <2>1
  <2>3. PICK x : x = loop[k]
    OBVIOUS
  <2>4. PICK y : y = RecoverTurn(x)
    OBVIOUS
  <2>5. Recovered(s, A, F, v, b, safe, x)
    BY <1>9, <2>1, <2>3
  <2>6. /\ Sound(x, A, F) /\ Grows(s, x) /\ SameSend(s, x)
        /\ Got(x, A, v, b, safe) /\ x.rcv > 0
    BY <2>5 DEF Recovered
  <2>7. x.shutdown = "NONE"
    BY <2>6 DEF SameSend
  <2>8. Recovered(x, A, F, v, b, safe, y)
    BY <2>4, <2>6, <2>7, RecoverTurnKeeps
  <2>9. /\ Sound(y, A, F) /\ Grows(x, y) /\ SameSend(x, y)
        /\ Got(y, A, v, b, safe) /\ y.rcv > 0
    BY <2>8 DEF Recovered
  <2>10. x \in Tcp /\ y \in Tcp
    BY <2>6, <2>9 DEF Sound
  <2>11. Grows(s, y) /\ SameSend(s, y)
    BY <1>1, <2>6, <2>9, <2>10, GrowsOn, SameSendOn
  <2>12. Recovered(s, A, F, v, b, safe, y)
    BY <2>9, <2>11 DEF Recovered
  <2> QED
    BY <2>2, <2>3, <2>4, <2>12
<1> HIDE DEF S
<1>10. N \in S
  BY <1>5, <1>8, <1>9, SetInduction
<1> QED
  BY <1>4, <1>5, <1>10 DEF S

\* WriteOffset puts the bytes of a segment where they belong, and leaves the
\* ones that were saved before.
Writes(s, seq, d, t) ==
  /\ t \in Tcp /\ SameSend(s, t) /\ t.rlist = s.rlist /\ t.rcv = s.rcv
  /\ t.rwnd = s.rwnd /\ t.rbuf = s.rbuf
  /\ Holds(t, [seq |-> seq, len |-> Len(d)])
  /\ \A y \in Saved : End(y) <= Edge(s) /\ Holds(s, y) => Holds(t, y)

\* d is the bytes from seq on.
Follows(d, seq) == \A i \in 1 .. Len(d) : d[i] = seq + i - 1

\* WriteOffset puts byte number q of the stream at its distance from m_rcv_nxt.
LEMMA WriteIs ==
  ASSUME NEW s \in Tcp, s.rwnd <= Space(s), NEW seq \in Nat, seq >= s.rcv,
         NEW d, d \in Seq(Nat), Follows(d, seq),
         seq + Len(d) <= Edge(s)
  PROVE  Writes(s, seq, d, WriteOffset(s, d, seq - s.rcv))
<1>0. s.ahead \in [0 .. RcvBuf - 1 -> Int] /\ Len(d) \in Nat
  BY TcpFields, LenProperties
<1>1. /\ s.rcv \in Nat /\ s.rwnd \in Nat /\ Len(s.rbuf) \in Nat
      /\ RcvBuf \in Nat
  BY TcpFields, Constants
<1>2. PICK n \in Nat : n = Len(d)
  BY <1>0
<1>3. PICK o \in Nat : o = seq - s.rcv
  BY <1>1
<1>4. PICK sp \in Int : sp = Space(s)
  <2>1. PICK k \in Nat : k = Len(s.rbuf)
    BY <1>1
  <2>2. RcvBuf - k \in Int
    BY <1>1
  <2> QED
    BY <2>1, <2>2 DEF Space
<1>5. s.rwnd <= sp /\ sp <= RcvBuf /\ seq + n <= s.rcv + s.rwnd
      /\ seq = s.rcv + o
  BY <1>1, <1>2, <1>3, <1>4, SMTT(30) DEF Space, Edge
<1>6. o + n <= sp /\ o + n <= RcvBuf
  <2>1. PICK a \in Nat : a = s.rcv
    BY <1>1
  <2>2. PICK w \in Nat : w = s.rwnd
    BY <1>1
  <2>3. (a + o) + n <= a + w /\ w <= sp /\ sp <= RcvBuf
    BY <1>5, <2>1, <2>2
  <2> QED
    BY <1>1, <2>3
<1>7. \A i \in 1 .. n : d[i] \in Int /\ d[i] = seq + i - 1
  BY <1>2 DEF Follows
<1> DEFINE new == [i \in 0 .. RcvBuf - 1 |->
                     IF i >= o /\ i < o + n /\ i < sp
                     THEN d[i - o + 1] ELSE s.ahead[i]]
<1>8. \A i \in 0 .. RcvBuf - 1 :
        new[i] = IF i >= o /\ i < o + n THEN i + s.rcv ELSE s.ahead[i]
  <2> SUFFICES ASSUME NEW i \in 0 .. RcvBuf - 1
               PROVE  new[i] = IF i >= o /\ i < o + n THEN i + s.rcv
                               ELSE s.ahead[i]
    OBVIOUS
  <2>1. CASE i >= o /\ i < o + n
    <3>1. i < sp /\ i - o + 1 \in 1 .. n
      BY <1>6, <2>1
    <3>2. new[i] = d[i - o + 1]
      BY <2>1, <3>1
    <3>3. d[i - o + 1] = seq + (i - o + 1) - 1
      BY <1>7, <3>1
    <3>4. seq + (i - o + 1) - 1 = i + s.rcv
      BY <1>1, <1>5, SMTT(30)
    <3> QED
      BY <2>1, <3>2, <3>3, <3>4
  <2>2. CASE ~(i >= o /\ i < o + n)
    BY <2>2
  <2> QED
    BY <2>1, <2>2
<1>9. new \in [0 .. RcvBuf - 1 -> Int]
  <2>1. ASSUME NEW i \in 0 .. RcvBuf - 1
        PROVE  new[i] \in Int
    <3>1. s.ahead[i] \in Int
      BY <1>0
    <3>2. i + s.rcv \in Int
      BY <1>1
    <3> QED
      BY <1>8, <3>1, <3>2
  <2> QED
    BY <2>1
<1>10. WriteOffset(s, d, seq - s.rcv) = [s EXCEPT !.ahead = new]
  <2>1. DOMAIN s.ahead = 0 .. RcvBuf - 1
    BY <1>0
  <2> QED
    BY <1>2, <1>3, <1>4, <2>1, Zenon DEF WriteOffset
<1> HIDE DEF new
<1>11. PICK t : t = [s EXCEPT !.ahead = new]
  OBVIOUS
<1>12. /\ t \in Tcp /\ SameSend(s, t) /\ t.rlist = s.rlist /\ t.rcv = s.rcv
       /\ t.rwnd = s.rwnd /\ t.rbuf = s.rbuf /\ t.ahead = new
  BY <1>9, <1>11 DEF Tcp, SameSend
<1>13. ASSUME NEW q \in Nat, q >= s.rcv, q < Edge(s)
       PROVE  t.ahead[q - s.rcv] = IF q >= seq /\ q < seq + n THEN q
                                   ELSE s.ahead[q - s.rcv]
  <2>1. PICK i \in Nat : i = q - s.rcv
    BY <1>1, <1>13
  <2>2. q = i + s.rcv /\ i < s.rwnd
    <3>1. q < s.rcv + s.rwnd
      BY <1>13 DEF Edge
    <3> QED
      BY <1>1, <2>1, <3>1
  <2>3. i \in 0 .. RcvBuf - 1
    BY <1>1, <1>5, <2>2, SMTT(30)
  <2>4. (q >= seq /\ q < seq + n) <=> (i >= o /\ i < o + n)
    <3>1. PICK r \in Nat : r = s.rcv
      BY <1>1
    <3>2. q = i + r /\ seq = r + o
      BY <1>5, <2>2, <3>1
    <3> QED
      BY <3>2
  <2> QED
    BY <1>8, <1>12, <2>1, <2>2, <2>3, <2>4
<1>14. ASSUME NEW y \in Saved, End(y) <= Edge(s), Holds(s, y)
       PROVE  Holds(t, y)
  <2> SUFFICES ASSUME NEW q \in y.seq .. End(y) - 1, q >= t.rcv
               PROVE  t.ahead[q - t.rcv] = q
    BY DEF Holds
  <2>1. /\ y.seq \in Nat /\ End(y) \in Nat /\ Edge(s) \in Nat
    BY <1>1, SavedFields, SMTT(30) DEF Edge
  <2>2. q \in Nat /\ q >= s.rcv /\ q < Edge(s)
    BY <1>12, <1>14, <2>1
  <2>3. s.ahead[q - s.rcv] = q
    BY <1>14, <2>2 DEF Holds
  <2> QED
    BY <1>12, <1>13, <2>2, <2>3
<1>15. PICK g : g = [seq |-> seq, len |-> Len(d)]
  OBVIOUS
<1>16. g.seq = seq /\ End(g) = seq + n
  BY <1>2, <1>15 DEF End
<1>17. Holds(t, g)
  <2> SUFFICES ASSUME NEW q \in g.seq .. End(g) - 1, q >= t.rcv
               PROVE  t.ahead[q - t.rcv] = q
    BY DEF Holds
  <2>1. q \in Nat /\ q >= seq /\ q < seq + n
    BY <1>16
  <2>2. q >= s.rcv /\ q < Edge(s)
    <3>1. PICK r \in Nat : r = s.rcv
      BY <1>1
    <3>2. PICK w \in Nat : w = s.rwnd
      BY <1>1
    <3>3. seq + n <= r + w /\ seq = r + o
      BY <1>5, <3>1, <3>2
    <3>4. q >= r /\ q < r + w
      BY <2>1, <3>3
    <3> QED
      BY <3>1, <3>2, <3>4 DEF Edge
  <2> QED
    BY <1>12, <1>13, <2>1, <2>2
<1> QED
  BY <1>10, <1>11, <1>12, <1>14, <1>15, <1>17 DEF Writes

\* What is left of a datagram that fits the window: the bytes after the ones
\* that were received, all of them.
Trimmed(s, p, seq, d) ==
  /\ d \in Seq(Nat)
  /\ d = <<>> => p.data = <<>> \/ DataEnd(p) <= s.rcv
  /\ d # <<>> => /\ p.data # <<>> /\ seq \in Nat /\ seq >= s.rcv /\ seq >= p.seq
                 /\ seq + Len(d) = DataEnd(p) /\ Len(d) > 0 /\ Follows(d, seq)
                 /\ seq = s.rcv \/ seq = p.seq

\* What is left of a datagram begins at m_rcv_nxt or later, and is empty or
\* ends where the datagram does: the window was never overrun.
LEMMA TrimIs ==
  ASSUME NEW s \in Tcp, s.rwnd <= Space(s), NEW p \in Datagram, DataOK(p),
         p.data # <<>> => DataEnd(p) <= Edge(s) /\ DataEnd(p) < SeqSpace
  PROVE  Trimmed(s, p, Trim(s, p).seq, Trim(s, p).data)
<1>1. p.seq \in Nat /\ p.data \in Seq(Nat) /\ Len(p.data) \in Nat
      /\ DataEnd(p) \in Nat /\ (p.data = <<>> <=> Len(p.data) = 0)
  BY DatagramFields
<1>2. PICK n \in Nat : n = Len(p.data)
  BY <1>1
<1>3. PICK q \in Nat : q = p.seq
  BY <1>1
<1>4. s.rcv \in Nat /\ s.rwnd \in Nat /\ Len(s.rbuf) \in Nat /\ RcvBuf \in Nat
      /\ SeqSpace \in Nat
  BY TcpFields, Constants
<1>5. PICK r \in Nat : r = s.rcv
  BY <1>4
<1>6. PICK sp \in Int : sp = Space(s)
  <2>1. PICK k \in Nat : k = Len(s.rbuf)
    BY <1>4
  <2>2. RcvBuf - k \in Int
    BY <1>4
  <2> QED
    BY <2>1, <2>2 DEF Space
<1>7. DataEnd(p) = q + n
  BY <1>2, <1>3 DEF DataEnd
<1> DEFINE old == IF q < r THEN r - q ELSE 0
           d == SubSeq(p.data, old + 1, n)
           seq == IF d # <<>> THEN Wrap(q + old) ELSE q
           over == Wrap(seq + Len(d) - r) - sp
<1>8. /\ Trim(s, p).seq = seq
      /\ Trim(s, p).data = IF over > 0 THEN SubSeq(d, 1, Len(d) - over) ELSE d
  BY <1>2, <1>3, <1>5, <1>6, Zenon DEF Trim
<1>9. old \in Nat /\ (old = r - q \/ (old = 0 /\ q >= r))
  BY <1>3, <1>5
<1> HIDE DEF old
<1>10. CASE n <= old
  <2>1. d = <<>>
    BY <1>9, <1>10, SubSeqEmpty
  <2>2. seq = q /\ Len(d) = 0
    BY <2>1
  <2> HIDE DEF d, seq
  <2>3. over \in Int
    <3>1. q + 0 - r \in Int
      OBVIOUS
    <3>2. Wrap(q + 0 - r) \in Nat
      BY <3>1, WrapNat
    <3> QED
      BY <2>2, <3>2
  <2> HIDE DEF over
  <2>4. over > 0 => SubSeq(d, 1, Len(d) - over) = <<>>
    <3> SUFFICES ASSUME over > 0 PROVE SubSeq(d, 1, Len(d) - over) = <<>>
      OBVIOUS
    <3>1. Len(d) - over \in Int /\ Len(d) - over < 1
      BY <2>2, <2>3
    <3> QED
      BY <3>1, SubSeqEmpty
  <2>5. Trim(s, p).data = <<>>
    BY <1>8, <2>1, <2>4
  <2>6. p.data = <<>> \/ DataEnd(p) <= s.rcv
    <3>1. n = 0 \/ q + n <= r
      BY <1>9, <1>10
    <3> QED
      BY <1>1, <1>2, <1>5, <1>7, <3>1
  <2> QED
    BY <2>5, <2>6 DEF Trimmed
<1>11. CASE n > old
  <2>1. /\ d \in Seq(Nat) /\ Len(d) = n - old
        /\ \A i \in 1 .. n - old : d[i] = p.data[old + i]
    <3>1. \A i \in old + 1 .. n : p.data[i] \in Nat
      BY <1>1, <1>2, <1>9, SMTT(30)
    <3>2. /\ SubSeq(p.data, old + 1, n) \in Seq(Nat)
          /\ Len(SubSeq(p.data, old + 1, n)) =
               IF old + 1 <= n THEN n - (old + 1) + 1 ELSE 0
          /\ \A i \in 1 .. n - (old + 1) + 1 :
               SubSeq(p.data, old + 1, n)[i] = p.data[(old + 1) + i - 1]
      BY <1>9, <3>1, SubSeqProperties, old + 1 \in Int, n \in Int
    <3> HIDE DEF d
    <3>3. n - (old + 1) + 1 = n - old /\ old + 1 <= n
      BY <1>9, <1>11
    <3>4. \A i \in 1 .. n - old : (old + 1) + i - 1 = old + i
      BY <1>9
    <3> QED
      BY <3>2, <3>3, <3>4 DEF d
  <2> HIDE DEF d
  <2>2. PICK m \in Nat : m = Len(d) /\ m = n - old /\ m > 0
    BY <1>9, <1>11, <2>1
  <2>3. d # <<>> /\ n > 0 /\ p.data # <<>>
    <3>1. d # <<>>
      BY <2>1, <2>2
    <3>2. n > 0
      BY <1>9, <1>11
    <3> QED
      BY <1>1, <1>2, <3>1, <3>2
  <2>4. q + n < SeqSpace /\ q + n <= Edge(s)
    BY <1>7, <2>3
  <2>5. q + old \in Nat /\ q + old < SeqSpace
    BY <1>4, <1>9, <1>11, <2>4
  <2>6. seq = q + old
    BY <2>3, <2>5, NoWrap
  <2> HIDE DEF seq
  <2>7. PICK c \in Nat : c = q + n - r
    <3>1. q + n >= r
      BY <1>9, <1>11
    <3> QED
      BY <3>1
  <2>8. seq + Len(d) - r = c
    BY <1>9, <2>2, <2>6, <2>7
  <2>9. c < SeqSpace /\ c <= s.rwnd
    <3>1. q + n <= r + s.rwnd
      BY <1>5, <2>4 DEF Edge
    <3> QED
      BY <1>4, <2>4, <2>7, <3>1
  <2>10. over = c - sp
    BY <2>8, <2>9, NoWrap
  <2> HIDE DEF over
  <2>11. ~(over > 0)
    <3>1. s.rwnd <= sp
      BY <1>6
    <3> QED
      BY <1>4, <2>9, <2>10, <3>1
  <2>12. Trim(s, p).data = d /\ Trim(s, p).seq = seq
    BY <1>8, <2>11
  <2>13. Follows(d, seq)
    <3> SUFFICES ASSUME NEW i \in 1 .. Len(d)
                 PROVE  d[i] = seq + i - 1
      BY DEF Follows
    <3>1. i \in 1 .. n - old /\ old + i \in 1 .. n
      BY <1>9, <2>2
    <3>2. d[i] = p.data[old + i]
      BY <2>1, <3>1
    <3>3. p.data[old + i] = q + (old + i) - 1
      BY <1>2, <1>3, <3>1 DEF DataOK
    <3>4. q + (old + i) - 1 = seq + i - 1
      BY <1>9, <2>6, <3>1
    <3> QED
      BY <3>2, <3>3, <3>4
  <2>14. seq \in Nat /\ seq >= r /\ seq >= q /\ seq + m = q + n
         /\ (seq = r \/ seq = q)
    BY <1>9, <2>2, <2>6
  <2> QED
    BY <1>3, <1>5, <1>7, <2>1, <2>2, <2>3, <2>12, <2>13, <2>14 DEF Trimmed
<1> QED
  BY <1>9, <1>10, <1>11

\* t is s after the bytes of p were taken.
Accepted(s, p, A, F, v, b, safe, t) ==
  /\ Sound(t, A, F) /\ Grows(s, t) /\ SameSend(s, t)
  /\ Got(t, A, v, b, safe) /\ (p.ctl => t.rcv > 0)

\* A datagram an end may get: its bytes were written, fit the window, and end
\* where the sender knows of.
Fits(s, p, A, v) ==
  /\ p \in Datagram /\ DataOK(p)
  /\ p.data # <<>> =>
       DataEnd(p) <= Edge(s) /\ DataEnd(p) \in A /\ DataEnd(p) <= v + 1

\* Taking the bytes of a datagram, in order or ahead of it, keeps what was
\* received in order and the window within the buffer.
LEMMA AcceptKeeps ==
  ASSUME NEW A, NEW F, NEW v \in Nat, NEW b \in Nat, NEW safe,
         v + 1 < SeqSpace, NEW s, Sound(s, A, F), Got(s, A, v, b, safe),
         NEW p, Fits(s, p, A, v),
         safe /\ s.rcv = 0 /\ ~p.ctl => p.data = <<>>
  PROVE  Accepted(s, p, A, F, v, b, safe, Accept(s, p))
<1>1. s \in Tcp /\ s.rwnd <= Space(s) /\ s.rcv \in A
  BY DEF Sound
<1>2. /\ s.rcv \in Nat /\ s.rwnd \in Nat /\ Len(s.rbuf) \in Nat
      /\ s.rlist \in SUBSET Saved /\ Edge(s) \in Nat
  BY <1>1, TcpFields DEF Edge
<1>3. /\ p \in Datagram /\ DataOK(p)
      /\ p.data # <<>> =>
           DataEnd(p) <= Edge(s) /\ DataEnd(p) \in A /\ DataEnd(p) <= v + 1
  BY DEF Fits
<1>4. p.seq \in Nat /\ DataEnd(p) \in Nat /\ p.ctl \in BOOLEAN
      /\ p.data \in Seq(Nat) /\ Len(p.data) \in Nat
      /\ (p.data = <<>> <=> Len(p.data) = 0)
  BY <1>3, DatagramFields
<1>5. PICK seq : seq = Trim(s, p).seq
  OBVIOUS
<1>6. PICK d : d = Trim(s, p).data
  OBVIOUS
<1>7. Trimmed(s, p, seq, d)
  <2>1. p.data # <<>> => DataEnd(p) < SeqSpace
    BY <1>3, <1>4, Constants
  <2> QED
    BY <1>1, <1>3, <1>5, <1>6, <2>1, TrimIs
<1>8. p.ctl => p.seq = 0 /\ DataEnd(p) = 1 /\ p.data # <<>>
  <2> SUFFICES ASSUME p.ctl
               PROVE  p.seq = 0 /\ DataEnd(p) = 1 /\ p.data # <<>>
    OBVIOUS
  <2>1. p.seq = 0 /\ Len(p.data) = 1
    BY <1>3 DEF DataOK
  <2> QED
    BY <1>4, <2>1 DEF DataEnd
<1>9. d \in Seq(Nat) /\ Len(d) \in Nat /\ (d = <<>> <=> Len(d) = 0)
  BY <1>7 DEF Trimmed
<1>10. PICK n \in Nat : n = Len(d)
  BY <1>9
<1>11. Taking(s, A, v) /\ Counts(s, b, v) /\ (safe => Filled(s, b))
  BY DEF Got
<1>12. Sound(s, A, F) /\ Grows(s, s) /\ SameSend(s, s)
  <2>1. SameStream(s, s) /\ SameSend(s, s)
    BY DEF SameStream, SameSend
  <2> QED
    BY <1>1, <2>1, SameSound
<1>13. CASE n = 0
  <2>1. Accept(s, p) = s
    BY <1>6, <1>10, <1>13 DEF Accept
  <2>2. p.ctl => s.rcv > 0
    BY <1>2, <1>7, <1>8, <1>9, <1>10, <1>13 DEF Trimmed
  <2> QED
    BY <1>12, <2>1, <2>2 DEF Accepted
<1>14. CASE n > 0
  <2>1. /\ p.data # <<>> /\ seq \in Nat /\ seq >= s.rcv /\ seq >= p.seq
        /\ seq + n = DataEnd(p) /\ Follows(d, seq)
    BY <1>7, <1>9, <1>10, <1>14 DEF Trimmed
  <2>2. seq + n <= Edge(s) /\ seq + n \in A /\ seq + n <= v + 1
        /\ seq + n < SeqSpace
    BY <1>3, <2>1, Constants
  <2>3. p.ctl => seq = 0 /\ s.rcv = 0 /\ seq + n = 1
    BY <1>2, <1>8, <1>14, <2>1
  <2>4. Wrap(seq - s.rcv) = seq - s.rcv
    <3>1. seq - s.rcv \in Nat /\ seq - s.rcv < SeqSpace
      BY <1>2, <2>1, <2>2, Constants
    <3> QED
      BY <3>1, NoWrap
  <2>5. CASE (p.ctl \/ s.shutdown # "NONE") /\ seq # s.rcv
    <3>1. Accept(s, p) = s
      BY <1>5, <1>6, <1>10, <1>14, <2>5 DEF Accept
    <3>2. ~p.ctl
      BY <2>3, <2>5
    <3> QED
      BY <1>12, <3>1, <3>2 DEF Accepted
  <2>6. CASE (p.ctl \/ s.shutdown # "NONE") /\ seq = s.rcv
    <3>1. Wrap(s.rcv + n) = seq + n
      BY <2>1, <2>2, <2>6, NoWrap
    <3>2. PICK t : t = [s EXCEPT !.rcv = seq + n]
      OBVIOUS
    <3>3. Accept(s, p) = t
      <4>1. [s EXCEPT !.rcv = Wrap(@ + n)] = [s EXCEPT !.rcv = seq + n]
        BY <3>1, Zenon
      <4>2. Accept(s, p) = [s EXCEPT !.rcv = Wrap(@ + n)]
        BY <1>5, <1>6, <1>10, <1>14, <2>6 DEF Accept
      <4> QED
        BY <3>2, <4>1, <4>2
    <3>4. /\ t \in Tcp /\ SameSend(s, t) /\ t.rcv = seq + n /\ t.rwnd = s.rwnd
          /\ t.rbuf = s.rbuf /\ t.ahead = s.ahead /\ t.rlist = s.rlist
          /\ t.shutdown = s.shutdown
      <4>1. seq + n \in Nat
        BY <2>1
      <4> QED
        BY <1>1, <3>2, <4>1 DEF Tcp, SameSend
    <3>5. Edge(t) = Edge(s) + n /\ Space(t) = Space(s)
      BY <1>2, <2>1, <2>6, <3>4, SMTT(30) DEF Edge, Space
    <3>6. Sound(t, A, F) /\ Grows(s, t)
      <4>1. t.rcv \in A /\ s.rcv <= t.rcv /\ Edge(s) <= Edge(t)
            /\ t.rwnd <= Space(t)
        BY <1>1, <1>2, <2>1, <2>2, <2>6, <3>4, <3>5
      <4> QED
        BY <3>4, <4>1, ReceiveSound
    <3>7. Taking(t, A, v)
      <4>1. \A x \in s.rlist : End(x) \in Nat
        BY <1>2, SavedFields
      <4>2. t.rcv <= v + 1 /\ IsFiniteSet(t.rlist)
        BY <1>11, <2>2, <3>4 DEF Taking
      <4>3. \A x \in s.rlist : /\ x.seq > 0 /\ x.len > 0 /\ End(x) <= v + 1
                               /\ End(x) <= Edge(s) /\ End(x) \in A
        BY <1>11 DEF Taking
      <4>4. \A x \in s.rlist : End(x) <= Edge(t)
        BY <1>2, <3>5, <4>1, <4>3
      <4> QED
        BY <3>4, <4>2, <4>3, <4>4 DEF Taking
    <3>8. Counts(t, b, v)
      <4>1. b + Len(s.rbuf) <= v
            /\ (s.shutdown = "NONE" => b + Len(s.rbuf) = IF s.rcv = 0 THEN 0 ELSE s.rcv - 1)
        BY <1>11 DEF Counts
      <4>2. s.shutdown = "NONE" => s.rcv = 0 /\ t.rcv = 1
        BY <2>3, <2>6, <3>4
      <4> QED
        BY <3>4, <4>1, <4>2 DEF Counts
    <3>9. ASSUME safe
          PROVE  Filled(t, b)
      <4>1. Numbered(t, b)
        BY <1>11, <3>4, <3>9 DEF Filled, Numbered
      <4>2. t.rcv # 0
        BY <2>1, <1>14, <3>4
      <4>3. s.shutdown = "NONE" => s.rlist = {}
        BY <1>11, <2>3, <2>6, <3>9 DEF Filled
      <4> QED
        BY <3>4, <4>1, <4>2, <4>3 DEF Filled
    <3>10. t.rcv > 0
      BY <1>14, <2>1, <3>4
    <3> QED
      BY <3>3, <3>4, <3>6, <3>7, <3>8, <3>9, <3>10 DEF Accepted, Got
  <2>7. PICK w : w = WriteOffset(s, d, seq - s.rcv)
    OBVIOUS
  <2>8. Writes(s, seq, d, w)
    BY <1>1, <1>9, <1>10, <2>1, <2>2, <2>7, WriteIs
  <2>9. PICK x : x = [seq |-> seq, len |-> n]
    OBVIOUS
  <2>10. x \in Saved /\ x.seq = seq /\ End(x) = seq + n /\ x.len = n
    BY <2>1, <2>9 DEF Saved, End
  <2>11. /\ w \in Tcp /\ SameSend(s, w) /\ w.rlist = s.rlist /\ w.rcv = s.rcv
         /\ w.rwnd = s.rwnd /\ w.rbuf = s.rbuf /\ Holds(w, x)
    BY <1>10, <2>8, <2>9 DEF Writes
  <2>12. Edge(w) = Edge(s) /\ Space(w) = Space(s) /\ w.shutdown = s.shutdown
    BY <2>11 DEF Edge, Space, SameSend
  <2>13. Sound(w, A, F) /\ Grows(s, w)
    BY <1>1, <1>2, <2>11, <2>12, ReceiveSound
  <2>14. Got(w, A, v, b, safe)
    <3>1. Taking(w, A, v)
      BY <1>11, <2>11, <2>12 DEF Taking
    <3>2. Counts(w, b, v)
      BY <1>11, <2>11, <2>12 DEF Counts
    <3>3. ASSUME safe
          PROVE  Filled(w, b)
      <4>1. Numbered(w, b)
        BY <1>11, <2>11, <3>3 DEF Filled, Numbered
      <4>2. s.rcv = 0 => s.rlist = {}
        BY <1>11, <3>3 DEF Filled
      <4>3. s.shutdown = "NONE" => \A y \in s.rlist : Holds(s, y)
        BY <1>11, <3>3 DEF Filled
      <4>4. \A y \in s.rlist : y \in Saved /\ End(y) <= Edge(s)
        BY <1>2, <1>11 DEF Taking
      <4>5. s.shutdown = "NONE" => \A y \in s.rlist : Holds(w, y)
        BY <2>8, <4>3, <4>4 DEF Writes
      <4> QED
        BY <2>11, <2>12, <4>1, <4>2, <4>5 DEF Filled
    <3> QED
      BY <3>1, <3>2, <3>3 DEF Got
  <2>15. CASE ~(p.ctl \/ s.shutdown # "NONE") /\ seq = s.rcv
    <3>1. PICK c : c = Consume(w, n)
      OBVIOUS
    <3>2. Accept(s, p) = Recover(c)
      <4>1. Wrap(Trim(s, p).seq - s.rcv) = seq - s.rcv /\ Len(Trim(s, p).data) = n
            /\ n # 0 /\ Trim(s, p).data = d /\ Trim(s, p).seq = seq
        BY <1>5, <1>6, <1>10, <1>14, <2>4
      <4> QED
        BY <2>7, <2>15, <3>1, <4>1, Zenon DEF Accept
    <3>3. p.seq > 0 /\ s.rcv > 0
      <4>1. p.seq > 0
        BY <1>3, <2>1, <2>15 DEF DataOK
      <4> QED
        BY <1>2, <1>4, <2>1, <2>15, <4>1
    <3>4. Consumed(w, n, c)
      <4>1. n <= w.rwnd
        <5>1. seq + n <= s.rcv + s.rwnd
          BY <2>2 DEF Edge
        <5> QED
          BY <1>2, <2>11, <2>15, <5>1
      <4>2. w.rwnd <= Space(w) /\ w.rcv + n < SeqSpace
        BY <1>1, <2>2, <2>11, <2>12, <2>15
      <4> QED
        BY <2>11, <3>1, <4>1, <4>2, ConsumeIs
    <3>5. /\ c \in Tcp /\ SameSend(w, c) /\ c.rlist = s.rlist
          /\ c.rcv = seq + n /\ Len(c.rbuf) = Len(s.rbuf) + n
          /\ Edge(c) = Edge(s) /\ c.rwnd <= Space(c)
      BY <2>11, <2>12, <2>15, <3>4 DEF Consumed
    <3>6. c.shutdown = "NONE" /\ SameSend(s, c)
      <4>1. SameSend(s, c)
        BY <2>11, <3>5, SameSendOn
      <4> QED
        BY <2>15, <4>1 DEF SameSend
    <3>7. Sound(c, A, F) /\ Grows(s, c)
      <4>1. c.rcv \in A /\ s.rcv <= c.rcv /\ Edge(s) <= Edge(c)
        BY <1>2, <2>1, <2>2, <3>5
      <4> QED
        BY <3>5, <3>6, <4>1, ReceiveSound
    <3>8. b + Len(s.rbuf) = s.rcv - 1
      <4>1. b + Len(s.rbuf) = IF s.rcv = 0 THEN 0 ELSE s.rcv - 1
        BY <1>11, <2>15 DEF Counts
      <4>2. s.rcv # 0
        BY <3>3
      <4> QED
        BY <4>1, <4>2
    <3>9. Got(c, A, v, b, safe)
      <4>1. Taking(c, A, v)
        BY <1>11, <2>2, <3>5 DEF Taking
      <4>2. Counts(c, b, v)
        <5>1. PICK k \in Nat : k = Len(s.rbuf)
          BY <1>2
        <5>2. b + (k + n) = (seq + n) - 1 /\ seq + n # 0
          <6>1. b + k = seq - 1 /\ seq \in Nat
            BY <2>1, <2>15, <3>8, <5>1
          <6> QED
            BY <1>14, <6>1
        <5>3. b + Len(c.rbuf) = c.rcv - 1 /\ c.rcv # 0
          BY <3>5, <5>1, <5>2
        <5>4. b + Len(c.rbuf) <= v
          BY <2>1, <2>2, <3>5, <5>3
        <5> QED
          BY <5>3, <5>4 DEF Counts
      <4>3. ASSUME safe
            PROVE  Filled(c, b)
        <5>1. Filled(w, b)
          BY <2>14, <4>3 DEF Got
        <5>2. Numbered(w, b) /\ \A y \in s.rlist : Holds(w, y)
          BY <2>11, <2>12, <2>15, <5>1 DEF Filled
        <5>3. Numbered(c, b)
          <6>1. w.rcv > 0 /\ b + Len(w.rbuf) = w.rcv - 1 /\ x.seq <= w.rcv
                /\ End(x) = w.rcv + n
            BY <2>1, <2>10, <2>11, <2>15, <3>3, <3>8
          <6> QED
            BY <2>10, <2>11, <3>4, <5>2, <6>1, ConsumeFills
        <5>4. \A y \in s.rlist : y \in Saved /\ End(y) <= Edge(w)
          BY <1>2, <1>11, <2>12 DEF Taking
        <5>5. \A y \in s.rlist : Holds(c, y)
          <6>1. w.rwnd <= Space(w)
            BY <1>1, <2>11, <2>12
          <6> QED
            BY <2>11, <3>4, <5>2, <5>4, <6>1, ConsumeHolds
        <5>6. c.rcv # 0
          BY <1>14, <2>1, <3>5
        <5> QED
          BY <3>5, <5>3, <5>5, <5>6 DEF Filled
      <4> QED
        BY <4>1, <4>2, <4>3 DEF Got
    <3>10. c.rcv > 0
      BY <1>14, <2>1, <3>5
    <3>11. PICK t : t = Recover(c)
      OBVIOUS
    <3>12. Recovered(c, A, F, v, b, safe, t)
      BY <3>6, <3>7, <3>9, <3>10, <3>11, RecoverKeeps
    <3>13. /\ Sound(t, A, F) /\ Grows(c, t) /\ SameSend(c, t)
           /\ Got(t, A, v, b, safe) /\ t.rcv > 0
      BY <3>12 DEF Recovered
    <3>14. t \in Tcp
      BY <3>13 DEF Sound
    <3>15. Grows(s, t) /\ SameSend(s, t)
      BY <1>1, <3>5, <3>6, <3>7, <3>13, <3>14, GrowsOn, SameSendOn
    <3> QED
      BY <3>2, <3>11, <3>13, <3>15 DEF Accepted
  <2>16. CASE ~(p.ctl \/ s.shutdown # "NONE") /\ seq # s.rcv
    <3>1. PICK t : t = [w EXCEPT !.rlist = @ \cup {x}]
      OBVIOUS
    <3>2. Accept(s, p) = t
      <4>1. Wrap(Trim(s, p).seq - s.rcv) = seq - s.rcv /\ Len(Trim(s, p).data) = n
            /\ n # 0 /\ Trim(s, p).data = d /\ Trim(s, p).seq = seq
        BY <1>5, <1>6, <1>10, <1>14, <2>4
      <4> QED
        BY <2>7, <2>9, <2>16, <3>1, <4>1, Zenon DEF Accept
    <3>3. /\ t \in Tcp /\ SameSend(w, t) /\ t.rlist = s.rlist \cup {x}
          /\ t.rcv = s.rcv /\ t.rwnd = s.rwnd /\ t.rbuf = s.rbuf
          /\ t.ahead = w.ahead
      <4>1. w.rlist \cup {x} \in SUBSET Saved
        BY <1>2, <2>10, <2>11
      <4> QED
        BY <2>11, <3>1, <4>1 DEF Tcp, SameSend
    <3>4. SameSend(s, t) /\ Edge(t) = Edge(s) /\ Space(t) = Space(s)
      BY <2>11, <3>3, SameSendOn DEF Edge, Space
    <3>5. Sound(t, A, F) /\ Grows(s, t)
      BY <1>1, <1>2, <3>3, <3>4, ReceiveSound
    <3>6. Taking(t, A, v)
      <4>1. IsFiniteSet(t.rlist)
        BY <1>11, <3>3, FS_AddElement DEF Taking
      <4>2. x.seq > 0 /\ x.len > 0 /\ End(x) <= v + 1 /\ End(x) <= Edge(s)
            /\ End(x) \in A
        BY <1>2, <1>14, <2>1, <2>2, <2>10, <2>16
      <4> QED
        BY <1>11, <3>3, <3>4, <4>1, <4>2 DEF Taking
    <3>7. Counts(t, b, v)
      BY <1>11, <3>3, <3>4 DEF Counts, SameSend
    <3>8. ASSUME safe
          PROVE  Filled(t, b)
      <4>1. Filled(w, b)
        BY <2>14, <3>8 DEF Got
      <4>2. Numbered(t, b)
        BY <2>11, <3>3, <4>1 DEF Filled, Numbered
      <4>3. t.rcv # 0
        BY <2>1, <2>16, <3>3, <3>8
      <4>4. \A y \in s.rlist : Holds(w, y)
        BY <2>11, <2>12, <2>16, <4>1 DEF Filled
      <4>5. \A y \in t.rlist : Holds(t, y)
        BY <2>11, <3>3, <4>4 DEF Holds
      <4> QED
        BY <4>2, <4>3, <4>5 DEF Filled
    <3> QED
      BY <2>16, <3>2, <3>4, <3>5, <3>6, <3>7, <3>8 DEF Accepted, Got
  <2> QED
    BY <2>5, <2>6, <2>15, <2>16
<1> QED
  BY <1>13, <1>14

-----------------------------------------------------------------------------
(* A datagram is processed.                                                *)

\* What becomes of the state of an end.
Moves(s, t) ==
  /\ t.shutdown = s.shutdown
  /\ s.state = "ESTABLISHED" => t.state = "ESTABLISHED" \/ t.aborted
  /\ s.aborted => t.aborted
  /\ t.state \in {"GONE", "SYN_SENT"} => t.state = s.state

\* A connection is accepted, or completed, only by a CONNECT.
Meets(s, p, t) ==
  t.state \in {"SYN_RECEIVED", "ESTABLISHED"} =>
    s.state \in {"SYN_RECEIVED", "ESTABLISHED"} \/ p.ctl

\* t is s after the control byte and the ack of p, before its bytes are taken.
Answers(s, p, t, A, F, w) ==
  /\ Sound(t, A, F) /\ Grows(s, t) /\ SameGot(s, t) /\ Stated(t, w)
  /\ t.una = s.una \/ t.una = p.ack
  /\ Moves(s, t) /\ Meets(s, p, t)

\* Control, Acked and the fast retransmission.
LEMMA AnswerKeeps ==
  ASSUME NEW A, NEW F, Down(F), 1 \in F, path \in Paths, NEW w \in Nat,
         w + 1 < SeqSpace, NEW s, Sound(s, A, F), Stated(s, w),
         NEW p \in Datagram, Known(s, p.ack), p.ack + p.wnd \in F,
         NEW fast \in Fates, fast # "none" => Recovers(Control(s, p), p),
         NEW t, t = IF fast = "none" THEN Acked(Control(s, p), p)
                    ELSE Retransmit(Acked(Control(s, p), p), fast = "taken")
  PROVE  /\ Answers(s, p, t, A, F, w)
         /\ Total(t) # Total(s) => p.ctl /\ ~Over(t)
<1>1. s \in Tcp
  BY DEF Sound
<1>2. PICK c : c = Control(s, p)
  OBVIOUS
<1>3. Sound(c, A, F) /\ Grows(s, c) /\ Hears(s, p, c, w)
  BY <1>2, ControlSound
<1>4. c \in Tcp
  BY <1>3 DEF Sound
<1>5. /\ SameGot(s, c) /\ Stated(c, w) /\ c.una = s.una /\ c.nxt = s.nxt
      /\ c.aborted = s.aborted /\ c.shutdown = s.shutdown
      /\ c.state # s.state => /\ p.ctl /\ s.state \in {"LISTEN", "SYN_SENT"}
                              /\ c.state \in {"SYN_RECEIVED", "ESTABLISHED"}
      /\ Total(c) # Total(s) => p.ctl /\ s.state = "LISTEN"
  BY <1>3 DEF Hears, SameGot
<1>6. Known(c, p.ack)
  <2>1. p.ack \in Nat
    BY DatagramFields
  <2> QED
    BY <1>3, <2>1 DEF Grows
<1>7. PICK a : a = Acked(c, p)
  OBVIOUS
<1>8. Sound(a, A, F) /\ Grows(c, a) /\ AckOf(c, p, a)
  BY <1>3, <1>6, <1>7, AckedSound
<1>9. /\ SameGot(c, a) /\ a.state = c.state /\ a.aborted = c.aborted
      /\ a.shutdown = c.shutdown /\ Total(a) = Total(c)
      /\ a.nxt = c.nxt /\ (a.una = c.una \/ a.una = p.ack)
  BY <1>8 DEF AckOf, SameEnd, SameGot
<1>10. a \in Tcp
  BY <1>8 DEF Sound
<1>11. Stated(a, w)
  BY <1>5, <1>9 DEF Stated
<1>12. Total(s) # Total(a) => p.ctl /\ ~Over(a)
  <2> SUFFICES ASSUME Total(s) # Total(c) PROVE p.ctl /\ ~Over(a)
    BY <1>9
  <2>1. p.ctl /\ s.state = "LISTEN" /\ Total(s) = 0
    BY <1>5 DEF Stated
  <2>2. c.state # "LISTEN"
    BY <1>5, <2>1 DEF Stated
  <2>3. c.state \in {"SYN_RECEIVED", "ESTABLISHED"}
    BY <1>5, <2>1, <2>2
  <2> QED
    BY <1>9, <2>1, <2>3 DEF Over
<1>13. Grows(s, a) /\ SameGot(s, a)
  BY <1>1, <1>3, <1>4, <1>5, <1>8, <1>9, <1>10, GrowsOn, SameGotOn
<1>14. Answers(s, p, a, A, F, w)
  <2>1. Moves(s, a) /\ Meets(s, p, a)
    BY <1>5, <1>9 DEF Moves, Meets
  <2> QED
    BY <1>5, <1>8, <1>9, <1>11, <1>13, <2>1 DEF Answers
<1>15. CASE fast = "none"
  BY <1>2, <1>7, <1>12, <1>14, <1>15
<1>16. CASE fast # "none"
  <2>1. PICK taken \in BOOLEAN : t = Retransmit(a, taken)
    BY <1>2, <1>7, <1>16
  <2>2. Recovers(c, p)
    BY <1>2, <1>16
  <2>3. c.una \in Nat /\ c.nxt \in Nat /\ c.una <= c.nxt /\ p.ack \in Nat
        /\ c.una < SeqSpace
    <3>1. Sending(c)
      BY <1>3 DEF Sound
    <3>2. c.una \in Nat /\ c.nxt \in Nat /\ c.una <= c.nxt
      BY <1>4, <3>1, TcpFields DEF Sending
    <3>3. Total(c) < SeqSpace /\ Total(c) \in Nat /\ c.una <= Total(c)
      BY <1>3, <1>4, TcpFields, SMTT(30) DEF Sound, Total
    <3> QED
      BY <3>2, <3>3, DatagramFields, Constants
  <2>4. a.una < a.nxt
    <3>1. CASE Valuable(c, p) /\ p.ack # c.nxt
      <4>1. a = [c EXCEPT !.swnd = p.wnd, !.una = p.ack, !.rto = p.ack # c.nxt,
                          !.sbuf = SubSeq(@, p.ack - c.una + 1, Len(@)),
                          !.slist = Free(@, p.ack - c.una), !.probes = 0]
        <5>1. p.ack # c.una
          BY <2>3, <3>1 DEF Valuable
        <5> QED
          BY <1>7, <3>1, <5>1 DEF Acked
      <4>2. a.una = p.ack
        BY <1>4, <4>1 DEF Tcp
      <4> QED
        BY <1>9, <2>3, <3>1, <4>2 DEF Valuable
    <3>2. CASE ~(Valuable(c, p) /\ p.ack # c.nxt)
      <4>1. p.ack = c.una /\ c.una # c.nxt
        BY <2>2, <3>2 DEF Recovers
      <4>2. a.una = c.una
        BY <1>9, <4>1
      <4> QED
        BY <1>9, <2>3, <4>1, <4>2
    <3> QED
      BY <3>1, <3>2
  <2>5. Sound(t, A, F) /\ Grows(a, t) /\ Sends(a, t)
    BY <1>8, <2>1, <2>4, RetransmitSound
  <2>6. /\ SameGot(a, t) /\ t.una = a.una /\ t.sbuf = a.sbuf
        /\ t.shutdown = a.shutdown /\ GivesUp(a, t)
    BY <2>5 DEF Sends, SameGot
  <2>7. Total(t) = Total(a)
    BY <2>6 DEF Total
  <2>8. t \in Tcp
    BY <2>5 DEF Sound
  <2>9. Grows(s, t) /\ SameGot(s, t)
    BY <1>1, <1>10, <1>13, <2>5, <2>6, <2>8, GrowsOn, SameGotOn
  <2>10. Stated(t, w)
    BY <1>11, <2>6, <2>7 DEF Stated, GivesUp
  <2>11. Moves(s, t) /\ Meets(s, p, t)
    <3>1. Moves(s, a) /\ Meets(s, p, a)
      BY <1>14 DEF Answers
    <3> QED
      BY <2>6, <3>1 DEF Moves, Meets, GivesUp
  <2>12. Answers(s, p, t, A, F, w)
    BY <1>5, <1>9, <2>5, <2>6, <2>9, <2>10, <2>11 DEF Answers
  <2>13. Total(c) = Total(s)
    <3> SUFFICES ASSUME Total(c) # Total(s) PROVE FALSE
      OBVIOUS
    <3>1. Total(s) = 0
      BY <1>5 DEF Stated
    <3>2. s.una \in Nat /\ s.nxt \in Nat /\ s.una <= s.nxt /\ s.nxt <= 0
      BY <1>1, <3>1, TcpFields DEF Sound, Sending
    <3>3. c.una = 0 /\ c.nxt = 0
      BY <1>5, <3>1, <3>2
    <3> QED
      BY <2>2, <2>3, <3>3 DEF Recovers, Valuable
  <2> QED
    BY <1>9, <2>7, <2>12, <2>13
<1> QED
  BY <1>15, <1>16

\* t is s after p was processed.
Processed(s, p, A, F, v, w, b, safe, t) ==
  /\ Sound(t, A, F) /\ Grows(s, t) /\ Got(t, A, v, b, safe) /\ Stated(t, w)
  /\ t.una = s.una \/ t.una = p.ack
  /\ Moves(s, t) /\ Meets(s, p, t)
  /\ Total(t) # Total(s) => t.rcv > 0

\* process, for any datagram that its peer may have sent, however late.
LEMMA ProcessKeeps ==
  ASSUME NEW A, NEW F, Down(F), 1 \in F, path \in Paths,
         NEW v \in Nat, NEW w \in Nat, NEW b \in Nat, NEW safe,
         v + 1 < SeqSpace, w + 1 < SeqSpace,
         NEW s, Sound(s, A, F), Stated(s, w), Got(s, A, v, b, safe),
         NEW p, Fits(s, p, A, v), Known(s, p.ack), p.ack + p.wnd \in F,
         safe /\ s.rcv = 0 /\ ~p.ctl => p.data = <<>>,
         NEW fast \in Fates, fast # "none" => Recovers(Control(s, p), p),
         NEW luck \in Chance
  PROVE  Processed(s, p, A, F, v, w, b, safe, process(s, p, fast, luck))
<1>1. s \in Tcp
  BY DEF Sound
<1>2. p \in Datagram
  BY DEF Fits
<1>3. PICK g : g = IF fast = "none" THEN Acked(Control(s, p), p)
                   ELSE Retransmit(Acked(Control(s, p), p), fast = "taken")
  OBVIOUS
<1>4. /\ Answers(s, p, g, A, F, w)
      /\ Total(g) # Total(s) => p.ctl /\ ~Over(g)
  BY <1>2, <1>3, AnswerKeeps
<1>5. /\ Sound(g, A, F) /\ Grows(s, g) /\ SameGot(s, g) /\ Stated(g, w)
      /\ (g.una = s.una \/ g.una = p.ack)
      /\ Moves(s, g) /\ Meets(s, p, g)
  BY <1>4 DEF Answers
<1>6. Got(g, A, v, b, safe)
  BY <1>5, SameGotKeeps
<1>7. CASE Over(g)
  <2>1. process(s, p, fast, luck) = g
    BY <1>3, <1>7, Zenon DEF process
  <2> QED
    BY <1>4, <1>5, <1>6, <1>7, <2>1 DEF Processed
<1>8. CASE ~Over(g)
  <2>1. PICK o : o = NotifyWriteable(Complete(g, p))
    OBVIOUS
  <2>2. /\ Sound(o, A, F) /\ Grows(g, o) /\ Marks(g, o, w)
        /\ (o.state = g.state \/
            (g.state = "SYN_RECEIVED" /\ o.state = "ESTABLISHED"))
    BY <1>5, <2>1, CompleteSound
  <2>3. /\ SameGot(g, o) /\ o.una = g.una /\ o.sbuf = g.sbuf
        /\ o.aborted = g.aborted /\ Stated(o, w) /\ o.shutdown = g.shutdown
    BY <1>5, <2>2 DEF Marks, SameGot
  <2>4. Got(o, A, v, b, safe) /\ Total(o) = Total(g)
    BY <1>6, <2>3, SameGotKeeps DEF Total
  <2>5. Moves(s, o) /\ Meets(s, p, o)
    BY <1>5, <2>2, <2>3 DEF Moves, Meets
  <2>6. SameGot(s, o)
    BY <1>5, <2>3, SameGotOn
  <2>7. Fits(o, p, A, v) /\ (safe /\ o.rcv = 0 /\ ~p.ctl => p.data = <<>>)
    <3>1. o.rcv = s.rcv /\ Edge(o) = Edge(s)
      BY <2>6 DEF SameGot, Edge
    <3> QED
      BY <3>1 DEF Fits
  <2>8. PICK x : x = Accept(o, p)
    OBVIOUS
  <2>9. Accepted(o, p, A, F, v, b, safe, x)
    BY <2>2, <2>4, <2>7, <2>8, AcceptKeeps
  <2>10. /\ Sound(x, A, F) /\ Grows(o, x) /\ SameSend(o, x)
         /\ Got(x, A, v, b, safe) /\ (p.ctl => x.rcv > 0)
    BY <2>9 DEF Accepted
  <2>11. PICK fl : fl = AckFlags(o, p, x)
    OBVIOUS
  <2>12. fl \in Flags
    BY <2>11 DEF AckFlags, Flags
  <2>13. PICK y : y = attemptSend(x, fl, luck)
    OBVIOUS
  <2>14. Sound(y, A, F) /\ Alike(x, y) /\ Grows(x, y)
    BY <2>10, <2>12, <2>13, AttemptSendSound
  <2>15. PICK t : t = NotifyReadable(y, o)
    OBVIOUS
  <2>16. process(s, p, fast, luck) = t
    BY <1>3, <1>8, <2>1, <2>8, <2>11, <2>13, <2>15, Zenon DEF process
  <2>17. g \in Tcp /\ o \in Tcp /\ x \in Tcp /\ y \in Tcp
    BY <1>5, <2>2, <2>10, <2>14 DEF Sound
  <2>18. /\ t \in Tcp /\ SameStream(y, t) /\ SameGot(y, t)
         /\ t.state = y.state /\ t.aborted = y.aborted
    <3>1. CASE t = [y EXCEPT !.readEnable = FALSE]
      BY <2>17, <3>1, ZenonT(60) DEF Tcp, SameStream, SameGot
    <3>2. CASE t = y
      BY <2>17, <3>2 DEF SameStream, SameGot
    <3> QED
      BY <2>15, <3>1, <3>2 DEF NotifyReadable
  <2>19. Sound(t, A, F) /\ Grows(y, t)
    BY <2>14, <2>18, SameSound
  <2>20. Grows(s, t)
    <3>1. Grows(s, o)
      BY <1>1, <1>5, <2>2, <2>17, GrowsOn
    <3>2. Grows(s, x)
      BY <1>1, <2>10, <2>17, <3>1, GrowsOn
    <3>3. Grows(s, y)
      BY <1>1, <2>14, <2>17, <3>2, GrowsOn
    <3> QED
      BY <1>1, <2>17, <2>18, <2>19, <3>3, GrowsOn
  <2>21. Got(t, A, v, b, safe)
    <3>1. SameGot(x, y)
      BY <2>14 DEF Alike, SameGot
    <3>2. SameGot(x, t)
      BY <2>18, <3>1, SameGotOn
    <3> QED
      BY <2>10, <3>2, SameGotKeeps
  <2>22. /\ t.una = o.una /\ t.sbuf = o.sbuf /\ t.state = o.state
         /\ t.aborted = o.aborted /\ t.shutdown = o.shutdown /\ t.rcv = x.rcv
    BY <2>10, <2>14, <2>18 DEF SameSend, Alike, SameStream, SameGot
  <2>23. Total(t) = Total(o)
    BY <2>22 DEF Total
  <2>24. Stated(t, w) /\ Moves(s, t) /\ Meets(s, p, t)
    BY <2>3, <2>5, <2>22, <2>23 DEF Stated, Moves, Meets
  <2>25. Total(t) # Total(s) => t.rcv > 0
    BY <1>4, <2>4, <2>10, <2>22, <2>23
  <2> QED
    BY <1>5, <2>3, <2>16, <2>19, <2>20, <2>21, <2>22, <2>24, <2>25 DEF Processed
<1> QED
  BY <1>7, <1>8

-----------------------------------------------------------------------------
(* The user reads.                                                         *)

\* t is s but for what an end has received, and for what it has sent before.
Quiet(s, t) ==
  /\ t.una = s.una /\ t.sbuf = s.sbuf /\ t.state = s.state
  /\ t.shutdown = s.shutdown /\ t.aborted = s.aborted /\ t.rcv = s.rcv

\* t is s after the user read k bytes.
Drained(s, k, A, F, v, b, safe, t) ==
  /\ Sound(t, A, F) /\ Grows(s, t) /\ Quiet(s, t) /\ Got(t, A, v, b + k, safe)

Drain(s, k) == [s EXCEPT !.rbuf = SubSeq(@, k + 1, Len(@))]

\* Reading k bytes of the receive buffer,
LEMMA DrainKeeps ==
  ASSUME NEW A, NEW F, NEW v \in Nat, NEW b \in Nat, NEW safe,
         NEW s, Sound(s, A, F), Got(s, A, v, b, safe), NEW k \in Nat, k <= Len(s.rbuf),
         NEW t, t = Drain(s, k)
  PROVE  Drained(s, k, A, F, v, b, safe, t)
<1>1. s \in Tcp /\ s.rwnd <= Space(s) /\ s.rcv \in A
  BY DEF Sound
<1>2. s.rbuf \in Seq(Int) /\ Len(s.rbuf) \in Nat /\ s.rcv \in Nat
      /\ s.rwnd \in Nat /\ RcvBuf \in Nat
  BY <1>1, TcpFields, Constants
<1>3. PICK n \in Nat : n = Len(s.rbuf)
  BY <1>2
<1>4. k <= n
  BY <1>3
<1>5. PICK buf : buf = SubSeq(s.rbuf, k + 1, n)
  OBVIOUS
<1>6. /\ buf \in Seq(Int) /\ Len(buf) = n - k
      /\ \A i \in 1 .. n - k : buf[i] = s.rbuf[k + i]
  <2>1. \A i \in k + 1 .. n : s.rbuf[i] \in Int
    BY <1>2, <1>3, <1>4
  <2>2. /\ SubSeq(s.rbuf, k + 1, n) \in Seq(Int)
        /\ Len(SubSeq(s.rbuf, k + 1, n)) =
             IF k + 1 <= n THEN n - (k + 1) + 1 ELSE 0
        /\ \A i \in 1 .. n - (k + 1) + 1 :
             SubSeq(s.rbuf, k + 1, n)[i] = s.rbuf[(k + 1) + i - 1]
    BY <1>4, <2>1, SubSeqProperties, k + 1 \in Int, n \in Int, SMTT(30)
  <2>3. n - (k + 1) + 1 = n - k /\ (IF k + 1 <= n THEN n - (k + 1) + 1 ELSE 0) = n - k
    BY <1>4
  <2>4. \A i \in 1 .. n - k : (k + 1) + i - 1 = k + i
    BY <1>4
  <2> QED
    BY <1>5, <2>2, <2>3, <2>4
<1>7. /\ t \in Tcp /\ SameSend(s, t) /\ t.rcv = s.rcv /\ t.rwnd = s.rwnd
      /\ t.ahead = s.ahead /\ t.rlist = s.rlist /\ t.rbuf = buf
  BY <1>1, <1>3, <1>5, <1>6 DEF Tcp, SameSend, Drain
<1>8. Edge(t) = Edge(s) /\ t.rwnd <= Space(t)
  <2>1. s.rwnd <= RcvBuf - n
    BY <1>1, <1>3 DEF Space
  <2>2. s.rwnd <= RcvBuf - (n - k)
    BY <1>2, <1>4, <2>1
  <2> QED
    BY <1>6, <1>7, <2>2 DEF Space, Edge
<1>9. Sound(t, A, F) /\ Grows(s, t)
  <2>1. Edge(s) \in Nat
    BY <1>2 DEF Edge
  <2> QED
    BY <1>1, <1>2, <1>7, <1>8, <2>1, ReceiveSound
<1>10. Quiet(s, t)
  BY <1>7 DEF SameSend, Quiet
<1>11. Taking(t, A, v)
  BY <1>7, <1>8 DEF Got, Taking
<1>12. (b + k) + Len(t.rbuf) = b + n
  <2>1. (b + k) + (n - k) = b + n
    OBVIOUS
  <2>2. Len(t.rbuf) = n - k
    BY <1>6, <1>7, Zenon
  <2> QED
    BY <2>1, <2>2, Zenon
<1>13. Counts(t, b + k, v)
  <2>1. Counts(s, b, v)
    BY DEF Got
  <2> QED
    BY <1>3, <1>7, <1>10, <1>12, <2>1 DEF Counts, Quiet
<1>14. ASSUME safe
       PROVE  Filled(t, b + k)
  <2>1. Filled(s, b)
    BY <1>14 DEF Got
  <2>2. Numbered(t, b + k)
    <3> SUFFICES ASSUME NEW i \in 1 .. Len(t.rbuf)
                 PROVE  t.rbuf[i] = (b + k) + i
      BY DEF Numbered
    <3>1. i \in 1 .. n - k /\ k + i \in 1 .. n
      BY <1>4, <1>6, <1>7
    <3>2. t.rbuf[i] = s.rbuf[k + i]
      BY <1>6, <1>7, <3>1
    <3>3. s.rbuf[k + i] = b + (k + i)
      BY <1>3, <2>1, <3>1 DEF Filled, Numbered
    <3> QED
      BY <1>4, <3>1, <3>2, <3>3
  <2> QED
    BY <1>7, <1>10, <2>1, <2>2 DEF Filled, Holds, Quiet
<1> QED
  BY <1>9, <1>10, <1>11, <1>13, <1>14 DEF Drained, Got

\* and opening the window again, with the ack that tells the peer of it.
LEMMA OpenWindowKeeps ==
  ASSUME NEW A, NEW F, Down(F), path \in Paths, NEW v \in Nat, NEW b \in Nat,
         NEW safe, NEW s, Sound(s, A, F), Got(s, A, v, b, safe), NEW luck \in Chance,
         NEW t, t = OpenWindow(s, luck)
  PROVE  Drained(s, 0, A, F, v, b, safe, t)
<1>1. s \in Tcp /\ s.rwnd <= Space(s) /\ s.rcv \in A
  BY DEF Sound
<1>2. Len(s.rbuf) \in Nat /\ s.rcv \in Nat /\ s.rwnd \in Nat /\ RcvBuf \in Nat
  BY <1>1, TcpFields, Constants
<1>3. b + 0 = b
  OBVIOUS
<1>4. Space(s) \in Nat
  <2>1. RcvBuf - Len(s.rbuf) \in Int
    BY <1>2
  <2>2. Space(s) \in Int
    BY <2>1 DEF Space
  <2> QED
    BY <1>1, <1>2, <2>2
<1>5. PICK o : o = [s EXCEPT !.rwnd = Space(s)]
  OBVIOUS
<1>6. /\ o \in Tcp /\ SameSend(s, o) /\ o.rcv = s.rcv /\ o.rwnd = Space(s)
      /\ o.rbuf = s.rbuf /\ o.ahead = s.ahead /\ o.rlist = s.rlist
  BY <1>1, <1>4, <1>5 DEF Tcp, SameSend
<1>7. /\ Edge(s) \in Nat /\ Edge(o) \in Nat /\ Edge(s) <= Edge(o)
      /\ o.rwnd <= Space(o)
  BY <1>1, <1>2, <1>4, <1>6, SMTT(30) DEF Edge, Space
<1>8. Sound(o, A, F) /\ Grows(s, o)
  BY <1>1, <1>2, <1>6, <1>7, ReceiveSound
<1>9. Quiet(s, o)
  BY <1>6 DEF SameSend, Quiet
<1>10. Got(o, A, v, b, safe)
  <2>1. Taking(o, A, v)
    <3>1. \A x \in s.rlist : End(x) \in Nat
      BY <1>1, SavedFields, TcpFields
    <3>2. /\ s.rcv <= v + 1 /\ IsFiniteSet(s.rlist)
          /\ \A x \in s.rlist : /\ x.seq > 0 /\ x.len > 0 /\ End(x) <= v + 1
                                /\ End(x) <= Edge(s) /\ End(x) \in A
      BY DEF Got, Taking
    <3>3. \A x \in s.rlist : End(x) <= Edge(o)
      BY <1>7, <3>1, <3>2
    <3> QED
      BY <1>6, <3>2, <3>3 DEF Taking
  <2>2. Counts(o, b, v)
    BY <1>6, <1>9 DEF Got, Counts, Quiet
  <2>3. safe => Filled(o, b)
    BY <1>6, <1>9 DEF Got, Filled, Numbered, Holds, Quiet
  <2> QED
    BY <2>1, <2>2, <2>3 DEF Got
<1>11. CASE t = s
  <2>1. SameStream(s, s) /\ Quiet(s, s)
    BY DEF SameStream, Quiet
  <2>2. Grows(s, s)
    BY <1>1, <2>1, SameSound
  <2> QED
    BY <1>3, <1>11, <2>1, <2>2 DEF Drained
<1>12. CASE t = o
  BY <1>3, <1>8, <1>9, <1>10, <1>12 DEF Drained
<1>13. CASE t = attemptSend(o, "immediate", luck)
  <2>1. "immediate" \in Flags
    BY DEF Flags
  <2>2. Sound(t, A, F) /\ Alike(o, t) /\ Grows(o, t)
    BY <1>8, <1>13, <2>1, AttemptSendSound
  <2>3. t \in Tcp
    BY <2>2 DEF Sound
  <2>4. Grows(s, t)
    BY <1>1, <1>6, <1>8, <2>2, <2>3, GrowsOn
  <2>5. Quiet(s, t) /\ SameGot(o, t)
    BY <1>9, <2>2 DEF Alike, Quiet, SameGot
  <2>6. Got(t, A, v, b, safe)
    BY <1>10, <2>5, SameGotKeeps
  <2> QED
    BY <1>3, <2>2, <2>4, <2>5, <2>6 DEF Drained
<1> QED
  BY <1>5, <1>11, <1>12, <1>13, Zenon DEF OpenWindow

-----------------------------------------------------------------------------
(* Going away.                                                             *)

\* A finite set of natural numbers that is not empty has a greatest element.
LEMMA FiniteMax ==
  ASSUME NEW T, T \subseteq Nat, IsFiniteSet(T), T # {}
  PROVE  \E x \in T : \A y \in T : y <= x
<1> DEFINE Topped(U) == U = {} \/ \E x \in U : \A y \in U : y <= x
           S == {n \in Nat : \A U \in SUBSET Nat :
                   IsFiniteSet(U) /\ Cardinality(U) = n => Topped(U)}
<1>1. 0 \in S
  <2> SUFFICES ASSUME NEW U \in SUBSET Nat, IsFiniteSet(U), Cardinality(U) = 0
               PROVE  Topped(U)
    OBVIOUS
  <2>1. U = {}
    BY FS_EmptySet
  <2> QED
    BY <2>1
<1>2. ASSUME NEW n \in Nat, n \in S
      PROVE  n + 1 \in S
  <2> SUFFICES ASSUME NEW U \in SUBSET Nat, IsFiniteSet(U),
                      Cardinality(U) = n + 1
               PROVE  Topped(U)
    OBVIOUS
  <2>1. CASE U = {}
    BY <2>1
  <2>2. CASE U # {}
    <3>1. PICK x \in U : TRUE
      BY <2>2
    <3>2. PICK V : V = U \ {x}
      OBVIOUS
    <3>3. IsFiniteSet(V) /\ Cardinality(V) = Cardinality(U) - 1
      BY <3>1, <3>2, FS_RemoveElement
    <3>4. Cardinality(V) = n /\ V \in SUBSET Nat
      BY <3>2, <3>3
    <3>5. Topped(V)
      BY <1>2, <3>3, <3>4
    <3>6. CASE V = {}
      <4>1. \A y \in U : y <= x
        BY <3>2, <3>6
      <4> QED
        BY <3>1, <4>1
    <3>7. CASE V # {}
      <4>1. PICK z \in V : \A y \in V : y <= z
        BY <3>5, <3>7
      <4>2. z \in U /\ z \in Nat /\ x \in Nat
        BY <3>2
      <4>3. CASE z <= x
        <5>1. \A y \in U : y \in Nat /\ (y = x \/ y <= z)
          BY <3>2, <4>1
        <5>2. \A y \in U : y <= x
          BY <4>2, <4>3, <5>1
        <5> QED
          BY <3>1, <5>2
      <4>4. CASE x <= z
        <5>1. \A y \in U : y <= z
          BY <3>2, <4>1, <4>4
        <5> QED
          BY <4>2, <5>1
      <4> QED
        BY <4>2, <4>3, <4>4
    <3> QED
      BY <3>6, <3>7
  <2> QED
    BY <2>1, <2>2
<1> HIDE DEF S
<1>3. \A n \in Nat : n \in S
  BY <1>1, <1>2, SetInduction
<1>4. Cardinality(T) \in S
  BY <1>3, FS_CardinalityType
<1>5. Topped(T)
  BY <1>4 DEF S
<1> QED
  BY <1>5

\* The sizes have a least and a greatest.
LEMMA MssBounds ==
  Min(Mss) \in Mss /\ Max(Mss) \in Mss
<1>1. Mss \subseteq Nat /\ Mss # {} /\ IsFiniteSet(Mss) /\ Mss \subseteq Int
  BY Constants
<1>2. PICK x \in Mss : \A y \in Mss : y <= x
  BY <1>1, FiniteMax
<1>3. Max(Mss) = x
  BY <1>1, <1>2, MaxIs
<1>4. PICK z \in Mss : \A y \in Mss : ~(y < z)
  BY <1>1, LeastElement
<1>5. \A y \in Mss : z <= y
  BY <1>1, <1>4
<1>6. Min(Mss) = z
  BY <1>1, <1>5, MinIs
<1> QED
  BY <1>3, <1>6

\* The members of an end before it is used.
LEMMA NewTcpIs ==
  /\ NewTcp \in Tcp
  /\ NewTcp.state = "LISTEN" /\ NewTcp.shutdown = "NONE" /\ NewTcp.una = 0
  /\ NewTcp.nxt = 0 /\ NewTcp.swnd = 1 /\ NewTcp.rcv = 0
  /\ NewTcp.rwnd = RcvBuf /\ NewTcp.slist = <<>> /\ NewTcp.sbuf = <<>>
  /\ NewTcp.rbuf = <<>> /\ NewTcp.rlist = {} /\ NewTcp.rto = FALSE
  /\ NewTcp.out = {}
<1>1. [i \in 0 .. RcvBuf - 1 |-> Junk] \in [0 .. RcvBuf - 1 -> Int]
  BY DEF Junk
<1>2. RcvBuf \in Nat /\ <<>> \in Seq(Segment) /\ <<>> \in Seq(Nat)
      /\ <<>> \in Seq(Int) /\ {} \in SUBSET Saved /\ {} \in SUBSET Datagram
  BY Constants
<1>3. PICK f : f = [i \in 0 .. RcvBuf - 1 |-> Junk]
  OBVIOUS
<1> QED
  BY <1>1, <1>2, <1>3, MssBounds DEF NewTcp, Tcp

\* An end that went away.
Dead(s) ==
  /\ s \in Tcp /\ s.state = "GONE" /\ s.shutdown # "NONE" /\ s.rbuf = <<>>
  /\ s.rwnd <= Space(s) /\ s.out = {}

\* t is s after its datagrams were sent.
Cleared(s, t) ==
  /\ t \in Tcp /\ t.out = {} /\ SameGot(s, t)
  /\ t.una = s.una /\ t.nxt = s.nxt /\ t.swnd = s.swnd /\ t.slist = s.slist
  /\ t.sbuf = s.sbuf /\ t.rto = s.rto /\ t.state = s.state
  /\ t.aborted = s.aborted

\* clock_check: an end that is finished goes away, any other lives on with its
\* datagrams sent.
LEMMA AdjustClockIs ==
  ASSUME NEW s \in Tcp, NEW t, t = AdjustClock(s)
  PROVE  /\ Finished(s) => Dead(t) /\ t.shutdown = s.shutdown
                           /\ t.aborted = s.aborted
         /\ ~Finished(s) => Cleared(s, t)
<1>1. CASE Finished(s)
  <2>1. t = [NewTcp EXCEPT !.state = "GONE", !.shutdown = s.shutdown,
                           !.aborted = s.aborted]
    BY <1>1 DEF AdjustClock
  <2>2. s.shutdown \in {"NONE", "GRACEFUL", "FORCEFUL"} /\ s.aborted \in BOOLEAN
        /\ s.shutdown # "NONE"
    BY <1>1 DEF Tcp, Finished
  <2>3. /\ t \in Tcp /\ t.state = "GONE" /\ t.shutdown = s.shutdown
        /\ t.rbuf = <<>> /\ t.rwnd = RcvBuf /\ t.aborted = s.aborted
        /\ t.out = {}
    BY <2>1, <2>2, NewTcpIs, ZenonT(60) DEF Tcp
  <2>4. t.rwnd <= Space(t)
    <3>1. RcvBuf - Len(<<>>) = RcvBuf /\ RcvBuf <= RcvBuf
      BY Constants
    <3> QED
      BY <2>3, <3>1 DEF Space
  <2> QED
    BY <1>1, <2>2, <2>3, <2>4 DEF Dead
<1>2. CASE ~Finished(s)
  <2>1. t = [s EXCEPT !.out = {}]
    BY <1>2 DEF AdjustClock
  <2>2. {} \in SUBSET Datagram
    OBVIOUS
  <2>3. Cleared(s, t)
    BY <2>1, <2>2, ZenonT(60) DEF Tcp, Cleared, SameGot
  <2> QED
    BY <1>2, <2>3
<1> QED
  BY <1>1, <1>2

\* An end whose datagrams were sent is as sound as before.
LEMMA ClearedIs ==
  ASSUME NEW A, NEW F, NEW s, Sound(s, A, F), NEW t, Cleared(s, t)
  PROVE  /\ Sound(t, A, F) /\ Total(t) = Total(s) /\ Edge(t) = Edge(s)
         /\ \A q : Known(t, q) <=> Known(s, q)
<1>1. s \in Tcp /\ Sending(s) /\ Total(s) < SeqSpace
      /\ s.una + s.swnd \in F /\ s.rcv \in A /\ s.rwnd <= Space(s)
      /\ s.nxt \in F
  BY DEF Sound
<1>2. Total(t) = Total(s) /\ Edge(t) = Edge(s) /\ Space(t) = Space(s)
  BY DEF Cleared, SameGot, Total, Edge, Space
<1>3. \A q : Known(t, q) <=> Known(s, q)
  BY DEF Cleared, Known
<1>4. Sending(t)
  BY <1>1, <1>2 DEF Cleared, Sending
<1>5. Outs(t, A)
  BY DEF Cleared, Outs
<1>6. Sound(t, A, F)
  BY <1>1, <1>2, <1>4, <1>5 DEF Sound, Cleared, SameGot
<1> QED
  BY <1>2, <1>3, <1>6

\* What is known, read or written later on makes no difference to an end.
LEMMA SoundStays ==
  ASSUME NEW A, NEW F, NEW B, NEW G, A \subseteq B, F \subseteq G,
         NEW s, Sound(s, A, F)
  PROVE  Sound(s, B, G)
BY DEF Sound, Outs

\* So does what was received when the peer writes more.
LEMMA GotStays ==
  ASSUME NEW A, NEW B, A \subseteq B, NEW v \in Nat, NEW x \in Nat, v <= x,
         NEW b \in Nat, NEW safe, NEW s \in Tcp, Got(s, A, v, b, safe)
  PROVE  Got(s, B, x, b, safe)
<1>1. /\ s.rcv <= v + 1 /\ IsFiniteSet(s.rlist)
      /\ \A y \in s.rlist : /\ y.seq > 0 /\ y.len > 0 /\ End(y) <= v + 1
                            /\ End(y) <= Edge(s) /\ End(y) \in A
  BY DEF Got, Taking
<1>2. \A y \in s.rlist : End(y) \in Nat
  BY TcpFields, SavedFields
<1>3. s.rcv \in Nat /\ Len(s.rbuf) \in Nat
  BY TcpFields
<1>4. Taking(s, B, x)
  <2>1. s.rcv <= x + 1
    BY <1>1, <1>3
  <2>2. \A y \in s.rlist : End(y) <= x + 1
    BY <1>1, <1>2
  <2> QED
    BY <1>1, <2>1, <2>2 DEF Taking
<1>5. Counts(s, b, x)
  <2>1. Counts(s, b, v)
    BY DEF Got
  <2>2. b + Len(s.rbuf) <= x
    BY <1>3, <2>1 DEF Counts
  <2> QED
    BY <2>1, <2>2 DEF Counts
<1> QED
  BY <1>4, <1>5 DEF Got

-----------------------------------------------------------------------------
(* Both ends.                                                              *)

Gone(e) == tcp[e].state = "GONE"

\* What an end may acknowledge, how far it may send, and how far its peer has
\* received.  Nothing is asked of an end whose peer went away.
Acks(e)  == IF Gone(Peer(e)) THEN Nat
            ELSE {n \in Nat : Known(tcp[Peer(e)], n)}
Room(e)  == IF Gone(Peer(e)) THEN Nat ELSE {n \in Nat : n <= Edge(tcp[Peer(e)])}
Taken(e) == IF Gone(Peer(e)) THEN Nat ELSE {n \in Nat : n <= tcp[Peer(e)].rcv}

\* The bytes an end receives are in order: the client starts the connection,
\* so what the server receives, and the other way if the server is silent.
Safe(e) == e = "server" \/ Bytes["server"] = 0

\* The server has received the CONNECT.
Greeted == Gone("server") \/ tcp["server"].rcv > 0

Typed ==
  /\ tcp \in [Ends -> Tcp] /\ net \in [Ends -> SUBSET Datagram] /\ path \in Paths
  /\ written \in [Ends -> Nat] /\ read \in [Ends -> Seq(Int)]
  /\ \A e \in Ends : written[e] <= Bytes[e]

Alive(s, A, F, L, v, w, b, safe) ==
  /\ Sound(s, A, F) /\ Got(s, A, v, b, safe) /\ Stated(s, w)
  /\ s.una \in L /\ Edge(s) >= 1 /\ s.out = {}

EndInv(e) ==
  /\ Gone(e) => Dead(tcp[e])
  /\ ~Gone(e) => Alive(tcp[e], Acks(e), Room(e), Taken(e), written[Peer(e)],
                       written[e], Len(read[e]), Safe(e))

\* What the user has read.
ReadOK(r, v, safe) ==
  Len(r) <= v /\ (safe => \A i \in 1 .. Len(r) : r[i] = i)

ReadInv(e) == ReadOK(read[e], written[Peer(e)], Safe(e))

\* The datagrams that e sent: for its peer,
Good(p, A, F, w) ==
  /\ DataOK(p) /\ p.ack \in A
  /\ p.data # <<>> => DataEnd(p) \in F /\ DataEnd(p) <= w + 1
\* and for itself.
From(p, s) ==
  /\ p.ack <= s.rcv /\ p.ack + p.wnd <= Edge(s)
  /\ p.data # <<>> => Known(s, DataEnd(p))

NetInv(e) ==
  \A p \in net[Peer(e)] :
    /\ Good(p, Acks(e), Room(e), written[e])
    /\ ~Gone(e) => From(p, tcp[e])
    /\ e = "server" /\ p.data # <<>> => Greeted

GreetInv ==
  /\ ~Gone("server") /\ Total(tcp["server"]) > 0 => tcp["server"].rcv > 0
  /\ tcp["server"].state # "SYN_SENT"
  /\ tcp["client"].state \in {"SYN_RECEIVED", "ESTABLISHED"} => Greeted
  /\ written["client"] > 0 => Greeted

Inv ==
  /\ Typed /\ GreetInv
  /\ \A e \in Ends : EndInv(e) /\ ReadInv(e) /\ NetInv(e)

\* A turn of e: it becomes s, which AdjustClock looks at, and what it sends is
\* put on its way.
Moved(s, t) ==
  /\ s.state = "ESTABLISHED" => t.state = "ESTABLISHED" \/ t.aborted
  /\ t.state # "GONE"

Enters(e, s, w) ==
  /\ e = "server" => s.state # "SYN_SENT" /\ (Total(s) > 0 => s.rcv > 0)
  /\ e = "client" =>
       (s.state \in {"SYN_RECEIVED", "ESTABLISHED"} \/ w > 0 => Greeted)

Ran(e, s) ==
  /\ ~Gone(e)
  /\ Sound(s, Acks(e), Room(e)) /\ Grows(tcp[e], s)
  /\ Got(s, Acks(e), written[Peer(e)], Len(read'[e]), Safe(e))
  /\ Stated(s, written'[e]) /\ s.una \in Taken(e)
  /\ Moved(tcp[e], s) /\ Enters(e, s, written'[e])
  /\ written[e] <= written'[e] /\ written'[e] <= Bytes[e]
  /\ ReadOK(read'[e], written[Peer(e)], Safe(e))

Idle(e, s) == Gone(e) /\ s = tcp[e] /\ written' = written /\ read' = read

Turn(e, s, rest) ==
  /\ Step(e, s, rest) /\ rest \in SUBSET net[e] /\ path' = path
  /\ written' \in [Ends -> Nat] /\ written'[Peer(e)] = written[Peer(e)]
  /\ read' \in [Ends -> Seq(Int)] /\ read'[Peer(e)] = read[Peer(e)]
  /\ Ran(e, s) \/ Idle(e, s)

\* There are two ends.
LEMMA PeerIs ==
  ASSUME NEW e \in Ends
  PROVE  /\ Peer(e) \in Ends /\ Peer(e) # e /\ Peer(Peer(e)) = e
         /\ \A o \in Ends : o = e \/ o = Peer(e)
BY DEF Ends, Peer

\* What the new state of its peer lets an end acknowledge and send.
LEMMA PeerPrimed ==
  ASSUME NEW e \in Ends, NEW t, t = tcp'[Peer(e)]
  PROVE  /\ Acks(e)' = IF t.state = "GONE" THEN Nat ELSE {n \in Nat : Known(t, n)}
         /\ Room(e)' = IF t.state = "GONE" THEN Nat ELSE {n \in Nat : n <= Edge(t)}
         /\ Taken(e)' = IF t.state = "GONE" THEN Nat ELSE {n \in Nat : n <= t.rcv}
BY DEF Acks, Room, Taken, Gone, Peer

\* What a turn of e makes of it.
Becomes(e, s, t) ==
  /\ t \in Tcp
  /\ \/ Dead(t) /\ Finished(s) /\ t.shutdown = s.shutdown /\ t.aborted = s.aborted
     \/ ~Gone(e) /\ Cleared(s, t) /\ t.state # "GONE"

\* The states after a turn of e: its own, its peer's and the datagrams'.
LEMMA TurnIs ==
  ASSUME Inv, NEW e \in Ends, NEW s, NEW rest, Turn(e, s, rest)
  PROVE  /\ s \in Tcp /\ Becomes(e, s, tcp'[e]) /\ tcp'[Peer(e)] = tcp[Peer(e)]
         /\ Gone(e) => Dead(tcp'[e])
         /\ net'[e] = rest /\ tcp' \in [Ends -> Tcp]
         /\ net' \in [Ends -> SUBSET Datagram]
         /\ net'[Peer(e)] \subseteq net[Peer(e)] \cup s.out
<1>1. /\ tcp \in [Ends -> Tcp] /\ net \in [Ends -> SUBSET Datagram]
      /\ EndInv(e)
  BY DEF Inv, Typed
<1>2. Peer(e) \in Ends /\ Peer(e) # e
  BY PeerIs
<1>3. /\ Step(e, s, rest) /\ rest \in SUBSET net[e]
      /\ Ran(e, s) \/ Idle(e, s)
  BY DEF Turn
<1>4. PICK kept \in SUBSET s.out :
        net' = [net EXCEPT ![e] = rest, ![Peer(e)] = @ \cup kept]
  BY <1>3 DEF Step
<1>5. tcp' = [tcp EXCEPT ![e] = AdjustClock(s)]
  BY <1>3 DEF Step
<1>6. s \in Tcp /\ (Gone(e) => s = tcp[e] /\ Dead(s))
  <2>1. CASE Ran(e, s)
    BY <2>1 DEF Ran, Sound
  <2>2. CASE Idle(e, s)
    BY <1>1, <2>2 DEF Idle, EndInv, Dead
  <2> QED
    BY <1>3, <2>1, <2>2
<1>7. s.out \in SUBSET Datagram
  BY <1>6, TcpFields
<1>8. PICK t : t = AdjustClock(s)
  OBVIOUS
<1>9. /\ Finished(s) => Dead(t) /\ t.shutdown = s.shutdown
                        /\ t.aborted = s.aborted
      /\ ~Finished(s) => Cleared(s, t)
  BY <1>6, <1>8, AdjustClockIs
<1>10. Gone(e) => Finished(s)
  BY <1>6 DEF Dead, Finished, Tcp
<1>11. t \in Tcp
  BY <1>9 DEF Dead, Cleared
<1>12. ~Finished(s) => t.state # "GONE"
  <2> SUFFICES ASSUME ~Finished(s) PROVE t.state # "GONE"
    OBVIOUS
  <2>1. Ran(e, s)
    BY <1>3, <1>10 DEF Idle
  <2> QED
    BY <1>9, <2>1 DEF Ran, Moved, Cleared
<1>13. Becomes(e, s, t)
  BY <1>9, <1>10, <1>11, <1>12 DEF Becomes
<1>14. tcp'[e] = t /\ tcp'[Peer(e)] = tcp[Peer(e)] /\ tcp' \in [Ends -> Tcp]
  BY <1>1, <1>2, <1>5, <1>8, <1>11
<1>15. /\ net'[e] = rest /\ net'[Peer(e)] = net[Peer(e)] \cup kept
       /\ net' \in [Ends -> SUBSET Datagram]
  BY <1>1, <1>2, <1>3, <1>4, <1>7
<1> QED
  BY <1>6, <1>9, <1>10, <1>13, <1>14, <1>15

\* Nothing is taken back from the peer of the end that made a turn.
LEMMA PeerGains ==
  ASSUME Inv, NEW e \in Ends, NEW s, NEW rest, Turn(e, s, rest)
  PROVE  /\ Acks(Peer(e)) \subseteq Acks(Peer(e))'
         /\ Room(Peer(e)) \subseteq Room(Peer(e))'
         /\ Taken(Peer(e)) \subseteq Taken(Peer(e))'
         /\ written[e] <= written'[e] /\ written'[e] <= Bytes[e]
         /\ written[e] \in Nat /\ written'[e] \in Nat
<1>1. PICK o \in Ends : o = Peer(e) /\ Peer(o) = e
  BY PeerIs
<1>2. PICK t : t = tcp'[e]
  OBVIOUS
<1>3. PICK u : u = tcp[e]
  OBVIOUS
<1>4. u \in Tcp /\ s \in Tcp /\ Becomes(e, s, t)
  BY <1>2, <1>3, TurnIs DEF Inv, Typed
<1>5. /\ Acks(o) = IF Gone(e) THEN Nat ELSE {n \in Nat : Known(u, n)}
      /\ Room(o) = IF Gone(e) THEN Nat ELSE {n \in Nat : n <= Edge(u)}
      /\ Taken(o) = IF Gone(e) THEN Nat ELSE {n \in Nat : n <= u.rcv}
  BY <1>1, <1>3 DEF Acks, Room, Taken
<1>6. /\ Acks(o)' = IF t.state = "GONE" THEN Nat ELSE {n \in Nat : Known(t, n)}
      /\ Room(o)' = IF t.state = "GONE" THEN Nat ELSE {n \in Nat : n <= Edge(t)}
      /\ Taken(o)' = IF t.state = "GONE" THEN Nat ELSE {n \in Nat : n <= t.rcv}
  BY <1>1, <1>2, PeerPrimed
<1>7. ASSUME t.state = "GONE"
      PROVE  /\ Acks(o) \subseteq Acks(o)' /\ Room(o) \subseteq Room(o)'
             /\ Taken(o) \subseteq Taken(o)'
  BY <1>5, <1>6, <1>7
<1>8. ASSUME t.state # "GONE"
      PROVE  /\ Acks(o) \subseteq Acks(o)' /\ Room(o) \subseteq Room(o)'
             /\ Taken(o) \subseteq Taken(o)'
  <2>1. ~Gone(e) /\ Cleared(s, t)
    BY <1>4, <1>8 DEF Becomes, Dead
  <2>2. Ran(e, s)
    BY <2>1 DEF Turn, Idle
  <2>3. Sound(s, Acks(e), Room(e)) /\ Grows(u, s)
    BY <1>3, <2>2 DEF Ran
  <2>4. Edge(t) = Edge(s) /\ t.rcv = s.rcv /\ \A q : Known(t, q) <=> Known(s, q)
    BY <2>1, <2>3, ClearedIs DEF Cleared, SameGot
  <2>5. /\ u.rcv \in Nat /\ s.rcv \in Nat /\ Edge(u) \in Nat /\ Edge(s) \in Nat
    BY <1>4, TcpFields DEF Edge
  <2>6. u.rcv <= s.rcv /\ Edge(u) <= Edge(s)
        /\ \A q \in Nat : Known(u, q) => Known(s, q)
    BY <2>3 DEF Grows
  <2>7. \A n \in Nat : (n <= u.rcv => n <= t.rcv) /\ (n <= Edge(u) => n <= Edge(t))
    BY <2>4, <2>5, <2>6
  <2> QED
    BY <1>5, <1>6, <1>8, <2>1, <2>4, <2>6, <2>7
<1>9. /\ written[e] <= written'[e] /\ written'[e] <= Bytes[e]
      /\ written[e] \in Nat /\ written'[e] \in Nat
  <2>1. /\ written \in [Ends -> Nat] /\ written' \in [Ends -> Nat]
        /\ written[e] <= Bytes[e] /\ (Ran(e, s) \/ Idle(e, s))
    BY DEF Inv, Typed, Turn
  <2>2. written[e] \in Nat /\ written'[e] \in Nat
    BY <2>1
  <2>3. CASE Ran(e, s)
    BY <2>2, <2>3 DEF Ran
  <2>4. CASE Idle(e, s)
    <3>1. written'[e] = written[e]
      BY <2>4 DEF Idle
    <3> QED
      BY <2>1, <2>2, <3>1
  <2> QED
    BY <2>1, <2>3, <2>4
<1>10. /\ Acks(o) \subseteq Acks(o)' /\ Room(o) \subseteq Room(o)'
       /\ Taken(o) \subseteq Taken(o)'
  BY <1>7, <1>8
<1> QED
  BY <1>1, <1>9, <1>10

\* And nothing changes for the end itself.
LEMMA PeerStays ==
  ASSUME Inv, NEW e \in Ends, NEW s, NEW rest, Turn(e, s, rest)
  PROVE  Acks(e)' = Acks(e) /\ Room(e)' = Room(e) /\ Taken(e)' = Taken(e)
<1>1. PICK t : t = tcp'[Peer(e)]
  OBVIOUS
<1>2. t = tcp[Peer(e)]
  BY <1>1, TurnIs
<1> QED
  BY <1>1, <1>2, PeerPrimed DEF Acks, Room, Taken, Gone

\* After its turn an end is as the invariant says,
LEMMA TurnEnd ==
  ASSUME Inv, NEW e \in Ends, NEW s, NEW rest, Turn(e, s, rest)
  PROVE  EndInv(e)'
<1>1. PICK t : t = tcp'[e]
  OBVIOUS
<1>2. Becomes(e, s, t)
  BY <1>1, TurnIs
<1>3. ASSUME t.state # "GONE"
      PROVE  Alive(t, Acks(e)', Room(e)', Taken(e)', written'[Peer(e)],
                   written'[e], Len(read'[e]), Safe(e))
  <2>1. ~Gone(e) /\ Cleared(s, t)
    BY <1>2, <1>3 DEF Becomes, Dead
  <2>2. Ran(e, s)
    BY <2>1 DEF Turn, Idle
  <2>3. /\ Sound(s, Acks(e), Room(e)) /\ Grows(tcp[e], s)
        /\ Got(s, Acks(e), written[Peer(e)], Len(read'[e]), Safe(e))
        /\ Stated(s, written'[e]) /\ s.una \in Taken(e)
    BY <2>2 DEF Ran
  <2>4. /\ Sound(t, Acks(e), Room(e)) /\ Total(t) = Total(s) /\ Edge(t) = Edge(s)
    BY <2>1, <2>3, ClearedIs
  <2>5. t.out = {} /\ SameGot(s, t) /\ t.una = s.una /\ t.state = s.state
    BY <2>1 DEF Cleared
  <2>6. Got(t, Acks(e), written[Peer(e)], Len(read'[e]), Safe(e))
    BY <2>3, <2>5, SameGotKeeps
  <2>7. Stated(t, written'[e])
    BY <2>3, <2>4, <2>5 DEF Stated
  <2>8. Edge(t) >= 1
    <3>1. Edge(tcp[e]) >= 1 /\ tcp[e] \in Tcp /\ s \in Tcp
      BY <2>1, <2>3 DEF Inv, Typed, EndInv, Alive, Sound
    <3>2. Edge(tcp[e]) \in Nat /\ Edge(s) \in Nat
      BY <3>1, TcpFields DEF Edge
    <3>3. Edge(tcp[e]) <= Edge(s)
      BY <2>3 DEF Grows
    <3> QED
      BY <2>4, <3>1, <3>2, <3>3
  <2>9. /\ Acks(e)' = Acks(e) /\ Room(e)' = Room(e) /\ Taken(e)' = Taken(e)
        /\ written'[Peer(e)] = written[Peer(e)]
    BY PeerStays DEF Turn
  <2>10. t.una \in Taken(e)
    BY <2>3, <2>5
  <2>11. Alive(t, Acks(e), Room(e), Taken(e), written[Peer(e)], written'[e],
               Len(read'[e]), Safe(e))
    BY <2>4, <2>5, <2>6, <2>7, <2>8, <2>10 DEF Alive
  <2> QED
    BY <2>9, <2>11
<1>4. t.state = "GONE" => Dead(t)
  BY <1>2 DEF Becomes
<1> QED
  BY <1>1, <1>3, <1>4 DEF EndInv, Gone

\* and so is its peer, from which nothing was taken back.
LEMMA TurnPeer ==
  ASSUME Inv, NEW e \in Ends, NEW s, NEW rest, Turn(e, s, rest)
  PROVE  EndInv(Peer(e))'
<1>1. PICK o \in Ends : o = Peer(e) /\ Peer(o) = e
  BY PeerIs
<1>2. PICK t : t = tcp'[o]
  OBVIOUS
<1>3. t = tcp[o]
  BY <1>1, <1>2, TurnIs
<1>4. EndInv(o)
  BY DEF Inv
<1>5. t.state = "GONE" => Dead(t)
  BY <1>3, <1>4 DEF EndInv, Gone
<1>6. ASSUME t.state # "GONE"
      PROVE  Alive(t, Acks(o)', Room(o)', Taken(o)', written'[Peer(o)],
                   written'[o], Len(read'[o]), Safe(o))
  <2>1. Alive(t, Acks(o), Room(o), Taken(o), written[e], written[o],
              Len(read[o]), Safe(o))
    BY <1>1, <1>3, <1>4, <1>6 DEF EndInv, Gone
  <2>2. /\ Sound(t, Acks(o), Room(o))
        /\ Got(t, Acks(o), written[e], Len(read[o]), Safe(o))
        /\ Stated(t, written[o]) /\ t.una \in Taken(o)
        /\ Edge(t) >= 1 /\ t.out = {}
    BY <2>1 DEF Alive
  <2>3. /\ Acks(o) \subseteq Acks(o)' /\ Room(o) \subseteq Room(o)'
        /\ Taken(o) \subseteq Taken(o)' /\ written[e] <= written'[e]
        /\ written[e] \in Nat /\ written'[e] \in Nat
    BY <1>1, PeerGains
  <2>4. written'[o] = written[o] /\ read'[o] = read[o] /\ Len(read[o]) \in Nat
    BY <1>1 DEF Turn, Inv, Typed
  <2>5. t \in Tcp
    BY <2>2 DEF Sound
  <2>6. Sound(t, Acks(o)', Room(o)')
    BY <2>2, <2>3, SoundStays
  <2>7. Got(t, Acks(o)', written'[e], Len(read[o]), Safe(o))
    BY <2>2, <2>3, <2>4, <2>5, GotStays
  <2>8. t.una \in Taken(o)'
    BY <2>2, <2>3
  <2>9. Alive(t, Acks(o)', Room(o)', Taken(o)', written'[e], written[o],
              Len(read[o]), Safe(o))
    BY <2>2, <2>6, <2>7, <2>8 DEF Alive
  <2> QED
    BY <1>1, <2>4, <2>9
<1>7. EndInv(o)'
  BY <1>2, <1>5, <1>6 DEF EndInv, Gone
<1> QED
  BY <1>1, <1>7

\* What the users read stays in order.
LEMMA TurnReads ==
  ASSUME Inv, NEW e \in Ends, NEW s, NEW rest, Turn(e, s, rest)
  PROVE  ReadInv(e)' /\ ReadInv(Peer(e))'
<1>1. PICK o \in Ends : o = Peer(e) /\ Peer(o) = e
  BY PeerIs
<1>2. /\ written'[o] = written[o] /\ read'[o] = read[o] /\ Len(read[o]) \in Nat
      /\ ReadInv(e) /\ ReadInv(o)
  BY <1>1 DEF Turn, Inv, Typed
<1>3. ReadOK(read'[e], written'[Peer(e)], Safe(e))
  <2>1. CASE Ran(e, s)
    BY <1>1, <1>2, <2>1 DEF Ran
  <2>2. CASE Idle(e, s)
    BY <1>2, <2>2 DEF Idle, ReadInv
  <2> QED
    BY <2>1, <2>2 DEF Turn
<1>4. ReadOK(read'[o], written'[e], Safe(o))
  <2>1. ReadOK(read[o], written[e], Safe(o))
    BY <1>1, <1>2 DEF ReadInv
  <2>2. written[e] <= written'[e] /\ written[e] \in Nat /\ written'[e] \in Nat
    BY PeerGains
  <2>3. Len(read[o]) <= written'[e]
    BY <1>2, <2>1, <2>2 DEF ReadOK
  <2> QED
    BY <1>2, <2>1, <2>3 DEF ReadOK
<1>5. ReadInv(e)'
  BY <1>3 DEF ReadInv
<1>6. ReadInv(o)'
  BY <1>1, <1>4 DEF ReadInv
<1> QED
  BY <1>1, <1>5, <1>6

\* The server has received a CONNECT before any end is connected.
LEMMA TurnGreets ==
  ASSUME Inv, NEW e \in Ends, NEW s, NEW rest, Turn(e, s, rest)
  PROVE  GreetInv' /\ (Greeted => Greeted')
<1>1. PICK o \in Ends : o = Peer(e) /\ o # e
  BY PeerIs
<1>2. PICK t : t = tcp'[e]
  OBVIOUS
<1>3. PICK u : u = tcp[e]
  OBVIOUS
<1>4. /\ Becomes(e, s, t) /\ tcp'[o] = tcp[o] /\ written'[o] = written[o]
      /\ u \in Tcp /\ s \in Tcp
  BY <1>1, <1>2, <1>3, TurnIs DEF Turn, Inv, Typed
<1>5. t.state # "GONE" =>
        /\ t.state = s.state /\ Total(t) = Total(s) /\ t.rcv = s.rcv
        /\ u.rcv <= s.rcv /\ ~Gone(e) /\ Enters(e, s, written'[e])
  <2> SUFFICES ASSUME t.state # "GONE"
               PROVE  /\ t.state = s.state /\ Total(t) = Total(s) /\ t.rcv = s.rcv
                      /\ u.rcv <= s.rcv /\ ~Gone(e) /\ Enters(e, s, written'[e])
    OBVIOUS
  <2>1. ~Gone(e) /\ Cleared(s, t)
    BY <1>4 DEF Becomes, Dead
  <2>2. Ran(e, s)
    BY <2>1 DEF Turn, Idle
  <2>3. t.state = s.state /\ t.rcv = s.rcv
    BY <2>1 DEF Cleared, SameGot
  <2>4. Total(t) = Total(s)
    BY <2>1, <2>2, ClearedIs DEF Ran
  <2> QED
    BY <1>3, <2>1, <2>2, <2>3, <2>4 DEF Ran, Grows
<1>6. u.rcv \in Nat /\ s.rcv \in Nat
  BY <1>4, TcpFields
<1>7. written'["client"] > 0 => (written["client"] > 0 \/ e = "client")
  BY <1>1, <1>4 DEF Peer, Ends
<1>8. CASE e = "server"
  <2>1. o = "client"
    BY <1>1, <1>8 DEF Ends
  <2>2. Greeted => Greeted'
    BY <1>2, <1>3, <1>5, <1>6, <1>8 DEF Greeted, Gone
  <2>3. t.state # "SYN_SENT" /\ (t.state # "GONE" /\ Total(t) > 0 => t.rcv > 0)
    BY <1>5, <1>8 DEF Enters
  <2>4. /\ tcp["client"].state \in {"SYN_RECEIVED", "ESTABLISHED"} => Greeted
        /\ written["client"] > 0 => Greeted
    BY DEF Inv, GreetInv
  <2>5. GreetInv'
    BY <1>2, <1>4, <1>8, <2>1, <2>2, <2>3, <2>4 DEF GreetInv, Gone
  <2> QED
    BY <2>2, <2>5
<1>9. CASE e = "client"
  <2>1. o = "server"
    BY <1>1, <1>9 DEF Ends
  <2>2. Greeted' <=> Greeted
    BY <1>4, <2>1 DEF Greeted, Gone
  <2>3. /\ ~Gone("server") /\ Total(tcp["server"]) > 0 => tcp["server"].rcv > 0
        /\ tcp["server"].state # "SYN_SENT"
        /\ written["client"] > 0 => Greeted
    BY DEF Inv, GreetInv
  <2>4. t.state \in {"SYN_RECEIVED", "ESTABLISHED"} => Greeted
    BY <1>5, <1>9 DEF Enters
  <2>5. written'["client"] > 0 => Greeted
    <3>1. CASE Ran(e, s)
      BY <1>9, <3>1 DEF Ran, Enters
    <3>2. CASE Idle(e, s)
      BY <2>3, <3>2 DEF Idle
    <3> QED
      BY <3>1, <3>2 DEF Turn
  <2>6. GreetInv'
    BY <1>2, <1>4, <1>9, <2>1, <2>2, <2>3, <2>4, <2>5 DEF GreetInv, Gone
  <2> QED
    BY <2>2, <2>6
<1> QED
  BY <1>8, <1>9 DEF Ends

\* A datagram that is on its way stays good for its receiver,
LEMMA GoodStays ==
  ASSUME NEW A, NEW F, NEW B, NEW G, A \subseteq B, F \subseteq G,
         NEW w \in Nat, NEW x \in Nat, w <= x, NEW p \in Datagram,
         Good(p, A, F, w)
  PROVE  Good(p, B, G, x)
<1>1. DataEnd(p) \in Nat
  BY DatagramFields
<1>2. p.data # <<>> => DataEnd(p) \in G /\ DataEnd(p) <= x + 1
  BY <1>1 DEF Good
<1> QED
  BY <1>2 DEF Good

\* and for its sender.
LEMMA FromStays ==
  ASSUME NEW s \in Tcp, NEW t \in Tcp, Grows(s, t), NEW p \in Datagram,
         From(p, s)
  PROVE  From(p, t)
<1>1. /\ p.ack \in Nat /\ p.wnd \in Nat /\ DataEnd(p) \in Nat
      /\ s.rcv \in Nat /\ t.rcv \in Nat /\ Edge(s) \in Nat /\ Edge(t) \in Nat
  BY DatagramFields, TcpFields DEF Edge
<1>2. p.ack <= s.rcv /\ p.ack + p.wnd <= Edge(s)
      /\ s.rcv <= t.rcv /\ Edge(s) <= Edge(t)
  BY DEF From, Grows
<1>3. p.data # <<>> => Known(t, DataEnd(p))
  BY <1>1 DEF From, Grows
<1> QED
  BY <1>1, <1>2, <1>3 DEF From

\* There is room for a number if there is for a later one.
LEMMA RoomDown ==
  ASSUME Inv, NEW e \in Ends
  PROVE  Down(Room(e))
<1>1. PICK r \in Tcp : r = tcp[Peer(e)]
  BY PeerIs DEF Inv, Typed
<1>2. Edge(r) \in Nat
  BY TcpFields DEF Edge
<1>3. PICK n \in Nat : n = Edge(r)
  BY <1>2
<1>4. Room(e) = IF r.state = "GONE" THEN Nat ELSE {m \in Nat : m <= n}
  BY <1>1, <1>3 DEF Room, Gone
<1> QED
  BY <1>4 DEF Down

\* The datagrams an end sends are good ones.
LEMMA OutsGood ==
  ASSUME NEW A, NEW F, Down(F), NEW s, Sound(s, A, F), NEW w \in Nat,
         Stated(s, w), NEW p \in s.out
  PROVE  p \in Datagram /\ Good(p, A, F, w) /\ From(p, s)
         /\ (p.data # <<>> => Total(s) > 0)
<1>1. s \in Tcp /\ Sending(s) /\ Outs(s, A) /\ s.nxt \in F
  BY DEF Sound
<1>2. p \in Datagram
  BY <1>1, TcpFields
<1>3. DataOK(p) /\ p.ack \in A /\ From(p, s)
  BY <1>1 DEF Outs, From
<1>4. /\ DataEnd(p) \in Nat /\ p.seq \in Nat /\ Len(p.data) \in Nat
      /\ (p.data = <<>> <=> Len(p.data) = 0)
  BY <1>2, DatagramFields
<1>5. s.nxt \in Nat /\ Total(s) \in Nat /\ s.nxt <= Total(s)
  BY <1>1, TcpFields DEF Sending, Total
<1>6. ASSUME p.data # <<>>
      PROVE  DataEnd(p) \in F /\ DataEnd(p) <= w + 1 /\ Total(s) > 0
  <2>1. DataEnd(p) <= s.nxt
    BY <1>3, <1>6 DEF From, Known
  <2>2. DataEnd(p) \in F
    BY <1>1, <1>4, <2>1 DEF Down
  <2>3. Total(s) <= w + 1
    BY DEF Stated
  <2>4. DataEnd(p) > 0
    BY <1>4, <1>6 DEF DataEnd
  <2> QED
    BY <1>4, <1>5, <2>1, <2>2, <2>3, <2>4
<1> QED
  BY <1>2, <1>3, <1>6 DEF Good

\* The datagrams that e sent in its turn, and those it had sent before,
LEMMA TurnSent ==
  ASSUME Inv, NEW e \in Ends, NEW s, NEW rest, Turn(e, s, rest)
  PROVE  NetInv(e)'
<1>1. PICK o \in Ends : o = Peer(e) /\ Peer(o) = e
  BY PeerIs
<1>2. PICK t : t = tcp'[e]
  OBVIOUS
<1>3. PICK u : u = tcp[e]
  OBVIOUS
<1>4. /\ Becomes(e, s, t) /\ net'[o] \subseteq net[o] \cup s.out
      /\ net[o] \in SUBSET Datagram /\ u \in Tcp /\ s \in Tcp /\ t \in Tcp
      /\ Gone(e) => Dead(t)
  BY <1>1, <1>2, <1>3, TurnIs DEF Becomes, Inv, Typed
<1>5. /\ Acks(e)' = Acks(e) /\ Room(e)' = Room(e)
      /\ written[e] <= written'[e] /\ written[e] \in Nat /\ written'[e] \in Nat
  BY PeerStays, PeerGains
<1>6. Greeted => Greeted'
  BY TurnGreets
<1> SUFFICES ASSUME NEW p \in net'[o]
             PROVE  /\ Good(p, Acks(e), Room(e), written'[e])
                    /\ t.state # "GONE" => From(p, t)
                    /\ e = "server" /\ p.data # <<>> => Greeted'
  BY <1>1, <1>2, <1>5 DEF NetInv, Gone
<1>7. ASSUME t.state # "GONE"
      PROVE  /\ Ran(e, s) /\ ~Gone(e) /\ Grows(u, s)
             /\ \A q \in Datagram : From(q, s) => From(q, t)
  <2>1. ~Gone(e) /\ Cleared(s, t)
    BY <1>4, <1>7 DEF Becomes, Dead
  <2>2. Ran(e, s)
    BY <2>1 DEF Turn, Idle
  <2>3. Sound(s, Acks(e), Room(e)) /\ Grows(u, s)
    BY <1>3, <2>2 DEF Ran
  <2>4. Edge(t) = Edge(s) /\ t.rcv = s.rcv /\ \A q : Known(t, q) <=> Known(s, q)
    BY <2>1, <2>3, ClearedIs DEF Cleared, SameGot
  <2> QED
    BY <2>1, <2>2, <2>3, <2>4 DEF From
<1>8. CASE p \in net[o]
  <2>1. /\ Good(p, Acks(e), Room(e), written[e])
        /\ ~Gone(e) => From(p, u)
        /\ e = "server" /\ p.data # <<>> => Greeted
    BY <1>1, <1>3, <1>8 DEF Inv, NetInv
  <2>2. Good(p, Acks(e), Room(e), written'[e])
    BY <1>4, <1>5, <1>8, <2>1, GoodStays
  <2>3. t.state # "GONE" => From(p, t)
    BY <1>4, <1>7, <1>8, <2>1, FromStays
  <2> QED
    BY <1>6, <2>1, <2>2, <2>3
<1>9. CASE p \notin net[o]
  <2>1. p \in s.out
    BY <1>4, <1>9
  <2>2. Ran(e, s)
    <3>1. CASE Idle(e, s)
      <4>1. s.out = {}
        BY <3>1 DEF Idle, Inv, EndInv, Dead
      <4> QED
        BY <2>1, <4>1
    <3> QED
      BY <3>1 DEF Turn
  <2>3. Sound(s, Acks(e), Room(e)) /\ Stated(s, written'[e])
        /\ Enters(e, s, written'[e])
    BY <2>2 DEF Ran
  <2>4. Down(Room(e))
    BY RoomDown
  <2>5. p \in Datagram /\ Good(p, Acks(e), Room(e), written'[e]) /\ From(p, s)
        /\ (p.data # <<>> => Total(s) > 0)
    BY <1>5, <2>1, <2>3, <2>4, OutsGood
  <2>6. t.state # "GONE" => From(p, t)
    BY <1>7, <2>5
  <2>7. ASSUME e = "server", p.data # <<>>
        PROVE  Greeted'
    <3>1. s.rcv > 0
      BY <2>3, <2>5, <2>7 DEF Enters
    <3>2. t.state = "GONE" \/ t.rcv > 0
      BY <1>4, <3>1 DEF Becomes, Dead, Cleared, SameGot
    <3> QED
      BY <1>2, <2>7, <3>2 DEF Greeted, Gone
  <2> QED
    BY <2>5, <2>6, <2>7
<1> QED
  BY <1>8, <1>9

\* and those that are left on their way to it are as the invariant says.
LEMMA TurnLeft ==
  ASSUME Inv, NEW e \in Ends, NEW s, NEW rest, Turn(e, s, rest)
  PROVE  NetInv(Peer(e))'
<1>1. PICK o \in Ends : o = Peer(e) /\ Peer(o) = e
  BY PeerIs
<1>2. /\ net'[e] = rest /\ tcp'[o] = tcp[o] /\ rest \in SUBSET net[e]
      /\ net[e] \in SUBSET Datagram /\ written'[o] = written[o]
      /\ written[o] \in Nat
  BY <1>1, TurnIs DEF Turn, Inv, Typed
<1>3. Acks(o) \subseteq Acks(o)' /\ Room(o) \subseteq Room(o)'
  BY <1>1, PeerGains
<1>4. Greeted => Greeted'
  BY TurnGreets
<1> SUFFICES ASSUME NEW p \in rest
             PROVE  /\ Good(p, Acks(o)', Room(o)', written[o])
                    /\ ~Gone(o) => From(p, tcp[o])
                    /\ o = "server" /\ p.data # <<>> => Greeted'
  BY <1>1, <1>2 DEF NetInv, Gone
<1>5. p \in Datagram /\ p \in net[e]
  BY <1>2
<1>6. /\ Good(p, Acks(o), Room(o), written[o])
      /\ ~Gone(o) => From(p, tcp[o])
      /\ o = "server" /\ p.data # <<>> => Greeted
  BY <1>1, <1>5 DEF Inv, NetInv
<1>7. written[o] <= written[o]
  BY <1>2
<1>8. Good(p, Acks(o)', Room(o)', written[o])
  BY <1>2, <1>3, <1>5, <1>6, <1>7, GoodStays
<1> QED
  BY <1>4, <1>6, <1>8

\* A turn of either end keeps the invariant.
LEMMA TurnKeeps ==
  ASSUME Inv, NEW e \in Ends, NEW s, NEW rest, Turn(e, s, rest)
  PROVE  Inv'
<1>1. Typed'
  <2>1. /\ tcp' \in [Ends -> Tcp] /\ net' \in [Ends -> SUBSET Datagram]
    BY TurnIs
  <2>2. /\ written' \in [Ends -> Nat] /\ read' \in [Ends -> Seq(Int)]
        /\ path' \in Paths
    BY DEF Turn, Inv, Typed
  <2>3. \A o \in Ends : written'[o] <= Bytes[o]
    <3>1. written'[e] <= Bytes[e]
      BY PeerGains
    <3>2. written'[Peer(e)] <= Bytes[Peer(e)]
      BY PeerIs DEF Turn, Inv, Typed
    <3> QED
      BY <3>1, <3>2, PeerIs
  <2> QED
    BY <2>1, <2>2, <2>3 DEF Typed
<1>2. GreetInv'
  BY TurnGreets
<1>3. /\ (EndInv(e) /\ ReadInv(e) /\ NetInv(e))'
      /\ (EndInv(Peer(e)) /\ ReadInv(Peer(e)) /\ NetInv(Peer(e)))'
  BY TurnEnd, TurnPeer, TurnReads, TurnSent, TurnLeft
<1>4. \A o \in Ends : (EndInv(o) /\ ReadInv(o) /\ NetInv(o))'
  BY <1>3, PeerIs
<1> QED
  BY <1>1, <1>2, <1>4 DEF Inv

-----------------------------------------------------------------------------
(* The actions are turns.                                                  *)

\* No sequence number wraps around: shorter streams than 2^32 bytes.
Short == \A e \in Ends : Bytes[e] + 1 < SeqSpace

\* What the invariant says of an end that did not go away.
LEMMA LiveEnd ==
  ASSUME Inv, Short, NEW e \in Ends, ~Gone(e)
  PROVE  /\ tcp[e] \in Tcp /\ Sound(tcp[e], Acks(e), Room(e))
         /\ Got(tcp[e], Acks(e), written[Peer(e)], Len(read[e]), Safe(e))
         /\ Stated(tcp[e], written[e]) /\ tcp[e].una \in Taken(e)
         /\ Down(Room(e)) /\ 1 \in Room(e) /\ path \in Paths
         /\ written[e] \in Nat /\ written[Peer(e)] \in Nat
         /\ written[e] <= Bytes[e] /\ Bytes[e] \in Nat
         /\ written[e] + 1 < SeqSpace /\ written[Peer(e)] + 1 < SeqSpace
         /\ read[e] \in Seq(Int) /\ Len(read[e]) \in Nat
         /\ ReadOK(read[e], written[Peer(e)], Safe(e))
         /\ Grows(tcp[e], tcp[e])
<1>1. PICK o \in Ends : o = Peer(e) /\ Peer(o) = e
  BY PeerIs
<1>2. /\ EndInv(e) /\ EndInv(o) /\ ReadInv(e) /\ tcp \in [Ends -> Tcp]
      /\ written \in [Ends -> Nat] /\ read \in [Ends -> Seq(Int)] /\ path \in Paths
      /\ written[e] <= Bytes[e] /\ written[o] <= Bytes[o]
  BY DEF Inv, Typed
<1>3. /\ Sound(tcp[e], Acks(e), Room(e))
      /\ Got(tcp[e], Acks(e), written[Peer(e)], Len(read[e]), Safe(e))
      /\ Stated(tcp[e], written[e]) /\ tcp[e].una \in Taken(e)
  BY <1>2 DEF EndInv, Alive
<1>4. Down(Room(e))
  BY RoomDown
<1>5. 1 \in Room(e)
  <2>1. CASE Gone(o)
    BY <1>1, <2>1 DEF Room
  <2>2. CASE ~Gone(o)
    <3>1. Edge(tcp[o]) >= 1 /\ tcp[o] \in Tcp
      BY <1>2, <2>2 DEF EndInv, Alive
    <3>2. Edge(tcp[o]) \in Nat
      BY <3>1, TcpFields DEF Edge
    <3>3. 1 <= Edge(tcp[o])
      BY <3>1, <3>2
    <3> QED
      BY <1>1, <2>2, <3>3 DEF Room
  <2> QED
    BY <2>1, <2>2
<1>6. /\ written[e] \in Nat /\ written[o] \in Nat /\ Bytes[e] \in Nat
      /\ Bytes[o] \in Nat /\ SeqSpace \in Nat
  BY <1>2, Constants
<1>7. Bytes[e] + 1 < SeqSpace /\ Bytes[o] + 1 < SeqSpace
  BY DEF Short
<1>8. written[e] + 1 < SeqSpace /\ written[o] + 1 < SeqSpace
  BY <1>2, <1>6, <1>7
<1>9. read[e] \in Seq(Int) /\ Len(read[e]) \in Nat /\ tcp[e] \in Tcp
  BY <1>2
<1>10. Grows(tcp[e], tcp[e])
  <2>1. SameStream(tcp[e], tcp[e])
    BY DEF SameStream
  <2> QED
    BY <1>3, <1>9, <2>1, SameSound
<1> QED
  BY <1>1, <1>2, <1>3, <1>4, <1>5, <1>6, <1>8, <1>9, <1>10 DEF ReadInv

\* t is s but for its datagrams, or it gave up.
Rests(s, t) ==
  t.una = s.una /\ t.sbuf = s.sbuf /\ t.rcv = s.rcv /\ GivesUp(s, t)

\* What the invariant says of the handshake.
LEMMA EntersNow ==
  ASSUME Inv, NEW e \in Ends, ~Gone(e)
  PROVE  Enters(e, tcp[e], written[e])
BY DEF Inv, GreetInv, Enters, Gone

\* An end that sends datagrams or gives up changes nothing of the handshake.
LEMMA RestsMoves ==
  ASSUME Inv, NEW e \in Ends, ~Gone(e), NEW s, Rests(tcp[e], s)
  PROVE  /\ Moved(tcp[e], s) /\ Enters(e, s, written[e])
         /\ Total(s) = Total(tcp[e]) /\ s.una = tcp[e].una
         /\ Stated(tcp[e], written[e]) => Stated(s, written[e])
<1>1. PICK u : u = tcp[e]
  OBVIOUS
<1>2. /\ s.una = u.una /\ s.sbuf = u.sbuf /\ s.rcv = u.rcv
      /\ (s.state = u.state /\ s.aborted = u.aborted)
         \/ (s.state = "CLOSED" /\ s.aborted)
  BY <1>1 DEF Rests, GivesUp
<1>3. Total(s) = Total(u)
  BY <1>2 DEF Total
<1>4. u.state # "GONE"
  BY <1>1 DEF Gone
<1>5. Moved(u, s)
  BY <1>2, <1>4 DEF Moved
<1>6. Enters(e, s, written[e])
  <2>1. Enters(e, u, written[e])
    BY <1>1, EntersNow
  <2> QED
    BY <1>2, <1>3, <2>1 DEF Enters
<1>7. Stated(u, written[e]) => Stated(s, written[e])
  BY <1>2, <1>3 DEF Stated
<1> QED
  BY <1>1, <1>2, <1>3, <1>5, <1>6, <1>7

\* Such a step is a turn if the end stays sound.
LEMMA RestTurn ==
  ASSUME Inv, Short, NEW e \in Ends, ~Gone(e), NEW s,
         Sound(s, Acks(e), Room(e)), Grows(tcp[e], s), Rests(tcp[e], s),
         Got(s, Acks(e), written[Peer(e)], Len(read[e]), Safe(e)),
         NEW rest \in SUBSET net[e], Step(e, s, rest),
         UNCHANGED <<path, written, read>>
  PROVE  Turn(e, s, rest)
<1>1. /\ written' = written /\ read' = read /\ path' = path
  OBVIOUS
<1>2. /\ written \in [Ends -> Nat] /\ read \in [Ends -> Seq(Int)]
  BY DEF Inv, Typed
<1>3. /\ Stated(tcp[e], written[e]) /\ tcp[e].una \in Taken(e)
      /\ written[e] \in Nat /\ written[e] <= Bytes[e]
      /\ ReadOK(read[e], written[Peer(e)], Safe(e))
  BY LiveEnd
<1>4. /\ Moved(tcp[e], s) /\ Enters(e, s, written[e])
      /\ s.una = tcp[e].una /\ Stated(s, written[e])
  BY <1>3, RestsMoves
<1>5. written[e] <= written[e]
  BY <1>3
<1>6. Ran(e, s)
  BY <1>1, <1>3, <1>4, <1>5 DEF Ran
<1> QED
  BY <1>1, <1>2, <1>6 DEF Turn

\* Transmitting is such a step.
LEMMA RestsAlike ==
  ASSUME NEW s, NEW t, Alike(s, t)
  PROVE  Rests(s, t) /\ SameGot(s, t)
BY DEF Alike, Rests, GivesUp, SameGot

\* What an end may meet when it has something to send,
LEMMA ChancesAre ==
  ASSUME NEW luck \in Chances
  PROVE  luck \in Chance
BY Constants DEF Chances, Chance

\* and whether it has or not.
LEMMA LuckIs ==
  ASSUME NEW s \in Tcp, NEW luck \in Luck(s)
  PROVE  luck \in Chance
<1>1. CASE luck \in Chances
  BY <1>1, ChancesAre
<1>2. CASE luck = [more |-> 0, upto |-> 0, mss |-> s.mss]
  BY <1>2, TcpFields DEF Chance
<1> QED
  BY <1>1, <1>2 DEF Luck

\* NotifyClock retransmits the first segment or gives up,
LEMMA RetransmitTurn ==
  ASSUME Inv, Short, NEW e \in Ends, RetransmitTimeout(e)
  PROVE  \E s, rest : Turn(e, s, rest)
<1>1. ~Gone(e) /\ tcp[e].rto /\ UNCHANGED <<path, written, read>>
  BY DEF RetransmitTimeout, Over, Gone
<1>2. PICK u : u = tcp[e]
  OBVIOUS
<1>3. PICK taken \in BOOLEAN : Step(e, Retransmit(u, taken), net[e])
  BY <1>2 DEF RetransmitTimeout
<1>4. PICK t : t = Retransmit(u, taken)
  OBVIOUS
<1>5. /\ Sound(u, Acks(e), Room(e)) /\ Down(Room(e)) /\ path \in Paths
      /\ Got(u, Acks(e), written[Peer(e)], Len(read[e]), Safe(e))
  BY <1>1, <1>2, LiveEnd
<1>6. u.una < u.nxt
  BY <1>1, <1>2, <1>5 DEF Sound, Sending
<1>7. Sound(t, Acks(e), Room(e)) /\ Grows(u, t) /\ Sends(u, t)
  BY <1>4, <1>5, <1>6, RetransmitSound
<1>8. Rests(u, t) /\ SameGot(u, t)
  BY <1>7 DEF Sends, Rests, SameGot
<1>9. Got(t, Acks(e), written[Peer(e)], Len(read[e]), Safe(e))
  BY <1>5, <1>8, SameGotKeeps
<1>10. Turn(e, t, net[e])
  BY <1>1, <1>2, <1>3, <1>4, <1>7, <1>8, <1>9, RestTurn
<1> QED
  BY <1>10

\* What an end does that no one but its user, or its peer, notices.
LEMMA SameTurn ==
  ASSUME Inv, Short, NEW e \in Ends, ~Gone(e), NEW t \in Tcp,
         SameStream(tcp[e], t), SameGot(tcp[e], t), GivesUp(tcp[e], t),
         Step(e, t, net[e]), UNCHANGED <<path, written, read>>
  PROVE  \E s, rest : Turn(e, s, rest)
<1>1. PICK u : u = tcp[e]
  OBVIOUS
<1>2. /\ Sound(u, Acks(e), Room(e))
      /\ Got(u, Acks(e), written[Peer(e)], Len(read[e]), Safe(e))
  BY <1>1, LiveEnd
<1>3. Sound(t, Acks(e), Room(e)) /\ Grows(u, t)
  BY <1>1, <1>2, SameSound
<1>4. Rests(u, t)
  BY <1>1 DEF Rests, SameStream
<1>5. Got(t, Acks(e), written[Peer(e)], Len(read[e]), Safe(e))
  BY <1>1, <1>2, SameGotKeeps
<1>6. Turn(e, t, net[e])
  BY <1>1, <1>3, <1>4, <1>5, RestTurn
<1> QED
  BY <1>6

\* A datagram without data.
LEMMA PacketTurn ==
  ASSUME Inv, Short, NEW e \in Ends, ~Gone(e), NEW u \in Tcp,
         SameStream(tcp[e], u), SameGot(tcp[e], u), u.state = tcp[e].state,
         u.aborted = tcp[e].aborted, NEW seq \in Nat,
         Step(e, packet(u, seq, FALSE, 0, 0), net[e]),
         UNCHANGED <<path, written, read>>
  PROVE  \E s, rest : Turn(e, s, rest)
<1>1. PICK s : s = tcp[e]
  OBVIOUS
<1>2. PICK t : t = packet(u, seq, FALSE, 0, 0)
  OBVIOUS
<1>3. /\ Sound(s, Acks(e), Room(e)) /\ s \in Tcp
      /\ Got(s, Acks(e), written[Peer(e)], Len(read[e]), Safe(e))
  BY <1>1, LiveEnd
<1>4. Sound(u, Acks(e), Room(e)) /\ Grows(s, u)
  BY <1>1, <1>3, SameSound
<1>5. Sound(t, Acks(e), Room(e)) /\ Alike(u, t) /\ Grows(u, t)
  BY <1>2, <1>4, PacketSound
<1>6. t \in Tcp
  BY <1>5 DEF Sound
<1>7. Grows(s, t)
  BY <1>3, <1>4, <1>5, <1>6, GrowsOn
<1>8. Rests(s, t) /\ SameGot(s, t)
  BY <1>1, <1>5 DEF Alike, SameStream, SameGot, Rests, GivesUp
<1>9. Got(t, Acks(e), written[Peer(e)], Len(read[e]), Safe(e))
  BY <1>3, <1>8, SameGotKeeps
<1>10. Turn(e, t, net[e])
  BY <1>1, <1>2, <1>5, <1>7, <1>8, <1>9, RestTurn
<1> QED
  BY <1>10

\* probes a closed window,
LEMMA ProbeTurn ==
  ASSUME Inv, Short, NEW e \in Ends, ProbeTimeout(e)
  PROVE  \E s, rest : Turn(e, s, rest)
<1>1. ~Gone(e) /\ UNCHANGED <<path, written, read>>
  BY DEF ProbeTimeout, Over, Gone
<1>2. tcp[e] \in Tcp
  BY DEF Inv, Typed
<1>3. CASE Step(e, closedown(tcp[e]), net[e])
  <2>1. PICK t : t = closedown(tcp[e])
    OBVIOUS
  <2>2. t \in Tcp /\ SameStream(tcp[e], t) /\ SameGot(tcp[e], t)
        /\ GivesUp(tcp[e], t)
    BY <1>2, <2>1 DEF closedown, Tcp, SameStream, SameGot, GivesUp
  <2> QED
    BY <1>1, <1>3, <2>1, <2>2, SameTurn
<1>4. CASE Step(e, packet([tcp[e] EXCEPT !.probes = @ + 1],
                          Wrap(tcp[e].nxt - 1), FALSE, 0, 0), net[e])
  <2>1. PICK u : u = [tcp[e] EXCEPT !.probes = @ + 1]
    OBVIOUS
  <2>2. u \in Tcp /\ SameStream(tcp[e], u) /\ SameGot(tcp[e], u)
        /\ u.state = tcp[e].state /\ u.aborted = tcp[e].aborted
    <3>1. PICK n \in Nat : n = tcp[e].probes + 1
      <4>1. tcp[e].probes \in Nat
        BY <1>2 DEF Tcp
      <4>2. tcp[e].probes + 1 \in Nat
        BY <4>1
      <4> QED
        BY <4>2
    <3>2. u = [tcp[e] EXCEPT !.probes = n]
      BY <2>1, <3>1, Zenon
    <3> QED
      BY <1>2, <3>2 DEF Tcp, SameStream, SameGot
  <2>3. PICK seq \in Nat : seq = Wrap(tcp[e].nxt - 1)
    <3>1. tcp[e].nxt \in Nat
      BY <1>2, TcpFields
    <3>2. tcp[e].nxt - 1 \in Int
      BY <3>1
    <3> QED
      BY <3>2, WrapNat
  <2>4. Step(e, packet(u, seq, FALSE, 0, 0), net[e])
    BY <1>4, <2>1, <2>3
  <2> QED
    BY <1>1, <2>2, <2>4, PacketTurn
<1> QED
  BY <1>3, <1>4 DEF ProbeTimeout

\* or sends the ack that was delayed.
LEMMA AckTurn ==
  ASSUME Inv, Short, NEW e \in Ends, AckTimeout(e)
  PROVE  \E s, rest : Turn(e, s, rest)
<1>1. /\ ~Gone(e) /\ UNCHANGED <<path, written, read>>
      /\ Step(e, packet(tcp[e], tcp[e].nxt, FALSE, 0, 0), net[e])
  BY DEF AckTimeout, Over, Gone
<1>2. PICK u \in Tcp : u = tcp[e]
  BY DEF Inv, Typed
<1>3. PICK seq \in Nat : seq = u.nxt
  BY TcpFields
<1>4. SameStream(tcp[e], u) /\ SameGot(tcp[e], u)
  BY <1>2 DEF SameStream, SameGot
<1> QED
  BY <1>1, <1>2, <1>3, <1>4, PacketTurn

\* NotifyMTU changes the size of segments alone.
LEMMA MtuTurn ==
  ASSUME Inv, Short, NEW e \in Ends, NotifyMTU(e)
  PROVE  \E s, rest : Turn(e, s, rest)
<1>1. ~Gone(e) /\ UNCHANGED <<path, written, read>>
  BY DEF NotifyMTU, Over, Gone
<1>2. PICK u \in Tcp : u = tcp[e]
  BY DEF Inv, Typed
<1>3. PICK m \in Mss :
        LET s == [u EXCEPT !.advise = m]
        IN  Step(e, IF s.state = "ESTABLISHED" THEN adjustMTU(s) ELSE s, net[e])
  BY <1>2 DEF NotifyMTU
<1>4. PICK x : x = [u EXCEPT !.advise = m]
  OBVIOUS
<1>5. PICK t : t = IF x.state = "ESTABLISHED" THEN adjustMTU(x) ELSE x
  OBVIOUS
<1>6. /\ x \in Tcp /\ SameStream(u, x) /\ SameGot(u, x) /\ x.state = u.state
      /\ x.aborted = u.aborted
  BY <1>4 DEF Tcp, SameStream, SameGot
<1>7. adjustMTU(x) \in Tcp /\ SameStream(u, adjustMTU(x))
      /\ SameGot(u, adjustMTU(x)) /\ adjustMTU(x).state = u.state
      /\ adjustMTU(x).aborted = u.aborted
  BY <1>6 DEF Tcp, SameStream, SameGot, adjustMTU
<1>8. t \in Tcp /\ SameStream(u, t) /\ SameGot(u, t) /\ GivesUp(u, t)
  BY <1>5, <1>6, <1>7 DEF GivesUp
<1>9. Step(e, t, net[e])
  BY <1>3, <1>4, <1>5
<1> QED
  BY <1>1, <1>2, <1>8, <1>9, SameTurn

\* Close changes how the end is shut down alone.
LEMMA CloseTurn ==
  ASSUME Inv, Short, NEW e \in Ends, Close(e)
  PROVE  \E s, rest : Turn(e, s, rest)
<1>1. ~Gone(e) /\ UNCHANGED <<path, written, read>>
  BY DEF Close, Gone
<1>2. PICK u \in Tcp : u = tcp[e]
  BY DEF Inv, Typed
<1>3. PICK how \in {"GRACEFUL", "FORCEFUL"} :
        Step(e, [u EXCEPT !.shutdown = how], net[e])
  BY <1>2 DEF Close
<1>4. PICK t : t = [u EXCEPT !.shutdown = how]
  OBVIOUS
<1>5. /\ t \in Tcp /\ SameStream(u, t) /\ Rests(u, t) /\ t.shutdown # "NONE"
      /\ t.rcv = u.rcv /\ t.rwnd = u.rwnd /\ t.rbuf = u.rbuf
      /\ t.ahead = u.ahead /\ t.rlist = u.rlist
  BY <1>4 DEF Tcp, SameStream, Rests, GivesUp
<1>6. /\ Sound(u, Acks(e), Room(e))
      /\ Got(u, Acks(e), written[Peer(e)], Len(read[e]), Safe(e))
  BY <1>1, <1>2, LiveEnd
<1>7. Sound(t, Acks(e), Room(e)) /\ Grows(u, t)
  BY <1>5, <1>6, SameSound
<1>8. Got(t, Acks(e), written[Peer(e)], Len(read[e]), Safe(e))
  <2>1. Taking(t, Acks(e), written[Peer(e)])
    BY <1>5, <1>6 DEF Got, Taking, Edge
  <2>2. Counts(t, Len(read[e]), written[Peer(e)])
    BY <1>5, <1>6 DEF Got, Counts
  <2>3. Safe(e) => Filled(t, Len(read[e]))
    BY <1>5, <1>6 DEF Got, Filled, Numbered
  <2> QED
    BY <2>1, <2>2, <2>3 DEF Got
<1>9. Turn(e, t, net[e])
  BY <1>1, <1>2, <1>3, <1>4, <1>5, <1>7, <1>8, RestTurn
<1> QED
  BY <1>9

\* Connect queues the CONNECT of the client and sends it.
LEMMA ConnectTurn ==
  ASSUME Inv, Short, NEW e \in Ends, Connect(e)
  PROVE  \E s, rest : Turn(e, s, rest)
<1>1. /\ e = "client" /\ tcp[e].state = "LISTEN" /\ ~Gone(e)
      /\ written' = written /\ read' = read /\ path' = path
  BY DEF Connect, Gone
<1>2. PICK u \in Tcp : u = tcp[e]
  BY DEF Inv, Typed
<1>3. PICK x : x = queueConnectMessage([u EXCEPT !.state = "SYN_SENT"])
  OBVIOUS
<1>4. PICK luck \in Luck(u) : Step(e, attemptSend(x, "none", luck), net[e])
  BY <1>2, <1>3 DEF Connect
<1>5. PICK t : t = attemptSend(x, "none", luck)
  OBVIOUS
<1>6. /\ Sound(u, Acks(e), Room(e))
      /\ Got(u, Acks(e), written[Peer(e)], Len(read[e]), Safe(e))
      /\ Stated(u, written[e]) /\ u.una \in Taken(e)
      /\ Down(Room(e)) /\ 1 \in Room(e) /\ path \in Paths /\ written[e] \in Nat
      /\ written[e] <= Bytes[e] /\ written[e] + 1 < SeqSpace
      /\ ReadOK(read[e], written[Peer(e)], Safe(e))
  BY <1>1, <1>2, LiveEnd
<1>7. Total(u) = 0 /\ written[e] = 0
  BY <1>1, <1>2, <1>6 DEF Stated
<1>8. 1 < SeqSpace
  BY <1>6, <1>7
<1>9. "SYN_SENT" \in {"SYN_SENT", "SYN_RECEIVED"} /\ "none" \in Flags
  BY DEF Flags
<1>10. Sound(x, Acks(e), Room(e)) /\ Greets(u, x, "SYN_SENT")
  BY <1>3, <1>6, <1>7, <1>8, <1>9, GreetSound
<1>11. /\ Grows(u, x) /\ SameGot(u, x) /\ x.una = u.una
       /\ x.state = "SYN_SENT" /\ Total(x) = 1
  BY <1>10 DEF Greets
<1>12. luck \in Chance
  BY <1>4, LuckIs
<1>13. Sound(t, Acks(e), Room(e)) /\ Alike(x, t) /\ Grows(x, t)
  BY <1>5, <1>6, <1>9, <1>10, <1>12, AttemptSendSound
<1>14. /\ SameGot(x, t) /\ t.una = x.una /\ t.state = "SYN_SENT"
       /\ Total(t) = 1
  BY <1>11, <1>13 DEF Alike, SameGot, Total
<1>15. Grows(u, t) /\ SameGot(u, t)
  <2>1. x \in Tcp /\ t \in Tcp
    BY <1>10, <1>13 DEF Sound
  <2> QED
    BY <1>11, <1>13, <1>14, <2>1, GrowsOn, SameGotOn
<1>16. Got(t, Acks(e), written[Peer(e)], Len(read[e]), Safe(e))
  BY <1>6, <1>15, SameGotKeeps
<1>17. Stated(t, written[e])
  BY <1>7, <1>14 DEF Stated
<1>18. Moved(u, t) /\ Enters(e, t, written[e])
  BY <1>1, <1>2, <1>7, <1>14 DEF Moved, Enters
<1>19. written[e] <= written[e]
  BY <1>6
<1>20. Ran(e, t)
  BY <1>1, <1>2, <1>6, <1>11, <1>13, <1>14, <1>15, <1>16, <1>17, <1>18, <1>19
     DEF Ran
<1>21. Step(e, t, net[e])
  BY <1>4, <1>5
<1>22. Turn(e, t, net[e])
  BY <1>1, <1>20, <1>21 DEF Turn, Inv, Typed
<1> QED
  BY <1>22

\* More bytes were written.
LEMMA WriteTurn ==
  ASSUME Inv, Short, NEW e \in Ends, ~Gone(e), tcp[e].state = "ESTABLISHED",
         NEW n \in Nat, n > 0, written[e] + n <= Bytes[e], NEW luck \in Chance,
         NEW q, q = queue(tcp[e], [i \in 1 .. n |-> written[e] + i], FALSE),
         Len(tcp[e].sbuf) # SndBuf,
         Step(e, attemptSend(q, "none", luck), net[e]),
         written' = [written EXCEPT ![e] = @ + Len(q.sbuf) - Len(tcp[e].sbuf)],
         UNCHANGED <<path, read>>
  PROVE  \E s, rest : Turn(e, s, rest)
<1>1. path' = path /\ read' = read
  OBVIOUS
<1>2. PICK u \in Tcp : u = tcp[e]
  BY DEF Inv, Typed
<1>3. PICK t : t = attemptSend(q, "none", luck)
  OBVIOUS
<1>4. /\ Sound(u, Acks(e), Room(e))
      /\ Got(u, Acks(e), written[Peer(e)], Len(read[e]), Safe(e))
      /\ Stated(u, written[e]) /\ u.una \in Taken(e)
      /\ Down(Room(e)) /\ path \in Paths /\ written[e] \in Nat
      /\ Bytes[e] \in Nat /\ Bytes[e] + 1 < SeqSpace
      /\ ReadOK(read[e], written[Peer(e)], Safe(e))
  BY <1>2, LiveEnd DEF Short
<1>5. PICK w \in Nat : w = written[e]
  BY <1>4
<1>6. PICK data : data = [i \in 1 .. n |-> w + i]
  OBVIOUS
<1>7. data \in Seq(Nat) /\ Len(data) = n /\ \A i \in 1 .. n : data[i] = w + i
  <2>1. \A i \in 1 .. n : w + i \in Nat
    OBVIOUS
  <2>2. data \in [1 .. n -> Nat]
    BY <1>6, <2>1
  <2> QED
    BY <1>6, <2>2
<1>8. Total(u) = w + 1
  BY <1>2, <1>4, <1>5 DEF Stated
<1>9. Continues(u, data, FALSE)
  <2>1. \A i \in 1 .. Len(data) : data[i] = Total(u) + i - 1
    <3> SUFFICES ASSUME NEW i \in 1 .. n
                 PROVE  data[i] = Total(u) + i - 1
      BY <1>7
    <3>1. (w + 1) + i - 1 = w + i
      OBVIOUS
    <3> QED
      BY <1>7, <1>8, <3>1
  <2>2. Total(u) # 0
    BY <1>8
  <2> QED
    BY <2>1, <2>2 DEF Continues
<1>10. Total(u) + Len(data) < SeqSpace /\ w + n <= Bytes[e]
  <2>1. w + n <= Bytes[e]
    BY <1>5
  <2>2. (w + 1) + n < SeqSpace
    BY <1>4, <2>1, Constants
  <2> QED
    BY <1>7, <1>8, <2>1, <2>2
<1>11. Len(u.sbuf) < SndBuf /\ Len(data) > 0 /\ Len(u.sbuf) \in Nat
  <2>1. Len(u.sbuf) <= SndBuf /\ Len(u.sbuf) \in Nat
    BY <1>4, TcpFields DEF Sound, Sending
  <2> QED
    BY <1>2, <1>7, <2>1, Constants
<1>12. q = queue(u, data, FALSE) /\ FALSE \in BOOLEAN
  BY <1>2, <1>5, <1>6
<1>13. PICK m \in 1 .. Len(data) : QueueOf(u, q, m) /\ Sound(q, Acks(e), Room(e))
  BY <1>4, <1>7, <1>9, <1>10, <1>11, <1>12, QueueSound, ZenonT(60)
<1>14. m \in Nat /\ m <= n
  BY <1>7
<1>15. /\ Grows(u, q) /\ Otherwise(u, q) /\ Total(q) = (w + 1) + m
       /\ Len(q.sbuf) = Len(u.sbuf) + m
  BY <1>8, <1>13 DEF QueueOf
<1>16. "none" \in Flags
  BY DEF Flags
<1>17. Sound(t, Acks(e), Room(e)) /\ Alike(q, t) /\ Grows(q, t)
  BY <1>3, <1>4, <1>13, <1>16, AttemptSendSound
<1>18. /\ SameGot(u, t) /\ t.una = u.una /\ t.state = "ESTABLISHED"
       /\ t.aborted = u.aborted /\ Total(t) = Total(q) /\ t.rcv = u.rcv
  BY <1>2, <1>15, <1>17 DEF Alike, SameGot, Total, Otherwise
<1>19. Grows(u, t)
  <2>1. q \in Tcp /\ t \in Tcp
    BY <1>13, <1>17 DEF Sound
  <2> QED
    BY <1>15, <1>17, <2>1, GrowsOn
<1>20. Got(t, Acks(e), written[Peer(e)], Len(read[e]), Safe(e))
  BY <1>4, <1>18, SameGotKeeps
<1>21. written'[e] = w + m
  <2>1. PICK k \in Nat : k = Len(u.sbuf)
    BY <1>11
  <2>2. w + (k + m) - k = w + m
    OBVIOUS
  <2>3. written'[e] = written[e] + Len(q.sbuf) - Len(u.sbuf)
    BY <1>2 DEF Inv, Typed
  <2> QED
    BY <1>5, <1>15, <2>1, <2>2, <2>3
<1>22. /\ written' \in [Ends -> Nat] /\ written'[Peer(e)] = written[Peer(e)]
  <2>1. w + m \in Nat
    BY <1>14
  <2>2. written' = [written EXCEPT ![e] = w + m]
    BY <1>21 DEF Inv, Typed
  <2>3. written \in [Ends -> Nat] /\ Peer(e) \in Ends /\ Peer(e) # e
    BY PeerIs DEF Inv, Typed
  <2> QED
    BY <2>1, <2>2, <2>3
<1>23. Stated(t, w + m)
  BY <1>14, <1>15, <1>18 DEF Stated
<1>24. Moved(u, t)
  BY <1>18 DEF Moved
<1>25. Enters(e, t, w + m)
  <2>1. e = "server" => t.rcv > 0
    <3>1. Total(u) > 0
      BY <1>8
    <3> QED
      BY <1>2, <1>18, <3>1 DEF Inv, GreetInv
  <2>2. e = "client" => Greeted
    BY DEF Inv, GreetInv
  <2> QED
    BY <1>18, <2>1, <2>2 DEF Enters
<1>26. w <= w + m /\ w + m <= Bytes[e]
  BY <1>4, <1>10, <1>14
<1>27. Ran(e, t)
  BY <1>1, <1>2, <1>4, <1>5, <1>17, <1>18, <1>19, <1>20, <1>21, <1>23, <1>24,
     <1>25, <1>26 DEF Ran
<1>28. Step(e, t, net[e])
  BY <1>3
<1>29. Turn(e, t, net[e])
  BY <1>1, <1>22, <1>27, <1>28 DEF Turn, Inv, Typed
<1> QED
  BY <1>29

\* Send queues and sends what there is room for, or waits for room.
LEMMA SendTurns ==
  ASSUME Inv, Short, NEW e \in Ends, Send(e)
  PROVE  \E s, rest : Turn(e, s, rest)
<1>1. ~Gone(e) /\ tcp[e].state = "ESTABLISHED" /\ UNCHANGED <<path, read>>
  BY DEF Send, Gone
<1>2. PICK n \in 1 .. Bytes[e] - written[e], luck \in Chances :
        LET s == queue(tcp[e], [i \in 1 .. n |-> written[e] + i], FALSE)
        IN  IF Len(tcp[e].sbuf) = SndBuf
            THEN /\ Step(e, [tcp[e] EXCEPT !.writeEnable = TRUE], net[e])
                 /\ UNCHANGED written
            ELSE /\ Step(e, attemptSend(s, "none", luck), net[e])
                 /\ written' = [written EXCEPT ![e] =
                                  @ + Len(s.sbuf) - Len(tcp[e].sbuf)]
  BY DEF Send
<1>3. CASE Len(tcp[e].sbuf) = SndBuf
  <2>1. PICK u \in Tcp : u = tcp[e]
    BY DEF Inv, Typed
  <2>2. PICK t : t = [u EXCEPT !.writeEnable = TRUE]
    OBVIOUS
  <2>3. t \in Tcp /\ SameStream(u, t) /\ SameGot(u, t) /\ GivesUp(u, t)
    BY <2>2 DEF Tcp, SameStream, SameGot, GivesUp
  <2>4. Step(e, t, net[e]) /\ UNCHANGED <<path, written, read>>
    BY <1>1, <1>2, <1>3, <2>1, <2>2
  <2> QED
    BY <1>1, <2>1, <2>3, <2>4, SameTurn
<1>4. CASE Len(tcp[e].sbuf) # SndBuf
  <2>1. PICK q : q = queue(tcp[e], [i \in 1 .. n |-> written[e] + i], FALSE)
    OBVIOUS
  <2>2. /\ Step(e, attemptSend(q, "none", luck), net[e])
        /\ written' = [written EXCEPT ![e] = @ + Len(q.sbuf) - Len(tcp[e].sbuf)]
    BY <1>2, <1>4, <2>1
  <2>3. written[e] \in Nat /\ Bytes[e] \in Nat /\ RcvBuf \in Nat
    BY Constants DEF Inv, Typed
  <2>4. n \in Nat /\ n > 0 /\ written[e] + n <= Bytes[e] /\ luck \in Chance
    BY <2>3, ChancesAre
  <2> QED
    BY <1>1, <1>4, <2>1, <2>2, <2>4, WriteTurn
<1> QED
  BY <1>3, <1>4

\* The receive buffer s.rbuf continues the bytes r that the user has read.
AheadOf(s, r, v, safe) ==
  /\ ReadOK(r, v, safe) /\ Counts(s, Len(r), v)
  /\ safe => Numbered(s, Len(r))

ReadOn(x, n, v, safe) == x \in Seq(Int) /\ Len(x) = n /\ ReadOK(x, v, safe)

\* The user reads the next k bytes of the receive buffer: they follow the ones
\* it read before.
LEMMA ReadsOn ==
  ASSUME NEW s \in Tcp, NEW r \in Seq(Int), NEW k \in 0 .. Len(s.rbuf),
         NEW v \in Nat, NEW safe, AheadOf(s, r, v, safe)
  PROVE  ReadOn(r \o SubSeq(s.rbuf, 1, k), Len(r) + k, v, safe)
<1>8. /\ k \in Nat /\ k <= Len(s.rbuf)
      /\ ReadOK(r, v, safe) /\ Counts(s, Len(r), v)
      /\ safe => Numbered(s, Len(r))
  BY TcpFields DEF AheadOf
<1>9. PICK x : x = r \o SubSeq(s.rbuf, 1, k)
  OBVIOUS
<1>1. s.rbuf \in Seq(Int) /\ Len(s.rbuf) \in Nat
  BY TcpFields
<1>2. PICK n \in Nat : n = Len(r)
  OBVIOUS
<1>3. PICK c : c = SubSeq(s.rbuf, 1, k)
  OBVIOUS
<1>4. c \in Seq(Int) /\ Len(c) = k /\ \A i \in 1 .. k : c[i] = s.rbuf[i]
  <2>1. \A i \in 1 .. k : s.rbuf[i] \in Int
    BY <1>1, <1>8
  <2>2. /\ SubSeq(s.rbuf, 1, k) \in Seq(Int)
        /\ Len(SubSeq(s.rbuf, 1, k)) = IF 1 <= k THEN k - 1 + 1 ELSE 0
        /\ \A i \in 1 .. k - 1 + 1 : SubSeq(s.rbuf, 1, k)[i] = s.rbuf[1 + i - 1]
    BY <2>1, <1>8, SubSeqProperties, 1 \in Int, k \in Int
  <2> QED
    BY <1>3, <2>2
<1>5. /\ x \in Seq(Int) /\ Len(x) = n + k
      /\ \A i \in 1 .. n + k : x[i] = IF i <= n THEN r[i] ELSE c[i - n]
  <2>1. x = r \o c
    BY <1>3, <1>9
  <2>2. /\ r \o c \in Seq(Int) /\ Len(r \o c) = Len(r) + Len(c)
        /\ \A i \in 1 .. Len(r) + Len(c) :
             (r \o c)[i] = IF i <= Len(r) THEN r[i] ELSE c[i - Len(r)]
    BY <1>4, ConcatProperties
  <2> QED
    BY <1>2, <1>4, <1>8, <2>1, <2>2
<1>6. n + k <= v
  <2>1. n + Len(s.rbuf) <= v
    BY <1>2, <1>8 DEF Counts
  <2> QED
    BY <1>1, <1>8, <2>1
<1>7. ASSUME safe, NEW i \in 1 .. n + k
      PROVE  x[i] = i
  <2>1. CASE i <= n
    BY <1>2, <1>5, <1>7, <1>8, <2>1 DEF ReadOK
  <2>2. CASE i > n
    <3>1. PICK j \in 1 .. k : j = i - n /\ n + j = i
      BY <1>8, <2>2
    <3>2. s.rbuf[j] = n + j
      <4>1. s.rbuf[j] = Len(r) + j
        <5>1. j \in 1 .. Len(s.rbuf)
          BY <1>1, <1>8
        <5>2. \A y \in 1 .. Len(s.rbuf) : s.rbuf[y] = Len(r) + y
          BY <1>7, <1>8, Zenon DEF Numbered
        <5> QED
          BY <5>1, <5>2, Zenon
      <4> QED
        BY <1>2, <4>1
    <3> QED
      <4>1. x[i] = c[i - n]
        BY <1>5, <2>2
      <4>2. c[j] = s.rbuf[j]
        BY <1>4
      <4> QED
        BY <3>1, <3>2, <4>1, <4>2
  <2>3. i <= n \/ i > n
    OBVIOUS
  <2> QED
    BY <2>1, <2>2, <2>3, Zenon
<1>10. ReadOK(x, v, safe)
  BY <1>5, <1>6, <1>7 DEF ReadOK
<1> QED
  BY <1>2, <1>5, <1>9, <1>10 DEF ReadOn

\* Recv reads, and opens the window or waits to be notified.
LEMMA RecvTurns ==
  ASSUME Inv, Short, NEW e \in Ends, Recv(e)
  PROVE  \E s, rest : Turn(e, s, rest)
<1>1. /\ ~Gone(e) /\ tcp[e].state = "ESTABLISHED"
      /\ path' = path /\ written' = written
  BY DEF Recv, Gone
<1>2. PICK u \in Tcp : u = tcp[e]
  BY DEF Inv, Typed
<1>3. PICK k \in Least(1, Len(u.rbuf)) .. Len(u.rbuf), luck \in Luck(u) :
        LET s == [u EXCEPT !.rbuf = SubSeq(@, k + 1, Len(@))]
        IN  /\ Step(e, IF k = 0 THEN [s EXCEPT !.readEnable = TRUE]
                       ELSE OpenWindow(s, luck), net[e])
            /\ read' = [read EXCEPT ![e] = @ \o SubSeq(u.rbuf, 1, k)]
  BY <1>2, Zenon DEF Recv
<1>4. PICK x : x = Drain(u, k)
  OBVIOUS
<1>5. PICK t : t = IF k = 0 THEN [x EXCEPT !.readEnable = TRUE]
                   ELSE OpenWindow(x, luck)
  OBVIOUS
<1>6. Step(e, t, net[e])
  BY <1>3, <1>4, <1>5 DEF Drain
<1>7. k \in Nat /\ k <= Len(u.rbuf) /\ luck \in Chance
  <2>1. Len(u.rbuf) \in Nat
    BY TcpFields
  <2>2. Least(1, Len(u.rbuf)) \in Nat
    BY <2>1 DEF Least
  <2> QED
    BY <2>1, <2>2, LuckIs
<1>8. /\ Sound(u, Acks(e), Room(e))
      /\ Got(u, Acks(e), written[Peer(e)], Len(read[e]), Safe(e))
      /\ Stated(u, written[e]) /\ u.una \in Taken(e)
      /\ Down(Room(e)) /\ path \in Paths /\ written[e] \in Nat
      /\ written[Peer(e)] \in Nat /\ written[e] <= Bytes[e]
      /\ read[e] \in Seq(Int) /\ Len(read[e]) \in Nat
      /\ ReadOK(read[e], written[Peer(e)], Safe(e))
  BY <1>1, <1>2, LiveEnd
<1>9. PICK b \in Nat : b = Len(read[e]) + k
  BY <1>7, <1>8
<1>10. Drained(u, k, Acks(e), Room(e), written[Peer(e)], Len(read[e]), Safe(e), x)
  BY <1>4, <1>7, <1>8, DrainKeeps
<1>11. /\ Sound(x, Acks(e), Room(e)) /\ Grows(u, x) /\ Quiet(u, x)
       /\ Got(x, Acks(e), written[Peer(e)], b, Safe(e)) /\ x \in Tcp
  BY <1>9, <1>10 DEF Drained, Sound
<1>12. /\ Sound(t, Acks(e), Room(e)) /\ Grows(x, t) /\ Quiet(x, t)
       /\ Got(t, Acks(e), written[Peer(e)], b, Safe(e)) /\ t \in Tcp
  <2>1. CASE k = 0
    <3>1. t = [x EXCEPT !.readEnable = TRUE]
      BY <1>5, <2>1
    <3>2. t \in Tcp /\ SameStream(x, t) /\ SameGot(x, t) /\ Quiet(x, t)
      BY <1>11, <3>1 DEF Tcp, SameStream, SameGot, Quiet
    <3> QED
      BY <1>11, <3>2, SameSound, SameGotKeeps
  <2>2. CASE k # 0
    <3>1. t = OpenWindow(x, luck)
      BY <1>5, <2>2
    <3>2. Drained(x, 0, Acks(e), Room(e), written[Peer(e)], b, Safe(e), t)
      BY <1>7, <1>8, <1>11, <3>1, OpenWindowKeeps
    <3>3. b + 0 = b
      OBVIOUS
    <3> QED
      BY <3>2, <3>3 DEF Drained, Sound
  <2> QED
    BY <2>1, <2>2
<1>13. Grows(u, t) /\ Quiet(u, t)
  BY <1>11, <1>12, GrowsOn DEF Quiet
<1>14. Rests(u, t)
  BY <1>13 DEF Quiet, Rests, GivesUp
<1>15. PICK r : r = read[e] \o SubSeq(u.rbuf, 1, k)
  OBVIOUS
<1>16. r \in Seq(Int) /\ Len(r) = b /\ ReadOK(r, written[Peer(e)], Safe(e))
  <2>1. PICK q \in Seq(Int) : q = read[e]
    BY <1>8
  <2>2. PICK v \in Nat : v = written[Peer(e)]
    BY <1>8
  <2>3. Got(u, Acks(e), v, Len(q), Safe(e)) /\ ReadOK(q, v, Safe(e))
    BY <1>8, <2>1, <2>2
  <2>4. AheadOf(u, q, v, Safe(e))
    BY <2>3 DEF Got, Filled, AheadOf
  <2>5. ReadOn(q \o SubSeq(u.rbuf, 1, k), Len(q) + k, v, Safe(e))
    BY <1>7, <2>4, ReadsOn
  <2> QED
    BY <1>9, <1>15, <2>1, <2>2, <2>5 DEF ReadOn
<1>17. /\ read' \in [Ends -> Seq(Int)] /\ read'[Peer(e)] = read[Peer(e)]
       /\ read'[e] = r
  <2>1. read \in [Ends -> Seq(Int)] /\ Peer(e) \in Ends /\ Peer(e) # e
    BY PeerIs DEF Inv, Typed
  <2>2. read' = [read EXCEPT ![e] = r]
    BY <1>3, <1>15
  <2> QED
    BY <1>16, <2>1, <2>2
<1>18. /\ Moved(u, t) /\ Enters(e, t, written[e]) /\ t.una = u.una
       /\ Stated(t, written[e])
  BY <1>1, <1>2, <1>8, <1>14, RestsMoves
<1>19. written[e] <= written[e]
  BY <1>8
<1>20. Ran(e, t)
  BY <1>1, <1>2, <1>8, <1>12, <1>13, <1>16, <1>17, <1>18, <1>19 DEF Ran
<1>21. Turn(e, t, net[e])
  BY <1>1, <1>6, <1>17, <1>20 DEF Turn, Inv, Typed
<1> QED
  BY <1>21

\* What the invariant says of a datagram that arrives.
LEMMA Arrives ==
  ASSUME Inv, Short, NEW e \in Ends, ~Gone(e), NEW p \in net[e]
  PROVE  /\ Fits(tcp[e], p, Acks(e), written[Peer(e)])
         /\ Known(tcp[e], p.ack) /\ p.ack + p.wnd \in Room(e)
         /\ p.ack \in Taken(e)
         /\ Safe(e) /\ tcp[e].rcv = 0 /\ ~p.ctl => p.data = <<>>
         /\ e = "client" /\ p.data # <<>> => Greeted
<1>1. PICK o \in Ends : o = Peer(e) /\ Peer(o) = e
  BY PeerIs
<1>2. PICK u \in Tcp : u = tcp[e]
  BY DEF Inv, Typed
<1>3. p \in Datagram
  BY DEF Inv, Typed
<1>4. PICK w \in Nat : w = written[o]
  BY DEF Inv, Typed
<1>5. /\ Good(p, Acks(o), Room(o), w)
      /\ ~Gone(o) => From(p, tcp[o])
      /\ o = "server" /\ p.data # <<>> => Greeted
  BY <1>1, <1>4 DEF Inv, NetInv
<1>6. /\ p.seq \in Nat /\ p.ack \in Nat /\ p.wnd \in Nat
      /\ Len(p.data) \in Nat /\ DataEnd(p) \in Nat /\ p.ack + p.wnd \in Nat
      /\ (p.data = <<>> <=> Len(p.data) = 0)
  BY <1>3, DatagramFields
<1>7. /\ Acks(o) = {n \in Nat : Known(u, n)}
      /\ Room(o) = {n \in Nat : n <= Edge(u)}
  BY <1>1, <1>2 DEF Acks, Room
<1>8. Known(u, p.ack) /\ DataOK(p)
      /\ (p.data # <<>> => DataEnd(p) <= Edge(u) /\ DataEnd(p) <= w + 1)
  BY <1>5, <1>7 DEF Good
<1>9. /\ p.ack + p.wnd \in Room(e) /\ p.ack \in Taken(e)
      /\ p.data # <<>> => DataEnd(p) \in Acks(e)
  <2>1. CASE Gone(o)
    BY <1>1, <1>6, <2>1 DEF Room, Taken, Acks
  <2>2. CASE ~Gone(o)
    BY <1>1, <1>5, <1>6, <2>2 DEF Room, Taken, Acks, From
  <2> QED
    BY <2>1, <2>2
<1>10. Fits(u, p, Acks(e), w)
  BY <1>3, <1>8, <1>9 DEF Fits
<1>11. ASSUME Safe(e), u.rcv = 0, ~p.ctl, p.data # <<>>
       PROVE  FALSE
  <2>1. w > 0
    <3>1. p.seq > 0 /\ Len(p.data) > 0
      BY <1>6, <1>8, <1>11 DEF DataOK
    <3>2. p.seq + Len(p.data) <= w + 1
      BY <1>8, <1>11 DEF DataEnd
    <3> QED
      BY <1>6, <3>1, <3>2
  <2>2. CASE e = "server"
    <3>1. o = "client"
      BY <1>1, <2>2 DEF Peer
    <3>2. Greeted
      BY <1>4, <2>1, <3>1 DEF Inv, GreetInv
    <3>3. u.rcv > 0
      BY <1>2, <2>2, <3>2 DEF Greeted
    <3> QED
      BY <1>11, <3>3
  <2>3. CASE e = "client"
    <3>1. o = "server"
      BY <1>1, <2>3 DEF Peer
    <3>2. Bytes["server"] = 0
      BY <1>11, <2>3 DEF Safe
    <3>3. w <= 0
      BY <1>4, <3>1, <3>2 DEF Inv, Typed
    <3> QED
      BY <2>1, <3>3
  <2> QED
    BY <2>2, <2>3 DEF Ends
<1>12. e = "client" /\ p.data # <<>> => Greeted
  BY <1>1, <1>5 DEF Peer
<1> QED
  BY <1>1, <1>2, <1>4, <1>8, <1>9, <1>10, <1>11, <1>12

\* An end that is not closed processes the datagram.
LEMMA ProcessTurn ==
  ASSUME Inv, Short, NEW e \in Ends, ~Gone(e), NEW p \in net[e],
         NEW fast \in Fates, fast # "none" => Recovers(Control(tcp[e], p), p),
         NEW luck \in Chance, NEW s, s = process(tcp[e], p, fast, luck),
         NEW rest \in SUBSET net[e], Step(e, s, rest),
         UNCHANGED <<path, written, read>>
  PROVE  Turn(e, s, rest)
<1>1. path' = path /\ written' = written /\ read' = read
  OBVIOUS
<1>2. PICK u \in Tcp : u = tcp[e]
  BY DEF Inv, Typed
<1>3. /\ Sound(u, Acks(e), Room(e))
      /\ Got(u, Acks(e), written[Peer(e)], Len(read[e]), Safe(e))
      /\ Stated(u, written[e]) /\ u.una \in Taken(e)
      /\ Down(Room(e)) /\ 1 \in Room(e) /\ path \in Paths
      /\ written[e] \in Nat /\ written[Peer(e)] \in Nat
      /\ written[e] + 1 < SeqSpace /\ written[Peer(e)] + 1 < SeqSpace
      /\ written[e] <= Bytes[e] /\ Len(read[e]) \in Nat
      /\ ReadOK(read[e], written[Peer(e)], Safe(e))
  BY <1>2, LiveEnd
<1>4. /\ Fits(u, p, Acks(e), written[Peer(e)])
      /\ Known(u, p.ack) /\ p.ack + p.wnd \in Room(e) /\ p.ack \in Taken(e)
      /\ Safe(e) /\ u.rcv = 0 /\ ~p.ctl => p.data = <<>>
      /\ e = "client" /\ p.data # <<>> => Greeted
  BY <1>2, Arrives
<1>5. fast # "none" => Recovers(Control(u, p), p)
  BY <1>2
<1>6. Processed(u, p, Acks(e), Room(e), written[Peer(e)], written[e],
                Len(read[e]), Safe(e), s)
  <2>1. s = process(u, p, fast, luck)
    BY <1>2
  <2> QED
    BY <1>3, <1>4, <1>5, <2>1, ProcessKeeps, ZenonT(60)
<1>7. /\ Sound(s, Acks(e), Room(e)) /\ Grows(u, s)
      /\ Got(s, Acks(e), written[Peer(e)], Len(read[e]), Safe(e))
      /\ Stated(s, written[e]) /\ (s.una = u.una \/ s.una = p.ack)
      /\ Moves(u, s) /\ Meets(u, p, s)
      /\ Total(s) # Total(u) => s.rcv > 0
  BY <1>6 DEF Processed
<1>8. s.una \in Taken(e)
  BY <1>3, <1>4, <1>7
<1>9. Moved(u, s)
  BY <1>2, <1>7 DEF Moves, Moved, Gone
<1>10. Enters(e, s, written[e])
  <2>1. ASSUME e = "server"
        PROVE  s.state # "SYN_SENT" /\ (Total(s) > 0 => s.rcv > 0)
    <3>1. u.state # "SYN_SENT" /\ (Total(u) > 0 => u.rcv > 0)
      BY <1>2, <2>1 DEF Inv, GreetInv
    <3>2. s.state # "SYN_SENT"
      BY <1>7, <3>1 DEF Moves
    <3>3. u.rcv \in Nat /\ s.rcv \in Nat /\ u.rcv <= s.rcv
      <4>1. s \in Tcp
        BY <1>7 DEF Sound
      <4> QED
        BY <1>7, <4>1, TcpFields DEF Grows
    <3>4. Total(s) > 0 => s.rcv > 0
      BY <1>7, <3>1, <3>3
    <3> QED
      BY <3>2, <3>4
  <2>2. ASSUME e = "client",
               s.state \in {"SYN_RECEIVED", "ESTABLISHED"} \/ written[e] > 0
        PROVE  Greeted
    <3>1. CASE written[e] > 0
      BY <2>2, <3>1 DEF Inv, GreetInv
    <3>2. CASE s.state \in {"SYN_RECEIVED", "ESTABLISHED"}
      <4>1. CASE u.state \in {"SYN_RECEIVED", "ESTABLISHED"}
        BY <1>2, <2>2, <4>1 DEF Inv, GreetInv
      <4>2. CASE p.ctl
        <5>1. p.data # <<>>
          <6>1. p \in Datagram /\ DataOK(p)
            BY <1>4 DEF Fits
          <6>2. Len(p.data) = 1
            BY <4>2, <6>1 DEF DataOK
          <6>3. Len(p.data) # 0
            BY <6>2
          <6>4. p.data = <<>> <=> Len(p.data) = 0
            BY <6>1, DatagramFields
          <6> QED
            BY <6>3, <6>4
        <5> QED
          BY <1>4, <2>2, <5>1
      <4> QED
        BY <1>7, <3>2, <4>1, <4>2 DEF Meets
    <3> QED
      BY <2>2, <3>1, <3>2
  <2> QED
    BY <2>1, <2>2 DEF Enters
<1>11. written[e] <= written[e]
  BY <1>3
<1>12. Ran(e, s)
  BY <1>1, <1>2, <1>3, <1>7, <1>8, <1>9, <1>10, <1>11 DEF Ran
<1> QED
  BY <1>1, <1>12 DEF Turn, Inv, Typed

\* NotifyPacket is a turn, whether or not the datagram arrives once more; a
\* closed end drops it.
LEMMA NotifyTurns ==
  ASSUME Inv, Short, NEW e \in Ends, NotifyPacket(e)
  PROVE  \E s, rest : Turn(e, s, rest)
<1>1. UNCHANGED <<path, written, read>>
  BY DEF NotifyPacket
<1>2. PICK p \in net[e] : \E rest \in {net[e], net[e] \ {p}} :
        IF Over(tcp[e]) THEN Step(e, tcp[e], rest)
        ELSE \E fast \in Fates, luck \in Luck(tcp[e]) :
               /\ fast # "none" => Recovers(Control(tcp[e], p), p)
               /\ Step(e, process(tcp[e], p, fast, luck), rest)
  BY DEF NotifyPacket, Fates
<1>3. PICK rest \in SUBSET net[e] :
        IF Over(tcp[e]) THEN Step(e, tcp[e], rest)
        ELSE \E fast \in Fates, luck \in Luck(tcp[e]) :
               /\ fast # "none" => Recovers(Control(tcp[e], p), p)
               /\ Step(e, process(tcp[e], p, fast, luck), rest)
  BY <1>2
<1>4. CASE Gone(e)
  <2>1. Step(e, tcp[e], rest)
    BY <1>3, <1>4 DEF Gone, Over
  <2>2. Idle(e, tcp[e])
    BY <1>1, <1>4 DEF Idle
  <2>3. Turn(e, tcp[e], rest)
    BY <1>1, <1>3, <2>1, <2>2 DEF Turn, Inv, Typed
  <2> QED
    BY <2>3
<1>5. CASE ~Gone(e) /\ Over(tcp[e])
  <2>1. Step(e, tcp[e], rest)
    BY <1>3, <1>5
  <2>2. /\ Sound(tcp[e], Acks(e), Room(e)) /\ Grows(tcp[e], tcp[e])
        /\ Got(tcp[e], Acks(e), written[Peer(e)], Len(read[e]), Safe(e))
    BY <1>5, LiveEnd
  <2>3. Rests(tcp[e], tcp[e])
    BY DEF Rests, GivesUp
  <2>4. Turn(e, tcp[e], rest)
    BY <1>1, <1>3, <1>5, <2>1, <2>2, <2>3, RestTurn
  <2> QED
    BY <2>4
<1>6. CASE ~Gone(e) /\ ~Over(tcp[e])
  <2>1. PICK fast \in Fates, luck \in Luck(tcp[e]) :
          /\ fast # "none" => Recovers(Control(tcp[e], p), p)
          /\ Step(e, process(tcp[e], p, fast, luck), rest)
    BY <1>3, <1>6
  <2>2. fast # "none" => Recovers(Control(tcp[e], p), p)
    BY <2>1
  <2>3. luck \in Chance
    <3>1. tcp[e] \in Tcp
      BY DEF Inv, Typed
    <3> QED
      BY <3>1, LuckIs
  <2>4. PICK s : s = process(tcp[e], p, fast, luck)
    OBVIOUS
  <2>5. Step(e, s, rest)
    BY <2>1, <2>4
  <2>6. Turn(e, s, rest)
    BY <1>1, <1>3, <1>6, <2>2, <2>3, <2>4, <2>5, ProcessTurn, Zenon
  <2> QED
    BY <2>6
<1> QED
  BY <1>4, <1>5, <1>6

\* Every step is a turn of an end.
LEMMA NextTurns ==
  ASSUME Inv, Short, Next
  PROVE  \E e \in Ends : \E s, rest : Turn(e, s, rest)
<1>1. PICK e \in Ends :
        \/ Connect(e) \/ NotifyPacket(e) \/ Timeouts(e) \/ NotifyMTU(e)
        \/ Send(e) \/ Recv(e) \/ Close(e)
  BY Zenon DEF Next
<1>2. CASE Connect(e)
  BY <1>2, ConnectTurn, Zenon
<1>3. CASE NotifyPacket(e)
  BY <1>3, NotifyTurns, Zenon
<1>4. CASE Timeouts(e)
  BY <1>4, RetransmitTurn, ProbeTurn, AckTurn, Zenon DEF Timeouts
<1>5. CASE NotifyMTU(e)
  BY <1>5, MtuTurn, Zenon
<1>6. CASE Send(e)
  BY <1>6, SendTurns, Zenon
<1>7. CASE Recv(e)
  BY <1>7, RecvTurns, Zenon
<1>8. CASE Close(e)
  BY <1>8, CloseTurn, Zenon
<1> QED
  BY <1>1, <1>2, <1>3, <1>4, <1>5, <1>6, <1>7, <1>8, Zenon

-----------------------------------------------------------------------------
(* The theorems.                                                           *)

\* An end before it is used is as the invariant says,
LEMMA NewTcpAlive ==
  ASSUME NEW safe, NEW A, A = {n \in Nat : Known(NewTcp, n)},
         NEW F, F = {n \in Nat : n <= Edge(NewTcp)},
         NEW L, L = {n \in Nat : n <= NewTcp.rcv}
  PROVE  Alive(NewTcp, A, F, L, 0, 0, 0, safe) /\ NewTcp.state # "GONE"
<1>1. PICK s \in Tcp :
        /\ s = NewTcp /\ s.state = "LISTEN" /\ s.shutdown = "NONE" /\ s.una = 0
        /\ s.nxt = 0 /\ s.swnd = 1 /\ s.rcv = 0 /\ s.rwnd = RcvBuf
        /\ s.slist = <<>> /\ s.sbuf = <<>> /\ s.rbuf = <<>> /\ s.rlist = {}
        /\ s.rto = FALSE /\ s.out = {}
  BY NewTcpIs
<1>2. Len(s.sbuf) = 0 /\ Len(s.slist) = 0 /\ Len(s.rbuf) = 0
  BY <1>1
<1>3. Total(s) = 0 /\ Edge(s) = RcvBuf /\ Space(s) = RcvBuf
  BY <1>1, <1>2, Constants DEF Total, Edge, Space
<1>4. Sending(s)
  <2>1. Chained(s.slist, s.una, Total(s))
    BY <1>1, <1>2, <1>3 DEF Chained
  <2>2. Marked(s.slist, s.nxt)
    BY <1>2 DEF Marked
  <2> QED
    BY <1>1, <1>2, <1>3, <2>1, <2>2, Constants DEF Sending
<1>5. 0 \in A /\ 0 \in L
  BY <1>1 DEF Known
<1>6. 0 \in F /\ 1 \in F
  BY <1>1, <1>3, Constants
<1>7. Sound(s, A, F)
  BY <1>1, <1>3, <1>4, <1>5, <1>6, Constants DEF Sound, Outs
<1>8. Got(s, A, 0, 0, safe)
  <2>1. Taking(s, A, 0)
    BY <1>1, FS_EmptySet DEF Taking
  <2>2. Counts(s, 0, 0)
    BY <1>1, <1>2 DEF Counts
  <2>3. Filled(s, 0)
    BY <1>1, <1>2 DEF Filled, Numbered
  <2> QED
    BY <2>1, <2>2, <2>3 DEF Got
<1>9. Stated(s, 0)
  BY <1>1, <1>3 DEF Stated
<1>10. Edge(s) >= 1
  BY <1>3, Constants
<1> QED
  BY <1>1, <1>5, <1>7, <1>8, <1>9, <1>10 DEF Alive

\* so the initial states are.
LEMMA InitInv ==
  ASSUME Init
  PROVE  Inv
<1>1. /\ tcp = [e \in Ends |-> NewTcp] /\ net = [e \in Ends |-> {}]
      /\ path \in Paths /\ written = [e \in Ends |-> 0]
      /\ read = [e \in Ends |-> <<>>]
  BY DEF Init, Paths
<1>2. /\ NewTcp \in Tcp /\ NewTcp.state = "LISTEN" /\ NewTcp.rcv = 0
      /\ Total(NewTcp) = 0
  <2>1. NewTcp.una = 0 /\ Len(NewTcp.sbuf) = 0
    BY NewTcpIs
  <2> QED
    BY <2>1, NewTcpIs DEF Total
<1>3. Typed
  <2>1. <<>> \in Seq(Int)
    OBVIOUS
  <2>2. \A e \in Ends : written[e] <= Bytes[e]
    BY <1>1, Constants
  <2> QED
    BY <1>1, <1>2, <2>1, <2>2 DEF Typed
<1>4. GreetInv
  <2>1. tcp["server"] = NewTcp /\ tcp["client"] = NewTcp /\ written["client"] = 0
    BY <1>1 DEF Ends
  <2> QED
    BY <1>2, <2>1 DEF GreetInv
<1>5. ASSUME NEW e \in Ends
      PROVE  EndInv(e) /\ ReadInv(e) /\ NetInv(e)
  <2>1. /\ tcp[e] = NewTcp /\ tcp[Peer(e)] = NewTcp /\ ~Gone(e) /\ ~Gone(Peer(e))
        /\ net[Peer(e)] = {} /\ written[e] = 0 /\ written[Peer(e)] = 0
        /\ read[e] = <<>> /\ Len(read[e]) = 0
    BY <1>1, <1>2, PeerIs DEF Gone
  <2>2. /\ Acks(e) = {n \in Nat : Known(NewTcp, n)}
        /\ Room(e) = {n \in Nat : n <= Edge(NewTcp)}
        /\ Taken(e) = {n \in Nat : n <= NewTcp.rcv}
    BY <2>1 DEF Acks, Room, Taken
  <2>3. Alive(NewTcp, Acks(e), Room(e), Taken(e), 0, 0, 0, Safe(e))
    BY <2>2, NewTcpAlive
  <2>4. EndInv(e)
    BY <2>1, <2>3 DEF EndInv
  <2>5. ReadInv(e)
    BY <2>1 DEF ReadInv, ReadOK
  <2>6. NetInv(e)
    BY <2>1 DEF NetInv
  <2> QED
    BY <2>4, <2>5, <2>6
<1> QED
  BY <1>3, <1>4, <1>5 DEF Inv

\* A step in which nothing changes keeps the invariant.
LEMMA StutterKeeps ==
  ASSUME Inv, UNCHANGED vars
  PROVE  Inv'
<1>1. /\ tcp' = tcp /\ net' = net /\ path' = path /\ written' = written
      /\ read' = read
  BY DEF vars
<1>2. Typed' /\ GreetInv'
  BY <1>1 DEF Inv, Typed, GreetInv, Greeted, Gone
<1>3. ASSUME NEW e \in Ends
      PROVE  (EndInv(e) /\ ReadInv(e) /\ NetInv(e))'
  <2>1. EndInv(e) /\ ReadInv(e) /\ NetInv(e)
    BY DEF Inv
  <2>2. Acks(e)' = Acks(e) /\ Room(e)' = Room(e) /\ Taken(e)' = Taken(e)
    BY <1>1 DEF Acks, Room, Taken, Gone
  <2>3. EndInv(e)'
    BY <1>1, <2>1, <2>2 DEF EndInv, Gone
  <2>4. ReadInv(e)'
    BY <1>1, <2>1 DEF ReadInv
  <2>5. NetInv(e)'
    BY <1>1, <2>1, <2>2 DEF NetInv, Gone, Greeted
  <2> QED
    BY <2>3, <2>4, <2>5
<1> QED
  BY <1>2, <1>3 DEF Inv

\* As long as the streams are shorter than the space of sequence numbers, the
\* two ends and the datagrams between them always agree.
THEOREM Invariance ==
  ASSUME Short
  PROVE  Spec => []Inv
<1>1. Init => Inv
  BY InitInv
<1>2. Inv /\ [Next]_vars => Inv'
  <2> SUFFICES ASSUME Inv, [Next]_vars PROVE Inv'
    OBVIOUS
  <2>1. CASE Next
    BY <2>1, NextTurns, TurnKeeps, Zenon
  <2>2. CASE UNCHANGED vars
    BY <2>2, StutterKeeps
  <2> QED
    BY <2>1, <2>2
<1> QED
  BY <1>1, <1>2, PTL DEF Spec

\* f are the numbers that follow the first segments of list, counted from a.
Offsets(f, list, a) ==
  f = [i \in 0 .. Len(list) |-> IF i = 0 THEN a ELSE Wrap(f[i - 1] + list[i].len)]

\* No number wraps around in a chain that ends below SeqSpace, so that they are
\* where the segments end.
LEMMA OffsetsAre ==
  ASSUME NEW list \in Seq(Segment), NEW a \in Nat, NEW z \in Nat,
         Chained(list, a, z), z < SeqSpace
  PROVE  /\ \E f : Offsets(f, list, a)
         /\ \A f : Offsets(f, list, a) =>
              /\ f[0] = a
              /\ \A i \in 1 .. Len(list) : f[i] = End(list[i])
<1>1. /\ Len(list) \in Nat
      /\ \A i \in 1 .. Len(list) :
           /\ list[i].seq \in Nat /\ list[i].len \in Nat
           /\ End(list[i]) = list[i].seq + list[i].len /\ End(list[i]) \in Nat
  BY SegmentsOf DEF End
<1>2. Len(list) > 0 => list[1].seq = a
  BY <1>1 DEF Chained
<1>3. \A i \in 1 .. Len(list) : End(list[i]) <= z
  BY ChainOrder
<1> DEFINE at(i) == IF i = 0 THEN a ELSE End(list[i])
<1>4. ASSUME NEW i \in 1 .. Len(list)
      PROVE  at(i) = Wrap(at(i - 1) + list[i].len)
  <2>1. at(i - 1) = list[i].seq
    <3>1. CASE i = 1
      BY <1>2, <3>1
    <3>2. CASE i # 1
      <4>1. /\ i - 1 \in 1 .. Len(list) /\ i - 1 < Len(list) /\ (i - 1) + 1 = i
            /\ i - 1 # 0
        BY <1>1, <3>2
      <4>2. list[i].seq = End(list[i - 1])
        BY <4>1 DEF Chained
      <4> QED
        BY <4>1, <4>2
    <3> QED
      BY <3>1, <3>2
  <2>2. PICK n \in Nat : n = End(list[i])
    BY <1>1
  <2>3. n < SeqSpace
    BY <1>3, <2>2, Constants
  <2>4. Wrap(n) = n
    BY <2>3, NoWrap
  <2>5. at(i) = n
    BY <2>2
  <2>6. n = list[i].seq + list[i].len
    BY <1>1, <2>2
  <2> HIDE DEF at
  <2> QED
    BY <2>1, <2>4, <2>5, <2>6
<1>5. \E f : Offsets(f, list, a)
  <2>1. PICK f : f = [i \in 0 .. Len(list) |-> at(i)]
    OBVIOUS
  <2>2. ASSUME NEW i \in 0 .. Len(list)
        PROVE  f[i] = IF i = 0 THEN a ELSE Wrap(f[i - 1] + list[i].len)
    <3>1. CASE i = 0
      BY <2>1, <3>1
    <3>2. CASE i # 0
      <4>1. i \in 1 .. Len(list) /\ i - 1 \in 0 .. Len(list)
        BY <1>1, <3>2
      <4>2. f[i] = at(i) /\ f[i - 1] = at(i - 1)
        BY <2>1, <4>1
      <4>3. at(i) = Wrap(at(i - 1) + list[i].len)
        BY <1>4, <4>1
      <4> HIDE DEF at
      <4> QED
        BY <3>2, <4>2, <4>3
    <3> QED
      BY <3>1, <3>2
  <2>3. f = [i \in 0 .. Len(list) |-> f[i]]
    BY <2>1
  <2>4. Offsets(f, list, a)
    BY <2>2, <2>3 DEF Offsets
  <2> QED
    BY <2>4
<1>6. ASSUME NEW f, Offsets(f, list, a)
      PROVE  f[0] = a /\ \A i \in 1 .. Len(list) : f[i] = End(list[i])
  <2>1. \A i \in 0 .. Len(list) :
          f[i] = IF i = 0 THEN a ELSE Wrap(f[i - 1] + list[i].len)
    BY <1>6 DEF Offsets
  <2> DEFINE S == {i \in Nat : i <= Len(list) => f[i] = at(i)}
  <2>2. 0 \in S
    BY <1>1, <2>1
  <2>3. ASSUME NEW i \in Nat, i \in S
        PROVE  i + 1 \in S
    <3> SUFFICES ASSUME i + 1 <= Len(list) PROVE f[i + 1] = at(i + 1)
      OBVIOUS
    <3>1. /\ i + 1 \in 0 .. Len(list) /\ i + 1 \in 1 .. Len(list)
          /\ i + 1 # 0 /\ (i + 1) - 1 = i /\ i <= Len(list)
      BY <1>1
    <3>2. f[i + 1] = Wrap(f[i] + list[i + 1].len)
      BY <2>1, <3>1
    <3>3. at(i + 1) = Wrap(at(i) + list[i + 1].len)
      BY <1>4, <3>1
    <3>4. f[i] = at(i)
      BY <2>3, <3>1
    <3> HIDE DEF at
    <3> QED
      BY <3>2, <3>3, <3>4
  <2> HIDE DEF S, at
  <2>4. \A i \in Nat : i \in S
    BY <2>2, <2>3, SetInduction
  <2>5. f[0] = a
    BY <1>1, <2>1
  <2>6. ASSUME NEW i \in 1 .. Len(list)
        PROVE  f[i] = End(list[i])
    <3>1. i \in Nat /\ i <= Len(list) /\ i # 0
      BY <1>1
    <3>2. i \in S
      BY <2>4, <3>1
    <3> QED
      BY <3>1, <3>2 DEF S, at
  <2> QED
    BY <2>5, <2>6
<1> QED
  BY <1>5, <1>6

\* The segments that were transmitted are the first ones.
LEMMA SentFirst ==
  ASSUME NEW s \in Tcp, Sending(s)
  PROVE  \E k \in 0 .. Len(s.slist) :
           /\ \A i \in 1 .. Len(s.slist) : s.slist[i].xmit > 0 <=> i <= k
           /\ s.nxt = IF k = 0 THEN s.una ELSE End(s.slist[k])
<1>1. PICK list \in Seq(Segment) : list = s.slist
  BY TcpFields
<1>2. PICK z \in Nat : z = Total(s)
  <2>1. s.una \in Nat /\ Len(s.sbuf) \in Nat
    BY TcpFields
  <2>2. Total(s) \in Nat
    BY <2>1 DEF Total
  <2> QED
    BY <2>2
<1>3. PICK nxt \in Nat : nxt = s.nxt
  BY TcpFields
<1>4. PICK a \in Nat : a = s.una
  BY TcpFields
<1>5. /\ Chained(list, a, z) /\ Marked(list, nxt)
      /\ (nxt = z \/ Begins(list, nxt))
  BY <1>1, <1>2, <1>3, <1>4 DEF Sending
<1>6. /\ Len(list) \in Nat
      /\ \A i \in 1 .. Len(list) : list[i].seq \in Nat /\ End(list[i]) \in Nat
  BY SegmentsOf DEF End
<1>7. /\ \A i, j \in 1 .. Len(list) : i < j => End(list[i]) <= list[j].seq
      /\ \A i \in 1 .. Len(list) :
           list[i].seq < End(list[i]) /\ End(list[i]) <= z
  BY <1>5, ChainOrder
<1>8. \A i \in 1 .. Len(list) : list[i].xmit > 0 <=> list[i].seq < nxt
  BY <1>5 DEF Marked
<1>9. CASE nxt = z
  <2>1. ASSUME NEW i \in 1 .. Len(list)
        PROVE  list[i].xmit > 0 <=> i <= Len(list)
    <3>1. list[i].seq < nxt
      BY <1>6, <1>7, <1>9
    <3> QED
      BY <1>6, <1>8, <3>1
  <2>2. nxt = IF Len(list) = 0 THEN a ELSE End(list[Len(list)])
    BY <1>5, <1>6, <1>9 DEF Chained
  <2>3. Len(list) \in 0 .. Len(list)
    BY <1>6
  <2> QED
    BY <1>1, <1>3, <1>4, <2>1, <2>2, <2>3
<1>10. CASE Begins(list, nxt)
  <2>1. PICK j \in 1 .. Len(list) : list[j].seq = nxt
    BY <1>10 DEF Begins
  <2>2. PICK k \in 0 .. Len(list) : k = j - 1 /\ k + 1 = j
    BY <1>6
  <2>3. ASSUME NEW i \in 1 .. Len(list)
        PROVE  list[i].xmit > 0 <=> i <= k
    <3>1. ASSUME i <= k
          PROVE  list[i].seq < nxt
      <4>1. i < j
        BY <2>2, <3>1
      <4>2. End(list[i]) <= list[j].seq /\ list[i].seq < End(list[i])
        BY <1>7, <4>1
      <4> QED
        BY <1>6, <2>1, <4>2
    <3>2. ASSUME ~(i <= k)
          PROVE  ~(list[i].seq < nxt)
      <4>1. i = j \/ j < i
        BY <2>2, <3>2
      <4>2. j < i => nxt < End(list[j]) /\ End(list[j]) <= list[i].seq
        BY <1>7, <2>1
      <4>3. End(list[j]) \in Nat /\ list[i].seq \in Nat
        BY <1>6
      <4> QED
        BY <2>1, <4>1, <4>2, <4>3
    <3> QED
      BY <1>8, <3>1, <3>2
  <2>4. nxt = IF k = 0 THEN a ELSE End(list[k])
    <3>1. CASE k = 0
      <4>1. j = 1
        BY <2>2, <3>1
      <4> QED
        BY <1>5, <1>6, <2>1, <3>1, <4>1 DEF Chained
    <3>2. CASE k # 0
      <4>1. k \in 1 .. Len(list) /\ k < Len(list)
        BY <1>6, <2>2, <3>2
      <4>2. list[k + 1].seq = End(list[k])
        BY <1>5, <4>1 DEF Chained
      <4> QED
        BY <2>1, <2>2, <3>2, <4>2
    <3> QED
      BY <3>1, <3>2
  <2> QED
    BY <1>1, <1>3, <1>4, <2>3, <2>4
<1> QED
  BY <1>5, <1>9, <1>10

\* What SegmentsAreTheBuffer says of an end.
Cut(s) ==
  LET end[i \in 0 .. Len(s.slist)] ==
        IF i = 0 THEN s.una ELSE Wrap(end[i - 1] + s.slist[i].len)
      sent == {i \in DOMAIN s.slist : s.slist[i].xmit > 0}
  IN  /\ \A i \in DOMAIN s.slist : s.slist[i].seq = end[i - 1]
      /\ end[Len(s.slist)] = Wrap(s.una + Len(s.sbuf))
      /\ sent = 1 .. Cardinality(sent) /\ end[Cardinality(sent)] = s.nxt
      /\ s.rto <=> sent # {}

\* m_slist is cut at the right places, and what was transmitted of it comes
\* first.
LEMMA SendingCut ==
  ASSUME NEW s \in Tcp, Sending(s), Total(s) < SeqSpace
  PROVE  Cut(s)
<1> DEFINE end  == CHOOSE f : Offsets(f, s.slist, s.una)
           sent == {i \in DOMAIN s.slist : s.slist[i].xmit > 0}
<1>1. Cut(s) <=>
        /\ \A i \in DOMAIN s.slist : s.slist[i].seq = end[i - 1]
        /\ end[Len(s.slist)] = Wrap(s.una + Len(s.sbuf))
        /\ sent = 1 .. Cardinality(sent) /\ end[Cardinality(sent)] = s.nxt
        /\ s.rto <=> sent # {}
  BY Zenon DEF Cut, Offsets
<1>2. PICK list \in Seq(Segment) : list = s.slist
  BY TcpFields
<1>3. PICK a \in Nat : a = s.una
  BY TcpFields
<1>4. PICK z \in Nat : z = Total(s)
  <2>1. s.una \in Nat /\ Len(s.sbuf) \in Nat
    BY TcpFields
  <2>2. Total(s) \in Nat
    BY <2>1 DEF Total
  <2> QED
    BY <2>2
<1>5. Chained(list, a, z) /\ z < SeqSpace /\ (s.rto <=> a < s.nxt)
  BY <1>2, <1>3, <1>4 DEF Sending
<1>6. Offsets(end, s.slist, s.una)
  BY <1>2, <1>3, <1>5, OffsetsAre
<1> HIDE DEF end
<1>7. end[0] = a /\ \A i \in 1 .. Len(list) : end[i] = End(list[i])
  BY <1>2, <1>3, <1>5, <1>6, OffsetsAre
<1>8. PICK k \in 0 .. Len(list) :
        /\ \A i \in 1 .. Len(list) : list[i].xmit > 0 <=> i <= k
        /\ s.nxt = IF k = 0 THEN a ELSE End(list[k])
  BY <1>2, <1>3, SentFirst
<1>9. /\ Len(list) \in Nat /\ DOMAIN list = 1 .. Len(list)
      /\ \A i \in 1 .. Len(list) : list[i].seq \in Nat /\ End(list[i]) \in Nat
  BY SegmentsOf DEF End
<1>10. k \in Nat /\ k <= Len(list)
  BY <1>9
<1>11. sent = 1 .. k
  <2>1. \A i \in 1 .. Len(list) : i <= k <=> i \in 1 .. k
    BY <1>10
  <2>2. \A i \in 1 .. k : i \in 1 .. Len(list)
    BY <1>9, <1>10
  <2> QED
    BY <1>2, <1>8, <1>9, <2>1, <2>2
<1> HIDE DEF sent
<1>12. Cardinality(sent) = k
  <2>1. Cardinality(1 .. k) = IF 1 > k THEN 0 ELSE k - 1 + 1
    BY <1>10, FS_Interval, 1 \in Int, k \in Int
  <2> QED
    BY <1>10, <1>11, <2>1
<1>13. end[k] = s.nxt
  BY <1>7, <1>8, <1>9, <1>10
<1>14. ASSUME NEW i \in 1 .. Len(list)
       PROVE  list[i].seq = end[i - 1]
  <2>1. CASE i = 1
    BY <1>5, <1>7, <1>9, <2>1 DEF Chained
  <2>2. CASE i # 1
    <3>1. /\ i - 1 \in 1 .. Len(list) /\ i - 1 < Len(list) /\ (i - 1) + 1 = i
      BY <1>9, <2>2
    <3>2. list[i].seq = End(list[i - 1])
      BY <1>5, <3>1 DEF Chained
    <3> QED
      BY <1>7, <3>1, <3>2
  <2> QED
    BY <2>1, <2>2
<1>15. end[Len(list)] = Wrap(s.una + Len(s.sbuf))
  <2>1. Wrap(z) = z
    BY <1>5, NoWrap
  <2>2. s.una + Len(s.sbuf) = z
    BY <1>4 DEF Total
  <2>3. end[Len(list)] = z
    <3>1. CASE Len(list) = 0
      BY <1>5, <1>7, <1>9, <3>1 DEF Chained
    <3>2. CASE Len(list) # 0
      BY <1>5, <1>7, <1>9, <3>2 DEF Chained
    <3> QED
      BY <3>1, <3>2
  <2> QED
    BY <2>1, <2>2, <2>3
<1>16. s.rto <=> sent # {}
  <2>1. k = 0 => s.nxt = a /\ sent = {}
    BY <1>8, <1>11
  <2>2. ASSUME k # 0
        PROVE  a < s.nxt /\ sent # {}
    <3>1. k \in 1 .. Len(list) /\ k \in 1 .. k
      BY <1>10, <2>2
    <3>2. a <= list[k].seq /\ list[k].seq < End(list[k])
      BY <1>5, <3>1, ChainOrder
    <3>3. list[k].seq \in Nat /\ End(list[k]) \in Nat
      BY <1>9, <3>1
    <3> QED
      BY <1>8, <1>11, <2>2, <3>1, <3>2, <3>3
  <2> QED
    BY <1>5, <2>1, <2>2
<1> QED
  BY <1>1, <1>2, <1>9, <1>11, <1>12, <1>13, <1>14, <1>15, <1>16

\* What was written is in m_slist, cut where the receiver acknowledges.
THEOREM BufferIsCut ==
  ASSUME Short
  PROVE  Spec => []SegmentsAreTheBuffer
<1>1. Inv => SegmentsAreTheBuffer
  <2>1. ASSUME Inv, NEW e \in Ends, ~Over(tcp[e])
        PROVE  Cut(tcp[e])
    <3>1. ~Gone(e)
      BY <2>1 DEF Over, Gone
    <3>2. /\ tcp[e] \in Tcp /\ Sending(tcp[e]) /\ Total(tcp[e]) < SeqSpace
      BY <2>1, <3>1, LiveEnd DEF Sound
    <3> QED
      BY <3>2, SendingCut
  <2>2. (\A e \in Ends : ~Over(tcp[e]) => Cut(tcp[e])) => SegmentsAreTheBuffer
    BY Zenon DEF SegmentsAreTheBuffer, Cut
  <2> QED
    BY <2>1, <2>2
<1> QED
  BY <1>1, Invariance, PTL

\* What an end believes of its peer's buffer is never more than there is.
THEOREM WindowsFit ==
  ASSUME Short
  PROVE  Spec => []WindowFits
<1>1. Inv => WindowFits
  <2> SUFFICES ASSUME Inv, NEW e \in Ends
               PROVE  /\ tcp[e].rwnd <= Space(tcp[e])
                      /\ tcp[e].state = "ESTABLISHED" /\ ~Over(tcp[Peer(e)])
                         /\ tcp[Peer(e)].shutdown = "NONE" =>
                           tcp[e].una + tcp[e].swnd
                             <= tcp[Peer(e)].rcv + tcp[Peer(e)].rwnd
    BY DEF WindowFits
  <2>1. tcp[e].rwnd <= Space(tcp[e])
    <3>1. EndInv(e)
      BY DEF Inv
    <3> QED
      BY <3>1 DEF EndInv, Dead, Alive, Sound
  <2>2. ASSUME tcp[e].state = "ESTABLISHED", ~Over(tcp[Peer(e)])
        PROVE  tcp[e].una + tcp[e].swnd <= tcp[Peer(e)].rcv + tcp[Peer(e)].rwnd
    <3>1. ~Gone(e) /\ ~Gone(Peer(e))
      BY <2>2 DEF Gone, Over
    <3>2. tcp[e].una + tcp[e].swnd \in Room(e)
      BY <3>1, LiveEnd DEF Sound
    <3> QED
      BY <3>1, <3>2 DEF Room, Edge
  <2> QED
    BY <2>1, <2>2
<1> QED
  BY <1>1, Invariance, PTL

\* An end that was connected and goes away without giving up has had all its
\* bytes acknowledged, and its peer has received them.
LEMMA ClosedHeard ==
  ASSUME Inv, Short, Next, NEW e \in Ends, tcp[e].state = "ESTABLISHED",
         tcp'[e].state = "GONE", tcp'[e].shutdown = "GRACEFUL",
         ~tcp'[e].aborted, tcp[Peer(e)].shutdown = "NONE"
  PROVE  Len(Received(Peer(e))) = written[e]
<1>1. PICK d \in Ends : \E s, rest : Turn(d, s, rest)
  BY NextTurns
<1>2. PICK s, rest : Turn(d, s, rest)
  BY <1>1
<1>3. d = e
  <2> SUFFICES ASSUME d # e PROVE FALSE
    OBVIOUS
  <2>1. e = Peer(d)
    BY PeerIs
  <2>2. tcp'[e] = tcp[e]
    BY <1>2, <2>1, TurnIs
  <2> QED
    BY <2>2
<1>4. PICK t : t = tcp'[e]
  OBVIOUS
<1>5. ~Gone(e)
  BY DEF Gone
<1>6. s \in Tcp /\ Becomes(e, s, t)
  BY <1>2, <1>3, <1>4, TurnIs
<1>7. Finished(s) /\ s.shutdown = "GRACEFUL" /\ ~s.aborted
  BY <1>4, <1>6 DEF Becomes
<1>8. Ran(e, s)
  BY <1>2, <1>3, <1>5 DEF Turn, Idle
<1>9. s.state = "ESTABLISHED"
  BY <1>7, <1>8 DEF Ran, Moved
<1>10. s.sbuf = <<>>
  BY <1>7, <1>9 DEF Finished
<1>11. s.una \in Nat /\ Total(s) = s.una
  <2>1. s.una \in Nat /\ Len(s.sbuf) = 0
    BY <1>6, <1>10, TcpFields
  <2> QED
    BY <2>1 DEF Total
<1>12. PICK o \in Ends : o = Peer(e) /\ Peer(o) = e
  BY PeerIs
<1>13. PICK r \in Tcp : r = tcp[o]
  BY DEF Inv, Typed
<1>14. ~Gone(o)
  <2>1. EndInv(o) /\ r.shutdown = "NONE"
    BY <1>12, <1>13 DEF Inv
  <2> QED
    BY <1>13, <2>1 DEF EndInv, Dead
<1>15. PICK w \in Nat : w = written[e]
  BY DEF Inv, Typed
<1>16. PICK x \in Nat : x = written'[e]
  BY <1>2, <1>3 DEF Turn
<1>17. s.una = x + 1 /\ w <= x
  BY <1>8, <1>9, <1>11, <1>15, <1>16 DEF Ran, Stated
<1>18. s.una <= r.rcv
  BY <1>8, <1>12, <1>13, <1>14 DEF Ran, Taken
<1>19. PICK b \in Nat : b = Len(read[o])
  <2>1. read[o] \in Seq(Int)
    BY DEF Inv, Typed
  <2> QED
    BY <2>1
<1>20. Got(r, Acks(o), w, b, Safe(o))
  BY <1>12, <1>13, <1>14, <1>15, <1>19, LiveEnd
<1>21. r.rcv \in Nat /\ Len(r.rbuf) \in Nat /\ r.rbuf \in Seq(Int)
  BY TcpFields
<1>22. r.rcv <= w + 1 /\ b + Len(r.rbuf) = IF r.rcv = 0 THEN 0 ELSE r.rcv - 1
  BY <1>12, <1>13, <1>20 DEF Got, Taking, Counts
<1>23. b + Len(r.rbuf) = w
  BY <1>17, <1>18, <1>21, <1>22
<1>24. Len(Received(o)) = b + Len(r.rbuf)
  <2>1. read[o] \in Seq(Int)
    BY DEF Inv, Typed
  <2>2. Len(read[o] \o r.rbuf) = Len(read[o]) + Len(r.rbuf)
    BY <1>21, <2>1, ConcatProperties
  <2> QED
    BY <1>13, <1>19, <2>2 DEF Received
<1> QED
  BY <1>12, <1>15, <1>23, <1>24

\* A connected end that was closed goes away when its peer has it all.
THEOREM ClosesGracefully ==
  ASSUME Short
  PROVE  Spec => GracefulClose
<1> DEFINE A == \A e \in Ends :
       /\ tcp[e].state = "ESTABLISHED"
       /\ tcp'[e].state = "GONE" /\ tcp'[e].shutdown = "GRACEFUL"
       /\ ~tcp'[e].aborted
       /\ tcp[Peer(e)].shutdown = "NONE"
       => Len(Received(Peer(e))) = written[e]
<1>1. Inv /\ [Next]_vars => [A]_vars
  <2> SUFFICES ASSUME Inv, Next PROVE A
    OBVIOUS
  <2> QED
    BY ClosedHeard, Zenon
<1>2. Spec => []Inv
  BY Invariance
<1> HIDE DEF A
<1>3. Spec => [][A]_vars
  BY <1>1, <1>2, PTL DEF Spec
<1> QED
  BY <1>3 DEF A, GracefulClose

\* Bytes that are in order are a prefix of what was written.
LEMMA PrefixOf ==
  ASSUME NEW x \in Seq(Int), NEW v \in Nat, ReadOK(x, v, TRUE)
  PROVE  IsPrefix(x, [i \in 1 .. v |-> i])
<1>1. PICK t : t = [i \in 1 .. v |-> i]
  OBVIOUS
<1>2. t \in Seq(Int) /\ Len(t) = v /\ \A i \in 1 .. v : t[i] = i
  <2>1. t \in [1 .. v -> Int]
    BY <1>1
  <2> QED
    BY <1>1, <2>1
<1>3. PICK n \in Nat : n = Len(x)
  OBVIOUS
<1>4. n <= v /\ \A i \in 1 .. n : x[i] = i
  BY <1>3 DEF ReadOK
<1>5. \A i \in 1 .. n : x[i] = t[i] /\ x[i] \in Int /\ t[i] \in Int
  BY <1>2, <1>3, <1>4
<1>6. PICK y : y = SubSeq(x, 1, n)
  OBVIOUS
<1>7. PICK z : z = SubSeq(t, 1, n)
  OBVIOUS
<1>8. y \in Seq(Int) /\ Len(y) = n /\ \A i \in 1 .. n : y[i] = x[i]
  <2>1. /\ SubSeq(x, 1, n) \in Seq(Int)
        /\ Len(SubSeq(x, 1, n)) = IF 1 <= n THEN n - 1 + 1 ELSE 0
        /\ \A i \in 1 .. n - 1 + 1 : SubSeq(x, 1, n)[i] = x[1 + i - 1]
    BY <1>5, SubSeqProperties, 1 \in Int, n \in Int
  <2> QED
    BY <1>6, <2>1
<1>9. z \in Seq(Int) /\ Len(z) = n /\ \A i \in 1 .. n : z[i] = t[i]
  <2>1. /\ SubSeq(t, 1, n) \in Seq(Int)
        /\ Len(SubSeq(t, 1, n)) = IF 1 <= n THEN n - 1 + 1 ELSE 0
        /\ \A i \in 1 .. n - 1 + 1 : SubSeq(t, 1, n)[i] = t[1 + i - 1]
    BY <1>5, SubSeqProperties, 1 \in Int, n \in Int
  <2> QED
    BY <1>7, <2>1
<1>10. y = z
  <2>1. \A i \in 1 .. Len(y) : y[i] = z[i]
    BY <1>5, <1>8, <1>9
  <2> QED
    BY <1>8, <1>9, <2>1, SeqEqual
<1>11. SubSeq(x, 1, Len(x)) = SubSeq(t, 1, Len(x)) /\ Len(x) <= Len(t)
  BY <1>2, <1>3, <1>4, <1>6, <1>7, <1>10
<1> QED
  BY <1>1, <1>11 DEF IsPrefix

\* What an end received is in order as long as nothing reaches it before the
\* CONNECT does (Safe).
LEMMA StreamInOrder ==
  ASSUME Inv, Short, NEW e \in Ends, Safe(e)
  PROVE  IsPrefix(Received(e), [i \in 1 .. written[Peer(e)] |-> i])
<1>1. PICK v \in Nat : v = written[Peer(e)]
  BY PeerIs DEF Inv, Typed
<1>2. PICK u \in Tcp : u = tcp[e]
  BY DEF Inv, Typed
<1>3. PICK r \in Seq(Int) : r = read[e]
  BY DEF Inv, Typed
<1>4. PICK x : x = r \o u.rbuf
  OBVIOUS
<1>5. ReadOK(r, v, TRUE)
  BY <1>1, <1>3 DEF Inv, ReadInv, ReadOK
<1>6. x \in Seq(Int) /\ ReadOK(x, v, TRUE)
  <2>1. CASE Gone(e)
    <3>1. EndInv(e)
      BY DEF Inv
    <3>2. u.rbuf = <<>>
      BY <1>2, <2>1, <3>1 DEF EndInv, Dead
    <3>3. x = r
      BY <1>4, <3>2, ConcatEmptySeq
    <3> QED
      BY <1>5, <3>3
  <2>2. CASE ~Gone(e)
    <3>1. PICK k \in Nat : k = Len(u.rbuf)
      BY TcpFields
    <3>2. SubSeq(u.rbuf, 1, k) = u.rbuf
      BY <3>1, TcpFields
    <3>3. Got(u, Acks(e), v, Len(r), Safe(e))
      BY <1>1, <1>2, <1>3, <2>2, LiveEnd
    <3>4. AheadOf(u, r, v, TRUE)
      BY <1>5, <3>3 DEF Got, Filled, AheadOf
    <3>5. x = r \o SubSeq(u.rbuf, 1, k) /\ k \in 0 .. Len(u.rbuf)
      BY <1>4, <3>1, <3>2
    <3>6. ReadOn(r \o SubSeq(u.rbuf, 1, k), Len(r) + k, v, TRUE)
      BY <3>4, <3>5, ReadsOn
    <3> QED
      BY <3>5, <3>6 DEF ReadOn
  <2> QED
    BY <2>1, <2>2
<1>7. IsPrefix(x, [i \in 1 .. v |-> i])
  BY <1>6, PrefixOf
<1>8. Received(e) = x
  BY <1>2, <1>3, <1>4 DEF Received
<1> QED
  BY <1>1, <1>7, <1>8, Zenon

\* What the server reads is what the client wrote, whatever the server writes.
THEOREM ServerReadsInOrder ==
  ASSUME Short
  PROVE  Spec => [](IsPrefix(Received("server"),
                             [i \in 1 .. written["client"] |-> i]))
<1>1. Inv => IsPrefix(Received("server"), [i \in 1 .. written["client"] |-> i])
  <2> SUFFICES ASSUME Inv
               PROVE IsPrefix(Received("server"),
                              [i \in 1 .. written["client"] |-> i])
    OBVIOUS
  <2>1. "server" \in Ends /\ Peer("server") = "client" /\ Safe("server")
    BY DEF Ends, Peer, Safe
  <2>2. IsPrefix(Received("server"), [i \in 1 .. written[Peer("server")] |-> i])
    BY <2>1, StreamInOrder
  <2> QED
    BY <2>1, <2>2
<1> QED
  BY <1>1, Invariance, PTL

\* As long as the server writes nothing, both ends read what was written.
THEOREM ReadsInOrder ==
  ASSUME Short, Bytes["server"] = 0
  PROVE  Spec => []InOrder
<1>1. Inv => InOrder
  <2> SUFFICES ASSUME Inv, NEW e \in Ends
               PROVE IsPrefix(Received(e), [i \in 1 .. written[Peer(e)] |-> i])
    BY Zenon DEF InOrder
  <2>1. Safe(e)
    BY DEF Safe
  <2> QED
    BY <2>1, StreamInOrder
<1> QED
  BY <1>1, Invariance, PTL

=============================================================================
