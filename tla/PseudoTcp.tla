----------------------------- MODULE PseudoTcp -----------------------------
(***************************************************************************)
(* PseudoTcp (talk/p2p/base/pseudotcp.cc): a byte stream over datagrams    *)
(* that are lost, duplicated and reordered, as PseudoTcpChannel            *)
(* (talk/session/tunnel) drives it.  An end is a record of the members of  *)
(* PseudoTcp and its methods are functions of such records; each action is *)
(* one entry point with everything it calls, up to AdjustClock.            *)
(*                                                                         *)
(* Byte number k of a stream is the number k, a CONNECT message is one     *)
(* byte.  The congestion window is any value from m_mss up whenever        *)
(* attemptSend reads it, duplicate acks are not counted (any of them may   *)
(* be the one that starts a fast retransmit), and time is abstracted: an   *)
(* armed timer may expire, windows are sent unscaled, and a zero window is *)
(* probed at most MaxProbes times before 15 s have passed in silence.  The *)
(* channel below may refuse any datagram (WR_FAIL); the member failed is   *)
(* not in the code, and records that the last segment was refused.         *)
(***************************************************************************)
EXTENDS Integers, FiniteSets, SequencesExt

CONSTANTS
  Mss,         \* the segment sizes of PACKET_MAXIMUMS, less the overhead
  SndBuf,      \* m_sbuf_len
  RcvBuf,      \* m_rbuf_len
  SeqSpace,    \* sequence numbers are counted modulo this, 2^32 in the code
  MaxXmit,     \* transmissions of a segment once connected, 15 in the code
  MaxSynXmit,  \* and before that, 30 in the code
  MaxProbes,   \* probes of a closed window
  Nagling,     \* m_use_nagling
  AckDelay,    \* m_ack_delay # 0
  Bytes,       \* how many bytes the user of each end writes
  Closers,     \* the ends whose users close them
  MaxNet       \* datagrams on their way to one end

Ends    == {"client", "server"}
Peer(e) == IF e = "client" THEN "server" ELSE "client"

ASSUME PseudoTcpConstants ==
  /\ {SndBuf, RcvBuf, SeqSpace, MaxXmit, MaxProbes, MaxNet} \subseteq Nat \ {0}
  /\ MaxSynXmit \in Nat /\ MaxXmit <= MaxSynXmit
  /\ IsFiniteSet(Mss) /\ Mss # {} /\ Mss \subseteq Nat \ {0}
  /\ SndBuf < SeqSpace /\ RcvBuf < SeqSpace
  /\ {Nagling, AckDelay} \subseteq BOOLEAN
  /\ Bytes \in [Ends -> Nat] /\ Closers \subseteq Ends

VARIABLES
  tcp,      \* the PseudoTcp of each end
  net,      \* the datagrams on their way to each end
  path,     \* the largest segment the path carries, 0 if it carries none
  written,  \* how many bytes each user wrote
  read      \* the bytes each user read

vars == <<tcp, net, path, written, read>>

Junk    == -1       \* a byte of the receive buffer before it is written
Wrap(n) == n % SeqSpace
Least(a, b) == IF a < b THEN a ELSE b

NewTcp ==
  [state |-> "LISTEN", shutdown |-> "NONE",
   una |-> 0, nxt |-> 0, swnd |-> 1, rcv |-> 0, rwnd |-> RcvBuf,
   mss |-> Min(Mss), advise |-> Max(Mss), slist |-> <<>>, sbuf |-> <<>>,
   rbuf |-> <<>>, ahead |-> [i \in 0 .. RcvBuf - 1 |-> Junk], rlist |-> {},
   rto |-> FALSE, tack |-> FALSE, lastack |-> 0, probes |-> 0,
   readEnable |-> TRUE, writeEnable |-> FALSE, aborted |-> FALSE,
   failed |-> FALSE, out |-> {}]

Over(s) == s.state \in {"CLOSED", "GONE"}

----------------------------------------------------------------------------
(* The sending half.                                                       *)

InFlight(s) == Wrap(s.nxt - s.una)

queue(s, data, ctl) ==
  LET d    == SubSeq(data, 1, Least(Len(data), SndBuf - Len(s.sbuf)))
      n    == Len(s.slist)
      join == n > 0 /\ s.slist[n].ctl = ctl /\ s.slist[n].xmit = 0
      list == IF join THEN [s.slist EXCEPT ![n].len = @ + Len(d)]
              ELSE Append(s.slist, [seq |-> Wrap(s.una + Len(s.sbuf)),
                                    len |-> Len(d), ctl |-> ctl, xmit |-> 0])
  IN  [s EXCEPT !.slist = list, !.sbuf = @ \o d]

queueConnectMessage(s) == queue([s EXCEPT !.swnd = 1], <<0>>, TRUE)

packet(s, seq, ctl, offset, len) ==
  [s EXCEPT
    !.out = @ \cup {[seq |-> seq, ack |-> s.rcv, wnd |-> s.rwnd, ctl |-> ctl,
                     data |-> SubSeq(s.sbuf, offset + 1, offset + len)]},
    !.lastack = s.rcv, !.tack = FALSE]

\* Variant (SegmentsAreTheBuffer): the second half of a segment counts as
\* never sent.
SplitUnsent(slist, i, n) ==
  IF slist[i].len <= n THEN slist
  ELSE InsertAt([slist EXCEPT ![i].len = n], i + 1,
                [seq |-> Wrap(slist[i].seq + n), len |-> slist[i].len - n,
                 ctl |-> slist[i].ctl, xmit |-> 0])

Split(slist, i, n) ==
  IF slist[i].len <= n THEN slist
  ELSE InsertAt([slist EXCEPT ![i].len = n], i + 1,
                [slist[i] EXCEPT !.seq = Wrap(@ + n), !.len = @ - n])

Exhausted(s, i) ==
  s.slist[i].xmit >= IF s.state = "ESTABLISHED" THEN MaxXmit ELSE MaxSynXmit

\* A datagram the path refuses as too large lowers m_mss until it fits.  This
\* is transmit when the channel takes it in the end,
transmit(s, i) ==
  LET want == Least(s.slist[i].len, s.mss)
      mss  == IF want <= path THEN s.mss
              ELSE Max({m \in Mss : m < s.mss /\ m <= path})
      list == Split(s.slist, i, Least(want, mss))
      seg  == list[i]
      sent == packet([s EXCEPT !.mss = mss], seg.seq, seg.ctl,
                     Wrap(seg.seq - s.una), seg.len)
  IN  [sent EXCEPT
        !.slist = [list EXCEPT ![i].xmit = @ + 1],
        !.nxt   = IF seg.xmit = 0 THEN Wrap(@ + seg.len) ELSE @,
        !.rto   = TRUE, !.failed = FALSE]

\* and this when it does not: an attempt with one of the sizes fails, or the
\* path carries none of them ("MTU too small").
Tried(s, i) ==
  LET want == Least(s.slist[i].len, s.mss)
  IN  {s.mss} \cup (IF path = 0 THEN {Min(Mss)} ELSE {}) \cup
      {m \in Mss : /\ path < want /\ m < want
                  /\ \A k \in Mss : m < k /\ k < want => path < k}

Refused(s, i, mss) ==
  [s EXCEPT !.mss = IF mss \in Tried(s, i) THEN mss ELSE @,
            !.lastack = s.rcv, !.failed = TRUE]

\* How much one turn of attemptSend's loop may send.
Sendable(s, cwnd) ==
  LET window  == Least(s.swnd, cwnd)
      useable == IF InFlight(s) < window THEN window - InFlight(s) ELSE 0
      avail   == Least(Wrap(Len(s.sbuf) - InFlight(s)), s.mss)
  IN  IF avail <= useable THEN avail
      ELSE IF useable * 4 < window THEN 0 ELSE useable

SendAck(s, flags) ==
  IF flags = "none" THEN s
  ELSE IF flags = "immediate" \/ s.tack THEN packet(s, s.nxt, FALSE, 0, 0)
  ELSE [s EXCEPT !.tack = TRUE]

\* Variant (Delivered): also when nothing is in flight.
HoldBackAlways(s, n) == Nagling /\ n < s.mss

HoldBack(s, n) == Nagling /\ s.nxt > s.una /\ n < s.mss

Unsent(s) == Min({j \in DOMAIN s.slist : s.slist[j].xmit = 0})

CutNext(s, n) == [s EXCEPT !.slist = Split(@, Unsent(s), n)]

SendNext(s, n) == transmit(CutNext(s, n), Unsent(s))

\* "TODO: consider closing socket": the segment stays unsent.
RefuseNext(s, n, mss) == Refused(CutNext(s, n), Unsent(s), mss)

\* What a call of attemptSend meets: what the congestion window has beyond one
\* segment, how much is in flight when the channel begins to refuse, and the
\* m_mss this leaves.  It makes no difference when there is nothing to send.
Chances == [more : 0 .. RcvBuf - 1, upto : 0 .. SndBuf, mss : Mss]

Luck(s) ==
  IF InFlight(s) < Len(s.sbuf) \/ s.state = "LISTEN" THEN Chances
  ELSE {[more |-> 0, upto |-> 0, mss |-> s.mss]}

Refuses(s, luck) == path = 0 \/ InFlight(s) >= luck.upto

\* One turn of attemptSend's loop: x.s is the end, x.flags the ack it owes.
SendTurn(x, luck) ==
  LET n == Sendable(x.s, x.s.mss + luck.more)
  IN  CASE ~x.go -> x
        [] x.go /\ n = 0 ->
             [x EXCEPT !.s = SendAck(@, x.flags), !.go = FALSE]
        [] x.go /\ n > 0 /\ HoldBack(x.s, n) -> [x EXCEPT !.go = FALSE]
        [] x.go /\ n > 0 /\ ~HoldBack(x.s, n) /\ Refuses(x.s, luck) ->
             [x EXCEPT !.s = RefuseNext(@, n, luck.mss), !.go = FALSE]
        [] OTHER -> [x EXCEPT !.s = SendNext(@, n), !.flags = "none"]

attemptSend(s0, flags, luck) ==
  LET loop[k \in 0 .. SndBuf + 1] ==
        IF k = 0 THEN [s |-> s0, flags |-> flags, go |-> TRUE]
        ELSE SendTurn(loop[k - 1], luck)
  IN  loop[SndBuf + 1].s

----------------------------------------------------------------------------
(* The receiving half.                                                     *)

Space(s) == RcvBuf - Len(s.rbuf)

\* Variant (InOrder): saves a segment one byte too early.
WriteEarly(s, d, offset) ==
  LET at == IF offset > 0 THEN offset - 1 ELSE 0
  IN  [s EXCEPT !.ahead =
         [i \in DOMAIN @ |-> IF i >= at /\ i < at + Len(d) /\ i < Space(s)
                             THEN d[i - at + 1] ELSE @[i]]]

\* FifoBuffer::WriteOffset: nothing is written past the end of the buffer.
WriteOffset(s, d, offset) ==
  [s EXCEPT !.ahead =
     [i \in DOMAIN @ |-> IF i >= offset /\ i < offset + Len(d) /\ i < Space(s)
                         THEN d[i - offset + 1] ELSE @[i]]]

\* FifoBuffer::ConsumeWriteBuffer, with m_rcv_nxt and m_rcv_wnd.
Consume(s, n) ==
  [s EXCEPT
    !.rbuf  = @ \o [i \in 1 .. n |-> s.ahead[i - 1]],
    !.ahead = [i \in DOMAIN @ |-> IF i + n < RcvBuf THEN @[i + n] ELSE Junk],
    !.rcv   = Wrap(@ + n),
    !.rwnd  = Wrap(@ - n)]

\* Segments saved earlier that are next now,
RecoverTurn(s) ==
  LET now == {r \in s.rlist : r.seq <= s.rcv}
      end == Max({s.rcv} \cup {Wrap(r.seq + r.len) : r \in now})
  IN  [Consume(s, end - s.rcv) EXCEPT !.rlist = @ \ now]

\* and those that are next after them.
Recover(s0) ==
  LET loop[k \in 0 .. Cardinality(s0.rlist)] ==
        IF k = 0 THEN s0 ELSE RecoverTurn(loop[k - 1])
  IN  loop[Cardinality(s0.rlist)]

\* Adjust the incoming segment to fit our receive buffer.
Trim(s, p) ==
  LET old  == IF p.seq < s.rcv THEN s.rcv - p.seq ELSE 0
      d    == SubSeq(p.data, old + 1, Len(p.data))
      seq  == IF d # <<>> THEN Wrap(p.seq + old) ELSE p.seq
      over == Wrap(seq + Len(d) - s.rcv) - Space(s)
  IN  [seq |-> seq,
       data |-> IF over > 0 THEN SubSeq(d, 1, Len(d) - over) ELSE d]

Accept(s, p) ==
  LET t      == Trim(s, p)
      n      == Len(t.data)
      saved  == WriteOffset(s, t.data, Wrap(t.seq - s.rcv))
  IN  IF n = 0 THEN s
      ELSE IF p.ctl \/ s.shutdown # "NONE"
           THEN IF t.seq = s.rcv THEN [s EXCEPT !.rcv = Wrap(@ + n)] ELSE s
      ELSE IF t.seq = s.rcv THEN Recover(Consume(saved, n))
      ELSE [saved EXCEPT !.rlist = @ \cup {[seq |-> t.seq, len |-> n]}]

\* Conditions were acks must be sent: too old, too new, has data.
AckFlags(s, p, after) ==
  IF \/ p.seq # s.rcv
     \/ Len(after.rbuf) > Len(s.rbuf) + Len(Trim(s, p).data)  \* Recovered
  THEN "immediate"
  ELSE IF p.data = <<>> THEN "none"
  ELSE IF AckDelay THEN "delayed" ELSE "immediate"

----------------------------------------------------------------------------
(* The state of the connection.                                            *)

adjustMTU(s) == [s EXCEPT !.mss = s.advise]

Establish(s) == adjustMTU([s EXCEPT !.state = "ESTABLISHED"])

closedown(s) == [s EXCEPT !.state = "CLOSED", !.aborted = TRUE]

\* taken: the channel takes the datagram.
Retransmit(s, taken) ==
  IF Exhausted(s, 1) \/ ~taken \/ path = 0 THEN closedown(s)
  ELSE transmit(s, 1)

Control(s, p) ==
  CASE p.ctl /\ s.state = "LISTEN" ->
         queueConnectMessage([s EXCEPT !.state = "SYN_RECEIVED"])
    [] p.ctl /\ s.state = "SYN_SENT" -> Establish(s)
    [] OTHER -> s

Valuable(s, p) == p.ack > s.una /\ p.ack <= s.nxt

\* The segments left of slist when n bytes are acknowledged.
Free(slist, n) ==
  LET end[i \in 0 .. Len(slist)] ==
        IF i = 0 THEN 0 ELSE end[i - 1] + slist[i].len
      k    == Max({i \in DOMAIN end : end[i] <= n})
      rest == SubSeq(slist, k + 1, Len(slist))
  IN  IF end[k] = n THEN rest ELSE [rest EXCEPT ![1].len = @ - (n - end[k])]

\* Variant (WindowFits): an ack older than m_snd_una sets the window as well.
AckedStale(s, p) ==
  IF ~Valuable(s, p) THEN [s EXCEPT !.swnd = p.wnd]
  ELSE [s EXCEPT !.swnd  = p.wnd,
                 !.una   = p.ack,
                 !.rto   = p.ack # s.nxt,
                 !.sbuf  = SubSeq(@, p.ack - s.una + 1, Len(@)),
                 !.slist = Free(@, p.ack - s.una),
                 !.probes = 0]

Acked(s, p) ==
  CASE Valuable(s, p) ->
         [s EXCEPT !.swnd  = p.wnd,
                   !.una   = p.ack,
                   !.rto   = p.ack # s.nxt,
                   !.sbuf  = SubSeq(@, p.ack - s.una + 1, Len(@)),
                   !.slist = Free(@, p.ack - s.una),
                   !.probes = 0]
    [] p.ack = s.una -> [s EXCEPT !.swnd = p.wnd]
    [] OTHER -> s

\* The packet may be the duplicate ack, or the ack during recovery, that has
\* the first segment retransmitted at once.
Recovers(s, p) ==
  /\ ~Over(s)
  /\ \/ Valuable(s, p) /\ p.ack # s.nxt
     \/ p.ack = s.una /\ p.data = <<>> /\ s.una # s.nxt

\* A bit hacky: any packet but a CONNECT completes the handshake.
Complete(s, p) ==
  IF s.state = "SYN_RECEIVED" /\ ~p.ctl THEN Establish(s) ELSE s

NotifyWriteable(s) ==
  IF s.writeEnable /\ Len(s.sbuf) < (SndBuf + RcvBuf) \div 2
  THEN [s EXCEPT !.writeEnable = FALSE] ELSE s

NotifyReadable(s, before) ==
  IF Len(s.rbuf) > Len(before.rbuf) THEN [s EXCEPT !.readEnable = FALSE] ELSE s

\* fast is what becomes of the retransmission above.
process(s, p, fast, luck) ==
  LET acked == Acked(Control(s, p), p)
      again == IF fast = "none" THEN acked
               ELSE Retransmit(acked, fast = "taken")
      open  == NotifyWriteable(Complete(again, p))
      got   == Accept(open, p)
  IN  IF Over(again) THEN again
      ELSE NotifyReadable(attemptSend(got, AckFlags(open, p, got), luck), open)

\* Variant (GracefulClose): does not wait for the bytes in flight.
FinishedUnacked(s) ==
  \/ s.shutdown = "FORCEFUL"
  \/ s.shutdown = "GRACEFUL" /\ (s.state # "ESTABLISHED" \/
                                 (InFlight(s) = Len(s.sbuf) /\ ~s.tack))

\* clock_check: a closed end goes away once it has nothing left to do.
Finished(s) ==
  \/ s.shutdown = "FORCEFUL"
  \/ s.shutdown = "GRACEFUL" /\ (s.state # "ESTABLISHED" \/
                                 (s.sbuf = <<>> /\ ~s.tack))

AdjustClock(s) ==
  IF Finished(s) THEN [NewTcp EXCEPT !.state = "GONE", !.shutdown = s.shutdown,
                                     !.aborted = s.aborted]
  ELSE [s EXCEPT !.out = {}]

----------------------------------------------------------------------------
(* The actions.  rest is what is left of the datagrams to e; of the ones   *)
(* that it sends any may be lost.                                          *)

Step(e, s, rest) ==
  /\ tcp' = [tcp EXCEPT ![e] = AdjustClock(s)]
  /\ \E kept \in SUBSET s.out :
       /\ net' = [net EXCEPT ![e] = rest, ![Peer(e)] = @ \cup kept]
       /\ Cardinality(net'[Peer(e)]) <= MaxNet

Connect(e) ==
  /\ e = "client" /\ tcp[e].state = "LISTEN"
  /\ \E luck \in Luck(tcp[e]) :
       LET s == queueConnectMessage([tcp[e] EXCEPT !.state = "SYN_SENT"])
       IN  Step(e, attemptSend(s, "none", luck), net[e])
  /\ UNCHANGED <<path, written, read>>

\* OnChannelRead: a datagram, which may arrive once more.
NotifyPacket(e) ==
  /\ \E p \in net[e] : \E rest \in {net[e], net[e] \ {p}} :
       IF Over(tcp[e]) THEN Step(e, tcp[e], rest)
       ELSE \E fast \in {"none", "taken", "refused"}, luck \in Luck(tcp[e]) :
              /\ fast # "none" => Recovers(Control(tcp[e], p), p)
              /\ Step(e, process(tcp[e], p, fast, luck), rest)
  /\ UNCHANGED <<path, written, read>>

\* NotifyClock, when it is time to retransmit a segment,
RetransmitTimeout(e) ==
  /\ ~Over(tcp[e]) /\ tcp[e].rto
  /\ \E taken \in BOOLEAN : Step(e, Retransmit(tcp[e], taken), net[e])
  /\ UNCHANGED <<path, written, read>>

\* to probe closed windows,
ProbeTimeout(e) ==
  /\ ~Over(tcp[e]) /\ tcp[e].swnd = 0
  /\ \/ Step(e, closedown(tcp[e]), net[e])
     \/ /\ tcp[e].probes < MaxProbes
        /\ Step(e, packet([tcp[e] EXCEPT !.probes = @ + 1],
                          Wrap(tcp[e].nxt - 1), FALSE, 0, 0), net[e])
  /\ UNCHANGED <<path, written, read>>

\* to send delayed acks.
AckTimeout(e) ==
  /\ ~Over(tcp[e]) /\ tcp[e].tack
  /\ Step(e, packet(tcp[e], tcp[e].nxt, FALSE, 0, 0), net[e])
  /\ UNCHANGED <<path, written, read>>

NotifyMTU(e) ==
  /\ ~Over(tcp[e])
  /\ \E m \in Mss \ {tcp[e].advise} :
       LET s == [tcp[e] EXCEPT !.advise = m]
       IN  Step(e, IF s.state = "ESTABLISHED" THEN adjustMTU(s) ELSE s, net[e])
  /\ UNCHANGED <<path, written, read>>

\* The user writes until there is no room, then waits to be notified.
Send(e) ==
  /\ tcp[e].state = "ESTABLISHED" /\ tcp[e].shutdown = "NONE"
  /\ ~tcp[e].writeEnable /\ written[e] < Bytes[e]
  /\ \E n \in 1 .. Bytes[e] - written[e], luck \in Chances :
       LET s == queue(tcp[e], [i \in 1 .. n |-> written[e] + i], FALSE)
       IN  IF Len(tcp[e].sbuf) = SndBuf
           THEN /\ Step(e, [tcp[e] EXCEPT !.writeEnable = TRUE], net[e])
                /\ UNCHANGED written
           ELSE /\ Step(e, attemptSend(s, "none", luck), net[e])
                /\ written' = [written EXCEPT ![e] =
                                 @ + Len(s.sbuf) - Len(tcp[e].sbuf)]
  /\ UNCHANGED <<path, read>>

\* Recv opens the window again when it has room for a segment.
OpenWindow(s, luck) ==
  LET open == [s EXCEPT !.rwnd = Space(s)]
  IN  IF Wrap(Space(s) - s.rwnd) < Least(RcvBuf \div 2, s.mss) THEN s
      ELSE IF s.rwnd = 0 THEN attemptSend(open, "immediate", luck) ELSE open

\* The user reads once it was notified, until there is nothing left.
Recv(e) ==
  /\ tcp[e].state = "ESTABLISHED" /\ tcp[e].shutdown = "NONE"
  /\ ~tcp[e].readEnable
  /\ \E k \in Least(1, Len(tcp[e].rbuf)) .. Len(tcp[e].rbuf),
        luck \in Luck(tcp[e]) :
       LET s == [tcp[e] EXCEPT !.rbuf = SubSeq(@, k + 1, Len(@))]
       IN  /\ Step(e, IF k = 0 THEN [s EXCEPT !.readEnable = TRUE]
                      ELSE OpenWindow(s, luck), net[e])
           /\ read' = [read EXCEPT ![e] = @ \o SubSeq(tcp[e].rbuf, 1, k)]
  /\ UNCHANGED <<path, written>>

\* The user closes the stream, or the channel below goes away.
Close(e) ==
  /\ e \in Closers /\ tcp[e].state # "GONE"
  /\ \E how \in {"GRACEFUL", "FORCEFUL"} :
       /\ how = "GRACEFUL" => tcp[e].shutdown = "NONE"
       /\ Step(e, [tcp[e] EXCEPT !.shutdown = how], net[e])
  /\ UNCHANGED <<path, written, read>>

Init ==
  /\ tcp = [e \in Ends |-> NewTcp]
  /\ net = [e \in Ends |-> {}]
  /\ path \in Mss \cup {0}
  /\ written = [e \in Ends |-> 0]
  /\ read = [e \in Ends |-> <<>>]

Timeouts(e) == RetransmitTimeout(e) \/ ProbeTimeout(e) \/ AckTimeout(e)

Next ==
  \E e \in Ends :
    \/ Connect(e) \/ NotifyPacket(e) \/ Timeouts(e) \/ NotifyMTU(e)
    \/ Send(e) \/ Recv(e) \/ Close(e)

Spec == Init /\ [][Next]_vars

\* Clocks run and readers read: as long as a timer is armed or a reader was
\* notified, one of them goes on.  Nothing is assumed of the network.
FairSpec == Spec /\ WF_vars(\E e \in Ends : Timeouts(e) \/ Recv(e))

----------------------------------------------------------------------------
(* Properties                                                              *)

Seqs  == 0 .. SeqSpace - 1

\* The states an end may be in; the numbers are sequence numbers, the queues
\* fit the buffers, and nothing is left unsent between two steps.
TypeOK ==
  /\ \A e \in Ends : LET s == tcp[e] IN
       /\ s.state \in {"LISTEN", "SYN_SENT", "SYN_RECEIVED", "ESTABLISHED",
                       "CLOSED", "GONE"}
       /\ s.shutdown \in {"NONE", "GRACEFUL", "FORCEFUL"}
       /\ {s.una, s.nxt, s.swnd, s.rcv, s.rwnd, s.lastack} \subseteq Seqs
       /\ {s.mss, s.advise} \subseteq Mss
       /\ Len(s.sbuf) <= SndBuf /\ Len(s.rbuf) <= RcvBuf
       /\ s.out = {}
       /\ written[e] <= Bytes[e]
  /\ path \in Mss \cup {0}

Received(e) == read[e] \o tcp[e].rbuf

\* What the user of an end reads, and will read of what was received, is what
\* its peer wrote, in order, without gaps and without bytes it never wrote.
InOrder ==
  \A e \in Ends :
    IsPrefix(Received(e), [i \in 1 .. written[Peer(e)] |-> i])

\* The segments of m_slist are the send buffer, cut where the receiver
\* acknowledges: transmit reads a segment at its distance from m_snd_una, and
\* an ack inside a segment would leave its seq behind m_snd_una.
SegmentsAreTheBuffer ==
  \A e \in Ends :
    LET s == tcp[e]
        end[i \in 0 .. Len(s.slist)] ==
          IF i = 0 THEN s.una ELSE Wrap(end[i - 1] + s.slist[i].len)
        sent == {i \in DOMAIN s.slist : s.slist[i].xmit > 0}
    IN  ~Over(s) =>
          /\ \A i \in DOMAIN s.slist : s.slist[i].seq = end[i - 1]
          /\ end[Len(s.slist)] = Wrap(s.una + Len(s.sbuf))
          /\ sent = 1 .. Cardinality(sent) /\ end[Cardinality(sent)] = s.nxt
          /\ s.rto <=> sent # {}

\* A sender never believes in more room than its peer's buffer has, whatever
\* acks were lost, duplicated or reordered: no segment it sends is cut.
WindowFits ==
  \A e \in Ends :
    LET s == tcp[e] r == tcp[Peer(e)]
    IN  /\ s.rwnd <= Space(s)
        /\ s.state = "ESTABLISHED" /\ ~Over(r) /\ r.shutdown = "NONE" =>
             s.una + s.swnd <= r.rcv + r.rwnd

\* "Segment has data (so we need to ACK!)": an end that has received bytes it
\* did not acknowledge yet has its delayed ack pending.
AckOwed ==
  \A e \in Ends :
    tcp[e].state = "ESTABLISHED" /\ tcp[e].lastack # tcp[e].rcv => tcp[e].tack

\* An end that was closed gracefully while connected goes away only when its
\* peer has received every byte that was written, or it gave up on the peer.
GracefulClose ==
  [][\A e \in Ends :
       /\ tcp[e].state = "ESTABLISHED"
       /\ tcp'[e].state = "GONE" /\ tcp'[e].shutdown = "GRACEFUL"
       /\ ~tcp'[e].aborted
       /\ tcp[Peer(e)].shutdown = "NONE"
       => Len(Received(Peer(e))) = written[e]]_vars

\* The channel below refused a segment when nothing else was in flight: no
\* timer is armed, and nothing but a datagram from the peer, a call of the user
\* or the peer's giving up has it sent.
Stranded(s) == s.failed /\ ~s.rto

\* Everything that was written is read, and a writer that waits for room is
\* told of it; or the connection ends.
Settled ==
  \/ \E e \in Ends : Over(tcp[e]) \/ tcp[e].shutdown # "NONE"
  \/ \A e \in Ends : /\ Len(read[Peer(e)]) = written[e]
                     /\ ~tcp[e].writeEnable

\* No lost datagram, closed window, missed notification or refused datagram
\* leaves anyone waiting for ever, with one exception: the segment that was
\* refused when nothing else was in flight.
Delivered == []<>(Settled \/ \E e \in Ends : Stranded(tcp[e]))

\* PseudoTcpChannel asserts that the channel below refuses nothing: so it
\* would be without the exception.
AlwaysDelivered == []<>Settled
=============================================================================
