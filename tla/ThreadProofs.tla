---------------------------- MODULE ThreadProofs ----------------------------
(***************************************************************************)
(* No wake-up of a thread is lost, for any number of threads and messages. *)
(*                                                                         *)
(* A sleeping thread is woken by the one flag of its Signaler, which every *)
(* Wait on its stack consumes: that of the message loop, those of the      *)
(* Sends nested in its handlers.  The invariant therefore looks at whole   *)
(* stacks: a call that has something to do is covered by the flag, by a    *)
(* Send above it that will signal again when it returns, or it has still   *)
(* to look before it sleeps.                                               *)
(***************************************************************************)
EXTENDS Thread, SequenceTheorems, TLAPS

-----------------------------------------------------------------------------
(* The inductive invariant.                                                *)

\* The calls of t.
CallsOf(t) == Range(stack[t])

\* Whoever is joined was told to quit.
StopsQuit ==
  \A t \in Threads : \A c \in CallsOf(t) : c.fn = "Stop" => fStop[c.to]

\* Which call may have made which: f is the one right above g on a stack.
Above(f, g) ==
  \/ /\ f.fn = "OnMessage"
     /\ \/ g.fn \in {"OnMessage", "ReceiveSends"}
        \/ g.fn = "Get" /\ g.pc \in {"receive", "select"}
  \/ f.fn \in {"Send", "Stop"} /\ g.fn = "OnMessage"
  \/ /\ f.fn = "ReceiveSends"
     /\ \/ g.fn = "Get" /\ g.pc = "queue"
        \/ g.fn = "Send" /\ g.pc = "select"

Stacked(s) == \A i \in 1 .. Len(s) - 1 : Above(s[i], s[i + 1])

Nested == \A t \in Threads : Stacked(stack[t])

\* has_sends_ is never unset while a message waits.
SendsFlagged == \A t \in Threads : sendlist[t] # <<>> => hasSends[t]

\* Some thread has put a message into sendlist_ of t and is about to wake it.
Waking(t) == \E u \in Threads : At(u, "Send", "wake") /\ Top(u).to = t

\* t has looked for sent messages and will not look again before it sleeps.
Dozing(t) ==
  At(t, "Get", "queue") \/ At(t, "Get", "stop") \/ At(t, "Send", "select")

\* A thread with a sent message that may sleep without looking for it has been
\* signaled, or is about to be.
SendsWake ==
  \A t \in Threads :
    sendlist[t] # <<>> /\ (fWait[t] \/ Dozing(t)) => signaled[t] \/ Waking(t)

\* e is a sent message that waits or is being handled.
Listed(e) == \E t \in Threads : e \in Range(sendlist[t])
Handling(e) ==
  \E t \in Threads : \E c \in CallsOf(t) :
    c.fn = "ReceiveSends" /\ e \in Range(c.handling)
Sender(t, m) == \E c \in CallsOf(t) : Sends(c, m)
Entries == [msg : Messages, from : Threads]

\* A sent message that waits or is handled names the one thread whose Send it
\* is, so that whoever answers it wakes the right one.
OneSender ==
  /\ \A e \in Entries : Listed(e) \/ Handling(e) => 
       e.msg <= used /\ \A t \in Threads : Sender(t, e.msg) => e.from = t
  /\ \A t \in Threads, m \in Messages : Sender(t, m) =>
       m <= used /\ \A u \in Threads : Sender(u, m) => t = u

\* c is a Send that will sleep although its message, in r, has been answered.
Owed(c, r) == c.fn = "Send" /\ c.pc \in {"receive", "select"} /\ c.msg \in r
\* c is a Send that will signal its own thread when it returns.
HasWaited(c) == c.fn = "Send" /\ c.waited
\* The owed calls of the stack s find the signal b, or one above them gives it
\* back to them.
Covered(s, r, b) ==
  \A i \in 1 .. Len(s) :
    Owed(s[i], r) => b \/ \E j \in 1 .. i - 1 : HasWaited(s[j])
AnswersWake == \A t \in Threads : Covered(stack[t], ready, signaled[t])

\* c is a message loop that will sleep, or sleeps, without another look at its
\* queues; it then has nothing in them.
Idles(c, b) == c.fn = "Get" /\ (c.pc = "stop" \/ (c.pc = "select" /\ b))
PostsWake ==
  \A t \in Threads : \A c \in CallsOf(t) :
    Idles(c, fWait[t]) /\ ~signaled[t] =>
       /\ msgq[t] = <<>>
       /\ dmsgq[t] # <<>> => c.timed
       /\ c.pc = "select" => ~fStop[t]

Safe ==
  /\ StopsQuit /\ Nested
  /\ SendsFlagged /\ SendsWake /\ OneSender /\ AnswersWake /\ PostsWake

ThreadInv == TypeOK /\ Safe

-----------------------------------------------------------------------------
(* Sequences.                                                              *)

\* A function changed at one argument.
LEMMA UpdateProperties ==
  ASSUME NEW S, NEW T, NEW f \in [S -> T], NEW x \in S, NEW v \in T
  PROVE  /\ [f EXCEPT ![x] = v] \in [S -> T]
         /\ [f EXCEPT ![x] = v][x] = v
         /\ \A y \in S \ {x} : [f EXCEPT ![x] = v][y] = f[y]
OBVIOUS

\* A sequence of length n cut at i grows by the element put there.
LEMMA InsertLength ==
  \A n \in Nat, i \in Nat : (i + 1) + (n - i) = n + 1
OBVIOUS

\* What is left when Clear takes one element out of a queue.
LEMMA RemoveAtProperties ==
  ASSUME NEW S, NEW s \in Seq(S), NEW i \in 1 .. Len(s)
  PROVE  /\ RemoveAt(s, i) \in Seq(S)
         /\ Len(RemoveAt(s, i)) = Len(s) - 1
         /\ \A j \in 1 .. Len(s) - 1 :
              RemoveAt(s, i)[j] = IF j < i THEN s[j] ELSE s[j + 1]
<1> DEFINE a == SubSeq(s, 1, i - 1)
           b == SubSeq(s, i + 1, Len(s))
<1>1. /\ a \in Seq(S) /\ Len(a) = i - 1
      /\ \A j \in 1 .. i - 1 : a[j] = s[j]
  BY SubSeqProperties
<1>2. /\ b \in Seq(S) /\ Len(b) = Len(s) - i
      /\ \A j \in 1 .. Len(s) - i : b[j] = s[i + j]
  BY SubSeqProperties
<1>3. RemoveAt(s, i) = a \o b
  BY DEF RemoveAt
<1> HIDE DEF a, b
<1>4. /\ a \o b \in Seq(S) /\ Len(a \o b) = Len(a) + Len(b)
      /\ \A j \in 1 .. Len(a) + Len(b) :
           (a \o b)[j] = IF j <= Len(a) THEN a[j] ELSE b[j - Len(a)]
  BY <1>1, <1>2, ConcatProperties
<1>5. Len(a) + Len(b) = Len(s) - 1
  BY <1>1, <1>2
<1>6. ASSUME NEW j \in 1 .. Len(s) - 1
      PROVE  (a \o b)[j] = IF j < i THEN s[j] ELSE s[j + 1]
  <2>1. CASE j < i
    BY <1>1, <1>4, <1>5, <2>1
  <2>2. CASE ~(j < i)
    <3>1. (a \o b)[j] = b[j - (i - 1)]
      BY <1>1, <1>4, <1>5, <2>2
    <3>2. j - (i - 1) \in 1 .. Len(s) - i /\ i + (j - (i - 1)) = j + 1
      BY <2>2
    <3>. QED
      BY <1>2, <2>2, <3>1, <3>2
  <2>. QED
    BY <2>1, <2>2
<1>. QED
  BY <1>3, <1>4, <1>5, <1>6

\* A call is put on top of a stack.
LEMMA PushProperties ==
  ASSUME NEW S, NEW s \in Seq(S), NEW f \in S
  PROVE  /\ <<f>> \o s \in Seq(S)
         /\ <<f>> \o s # <<>>
         /\ Len(<<f>> \o s) = Len(s) + 1
         /\ Head(<<f>> \o s) = f
         /\ (<<f>> \o s)[1] = f
         /\ \A i \in 2 .. Len(s) + 1 : (<<f>> \o s)[i] = s[i - 1]
OBVIOUS

\* The innermost call of a stack goes on as f.
LEMMA ContinueProperties ==
  ASSUME NEW S, NEW s \in Seq(S), s # <<>>, NEW f \in S
  PROVE  /\ <<f>> \o Tail(s) \in Seq(S)
         /\ <<f>> \o Tail(s) # <<>>
         /\ Len(<<f>> \o Tail(s)) = Len(s)
         /\ Head(<<f>> \o Tail(s)) = f
         /\ (<<f>> \o Tail(s))[1] = f
         /\ \A i \in 2 .. Len(s) : (<<f>> \o Tail(s))[i] = s[i]
<1>1. /\ Tail(s) \in Seq(S) /\ Len(Tail(s)) = Len(s) - 1
      /\ \A i \in 1 .. Len(s) - 1 : Tail(s)[i] = s[i + 1]
  OBVIOUS
<1>. QED
  BY <1>1, PushProperties

\* The innermost call goes on as f and calls g.
LEMMA CallProperties ==
  ASSUME NEW S, NEW s \in Seq(S), s # <<>>, NEW f \in S, NEW g \in S
  PROVE  /\ <<g, f>> \o Tail(s) = <<g>> \o (<<f>> \o Tail(s))
         /\ <<g, f>> \o Tail(s) \in Seq(S)
         /\ <<g, f>> \o Tail(s) # <<>>
         /\ Len(<<g, f>> \o Tail(s)) = Len(s) + 1
         /\ Head(<<g, f>> \o Tail(s)) = g
         /\ (<<g, f>> \o Tail(s))[1] = g
         /\ (<<g, f>> \o Tail(s))[2] = f
         /\ \A i \in 3 .. Len(s) + 1 : (<<g, f>> \o Tail(s))[i] = s[i - 1]
<1>1. Tail(s) \in Seq(S)
  OBVIOUS
<1>2. <<g, f>> \o Tail(s) = <<g>> \o (<<f>> \o Tail(s))
  BY <1>1
<1> DEFINE q == <<f>> \o Tail(s)
<1>3. /\ q \in Seq(S) /\ Len(q) = Len(s) /\ q[1] = f
      /\ \A i \in 2 .. Len(s) : q[i] = s[i]
  BY ContinueProperties
<1> HIDE DEF q
<1>4. /\ <<g>> \o q \in Seq(S) /\ <<g>> \o q # <<>>
      /\ Len(<<g>> \o q) = Len(q) + 1
      /\ Head(<<g>> \o q) = g /\ (<<g>> \o q)[1] = g
      /\ \A i \in 2 .. Len(q) + 1 : (<<g>> \o q)[i] = q[i - 1]
  BY <1>3, PushProperties
<1>5. (<<g>> \o q)[2] = f
  BY <1>3, <1>4
<1>6. \A i \in 3 .. Len(s) + 1 : (<<g>> \o q)[i] = s[i - 1]
  BY <1>3, <1>4
<1>. QED
  BY <1>2, <1>3, <1>4, <1>5, <1>6 DEF q

-----------------------------------------------------------------------------
(* Types.                                                                  *)

\* The calls that the actions make are calls.
LEMMA CallTypes ==
  /\ \A p \in {"receive", "queue", "stop", "select"}, b \in BOOLEAN :
       GetCall(p, b) \in Calls
  /\ \A m \in Messages \cup {0} : HandlerCall(m) \in Calls
  /\ \A p \in {"push", "wake", "loop", "receive", "select"}, m \in Messages,
        u \in Threads, b \in BOOLEAN : SendCall(p, m, u, b) \in Calls
  /\ ReceiveCall(<<>>) \in Calls
  /\ \A m \in Messages, u \in Threads :
       ReceiveCall(<<[msg |-> m, from |-> u]>>) \in Calls
  /\ \A u \in Owned : StopCall(u) \in Calls
<1>1. \A p \in {"receive", "queue", "stop", "select"}, b \in BOOLEAN :
        GetCall(p, b) \in Calls
  BY DEF Calls, GetCall
<1>2. \A m \in Messages \cup {0} : HandlerCall(m) \in Calls
  BY DEF Calls, HandlerCall
<1>3. \A p \in {"push", "wake", "loop", "receive", "select"}, m \in Messages,
        u \in Threads, b \in BOOLEAN : SendCall(p, m, u, b) \in Calls
  BY DEF Calls, SendCall
<1>4. /\ ReceiveCall(<<>>) \in Calls
      /\ \A m \in Messages, u \in Threads :
           ReceiveCall(<<[msg |-> m, from |-> u]>>) \in Calls
  BY DEF Calls, ReceiveCall
<1>5. \A u \in Owned : StopCall(u) \in Calls
  BY DEF Calls, StopCall
<1>. QED
  BY <1>1, <1>2, <1>3, <1>4, <1>5

\* What a call of each function is made of.
LEMMA CallFields ==
  ASSUME NEW c \in Calls
  PROVE  /\ c.fn = "Get" => /\ c.pc \in {"receive", "queue", "stop", "select"}
                            /\ c.timed \in BOOLEAN
                            /\ c = GetCall(c.pc, c.timed)
         /\ c.fn = "OnMessage" => c.msg \in Messages \cup {0}
         /\ c.fn = "Send" =>
              /\ c.pc \in {"push", "wake", "loop", "receive", "select"}
              /\ c.msg \in Messages /\ c.to \in Threads /\ c.waited \in BOOLEAN
              /\ c = SendCall(c.pc, c.msg, c.to, c.waited)
         /\ c.fn = "ReceiveSends" =>
              \/ c.handling = <<>>
              \/ \E m \in Messages, u \in Threads :
                   c.handling = <<[msg |-> m, from |-> u]>>
         /\ c.fn = "Stop" => c.to \in Owned
         /\ c.fn \in {"Get", "OnMessage", "Send", "ReceiveSends", "Stop"}
<1>1. CASE c \in [fn : {"Get"}, pc : {"receive", "queue", "stop", "select"},
                  timed : BOOLEAN]
  BY <1>1 DEF GetCall
<1>2. CASE c \in [fn : {"OnMessage"}, msg : Messages \cup {0}]
  BY <1>2
<1>3. CASE c \in [fn : {"Send"}, msg : Messages, to : Threads,
                  waited : BOOLEAN,
                  pc : {"push", "wake", "loop", "receive", "select"}]
  BY <1>3 DEF SendCall
<1>4. CASE c \in [fn : {"ReceiveSends"},
                  handling : {<<>>} \cup {<<[msg |-> m, from |-> t]>> :
                                           m \in Messages, t \in Threads}]
  BY <1>4
<1>5. CASE c \in [fn : {"Stop"}, to : Owned]
  BY <1>5
<1>. QED
  BY <1>1, <1>2, <1>3, <1>4, <1>5 DEF Calls

\* A call that goes on at another place is such a call again.
LEMMA CallUpdates ==
  ASSUME NEW c \in Calls, NEW p
  PROVE  /\ c.fn = "Get" => [c EXCEPT !.pc = p] = GetCall(p, c.timed)
         /\ c.fn = "Send" =>
              /\ [c EXCEPT !.pc = p] = SendCall(p, c.msg, c.to, c.waited)
              /\ [c EXCEPT !.pc = p, !.waited = TRUE]
                   = SendCall(p, c.msg, c.to, TRUE)
<1>1. ASSUME c.fn = "Get" PROVE [c EXCEPT !.pc = p] = GetCall(p, c.timed)
  <2>1. c \in [fn : {"Get"}, pc : {"receive", "queue", "stop", "select"},
              timed : BOOLEAN]
    BY <1>1 DEF Calls
  <2>. QED
    BY <2>1 DEF GetCall
<1>2. ASSUME c.fn = "Send"
      PROVE  /\ [c EXCEPT !.pc = p] = SendCall(p, c.msg, c.to, c.waited)
             /\ [c EXCEPT !.pc = p, !.waited = TRUE]
                  = SendCall(p, c.msg, c.to, TRUE)
  <2>1. c \in [fn : {"Send"}, msg : Messages, to : Threads, waited : BOOLEAN,
              pc : {"push", "wake", "loop", "receive", "select"}]
    BY <1>2 DEF Calls
  <2>2. [c EXCEPT !.pc = p] = SendCall(p, c.msg, c.to, c.waited)
    BY <2>1 DEF SendCall
  <2>3. \A b : [c EXCEPT !.pc = p, !.waited = b] = SendCall(p, c.msg, c.to, b)
    <3> SUFFICES ASSUME NEW b
                 PROVE  [c EXCEPT !.pc = p, !.waited = b]
                          = SendCall(p, c.msg, c.to, b)
      OBVIOUS
    <3> DEFINE d == [c EXCEPT !.pc = p]
    <3>1. d = [fn |-> "Send", pc |-> p, msg |-> c.msg, to |-> c.to,
               waited |-> c.waited]
      BY <2>2 DEF SendCall
    <3>2. [c EXCEPT !.pc = p, !.waited = b] = [d EXCEPT !.waited = b]
      OBVIOUS
    <3> HIDE DEF d
    <3>3. [d EXCEPT !.waited = b] = SendCall(p, c.msg, c.to, b)
      BY <3>1 DEF SendCall
    <3>. QED
      BY <3>2, <3>3
  <2>. QED
    BY <2>2, <2>3, Zenon
<1>. QED
  BY <1>1, <1>2

\* The innermost call of a thread that has one.
LEMMA TopFacts ==
  ASSUME StacksOK, NEW t \in Threads, stack[t] # <<>>
  PROVE  /\ stack[t] \in Seq(Calls) /\ Top(t) \in Calls
         /\ Top(t) = stack[t][1] /\ Len(stack[t]) \in Nat /\ Len(stack[t]) >= 1
         /\ Tail(stack[t]) \in Seq(Calls)
         /\ Len(Tail(stack[t])) = Len(stack[t]) - 1
         /\ \A i \in 1 .. Len(stack[t]) - 1 : Tail(stack[t])[i] = stack[t][i + 1]
<1>1. stack[t] \in Seq(Calls)
  BY DEF StacksOK
<1>. QED
  BY <1>1 DEF Top

\* A step that changes one stack only.
LEMMA StackStep ==
  ASSUME StacksOK, NEW t \in Threads, stack[t] # <<>>,
         NEW s \in Seq(Calls), stack' = [stack EXCEPT ![t] = s],
         UNCHANGED <<gone, fStop>>
  PROVE  StacksOK' /\ stack'[t] = s /\ \A u \in Threads \ {t} : stack'[u] = stack[u]
<1>1. stack'[t] = s /\ \A u \in Threads \ {t} : stack'[u] = stack[u]
  BY DEF StacksOK
<1>2. t \notin gone
  BY DEF StacksOK
<1>3. stack' \in [Threads -> Seq(Calls)]
  BY DEF StacksOK
<1>4. \A u \in gone : u \in Threads \ {t}
  BY <1>2, ThreadAssumption DEF StacksOK
<1>. QED
  BY <1>1, <1>3, <1>4 DEF StacksOK

\* Returning keeps the stacks in their types.
LEMMA PopStep ==
  ASSUME StacksOK, NEW t \in Threads, stack[t] # <<>>, Pop(t),
         UNCHANGED <<gone, fStop>>
  PROVE  StacksOK'
BY StackStep, TopFacts DEF Pop, StacksOK

\* So does calling,
LEMMA PushStep ==
  ASSUME StacksOK, NEW t \in Threads, stack[t] # <<>>, NEW f \in Calls,
         Push(t, f), UNCHANGED <<gone, fStop>>
  PROVE  StacksOK'
BY StackStep, TopFacts, PushProperties DEF Push, StacksOK

\* going on in the innermost call,
LEMMA ContinueStep ==
  ASSUME StacksOK, NEW t \in Threads, stack[t] # <<>>, NEW f \in Calls,
         Continue(t, f), UNCHANGED <<gone, fStop>>
  PROVE  StacksOK'
BY StackStep, TopFacts, ContinueProperties DEF Continue, StacksOK

\* and both at once.
LEMMA CallStep ==
  ASSUME StacksOK, NEW t \in Threads, stack[t] # <<>>, NEW f \in Calls,
         NEW g \in Calls, Call(t, f, g), UNCHANGED <<gone, fStop>>
  PROVE  StacksOK'
BY StackStep, TopFacts, CallProperties DEF Call, StacksOK

\* The calls on the stacks stay what they are, and threads that are destroyed
\* make none.
LEMMA StacksType ==
  ASSUME TypeOK, StopsQuit, Next
  PROVE  StacksOK'
<1>0. StacksOK /\ QueuesOK /\ FlagsOK
  BY DEF TypeOK
<1> USE <1>0
<1>1. ASSUME NEW t \in Threads, GetReceive(t) PROVE StacksOK'
  <2>1. stack[t] # <<>> /\ UNCHANGED <<gone, fStop>>
    BY <1>1 DEF GetReceive, At, In, CheckSends
  <2>2. GetCall("queue", FALSE) \in Calls /\ ReceiveCall(<<>>) \in Calls
    BY CallTypes
  <2>3. \/ Call(t, GetCall("queue", FALSE), ReceiveCall(<<>>))
        \/ Continue(t, GetCall("queue", FALSE))
    BY <1>1 DEF GetReceive, CheckSends
  <2>. QED
    BY <2>1, <2>2, <2>3, CallStep, ContinueStep
<1>2. ASSUME NEW t \in Threads, GetQueue(t) PROVE StacksOK'
  <2> DEFINE q == msgq[t] \o SubSeq(dmsgq[t], 1, due[t])
             rest == SubSeq(dmsgq[t], due[t] + 1, Len(dmsgq[t]))
  <2>1. stack[t] # <<>> /\ UNCHANGED <<gone, fStop>>
    BY <1>2 DEF GetQueue, At, In
  <2>2. \/ Continue(t, GetCall("stop", rest # <<>>))
        \/ q # <<>> /\ Call(t, GetCall("receive", FALSE), HandlerCall(Head(q)))
    BY <1>2 DEF GetQueue
  <2>3. q \in Seq(Messages)
    BY SubSeqProperties, ConcatProperties DEF QueuesOK
  <2> HIDE DEF q, rest
  <2>4. GetCall("stop", rest # <<>>) \in Calls
    BY CallTypes
  <2>5. q # <<>> => HandlerCall(Head(q)) \in Calls
    BY <2>3, CallTypes
  <2>6. GetCall("receive", FALSE) \in Calls
    BY CallTypes
  <2>. QED
    BY <2>1, <2>2, <2>4, <2>5, <2>6, CallStep, ContinueStep
<1>3. ASSUME NEW t \in Threads, GetStop(t) PROVE StacksOK'
  <2>1. stack[t] # <<>> /\ UNCHANGED <<gone, fStop>>
    BY <1>3 DEF GetStop, At, In
  <2>2. [Top(t) EXCEPT !.pc = "select"] \in Calls
    <3>1. Top(t) \in Calls /\ Top(t).fn = "Get"
      BY <1>3, <2>1, TopFacts DEF GetStop, At, In
    <3>2. Top(t).timed \in BOOLEAN
      BY <3>1, CallFields
    <3>3. [Top(t) EXCEPT !.pc = "select"] = GetCall("select", Top(t).timed)
      BY <3>1, CallUpdates
    <3>. QED
      BY <3>2, <3>3, CallTypes
  <2>3. Pop(t) \/ Continue(t, [Top(t) EXCEPT !.pc = "select"])
    BY <1>3 DEF GetStop
  <2>. QED
    BY <2>1, <2>2, <2>3, PopStep, ContinueStep
<1>4. ASSUME NEW t \in Threads, GetWait(t) PROVE StacksOK'
  <2>1. GetCall("receive", FALSE) \in Calls
    BY CallTypes
  <2>. QED
    BY <1>4, <2>1, ContinueStep DEF GetWait, At, In
<1>5. ASSUME NEW t \in Threads, NEW m \in Messages, SocketEvent(t, m)
      PROVE  StacksOK'
  <2>1. HandlerCall(m) \in Calls
    BY CallTypes
  <2>. QED
    BY <1>5, <2>1, PushStep DEF SocketEvent, At, In
<1>6. ASSUME NEW t \in Threads, ReceiveNext(t) PROVE StacksOK'
  <2>1. stack[t] # <<>> /\ UNCHANGED <<gone, fStop>>
    BY <1>6 DEF ReceiveNext, In
  <2>2. \/ Pop(t)
        \/ /\ sendlist[t] # <<>>
           /\ Call(t, ReceiveCall(<<Head(sendlist[t])>>),
                   HandlerCall(Head(sendlist[t]).msg))
    BY <1>6 DEF ReceiveNext
  <2>3. sendlist[t] # <<>> =>
          /\ ReceiveCall(<<Head(sendlist[t])>>) \in Calls
          /\ HandlerCall(Head(sendlist[t]).msg) \in Calls
    <3> SUFFICES ASSUME sendlist[t] # <<>>
                 PROVE  /\ ReceiveCall(<<Head(sendlist[t])>>) \in Calls
                        /\ HandlerCall(Head(sendlist[t]).msg) \in Calls
      OBVIOUS
    <3> DEFINE E == [msg : Messages, from : Threads]
    <3>0. sendlist[t] \in Seq(E)
      BY DEF QueuesOK
    <3> HIDE DEF E
    <3>a. Head(sendlist[t]) \in E
      BY <3>0
    <3>1. Head(sendlist[t]) \in [msg : Messages, from : Threads]
      BY <3>a DEF E
    <3>2. PICK m \in Messages, u \in Threads :
            Head(sendlist[t]) = [msg |-> m, from |-> u]
      BY <3>1
    <3>. QED
      BY <3>2, CallTypes
  <2>. QED
    BY <2>1, <2>2, <2>3, PopStep, CallStep
<1>7. ASSUME NEW t \in Threads, Return(t) PROVE StacksOK'
  BY <1>7, PopStep DEF Return, In
<1>8. ASSUME NEW t \in Threads, Destroy(t) PROVE StacksOK'
  <2> DEFINE u == Top(t).to
  <2>1. /\ stack[t] # <<>> /\ stack[u] = <<>> /\ Top(t).fn = "Stop"
        /\ gone' = gone \cup {u} /\ fStop' = fStop /\ Pop(t)
    BY <1>8 DEF Destroy, In, Join
  <2>2. u \in Owned
    BY <2>1, TopFacts, CallFields
  <2>3. Tail(stack[t]) \in Seq(Calls)
    BY <2>1, TopFacts
  <2> HIDE DEF u
  <2>4. /\ stack' \in [Threads -> Seq(Calls)]
        /\ \A v \in Threads \ {t} : stack'[v] = stack[v]
    BY <2>1, <2>3 DEF Pop, StacksOK
  <2>5. \A v \in gone \cup {u} : v \in Threads \ {t} /\ v \in Owned
    BY <2>1, <2>2, ThreadAssumption DEF StacksOK
  <2>6. fStop[u]
    <3>1. 1 \in DOMAIN stack[t] /\ Top(t) = stack[t][1]
      BY <2>1, TopFacts
    <3>. QED
      BY <2>1, <3>1 DEF StopsQuit, CallsOf, Range, u
  <2>. QED
    BY <2>1, <2>2, <2>4, <2>5, <2>6 DEF StacksOK
<1>9. ASSUME NEW t \in Threads, SendPush(t) \/ SendWake(t) PROVE StacksOK'
  <2>1. /\ stack[t] # <<>> /\ UNCHANGED <<gone, fStop>> /\ Top(t).fn = "Send"
        /\ \E p \in {"wake", "loop"} : Continue(t, [Top(t) EXCEPT !.pc = p])
    BY <1>9 DEF SendPush, SendWake, At, In
  <2>2. \A p \in {"wake", "loop"} : [Top(t) EXCEPT !.pc = p] \in Calls
    BY <2>1, TopFacts, CallFields, CallTypes DEF SendCall
  <2>. QED
    BY <2>1, <2>2, ContinueStep
<1>10. ASSUME NEW t \in Threads, SendLoop(t) PROVE StacksOK'
  <2>1. /\ stack[t] # <<>> /\ UNCHANGED <<gone, fStop>> /\ Top(t).fn = "Send"
        /\ Pop(t) \/ Continue(t, [Top(t) EXCEPT !.pc = "receive"])
    BY <1>10 DEF SendLoop, At, In
  <2>2. [Top(t) EXCEPT !.pc = "receive"] \in Calls
    BY <2>1, TopFacts, CallFields, CallTypes DEF SendCall
  <2>. QED
    BY <2>1, <2>2, ContinueStep, PopStep
<1>11. ASSUME NEW t \in Threads, SendReceive(t) PROVE StacksOK'
  <2> DEFINE f == [Top(t) EXCEPT !.pc = "select"]
  <2>1. /\ stack[t] # <<>> /\ UNCHANGED <<gone, fStop>> /\ Top(t).fn = "Send"
        /\ Call(t, f, ReceiveCall(<<>>)) \/ Continue(t, f)
    BY <1>11 DEF SendReceive, CheckSends, At, In
  <2>2. f \in Calls
    BY <2>1, TopFacts, CallFields, CallTypes DEF SendCall
  <2>3. ReceiveCall(<<>>) \in Calls
    BY CallTypes
  <2> HIDE DEF f
  <2>. QED
    BY <2>1, <2>2, <2>3, ContinueStep, CallStep
<1>12. ASSUME NEW t \in Threads, SendWait(t) PROVE StacksOK'
  <2> DEFINE f == [Top(t) EXCEPT !.pc = "loop", !.waited = TRUE]
  <2>1. /\ stack[t] # <<>> /\ UNCHANGED <<gone, fStop>> /\ Top(t).fn = "Send"
        /\ Continue(t, f)
    BY <1>12 DEF SendWait, At, In
  <2>2. f \in Calls
    <3>1. Top(t) \in Calls
      BY <2>1, TopFacts
    <3>2. f = SendCall("loop", Top(t).msg, Top(t).to, TRUE)
      BY <2>1, <3>1, CallUpdates
    <3>3. Top(t).msg \in Messages /\ Top(t).to \in Threads
      BY <2>1, <3>1, CallFields
    <3>4. TRUE \in BOOLEAN /\ "loop" \in {"push", "wake", "loop", "receive", "select"}
      OBVIOUS
    <3>. QED
      BY <3>2, <3>3, <3>4, CallTypes, Zenon
  <2> HIDE DEF f
  <2>. QED
    BY <2>1, <2>2, ContinueStep
<1>13. ASSUME NEW t \in Threads, NEW u \in Threads, NEW m \in Messages,
              BeginSend(t, u, m)
       PROVE  StacksOK'
  <2>1. /\ stack[t] # <<>> /\ UNCHANGED <<gone, fStop>>
        /\ \/ UNCHANGED stack
           \/ Push(t, HandlerCall(m))
           \/ Push(t, SendCall("push", m, u, FALSE))
    BY <1>13 DEF BeginSend, In
  <2>2. HandlerCall(m) \in Calls /\ SendCall("push", m, u, FALSE) \in Calls
    BY CallTypes
  <2>3. CASE UNCHANGED stack
    BY <2>1, <2>3 DEF StacksOK
  <2>. QED
    BY <2>1, <2>2, <2>3, PushStep
<1>14. ASSUME NEW t \in Threads, NEW u \in Threads, Quit(t, u) PROVE StacksOK'
  <2>1. /\ stack[t] # <<>> /\ gone' = gone /\ u \in Owned
        /\ fStop' = [fStop EXCEPT ![u] = TRUE] /\ Push(t, StopCall(u))
    BY <1>14 DEF Quit, In
  <2>2. StopCall(u) \in Calls
    BY <2>1, CallTypes
  <2>3. <<StopCall(u)>> \o stack[t] \in Seq(Calls)
    BY <2>1, <2>2, TopFacts, PushProperties
  <2>4. /\ stack' \in [Threads -> Seq(Calls)]
        /\ \A v \in Threads \ {t} : stack'[v] = stack[v]
    BY <2>1, <2>3 DEF Push, StacksOK
  <2>5. \A v \in gone : v \in Threads \ {t} /\ fStop[v] /\ v \in Owned
    BY <2>1, ThreadAssumption DEF StacksOK
  <2>6. \A v \in Threads : fStop[v] => fStop'[v]
    BY <2>1 DEF FlagsOK
  <2>. QED
    BY <2>1, <2>4, <2>5, <2>6 DEF StacksOK
<1>15. ASSUME UNCHANGED <<stack, gone, fStop>> PROVE StacksOK'
  BY <1>15 DEF StacksOK
<1>. QED
  <2>1. ASSUME NEW t \in Threads, NEW u \in Threads, NEW m \in Messages,
               Post(t, u, m) \/ Clear(t, u, m) \/ \E i : PostDelayed(t, u, m, i)
        PROVE  StacksOK'
    BY <1>15, <2>1 DEF Post, Clear, PostDelayed
  <2>2. ASSUME NEW t \in Threads, Elapse(t) PROVE StacksOK'
    BY <1>15, <2>2 DEF Elapse
  <2>. QED
    BY <1>1, <1>2, <1>3, <1>4, <1>5, <1>6, <1>7, <1>8, <1>9, <1>10, <1>11,
       <1>12, <1>13, <1>14, <2>1, <2>2 DEF Next, Run, Request

\* The lists keep their types.
LEMMA QueuesType ==
  ASSUME TypeOK, Next
  PROVE  QueuesOK'
<1>0. StacksOK /\ QueuesOK /\ FlagsOK
  BY DEF TypeOK
<1> USE <1>0
<1> DEFINE E == [msg : Messages, from : Threads]
<1>a. /\ msgq \in [Threads -> Seq(Messages)]
      /\ dmsgq \in [Threads -> Seq(Messages)]
      /\ due \in [Threads -> Nat] /\ \A t \in Threads : due[t] <= Len(dmsgq[t])
      /\ sendlist \in [Threads -> Seq(E)]
  BY DEF QueuesOK
<1>m. msgq \in [Threads -> Seq(Messages)]
  BY <1>a
<1>d. dmsgq \in [Threads -> Seq(Messages)]
  BY <1>a
<1>s. sendlist \in [Threads -> Seq(E)]
  BY <1>a
<1>b. ASSUME msgq' \in [Threads -> Seq(Messages)],
             dmsgq' \in [Threads -> Seq(Messages)],
             due' \in [Threads -> Nat],
             \A t \in Threads : due'[t] <= Len(dmsgq'[t]),
             sendlist' \in [Threads -> Seq(E)]
      PROVE  QueuesOK'
  BY <1>b DEF QueuesOK
<1> HIDE DEF E
<1>1. ASSUME NEW t \in Threads, GetQueue(t) PROVE QueuesOK'
  <2> DEFINE past == SubSeq(dmsgq[t], 1, due[t])
             rest == SubSeq(dmsgq[t], due[t] + 1, Len(dmsgq[t]))
  <2>1. past \in Seq(Messages) /\ rest \in Seq(Messages)
    BY <1>a, SubSeqProperties
  <2>2. /\ dmsgq' = [dmsgq EXCEPT ![t] = rest] /\ due' = [due EXCEPT ![t] = 0]
        /\ \/ msgq' = msgq
           \/ /\ msgq[t] \o past # <<>>
              /\ msgq' = [msgq EXCEPT ![t] = Tail(msgq[t] \o past)]
        /\ sendlist' = sendlist
    BY <1>1 DEF GetQueue
  <2> HIDE DEF past, rest
  <2>3. msgq[t] \o past \in Seq(Messages)
    BY <1>a, <2>1, ConcatProperties
  <2>4. msgq' \in [Threads -> Seq(Messages)]
    <3>1. msgq[t] \o past # <<>> => Tail(msgq[t] \o past) \in Seq(Messages)
      BY <2>3
    <3>. QED
      BY <1>m, <2>2, <3>1, Zenon
  <2>5. /\ dmsgq' \in [Threads -> Seq(Messages)] /\ due' \in [Threads -> Nat]
        /\ \A u \in Threads : due'[u] <= Len(dmsgq'[u])
    BY <1>a, <2>1, <2>2
  <2>. QED
    BY <1>a, <1>b, <2>2, <2>4, <2>5
<1>2. ASSUME NEW t \in Threads, Elapse(t) PROVE QueuesOK'
  <2>1. /\ due' \in [Threads -> Nat]
        /\ \A u \in Threads : due'[u] <= Len(dmsgq[u])
    BY <1>2, <1>a DEF Elapse
  <2>. QED
    BY <1>2, <1>a, <1>b, <2>1 DEF Elapse
<1>3. ASSUME NEW t \in Threads, ReceiveNext(t) PROVE QueuesOK'
  <2>1. sendlist' \in [Threads -> Seq(E)]
    <3>1. \/ sendlist' = sendlist
          \/ /\ sendlist[t] # <<>>
             /\ sendlist' = [sendlist EXCEPT ![t] = Tail(sendlist[t])]
      BY <1>3 DEF ReceiveNext
    <3>2. sendlist[t] \in Seq(E)
      BY <1>a
    <3>3. sendlist[t] # <<>> => Tail(sendlist[t]) \in Seq(E)
      BY <3>2
    <3>. QED
      BY <1>s, <3>1, <3>3, Zenon
  <2>. QED
    BY <1>3, <1>a, <1>b, <2>1 DEF ReceiveNext
<1>4. ASSUME NEW t \in Threads, Destroy(t) PROVE QueuesOK'
  <2> DEFINE u == Top(t).to
  <2>1. /\ sendlist' = [sendlist EXCEPT ![u] = <<>>]
        /\ msgq' = [msgq EXCEPT ![u] = <<>>]
        /\ dmsgq' = [dmsgq EXCEPT ![u] = <<>>]
        /\ due' = [due EXCEPT ![u] = 0]
        /\ stack[t] # <<>> /\ Top(t).fn = "Stop"
    BY <1>4 DEF Destroy, In
  <2>2. u \in Threads
    BY <2>1, TopFacts, CallFields, ThreadAssumption
  <2>3. <<>> \in Seq(Messages) /\ <<>> \in Seq(E)
    OBVIOUS
  <2> HIDE DEF u
  <2>4. /\ msgq' \in [Threads -> Seq(Messages)]
        /\ sendlist' \in [Threads -> Seq(E)]
        /\ dmsgq' \in [Threads -> Seq(Messages)]
    BY <1>m, <1>d, <1>s, <2>1, <2>2, <2>3, Zenon
  <2>5. due' \in [Threads -> Nat] /\ \A v \in Threads : due'[v] <= Len(dmsgq'[v])
    <3>0. due \in [Threads -> Nat]
      BY <1>a
    <3>3. due' \in [Threads -> Nat]
      BY <2>1, <2>2, <3>0
    <3>1. due'[u] = 0 /\ dmsgq'[u] = <<>> /\ Len(<<>>) = 0
      BY <1>d, <2>1, <2>2, <3>0
    <3>2. \A v \in Threads \ {u} : due'[v] = due[v] /\ dmsgq'[v] = dmsgq[v]
      BY <1>d, <2>1, <2>2, <3>0
    <3>4. due'[u] <= Len(dmsgq'[u])
      BY <3>1
    <3>5. \A v \in Threads : due[v] <= Len(dmsgq[v])
      BY <1>a
    <3>6. \A v \in Threads \ {u} : due'[v] <= Len(dmsgq'[v])
      BY <3>2, <3>5, Zenon
    <3>. QED
      BY <3>3, <3>4, <3>6, Zenon
  <2>. QED
    BY <1>b, <2>4, <2>5
<1>5. ASSUME NEW t \in Threads, NEW u \in Threads, NEW m \in Messages,
             Post(t, u, m)
      PROVE  QueuesOK'
  <2>1. msgq' = msgq \/ msgq' = [msgq EXCEPT ![u] = Append(msgq[u], m)]
    BY <1>5 DEF Post
  <2>2. Append(msgq[u], m) \in Seq(Messages)
    BY <1>a, AppendProperties
  <2>3. msgq' \in [Threads -> Seq(Messages)]
    BY <1>m, <2>1, <2>2, Zenon
  <2>. QED
    BY <1>5, <1>a, <1>b, <2>3 DEF Post
<1>6. ASSUME NEW t \in Threads, NEW u \in Threads, NEW m \in Messages,
             NEW i \in 0 .. Len(dmsgq[u]), PostDelayed(t, u, m, i)
      PROVE  QueuesOK'
  <2> DEFINE before == SubSeq(dmsgq[u], 1, i)
             after == SubSeq(dmsgq[u], i + 1, Len(dmsgq[u]))
             q == before \o <<m>> \o after
  <2>1. /\ before \in Seq(Messages) /\ Len(before) = i
        /\ after \in Seq(Messages) /\ Len(after) = Len(dmsgq[u]) - i
    BY <1>a, SubSeqProperties
  <2>2. /\ dmsgq' = dmsgq \/ dmsgq' = [dmsgq EXCEPT ![u] = q]
        /\ UNCHANGED <<msgq, due, sendlist>>
    BY <1>6 DEF PostDelayed
  <2> HIDE DEF before, after
  <2>3. q \in Seq(Messages) /\ Len(q) = Len(dmsgq[u]) + 1
    <3>1. <<m>> \in Seq(Messages) /\ Len(<<m>>) = 1
      OBVIOUS
    <3>2. /\ before \o <<m>> \in Seq(Messages)
          /\ Len(before \o <<m>>) = i + 1
      BY <2>1, <3>1, ConcatProperties
    <3>3. Len(dmsgq[u]) \in Nat /\ i \in Nat
      BY <1>a
    <3>4. /\ q \in Seq(Messages)
          /\ Len(q) = Len(before \o <<m>>) + Len(after)
      BY <2>1, <3>2, ConcatProperties
    <3>. HIDE DEF q
    <3>5. Len(q) = (i + 1) + (Len(dmsgq[u]) - i)
      BY <2>1, <3>2, <3>4, Zenon
    <3>6. (i + 1) + (Len(dmsgq[u]) - i) = Len(dmsgq[u]) + 1
      BY <3>3, InsertLength, Zenon
    <3>. QED
      BY <3>4, <3>5, <3>6, Zenon
  <2> HIDE DEF q
  <2>4. dmsgq' \in [Threads -> Seq(Messages)]
    BY <1>d, <2>2, <2>3, Zenon
  <2>5. \A v \in Threads : due[v] <= Len(dmsgq'[v])
    <3>1. CASE dmsgq' = dmsgq
      BY <1>a, <3>1
    <3>2. CASE dmsgq' = [dmsgq EXCEPT ![u] = q]
      <4>1. dmsgq'[u] = q /\ \A v \in Threads \ {u} : dmsgq'[v] = dmsgq[v]
        BY <1>d, <3>2
      <4>2. /\ due[u] \in Nat /\ due[u] <= Len(dmsgq[u])
            /\ Len(dmsgq[u]) \in Nat
        BY <1>a
      <4>3. due[u] <= Len(dmsgq'[u])
        BY <2>3, <4>1, <4>2
      <4>. QED
        BY <1>a, <4>1, <4>3
    <3>. QED
      BY <2>2, <3>1, <3>2
  <2>. QED
    BY <1>a, <1>b, <2>2, <2>4, <2>5
<1>7. ASSUME NEW t \in Threads, SendPush(t) PROVE QueuesOK'
  <2> DEFINE e == [msg |-> Top(t).msg, from |-> t]
             u == Top(t).to
  <2>1. /\ sendlist' = [sendlist EXCEPT ![u] = Append(@, e)]
        /\ UNCHANGED <<msgq, dmsgq, due>>
        /\ stack[t] # <<>> /\ Top(t).fn = "Send"
    BY <1>7 DEF SendPush, At, In
  <2>2. e \in E /\ u \in Threads
    BY <2>1, TopFacts, CallFields DEF E
  <2> HIDE DEF e, u
  <2>3. sendlist' \in [Threads -> Seq(E)]
    <3>1. Append(sendlist[u], e) \in Seq(E)
      BY <1>a, <2>2, AppendProperties
    <3>. QED
      BY <1>s, <2>1, <2>2, <3>1, Zenon
  <2>. QED
    BY <1>a, <1>b, <2>1, <2>3
<1>8. ASSUME NEW t \in Threads, NEW u \in Threads, NEW m \in Messages,
             Clear(t, u, m)
      PROVE  QueuesOK'
  <2>1. CASE \E i \in DOMAIN sendlist[u] :
               /\ sendlist' = [sendlist EXCEPT ![u] = RemoveAt(@, i)]
               /\ UNCHANGED <<msgq, dmsgq, due>>
    <3>1. PICK i \in DOMAIN sendlist[u] :
               /\ sendlist' = [sendlist EXCEPT ![u] = RemoveAt(@, i)]
               /\ UNCHANGED <<msgq, dmsgq, due>>
      BY <2>1
    <3>2. sendlist[u] \in Seq(E) /\ i \in 1 .. Len(sendlist[u])
      BY <1>a, <3>1
    <3>3. RemoveAt(sendlist[u], i) \in Seq(E)
      BY <3>2, RemoveAtProperties
    <3>. QED
      BY <1>a, <1>b, <3>1, <3>3
  <2>2. CASE \E i \in DOMAIN msgq[u] :
               /\ msgq' = [msgq EXCEPT ![u] = RemoveAt(@, i)]
               /\ UNCHANGED <<dmsgq, due, sendlist>>
    <3>1. PICK i \in DOMAIN msgq[u] :
               /\ msgq' = [msgq EXCEPT ![u] = RemoveAt(@, i)]
               /\ UNCHANGED <<dmsgq, due, sendlist>>
      BY <2>2
    <3>2. msgq[u] \in Seq(Messages) /\ i \in 1 .. Len(msgq[u])
      BY <1>a, <3>1
    <3>3. RemoveAt(msgq[u], i) \in Seq(Messages)
      BY <3>2, RemoveAtProperties
    <3>. QED
      BY <1>a, <1>b, <3>1, <3>3
  <2>3. CASE \E i \in DOMAIN dmsgq[u] :
               /\ dmsgq' = [dmsgq EXCEPT ![u] = RemoveAt(@, i)]
               /\ due' = [due EXCEPT ![u] = IF i <= @ THEN @ - 1 ELSE @]
               /\ UNCHANGED <<msgq, sendlist>>
    <3>1. PICK i \in DOMAIN dmsgq[u] :
               /\ dmsgq' = [dmsgq EXCEPT ![u] = RemoveAt(@, i)]
               /\ due' = [due EXCEPT ![u] = IF i <= @ THEN @ - 1 ELSE @]
               /\ UNCHANGED <<msgq, sendlist>>
      BY <2>3
    <3>2. dmsgq[u] \in Seq(Messages) /\ i \in 1 .. Len(dmsgq[u])
      BY <1>a, <3>1
    <3>3. /\ RemoveAt(dmsgq[u], i) \in Seq(Messages)
          /\ Len(RemoveAt(dmsgq[u], i)) = Len(dmsgq[u]) - 1
      BY <3>2, RemoveAtProperties
    <3>4. /\ dmsgq' \in [Threads -> Seq(Messages)]
          /\ Len(dmsgq'[u]) = Len(dmsgq[u]) - 1
          /\ \A v \in Threads \ {u} : dmsgq'[v] = dmsgq[v]
      BY <1>a, <3>1, <3>3
    <3>5. /\ due' \in [Threads -> Nat] /\ due'[u] <= Len(dmsgq[u]) - 1
          /\ \A v \in Threads \ {u} : due'[v] = due[v]
      BY <1>a, <3>1, <3>2
    <3>. QED
      BY <1>a, <1>b, <3>1, <3>4, <3>5
  <2>. QED
    BY <1>8, <2>1, <2>2, <2>3 DEF Clear
<1>9. ASSUME UNCHANGED <<msgq, dmsgq, due, sendlist>> PROVE QueuesOK'
  BY <1>9 DEF QueuesOK
<1>10. ASSUME NEW t \in Threads,
              \/ GetReceive(t) \/ GetStop(t) \/ GetWait(t) \/ Return(t)
              \/ SendWake(t) \/ SendLoop(t) \/ SendReceive(t) \/ SendWait(t)
       PROVE  QueuesOK'
  BY <1>9, <1>10 DEF GetReceive, CheckSends, GetStop, GetWait, Return, SendWake,
                     SendLoop, SendReceive, SendWait
<1>11. ASSUME NEW t \in Threads, NEW u \in Threads, NEW m \in Messages,
              SocketEvent(t, m) \/ BeginSend(t, u, m) \/ Quit(t, u)
       PROVE  QueuesOK'
  BY <1>9, <1>11 DEF SocketEvent, BeginSend, Quit
<1>12. ASSUME NEW t \in Threads, NEW u \in Threads, Quit(t, u)
       PROVE  QueuesOK'
  BY <1>9, <1>12 DEF Quit
<1>. QED
  BY <1>1, <1>2, <1>3, <1>4, <1>5, <1>6, <1>7, <1>8, <1>10, <1>11, <1>12
     DEF Next, Run, Request

\* A wake-up only ever signals.
LEMMA WakeUpSignals ==
  ASSUME signaled \in [Threads -> BOOLEAN], NEW ts, WakeUp(ts)
  PROVE  /\ signaled' \in [Threads -> BOOLEAN]
         /\ \A t \in Threads : (signaled[t] => signaled'[t])
         /\ \A t \in Threads : (t \in ts => signaled'[t])
<1>1. signaled' \in [Threads -> BOOLEAN]
  BY Zenon DEF WakeUp
<1>2. \A t \in Threads : signaled'[t] = (signaled[t] \/ t \in ts)
  BY Zenon DEF WakeUp
<1>. QED
  BY <1>1, <1>2, Zenon

\* The entries of sendlist_ and those being handled.
LEMMA EntryTypes ==
  ASSUME TypeOK, NEW t \in Threads
  PROVE  /\ Range(sendlist[t]) \subseteq Entries
         /\ \A c \in CallsOf(t) :
              c \in Calls /\ (c.fn = "ReceiveSends" => Range(c.handling) \subseteq Entries)
<1>1. Range(sendlist[t]) \subseteq Entries
  <2>1. sendlist[t] \in Seq(Entries)
    BY DEF TypeOK, QueuesOK, Entries
  <2>. QED
    BY <2>1, RangeOfSeq DEF Entries
<1>2. \A c \in CallsOf(t) : c \in Calls
  <2>1. stack[t] \in Seq(Calls)
    BY DEF TypeOK, StacksOK
  <2>. QED
    BY <2>1 DEF CallsOf, Range
<1>3. ASSUME NEW c \in Calls, c.fn = "ReceiveSends"
      PROVE  Range(c.handling) \subseteq Entries
  <2>1. CASE c.handling = <<>>
    BY <2>1 DEF Range
  <2>2. ASSUME NEW m \in Messages, NEW u \in Threads,
               c.handling = <<[msg |-> m, from |-> u]>>
        PROVE  Range(c.handling) \subseteq Entries
    BY <2>2 DEF Range, Entries
  <2>. QED
    BY <1>3, <2>1, <2>2, CallFields
<1>. QED
  BY <1>1, <1>2, <1>3

\* Flags stay flags, and only messages are answered.
LEMMA FlagsType ==
  ASSUME TypeOK, Next
  PROVE  FlagsOK'
<1>0. /\ hasSends \in [Threads -> BOOLEAN] /\ signaled \in [Threads -> BOOLEAN]
      /\ fWait \in [Threads -> BOOLEAN] /\ fStop \in [Threads -> BOOLEAN]
      /\ ready \subseteq Messages /\ cleared \subseteq Messages
      /\ used \in 0 .. MaxMessages
  BY DEF TypeOK, FlagsOK
<1>r. ASSUME NEW es, es \subseteq Entries, Release(es)
      PROVE  ready' \subseteq Messages /\ signaled' \in [Threads -> BOOLEAN]
  BY <1>0, <1>r, WakeUpSignals DEF Release, Entries
<1>u. ASSUME NEW m \in Messages, Use(m) PROVE used' \in 0 .. MaxMessages
  BY <1>u, ThreadAssumption DEF Use, Messages
<1>w. ASSUME NEW ts, WakeUp(ts) PROVE signaled' \in [Threads -> BOOLEAN]
  BY <1>0, <1>w, WakeUpSignals
<1>k. ASSUME hasSends' \in [Threads -> BOOLEAN],
             signaled' \in [Threads -> BOOLEAN],
             fWait' \in [Threads -> BOOLEAN], fStop' \in [Threads -> BOOLEAN],
             ready' \subseteq Messages, cleared' \subseteq Messages,
             used' \in 0 .. MaxMessages
      PROVE  FlagsOK'
  BY <1>k DEF FlagsOK
<1>1. ASSUME NEW t \in Threads,
             \/ GetReceive(t) \/ GetQueue(t) \/ Elapse(t) \/ Return(t)
             \/ SendReceive(t)
      PROVE  FlagsOK'
  BY <1>0, <1>1, <1>k DEF GetReceive, GetQueue, Elapse, Return, SendReceive,
                          CheckSends
<1>2. ASSUME NEW t \in Threads, GetStop(t) \/ GetWait(t) \/ SendWait(t)
      PROVE  FlagsOK'
  <2>1. signaled' \in [Threads -> BOOLEAN] /\ fWait' \in [Threads -> BOOLEAN]
    BY <1>0, <1>2 DEF GetStop, GetWait, SendWait
  <2>. QED
    BY <1>0, <1>2, <1>k, <2>1 DEF GetStop, GetWait, SendWait
<1>3. ASSUME NEW t \in Threads, NEW m \in Messages, SocketEvent(t, m)
      PROVE  FlagsOK'
  <2>1. signaled' \in [Threads -> BOOLEAN] /\ fWait' \in [Threads -> BOOLEAN]
    BY <1>0, <1>3, Zenon DEF SocketEvent
  <2>2. used' \in 0 .. MaxMessages
    BY <1>3, <1>u DEF SocketEvent
  <2>. QED
    BY <1>0, <1>3, <1>k, <2>1, <2>2 DEF SocketEvent
<1>4. ASSUME NEW t \in Threads, ReceiveNext(t) PROVE FlagsOK'
  <2>1. Answered(t) \subseteq Entries
    <3>1. StacksOK /\ stack[t] # <<>> /\ Top(t).fn = "ReceiveSends"
      BY <1>4 DEF TypeOK, ReceiveNext, In
    <3>2. Top(t) \in CallsOf(t)
      BY <3>1, TopFacts DEF CallsOf, Range
    <3>. QED
      BY <3>1, <3>2, EntryTypes DEF Answered
  <2>2. ready' \subseteq Messages /\ signaled' \in [Threads -> BOOLEAN]
    BY <1>4, <1>r, <2>1 DEF ReceiveNext
  <2>3. hasSends' \in [Threads -> BOOLEAN]
    BY <1>0, <1>4 DEF ReceiveNext
  <2>. QED
    BY <1>0, <1>4, <1>k, <2>2, <2>3 DEF ReceiveNext
<1>5. ASSUME NEW t \in Threads, NEW u \in Threads, NEW m \in Messages,
             \/ Post(t, u, m) \/ BeginSend(t, u, m)
             \/ \E i : PostDelayed(t, u, m, i)
      PROVE  FlagsOK'
  <2>1. used' \in 0 .. MaxMessages
    BY <1>5, <1>u DEF Post, BeginSend, PostDelayed
  <2>2. signaled' \in [Threads -> BOOLEAN]
    BY <1>0, <1>5, <1>w DEF Post, BeginSend, PostDelayed
  <2>. QED
    BY <1>0, <1>5, <1>k, <2>1, <2>2 DEF Post, BeginSend, PostDelayed
<1>6. ASSUME NEW t \in Threads, SendPush(t) PROVE FlagsOK'
  <2>1. hasSends' \in [Threads -> BOOLEAN]
    BY <1>0, <1>6 DEF SendPush
  <2>. QED
    BY <1>0, <1>6, <1>k, <2>1 DEF SendPush
<1>7. ASSUME NEW t \in Threads, SendWake(t) PROVE FlagsOK'
  BY <1>0, <1>7, <1>k, <1>w DEF SendWake
<1>8. ASSUME NEW t \in Threads, SendLoop(t) PROVE FlagsOK'
  <2>1. signaled' \in [Threads -> BOOLEAN]
    BY <1>0, <1>8, <1>w DEF SendLoop
  <2>2. ready' \subseteq Messages
    BY <1>0, <1>8 DEF SendLoop
  <2>. QED
    BY <1>0, <1>8, <1>k, <2>1, <2>2 DEF SendLoop
<1>9. ASSUME NEW t \in Threads, NEW u \in Threads, NEW m \in Messages,
             Clear(t, u, m)
      PROVE  FlagsOK'
  <2>1. \/ \E i \in DOMAIN sendlist[u] : Release({sendlist[u][i]})
        \/ UNCHANGED <<ready, signaled>>
    BY <1>9 DEF Clear
  <2>2. \A i \in DOMAIN sendlist[u] : {sendlist[u][i]} \subseteq Entries
    BY EntryTypes DEF Range
  <2>3. ready' \subseteq Messages /\ signaled' \in [Threads -> BOOLEAN]
    BY <1>0, <1>r, <2>1, <2>2
  <2>4. /\ cleared' \subseteq Messages
        /\ UNCHANGED <<hasSends, fWait, fStop, used>>
    BY <1>0, <1>9 DEF Clear
  <2>. QED
    BY <1>0, <1>k, <2>3, <2>4
<1>10. ASSUME NEW t \in Threads, NEW u \in Threads, Quit(t, u) PROVE FlagsOK'
  <2>1. fStop' \in [Threads -> BOOLEAN]
    BY <1>0, <1>10 DEF Quit
  <2>. QED
    BY <1>0, <1>10, <1>k, <1>w, <2>1 DEF Quit
<1>11. ASSUME NEW t \in Threads, Destroy(t) PROVE FlagsOK'
  <2>1. Top(t).to \in Threads
    BY <1>11, TopFacts, CallFields, ThreadAssumption DEF Destroy, In, TypeOK
  <2>2. Range(sendlist[Top(t).to]) \subseteq Entries
    BY <2>1, EntryTypes
  <2>3. ready' \subseteq Messages /\ signaled' \in [Threads -> BOOLEAN]
    BY <1>11, <1>r, <2>2 DEF Destroy
  <2>. QED
    BY <1>0, <1>11, <1>k, <2>3 DEF Destroy
<1>. QED
  BY <1>1, <1>2, <1>3, <1>4, <1>5, <1>6, <1>7, <1>8, <1>9, <1>10, <1>11
     DEF Next, Run, Request

-----------------------------------------------------------------------------
(* What the four changes of a stack keep.                                  *)

\* t is the only thread that has new calls, and they are in N.
NewCalls(t, N) ==
  /\ CallsOf(t)' \subseteq CallsOf(t) \cup N
  /\ \A u \in Threads \ {t} : stack'[u] = stack[u]

\* The calls below the innermost one of a stack.
LEMMA StackedTail ==
  ASSUME NEW s \in Seq(Calls), s # <<>>, Stacked(s)
  PROVE  /\ Stacked(Tail(s))
         /\ Tail(s) # <<>> =>
              Head(Tail(s)) \in Calls /\ Above(Head(s), Head(Tail(s)))
<1>1. /\ Tail(s) \in Seq(Calls) /\ Len(Tail(s)) = Len(s) - 1 /\ Len(s) \in Nat
      /\ \A i \in 1 .. Len(s) - 1 : Tail(s)[i] = s[i + 1]
  OBVIOUS
<1>2. Stacked(Tail(s))
  BY <1>1 DEF Stacked
<1>3. ASSUME Tail(s) # <<>>
      PROVE  Head(Tail(s)) \in Calls /\ Above(Head(s), Head(Tail(s)))
  <2>1. /\ Len(s) >= 2 /\ Head(s) = s[1] /\ Head(Tail(s)) = Tail(s)[1]
        /\ 1 \in 1 .. Len(s) - 1
    BY <1>1, <1>3
  <2>2. Above(s[1], s[1 + 1]) /\ Tail(s)[1] = s[1 + 1]
    BY <1>1, <2>1 DEF Stacked
  <2>3. Head(Tail(s)) \in Calls
    BY <1>1, <1>3
  <2>. QED
    BY <2>1, <2>2, <2>3
<1>. QED
  BY <1>2, <1>3

\* A stack on which f may be put stays a nest of calls.
LEMMA StackedPush ==
  ASSUME NEW s \in Seq(Calls), Stacked(s), NEW f \in Calls,
         s # <<>> => Above(f, Head(s))
  PROVE  Stacked(<<f>> \o s)
<1> DEFINE q == <<f>> \o s
<1>1. /\ Len(q) = Len(s) + 1 /\ Len(s) \in Nat /\ q[1] = f
      /\ \A i \in 2 .. Len(s) + 1 : q[i] = s[i - 1]
  BY PushProperties
<1> HIDE DEF q
<1> SUFFICES ASSUME NEW i \in 1 .. Len(q) - 1 PROVE Above(q[i], q[i + 1])
  BY DEF Stacked, q
<1>2. CASE i = 1
  <2>1. q[1 + 1] = s[1] /\ s # <<>> /\ Head(s) = s[1]
    BY <1>1, <1>2
  <2>. QED
    BY <1>1, <1>2, <2>1
<1>3. CASE i # 1
  <2>1. /\ i - 1 \in 1 .. Len(s) - 1 /\ (i - 1) + 1 = i
        /\ q[i] = s[i - 1] /\ q[i + 1] = s[i]
    BY <1>1, <1>3
  <2>2. Above(s[i - 1], s[(i - 1) + 1])
    BY <2>1 DEF Stacked
  <2>. QED
    BY <2>1, <2>2
<1>. QED
  BY <1>2, <1>3

\* The calls of a stack with f on top are its calls and f.
LEMMA RangePush ==
  ASSUME NEW s \in Seq(Calls), NEW f \in Calls
  PROVE  Range(<<f>> \o s) = Range(s) \cup {f}
<1> DEFINE q == <<f>> \o s
<1>1. /\ Len(q) = Len(s) + 1 /\ Len(s) \in Nat /\ q[1] = f
      /\ \A i \in 2 .. Len(s) + 1 : q[i] = s[i - 1]
      /\ DOMAIN q = 1 .. Len(s) + 1 /\ DOMAIN s = 1 .. Len(s)
  BY PushProperties
<1> HIDE DEF q
<1>2. ASSUME NEW c \in Range(q) PROVE c \in Range(s) \cup {f}
  <2>1. PICK i \in 1 .. Len(s) + 1 : c = q[i]
    BY <1>1, <1>2 DEF Range
  <2>2. CASE i = 1
    BY <1>1, <2>1, <2>2
  <2>3. CASE i # 1
    <3>1. i - 1 \in DOMAIN s /\ c = s[i - 1]
      BY <1>1, <2>1, <2>3
    <3>. QED
      BY <3>1 DEF Range
  <2>. QED
    BY <2>2, <2>3
<1>3. ASSUME NEW c \in Range(s) PROVE c \in Range(q)
  <2>1. PICK i \in 1 .. Len(s) : c = s[i]
    BY <1>1, <1>3 DEF Range
  <2>2. i + 1 \in DOMAIN q /\ (i + 1) - 1 = i /\ q[i + 1] = s[(i + 1) - 1]
    BY <1>1
  <2>. QED
    BY <2>1, <2>2 DEF Range
<1>4. f \in Range(q)
  BY <1>1 DEF Range
<1>. QED
  BY <1>2, <1>3, <1>4 DEF q

\* The calls of a stack are the innermost one and those below it.
LEMMA RangeTail ==
  ASSUME NEW s \in Seq(Calls), s # <<>>
  PROVE  Range(s) = Range(Tail(s)) \cup {Head(s)}
<1>1. Tail(s) \in Seq(Calls) /\ Head(s) \in Calls /\ s = <<Head(s)>> \o Tail(s)
  OBVIOUS
<1>. QED
  BY <1>1, RangePush

\* A call returns.
LEMMA Popped ==
  ASSUME TypeOK, Nested, NEW t \in Threads, stack[t] # <<>>, Pop(t)
  PROVE  Nested' /\ NewCalls(t, {}) /\ stack'[t] = Tail(stack[t])
<1>1. /\ stack[t] \in Seq(Calls) /\ stack'[t] = Tail(stack[t])
      /\ \A u \in Threads \ {t} : stack'[u] = stack[u]
  BY DEF TypeOK, StacksOK, Pop
<1>2. Stacked(stack'[t])
  BY <1>1, StackedTail DEF Nested
<1>3. CallsOf(t)' \subseteq CallsOf(t)
  BY <1>1, RangeTail DEF CallsOf
<1>. QED
  BY <1>1, <1>2, <1>3 DEF Nested, NewCalls

\* A call is made.
LEMMA Pushed ==
  ASSUME TypeOK, Nested, NEW t \in Threads, stack[t] # <<>>,
         NEW f \in Calls, Push(t, f), Above(f, Top(t))
  PROVE  Nested' /\ NewCalls(t, {f}) /\ stack'[t] = <<f>> \o stack[t]
<1>1. /\ stack[t] \in Seq(Calls) /\ stack'[t] = <<f>> \o stack[t]
      /\ \A u \in Threads \ {t} : stack'[u] = stack[u]
  BY DEF TypeOK, StacksOK, Push
<1>2. Stacked(stack'[t])
  BY <1>1, StackedPush DEF Nested, Top
<1>3. CallsOf(t)' = CallsOf(t) \cup {f}
  BY <1>1, RangePush DEF CallsOf
<1>. QED
  BY <1>1, <1>2, <1>3 DEF Nested, NewCalls

\* The innermost call goes on.
LEMMA Continued ==
  ASSUME TypeOK, Nested, NEW t \in Threads, stack[t] # <<>>,
         NEW f \in Calls, Continue(t, f),
         \A g \in Calls : Above(Top(t), g) => Above(f, g)
  PROVE  Nested' /\ NewCalls(t, {f}) /\ stack'[t] = <<f>> \o Tail(stack[t])
<1>1. /\ stack[t] \in Seq(Calls) /\ stack'[t] = <<f>> \o Tail(stack[t])
      /\ Tail(stack[t]) \in Seq(Calls)
      /\ \A u \in Threads \ {t} : stack'[u] = stack[u]
  BY DEF TypeOK, StacksOK, Continue
<1>2. /\ Stacked(Tail(stack[t]))
      /\ Tail(stack[t]) # <<>> => Above(f, Head(Tail(stack[t])))
  BY <1>1, StackedTail DEF Nested, Top
<1>3. Stacked(stack'[t])
  BY <1>1, <1>2, StackedPush
<1>4. CallsOf(t)' \subseteq CallsOf(t) \cup {f}
  <2>1. Range(stack'[t]) = Range(Tail(stack[t])) \cup {f}
    BY <1>1, RangePush
  <2>. QED
    BY <1>1, <2>1, RangeTail DEF CallsOf
<1>. QED
  BY <1>1, <1>3, <1>4 DEF Nested, NewCalls

\* The innermost call goes on and makes another one.
LEMMA Called ==
  ASSUME TypeOK, Nested, NEW t \in Threads, stack[t] # <<>>,
         NEW f \in Calls, NEW g \in Calls, Call(t, f, g), Above(g, f),
         \A h \in Calls : Above(Top(t), h) => Above(f, h)
  PROVE  /\ Nested' /\ NewCalls(t, {f, g})
         /\ stack'[t] = <<g>> \o (<<f>> \o Tail(stack[t]))
<1>1. /\ stack[t] \in Seq(Calls) /\ stack'[t] = <<g, f>> \o Tail(stack[t])
      /\ Tail(stack[t]) \in Seq(Calls)
      /\ \A u \in Threads \ {t} : stack'[u] = stack[u]
  BY DEF TypeOK, StacksOK, Call
<1>2. stack'[t] = <<g>> \o (<<f>> \o Tail(stack[t]))
  <2>1. <<g, f>> \o Tail(stack[t]) = <<g>> \o (<<f>> \o Tail(stack[t]))
    BY <1>1
  <2>. QED
    BY <1>1, <2>1, Zenon
<1> DEFINE q == <<f>> \o Tail(stack[t])
<1>3. q \in Seq(Calls) /\ q # <<>> /\ Head(q) = f
  BY <1>1, PushProperties
<1>4. /\ Stacked(Tail(stack[t]))
      /\ Tail(stack[t]) # <<>> => Above(f, Head(Tail(stack[t])))
  BY <1>1, StackedTail DEF Nested, Top
<1>5. Stacked(q)
  BY <1>1, <1>4, StackedPush
<1>6. Range(q) \subseteq CallsOf(t) \cup {f}
  <2>1. Range(q) = Range(Tail(stack[t])) \cup {f}
    BY <1>1, RangePush
  <2>. QED
    BY <1>1, <2>1, RangeTail DEF CallsOf
<1> HIDE DEF q
<1>7. Stacked(<<g>> \o q) /\ Range(<<g>> \o q) = Range(q) \cup {g}
  BY <1>3, <1>5, StackedPush, RangePush
<1>8. Stacked(stack'[t]) /\ CallsOf(t)' \subseteq CallsOf(t) \cup {f, g}
  BY <1>2, <1>6, <1>7 DEF CallsOf, q
<1>. QED
  BY <1>1, <1>2, <1>8 DEF Nested, NewCalls

\* Covered(s, r, b) as calls are made, return and go on.
LEMMA CoveredPush ==
  ASSUME NEW s \in Seq(Calls), NEW f \in Calls, NEW r, NEW b \in BOOLEAN,
         Covered(s, r, b), ~Owed(f, r)
  PROVE  Covered(<<f>> \o s, r, b)
<1> DEFINE q == <<f>> \o s
<1>1. /\ Len(q) = Len(s) + 1 /\ Len(s) \in Nat /\ q[1] = f
      /\ \A i \in 2 .. Len(s) + 1 : q[i] = s[i - 1]
  BY PushProperties
<1> HIDE DEF q
<1> SUFFICES ASSUME NEW i \in 1 .. Len(q), Owed(q[i], r), ~b
             PROVE  \E j \in 1 .. i - 1 : HasWaited(q[j])
  BY DEF Covered, q
<1>2. i # 1 /\ i - 1 \in 1 .. Len(s) /\ q[i] = s[i - 1]
  BY <1>1
<1>3. PICK j \in 1 .. (i - 1) - 1 : HasWaited(s[j])
  BY <1>2 DEF Covered
<1>4. j + 1 \in 1 .. i - 1 /\ (j + 1) - 1 = j /\ q[j + 1] = s[(j + 1) - 1]
  BY <1>1, <1>2
<1>. QED
  BY <1>3, <1>4

\* When the innermost call returns, the calls below stay covered, provided that
\* it gives back the signal it may have taken.
LEMMA CoveredTail ==
  ASSUME NEW s \in Seq(Calls), s # <<>>, NEW r, NEW b \in BOOLEAN,
         NEW d \in BOOLEAN, Covered(s, r, b), b => d, HasWaited(Head(s)) => d
  PROVE  Covered(Tail(s), r, d)
<1>1. /\ Len(Tail(s)) = Len(s) - 1 /\ Len(s) \in Nat /\ Head(s) = s[1]
      /\ \A i \in 1 .. Len(s) - 1 : Tail(s)[i] = s[i + 1]
  OBVIOUS
<1> SUFFICES ASSUME NEW i \in 1 .. Len(Tail(s)), Owed(Tail(s)[i], r), ~d
             PROVE  \E j \in 1 .. i - 1 : HasWaited(Tail(s)[j])
  BY DEF Covered
<1>2. i + 1 \in 1 .. Len(s) /\ Tail(s)[i] = s[i + 1]
  BY <1>1
<1>3. PICK j \in 1 .. (i + 1) - 1 : HasWaited(s[j])
  BY <1>2 DEF Covered
<1>4. j # 1
  BY <1>1, <1>3
<1>5. j - 1 \in 1 .. i - 1 /\ (j - 1) + 1 = j /\ Tail(s)[j - 1] = s[(j - 1) + 1]
  BY <1>1, <1>4
<1>. QED
  BY <1>3, <1>5

\* The innermost call goes on: the stack stays covered unless the call is newly
\* owed an answer or forgets that it waited.
LEMMA CoveredContinue ==
  ASSUME NEW s \in Seq(Calls), s # <<>>, NEW f \in Calls, NEW r,
         NEW b \in BOOLEAN, Covered(s, r, b),
         Owed(f, r) => Owed(Head(s), r), HasWaited(Head(s)) => HasWaited(f)
  PROVE  Covered(<<f>> \o Tail(s), r, b)
<1> DEFINE q == <<f>> \o Tail(s)
<1>1. /\ Len(q) = Len(s) /\ Len(s) \in Nat /\ q[1] = f
      /\ \A i \in 2 .. Len(s) : q[i] = s[i]
  BY ContinueProperties
<1>2. Head(s) = s[1]
  OBVIOUS
<1> HIDE DEF q
<1> SUFFICES ASSUME NEW i \in 1 .. Len(q), Owed(q[i], r), ~b
             PROVE  \E j \in 1 .. i - 1 : HasWaited(q[j])
  BY DEF Covered, q
<1>3. i \in 1 .. Len(s) /\ Owed(s[i], r)
  BY <1>1, <1>2
<1>4. PICK j \in 1 .. i - 1 : HasWaited(s[j])
  BY <1>3 DEF Covered
<1>5. HasWaited(q[j])
  BY <1>1, <1>2, <1>3, <1>4
<1>. QED
  BY <1>5

\* A Send that has waited covers all calls below it.
LEMMA CoveredWaited ==
  ASSUME NEW s \in Seq(Calls), s # <<>>, NEW f \in Calls, NEW r,
         NEW b \in BOOLEAN, HasWaited(f), ~Owed(f, r)
  PROVE  Covered(<<f>> \o Tail(s), r, b)
<1> DEFINE q == <<f>> \o Tail(s)
<1>1. Len(q) = Len(s) /\ Len(s) \in Nat /\ q[1] = f
  BY ContinueProperties
<1> HIDE DEF q
<1> SUFFICES ASSUME NEW i \in 1 .. Len(q), Owed(q[i], r)
             PROVE  \E j \in 1 .. i - 1 : HasWaited(q[j])
  BY DEF Covered, q
<1>2. 1 \in 1 .. i - 1
  BY <1>1
<1>. QED
  BY <1>1, <1>2

\* Other answers, or a signal.
LEMMA CoveredMore ==
  ASSUME NEW s \in Seq(Calls), NEW r, NEW p, NEW b \in BOOLEAN,
         NEW d \in BOOLEAN, Covered(s, r, b),
         d \/ (~b /\ \A c \in Range(s) : Owed(c, p) => Owed(c, r))
  PROVE  Covered(s, p, d)
<1> SUFFICES ASSUME NEW i \in 1 .. Len(s), Owed(s[i], p), ~d
             PROVE  \E j \in 1 .. i - 1 : HasWaited(s[j])
  BY DEF Covered
<1>1. s[i] \in Range(s)
  BY DEF Range
<1>2. Owed(s[i], r) /\ ~b
  BY <1>1
<1>. QED
  BY <1>2 DEF Covered

-----------------------------------------------------------------------------
(* What most steps keep.                                                   *)

\* A step that stops no thread, and lets nobody forget that it was told to quit.
LEMMA StopsKeep ==
  ASSUME TypeOK, StopsQuit, NEW t \in Threads, NEW N, NewCalls(t, N),
         \A c \in N : c.fn # "Stop",
         \A u \in Threads : (fStop[u] => fStop'[u])
  PROVE  StopsQuit'
<1> SUFFICES ASSUME NEW u \in Threads, NEW c \in CallsOf(u)', c.fn = "Stop"
             PROVE  fStop'[c.to]
  BY DEF StopsQuit
<1>1. c \in CallsOf(u)
  BY DEF NewCalls, CallsOf
<1>2. c.to \in Threads
  BY <1>1, EntryTypes, CallFields, ThreadAssumption
<1>. QED
  BY <1>1, <1>2 DEF StopsQuit

\* A step that neither sends a message nor answers one to somebody else.
LEMMA SendersKeep ==
  ASSUME TypeOK, OneSender, NEW t \in Threads, NEW N, NewCalls(t, N),
         \A c \in N : c.fn = "Send" =>
            \E d \in CallsOf(t) : d.fn = "Send" /\ d.msg = c.msg,
         \A c \in N : c.fn = "ReceiveSends" =>
            \A e \in Range(c.handling) : Listed(e) \/ Handling(e),
         \A u \in Threads : Range(sendlist'[u]) \subseteq Range(sendlist[u]),
         used' \in Nat, used <= used'
  PROVE  OneSender'
<1>1. ASSUME NEW u \in Threads, NEW m, Sender(u, m)' PROVE Sender(u, m)
  <2>1. PICK c \in CallsOf(u)' : c.fn = "Send" /\ c.msg = m
    BY <1>1 DEF Sender, Sends
  <2>2. c \in CallsOf(u) \/ (u = t /\ c \in N)
    BY <2>1 DEF NewCalls, CallsOf
  <2>. QED
    BY <2>1, <2>2 DEF Sender, Sends
<1>2. ASSUME NEW e, Handling(e)' PROVE Listed(e) \/ Handling(e)
  <2>1. PICK u \in Threads : \E c \in CallsOf(u)' :
               c.fn = "ReceiveSends" /\ e \in Range(c.handling)
    BY <1>2 DEF Handling
  <2>2. PICK c \in CallsOf(u)' :
               c.fn = "ReceiveSends" /\ e \in Range(c.handling)
    BY <2>1
  <2>3. c \in CallsOf(u) \/ (u = t /\ c \in N)
    BY <2>2 DEF NewCalls, CallsOf
  <2>. QED
    BY <2>2, <2>3 DEF Handling
<1>3. ASSUME NEW e, Listed(e)' PROVE Listed(e)
  BY <1>3 DEF Listed
<1>4. used \in Nat /\ \A m \in Messages : m \in Nat
  BY ThreadAssumption DEF TypeOK, FlagsOK, Messages
<1>5. ASSUME NEW e \in Entries, (Listed(e) \/ Handling(e))'
      PROVE  e.msg <= used' /\ \A u \in Threads : Sender(u, e.msg)' => e.from = u
  <2>1. /\ e.msg <= used
        /\ \A u \in Threads : Sender(u, e.msg) => e.from = u
    BY <1>2, <1>3, <1>5 DEF OneSender
  <2>2. e.msg <= used'
    BY <1>4, <2>1 DEF Entries
  <2>. QED
    BY <1>1, <2>1, <2>2
<1>6. ASSUME NEW u \in Threads, NEW m \in Messages, Sender(u, m)'
      PROVE  m <= used' /\ \A v \in Threads : Sender(v, m)' => u = v
  <2>1. m <= used /\ \A v \in Threads : Sender(v, m) => u = v
    BY <1>1, <1>6 DEF OneSender
  <2>2. m <= used'
    BY <1>4, <2>1
  <2>. QED
    BY <1>1, <2>1, <2>2
<1>. QED
  BY <1>5, <1>6 DEF OneSender, Entries, Messages

\* A step in which no message loop goes to sleep, and whoever gets a message or
\* is told to quit is signaled.
LEMMA PostsKeep ==
  ASSUME TypeOK, PostsWake, NEW t \in Threads, NEW N, NewCalls(t, N),
         \A c \in N : c.fn = "Get" => c.pc \in {"receive", "queue"},
         \A u \in Threads :
           \/ signaled'[u]
           \/ /\ ~signaled[u] /\ (fWait'[u] => fWait[u])
              /\ (fStop'[u] => fStop[u])
              /\ msgq[u] = <<>> => msgq'[u] = <<>>
              /\ dmsgq[u] = <<>> => dmsgq'[u] = <<>>
  PROVE  PostsWake'
<1> SUFFICES ASSUME NEW u \in Threads, NEW c \in CallsOf(u)',
                    Idles(c, fWait'[u]), ~signaled'[u]
             PROVE  /\ msgq'[u] = <<>>
                    /\ dmsgq'[u] # <<>> => c.timed
                    /\ c.pc = "select" => ~fStop'[u]
  BY DEF PostsWake
<1>1. c \in CallsOf(u)
  BY DEF NewCalls, CallsOf, Idles
<1>2. Idles(c, fWait[u]) /\ ~signaled[u]
  BY DEF Idles
<1>3. /\ msgq[u] = <<>>
      /\ dmsgq[u] # <<>> => c.timed
      /\ c.pc = "select" => ~fStop[u]
  BY <1>1, <1>2 DEF PostsWake
<1>. QED
  BY <1>3

\* A step after which only a thread that was signaled dozes with a sent message,
\* or one that did so before.
LEMMA SendsKeep ==
  ASSUME TypeOK, SendsWake, NEW t \in Threads, NEW N, NewCalls(t, N),
         ~At(t, "Send", "wake"),
         \A u \in Threads :
           sendlist'[u] # <<>> /\ (fWait'[u] \/ Dozing(u)') =>
             \/ signaled'[u]
             \/ /\ sendlist[u] # <<>> /\ (fWait[u] \/ Dozing(u))
                /\ (signaled[u] => signaled'[u])
  PROVE  SendsWake'
<1> SUFFICES ASSUME NEW u \in Threads, sendlist'[u] # <<>>,
                    fWait'[u] \/ Dozing(u)', ~signaled'[u]
             PROVE  Waking(u)'
  BY DEF SendsWake
<1>1. Waking(u)
  BY DEF SendsWake
<1>2. PICK v \in Threads : At(v, "Send", "wake") /\ Top(v).to = u
  BY <1>1 DEF Waking
<1>3. stack'[v] = stack[v]
  BY <1>2 DEF NewCalls
<1>. QED
  BY <1>2, <1>3 DEF Waking, At, In, Top

\* u is signaled, or no call of it is answered that was not answered before.
Steady(u) ==
  \/ signaled'[u]
  \/ ~signaled[u] /\ \A c \in CallsOf(u) : Owed(c, ready') => Owed(c, ready)

\* A step of t that leaves t covered and the other threads steady.
LEMMA AnswersKeep ==
  ASSUME TypeOK, signaled' \in [Threads -> BOOLEAN], AnswersWake,
         NEW t \in Threads, NEW N, NewCalls(t, N),
         Covered(stack'[t], ready', signaled'[t]),
         \A u \in Threads \ {t} : Steady(u)
  PROVE  AnswersWake'
<1> SUFFICES ASSUME NEW u \in Threads \ {t}
             PROVE  Covered(stack'[u], ready', signaled'[u])
  BY DEF AnswersWake
<1>1. stack'[u] = stack[u] /\ stack[u] \in Seq(Calls)
  BY DEF NewCalls, TypeOK, StacksOK
<1>2. Covered(stack[u], ready, signaled[u])
  BY DEF AnswersWake
<1>3. signaled[u] \in BOOLEAN /\ signaled'[u] \in BOOLEAN
  BY DEF TypeOK, FlagsOK
<1>4. signaled'[u] \/ (~signaled[u] /\ \A c \in Range(stack[u]) :
                                        Owed(c, ready') => Owed(c, ready))
  BY DEF Steady, CallsOf
<1>. QED
  BY <1>1, <1>2, <1>3, <1>4, CoveredMore

\* Whose message is answered is signaled.
LEMMA ReleaseSteady ==
  ASSUME TypeOK, OneSender, NEW es, es \subseteq Entries,
         \A e \in es : Listed(e) \/ Handling(e), Release(es)
  PROVE  \A u \in Threads : Steady(u) /\ (signaled[u] => signaled'[u])
<1> SUFFICES ASSUME NEW u \in Threads
             PROVE  Steady(u) /\ (signaled[u] => signaled'[u])
  OBVIOUS
<1>1. signaled[u] => signaled'[u]
  BY WakeUpSignals DEF Release, TypeOK, FlagsOK
<1>2. ASSUME ~signaled'[u], NEW c \in CallsOf(u), Owed(c, ready')
      PROVE  Owed(c, ready)
  <2>1. c.msg \in ready \cup {e.msg : e \in es} /\ c.fn = "Send"
    BY <1>2 DEF Release, Owed
  <2>2. ASSUME NEW e \in es, c.msg = e.msg PROVE FALSE
    <3>1. Sender(u, e.msg)
      BY <2>1, <2>2 DEF Sender, Sends
    <3>2. e.from = u
      BY <3>1 DEF OneSender
    <3>3. signaled'[u]
      BY <3>2, WakeUpSignals DEF Release, TypeOK, FlagsOK
    <3>. QED
      BY <1>2, <3>3
  <2>. QED
    BY <1>2, <2>1, <2>2 DEF Owed
<1>. QED
  BY <1>1, <1>2 DEF Steady

\* Waking threads disturbs nobody,
LEMMA WakeUpSteady ==
  ASSUME TypeOK, NEW ts, WakeUp(ts), ready' \subseteq ready
  PROVE  \A u \in Threads : Steady(u) /\ (signaled[u] => signaled'[u])
<1> SUFFICES ASSUME NEW u \in Threads
             PROVE  Steady(u) /\ (signaled[u] => signaled'[u])
  OBVIOUS
<1>1. signaled[u] => signaled'[u]
  BY WakeUpSignals DEF TypeOK, FlagsOK
<1>2. \A c : Owed(c, ready') => Owed(c, ready)
  BY DEF Owed
<1>. QED
  BY <1>1, <1>2 DEF Steady

\* nor does leaving signals and answers alone.
LEMMA UnchangedSteady ==
  ASSUME TypeOK, UNCHANGED <<ready, signaled>>
  PROVE  \A u \in Threads : Steady(u) /\ (signaled[u] => signaled'[u])
BY DEF Steady

\* What the innermost call of t is says whether t dozes.
LEMMA DozingTop ==
  ASSUME NEW u \in Threads
  PROVE  /\ stack'[u] = stack[u] => (Dozing(u)' <=> Dozing(u))
         /\ Dozing(u)' => /\ stack'[u] # <<>>
                          /\ \/ /\ Head(stack'[u]).fn = "Get"
                                /\ Head(stack'[u]).pc \in {"queue", "stop"}
                             \/ /\ Head(stack'[u]).fn = "Send"
                                /\ Head(stack'[u]).pc = "select"
<1>1. stack'[u] = stack[u] => (Dozing(u)' <=> Dozing(u))
  BY DEF Dozing, At, In, Top
<1>2. Dozing(u)' => /\ stack'[u] # <<>>
                    /\ \/ /\ Head(stack'[u]).fn = "Get"
                          /\ Head(stack'[u]).pc \in {"queue", "stop"}
                       \/ /\ Head(stack'[u]).fn = "Send"
                          /\ Head(stack'[u]).pc = "select"
  BY DEF Dozing, At, In, Top
<1>. QED
  BY <1>1, <1>2

\* A thread looks for sent messages, at first without the lock.
LEMMA CheckSendsKeeps ==
  ASSUME TypeOK, TypeOK', Safe, NEW t \in Threads, stack[t] # <<>>,
         NEW f \in Calls, CheckSends(t, f),
         \A g \in Calls : Above(Top(t), g) => Above(f, g),
         Above(ReceiveCall(<<>>), f), ~At(t, "Send", "wake"),
         f.fn = "Send" => Top(t).fn = "Send" /\ f.msg = Top(t).msg,
         f.fn = "Get" => f.pc = "queue",
         Owed(f, ready) => Owed(Top(t), ready), HasWaited(Top(t)) => HasWaited(f)
  PROVE  Safe'
<1> DEFINE g == ReceiveCall(<<>>)
<1>0. /\ StopsQuit /\ Nested /\ SendsFlagged /\ SendsWake /\ OneSender
      /\ AnswersWake /\ PostsWake
  BY DEF Safe
<1>1. /\ g \in Calls /\ g.fn = "ReceiveSends" /\ Range(g.handling) = {}
      /\ ~Owed(g, ready)
  BY CallTypes DEF ReceiveCall, Range, Owed
<1>2. /\ UNCHANGED <<msgq, dmsgq, sendlist, hasSends, signaled, fWait, fStop,
                     ready, used>>
      /\ IF hasSends[t] THEN Call(t, f, g) ELSE Continue(t, f)
  BY DEF CheckSends
<1>3. f.fn \in {"Get", "Send"}
  BY DEF Above, ReceiveCall
<1>4. /\ stack[t] \in Seq(Calls) /\ Top(t) \in CallsOf(t) /\ Tail(stack[t]) \in Seq(Calls)
      /\ Top(t) = Head(stack[t]) /\ Covered(stack[t], ready, signaled[t])
      /\ signaled[t] \in BOOLEAN /\ used \in Nat
  <2>1. Top(t) \in CallsOf(t)
    BY TopFacts DEF TypeOK, CallsOf, Range
  <2>. QED
    BY <1>0, <2>1 DEF TypeOK, StacksOK, FlagsOK, Top, AnswersWake
<1> HIDE DEF g
<1>5. CASE hasSends[t]
  <2>1. /\ Nested' /\ NewCalls(t, {f, g})
        /\ stack'[t] = <<g>> \o (<<f>> \o Tail(stack[t]))
    BY <1>0, <1>1, <1>2, <1>5, Called DEF g
  <2>2. <<f>> \o Tail(stack[t]) \in Seq(Calls) /\ Head(stack'[t]) = g
    BY <1>1, <1>4, <2>1, PushProperties
  <2>3. Covered(stack'[t], ready', signaled'[t])
    <3>1. Covered(<<f>> \o Tail(stack[t]), ready, signaled[t])
      BY <1>4, CoveredContinue
    <3>2. Covered(stack'[t], ready, signaled[t])
      BY <1>1, <1>4, <2>1, <2>2, <3>1, CoveredPush
    <3>. QED
      BY <1>2, <3>2
  <2>4. ~Dozing(t)'
    BY <1>1, <2>2, DozingTop
  <2>5. SendsWake'
    <3>1. \A u \in Threads : Dozing(u)' => Dozing(u)
      BY <2>1, <2>4, DozingTop DEF NewCalls
    <3>. QED
      BY <1>0, <1>2, <2>1, <3>1, SendsKeep
  <2>6. OneSender'
    <3> DEFINE N == {f, g}
    <3>1. \A c \in N : c.fn = "Send" =>
            \E d \in CallsOf(t) : d.fn = "Send" /\ d.msg = c.msg
      BY <1>1, <1>4
    <3>2. \A c \in N : c.fn = "ReceiveSends" =>
            \A e \in Range(c.handling) : Listed(e) \/ Handling(e)
      BY <1>1, <1>3
    <3>3. /\ \A u \in Threads : Range(sendlist'[u]) \subseteq Range(sendlist[u])
          /\ used' \in Nat /\ used <= used'
      BY <1>2, <1>4
    <3>4. NewCalls(t, N)
      BY <2>1
    <3>5. TypeOK /\ OneSender
      BY <1>0
    <3> HIDE DEF N
    <3>. QED
      BY <3>1, <3>2, <3>3, <3>4, <3>5, SendersKeep
  <2>7. PostsWake'
    BY <1>0, <1>1, <1>2, <1>3, <2>1, PostsKeep
  <2>8. StopsQuit'
    BY <1>0, <1>1, <1>2, <1>3, <2>1, StopsKeep
  <2>9. AnswersWake'
    BY <1>0, <1>2, <2>1, <2>3, AnswersKeep, UnchangedSteady DEF TypeOK, FlagsOK
  <2>10. SendsFlagged'
    BY <1>0, <1>2 DEF SendsFlagged
  <2>. QED
    BY <2>1, <2>5, <2>6, <2>7, <2>8, <2>9, <2>10 DEF Safe
<1>6. CASE ~hasSends[t]
  <2>1. /\ Nested' /\ NewCalls(t, {f})
        /\ stack'[t] = <<f>> \o Tail(stack[t])
    BY <1>0, <1>2, <1>6, Continued
  <2>2. sendlist[t] = <<>>
    BY <1>0, <1>6 DEF SendsFlagged
  <2>3. Covered(stack'[t], ready', signaled'[t])
    BY <1>2, <1>4, <2>1, CoveredContinue
  <2>5. SendsWake'
    <3>1. \A u \in Threads \ {t} : Dozing(u)' => Dozing(u)
      BY <2>1, DozingTop DEF NewCalls
    <3>. QED
      BY <1>0, <1>2, <2>1, <2>2, <3>1, SendsKeep
  <2>6. OneSender'
    BY <1>0, <1>2, <1>3, <1>4, <2>1, SendersKeep
  <2>7. PostsWake'
    BY <1>0, <1>2, <1>3, <2>1, PostsKeep
  <2>8. StopsQuit'
    BY <1>0, <1>2, <1>3, <2>1, StopsKeep
  <2>9. AnswersWake'
    BY <1>0, <1>2, <2>1, <2>3, AnswersKeep, UnchangedSteady DEF TypeOK, FlagsOK
  <2>10. SendsFlagged'
    BY <1>0, <1>2 DEF SendsFlagged
  <2>. QED
    BY <2>1, <2>5, <2>6, <2>7, <2>8, <2>9, <2>10 DEF Safe
<1>. QED
  BY <1>5, <1>6

\* As PostsKeep, when t has to be looked at.
LEMMA PostsKeepBut ==
  ASSUME TypeOK, PostsWake, NEW t \in Threads, NEW N, NewCalls(t, N),
         \A c \in CallsOf(t)' :
           Idles(c, fWait'[t]) /\ ~signaled'[t] =>
             /\ msgq'[t] = <<>>
             /\ dmsgq'[t] # <<>> => c.timed
             /\ c.pc = "select" => ~fStop'[t],
         \A u \in Threads \ {t} :
           /\ msgq'[u] = msgq[u] /\ dmsgq'[u] = dmsgq[u]
           /\ fStop'[u] = fStop[u] /\ fWait'[u] = fWait[u]
           /\ (signaled[u] => signaled'[u])
  PROVE  PostsWake'
<1> SUFFICES ASSUME NEW u \in Threads \ {t}, NEW c \in CallsOf(u)',
                    Idles(c, fWait'[u]), ~signaled'[u]
             PROVE  /\ msgq'[u] = <<>>
                    /\ dmsgq'[u] # <<>> => c.timed
                    /\ c.pc = "select" => ~fStop'[u]
  BY DEF PostsWake
<1>1. c \in CallsOf(u) /\ Idles(c, fWait[u]) /\ ~signaled[u]
  BY DEF NewCalls, CallsOf
<1>2. /\ msgq[u] = <<>>
      /\ dmsgq[u] # <<>> => c.timed
      /\ c.pc = "select" => ~fStop[u]
  BY <1>1 DEF PostsWake
<1>. QED
  BY <1>2

\* The message loop is at the bottom of a stack.
LEMMA GetAlone ==
  ASSUME TypeOK, Nested, NEW t \in Threads, stack[t] # <<>>, Top(t).fn = "Get"
  PROVE  /\ Tail(stack[t]) = <<>> /\ CallsOf(t) = {Top(t)}
         /\ Top(t) \in Calls /\ stack[t] \in Seq(Calls)
         /\ \A r : \A b \in BOOLEAN : Covered(stack[t], r, b)
         /\ \A g : ~Above(Top(t), g)
<1>1. stack[t] \in Seq(Calls) /\ Top(t) = Head(stack[t]) /\ Top(t) \in Calls
  BY TopFacts DEF TypeOK, StacksOK, Top
<1>2. \A g : ~Above(Top(t), g)
  BY DEF Above
<1>3. Tail(stack[t]) = <<>>
  BY <1>1, <1>2, StackedTail DEF Nested
<1>4. CallsOf(t) = Range(<<>>) \cup {Top(t)} /\ Range(<<>>) = {}
  BY <1>1, <1>3, RangeTail DEF CallsOf, Range
<1>5. ASSUME NEW r, NEW b \in BOOLEAN PROVE Covered(stack[t], r, b)
  <2>1. \A i \in 1 .. Len(stack[t]) : stack[t][i] \in CallsOf(t)
    BY <1>1 DEF CallsOf, Range
  <2>. QED
    BY <1>4, <2>1 DEF Covered, Owed
<1>. QED
  BY <1>1, <1>2, <1>3, <1>4, <1>5

\* The message loop looks for sent messages before it looks at its queue.
LEMMA GetReceiveKeeps ==
  ASSUME TypeOK, TypeOK', Safe, NEW t \in Threads, GetReceive(t)
  PROVE  Safe'
<1> DEFINE f == GetCall("queue", FALSE)
<1>1. /\ f \in Calls /\ f.fn = "Get" /\ f.pc = "queue"
      /\ Above(ReceiveCall(<<>>), f) /\ ~Owed(f, ready)
  BY CallTypes DEF GetCall, Above, ReceiveCall, Owed
<1> HIDE DEF f
<1>2. stack[t] # <<>> /\ Top(t).fn = "Get" /\ CheckSends(t, f)
  BY DEF GetReceive, At, In, f
<1>3. \A g : ~Above(Top(t), g)
  BY <1>2 DEF Above
<1>4. ~At(t, "Send", "wake") /\ ~HasWaited(Top(t))
  BY <1>2 DEF At, In, HasWaited
<1>. QED
  BY <1>1, <1>2, <1>3, <1>4, CheckSendsKeeps

\* It dispatches a message, or finds its queues empty and has still to look at
\* fStop_.
LEMMA GetQueueKeeps ==
  ASSUME TypeOK, TypeOK', Safe, NEW t \in Threads, GetQueue(t)
  PROVE  Safe'
<1>0. /\ StopsQuit /\ Nested /\ SendsFlagged /\ SendsWake /\ OneSender
      /\ AnswersWake /\ PostsWake
  BY DEF Safe
<1> DEFINE past == SubSeq(dmsgq[t], 1, due[t])
           q == msgq[t] \o past
           rest == SubSeq(dmsgq[t], due[t] + 1, Len(dmsgq[t]))
           stop == GetCall("stop", rest # <<>>)
           receive == GetCall("receive", FALSE)
           handler == HandlerCall(Head(q))
<1>1. /\ stack[t] # <<>> /\ Top(t).fn = "Get" /\ Top(t).pc = "queue"
      /\ dmsgq' = [dmsgq EXCEPT ![t] = rest]
      /\ UNCHANGED <<sendlist, hasSends, signaled, fWait, fStop, ready, used>>
      /\ \/ q = <<>> /\ Continue(t, stop) /\ msgq' = msgq
         \/ /\ q # <<>> /\ Call(t, receive, handler)
            /\ msgq' = [msgq EXCEPT ![t] = Tail(q)]
  BY DEF GetQueue, At, In
<1>2. past \in Seq(Messages) /\ msgq[t] \in Seq(Messages)
  BY SubSeqProperties DEF TypeOK, QueuesOK
<1>3. q \in Seq(Messages) /\ (q = <<>> => msgq[t] = <<>>)
  BY <1>2
<1>4. stop \in Calls /\ receive \in Calls
  BY CallTypes
<1>5. q # <<>> => handler \in Calls
  BY <1>3, CallTypes
<1>6. /\ stop.fn = "Get" /\ stop.pc = "stop" /\ stop.timed = (rest # <<>>)
      /\ receive.fn = "Get" /\ receive.pc = "receive"
      /\ handler.fn = "OnMessage"
  BY DEF GetCall, HandlerCall
<1>7. /\ dmsgq'[t] = rest
      /\ \A u \in Threads \ {t} : dmsgq'[u] = dmsgq[u] /\ msgq'[u] = msgq[u]
  BY <1>1 DEF TypeOK, QueuesOK
<1> HIDE DEF past, q, rest, stop, receive, handler
<1>8. /\ Tail(stack[t]) = <<>> /\ \A g : ~Above(Top(t), g)
      /\ used \in Nat /\ signaled[t] \in BOOLEAN
      /\ ~At(t, "Send", "wake") /\ Dozing(t)
  BY <1>0, <1>1, GetAlone DEF TypeOK, FlagsOK, At, In, Dozing
<1>9. ASSUME NEW N, NewCalls(t, N), \A c \in N : c.fn \in {"Get", "OnMessage"}
      PROVE  /\ StopsQuit' /\ SendsFlagged' /\ SendsWake' /\ OneSender'
             /\ \A u \in Threads : Steady(u)
  <2>1. StopsQuit' /\ OneSender'
    BY <1>0, <1>1, <1>8, <1>9, StopsKeep, SendersKeep
  <2>2. SendsFlagged'
    BY <1>0, <1>1 DEF SendsFlagged
  <2>3. \A u \in Threads \ {t} : Dozing(u)' => Dozing(u)
    BY <1>9, DozingTop DEF NewCalls
  <2>4. SendsWake'
    BY <1>0, <1>1, <1>8, <1>9, <2>3, SendsKeep
  <2>. QED
    BY <1>1, <2>1, <2>2, <2>4, UnchangedSteady
<1>10. CASE q = <<>>
  <2>1. Nested' /\ NewCalls(t, {stop}) /\ stack'[t] = <<stop>> \o <<>>
    BY <1>0, <1>1, <1>4, <1>8, <1>10, Continued
  <2>2. CallsOf(t)' = {stop} /\ Covered(stack'[t], ready', signaled'[t])
    <3>1. <<>> \in Seq(Calls) /\ Range(<<>>) = {} /\ Covered(<<>>, ready, signaled[t])
      BY DEF Range, Covered
    <3>2. Range(<<stop>> \o <<>>) = {stop}
      BY <1>4, <3>1, RangePush
    <3>3. Covered(<<stop>> \o <<>>, ready, signaled[t])
      BY <1>4, <1>6, <1>8, <3>1, CoveredPush DEF Owed
    <3>. QED
      BY <1>1, <2>1, <3>2, <3>3 DEF CallsOf
  <2>3. PostsWake'
    <3>1. msgq'[t] = <<>> /\ (dmsgq'[t] # <<>> => stop.timed)
      BY <1>1, <1>3, <1>6, <1>7, <1>10
    <3>. QED
      BY <1>0, <1>1, <1>6, <1>7, <2>1, <2>2, <3>1, PostsKeepBut
  <2>4. AnswersWake'
    BY <1>0, <1>6, <1>9, <2>1, <2>2, AnswersKeep DEF TypeOK, FlagsOK
  <2>. QED
    BY <1>6, <1>9, <2>1, <2>3, <2>4 DEF Safe
<1>11. CASE q # <<>>
  <2>1. /\ Nested' /\ NewCalls(t, {receive, handler})
        /\ stack'[t] = <<handler>> \o (<<receive>> \o <<>>)
    <3>1. Above(handler, receive)
      BY <1>6 DEF Above
    <3>. QED
      BY <1>0, <1>1, <1>4, <1>5, <1>8, <1>11, <3>1, Called
  <2>2. /\ CallsOf(t)' = {receive, handler}
        /\ Covered(stack'[t], ready', signaled'[t])
    <3>1. <<>> \in Seq(Calls) /\ Range(<<>>) = {} /\ Covered(<<>>, ready, signaled[t])
      BY DEF Range, Covered
    <3>2. /\ Range(<<receive>> \o <<>>) = {receive}
          /\ <<receive>> \o <<>> \in Seq(Calls)
      BY <1>4, <3>1, RangePush, PushProperties
    <3>3. Covered(<<receive>> \o <<>>, ready, signaled[t])
      BY <1>4, <1>6, <1>8, <3>1, CoveredPush DEF Owed
    <3>4. Range(stack'[t]) = {receive, handler}
      <4> DEFINE s == <<receive>> \o <<>>
      <4>1. s \in Seq(Calls) /\ Range(s) = {receive}
        BY <3>2
      <4> HIDE DEF s
      <4>2. Range(<<handler>> \o s) = {receive, handler}
        BY <1>5, <1>11, <4>1, RangePush
      <4>. QED
        BY <2>1, <4>2 DEF s
    <3>5. Covered(stack'[t], ready, signaled[t])
      BY <1>5, <1>6, <1>8, <1>11, <2>1, <3>2, <3>3, CoveredPush DEF Owed
    <3>. QED
      BY <1>1, <3>4, <3>5 DEF CallsOf
  <2>3. PostsWake'
    BY <1>0, <1>1, <1>6, <1>7, <2>1, <2>2, PostsKeepBut DEF Idles
  <2>4. AnswersWake'
    BY <1>0, <1>6, <1>9, <2>1, <2>2, AnswersKeep DEF TypeOK, FlagsOK
  <2>. QED
    BY <1>6, <1>9, <2>1, <2>3, <2>4 DEF Safe
<1>. QED
  BY <1>10, <1>11

\* It leaves, or goes to sleep with empty queues.
LEMMA GetStopKeeps ==
  ASSUME TypeOK, TypeOK', Safe, NEW t \in Threads, GetStop(t)
  PROVE  Safe'
<1>0. /\ StopsQuit /\ Nested /\ SendsFlagged /\ SendsWake /\ OneSender
      /\ AnswersWake /\ PostsWake
  BY DEF Safe
<1> DEFINE f == [Top(t) EXCEPT !.pc = "select"]
<1>1. /\ stack[t] # <<>> /\ Top(t).fn = "Get" /\ Top(t).pc = "stop"
      /\ UNCHANGED <<msgq, dmsgq, sendlist, hasSends, signaled, fStop, ready,
                     used>>
      /\ \/ Pop(t) /\ fWait' = fWait
         \/ /\ ~fStop[t] /\ Continue(t, f)
            /\ fWait' = [fWait EXCEPT ![t] = TRUE]
  BY DEF GetStop, At, In
<1>2. /\ Tail(stack[t]) = <<>> /\ CallsOf(t) = {Top(t)} /\ Top(t) \in Calls
      /\ \A g : ~Above(Top(t), g)
      /\ used \in Nat /\ signaled[t] \in BOOLEAN
      /\ ~At(t, "Send", "wake") /\ Dozing(t)
  BY <1>0, <1>1, GetAlone DEF TypeOK, FlagsOK, At, In, Dozing
<1>3. f = GetCall("select", Top(t).timed)
  BY <1>1, <1>2, CallUpdates
<1>4. Top(t).timed \in BOOLEAN
  BY <1>1, <1>2, CallFields
<1>5. f \in Calls /\ f.fn = "Get" /\ f.pc = "select" /\ f.timed = Top(t).timed
  BY <1>3, <1>4, CallTypes DEF GetCall
<1> HIDE DEF f
<1>6. ASSUME NEW N, NewCalls(t, N), \A c \in N : c.fn = "Get"
      PROVE  /\ StopsQuit' /\ SendsFlagged' /\ SendsWake' /\ OneSender'
             /\ \A u \in Threads : Steady(u)
  <2>1. StopsQuit' /\ OneSender'
    BY <1>0, <1>1, <1>2, <1>6, StopsKeep, SendersKeep
  <2>2. SendsFlagged'
    BY <1>0, <1>1 DEF SendsFlagged
  <2>3. \A u \in Threads \ {t} : Dozing(u)' => Dozing(u)
    BY <1>6, DozingTop DEF NewCalls
  <2>4. \A u \in Threads \ {t} : fWait'[u] = fWait[u]
    BY <1>1 DEF TypeOK, FlagsOK
  <2>5. SendsWake'
    BY <1>0, <1>1, <1>2, <1>6, <2>3, <2>4, SendsKeep
  <2>. QED
    BY <1>1, <2>1, <2>2, <2>5, UnchangedSteady
<1>7. <<>> \in Seq(Calls) /\ Range(<<>>) = {} /\ Covered(<<>>, ready, signaled[t])
  BY DEF Range, Covered
<1>8. CASE Pop(t) /\ fWait' = fWait
  <2>1. Nested' /\ NewCalls(t, {}) /\ stack'[t] = <<>>
    BY <1>0, <1>1, <1>2, <1>8, Popped
  <2>2. CallsOf(t)' = {} /\ Covered(stack'[t], ready', signaled'[t])
    BY <1>1, <1>7, <2>1 DEF CallsOf
  <2>3. PostsWake'
    BY <1>0, <1>1, <1>8, <2>1, <2>2, PostsKeepBut
  <2>4. AnswersWake'
    BY <1>0, <1>6, <2>1, <2>2, AnswersKeep DEF TypeOK, FlagsOK
  <2>. QED
    BY <1>6, <2>1, <2>3, <2>4 DEF Safe
<1>9. CASE ~fStop[t] /\ Continue(t, f) /\ fWait' = [fWait EXCEPT ![t] = TRUE]
  <2>1. Nested' /\ NewCalls(t, {f}) /\ stack'[t] = <<f>> \o <<>>
    BY <1>0, <1>1, <1>2, <1>5, <1>9, Continued
  <2>2. CallsOf(t)' = {f} /\ Covered(stack'[t], ready', signaled'[t])
    <3>1. Range(<<f>> \o <<>>) = {f}
      BY <1>5, <1>7, RangePush
    <3>2. Covered(<<f>> \o <<>>, ready, signaled[t])
      BY <1>2, <1>5, <1>7, CoveredPush DEF Owed
    <3>. QED
      BY <1>1, <2>1, <3>1, <3>2 DEF CallsOf
  <2>3. PostsWake'
    <3>1. ~signaled[t] => /\ msgq[t] = <<>>
                          /\ dmsgq[t] # <<>> => f.timed
      BY <1>0, <1>1, <1>2, <1>5 DEF PostsWake, Idles
    <3>2. \A u \in Threads \ {t} : fWait'[u] = fWait[u]
      BY <1>9 DEF TypeOK, FlagsOK
    <3>3. \A c \in CallsOf(t)' :
            Idles(c, fWait'[t]) /\ ~signaled'[t] =>
              /\ msgq'[t] = <<>>
              /\ dmsgq'[t] # <<>> => c.timed
              /\ c.pc = "select" => ~fStop'[t]
      BY <1>1, <1>9, <2>2, <3>1
    <3>. QED
      BY <1>0, <1>1, <2>1, <3>2, <3>3, PostsKeepBut
  <2>4. AnswersWake'
    BY <1>0, <1>5, <1>6, <2>1, <2>2, AnswersKeep DEF TypeOK, FlagsOK
  <2>. QED
    BY <1>5, <1>6, <2>1, <2>3, <2>4 DEF Safe
<1>. QED
  BY <1>1, <1>8, <1>9

\* It wakes up and starts another round, which looks at everything again.
LEMMA GetWaitKeeps ==
  ASSUME TypeOK, TypeOK', Safe, NEW t \in Threads, GetWait(t)
  PROVE  Safe'
<1>0. /\ StopsQuit /\ Nested /\ SendsFlagged /\ SendsWake /\ OneSender
      /\ AnswersWake /\ PostsWake
  BY DEF Safe
<1> DEFINE f == GetCall("receive", FALSE)
<1>1. /\ stack[t] # <<>> /\ Top(t).fn = "Get" /\ Continue(t, f)
      /\ UNCHANGED <<msgq, dmsgq, sendlist, hasSends, fStop, ready, used>>
      /\ \/ /\ signaled' = [signaled EXCEPT ![t] = FALSE]
            /\ fWait' = [fWait EXCEPT ![t] = FALSE]
         \/ UNCHANGED <<signaled, fWait>>
  BY DEF GetWait, At, In
<1>2. /\ Tail(stack[t]) = <<>> /\ \A g : ~Above(Top(t), g)
      /\ used \in Nat /\ signaled[t] \in BOOLEAN /\ signaled'[t] \in BOOLEAN
      /\ ~At(t, "Send", "wake")
  BY <1>0, <1>1, GetAlone DEF TypeOK, FlagsOK, At, In
<1>3. f \in Calls /\ f.fn = "Get" /\ f.pc = "receive"
  BY CallTypes DEF GetCall
<1> HIDE DEF f
<1>4. /\ \A u \in Threads \ {t} : fWait'[u] = fWait[u] /\ signaled'[u] = signaled[u]
      /\ fWait'[t] => fWait[t] /\ signaled'[t] = signaled[t]
  <2>1. CASE /\ signaled' = [signaled EXCEPT ![t] = FALSE]
             /\ fWait' = [fWait EXCEPT ![t] = FALSE]
    BY <2>1 DEF TypeOK, FlagsOK
  <2>2. CASE UNCHANGED <<signaled, fWait>>
    BY <2>2
  <2>. QED
    BY <1>1, <2>1, <2>2
<1>5. Nested' /\ NewCalls(t, {f}) /\ stack'[t] = <<f>> \o <<>>
  BY <1>0, <1>1, <1>2, <1>3, Continued
<1>6. /\ CallsOf(t)' = {f} /\ Covered(stack'[t], ready', signaled'[t])
      /\ ~Dozing(t)'
  <2>1. <<>> \in Seq(Calls) /\ Range(<<>>) = {} /\ Covered(<<>>, ready, signaled'[t])
    BY DEF Range, Covered
  <2>2. Range(<<f>> \o <<>>) = {f} /\ Head(<<f>> \o <<>>) = f
    <3>1. Range(<<f>> \o <<>>) = {f}
      BY <1>3, <2>1, RangePush
    <3>2. Head(<<f>> \o <<>>) = f
      BY <1>3, <2>1, PushProperties
    <3>. QED
      BY <3>1, <3>2
  <2>3. Covered(<<f>> \o <<>>, ready, signaled'[t])
    BY <1>2, <1>3, <2>1, CoveredPush DEF Owed
  <2>4. ~Dozing(t)'
    BY <1>3, <1>5, <2>2, DozingTop
  <2>. QED
    BY <1>1, <1>5, <2>2, <2>3, <2>4 DEF CallsOf
<1>7. StopsQuit' /\ OneSender'
  BY <1>0, <1>1, <1>2, <1>3, <1>5, StopsKeep, SendersKeep
<1>8. SendsFlagged'
  BY <1>0, <1>1 DEF SendsFlagged
<1>9. SendsWake'
  <2>1. \A u \in Threads \ {t} : Dozing(u)' => Dozing(u)
    BY <1>5, DozingTop DEF NewCalls
  <2>. QED
    BY <1>0, <1>1, <1>2, <1>4, <1>5, <1>6, <2>1, SendsKeep
<1>10. PostsWake'
  <2>1. \A c \in CallsOf(t)' : ~Idles(c, fWait'[t])
    BY <1>3, <1>6 DEF Idles
  <2>. QED
    BY <1>0, <1>1, <1>4, <1>5, <2>1, PostsKeepBut
<1>11. AnswersWake'
  <2>1. \A u \in Threads \ {t} : Steady(u)
    BY <1>1, <1>4 DEF Steady
  <2>. QED
    BY <1>0, <1>5, <1>6, <2>1, AnswersKeep DEF TypeOK, FlagsOK
<1>. QED
  BY <1>5, <1>7, <1>8, <1>9, <1>10, <1>11 DEF Safe

\* A socket event takes the signal along; fWait_ remembers it.
LEMMA SocketEventKeeps ==
  ASSUME TypeOK, TypeOK', Safe, NEW t \in Threads, NEW m \in Messages,
         SocketEvent(t, m)
  PROVE  Safe'
<1>0. /\ StopsQuit /\ Nested /\ SendsFlagged /\ SendsWake /\ OneSender
      /\ AnswersWake /\ PostsWake
  BY DEF Safe
<1> DEFINE f == HandlerCall(m)
<1>1. /\ stack[t] # <<>> /\ Top(t).fn = "Get" /\ Top(t).pc = "select"
      /\ fWait[t] /\ Push(t, f) /\ used' = used + 1
      /\ signaled' = [signaled EXCEPT ![t] = FALSE]
      /\ fWait' = [fWait EXCEPT ![t] = ~signaled[t]]
      /\ UNCHANGED <<msgq, dmsgq, sendlist, hasSends, fStop, ready>>
  BY DEF SocketEvent, At, In, Use
<1>2. /\ CallsOf(t) = {Top(t)} /\ Covered(stack[t], ready, signaled'[t])
      /\ used \in Nat /\ signaled[t] \in BOOLEAN /\ signaled'[t] \in BOOLEAN
      /\ ~At(t, "Send", "wake") /\ stack[t] \in Seq(Calls)
  <2>1. signaled[t] \in BOOLEAN /\ signaled'[t] \in BOOLEAN /\ used \in Nat
    BY DEF TypeOK, FlagsOK
  <2>2. /\ CallsOf(t) = {Top(t)} /\ Covered(stack[t], ready, signaled'[t])
        /\ stack[t] \in Seq(Calls)
    BY <1>0, <1>1, <2>1, GetAlone
  <2>. QED
    BY <1>1, <2>1, <2>2 DEF At, In
<1>3. f \in Calls /\ f.fn = "OnMessage" /\ Above(f, Top(t)) /\ ~Owed(f, ready)
  BY <1>1, CallTypes DEF HandlerCall, Above, Owed
<1> HIDE DEF f
<1>4. /\ \A u \in Threads \ {t} : fWait'[u] = fWait[u] /\ signaled'[u] = signaled[u]
      /\ fWait'[t] => ~signaled[t]
  BY <1>1 DEF TypeOK, FlagsOK
<1>5. Nested' /\ NewCalls(t, {f}) /\ stack'[t] = <<f>> \o stack[t]
  BY <1>0, <1>1, <1>3, Pushed
<1>6. Covered(stack'[t], ready', signaled'[t]) /\ ~Dozing(t)'
  <2>1. Head(<<f>> \o stack[t]) = f
    BY <1>2, <1>3, PushProperties
  <2>2. Covered(<<f>> \o stack[t], ready, signaled'[t])
    BY <1>2, <1>3, CoveredPush
  <2>3. ~Dozing(t)'
    BY <1>3, <1>5, <2>1, DozingTop
  <2>. QED
    BY <1>1, <1>5, <2>2, <2>3
<1>7. StopsQuit' /\ OneSender'
  BY <1>0, <1>1, <1>2, <1>3, <1>5, StopsKeep, SendersKeep
<1>8. SendsFlagged'
  BY <1>0, <1>1 DEF SendsFlagged
<1>9. SendsWake'
  <2>1. \A u \in Threads \ {t} : Dozing(u)' => Dozing(u)
    BY <1>5, DozingTop DEF NewCalls
  <2>. QED
    BY <1>0, <1>1, <1>2, <1>4, <1>5, <1>6, <2>1, SendsKeep
<1>10. PostsWake'
  <2>1. CallsOf(t)' \subseteq {Top(t), f}
    BY <1>2, <1>5 DEF NewCalls
  <2>2. \A c \in CallsOf(t)' :
          Idles(c, fWait'[t]) /\ ~signaled'[t] =>
            c = Top(t) /\ ~signaled[t] /\ Idles(c, fWait[t])
    BY <1>1, <1>3, <1>4, <2>1 DEF Idles
  <2>3. \A c \in CallsOf(t)' :
          Idles(c, fWait'[t]) /\ ~signaled'[t] =>
            /\ msgq'[t] = <<>>
            /\ dmsgq'[t] # <<>> => c.timed
            /\ c.pc = "select" => ~fStop'[t]
    BY <1>0, <1>1, <1>2, <2>2 DEF PostsWake
  <2>. QED
    BY <1>0, <1>1, <1>4, <1>5, <2>3, PostsKeepBut
<1>11. AnswersWake'
  <2>1. \A u \in Threads \ {t} : Steady(u)
    BY <1>1, <1>4 DEF Steady
  <2>. QED
    BY <1>0, <1>5, <1>6, <2>1, AnswersKeep DEF TypeOK, FlagsOK
<1>. QED
  BY <1>5, <1>7, <1>8, <1>9, <1>10, <1>11 DEF Safe

\* The steps that consume no signal and send nothing.
LEMMA PlainKeeps ==
  ASSUME TypeOK, TypeOK', Safe, NEW t \in Threads, NEW N, NewCalls(t, N), Nested',
         \A c \in N : c.fn \in {"OnMessage", "Send", "ReceiveSends"},
         \A c \in N : c.fn = "Send" =>
            \E d \in CallsOf(t) : d.fn = "Send" /\ d.msg = c.msg,
         \A c \in N : c.fn = "ReceiveSends" =>
            \A e \in Range(c.handling) : Listed(e) \/ Handling(e),
         \A u \in Threads : Steady(u) /\ (signaled[u] => signaled'[u]),
         \A u \in Threads : Range(sendlist'[u]) \subseteq Range(sendlist[u]),
         SendsFlagged', fStop' = fStop, fWait' = fWait, used <= used',
         \A u \in Threads :
            \/ signaled'[u]
            \/ /\ msgq[u] = <<>> => msgq'[u] = <<>>
               /\ dmsgq[u] = <<>> => dmsgq'[u] = <<>>,
         Covered(stack'[t], ready', signaled'[t]),
         ~At(t, "Send", "wake"), Dozing(t)' => Dozing(t) \/ sendlist'[t] = <<>>
  PROVE  Safe'
<1>0. /\ StopsQuit /\ Nested /\ SendsFlagged /\ SendsWake /\ OneSender
      /\ AnswersWake /\ PostsWake
  BY DEF Safe
<1>1. used \in Nat /\ used' \in Nat /\ signaled' \in [Threads -> BOOLEAN]
  BY DEF TypeOK, FlagsOK
<1>2. StopsQuit'
  BY <1>0, StopsKeep
<1>3. OneSender'
  BY <1>0, <1>1, SendersKeep
<1>4. AnswersWake'
  BY <1>0, <1>1, AnswersKeep
<1>5. PostsWake'
  BY <1>0, PostsKeep DEF Steady
<1>6. SendsWake'
  <2>1. \A u \in Threads \ {t} : Dozing(u)' => Dozing(u)
    BY DozingTop DEF NewCalls
  <2>2. \A u \in Threads : sendlist'[u] # <<>> => sendlist[u] # <<>>
    <3> SUFFICES ASSUME NEW u \in Threads, sendlist'[u] # <<>>, sendlist[u] = <<>>
                 PROVE  FALSE
      OBVIOUS
    <3>1. sendlist'[u] \in Seq(Entries)
      BY DEF TypeOK, QueuesOK, Entries
    <3>2. 1 \in DOMAIN sendlist'[u]
      BY <3>1
    <3>3. sendlist'[u][1] \in Range(sendlist'[u])
      BY <3>2 DEF Range
    <3>4. Range(<<>>) = {}
      BY DEF Range
    <3>. QED
      BY <3>3, <3>4
  <2>. QED
    BY <1>0, <2>1, <2>2, SendsKeep
<1>. QED
  BY <1>2, <1>3, <1>4, <1>5, <1>6 DEF Safe

\* A handler returns to a call that looks again, or whose signal is still there.
LEMMA ReturnKeeps ==
  ASSUME TypeOK, TypeOK', Safe, NEW t \in Threads, Return(t)
  PROVE  Safe'
<1>1. /\ stack[t] # <<>> /\ Top(t).fn = "OnMessage" /\ Pop(t)
      /\ UNCHANGED <<msgq, dmsgq, sendlist, hasSends, signaled, fWait, fStop,
                     ready, used>>
  BY DEF Return, In
<1>2. /\ stack[t] \in Seq(Calls) /\ Top(t) = Head(stack[t]) /\ Stacked(stack[t])
      /\ Covered(stack[t], ready, signaled[t]) /\ signaled[t] \in BOOLEAN
      /\ used \in Nat /\ ~At(t, "Send", "wake") /\ SendsFlagged
  BY <1>1 DEF TypeOK, StacksOK, FlagsOK, Safe, Nested, AnswersWake, Top, At, In
<1>3. Nested' /\ NewCalls(t, {}) /\ stack'[t] = Tail(stack[t])
  BY <1>1, Popped DEF Safe
<1>4. Covered(stack'[t], ready', signaled'[t])
  BY <1>1, <1>2, <1>3, CoveredTail DEF HasWaited
<1>5. ~Dozing(t)'
  BY <1>1, <1>2, <1>3, DozingTop, StackedTail DEF Above
<1>6. SendsFlagged'
  BY <1>1, <1>2 DEF SendsFlagged
<1>. QED
  BY <1>1, <1>2, <1>3, <1>4, <1>5, <1>6, PlainKeeps, UnchangedSteady

\* An answer signals its sender; has_sends_ is unset only under the lock, with
\* nothing left.
LEMMA ReceiveNextKeeps ==
  ASSUME TypeOK, TypeOK', Safe, NEW t \in Threads, ReceiveNext(t)
  PROVE  Safe'
<1> DEFINE q == sendlist[t]
           e == Head(q)
           f == ReceiveCall(<<e>>)
           g == HandlerCall(e.msg)
<1>1. /\ stack[t] # <<>> /\ Top(t).fn = "ReceiveSends" /\ Release(Answered(t))
      /\ UNCHANGED <<msgq, dmsgq, fWait, fStop, used>>
      /\ \/ /\ q = <<>> /\ Pop(t) /\ sendlist' = sendlist
            /\ hasSends' = [hasSends EXCEPT ![t] = FALSE]
         \/ /\ q # <<>> /\ Call(t, f, g) /\ hasSends' = hasSends
            /\ sendlist' = [sendlist EXCEPT ![t] = Tail(q)]
  BY DEF ReceiveNext, In
<1>2. /\ stack[t] \in Seq(Calls) /\ Top(t) = Head(stack[t]) /\ Stacked(stack[t])
      /\ Covered(stack[t], ready, signaled[t]) /\ signaled[t] \in BOOLEAN
      /\ signaled'[t] \in BOOLEAN
      /\ used \in Nat /\ ~At(t, "Send", "wake") /\ SendsFlagged /\ OneSender
      /\ Nested
  BY <1>1 DEF TypeOK, StacksOK, FlagsOK, Safe, Nested, AnswersWake, Top, At, In
<1>3. \A u \in Threads : Steady(u) /\ (signaled[u] => signaled'[u])
  <2>1. Top(t) \in CallsOf(t)
    BY <1>1, TopFacts DEF TypeOK, CallsOf, Range
  <2>2. Answered(t) \subseteq Entries /\ \A a \in Answered(t) : Handling(a)
    BY <1>1, <2>1, EntryTypes DEF Answered, Handling
  <2>. QED
    BY <1>1, <1>2, <2>2, ReleaseSteady
<1>4. Covered(stack[t], ready', signaled'[t])
  <2>1. \/ signaled'[t]
        \/ ~signaled[t] /\ \A c \in Range(stack[t]) :
                             Owed(c, ready') => Owed(c, ready)
    BY <1>3 DEF Steady, CallsOf
  <2>. QED
    BY <1>2, <2>1, CoveredMore
<1>5. q \in Seq(Entries)
  BY DEF TypeOK, QueuesOK, Entries
<1>6. CASE q = <<>> /\ Pop(t) /\ sendlist' = sendlist
             /\ hasSends' = [hasSends EXCEPT ![t] = FALSE]
  <2>1. Nested' /\ NewCalls(t, {}) /\ stack'[t] = Tail(stack[t])
    BY <1>1, <1>2, <1>6, Popped
  <2>2. Covered(stack'[t], ready', signaled'[t])
    BY <1>1, <1>2, <1>4, <2>1, CoveredTail DEF HasWaited
  <2>3. SendsFlagged'
    BY <1>2, <1>6 DEF SendsFlagged, TypeOK, FlagsOK
  <2>. QED
    BY <1>1, <1>2, <1>3, <1>6, <2>1, <2>2, <2>3, PlainKeeps
<1>7. CASE q # <<>> /\ Call(t, f, g) /\ hasSends' = hasSends
             /\ sendlist' = [sendlist EXCEPT ![t] = Tail(q)]
  <2>1. /\ e \in Entries /\ e \in Range(q) /\ Tail(q) \in Seq(Entries)
        /\ Range(Tail(q)) \subseteq Range(q)
    <3>1. /\ e \in Entries /\ e = q[1] /\ 1 \in DOMAIN q
          /\ Tail(q) \in Seq(Entries)
      BY <1>5, <1>7
    <3>2. /\ DOMAIN Tail(q) = 1 .. Len(q) - 1 /\ DOMAIN q = 1 .. Len(q)
          /\ \A i \in 1 .. Len(q) - 1 : Tail(q)[i] = q[i + 1] /\ i + 1 \in 1 .. Len(q)
      BY <1>5, <1>7
    <3>. QED
      BY <3>1, <3>2 DEF Range
  <2>2. /\ f \in Calls /\ f.fn = "ReceiveSends" /\ Range(f.handling) = {e}
        /\ g \in Calls /\ g.fn = "OnMessage"
    <3>1. PICK m \in Messages, u \in Threads : e = [msg |-> m, from |-> u]
      BY <2>1 DEF Entries
    <3>2. f \in Calls /\ g \in Calls
      BY <3>1, CallTypes
    <3>3. f.fn = "ReceiveSends" /\ f.handling = <<e>> /\ g.fn = "OnMessage"
      BY DEF ReceiveCall, HandlerCall
    <3>4. Range(<<e>>) = {e}
      BY DEF Range
    <3>. QED
      BY <3>2, <3>3, <3>4
  <2>3. Listed(e)
    BY <2>1 DEF Listed
  <2>4. Range(sendlist'[t]) \subseteq Range(sendlist[t])
    BY <1>7, <2>1 DEF TypeOK, QueuesOK
  <2>5. \A u \in Threads \ {t} : sendlist'[u] = sendlist[u]
    BY <1>7 DEF TypeOK, QueuesOK
  <2>6. SendsFlagged'
    BY <1>2, <1>7, <2>5 DEF SendsFlagged
  <2> HIDE DEF q, e, f, g
  <2>7. /\ Nested' /\ NewCalls(t, {f, g})
        /\ stack'[t] = <<g>> \o (<<f>> \o Tail(stack[t]))
    <3>1. Above(g, f) /\ \A h \in Calls : Above(Top(t), h) => Above(f, h)
      BY <1>1, <2>2 DEF Above
    <3>. QED
      BY <1>1, <1>2, <1>7, <2>2, <3>1, Called
  <2>8. Covered(stack'[t], ready', signaled'[t]) /\ ~Dozing(t)'
    <3> DEFINE s == <<f>> \o Tail(stack[t])
    <3>1. s \in Seq(Calls)
      BY <1>1, <1>2, <2>2, ContinueProperties
    <3>2. Covered(s, ready', signaled'[t])
      BY <1>1, <1>2, <1>4, <2>2, CoveredContinue DEF Owed, HasWaited
    <3>3. stack'[t] = <<g>> \o s
      BY <2>7
    <3> HIDE DEF s
    <3>4. Covered(stack'[t], ready', signaled'[t])
      BY <1>2, <2>2, <3>1, <3>2, <3>3, CoveredPush DEF Owed
    <3>5. Head(stack'[t]) = g
      BY <2>2, <3>1, <3>3, PushProperties
    <3>. QED
      BY <2>2, <3>4, <3>5, DozingTop
  <2> DEFINE N == {f, g}
  <2>9. \A c \in N : c.fn \in {"OnMessage", "ReceiveSends"}
    BY <2>2
  <2>10. \A c \in N : c.fn = "ReceiveSends" =>
            \A a \in Range(c.handling) : Listed(a) \/ Handling(a)
    BY <2>2, <2>3
  <2>11. NewCalls(t, N)
    BY <2>7
  <2> HIDE DEF N
  <2>12. \A u \in Threads : Range(sendlist'[u]) \subseteq Range(sendlist[u])
    BY <2>4, <2>5
  <2>13. /\ fStop' = fStop /\ fWait' = fWait /\ used <= used'
         /\ msgq' = msgq /\ dmsgq' = dmsgq
    BY <1>1, <1>2
  <2>14. ~At(t, "Send", "wake") /\ Nested'
    BY <1>2, <2>7
  <2>. QED
    BY <1>3, <2>6, <2>8, <2>9, <2>10, <2>11, <2>12, <2>13, <2>14, PlainKeeps
<1>. QED
  BY <1>1, <1>6, <1>7

\* The Sends that waited for a thread that is gone are answered and signaled.
LEMMA DestroyKeeps ==
  ASSUME TypeOK, TypeOK', Safe, NEW t \in Threads, Destroy(t)
  PROVE  Safe'
<1> DEFINE u == Top(t).to
<1>1. /\ stack[t] # <<>> /\ Top(t).fn = "Stop" /\ Pop(t)
      /\ Release(Range(sendlist[u]))
      /\ sendlist' = [sendlist EXCEPT ![u] = <<>>]
      /\ msgq' = [msgq EXCEPT ![u] = <<>>]
      /\ dmsgq' = [dmsgq EXCEPT ![u] = <<>>]
      /\ UNCHANGED <<hasSends, fWait, fStop, used>>
  BY DEF Destroy, In
<1>2. u \in Threads
  BY <1>1, TopFacts, CallFields, ThreadAssumption DEF TypeOK
<1> HIDE DEF u
<1>3. /\ stack[t] \in Seq(Calls) /\ Top(t) = Head(stack[t]) /\ Stacked(stack[t])
      /\ Covered(stack[t], ready, signaled[t]) /\ signaled[t] \in BOOLEAN
      /\ signaled'[t] \in BOOLEAN
      /\ used \in Nat /\ ~At(t, "Send", "wake") /\ SendsFlagged /\ OneSender
      /\ Nested
  BY <1>1 DEF TypeOK, StacksOK, FlagsOK, Safe, Nested, AnswersWake, Top, At, In
<1>4. \A v \in Threads : Steady(v) /\ (signaled[v] => signaled'[v])
  <2>1. /\ Range(sendlist[u]) \subseteq Entries
        /\ \A e \in Range(sendlist[u]) : Listed(e)
    BY <1>2, EntryTypes DEF Listed
  <2>. QED
    BY <1>1, <1>3, <2>1, ReleaseSteady
<1>5. Nested' /\ NewCalls(t, {}) /\ stack'[t] = Tail(stack[t])
  BY <1>1, <1>3, Popped
<1>6. Covered(stack'[t], ready', signaled'[t])
  <2>1. Covered(stack[t], ready', signaled'[t])
    <3>1. \/ signaled'[t]
          \/ ~signaled[t] /\ \A c \in Range(stack[t]) :
                               Owed(c, ready') => Owed(c, ready)
      BY <1>4 DEF Steady, CallsOf
    <3>. QED
      BY <1>3, <3>1, CoveredMore
  <2>. QED
    BY <1>1, <1>3, <1>5, <2>1, CoveredTail DEF HasWaited
<1>7. ~Dozing(t)'
  BY <1>1, <1>3, <1>5, DozingTop, StackedTail DEF Above
<1>8. /\ sendlist'[u] = <<>> /\ msgq'[u] = <<>> /\ dmsgq'[u] = <<>>
      /\ \A v \in Threads \ {u} : /\ sendlist'[v] = sendlist[v]
                                  /\ msgq'[v] = msgq[v] /\ dmsgq'[v] = dmsgq[v]
  BY <1>1, <1>2 DEF TypeOK, QueuesOK
<1>9. SendsFlagged'
  BY <1>1, <1>3, <1>8 DEF SendsFlagged
<1>10. \A v \in Threads : Range(sendlist'[v]) \subseteq Range(sendlist[v])
  BY <1>8 DEF Range
<1>11. fStop' = fStop /\ fWait' = fWait /\ used <= used'
  BY <1>1, <1>3
<1>12. \A v \in Threads : /\ msgq[v] = <<>> => msgq'[v] = <<>>
                          /\ dmsgq[v] = <<>> => dmsgq'[v] = <<>>
  BY <1>8
<1>13. Nested' /\ NewCalls(t, {}) /\ ~At(t, "Send", "wake")
  BY <1>3, <1>5
<1>. QED
  BY <1>4, <1>6, <1>7, <1>9, <1>10, <1>11, <1>12, <1>13, PlainKeeps

\* A handler that makes no call on its own stack.
LEMMA StillKeeps ==
  ASSUME TypeOK, TypeOK', Safe, NEW t \in Threads, In(t, "OnMessage"),
         UNCHANGED <<stack, fStop, fWait, hasSends>>, used <= used',
         \A u \in Threads : Steady(u) /\ (signaled[u] => signaled'[u]),
         \A u \in Threads : Range(sendlist'[u]) \subseteq Range(sendlist[u]),
         \A u \in Threads : sendlist'[u] # <<>> => sendlist[u] # <<>>,
         \A u \in Threads :
            \/ signaled'[u]
            \/ /\ msgq[u] = <<>> => msgq'[u] = <<>>
               /\ dmsgq[u] = <<>> => dmsgq'[u] = <<>>
  PROVE  Safe'
<1>1. /\ NewCalls(t, {}) /\ ~At(t, "Send", "wake")
      /\ Dozing(t)' => Dozing(t)
  BY DozingTop DEF NewCalls, CallsOf, At, In
<1>2. Nested' /\ SendsFlagged'
  BY DEF Safe, Nested, SendsFlagged
<1>3. Covered(stack'[t], ready', signaled'[t])
  <2>1. /\ stack[t] \in Seq(Calls) /\ Covered(stack[t], ready, signaled[t])
        /\ signaled[t] \in BOOLEAN /\ signaled'[t] \in BOOLEAN
    BY DEF TypeOK, StacksOK, FlagsOK, Safe, AnswersWake
  <2>2. \/ signaled'[t]
        \/ ~signaled[t] /\ \A c \in Range(stack[t]) :
                             Owed(c, ready') => Owed(c, ready)
    BY DEF Steady, CallsOf
  <2>. QED
    BY <2>1, <2>2, CoveredMore
<1>. QED
  BY <1>1, <1>2, <1>3, PlainKeeps

\* A thread that gets a message is signaled.
LEMMA PostKeeps ==
  ASSUME TypeOK, TypeOK', Safe, NEW t \in Threads, NEW u \in Threads,
         NEW m \in Messages,
         Post(t, u, m) \/ \E i \in 0 .. Len(dmsgq[u]) : PostDelayed(t, u, m, i)
  PROVE  Safe'
<1>1. /\ In(t, "OnMessage") /\ used' = used + 1
      /\ UNCHANGED <<stack, sendlist, hasSends, fWait, fStop, ready>>
      /\ \/ UNCHANGED <<msgq, dmsgq, signaled>>
         \/ /\ WakeUp({u}) /\ dmsgq' = dmsgq
            /\ msgq' = [msgq EXCEPT ![u] = Append(msgq[u], m)]
         \/ /\ WakeUp({u}) /\ msgq' = msgq
            /\ \E q : dmsgq' = [dmsgq EXCEPT ![u] = q]
  BY DEF Post, PostDelayed, Use
<1>2. used <= used'
  BY <1>1 DEF TypeOK, FlagsOK
<1>3. \A v \in Threads : Steady(v) /\ (signaled[v] => signaled'[v])
  BY <1>1, UnchangedSteady, WakeUpSteady
<1>4. \A v \in Threads :
        \/ signaled'[v]
        \/ /\ msgq[v] = <<>> => msgq'[v] = <<>>
           /\ dmsgq[v] = <<>> => dmsgq'[v] = <<>>
  <2>1. CASE UNCHANGED <<msgq, dmsgq, signaled>>
    BY <2>1
  <2>2. CASE WakeUp({u}) /\ \A v \in Threads \ {u} :
                              msgq'[v] = msgq[v] /\ dmsgq'[v] = dmsgq[v]
    <3>1. signaled'[u]
      BY <2>2, WakeUpSignals DEF TypeOK, FlagsOK
    <3>. QED
      BY <2>2, <3>1
  <2>3. UNCHANGED <<msgq, dmsgq, signaled>>
          \/ (WakeUp({u}) /\ \A v \in Threads \ {u} :
                               msgq'[v] = msgq[v] /\ dmsgq'[v] = dmsgq[v])
    BY <1>1 DEF TypeOK, QueuesOK
  <2>. QED
    BY <2>1, <2>2, <2>3
<1>. QED
  BY <1>1, <1>2, <1>3, <1>4, StillKeeps

\* What Clear leaves in a list was in it.
LEMMA RemoveAtShrinks ==
  ASSUME NEW S, NEW s \in Seq(S), NEW i \in DOMAIN s
  PROVE  /\ Range(RemoveAt(s, i)) \subseteq Range(s)
         /\ s # <<>>
<1>1. i \in 1 .. Len(s) /\ DOMAIN s = 1 .. Len(s) /\ Len(s) \in Nat
  OBVIOUS
<1> DEFINE q == RemoveAt(s, i)
<1>2. /\ q \in Seq(S) /\ Len(q) = Len(s) - 1
      /\ \A j \in 1 .. Len(s) - 1 : q[j] = IF j < i THEN s[j] ELSE s[j + 1]
  BY <1>1, RemoveAtProperties
<1> HIDE DEF q
<1>3. ASSUME NEW x \in Range(q) PROVE x \in Range(s)
  <2>1. PICK j \in DOMAIN q : x = q[j]
    BY <1>3 DEF Range
  <2>2. j \in 1 .. Len(s) - 1
    BY <1>2
  <2>3. x = s[j] \/ x = s[j + 1]
    BY <1>2, <2>1, <2>2
  <2>4. j \in DOMAIN s /\ j + 1 \in DOMAIN s
    BY <1>1, <2>2
  <2>. QED
    BY <2>3, <2>4 DEF Range
<1>. QED
  BY <1>1, <1>3 DEF q

\* A sent message that is cleared is answered; the other lists only shrink.
LEMMA ClearKeeps ==
  ASSUME TypeOK, TypeOK', Safe, NEW t \in Threads, NEW u \in Threads,
         NEW m \in Messages, Clear(t, u, m)
  PROVE  Safe'
<1>1. /\ In(t, "OnMessage")
      /\ UNCHANGED <<stack, hasSends, fWait, fStop, used>>
  BY DEF Clear
<1>2. used <= used' /\ OneSender
  BY <1>1 DEF TypeOK, FlagsOK, Safe
<1>3. CASE \E i \in DOMAIN sendlist[u] :
             /\ Release({sendlist[u][i]})
             /\ sendlist' = [sendlist EXCEPT ![u] = RemoveAt(@, i)]
             /\ UNCHANGED <<msgq, dmsgq, due>>
  <2>1. PICK i \in DOMAIN sendlist[u] :
             /\ Release({sendlist[u][i]})
             /\ sendlist' = [sendlist EXCEPT ![u] = RemoveAt(@, i)]
             /\ UNCHANGED <<msgq, dmsgq, due>>
    BY <1>3
  <2>2. sendlist[u] \in Seq(Entries)
    BY DEF TypeOK, QueuesOK, Entries
  <2>3. {sendlist[u][i]} \subseteq Entries /\ \A e \in {sendlist[u][i]} : Listed(e)
    BY EntryTypes DEF Range, Listed
  <2>4. \A v \in Threads : Steady(v) /\ (signaled[v] => signaled'[v])
    BY <1>2, <2>1, <2>3, ReleaseSteady
  <2>5. /\ sendlist'[u] = RemoveAt(sendlist[u], i)
        /\ \A v \in Threads \ {u} : sendlist'[v] = sendlist[v]
    BY <2>1 DEF TypeOK, QueuesOK
  <2>6. /\ Range(sendlist'[u]) \subseteq Range(sendlist[u])
        /\ sendlist[u] # <<>>
    BY <2>2, <2>5, RemoveAtShrinks
  <2>7. /\ \A v \in Threads : Range(sendlist'[v]) \subseteq Range(sendlist[v])
        /\ \A v \in Threads : sendlist'[v] # <<>> => sendlist[v] # <<>>
    BY <2>5, <2>6
  <2>. QED
    BY <1>1, <1>2, <2>1, <2>4, <2>7, StillKeeps
<1>4. CASE \E i \in DOMAIN msgq[u] :
             /\ msgq' = [msgq EXCEPT ![u] = RemoveAt(@, i)]
             /\ UNCHANGED <<dmsgq, due, sendlist, ready, signaled>>
  <2>1. PICK i \in DOMAIN msgq[u] :
             /\ msgq' = [msgq EXCEPT ![u] = RemoveAt(@, i)]
             /\ UNCHANGED <<dmsgq, due, sendlist, ready, signaled>>
    BY <1>4
  <2>2. msgq[u] \in Seq(Messages)
    BY DEF TypeOK, QueuesOK
  <2>3. msgq[u] # <<>> /\ \A v \in Threads \ {u} : msgq'[v] = msgq[v]
    BY <2>1, <2>2, RemoveAtShrinks DEF TypeOK, QueuesOK
  <2>4. \A v \in Threads : msgq[v] = <<>> => msgq'[v] = <<>>
    BY <2>3
  <2>. QED
    BY <1>1, <1>2, <2>1, <2>4, StillKeeps, UnchangedSteady
<1>5. CASE \E i \in DOMAIN dmsgq[u] :
             /\ dmsgq' = [dmsgq EXCEPT ![u] = RemoveAt(@, i)]
             /\ UNCHANGED <<msgq, sendlist, ready, signaled>>
  <2>1. PICK i \in DOMAIN dmsgq[u] :
             /\ dmsgq' = [dmsgq EXCEPT ![u] = RemoveAt(@, i)]
             /\ UNCHANGED <<msgq, sendlist, ready, signaled>>
    BY <1>5
  <2>2. dmsgq[u] \in Seq(Messages)
    BY DEF TypeOK, QueuesOK
  <2>3. dmsgq[u] # <<>> /\ \A v \in Threads \ {u} : dmsgq'[v] = dmsgq[v]
    BY <2>1, <2>2, RemoveAtShrinks DEF TypeOK, QueuesOK
  <2>4. \A v \in Threads : dmsgq[v] = <<>> => dmsgq'[v] = <<>>
    BY <2>3
  <2>. QED
    BY <1>1, <1>2, <2>1, <2>4, StillKeeps, UnchangedSteady
<1>. QED
  BY <1>3, <1>4, <1>5 DEF Clear

\* A new Send is of a message that nobody has sent before.
LEMMA BeginSendKeeps ==
  ASSUME TypeOK, TypeOK', Safe, NEW t \in Threads, NEW u \in Threads,
         NEW m \in Messages, BeginSend(t, u, m)
  PROVE  Safe'
<1>0. /\ StopsQuit /\ Nested /\ SendsFlagged /\ SendsWake /\ OneSender
      /\ AnswersWake /\ PostsWake
  BY DEF Safe
<1> DEFINE h == HandlerCall(m)
           f == SendCall("push", m, u, FALSE)
<1>1. /\ stack[t] # <<>> /\ Top(t).fn = "OnMessage" /\ In(t, "OnMessage")
      /\ m = used + 1 /\ used' = m
      /\ UNCHANGED <<msgq, dmsgq, sendlist, hasSends, signaled, fWait, fStop,
                     ready>>
      /\ stack' = stack \/ Push(t, h) \/ Push(t, f)
  BY DEF BeginSend, In, Use
<1>2. /\ h \in Calls /\ h.fn = "OnMessage"
      /\ f \in Calls /\ f.fn = "Send" /\ f.msg = m /\ f.pc = "push"
  BY CallTypes DEF HandlerCall, SendCall
<1> HIDE DEF h, f
<1>3. used \in Nat /\ used <= used' /\ \A x \in Messages : x \in Nat
  BY <1>1, ThreadAssumption DEF TypeOK, FlagsOK, Messages
<1>4. \A v \in Threads : Steady(v) /\ (signaled[v] => signaled'[v])
  BY <1>1, UnchangedSteady
<1>5. CASE stack' = stack
  BY <1>1, <1>3, <1>4, <1>5, StillKeeps
<1>6. ASSUME NEW c \in {h, f}, Push(t, c)
      PROVE  /\ Nested' /\ NewCalls(t, {c})
             /\ Covered(stack'[t], ready', signaled'[t]) /\ ~Dozing(t)'
  <2>1. Above(c, Top(t)) /\ c \in Calls /\ ~Owed(c, ready)
    BY <1>1, <1>2 DEF Above, Owed
  <2>2. Nested' /\ NewCalls(t, {c}) /\ stack'[t] = <<c>> \o stack[t]
    BY <1>0, <1>1, <1>6, <2>1, Pushed
  <2>3. /\ stack[t] \in Seq(Calls) /\ signaled[t] \in BOOLEAN
        /\ Covered(stack[t], ready, signaled[t])
    BY <1>0 DEF TypeOK, StacksOK, FlagsOK, AnswersWake
  <2>4. Covered(<<c>> \o stack[t], ready, signaled[t])
    BY <2>1, <2>3, CoveredPush
  <2>5. Head(<<c>> \o stack[t]) = c
    BY <2>1, <2>3, PushProperties
  <2>6. ~Dozing(t)'
    BY <1>2, <2>2, <2>5, DozingTop
  <2>. QED
    BY <1>1, <2>2, <2>4, <2>6
<1>7. SendsFlagged' /\ ~At(t, "Send", "wake")
  BY <1>0, <1>1 DEF SendsFlagged, At, In
<1>8. CASE Push(t, h)
  <2>1. /\ Nested' /\ NewCalls(t, {h})
        /\ Covered(stack'[t], ready', signaled'[t]) /\ ~Dozing(t)'
    BY <1>6, <1>8
  <2>. QED
    BY <1>1, <1>2, <1>3, <1>4, <1>7, <2>1, PlainKeeps
<1>9. CASE Push(t, f)
  <2>1. /\ Nested' /\ NewCalls(t, {f})
        /\ Covered(stack'[t], ready', signaled'[t]) /\ ~Dozing(t)'
    BY <1>6, <1>9
  <2>2. StopsQuit' /\ PostsWake'
    BY <1>0, <1>1, <1>2, <2>1, StopsKeep, PostsKeep
  <2>3. AnswersWake'
    BY <1>0, <1>4, <2>1, AnswersKeep DEF TypeOK, FlagsOK
  <2>4. SendsWake'
    <3>1. \A v \in Threads : Dozing(v)' => Dozing(v)
      BY <2>1, DozingTop DEF NewCalls
    <3>. QED
      BY <1>0, <1>1, <1>7, <2>1, <3>1, SendsKeep
  <2>5. OneSender'
    <3>1. ASSUME NEW v \in Threads, NEW x \in Messages, Sender(v, x)'
          PROVE  Sender(v, x) \/ (v = t /\ x = m)
      <4>1. PICK c \in CallsOf(v)' : c.fn = "Send" /\ c.msg = x
        BY <3>1 DEF Sender, Sends
      <4>2. c \in CallsOf(v) \/ (v = t /\ c = f)
        BY <2>1, <4>1 DEF NewCalls, CallsOf
      <4>. QED
        BY <1>2, <4>1, <4>2 DEF Sender, Sends
    <3>2. ASSUME NEW e, (Listed(e) \/ Handling(e))' PROVE Listed(e) \/ Handling(e)
      <4>1. \A v \in Threads : \A c \in CallsOf(v)' :
              c.fn = "ReceiveSends" => c \in CallsOf(v)
        BY <1>2, <2>1 DEF NewCalls, CallsOf
      <4>2. Listed(e)' => Listed(e)
        BY <1>1 DEF Listed
      <4>3. Handling(e)' => Handling(e)
        BY <4>1 DEF Handling
      <4>. QED
        BY <3>2, <4>2, <4>3
    <3>3. ASSUME NEW e \in Entries, (Listed(e) \/ Handling(e))'
          PROVE  e.msg <= used' /\ \A v \in Threads : Sender(v, e.msg)' => e.from = v
      <4>1. /\ e.msg <= used /\ e.msg \in Messages
            /\ \A v \in Threads : Sender(v, e.msg) => e.from = v
        BY <1>0, <3>2, <3>3 DEF OneSender, Entries
      <4>2. e.msg # m /\ e.msg <= used'
        <5>1. e.msg \in Nat
          BY <1>3, <4>1
        <5>. QED
          BY <1>1, <1>3, <4>1, <5>1
      <4>. QED
        BY <3>1, <4>1, <4>2
    <3>4. ASSUME NEW v \in Threads, NEW x \in Messages, Sender(v, x)'
          PROVE  x <= used' /\ \A w \in Threads : Sender(w, x)' => v = w
      <4>1. \A w \in Threads : Sender(w, x) => x <= used
        BY <1>0 DEF OneSender
      <4>2. \A w \in Threads : Sender(v, x) /\ Sender(w, x) => v = w
        BY <1>0 DEF OneSender
      <4>3. CASE x = m
        <5>1. ~(x <= used) /\ x <= used'
          BY <1>1, <1>3, <4>3
        <5>. QED
          BY <3>1, <3>4, <4>1, <5>1
      <4>4. CASE x # m
        <5>1. Sender(v, x) /\ x <= used
          BY <3>1, <3>4, <4>1, <4>4
        <5>2. x <= used'
          BY <1>1, <1>3, <5>1
        <5>. QED
          BY <3>1, <4>2, <4>4, <5>1, <5>2
      <4>. QED
        BY <4>3, <4>4
    <3>. QED
      BY <3>3, <3>4 DEF OneSender, Entries, Messages
  <2>. QED
    BY <1>7, <2>1, <2>2, <2>3, <2>4, <2>5 DEF Safe
<1>. QED
  BY <1>1, <1>5, <1>8, <1>9

\* A Send goes on: what it is about stays the same.
LEMMA SendGoesOn ==
  ASSUME TypeOK, NEW t \in Threads, stack[t] # <<>>, Top(t).fn = "Send",
         NEW p \in {"push", "wake", "loop", "receive", "select"}, NEW f,
         f = SendCall(p, Top(t).msg, Top(t).to, Top(t).waited)
  PROVE  /\ f \in Calls /\ f.fn = "Send" /\ f.pc = p
         /\ f.msg = Top(t).msg /\ f.to = Top(t).to
         /\ HasWaited(Top(t)) => HasWaited(f)
         /\ \A g \in Calls : Above(Top(t), g) => Above(f, g)
<1>1. Top(t) \in Calls
  BY TopFacts DEF TypeOK
<1>2. /\ Top(t).msg \in Messages /\ Top(t).to \in Threads
      /\ Top(t).waited \in BOOLEAN
  BY <1>1, CallFields
<1>4. f \in Calls
  BY <1>2, CallTypes
<1>5. /\ f.fn = "Send" /\ f.pc = p /\ f.msg = Top(t).msg /\ f.to = Top(t).to
      /\ f.waited = Top(t).waited
  BY DEF SendCall
<1>6. HasWaited(Top(t)) => HasWaited(f)
  BY <1>5 DEF HasWaited
<1>7. \A g \in Calls : Above(Top(t), g) => Above(f, g)
  BY <1>5 DEF Above
<1>. QED
  BY <1>4, <1>5, <1>6, <1>7

\* A Send that returns after it waited signals its own thread again, for the
\* sake of the calls below it.
LEMMA SendLoopKeeps ==
  ASSUME TypeOK, TypeOK', Safe, NEW t \in Threads, SendLoop(t)
  PROVE  Safe'
<1> DEFINE m == Top(t).msg
           f == [Top(t) EXCEPT !.pc = "receive"]
<1>1. /\ stack[t] # <<>> /\ Top(t).fn = "Send" /\ Top(t).pc = "loop"
      /\ UNCHANGED <<msgq, dmsgq, sendlist, hasSends, fWait, fStop, used>>
      /\ \/ Pop(t) /\ WakeUp(SignalAgain(t)) /\ ready' = ready \ {m}
         \/ m \notin ready /\ Continue(t, f) /\ UNCHANGED <<signaled, ready>>
  BY DEF SendLoop, At, In
<1>2. /\ stack[t] \in Seq(Calls) /\ Top(t) = Head(stack[t]) /\ Stacked(stack[t])
      /\ Covered(stack[t], ready, signaled[t]) /\ signaled[t] \in BOOLEAN
      /\ signaled'[t] \in BOOLEAN /\ used \in Nat /\ Nested
      /\ ~At(t, "Send", "wake") /\ SendsFlagged
  BY <1>1 DEF TypeOK, StacksOK, FlagsOK, Safe, Nested, AnswersWake, Top, At, In
<1>3. SendsFlagged' /\ used <= used'
  BY <1>1, <1>2 DEF SendsFlagged
<1>4. Top(t) \in Calls /\ Top(t) \in CallsOf(t)
  BY <1>1, TopFacts DEF TypeOK, CallsOf, Range
<1>5. CASE Pop(t) /\ WakeUp(SignalAgain(t)) /\ ready' = ready \ {m}
  <2>1. Nested' /\ NewCalls(t, {}) /\ stack'[t] = Tail(stack[t])
    BY <1>1, <1>2, <1>5, Popped
  <2>2. \A v \in Threads : Steady(v) /\ (signaled[v] => signaled'[v])
    BY <1>5, WakeUpSteady
  <2>3. HasWaited(Head(stack[t])) => signaled'[t]
    <3>1. HasWaited(Head(stack[t])) => t \in SignalAgain(t)
      BY <1>2 DEF HasWaited, SignalAgain
    <3>. QED
      BY <1>5, <3>1, WakeUpSignals DEF TypeOK, FlagsOK
  <2>4. Covered(stack'[t], ready', signaled'[t])
    <3>1. Covered(Tail(stack[t]), ready, signaled'[t])
      BY <1>1, <1>2, <2>2, <2>3, CoveredTail
    <3>2. Tail(stack[t]) \in Seq(Calls)
      BY <1>1, <1>2
    <3>3. \A c : Owed(c, ready') => Owed(c, ready)
      BY <1>5 DEF Owed
    <3> DEFINE s == Tail(stack[t])
    <3>4. s \in Seq(Calls) /\ Covered(s, ready, signaled'[t])
      BY <3>1, <3>2
    <3> HIDE DEF s
    <3>5. Covered(s, ready', signaled'[t])
      BY <1>2, <3>3, <3>4, CoveredMore
    <3>. QED
      BY <2>1, <3>5 DEF s
  <2>5. ~Dozing(t)'
    BY <1>1, <1>2, <2>1, DozingTop, StackedTail DEF Above
  <2>. QED
    BY <1>1, <1>2, <1>3, <2>1, <2>2, <2>4, <2>5, PlainKeeps
<1>6. CASE m \notin ready /\ Continue(t, f) /\ UNCHANGED <<signaled, ready>>
  <2>2. /\ f \in Calls /\ f.fn = "Send" /\ f.msg = m /\ f.pc = "receive"
        /\ HasWaited(Top(t)) => HasWaited(f)
        /\ \A g \in Calls : Above(Top(t), g) => Above(f, g)
    <3>1. f = SendCall("receive", Top(t).msg, Top(t).to, Top(t).waited)
      BY <1>1, <1>4, CallUpdates
    <3>2. stack[t] # <<>> /\ Top(t).fn = "Send"
      BY <1>1
    <3> HIDE DEF f
    <3>. QED
      BY <3>1, <3>2, SendGoesOn
  <2>3. ~Owed(f, ready)
    BY <1>6, <2>2 DEF Owed
  <2> HIDE DEF f
  <2>4. Nested' /\ NewCalls(t, {f}) /\ stack'[t] = <<f>> \o Tail(stack[t])
    BY <1>1, <1>2, <1>6, <2>2, <2>3, Continued
  <2>5. Covered(stack'[t], ready', signaled'[t])
    <3>1. Covered(<<f>> \o Tail(stack[t]), ready, signaled[t])
      BY <1>1, <1>2, <2>2, <2>3, CoveredContinue
    <3>. QED
      BY <1>6, <2>4, <3>1
  <2>6. ~Dozing(t)'
    <3>1. Head(stack'[t]) = f
      BY <1>1, <1>2, <2>2, <2>4, ContinueProperties
    <3>. QED
      BY <2>2, <3>1, DozingTop
  <2>7. \A v \in Threads : Steady(v) /\ (signaled[v] => signaled'[v])
    BY <1>6, UnchangedSteady
  <2> DEFINE N == {f}
  <2>8. NewCalls(t, N) /\ \A c \in N : c.fn = "Send" /\ c.msg = Top(t).msg
    BY <2>2, <2>4
  <2> HIDE DEF N
  <2>. QED
    BY <1>1, <1>2, <1>3, <1>4, <2>4, <2>5, <2>6, <2>7, <2>8, PlainKeeps
<1>. QED
  BY <1>1, <1>5, <1>6

\* A Send looks for messages sent to its own thread before it sleeps.
LEMMA SendReceiveKeeps ==
  ASSUME TypeOK, TypeOK', Safe, NEW t \in Threads, SendReceive(t)
  PROVE  Safe'
<1> DEFINE f == [Top(t) EXCEPT !.pc = "select"]
<1>1. /\ stack[t] # <<>> /\ Top(t).fn = "Send" /\ Top(t).pc = "receive"
      /\ CheckSends(t, f)
  BY DEF SendReceive, At, In
<1>4. /\ f \in Calls /\ f.fn = "Send" /\ f.msg = Top(t).msg /\ f.pc = "select"
      /\ HasWaited(Top(t)) => HasWaited(f)
  <2>1. Top(t) \in Calls
    BY <1>1, TopFacts DEF TypeOK
  <2>2. f = SendCall("select", Top(t).msg, Top(t).to, Top(t).waited)
    BY <1>1, <2>1, CallUpdates
  <2> HIDE DEF f
  <2>. QED
    BY <1>1, <2>2, SendGoesOn
<1> HIDE DEF f
<1>5. /\ Owed(f, ready) => Owed(Top(t), ready)
      /\ \A g \in Calls : Above(Top(t), g) => Above(f, g)
      /\ Above(ReceiveCall(<<>>), f) /\ ~At(t, "Send", "wake")
  BY <1>1, <1>4 DEF Owed, Above, ReceiveCall, At, In
<1>. QED
  BY <1>1, <1>4, <1>5, CheckSendsKeeps

\* A Send that goes on remains the same Send, of the same message.
LEMMA SendContinues ==
  ASSUME TypeOK, Nested, NEW t \in Threads, stack[t] # <<>>, Top(t).fn = "Send",
         NEW f \in Calls, f.fn = "Send", f.msg = Top(t).msg,
         \A g \in Calls : Above(Top(t), g) => Above(f, g), Continue(t, f)
  PROVE  /\ Nested' /\ NewCalls(t, {f})
         /\ stack'[t] = <<f>> \o Tail(stack[t])
         /\ stack'[t] # <<>> /\ Top(t)' = f
         /\ \A u \in Threads, m \in Messages : Sender(u, m)' => Sender(u, m)
         /\ \A e : Handling(e)' => Handling(e)
         /\ Sender(t, f.msg) /\ Top(t).msg \in Messages /\ Top(t).to \in Threads
<1>1. Nested' /\ NewCalls(t, {f}) /\ stack'[t] = <<f>> \o Tail(stack[t])
  BY Continued
<1>2. Head(stack'[t]) = f /\ stack'[t] # <<>>
  <2>1. stack[t] \in Seq(Calls)
    BY DEF TypeOK, StacksOK
  <2>. QED
    BY <1>1, <2>1, ContinueProperties
<1>3. Top(t) \in CallsOf(t) /\ Top(t) \in Calls
  BY TopFacts DEF TypeOK, CallsOf, Range
<1>4. Sender(t, f.msg)
  BY <1>3 DEF Sender, Sends
<1>5. ASSUME NEW u \in Threads, NEW m \in Messages, Sender(u, m)'
      PROVE  Sender(u, m)
  <2>1. PICK c \in CallsOf(u)' : c.fn = "Send" /\ c.msg = m
    BY <1>5 DEF Sender, Sends
  <2>2. c \in CallsOf(u) \/ (u = t /\ c = f)
    BY <1>1, <2>1 DEF NewCalls, CallsOf
  <2>. QED
    BY <1>4, <2>1, <2>2 DEF Sender, Sends
<1>6. ASSUME NEW e, Handling(e)' PROVE Handling(e)
  <2>1. \A u \in Threads : \A c \in CallsOf(u)' :
          c.fn = "ReceiveSends" => c \in CallsOf(u)
    BY <1>1 DEF NewCalls, CallsOf
  <2>. QED
    BY <1>6, <2>1 DEF Handling
<1>7. Top(t).msg \in Messages /\ Top(t).to \in Threads
  BY <1>3, CallFields
<1>8. Top(t)' = f
  BY <1>2 DEF Top
<1>. QED
  BY <1>1, <1>2, <1>4, <1>5, <1>6, <1>7, <1>8

\* Appending adds one element.
LEMMA AppendRange ==
  ASSUME NEW S, NEW s \in Seq(S), NEW e \in S
  PROVE  Range(Append(s, e)) \subseteq Range(s) \cup {e}
<1>1. /\ DOMAIN Append(s, e) = 1 .. Len(s) + 1 /\ DOMAIN s = 1 .. Len(s)
      /\ Len(s) \in Nat
      /\ \A i \in 1 .. Len(s) : Append(s, e)[i] = s[i]
      /\ Append(s, e)[Len(s) + 1] = e
  OBVIOUS
<1>2. \A i \in 1 .. Len(s) + 1 : i \in 1 .. Len(s) \/ i = Len(s) + 1
  BY <1>1
<1>. QED
  BY <1>1, <1>2 DEF Range

\* A sent message is listed before its receiver is signaled: in between, its
\* sender is about to do so.
LEMMA SendPushKeeps ==
  ASSUME TypeOK, TypeOK', Safe, NEW t \in Threads, SendPush(t)
  PROVE  Safe'
<1>0. /\ StopsQuit /\ Nested /\ SendsFlagged /\ SendsWake /\ OneSender
      /\ AnswersWake /\ PostsWake
  BY DEF Safe
<1> DEFINE f == [Top(t) EXCEPT !.pc = "wake"]
           m == Top(t).msg
           u == Top(t).to
           n == [msg |-> m, from |-> t]
<1>1. /\ stack[t] # <<>> /\ Top(t).fn = "Send" /\ Top(t).pc = "push"
      /\ Continue(t, f)
      /\ sendlist' = [sendlist EXCEPT ![u] = Append(sendlist[u], n)]
      /\ hasSends' = [hasSends EXCEPT ![u] = TRUE]
      /\ UNCHANGED <<msgq, dmsgq, signaled, fWait, fStop, ready, used>>
  BY DEF SendPush, At, In
<1>2. /\ f \in Calls /\ f.fn = "Send" /\ f.msg = m /\ f.pc = "wake" /\ f.to = u
      /\ HasWaited(Top(t)) => HasWaited(f)
      /\ \A g \in Calls : Above(Top(t), g) => Above(f, g)
  <2>1. Top(t) \in Calls
    BY <1>1, TopFacts DEF TypeOK
  <2>2. f = SendCall("wake", Top(t).msg, Top(t).to, Top(t).waited)
    BY <1>1, <2>1, CallUpdates
  <2> HIDE DEF f
  <2>. QED
    BY <1>1, <2>2, SendGoesOn
<1> HIDE DEF f
<1>3. /\ Nested' /\ NewCalls(t, {f}) /\ stack'[t] = <<f>> \o Tail(stack[t])
      /\ stack'[t] # <<>> /\ Top(t)' = f
      /\ \A v \in Threads, x \in Messages : Sender(v, x)' => Sender(v, x)
      /\ \A e : Handling(e)' => Handling(e)
      /\ Sender(t, m) /\ m \in Messages /\ u \in Threads
  BY <1>0, <1>1, <1>2, SendContinues
<1>4. n \in Entries /\ n.msg = m /\ n.from = t
  BY <1>3 DEF Entries
<1> HIDE DEF m, u, n
<1>5. StopsQuit' /\ PostsWake'
  BY <1>0, <1>1, <1>2, <1>3, StopsKeep, PostsKeep
<1>6. AnswersWake'
  <2>1. /\ stack[t] \in Seq(Calls) /\ signaled[t] \in BOOLEAN
        /\ Covered(stack[t], ready, signaled[t]) /\ Top(t) = Head(stack[t])
    BY <1>0 DEF TypeOK, StacksOK, FlagsOK, AnswersWake, Top
  <2>2. Covered(<<f>> \o Tail(stack[t]), ready, signaled[t])
    BY <1>1, <1>2, <2>1, CoveredContinue DEF Owed
  <2>3. \A v \in Threads : Steady(v)
    BY <1>1, UnchangedSteady
  <2>4. Covered(stack'[t], ready', signaled'[t])
    BY <1>1, <1>3, <2>2
  <2>. QED
    BY <1>0, <1>3, <2>3, <2>4, AnswersKeep DEF TypeOK, FlagsOK
<1>7. /\ sendlist'[u] = Append(sendlist[u], n) /\ hasSends'[u]
      /\ \A v \in Threads \ {u} : /\ sendlist'[v] = sendlist[v]
                                  /\ hasSends'[v] = hasSends[v]
  BY <1>1, <1>3 DEF TypeOK, QueuesOK, FlagsOK
<1>8. SendsFlagged'
  BY <1>0, <1>7 DEF SendsFlagged
<1>9. SendsWake'
  <2> SUFFICES ASSUME NEW v \in Threads, sendlist'[v] # <<>>,
                      fWait'[v] \/ Dozing(v)', ~signaled'[v]
               PROVE  Waking(v)'
    BY DEF SendsWake
  <2>1. CASE v = u
    BY <1>2, <1>3, <2>1 DEF Waking, At, In
  <2>2. CASE v # u
    <3>1. sendlist[v] # <<>> /\ ~signaled[v] /\ fWait[v] = fWait'[v]
      BY <1>1, <1>7, <2>2
    <3>2. Dozing(v)' => Dozing(v)
      <4>1. ~Dozing(t)'
        BY <1>2, <1>3 DEF Dozing, At, In
      <4>. QED
        BY <1>3, <4>1, DozingTop DEF NewCalls
    <3>3. Waking(v)
      BY <1>0, <3>1, <3>2 DEF SendsWake
    <3>4. PICK w \in Threads : At(w, "Send", "wake") /\ Top(w).to = v
      BY <3>3 DEF Waking
    <3>5. stack'[w] = stack[w]
      BY <1>1, <1>3, <3>4 DEF NewCalls, At
    <3>. QED
      BY <3>4, <3>5 DEF Waking, At, In, Top
  <2>. QED
    BY <2>1, <2>2
<1>10. OneSender'
  <2>1. ASSUME NEW e, Listed(e)' PROVE Listed(e) \/ e = n
    <3>1. PICK v \in Threads : e \in Range(sendlist'[v])
      BY <2>1 DEF Listed
    <3>2. Range(sendlist'[u]) \subseteq Range(sendlist[u]) \cup {n}
      <4>1. sendlist[u] \in Seq(Entries)
        BY <1>3 DEF TypeOK, QueuesOK, Entries
      <4>. QED
        BY <1>4, <1>7, <4>1, AppendRange
    <3>. QED
      BY <1>3, <1>7, <3>1, <3>2 DEF Listed
  <2>2. ASSUME NEW e \in Entries, (Listed(e) \/ Handling(e))'
        PROVE  e.msg <= used' /\ \A v \in Threads : Sender(v, e.msg)' => e.from = v
    <3>1. e.msg \in Messages
      BY DEF Entries
    <3>2. \A v \in Threads : Sender(v, e.msg)' => Sender(v, e.msg)
      BY <1>3, <3>1
    <3>3. CASE e = n
      BY <1>0, <1>1, <1>3, <1>4, <3>2, <3>3 DEF OneSender
    <3>4. CASE Listed(e) \/ Handling(e)
      BY <1>0, <1>1, <3>2, <3>4 DEF OneSender
    <3>. QED
      BY <1>3, <2>1, <2>2, <3>3, <3>4
  <2>3. ASSUME NEW v \in Threads, NEW x \in Messages, Sender(v, x)'
        PROVE  x <= used' /\ \A w \in Threads : Sender(w, x)' => v = w
    BY <1>0, <1>1, <1>3, <2>3 DEF OneSender
  <2>. QED
    BY <2>2, <2>3 DEF OneSender, Entries, Messages
<1>. QED
  BY <1>3, <1>5, <1>6, <1>8, <1>9, <1>10 DEF Safe

\* The receiver is signaled, whatever it is doing.
LEMMA SendWakeKeeps ==
  ASSUME TypeOK, TypeOK', Safe, NEW t \in Threads, SendWake(t)
  PROVE  Safe'
<1>0. /\ StopsQuit /\ Nested /\ SendsFlagged /\ SendsWake /\ OneSender
      /\ AnswersWake /\ PostsWake
  BY DEF Safe
<1> DEFINE f == [Top(t) EXCEPT !.pc = "loop"]
           u == Top(t).to
<1>1. /\ stack[t] # <<>> /\ Top(t).fn = "Send" /\ Top(t).pc = "wake"
      /\ Continue(t, f) /\ WakeUp({u})
      /\ UNCHANGED <<msgq, dmsgq, sendlist, hasSends, fWait, fStop, ready, used>>
  BY DEF SendWake, At, In
<1>2. /\ f \in Calls /\ f.fn = "Send" /\ f.msg = Top(t).msg /\ f.pc = "loop"
      /\ HasWaited(Top(t)) => HasWaited(f)
      /\ \A g \in Calls : Above(Top(t), g) => Above(f, g)
  <2>1. Top(t) \in Calls
    BY <1>1, TopFacts DEF TypeOK
  <2>2. f = SendCall("loop", Top(t).msg, Top(t).to, Top(t).waited)
    BY <1>1, <2>1, CallUpdates
  <2> HIDE DEF f
  <2>. QED
    BY <1>1, <2>2, SendGoesOn
<1> HIDE DEF f
<1>3. /\ Nested' /\ NewCalls(t, {f}) /\ stack'[t] = <<f>> \o Tail(stack[t])
      /\ stack'[t] # <<>> /\ Top(t)' = f /\ u \in Threads
  BY <1>0, <1>1, <1>2, SendContinues
<1>4. signaled'[u] /\ \A v \in Threads : Steady(v) /\ (signaled[v] => signaled'[v])
  <2>1. signaled'[u]
    BY <1>1, <1>3, WakeUpSignals DEF TypeOK, FlagsOK
  <2>2. \A v \in Threads : Steady(v) /\ (signaled[v] => signaled'[v])
    BY <1>1, WakeUpSteady
  <2>. QED
    BY <2>1, <2>2
<1>5. Top(t) \in CallsOf(t) /\ used \in Nat
  BY <1>1, TopFacts DEF TypeOK, FlagsOK, CallsOf, Range
<1>6. StopsQuit' /\ PostsWake'
  <2>1. \A v \in Threads : signaled'[v] \/ ~signaled[v]
    BY <1>4
  <2>. QED
    BY <1>0, <1>1, <1>2, <1>3, <2>1, StopsKeep, PostsKeep
<1>7. OneSender'
  <2> DEFINE N == {f}
  <2>1. NewCalls(t, N) /\ \A c \in N : c.fn = "Send" /\ c.msg = Top(t).msg
    BY <1>2, <1>3
  <2> HIDE DEF N
  <2>. QED
    BY <1>0, <1>1, <1>5, <2>1, SendersKeep
<1>8. AnswersWake'
  <2>1. /\ stack[t] \in Seq(Calls) /\ Top(t) = Head(stack[t])
        /\ Covered(stack[t], ready, signaled[t])
        /\ signaled[t] \in BOOLEAN /\ signaled'[t] \in BOOLEAN
    BY <1>0 DEF TypeOK, StacksOK, FlagsOK, AnswersWake, Top
  <2>2. Covered(stack[t], ready, signaled'[t])
    <3>1. signaled'[t] \/ (~signaled[t] /\ \A c \in Range(stack[t]) :
                                            Owed(c, ready) => Owed(c, ready))
      BY <1>4
    <3>. QED
      BY <2>1, <3>1, CoveredMore
  <2>3. Covered(<<f>> \o Tail(stack[t]), ready, signaled'[t])
    BY <1>1, <1>2, <2>1, <2>2, CoveredContinue DEF Owed
  <2>4. Covered(stack'[t], ready', signaled'[t])
    BY <1>1, <1>3, <2>3
  <2>. QED
    BY <1>0, <1>3, <1>4, <2>4, AnswersKeep DEF TypeOK, FlagsOK
<1>9. SendsFlagged'
  BY <1>0, <1>1 DEF SendsFlagged
<1>10. SendsWake'
  <2> SUFFICES ASSUME NEW v \in Threads, sendlist'[v] # <<>>,
                      fWait'[v] \/ Dozing(v)', ~signaled'[v]
               PROVE  Waking(v)'
    BY DEF SendsWake
  <2>1. sendlist[v] # <<>> /\ ~signaled[v] /\ fWait[v] = fWait'[v] /\ v # u
    BY <1>1, <1>4
  <2>2. Dozing(v)' => Dozing(v)
    <3>1. ~Dozing(t)'
      BY <1>2, <1>3 DEF Dozing, At, In
    <3>. QED
      BY <1>3, <3>1, DozingTop DEF NewCalls
  <2>3. Waking(v)
    BY <1>0, <2>1, <2>2 DEF SendsWake
  <2>4. PICK w \in Threads : At(w, "Send", "wake") /\ Top(w).to = v
    BY <2>3 DEF Waking
  <2>5. stack'[w] = stack[w]
    BY <1>3, <2>1, <2>4 DEF NewCalls
  <2>. QED
    BY <2>4, <2>5 DEF Waking, At, In, Top
<1>. QED
  BY <1>3, <1>6, <1>7, <1>8, <1>9, <1>10 DEF Safe

\* A message loop about to wait has called nobody.
LEMMA NoStopBelow ==
  ASSUME TypeOK, Nested, NEW t \in Threads, stack[t] # <<>>, Top(t).fn # "Get",
         NEW c \in CallsOf(t), c.fn = "Get"
  PROVE  c.pc # "stop"
<1>1. /\ stack[t] \in Seq(Calls) /\ Top(t) = stack[t][1]
      /\ Len(stack[t]) \in Nat /\ Stacked(stack[t])
  BY TopFacts DEF TypeOK, Nested
<1>2. PICK i \in 1 .. Len(stack[t]) : c = stack[t][i]
  BY <1>1 DEF CallsOf, Range
<1>3. i # 1
  BY <1>1, <1>2
<1>4. i - 1 \in 1 .. Len(stack[t]) - 1 /\ (i - 1) + 1 = i
  BY <1>1, <1>3
<1>5. Above(stack[t][i - 1], c)
  <2>1. Above(stack[t][i - 1], stack[t][(i - 1) + 1])
    BY <1>1, <1>4 DEF Stacked
  <2>. QED
    BY <1>2, <1>4, <2>1
<1>. QED
  BY <1>5 DEF Above

\* A Send takes the signal, remembers it, and looks at everything again.
LEMMA SendWaitKeeps ==
  ASSUME TypeOK, TypeOK', Safe, NEW t \in Threads, SendWait(t)
  PROVE  Safe'
<1>0. /\ StopsQuit /\ Nested /\ SendsFlagged /\ SendsWake /\ OneSender
      /\ AnswersWake /\ PostsWake
  BY DEF Safe
<1> DEFINE f == [Top(t) EXCEPT !.pc = "loop", !.waited = TRUE]
<1>1. /\ stack[t] # <<>> /\ Top(t).fn = "Send" /\ Top(t).pc = "select"
      /\ Continue(t, f)
      /\ signaled' = [signaled EXCEPT ![t] = FALSE]
      /\ fWait' = [fWait EXCEPT ![t] = FALSE]
      /\ UNCHANGED <<msgq, dmsgq, sendlist, hasSends, fStop, ready, used>>
  BY DEF SendWait, At, In
<1>2. /\ f \in Calls /\ f.fn = "Send" /\ f.msg = Top(t).msg /\ f.pc = "loop"
      /\ HasWaited(f)
      /\ \A g \in Calls : Above(Top(t), g) => Above(f, g)
  <2>1. Top(t) \in Calls /\ Top(t).msg \in Messages /\ Top(t).to \in Threads
    BY <1>1, TopFacts, CallFields DEF TypeOK
  <2>2. f = SendCall("loop", Top(t).msg, Top(t).to, TRUE)
    BY <1>1, <2>1, CallUpdates
  <2> HIDE DEF f
  <2>3. f \in Calls
    BY <2>1, <2>2, CallTypes
  <2>4. f.fn = "Send" /\ f.msg = Top(t).msg /\ f.pc = "loop" /\ f.waited = TRUE
    BY <2>2 DEF SendCall
  <2>5. HasWaited(f)
    BY <2>4 DEF HasWaited
  <2>6. \A g \in Calls : Above(Top(t), g) => Above(f, g)
    BY <1>1, <2>4 DEF Above
  <2>. QED
    BY <2>3, <2>4, <2>5, <2>6
<1> HIDE DEF f
<1>3. /\ Nested' /\ NewCalls(t, {f}) /\ stack'[t] = <<f>> \o Tail(stack[t])
      /\ stack'[t] # <<>> /\ Top(t)' = f
  BY <1>0, <1>1, <1>2, SendContinues
<1>4. /\ ~signaled'[t] /\ ~fWait'[t]
      /\ \A v \in Threads \ {t} : signaled'[v] = signaled[v] /\ fWait'[v] = fWait[v]
  BY <1>1 DEF TypeOK, FlagsOK
<1>5. /\ Top(t) \in CallsOf(t) /\ used \in Nat /\ ~At(t, "Send", "wake")
      /\ signaled'[t] \in BOOLEAN /\ stack[t] \in Seq(Calls)
  BY <1>1, TopFacts DEF TypeOK, FlagsOK, StacksOK, CallsOf, Range, At
<1>6. StopsQuit'
  BY <1>0, <1>1, <1>2, <1>3, StopsKeep
<1>7. OneSender'
  <2> DEFINE N == {f}
  <2>1. NewCalls(t, N) /\ \A c \in N : c.fn = "Send" /\ c.msg = Top(t).msg
    BY <1>2, <1>3
  <2> HIDE DEF N
  <2>. QED
    BY <1>0, <1>1, <1>5, <2>1, SendersKeep
<1>8. PostsWake'
  <2>1. \A c \in CallsOf(t)' : ~Idles(c, fWait'[t])
    <3> SUFFICES ASSUME NEW c \in CallsOf(t)', c.fn = "Get", c.pc = "stop"
                 PROVE  FALSE
      BY <1>4 DEF Idles
    <3>1. c \in CallsOf(t)
      BY <1>2, <1>3 DEF NewCalls
    <3>. QED
      BY <1>0, <1>1, <3>1, NoStopBelow
  <2>. QED
    BY <1>0, <1>1, <1>3, <1>4, <2>1, PostsKeepBut
<1>9. AnswersWake'
  <2>1. Covered(<<f>> \o Tail(stack[t]), ready, signaled'[t])
    BY <1>1, <1>2, <1>5, CoveredWaited DEF Owed
  <2>2. Covered(stack'[t], ready', signaled'[t])
    BY <1>1, <1>3, <2>1
  <2>3. \A v \in Threads \ {t} : Steady(v)
    BY <1>1, <1>4 DEF Steady
  <2>. QED
    BY <1>0, <1>3, <2>2, <2>3, AnswersKeep DEF TypeOK, FlagsOK
<1>10. SendsFlagged'
  BY <1>0, <1>1 DEF SendsFlagged
<1>11. SendsWake'
  <2>1. ~Dozing(t)'
    BY <1>2, <1>3 DEF Dozing, At, In
  <2>2. \A v \in Threads \ {t} : Dozing(v)' => Dozing(v)
    BY <1>3, DozingTop DEF NewCalls
  <2>. QED
    BY <1>0, <1>1, <1>3, <1>4, <1>5, <2>1, <2>2, SendsKeep
<1>. QED
  BY <1>3, <1>6, <1>7, <1>8, <1>9, <1>10, <1>11 DEF Safe

\* A thread that is told to quit is signaled, and only such a thread is joined.
LEMMA QuitKeeps ==
  ASSUME TypeOK, TypeOK', Safe, NEW t \in Threads, NEW u \in Threads, Quit(t, u)
  PROVE  Safe'
<1>0. /\ StopsQuit /\ Nested /\ SendsFlagged /\ SendsWake /\ OneSender
      /\ AnswersWake /\ PostsWake
  BY DEF Safe
<1> DEFINE f == StopCall(u)
<1>1. /\ stack[t] # <<>> /\ Top(t).fn = "OnMessage" /\ u \in Owned
      /\ Push(t, f) /\ WakeUp({u}) /\ fStop' = [fStop EXCEPT ![u] = TRUE]
      /\ UNCHANGED <<msgq, dmsgq, sendlist, hasSends, fWait, ready, used>>
  BY DEF Quit, In
<1>2. /\ f \in Calls /\ f.fn = "Stop" /\ f.to = u /\ Above(f, Top(t))
      /\ ~Owed(f, ready)
  BY <1>1, CallTypes DEF StopCall, Above, Owed
<1> HIDE DEF f
<1>3. Nested' /\ NewCalls(t, {f}) /\ stack'[t] = <<f>> \o stack[t]
  BY <1>0, <1>1, <1>2, Pushed
<1>4. signaled'[u] /\ \A v \in Threads : Steady(v) /\ (signaled[v] => signaled'[v])
  <2>1. signaled'[u]
    BY <1>1, WakeUpSignals DEF TypeOK, FlagsOK
  <2>2. \A v \in Threads : Steady(v) /\ (signaled[v] => signaled'[v])
    BY <1>1, WakeUpSteady
  <2>. QED
    BY <2>1, <2>2
<1>5. fStop'[u] /\ \A v \in Threads \ {u} : fStop'[v] = fStop[v]
  BY <1>1 DEF TypeOK, FlagsOK
<1>6. /\ used \in Nat /\ ~At(t, "Send", "wake") /\ stack[t] \in Seq(Calls)
      /\ signaled[t] \in BOOLEAN /\ signaled'[t] \in BOOLEAN
      /\ Covered(stack[t], ready, signaled[t])
  BY <1>0, <1>1 DEF TypeOK, FlagsOK, StacksOK, At, In, AnswersWake
<1>7. StopsQuit'
  <2> SUFFICES ASSUME NEW v \in Threads, NEW c \in CallsOf(v)', c.fn = "Stop"
               PROVE  fStop'[c.to]
    BY DEF StopsQuit
  <2>1. CASE c = f
    BY <1>2, <1>5, <2>1
  <2>2. CASE c \in CallsOf(v)
    <3>1. c.to \in Threads
      BY <2>2, EntryTypes, CallFields, ThreadAssumption
    <3>. QED
      BY <1>0, <1>5, <2>2, <3>1 DEF StopsQuit
  <2>. QED
    BY <1>3, <2>1, <2>2 DEF NewCalls, CallsOf
<1>8. OneSender'
  BY <1>0, <1>1, <1>2, <1>3, <1>6, SendersKeep
<1>9. PostsWake'
  <2>1. \A v \in Threads : signaled'[v] \/ (~signaled[v] /\ fStop'[v] = fStop[v])
    BY <1>4, <1>5
  <2>. QED
    BY <1>0, <1>1, <1>2, <1>3, <2>1, PostsKeep
<1>10. AnswersWake'
  <2>1. Covered(<<f>> \o stack[t], ready, signaled[t])
    BY <1>2, <1>6, CoveredPush
  <2>2. <<f>> \o stack[t] \in Seq(Calls)
    BY <1>2, <1>6, PushProperties
  <2>3. Covered(stack'[t], ready, signaled'[t])
    <3> DEFINE s == <<f>> \o stack[t]
    <3>1. s \in Seq(Calls) /\ Covered(s, ready, signaled[t])
      BY <2>1, <2>2
    <3> HIDE DEF s
    <3>2. signaled'[t] \/ (~signaled[t] /\ \A c \in Range(s) :
                                            Owed(c, ready) => Owed(c, ready))
      BY <1>4
    <3>3. Covered(s, ready, signaled'[t])
      BY <1>6, <3>1, <3>2, CoveredMore
    <3>. QED
      BY <1>3, <3>3 DEF s
  <2>4. Covered(stack'[t], ready', signaled'[t])
    BY <1>1, <2>3
  <2>. QED
    BY <1>0, <1>3, <1>4, <2>4, AnswersKeep DEF TypeOK, FlagsOK
<1>11. SendsFlagged'
  BY <1>0, <1>1 DEF SendsFlagged
<1>12. SendsWake'
  <2>1. Head(stack'[t]) = f
    BY <1>2, <1>3, <1>6, PushProperties
  <2>2. ~Dozing(t)'
    BY <1>2, <2>1, DozingTop
  <2>3. \A v \in Threads \ {t} : Dozing(v)' => Dozing(v)
    BY <1>3, DozingTop DEF NewCalls
  <2>. QED
    BY <1>0, <1>1, <1>3, <1>4, <1>6, <2>2, <2>3, SendsKeep
<1>. QED
  BY <1>3, <1>7, <1>8, <1>9, <1>10, <1>11, <1>12 DEF Safe

\* Safe is about these variables alone.
LEMMA SafeUnchanged ==
  ASSUME Safe, UNCHANGED <<stack, msgq, dmsgq, sendlist, hasSends, signaled,
                           fWait, fStop, ready, used>>
  PROVE  Safe'
<1>1. StopsQuit' /\ Nested' /\ SendsFlagged'
  BY DEF Safe, StopsQuit, Nested, SendsFlagged, CallsOf
<1>2. SendsWake'
  BY DEF Safe, SendsWake, Dozing, Waking, At, In, Top
<1>3. OneSender'
  BY DEF Safe, OneSender, Listed, Handling, Sender, CallsOf
<1>4. AnswersWake' /\ PostsWake'
  BY DEF Safe, AnswersWake, PostsWake, CallsOf
<1>. QED
  BY <1>1, <1>2, <1>3, <1>4 DEF Safe

-----------------------------------------------------------------------------
(* The theorems.                                                           *)

\* At the start every thread is in a handler above its message loop.
LEMMA InitHolds ==
  ASSUME Init
  PROVE  ThreadInv
<1> DEFINE h == HandlerCall(0)
           g == GetCall("receive", FALSE)
<1>1. h \in Calls /\ g \in Calls
  BY CallTypes
<1>2. /\ h.fn = "OnMessage" /\ g.fn = "Get" /\ g.pc = "receive"
  BY DEF HandlerCall, GetCall
<1>3. /\ stack = [t \in Threads |-> <<h, g>>]
      /\ sendlist = [t \in Threads |-> <<>>] /\ gone = {} /\ ready = {}
      /\ fWait = [t \in Threads |-> FALSE]
  BY DEF Init
<1> HIDE DEF h, g
<1>4. /\ <<h, g>> \in Seq(Calls) /\ Len(<<h, g>>) = 2 /\ Range(<<h, g>>) = {h, g}
      /\ Head(<<h, g>>) = h
  BY <1>1 DEF Range
<1>5. \A t \in Threads : stack[t] = <<h, g>> /\ CallsOf(t) = {h, g} /\ Top(t) = h
  BY <1>3, <1>4 DEF CallsOf, Top
<1>6. StacksOK
  <2>1. stack \in [Threads -> Seq(Calls)]
    BY <1>3, <1>4
  <2>. QED
    BY <1>3, <2>1 DEF StacksOK
<1>7. QueuesOK
  <2>1. msgq \in [Threads -> Seq(Messages)] /\ dmsgq \in [Threads -> Seq(Messages)]
    BY DEF Init
  <2>2. sendlist \in [Threads -> Seq([msg : Messages, from : Threads])]
    BY <1>3
  <2>3. due \in [Threads -> Nat] /\ \A t \in Threads : due[t] <= Len(dmsgq[t])
    BY DEF Init
  <2>. QED
    BY <2>1, <2>2, <2>3 DEF QueuesOK
<1>8. FlagsOK
  <2>1. /\ hasSends \in [Threads -> BOOLEAN] /\ signaled \in [Threads -> BOOLEAN]
        /\ fWait \in [Threads -> BOOLEAN] /\ fStop \in [Threads -> BOOLEAN]
    BY DEF Init
  <2>2. ready \subseteq Messages /\ cleared \subseteq Messages
    BY DEF Init
  <2>3. used \in 0 .. MaxMessages
    BY ThreadAssumption DEF Init
  <2>. QED
    BY <2>1, <2>2, <2>3 DEF FlagsOK
<1>9. \A t \in Threads : sendlist[t] = <<>> /\ Range(sendlist[t]) = {}
  BY <1>3 DEF Range
<1>10. Nested
  <2>1. Above(h, g) /\ <<h, g>>[1] = h /\ <<h, g>>[2] = g
    BY <1>2 DEF Above
  <2>2. Stacked(<<h, g>>)
    <3> SUFFICES ASSUME NEW i \in 1 .. Len(<<h, g>>) - 1
                 PROVE  Above(<<h, g>>[i], <<h, g>>[i + 1])
      BY DEF Stacked
    <3>1. i = 1 /\ i + 1 = 2
      BY <1>4
    <3>. QED
      BY <2>1, <3>1
  <2>. QED
    BY <1>5, <2>2 DEF Nested
<1>11. StopsQuit /\ PostsWake
  BY <1>2, <1>5 DEF StopsQuit, PostsWake, Idles
<1>12. SendsFlagged /\ SendsWake
  BY <1>9 DEF SendsFlagged, SendsWake
<1>13. OneSender
  <2>1. \A e : ~Listed(e) /\ ~Handling(e)
    BY <1>2, <1>5, <1>9 DEF Listed, Handling
  <2>2. \A t \in Threads : \A m : ~Sender(t, m)
    BY <1>2, <1>5 DEF Sender, Sends
  <2>. QED
    BY <2>1, <2>2 DEF OneSender
<1>14. AnswersWake
  <2>1. \A c : ~Owed(c, {})
    BY DEF Owed
  <2>. QED
    BY <1>3, <2>1 DEF AnswersWake, Covered
<1>. QED
  BY <1>6, <1>7, <1>8, <1>10, <1>11, <1>12, <1>13, <1>14
     DEF ThreadInv, TypeOK, Safe

\* Every step of every thread keeps the invariant.
LEMMA StepKeeps ==
  ASSUME ThreadInv, [Next]_vars
  PROVE  ThreadInv'
<1>1. TypeOK /\ Safe /\ StopsQuit
  BY DEF ThreadInv, Safe
<1>2. CASE UNCHANGED vars
  <2>1. TypeOK'
    BY <1>1, <1>2 DEF vars, TypeOK, StacksOK, QueuesOK, FlagsOK
  <2>2. Safe'
    BY <1>1, <1>2, SafeUnchanged DEF vars
  <2>. QED
    BY <2>1, <2>2 DEF ThreadInv
<1>3. CASE Next
  <2>1. TypeOK'
    BY <1>1, <1>3, StacksType, QueuesType, FlagsType DEF TypeOK
  <2> SUFFICES Safe'
    BY <2>1 DEF ThreadInv
  <2>2. PICK t \in Threads : \/ Run(t) \/ Request(t) \/ Elapse(t)
                             \/ \E m \in Messages : SocketEvent(t, m)
    BY <1>3 DEF Next
  <2>3. CASE Run(t)
    <3>1. CASE GetReceive(t)
      BY <1>1, <2>1, <3>1, GetReceiveKeeps
    <3>2. CASE GetQueue(t)
      BY <1>1, <2>1, <3>2, GetQueueKeeps
    <3>3. CASE GetStop(t)
      BY <1>1, <2>1, <3>3, GetStopKeeps
    <3>4. CASE GetWait(t)
      BY <1>1, <2>1, <3>4, GetWaitKeeps
    <3>5. CASE ReceiveNext(t)
      BY <1>1, <2>1, <3>5, ReceiveNextKeeps
    <3>6. CASE Return(t)
      BY <1>1, <2>1, <3>6, ReturnKeeps
    <3>7. CASE Destroy(t)
      BY <1>1, <2>1, <3>7, DestroyKeeps
    <3>8. CASE SendPush(t)
      BY <1>1, <2>1, <3>8, SendPushKeeps
    <3>9. CASE SendWake(t)
      BY <1>1, <2>1, <3>9, SendWakeKeeps
    <3>10. CASE SendLoop(t)
      BY <1>1, <2>1, <3>10, SendLoopKeeps
    <3>11. CASE SendReceive(t)
      BY <1>1, <2>1, <3>11, SendReceiveKeeps
    <3>12. CASE SendWait(t)
      BY <1>1, <2>1, <3>12, SendWaitKeeps
    <3>. QED
      BY <2>3, <3>1, <3>2, <3>3, <3>4, <3>5, <3>6, <3>7, <3>8, <3>9, <3>10,
         <3>11, <3>12 DEF Run
  <2>4. CASE Request(t)
    <3>1. PICK u \in Threads :
            \/ \E m \in Messages : Post(t, u, m) \/ BeginSend(t, u, m)
            \/ \E m \in Messages, i \in 0 .. Len(dmsgq[u]) :
                 PostDelayed(t, u, m, i)
            \/ \E m \in Messages : Clear(t, u, m)
            \/ Quit(t, u)
      BY <2>4 DEF Request
    <3>2. ASSUME NEW m \in Messages,
                 Post(t, u, m) \/ \E i \in 0 .. Len(dmsgq[u]) :
                                    PostDelayed(t, u, m, i)
          PROVE  Safe'
      BY <1>1, <2>1, <3>2, PostKeeps
    <3>3. ASSUME NEW m \in Messages, BeginSend(t, u, m) PROVE Safe'
      BY <1>1, <2>1, <3>3, BeginSendKeeps
    <3>4. ASSUME NEW m \in Messages, Clear(t, u, m) PROVE Safe'
      BY <1>1, <2>1, <3>4, ClearKeeps
    <3>5. CASE Quit(t, u)
      BY <1>1, <2>1, <3>5, QuitKeeps
    <3>. QED
      BY <3>1, <3>2, <3>3, <3>4, <3>5
  <2>5. CASE Elapse(t)
    BY <1>1, <2>5, SafeUnchanged DEF Elapse
  <2>6. CASE \E m \in Messages : SocketEvent(t, m)
    BY <1>1, <2>1, <2>6, SocketEventKeeps
  <2>. QED
    BY <2>2, <2>3, <2>4, <2>5, <2>6
<1>. QED
  BY <1>2, <1>3

\* Whatever threads there are, however often their handlers send to each other
\* from within handlers, post, clear and stop threads: the stacks keep their
\* order, has_sends_ is set while a message waits, and whoever has something
\* to do is signaled, about to be, or has still to look.
THEOREM Invariance == Spec => []ThreadInv
<1>1. Init => ThreadInv
  BY InitHolds
<1>2. ThreadInv /\ [Next]_vars => ThreadInv'
  BY StepKeeps
<1>. QED
  BY <1>1, <1>2, PTL DEF Spec

\* The stacks, the queues and the flags of all threads stay of their types, and
\* a thread that is destroyed was told to quit and has left its loop.
THEOREM TypeCorrect == Spec => []TypeOK
<1>1. ThreadInv => TypeOK
  BY DEF ThreadInv
<1>. QED
  BY <1>1, Invariance, PTL

\* No wake-up is lost: a thread that sleeps in PhysicalSocketServer::Wait has
\* nothing to do, although Send consumes signals meant for the calls below it,
\* has_sends_ is read without the lock, and Send wakes the other thread only
\* after it released the lock of its queue.
THEOREM WakeUpsAreNotLost == Spec => []NoLostWakeUp
<1>1. ThreadInv => NoLostWakeUp
  <2> SUFFICES ASSUME ThreadInv, NEW t \in Threads, Asleep(t)
               PROVE  /\ sendlist[t] # <<>> =>
                           \E u \in Threads :
                             At(u, "Send", "wake") /\ Top(u).to = t
                      /\ In(t, "Send") => Top(t).msg \notin ready
                      /\ In(t, "Get") => /\ msgq[t] = <<>> /\ ~fStop[t]
                                         /\ dmsgq[t] # <<>> => Top(t).timed
    BY DEF NoLostWakeUp
  <2>1. TypeOK /\ SendsWake /\ AnswersWake /\ PostsWake
    BY DEF ThreadInv, Safe
  <2>2. /\ ~signaled[t]
        /\ (At(t, "Get", "select") /\ fWait[t]) \/ At(t, "Send", "select")
    BY DEF Asleep
  <2>3. stack[t] # <<>>
    BY <2>2 DEF At, In
  <2>4. /\ Top(t) \in CallsOf(t) /\ Top(t) = stack[t][1]
        /\ 1 \in 1 .. Len(stack[t])
    BY <2>1, <2>3, TopFacts DEF TypeOK, CallsOf, Range
  <2>5. sendlist[t] # <<>> => \E u \in Threads :
                                At(u, "Send", "wake") /\ Top(u).to = t
    <3>1. fWait[t] \/ Dozing(t)
      BY <2>2 DEF Dozing
    <3>. QED
      BY <2>1, <2>2, <3>1 DEF SendsWake, Waking
  <2>6. In(t, "Send") => Top(t).msg \notin ready
    <3>1. ~Owed(stack[t][1], ready)
      <4>1. Covered(stack[t], ready, signaled[t])
        BY <2>1 DEF AnswersWake
      <4>2. \A j \in 1 .. 1 - 1 : FALSE
        OBVIOUS
      <4>. QED
        BY <2>2, <2>4, <4>1, <4>2 DEF Covered
    <3>2. In(t, "Send") => Top(t).fn = "Send" /\ Top(t).pc = "select"
      BY <2>2 DEF In, At
    <3>. QED
      BY <2>4, <3>1, <3>2 DEF Owed
  <2>7. In(t, "Get") => /\ msgq[t] = <<>> /\ ~fStop[t]
                        /\ dmsgq[t] # <<>> => Top(t).timed
    <3> SUFFICES ASSUME In(t, "Get")
                 PROVE  /\ msgq[t] = <<>> /\ ~fStop[t]
                        /\ dmsgq[t] # <<>> => Top(t).timed
      OBVIOUS
    <3>1. Top(t).fn = "Get" /\ Top(t).pc = "select" /\ fWait[t]
      BY <2>2 DEF At, In
    <3>2. Idles(Top(t), fWait[t])
      BY <3>1 DEF Idles
    <3>. QED
      BY <2>1, <2>2, <2>4, <3>1, <3>2 DEF PostsWake
  <2>. QED
    BY <2>5, <2>6, <2>7
<1>. QED
  BY <1>1, Invariance, PTL

-----------------------------------------------------------------------------
(***************************************************************************)
(* Threads deliver every message as Messaging promises, for any number of  *)
(* threads and messages: the proof of the refinement Spec => Delivers.     *)
(*                                                                         *)
(* Messaging knows a message by its phase, Thread by where it is: in the   *)
(* queues or the sendlist_ of a thread, with a Send about to enter it, a   *)
(* ReceiveSends or a handler.  The invariant Placed says that a message is *)
(* in one of these places at most and there once; that its Send, if it was *)
(* sent, is on one stack only and goes to the thread that has the message; *)
(* and that nothing is left of it elsewhere once its ready flag is set.    *)
(* The phase is then a function of the place, and each action is shown to  *)
(* move the messages it touches as Messaging allows, and no other.         *)
(***************************************************************************)

-----------------------------------------------------------------------------
(* Sequences.                                                              *)

\* s has an element of M;
Has(s, M) == \E i \in 1 .. Len(s) : s[i] \in M
\* no more than one;
Once(s, M) == \A i, j \in 1 .. Len(s) : s[i] \in M /\ s[j] \in M => i = j
\* and below every element of M one of N.
Under(s, M, N) ==
  \A i \in 1 .. Len(s) : s[i] \in M => i < Len(s) /\ s[i + 1] \in N

\* What an element in the middle of a sequence adds to it.
LEMMA Insertion ==
  ASSUME NEW S, NEW x \in Seq(S), NEW y \in Seq(S), NEW e \in S, NEW M
  PROVE  /\ Has(x \o (<<e>> \o y), M) <=> e \in M \/ Has(x \o y, M)
         /\ Once(x \o (<<e>> \o y), M) <=>
              Once(x \o y, M) /\ (e \in M => ~Has(x \o y, M))
<1> DEFINE z == x \o (<<e>> \o y)
           w == x \o y
           n == Len(x)
<1>1. /\ w \in Seq(S) /\ Len(w) = n + Len(y) /\ n \in Nat /\ Len(y) \in Nat
      /\ \A i \in 1 .. n + Len(y) : w[i] = IF i <= n THEN x[i] ELSE y[i - n]
  BY ConcatProperties
<1>2. /\ <<e>> \o y \in Seq(S) /\ Len(<<e>> \o y) = Len(y) + 1
      /\ (<<e>> \o y)[1] = e
      /\ \A i \in 2 .. Len(y) + 1 : (<<e>> \o y)[i] = y[i - 1]
  BY PushProperties
<1> DEFINE ey == <<e>> \o y
<1> HIDE DEF ey
<1>3. /\ ey \in Seq(S) /\ Len(ey) = Len(y) + 1 /\ ey[1] = e
      /\ \A i \in 2 .. Len(y) + 1 : ey[i] = y[i - 1]
  BY <1>2 DEF ey
<1>4. /\ Len(x \o ey) = n + (Len(y) + 1)
      /\ \A i \in 1 .. n + (Len(y) + 1) :
           (x \o ey)[i] = IF i <= n THEN x[i] ELSE ey[i - n]
  <2>1. /\ Len(x \o ey) = Len(x) + Len(ey)
        /\ \A i \in 1 .. Len(x) + Len(ey) :
             (x \o ey)[i] = IF i <= Len(x) THEN x[i] ELSE ey[i - Len(x)]
    BY <1>3, ConcatProperties
  <2>. QED
    BY <1>3, <2>1
<1>5. z = x \o ey
  BY DEF ey
<1> HIDE DEF z, w, n
<1>6. /\ Len(z) = Len(w) + 1 /\ Len(w) \in Nat /\ n \in Nat /\ n <= Len(w)
      /\ z[n + 1] = e
  BY <1>1, <1>3, <1>4, <1>5
<1>7. \A i \in 1 .. n : z[i] = w[i]
  BY <1>1, <1>4, <1>5
<1>8. \A i \in n + 1 .. Len(w) : z[i + 1] = w[i]
  <2> SUFFICES ASSUME NEW i \in n + 1 .. Len(w)
               PROVE  z[i + 1] = w[i]
    OBVIOUS
  <2>1. w[i] = y[i - n] /\ i - n \in 1 .. Len(y)
    BY <1>1
  <2>2. z[i + 1] = ey[(i + 1) - n] /\ (i + 1) - n \in 2 .. Len(y) + 1
    BY <1>1, <1>4, <1>5
  <2>3. ((i + 1) - n) - 1 = i - n
    BY <1>1
  <2>. QED
    BY <1>3, <2>1, <2>2, <2>3
<1>9. Has(z, M) <=> e \in M \/ Has(w, M)
  <2>1. ASSUME NEW i \in 1 .. Len(w), w[i] \in M
        PROVE  \E j \in 1 .. Len(z) : z[j] \in M
    <3>1. CASE i <= n
      BY <1>6, <1>7, <2>1, <3>1
    <3>2. CASE ~(i <= n)
      <4>1. i \in n + 1 .. Len(w) /\ i + 1 \in 1 .. Len(z)
        BY <1>6, <3>2
      <4>. QED
        BY <1>8, <2>1, <4>1
    <3>. QED
      BY <3>1, <3>2
  <2>2. e \in M => \E j \in 1 .. Len(z) : z[j] \in M
    BY <1>6
  <2>3. ASSUME NEW i \in 1 .. Len(z), z[i] \in M
        PROVE  e \in M \/ \E j \in 1 .. Len(w) : w[j] \in M
    <3>1. CASE i <= n
      BY <1>6, <1>7, <2>3, <3>1
    <3>2. CASE i = n + 1
      BY <1>6, <2>3, <3>2
    <3>3. CASE i > n + 1
      <4>1. i - 1 \in n + 1 .. Len(w) /\ (i - 1) + 1 = i
            /\ i - 1 \in 1 .. Len(w)
        BY <1>6, <3>3
      <4>2. z[i] = w[i - 1]
        BY <1>8, <4>1
      <4>. QED
        BY <2>3, <4>1, <4>2
    <3>. QED
      BY <1>6, <3>1, <3>2, <3>3
  <2>. QED
    BY <2>1, <2>2, <2>3 DEF Has
<1> DEFINE up(i) == IF i <= n THEN i ELSE i + 1
<1>10. \A i \in 1 .. Len(w) : up(i) \in 1 .. Len(z) /\ z[up(i)] = w[i]
                              /\ up(i) # n + 1
  <2> SUFFICES ASSUME NEW i \in 1 .. Len(w)
               PROVE  up(i) \in 1 .. Len(z) /\ z[up(i)] = w[i] /\ up(i) # n + 1
    OBVIOUS
  <2>1. CASE i <= n
    BY <1>6, <1>7, <2>1
  <2>2. CASE ~(i <= n)
    <3>1. i \in n + 1 .. Len(w)
      BY <1>6, <2>2
    <3>. QED
      BY <1>6, <1>8, <2>2, <3>1
  <2>. QED
    BY <2>1, <2>2
<1>11. \A i, j \in 1 .. Len(w) : up(i) = up(j) => i = j
  BY <1>6
<1>12. \A i \in 1 .. Len(z) : i # n + 1 => \E j \in 1 .. Len(w) : i = up(j)
  <2> SUFFICES ASSUME NEW i \in 1 .. Len(z), i # n + 1
               PROVE  \E j \in 1 .. Len(w) : i = up(j)
    OBVIOUS
  <2>1. CASE i <= n
    BY <1>6, <2>1
  <2>2. CASE i > n + 1
    <3>1. i - 1 \in 1 .. Len(w) /\ ~(i - 1 <= n) /\ (i - 1) + 1 = i
      BY <1>6, <2>2
    <3>. QED
      BY <3>1
  <2>. QED
    BY <1>6, <2>1, <2>2
<1>13. n + 1 \in 1 .. Len(z)
  BY <1>6
<1> HIDE DEF up
<1>14. ASSUME Once(z, M) PROVE Once(w, M) /\ (e \in M => ~Has(w, M))
  <2>1. Once(w, M)
    BY <1>10, <1>11, <1>14 DEF Once
  <2>2. e \in M => ~Has(w, M)
    BY <1>6, <1>10, <1>13, <1>14 DEF Once, Has
  <2>. QED
    BY <2>1, <2>2
<1>15. ASSUME Once(w, M), e \in M => ~Has(w, M) PROVE Once(z, M)
  <2> SUFFICES ASSUME NEW i \in 1 .. Len(z), NEW j \in 1 .. Len(z),
                      z[i] \in M, z[j] \in M
               PROVE  i = j
    BY DEF Once
  <2>1. \A k \in 1 .. Len(z) : z[k] \in M /\ k # n + 1 => Has(w, M)
    BY <1>10, <1>12 DEF Has
  <2>2. CASE e \in M
    BY <1>15, <2>1, <2>2
  <2>3. CASE e \notin M
    <3>1. i # n + 1 /\ j # n + 1
      BY <1>6, <2>3
    <3>2. PICK a \in 1 .. Len(w), b \in 1 .. Len(w) : i = up(a) /\ j = up(b)
      BY <1>12, <3>1
    <3>3. w[a] \in M /\ w[b] \in M
      BY <1>10, <3>2
    <3>. QED
      BY <1>15, <3>2, <3>3 DEF Once
  <2>. QED
    BY <2>2, <2>3
<1>. QED
  BY <1>9, <1>14, <1>15 DEF z, w

\* A sequence cut in two.
LEMMA CutInTwo ==
  ASSUME NEW S, NEW d \in Seq(S), NEW i \in 0 .. Len(d)
  PROVE  /\ SubSeq(d, 1, i) \in Seq(S) /\ SubSeq(d, i + 1, Len(d)) \in Seq(S)
         /\ SubSeq(d, 1, i) \o SubSeq(d, i + 1, Len(d)) = d
         /\ i = 0 => SubSeq(d, 1, i) = <<>>
<1> DEFINE a == SubSeq(d, 1, i)
           y == SubSeq(d, i + 1, Len(d))
<1>1. Len(d) \in Nat /\ i \in Nat
  OBVIOUS
<1>2. /\ a \in Seq(S) /\ Len(a) = i
      /\ \A j \in 1 .. i : a[j] = d[j]
  BY <1>1, SubSeqProperties
<1>3. /\ y \in Seq(S) /\ Len(y) = Len(d) - i
      /\ \A j \in 1 .. Len(d) - i : y[j] = d[i + j]
  BY <1>1, SubSeqProperties
<1> HIDE DEF a, y
<1>4. /\ a \o y \in Seq(S) /\ Len(a \o y) = Len(a) + Len(y)
      /\ \A j \in 1 .. Len(a) + Len(y) :
           (a \o y)[j] = IF j <= Len(a) THEN a[j] ELSE y[j - Len(a)]
  BY <1>2, <1>3, ConcatProperties
<1>5. Len(a) + Len(y) = Len(d)
  BY <1>1, <1>2, <1>3
<1>6. ASSUME NEW j \in 1 .. Len(d) PROVE (a \o y)[j] = d[j]
  <2>1. CASE j <= i
    <3>1. (a \o y)[j] = a[j] /\ j \in 1 .. i
      BY <1>1, <1>2, <1>4, <1>5, <2>1
    <3>. QED
      BY <1>2, <3>1
  <2>2. CASE ~(j <= i)
    <3>1. (a \o y)[j] = y[j - i]
      BY <1>1, <1>2, <1>4, <1>5, <2>2
    <3>2. j - i \in 1 .. Len(d) - i /\ i + (j - i) = j
      BY <1>1, <2>2
    <3>. QED
      BY <1>3, <3>1, <3>2
  <2>. QED
    BY <2>1, <2>2
<1>7. a \o y = d
  BY <1>1, <1>2, <1>3, <1>4, <1>5, <1>6, SeqEqual
<1>8. i = 0 => a = <<>>
  BY <1>2, EmptySeq
<1>. QED
  BY <1>2, <1>3, <1>7, <1>8 DEF a, y

\* Lists of messages are put together in any order.
LEMMA LineAssociative ==
  \A x, y, z \in Seq(Messages) : (x \o y) \o z = x \o (y \o z)
<1> SUFFICES ASSUME NEW x \in Seq(Messages), NEW y \in Seq(Messages),
                    NEW z \in Seq(Messages)
             PROVE  (x \o y) \o z = x \o (y \o z)
  OBVIOUS
<1>. QED
  BY ConcatAssociative

-----------------------------------------------------------------------------
(* Where a message is.                                                     *)

\* The calls that handle m, that serve its sender, and that send it.
Handlers(m)     == {c \in Calls : Runs(c, m)}
Servers(m)      == {c \in Calls : Serves(c, m)}
Senders(m)      == {c \in Calls : Sends(c, m)}
SendersTo(m, t) == {c \in Senders(m) : c.to = t}
\* The entries of a sendlist_ that hold m.
EntriesOf(m)    == {e \in Entries : e.msg = m}

\* What was posted to t.
Line(t) == msgq[t] \o dmsgq[t]

\* The places that a message can be in: the queues of a thread, its sendlist_,
\* the hands of a sender to it, of a ReceiveSends, or of a handler that was not
\* called by one.
Kinds == {"posted", "sent", "push", "serve", "run"}
Spot(m, k, t) ==
  \/ k = "posted" /\ Has(Line(t), {m})
  \/ k = "sent" /\ Has(sendlist[t], EntriesOf(m))
  \/ k = "push" /\ \E u \in Threads :
                     At(u, "Send", "push") /\ Top(u).msg = m /\ Top(u).to = t
  \/ k = "serve" /\ Has(stack[t], Servers(m))
  \/ k = "run" /\ Has(stack[t], Handlers(m)) /\ ~Has(stack[t], Servers(m))

Nowhere(m) == \A k \in Kinds, t \in Threads : ~Spot(m, k, t)

\* Some thread waits in a Send of m to t.
Target(m, t) == \E u \in Threads : Has(stack[u], SendersTo(m, t))
NoTarget(m)  == \A t \in Threads : ~Target(m, t)

\* No list and no stack holds a message twice, and a handler that was called by
\* a ReceiveSends is right above it.
Single(m) ==
  \A t \in Threads :
    /\ Once(Line(t), {m}) /\ Once(sendlist[t], EntriesOf(m))
    /\ Once(stack[t], Handlers(m)) /\ Once(stack[t], Servers(m))
    /\ Once(stack[t], Senders(m))
    /\ Has(stack[t], Servers(m)) => Under(stack[t], Handlers(m), Servers(m))

\* A message is in one place only, in none before it is used or after it was
\* answered; it has a Send exactly if it was sent, and that is the Send to the
\* thread that has it.
InOnePlace(m) ==
  /\ \A k, l \in Kinds, t, u \in Threads :
       Spot(m, k, t) /\ Spot(m, l, u) => k = l /\ t = u
  /\ m \in ready => Nowhere(m)
  /\ m > used => m \notin ready /\ Nowhere(m) /\ NoTarget(m)
  /\ \A t \in Threads :
       Spot(m, "posted", t) \/ Spot(m, "run", t) => NoTarget(m)
  /\ \A t \in Threads :
       Spot(m, "sent", t) \/ Spot(m, "push", t) \/ Spot(m, "serve", t)
         => Target(m, t)
  /\ \A t, u \in Threads : Target(m, t) /\ Target(m, u) => t = u

Placed == \A m \in Messages : Single(m) /\ InOnePlace(m)

\* The phase of a message in Messaging is the place where it is.
PhaseFacts(m) ==
  /\ m > used => Phase(m) = <<"idle">>
  /\ ~(m > used) =>
       /\ \A t \in Threads :
            /\ Spot(m, "serve", t) => Phase(m) = <<"serving", t>>
            /\ Spot(m, "run", t) => Phase(m) = <<"running", t>>
            /\ Spot(m, "posted", t) \/ Spot(m, "sent", t) \/ Spot(m, "push", t)
                 => Phase(m) = <<"waiting", t>>
            /\ Nowhere(m) /\ Target(m, t) => Phase(m) = <<"handled", t>>
       /\ Nowhere(m) /\ NoTarget(m) => Phase(m) = <<"over">>
PhasesArePlaces == \A m \in Messages : PhaseFacts(m)

\* The choice from a set with one element.
LEMMA ChooseOnly ==
  ASSUME NEW S, NEW x \in S, \A y \in S : y = x
  PROVE  S # {} /\ (CHOOSE y \in S : TRUE) = x
OBVIOUS

\* What is in a list.
LEMMA HasConcat ==
  ASSUME NEW S, NEW x \in Seq(S), NEW y \in Seq(S), NEW M
  PROVE  Has(x \o y, M) <=> Has(x, M) \/ Has(y, M)
<1>1. /\ Len(x \o y) = Len(x) + Len(y) /\ Len(x) \in Nat /\ Len(y) \in Nat
      /\ \A i \in 1 .. Len(x) + Len(y) :
           (x \o y)[i] = IF i <= Len(x) THEN x[i] ELSE y[i - Len(x)]
  BY ConcatProperties
<1>2. ASSUME NEW i \in 1 .. Len(x), x[i] \in M PROVE Has(x \o y, M)
  BY <1>1, <1>2 DEF Has
<1>3. ASSUME NEW i \in 1 .. Len(y), y[i] \in M PROVE Has(x \o y, M)
  <2>1. Len(x) + i \in 1 .. Len(x) + Len(y) /\ ~(Len(x) + i <= Len(x))
        /\ (Len(x) + i) - Len(x) = i
    BY <1>1
  <2>2. (x \o y)[Len(x) + i] = y[i]
    BY <1>1, <2>1
  <2>. QED
    BY <1>1, <1>3, <2>1, <2>2 DEF Has
<1>4. ASSUME NEW i \in 1 .. Len(x \o y), (x \o y)[i] \in M
      PROVE  Has(x, M) \/ Has(y, M)
  <2>1. CASE i <= Len(x)
    BY <1>1, <1>4, <2>1 DEF Has
  <2>2. CASE ~(i <= Len(x))
    <3>1. i - Len(x) \in 1 .. Len(y) /\ y[i - Len(x)] \in M
      BY <1>1, <1>4, <2>2
    <3>. QED
      BY <3>1 DEF Has
  <2>. QED
    BY <2>1, <2>2
<1>. QED
  BY <1>2, <1>3, <1>4 DEF Has

\* The sets of threads that Phase looks at, by the places.
LEMMA PhaseSets ==
  ASSUME TypeOK, NEW m \in Messages, NEW t \in Threads
  PROVE  /\ CallsOn(t, Serves, m) <=> Has(stack[t], Servers(m))
         /\ CallsOn(t, Runs, m) <=> Has(stack[t], Handlers(m))
         /\ WaitsAt(t, m) <=> \/ Spot(m, "posted", t) \/ Spot(m, "sent", t)
                              \/ Spot(m, "push", t)
         /\ t \in UNION {{stack[u][i].to : i \in {j \in DOMAIN stack[u] :
                                                   Sends(stack[u][j], m)}}
                          : u \in Threads} <=> Target(m, t)
<1>1. \A u \in Threads : /\ stack[u] \in Seq(Calls)
                         /\ DOMAIN stack[u] = 1 .. Len(stack[u])
                         /\ \A i \in 1 .. Len(stack[u]) : stack[u][i] \in Calls
  BY DEF TypeOK, StacksOK
<1>2. CallsOn(t, Serves, m) <=> Has(stack[t], Servers(m))
  BY <1>1 DEF CallsOn, Has, Servers
<1>3. CallsOn(t, Runs, m) <=> Has(stack[t], Handlers(m))
  BY <1>1 DEF CallsOn, Has, Handlers
<1>4. WaitsAt(t, m) <=> \/ Spot(m, "posted", t) \/ Spot(m, "sent", t)
                        \/ Spot(m, "push", t)
  <2>1. msgq[t] \in Seq(Messages) /\ dmsgq[t] \in Seq(Messages)
        /\ sendlist[t] \in Seq(Entries)
    BY DEF TypeOK, QueuesOK, Entries
  <2>2. Spot(m, "posted", t) <=> Has(msgq[t], {m}) \/ Has(dmsgq[t], {m})
    BY <2>1, HasConcat DEF Spot, Line
  <2>3. Has(msgq[t], {m}) <=> \E i \in DOMAIN msgq[t] : msgq[t][i] = m
    BY <2>1 DEF Has
  <2>4. Has(dmsgq[t], {m}) <=> \E i \in DOMAIN dmsgq[t] : dmsgq[t][i] = m
    BY <2>1 DEF Has
  <2>5. Spot(m, "sent", t)
          <=> \E i \in DOMAIN sendlist[t] : sendlist[t][i].msg = m
    <3>1. \A i \in 1 .. Len(sendlist[t]) :
            sendlist[t][i] \in EntriesOf(m) <=> sendlist[t][i].msg = m
      <4>1. \A i \in 1 .. Len(sendlist[t]) : sendlist[t][i] \in Entries
        BY <2>1, ElementOfSeq
      <4>. QED
        BY <4>1 DEF EntriesOf
    <3>2. DOMAIN sendlist[t] = 1 .. Len(sendlist[t])
      BY <2>1
    <3>. QED
      BY <3>1, <3>2 DEF Spot, Has
  <2>6. Spot(m, "push", t) <=> \E u \in Threads :
          At(u, "Send", "push") /\ Top(u).msg = m /\ Top(u).to = t
    BY DEF Spot
  <2>. QED
    BY <2>2, <2>3, <2>4, <2>5, <2>6 DEF WaitsAt
<1>5. t \in UNION {{stack[u][i].to : i \in {j \in DOMAIN stack[u] :
                                            Sends(stack[u][j], m)}}
                   : u \in Threads} <=> Target(m, t)
  <2>1. ASSUME NEW u \in Threads
        PROVE  t \in {stack[u][i].to : i \in {j \in DOMAIN stack[u] :
                                             Sends(stack[u][j], m)}}
                 <=> Has(stack[u], SendersTo(m, t))
    BY <1>1 DEF Has, SendersTo, Senders
  <2>. QED
    BY <2>1 DEF Target
<1>. QED
  BY <1>2, <1>3, <1>4, <1>5

\* So a message that is in one place has the phase of that place.
LEMMA PhasesFromPlaces == TypeOK /\ Placed => PhasesArePlaces
<1> SUFFICES ASSUME TypeOK, Placed, NEW m \in Messages
             PROVE  PhaseFacts(m)
  BY DEF PhasesArePlaces
<1> DEFINE serving == {t \in Threads : CallsOn(t, Serves, m)}
           running == {t \in Threads : CallsOn(t, Runs, m)}
           waiting == {t \in Threads : WaitsAt(t, m)}
           sending == UNION {{stack[u][i].to : i \in {j \in DOMAIN stack[u] :
                                                    Sends(stack[u][j], m)}}
                               : u \in Threads}
           in(name, ts) == <<name, CHOOSE t \in ts : TRUE>>
<1>1. Phase(m) = IF m > used          THEN <<"idle">>
                 ELSE IF serving # {} THEN in("serving", serving)
                 ELSE IF running # {} THEN in("running", running)
                 ELSE IF waiting # {} THEN in("waiting", waiting)
                 ELSE IF sending # {} THEN in("handled", sending)
                 ELSE <<"over">>
  BY Zenon DEF Phase
<1>2. serving = {t \in Threads : Has(stack[t], Servers(m))}
  BY PhaseSets
<1>3. running = {t \in Threads : Has(stack[t], Handlers(m))}
  BY PhaseSets
<1>4. waiting = {t \in Threads : \/ Spot(m, "posted", t)
                                 \/ Spot(m, "sent", t) \/ Spot(m, "push", t)}
  BY PhaseSets
<1>5. sending = {t \in Threads : Target(m, t)}
  <2>1. \A u \in Threads : \A i \in DOMAIN stack[u] :
          Sends(stack[u][i], m) => stack[u][i].to \in Threads
    <3>1. \A u \in Threads : \A i \in DOMAIN stack[u] : stack[u][i] \in Calls
      BY DEF TypeOK, StacksOK
    <3>. QED
      BY <3>1, CallFields DEF Sends
  <2>2. \A t \in sending : t \in Threads
    BY <2>1
  <2>3. \A t \in Threads : t \in sending <=> Target(m, t)
    BY PhaseSets
  <2> HIDE DEF sending
  <2>. QED
    BY <2>2, <2>3
<1> HIDE DEF serving, running, waiting, sending
<1>6. /\ \A t \in Threads : t \in serving <=> Spot(m, "serve", t)
      /\ \A t \in Threads : Spot(m, "run", t) => t \in running
      /\ \A t \in Threads : t \in running =>
           Spot(m, "run", t) \/ Spot(m, "serve", t)
  BY <1>2, <1>3 DEF Spot
<1>7. InOnePlace(m)
  BY DEF Placed
<1>8. ASSUME NEW t \in Threads, ~(m > used), Spot(m, "serve", t)
      PROVE  Phase(m) = <<"serving", t>>
  <2>1. t \in serving /\ \A u \in serving : u = t
    BY <1>2, <1>6, <1>7, <1>8 DEF InOnePlace, Kinds
  <2>. QED
    BY <1>1, <1>8, <2>1, ChooseOnly
<1>9. ASSUME NEW t \in Threads, ~(m > used), Spot(m, "run", t)
      PROVE  Phase(m) = <<"running", t>>
  <2>1. serving = {}
    BY <1>2, <1>6, <1>7, <1>9 DEF InOnePlace, Kinds
  <2>2. t \in running /\ \A u \in running : u = t
    BY <1>3, <1>6, <1>7, <1>9 DEF InOnePlace, Kinds
  <2>. QED
    BY <1>1, <1>9, <2>1, <2>2, ChooseOnly
<1>10. ASSUME NEW t \in Threads, ~(m > used),
              Spot(m, "posted", t) \/ Spot(m, "sent", t) \/ Spot(m, "push", t)
       PROVE  Phase(m) = <<"waiting", t>>
  <2>1. \A u \in Threads : ~Spot(m, "serve", u) /\ ~Spot(m, "run", u)
    BY <1>7, <1>10 DEF InOnePlace, Kinds
  <2>2. serving = {} /\ running = {}
    BY <1>2, <1>3, <1>6, <2>1
  <2>3. t \in waiting /\ \A u \in waiting : u = t
    BY <1>4, <1>7, <1>10 DEF InOnePlace, Kinds
  <2>. QED
    BY <1>1, <1>10, <2>2, <2>3, ChooseOnly
<1>11. ASSUME ~(m > used), Nowhere(m)
       PROVE  /\ \A t \in Threads : Target(m, t) => Phase(m) = <<"handled", t>>
              /\ NoTarget(m) => Phase(m) = <<"over">>
  <2>1. serving = {} /\ running = {} /\ waiting = {}
    BY <1>2, <1>3, <1>4, <1>6, <1>11 DEF Nowhere, Kinds
  <2>2. ASSUME NEW t \in Threads, Target(m, t)
        PROVE  Phase(m) = <<"handled", t>>
    <3>1. t \in sending /\ \A u \in sending : u = t
      BY <1>5, <1>7, <2>2 DEF InOnePlace
    <3>. QED
      BY <1>1, <1>11, <2>1, <3>1, ChooseOnly
  <2>3. NoTarget(m) => sending = {}
    BY <1>5 DEF NoTarget
  <2>. QED
    BY <1>1, <1>11, <2>1, <2>2, <2>3
<1>. QED
  BY <1>1, <1>8, <1>9, <1>10, <1>11 DEF PhaseFacts

-----------------------------------------------------------------------------
(* The moves of Messaging.                                                 *)

\* What m does in a step is something that Messaging lets it do.
PhaseMoves(m) ==
  Phase(m)' = Phase(m) \/ <<Phase(m), Phase(m)'>> \in Promise!Moves(m)

\* The moves, spelled out.
LEMMA MoveFacts ==
  ASSUME NEW m \in Messages, NEW t \in Threads
  PROVE  /\ << <<"idle">>, <<"waiting", t>> >> \in Promise!Moves(m)
         /\ << <<"idle">>, <<"running", t>> >> \in Promise!Moves(m)
         /\ << <<"waiting", t>>, <<"running", t>> >> \in Promise!Moves(m)
         /\ << <<"waiting", t>>, <<"serving", t>> >> \in Promise!Moves(m)
         /\ << <<"running", t>>, <<"over">> >> \in Promise!Moves(m)
         /\ << <<"serving", t>>, <<"handled", t>> >> \in Promise!Moves(m)
         /\ << <<"handled", t>>, <<"over">> >> \in Promise!Moves(m)
         /\ fStop[t] => << <<"idle">>, <<"over">> >> \in Promise!Moves(m)
         /\ fStop[t] \/ m \in cleared' =>
              /\ << <<"waiting", t>>, <<"handled", t>> >> \in Promise!Moves(m)
              /\ << <<"waiting", t>>, <<"over">> >> \in Promise!Moves(m)
<1> DEFINE All(u) == Promise!Call(u) \cup Promise!Handle(u)
                       \cup Promise!Finish(u) \cup Promise!Return(u)
           stopped == {u \in Threads : fStop[u]}
           dropped == {u \in Threads : m \in cleared'}
           A == UNION {All(u) : u \in Threads}
           B == UNION {Promise!Refuse \cup Promise!Drop(u) : u \in stopped}
           C == UNION {Promise!Drop(u) : u \in dropped}
<1>a. Promise!Moves(m) = (A \cup B) \cup C
  BY DEF Promise!Moves
<1>b. All(t) \subseteq A
  <2> HIDE DEF All
  <2>. QED
    BY Zenon
<1>c. fStop[t] => Promise!Refuse \cup Promise!Drop(t) \subseteq B
  <2>1. fStop[t] => t \in stopped
    OBVIOUS
  <2> HIDE DEF stopped
  <2>. QED
    BY <2>1, Zenon
<1>d. m \in cleared' => Promise!Drop(t) \subseteq C
  <2>1. m \in cleared' => t \in dropped
    OBVIOUS
  <2> HIDE DEF dropped
  <2>. QED
    BY <2>1, Zenon
<1> HIDE DEF A, B, C
<1>1. /\ Promise!Call(t) \subseteq Promise!Moves(m)
      /\ Promise!Handle(t) \subseteq Promise!Moves(m)
      /\ Promise!Finish(t) \subseteq Promise!Moves(m)
      /\ Promise!Return(t) \subseteq Promise!Moves(m)
      /\ fStop[t] => Promise!Refuse \cup Promise!Drop(t) \subseteq Promise!Moves(m)
      /\ m \in cleared' => Promise!Drop(t) \subseteq Promise!Moves(m)
  BY <1>a, <1>b, <1>c, <1>d
<1>2. /\ << <<"idle">>, <<"waiting", t>> >> \in Promise!Call(t)
      /\ << <<"idle">>, <<"running", t>> >> \in Promise!Call(t)
      /\ << <<"waiting", t>>, <<"running", t>> >> \in Promise!Handle(t)
      /\ << <<"waiting", t>>, <<"serving", t>> >> \in Promise!Handle(t)
      /\ << <<"running", t>>, <<"over">> >> \in Promise!Finish(t)
      /\ << <<"serving", t>>, <<"handled", t>> >> \in Promise!Finish(t)
      /\ << <<"handled", t>>, <<"over">> >> \in Promise!Return(t)
      /\ << <<"idle">>, <<"over">> >> \in Promise!Refuse
      /\ << <<"waiting", t>>, <<"handled", t>> >> \in Promise!Drop(t)
      /\ << <<"waiting", t>>, <<"over">> >> \in Promise!Drop(t)
  BY DEF Promise!Call, Promise!Handle, Promise!Finish, Promise!Return,
         Promise!Refuse, Promise!Drop, Promise!Idle, Promise!Waiting,
         Promise!Running, Promise!Serving, Promise!Handled, Promise!Over
<1>. QED
  BY <1>1, <1>2, Zenon

\* A step in which every message makes such a move is one of Messaging.
LEMMA DeliverStep ==
  ASSUME \A m \in Messages : PhaseMoves(m), fStop' = fStop,
         cleared \subseteq cleared', cleared' \subseteq Messages
  PROVE  Promise!Deliver
<1> DEFINE ph == [m \in Messages |-> Phase(m)]
<1>1. DOMAIN ph' = Messages
  OBVIOUS
<1>2. ASSUME NEW m \in Messages
      PROVE  ph[m] = ph'[m] \/ <<ph[m], ph'[m]>> \in Promise!Moves(m)
  <2>1. ph[m] = Phase(m) /\ ph'[m] = Phase(m)'
    OBVIOUS
  <2>2. PhaseMoves(m)
    OBVIOUS
  <2> HIDE DEF ph
  <2>. QED
    BY <2>1, <2>2, Zenon DEF PhaseMoves
<1>3. {t \in Threads : fStop[t]}' = {t \in Threads : fStop[t]}
  OBVIOUS
<1>. QED
  BY <1>1, <1>2, <1>3, Zenon DEF Promise!Deliver

\* Nothing happens to m.
SameView(m) ==
  /\ (m > used') <=> (m > used)
  /\ m \in ready' <=> m \in ready
  /\ \A k \in Kinds, t \in Threads : Spot(m, k, t)' <=> Spot(m, k, t)
  /\ \A t \in Threads : Target(m, t)' <=> Target(m, t)

\* What is to be shown of every step, for every message.
Kept(m) ==
  /\ Single(m)' /\ InOnePlace(m)'
  /\ PhaseFacts(m) /\ PhaseFacts(m)' => PhaseMoves(m)

\* m has the same phase after a step.
Still(m) == PhaseFacts(m) /\ PhaseFacts(m)' => Phase(m)' = Phase(m)

\* A message that nothing happens to is where it was.
LEMMA SameViewKeeps ==
  ASSUME NEW m \in Messages, InOnePlace(m), SameView(m), Single(m)'
  PROVE  Kept(m) /\ Still(m)
<1>1. /\ Nowhere(m)' <=> Nowhere(m)
      /\ NoTarget(m)' <=> NoTarget(m)
  BY DEF SameView, Nowhere, NoTarget
<1>2. InOnePlace(m)'
  BY <1>1 DEF InOnePlace, SameView, Kinds
<1>3. ASSUME PhaseFacts(m), PhaseFacts(m)' PROVE Phase(m)' = Phase(m)
  <2>1. CASE m > used
    BY <1>3, <2>1 DEF PhaseFacts, SameView
  <2>2. CASE ~(m > used) /\ \E t \in Threads : Spot(m, "serve", t)
    BY <1>3, <2>2 DEF PhaseFacts, SameView, Kinds
  <2>3. CASE ~(m > used) /\ \E t \in Threads : Spot(m, "run", t)
    BY <1>3, <2>3 DEF PhaseFacts, SameView, Kinds
  <2>4. CASE ~(m > used) /\ \E t \in Threads :
               Spot(m, "posted", t) \/ Spot(m, "sent", t) \/ Spot(m, "push", t)
    BY <1>3, <2>4 DEF PhaseFacts, SameView, Kinds
  <2>5. CASE ~(m > used) /\ Nowhere(m)
    <3>1. CASE NoTarget(m)
      BY <1>1, <1>3, <2>5, <3>1 DEF PhaseFacts, SameView
    <3>2. CASE \E t \in Threads : Target(m, t)
      BY <1>1, <1>3, <2>5, <3>2 DEF PhaseFacts, SameView
    <3>. QED
      BY <3>1, <3>2 DEF NoTarget
  <2>. QED
    BY <2>1, <2>2, <2>3, <2>4, <2>5 DEF Nowhere, Kinds
<1>. QED
  BY <1>2, <1>3 DEF Kept, PhaseMoves, Still

-----------------------------------------------------------------------------
(* Stacks and lists.                                                       *)

\* A call on top of a stack.
LEMMA OnTop ==
  ASSUME NEW S, NEW s \in Seq(S), NEW f \in S, NEW M
  PROVE  /\ Has(<<f>> \o s, M) <=> f \in M \/ Has(s, M)
         /\ Once(<<f>> \o s, M) <=> Once(s, M) /\ (f \in M => ~Has(s, M))
<1>1. <<>> \in Seq(S) /\ <<f>> \o s \in Seq(S)
  BY PushProperties
<1>2. <<>> \o (<<f>> \o s) = <<f>> \o s /\ <<>> \o s = s
  BY <1>1, ConcatEmptySeq
<1>3. /\ Has(<<>> \o (<<f>> \o s), M) <=> f \in M \/ Has(<<>> \o s, M)
      /\ Once(<<>> \o (<<f>> \o s), M) <=>
           Once(<<>> \o s, M) /\ (f \in M => ~Has(<<>> \o s, M))
  BY <1>1, Insertion
<1>. QED
  BY <1>2, <1>3, Zenon

\* A stack without its top.
LEMMA OffTop ==
  ASSUME NEW S, NEW s \in Seq(S), s # <<>>, NEW M
  PROVE  /\ Has(s, M) <=> Head(s) \in M \/ Has(Tail(s), M)
         /\ Once(s, M) <=> Once(Tail(s), M) /\ (Head(s) \in M => ~Has(Tail(s), M))
<1>1. Head(s) \in S /\ Tail(s) \in Seq(S) /\ s = <<Head(s)>> \o Tail(s)
  BY HeadTailProperties
<1> DEFINE h == Head(s)
           r == Tail(s)
<1> HIDE DEF h, r
<1>2. h \in S /\ r \in Seq(S) /\ s = <<h>> \o r
  BY <1>1 DEF h, r
<1>3. /\ Has(<<h>> \o r, M) <=> h \in M \/ Has(r, M)
      /\ Once(<<h>> \o r, M) <=> Once(r, M) /\ (h \in M => ~Has(r, M))
  BY <1>2, OnTop
<1>. QED
  BY <1>2, <1>3, Zenon DEF h, r

\* An element at the end of a list.
LEMMA AtEnd ==
  ASSUME NEW S, NEW s \in Seq(S), NEW e \in S, NEW M
  PROVE  /\ Has(Append(s, e), M) <=> e \in M \/ Has(s, M)
         /\ Once(Append(s, e), M) <=> Once(s, M) /\ (e \in M => ~Has(s, M))
<1>1. <<>> \in Seq(S) /\ <<e>> \in Seq(S)
  OBVIOUS
<1>2. <<e>> \o <<>> = <<e>> /\ s \o <<>> = s /\ Append(s, e) = s \o <<e>>
  BY <1>1, ConcatEmptySeq, AppendIsConcat
<1>3. /\ Has(s \o (<<e>> \o <<>>), M) <=> e \in M \/ Has(s \o <<>>, M)
      /\ Once(s \o (<<e>> \o <<>>), M) <=>
           Once(s \o <<>>, M) /\ (e \in M => ~Has(s \o <<>>, M))
  BY <1>1, Insertion
<1>. QED
  BY <1>2, <1>3, Zenon

\* A list, and what is left without its i-th element.
LEMMA CutOut ==
  ASSUME NEW S, NEW s \in Seq(S), NEW i \in 1 .. Len(s)
  PROVE  LET a == SubSeq(s, 1, i - 1)
             b == SubSeq(s, i + 1, Len(s))
         IN  /\ a \in Seq(S) /\ b \in Seq(S) /\ RemoveAt(s, i) = a \o b
             /\ s = a \o (<<s[i]>> \o b)
<1> DEFINE a == SubSeq(s, 1, i - 1)
           b == SubSeq(s, i + 1, Len(s))
<1>1. /\ a \in Seq(S) /\ Len(a) = i - 1
      /\ \A j \in 1 .. i - 1 : a[j] = s[j]
  BY SubSeqProperties
<1>2. /\ b \in Seq(S) /\ Len(b) = Len(s) - i
      /\ \A j \in 1 .. Len(s) - i : b[j] = s[i + j]
  BY SubSeqProperties
<1>3. RemoveAt(s, i) = a \o b /\ s[i] \in S
  BY DEF RemoveAt
<1> HIDE DEF a, b
<1>4. s = a \o (<<s[i]>> \o b)
  <2> DEFINE c == <<s[i]>> \o b
  <2>1. /\ c \in Seq(S) /\ Len(c) = Len(b) + 1 /\ c[1] = s[i]
        /\ \A j \in 2 .. Len(b) + 1 : c[j] = b[j - 1]
    BY <1>2, <1>3, PushProperties
  <2> HIDE DEF c
  <2>2. /\ a \o c \in Seq(S) /\ Len(a \o c) = Len(a) + Len(c)
        /\ \A j \in 1 .. Len(a) + Len(c) :
             (a \o c)[j] = IF j <= Len(a) THEN a[j] ELSE c[j - Len(a)]
    BY <1>1, <2>1, ConcatProperties
  <2>3. Len(a) + Len(c) = Len(s) /\ Len(s) \in Nat
    BY <1>1, <1>2, <2>1
  <2>4. ASSUME NEW j \in 1 .. Len(s) PROVE (a \o c)[j] = s[j]
    <3>1. CASE j < i
      <4>1. j <= Len(a) /\ j \in 1 .. i - 1
        BY <1>1, <3>1
      <4>. QED
        BY <1>1, <2>2, <2>3, <4>1
    <3>2. CASE j = i
      <4>1. ~(j <= Len(a)) /\ j - Len(a) = 1
        BY <1>1, <3>2
      <4>. QED
        BY <2>1, <2>2, <2>3, <3>2, <4>1
    <3>3. CASE j > i
      <4>1. /\ ~(j <= Len(a)) /\ j - Len(a) \in 2 .. Len(b) + 1
            /\ (j - Len(a)) - 1 = j - i /\ j - i \in 1 .. Len(s) - i
            /\ i + (j - i) = j
        BY <1>1, <1>2, <3>3
      <4>2. (a \o c)[j] = c[j - Len(a)]
        BY <2>2, <2>3, <4>1
      <4>3. c[j - Len(a)] = b[j - i]
        BY <2>1, <4>1
      <4>4. b[j - i] = s[j]
        BY <1>2, <4>1
      <4>. QED
        BY <4>2, <4>3, <4>4
    <3>4. j < i \/ j = i \/ j > i
      BY <2>3
    <3>. QED
      BY <3>1, <3>2, <3>3, <3>4
  <2>5. a \o c = s
    BY <2>2, <2>3, <2>4, SeqEqual
  <2>. QED
    BY <2>5 DEF c
<1>. QED
  BY <1>1, <1>2, <1>3, <1>4 DEF a, b

\* A list without its i-th element.
LEMMA TakenOut ==
  ASSUME NEW S, NEW s \in Seq(S), NEW i \in 1 .. Len(s), NEW M
  PROVE  /\ Has(s, M) <=> s[i] \in M \/ Has(RemoveAt(s, i), M)
         /\ Once(s, M) <=> /\ Once(RemoveAt(s, i), M)
                           /\ s[i] \in M => ~Has(RemoveAt(s, i), M)
<1> DEFINE a == SubSeq(s, 1, i - 1)
           b == SubSeq(s, i + 1, Len(s))
<1>1. /\ a \in Seq(S) /\ b \in Seq(S) /\ RemoveAt(s, i) = a \o b
      /\ s = a \o (<<s[i]>> \o b)
  BY CutOut
<1> HIDE DEF a, b
<1>2. s[i] \in S
  OBVIOUS
<1> DEFINE e == s[i]
<1> HIDE DEF e
<1>3. e \in S /\ s = a \o (<<e>> \o b)
  BY <1>1, <1>2, Zenon DEF e
<1>4. /\ Has(a \o (<<e>> \o b), M) <=> e \in M \/ Has(a \o b, M)
      /\ Once(a \o (<<e>> \o b), M) <=>
           Once(a \o b, M) /\ (e \in M => ~Has(a \o b, M))
  BY <1>3, Insertion
<1>5. /\ Has(s, M) <=> e \in M \/ Has(a \o b, M)
      /\ Once(s, M) <=> Once(a \o b, M) /\ (e \in M => ~Has(a \o b, M))
  BY <1>3, <1>4, Zenon
<1>. QED
  BY <1>1, <1>5, Zenon DEF e

\* What was called by a ReceiveSends stays right above it,
LEMMA UnderPush ==
  ASSUME NEW S, NEW s \in Seq(S), NEW f \in S, NEW M, NEW N,
         f \notin M, Under(s, M, N)
  PROVE  Under(<<f>> \o s, M, N)
<1> DEFINE z == <<f>> \o s
<1>1. /\ Len(z) = Len(s) + 1 /\ z[1] = f /\ Len(s) \in Nat
      /\ \A i \in 2 .. Len(s) + 1 : z[i] = s[i - 1]
  BY PushProperties
<1> HIDE DEF z
<1>2. ASSUME NEW i \in 1 .. Len(z), z[i] \in M
      PROVE  i < Len(z) /\ z[i + 1] \in N
  <2>1. i # 1
    BY <1>1, <1>2
  <2>2. i - 1 \in 1 .. Len(s) /\ i \in 2 .. Len(s) + 1
    BY <1>1, <2>1
  <2>3. s[i - 1] \in M
    BY <1>1, <1>2, <2>2
  <2>4. i - 1 < Len(s) /\ s[(i - 1) + 1] \in N
    BY <2>2, <2>3 DEF Under
  <2>5. i + 1 \in 2 .. Len(s) + 1 /\ (i + 1) - 1 = (i - 1) + 1
    BY <1>1, <2>2, <2>4
  <2>6. z[i + 1] = s[(i - 1) + 1]
    BY <1>1, <2>5
  <2>. QED
    BY <1>1, <2>2, <2>4, <2>6
<1>. QED
  BY <1>2 DEF Under, z

\* also when calls above it return;
LEMMA UnderTail ==
  ASSUME NEW S, NEW s \in Seq(S), s # <<>>, NEW M, NEW N, Under(s, M, N)
  PROVE  Under(Tail(s), M, N)
<1>1. /\ Len(Tail(s)) = Len(s) - 1 /\ Len(s) \in Nat
      /\ \A i \in 1 .. Len(s) - 1 : Tail(s)[i] = s[i + 1]
  OBVIOUS
<1>2. ASSUME NEW i \in 1 .. Len(Tail(s)), Tail(s)[i] \in M
      PROVE  i < Len(Tail(s)) /\ Tail(s)[i + 1] \in N
  <2>1. i \in 1 .. Len(s) - 1 /\ i + 1 \in 1 .. Len(s)
    BY <1>1
  <2>2. s[i + 1] \in M
    BY <1>1, <1>2, <2>1
  <2>3. i + 1 < Len(s) /\ s[(i + 1) + 1] \in N
    BY <2>1, <2>2 DEF Under
  <2>4. i + 1 \in 1 .. Len(s) - 1
    BY <2>1, <2>3
  <2>5. Tail(s)[i + 1] = s[(i + 1) + 1]
    BY <1>1, <2>4
  <2>. QED
    BY <1>1, <2>3, <2>5
<1>. QED
  BY <1>2 DEF Under

\* so there is none once the ReceiveSends is on top.
LEMMA UnderTop ==
  ASSUME NEW S, NEW s \in Seq(S), s # <<>>, NEW M, NEW N,
         Under(s, M, N), Once(s, N), Head(s) \in N
  PROVE  ~Has(s, M)
<1>1. Head(s) = s[1] /\ Len(s) \in Nat /\ 1 \in 1 .. Len(s)
  OBVIOUS
<1> SUFFICES ASSUME NEW i \in 1 .. Len(s), s[i] \in M PROVE FALSE
  BY DEF Has
<1>2. i < Len(s) /\ s[i + 1] \in N
  BY DEF Under
<1>3. i + 1 \in 1 .. Len(s) /\ i + 1 # 1
  BY <1>1, <1>2
<1>. QED
  BY <1>1, <1>2, <1>3 DEF Once

\* A ReceiveSends calls the handler of the message it has taken.
LEMMA UnderCall ==
  ASSUME NEW S, NEW s \in Seq(S), NEW g \in S, NEW f \in S, NEW M, NEW N,
         ~Has(s, M), f \in N, f \notin M
  PROVE  Under(<<g>> \o (<<f>> \o s), M, N)
<1> DEFINE q == <<f>> \o s
           z == <<g>> \o q
<1>1. /\ q \in Seq(S) /\ Len(q) = Len(s) + 1 /\ q[1] = f /\ Len(s) \in Nat
      /\ \A i \in 2 .. Len(s) + 1 : q[i] = s[i - 1]
  BY PushProperties
<1>2. ~Has(q, M)
  BY OnTop
<1> HIDE DEF q
<1>3. /\ Len(z) = Len(q) + 1 /\ z[1] = g
      /\ \A i \in 2 .. Len(q) + 1 : z[i] = q[i - 1]
  BY <1>1, PushProperties
<1> HIDE DEF z
<1>4. ASSUME NEW i \in 1 .. Len(z), z[i] \in M
      PROVE  i < Len(z) /\ z[i + 1] \in N
  <2>1. CASE i = 1
    BY <1>1, <1>3, <2>1
  <2>2. CASE i # 1
    <3>1. i \in 2 .. Len(q) + 1 /\ i - 1 \in 1 .. Len(q)
      BY <1>1, <1>3, <2>2
    <3>2. q[i - 1] \in M
      BY <1>3, <1>4, <3>1
    <3>. QED
      BY <1>2, <3>1, <3>2 DEF Has
  <2>. QED
    BY <2>1, <2>2
<1>. QED
  BY <1>4 DEF Under, z, q

-----------------------------------------------------------------------------
(* What calls do with a message.                                           *)

\* c has nothing to do with m.
Foreign(c, m) == c \notin Handlers(m) /\ c \notin Servers(m) /\ c \notin Senders(m)

\* Which calls have to do with m.
LEMMA CallKinds ==
  ASSUME NEW m \in Messages
  PROVE  /\ \A c \in Calls : c.fn \in {"Get", "Stop"} => Foreign(c, m)
         /\ Foreign(ReceiveCall(<<>>), m)
         /\ \A k \in Messages \cup {0} : k # m => Foreign(HandlerCall(k), m)
         /\ /\ HandlerCall(m) \in Handlers(m)
            /\ HandlerCall(m) \notin Servers(m) /\ HandlerCall(m) \notin Senders(m)
         /\ \A c \in Calls : c.fn = "Send" =>
              /\ c \notin Handlers(m) /\ c \notin Servers(m)
              /\ c \in Senders(m) <=> c.msg = m
         /\ \A e \in Entries :
              /\ ReceiveCall(<<e>>) \notin Handlers(m)
              /\ ReceiveCall(<<e>>) \notin Senders(m)
              /\ ReceiveCall(<<e>>) \in Servers(m) <=> e \in EntriesOf(m)
<1>1. \A c \in Calls : c.fn \in {"Get", "Stop"} => Foreign(c, m)
  BY DEF Foreign, Handlers, Servers, Senders, Runs, Serves, Sends
<1>2. Foreign(ReceiveCall(<<>>), m)
  <2>1. Range(ReceiveCall(<<>>).handling) = {}
    BY DEF ReceiveCall, Range
  <2>2. ReceiveCall(<<>>).fn = "ReceiveSends"
    BY DEF ReceiveCall
  <2>. QED
    BY <2>1, <2>2 DEF Foreign, Handlers, Servers, Senders, Runs, Serves, Sends
<1>3. \A k \in Messages \cup {0} : k # m => Foreign(HandlerCall(k), m)
  BY DEF Foreign, Handlers, Servers, Senders, Runs, Serves, Sends, HandlerCall
<1>4. /\ HandlerCall(m) \in Handlers(m)
      /\ HandlerCall(m) \notin Servers(m) /\ HandlerCall(m) \notin Senders(m)
  <2>1. HandlerCall(m) \in Calls
    BY CallTypes
  <2>. QED
    BY <2>1 DEF Handlers, Servers, Senders, Runs, Serves, Sends, HandlerCall
<1>5. \A c \in Calls : c.fn = "Send" =>
        /\ c \notin Handlers(m) /\ c \notin Servers(m)
        /\ c \in Senders(m) <=> c.msg = m
  BY DEF Handlers, Servers, Senders, Runs, Serves, Sends
<1>6. ASSUME NEW e \in Entries
      PROVE  /\ ReceiveCall(<<e>>) \notin Handlers(m)
             /\ ReceiveCall(<<e>>) \notin Senders(m)
             /\ ReceiveCall(<<e>>) \in Servers(m) <=> e \in EntriesOf(m)
  <2>1. PICK k \in Messages, u \in Threads : e = [msg |-> k, from |-> u]
    BY DEF Entries
  <2>2. ReceiveCall(<<e>>) \in Calls
    BY <2>1, CallTypes
  <2>3. ReceiveCall(<<e>>).fn = "ReceiveSends"
        /\ ReceiveCall(<<e>>).handling = <<e>>
    BY DEF ReceiveCall
  <2>4. Range(<<e>>) = {e}
    BY DEF Range
  <2>5. Serves(ReceiveCall(<<e>>), m) <=> e.msg = m
    BY <2>3, <2>4 DEF Serves
  <2>. QED
    BY <2>2, <2>3, <2>5 DEF Handlers, Servers, Senders, Runs, Sends, EntriesOf
<1>. QED
  BY <1>1, <1>2, <1>3, <1>4, <1>5, <1>6

\* As far as m is concerned, the stack z is the stack s.
Alike(s, z, m) ==
  /\ Has(z, Handlers(m)) <=> Has(s, Handlers(m))
  /\ Has(z, Servers(m)) <=> Has(s, Servers(m))
  /\ \A t \in Threads : Has(z, SendersTo(m, t)) <=> Has(s, SendersTo(m, t))
  /\ Once(s, Handlers(m)) => Once(z, Handlers(m))
  /\ Once(s, Servers(m)) => Once(z, Servers(m))
  /\ Once(s, Senders(m)) => Once(z, Senders(m))
  /\ Under(s, Handlers(m), Servers(m)) => Under(z, Handlers(m), Servers(m))

\* So it is when a call is made that has nothing to do with m,
LEMMA AlikePush ==
  ASSUME NEW m \in Messages, NEW s \in Seq(Calls), NEW f \in Calls, Foreign(f, m)
  PROVE  Alike(s, <<f>> \o s, m)
<1>1. \A M : f \notin M =>
        /\ Has(<<f>> \o s, M) <=> Has(s, M)
        /\ Once(<<f>> \o s, M) <=> Once(s, M)
  BY OnTop
<1>2. \A t \in Threads : f \notin SendersTo(m, t)
  BY DEF Foreign, SendersTo
<1>3. Under(s, Handlers(m), Servers(m))
        => Under(<<f>> \o s, Handlers(m), Servers(m))
  BY UnderPush DEF Foreign
<1>. QED
  BY <1>1, <1>2, <1>3, Zenon DEF Alike, Foreign

\* when such a call returns,
LEMMA AlikePop ==
  ASSUME NEW m \in Messages, NEW s \in Seq(Calls), s # <<>>, Foreign(Head(s), m)
  PROVE  Alike(s, Tail(s), m)
<1>1. \A M : Head(s) \notin M =>
        /\ Has(s, M) <=> Has(Tail(s), M)
        /\ Once(s, M) <=> Once(Tail(s), M)
  BY OffTop
<1>2. \A t \in Threads : Head(s) \notin SendersTo(m, t)
  BY DEF Foreign, SendersTo
<1>3. Under(s, Handlers(m), Servers(m))
        => Under(Tail(s), Handlers(m), Servers(m))
  BY UnderTail
<1>. QED
  BY <1>1, <1>2, <1>3, Zenon DEF Alike, Foreign

\* in two steps,
LEMMA AlikeTransitive ==
  ASSUME NEW m, NEW s, NEW z, NEW w, Alike(s, z, m), Alike(z, w, m)
  PROVE  Alike(s, w, m)
BY DEF Alike

\* or in none.
LEMMA AlikeSame == \A m, s : Alike(s, s, m)
BY DEF Alike

\* A call goes on and has still to do with the same messages.
LEMMA AlikeContinue ==
  ASSUME NEW m \in Messages, NEW s \in Seq(Calls), s # <<>>, NEW f \in Calls,
         \/ Foreign(Head(s), m) /\ Foreign(f, m)
         \/ /\ Head(s).fn = "Send" /\ f.fn = "Send"
            /\ f.msg = Head(s).msg /\ f.to = Head(s).to
  PROVE  Alike(s, <<f>> \o Tail(s), m)
<1>1. Tail(s) \in Seq(Calls) /\ Head(s) \in Calls
  BY HeadTailProperties
<1>2. CASE Foreign(Head(s), m) /\ Foreign(f, m)
  <2>1. Alike(s, Tail(s), m)
    BY <1>2, AlikePop
  <2>2. Alike(Tail(s), <<f>> \o Tail(s), m)
    BY <1>1, <1>2, AlikePush
  <2>. QED
    BY <2>1, <2>2, AlikeTransitive
<1>3. CASE /\ Head(s).fn = "Send" /\ f.fn = "Send"
           /\ f.msg = Head(s).msg /\ f.to = Head(s).to
  <2>1. \A M : (f \in M <=> Head(s) \in M) =>
          /\ Has(<<f>> \o Tail(s), M) <=> Has(s, M)
          /\ Once(<<f>> \o Tail(s), M) <=> Once(s, M)
    <3> SUFFICES ASSUME NEW M, f \in M <=> Head(s) \in M
                 PROVE  /\ Has(<<f>> \o Tail(s), M) <=> Has(s, M)
                        /\ Once(<<f>> \o Tail(s), M) <=> Once(s, M)
      OBVIOUS
    <3>1. /\ Has(s, M) <=> Head(s) \in M \/ Has(Tail(s), M)
          /\ Once(s, M) <=> Once(Tail(s), M)
                             /\ (Head(s) \in M => ~Has(Tail(s), M))
      BY OffTop
    <3>2. /\ Has(<<f>> \o Tail(s), M) <=> f \in M \/ Has(Tail(s), M)
          /\ Once(<<f>> \o Tail(s), M) <=> Once(Tail(s), M)
                             /\ (f \in M => ~Has(Tail(s), M))
      BY <1>1, OnTop
    <3>. QED
      BY <3>1, <3>2
  <2>2. /\ f \notin Handlers(m) /\ Head(s) \notin Handlers(m)
        /\ f \notin Servers(m) /\ Head(s) \notin Servers(m)
        /\ f \in Senders(m) <=> Head(s) \in Senders(m)
    BY <1>1, <1>3, CallKinds
  <2>3. \A t \in Threads : f \in SendersTo(m, t) <=> Head(s) \in SendersTo(m, t)
    BY <1>3, <2>2 DEF SendersTo
  <2>4. Under(s, Handlers(m), Servers(m))
          => Under(<<f>> \o Tail(s), Handlers(m), Servers(m))
    BY <1>1, <2>2, UnderTail, UnderPush
  <2>. QED
    BY <2>1, <2>2, <2>3, <2>4, Zenon DEF Alike
<1>. QED
  BY <1>2, <1>3

\* A step that leaves m alone.
LEMMA Unaffected ==
  ASSUME Placed, NEW m \in Messages,
         \A t \in Threads :
           /\ Has(Line(t)', {m}) <=> Has(Line(t), {m})
           /\ Once(Line(t), {m}) => Once(Line(t)', {m})
           /\ Has(sendlist'[t], EntriesOf(m)) <=> Has(sendlist[t], EntriesOf(m))
           /\ Once(sendlist[t], EntriesOf(m)) => Once(sendlist'[t], EntriesOf(m))
           /\ Alike(stack[t], stack'[t], m)
           /\ Spot(m, "push", t)' <=> Spot(m, "push", t),
         m \in ready' <=> m \in ready, (m > used') <=> (m > used)
  PROVE  Kept(m) /\ Still(m)
<1>1. Single(m) /\ InOnePlace(m)
  BY DEF Placed
<1>2. \A t \in Threads : Target(m, t)' <=> Target(m, t)
  BY DEF Target, Alike
<1>3. ASSUME NEW t \in Threads
      PROVE  /\ Spot(m, "posted", t)' <=> Spot(m, "posted", t)
             /\ Spot(m, "sent", t)' <=> Spot(m, "sent", t)
             /\ Spot(m, "serve", t)' <=> Spot(m, "serve", t)
             /\ Spot(m, "run", t)' <=> Spot(m, "run", t)
  BY DEF Spot, Alike
<1>4. SameView(m)
  BY <1>2, <1>3 DEF SameView, Kinds
<1>5. Single(m)'
  BY <1>1 DEF Single, Alike
<1>. QED
  BY <1>1, <1>4, <1>5, SameViewKeeps

-----------------------------------------------------------------------------
(* Steps that no message takes part in.                                    *)

\* A Send that has still to enter its message.
IsPush(c) == c.fn = "Send" /\ c.pc = "push"

\* Only the innermost call is such a Send.
LEMMA BelowNoPush ==
  ASSUME StacksOK, Nested, NEW t \in Threads, stack[t] # <<>>,
         Tail(stack[t]) # <<>>
  PROVE  ~IsPush(Head(Tail(stack[t])))
<1>1. /\ Len(stack[t]) \in Nat /\ Tail(stack[t]) \in Seq(Calls)
      /\ Len(Tail(stack[t])) = Len(stack[t]) - 1
      /\ \A i \in 1 .. Len(stack[t]) - 1 : Tail(stack[t])[i] = stack[t][i + 1]
  BY TopFacts
<1>2. 1 \in 1 .. Len(stack[t]) - 1
  BY <1>1
<1>3. Head(Tail(stack[t])) = stack[t][1 + 1]
  BY <1>1, <1>2
<1>4. Above(stack[t][1], stack[t][1 + 1])
  BY <1>2 DEF Nested, Stacked
<1>. QED
  BY <1>3, <1>4 DEF Above, IsPush

\* Who is about to enter m into a sendlist_.
LEMMA PushSpotsOf ==
  ASSUME StacksOK, NEW t \in Threads, NEW z \in Seq(Calls), NEW m \in Messages,
         stack' = [stack EXCEPT ![t] = z],
         stack[t] # <<>> /\ IsPush(Top(t)) => Top(t).msg # m,
         z # <<>> /\ IsPush(Head(z)) => Head(z).msg # m
  PROVE  \A u \in Threads : Spot(m, "push", u)' <=> Spot(m, "push", u)
<1>1. stack'[t] = z /\ \A v \in Threads \ {t} : stack'[v] = stack[v]
  BY DEF StacksOK
<1>2. At(t, "Send", "push") => Top(t).msg # m
  BY DEF IsPush, At, In
<1>3. At(t, "Send", "push")' => Top(t)'.msg # m
  BY <1>1 DEF IsPush, At, In, Top
<1>4. ASSUME NEW v \in Threads, v # t
      PROVE  /\ At(v, "Send", "push")' <=> At(v, "Send", "push")
             /\ Top(v)' = Top(v)
  BY <1>1, <1>4 DEF At, In, Top
<1>. QED
  BY <1>2, <1>3, <1>4 DEF Spot

\* In most steps t does not take part in that.
LEMMA PushSpots ==
  ASSUME StacksOK, NEW t \in Threads, NEW z \in Seq(Calls),
         stack' = [stack EXCEPT ![t] = z],
         stack[t] # <<>> => ~IsPush(Top(t)), z # <<>> => ~IsPush(Head(z))
  PROVE  \A m \in Messages, u \in Threads :
           Spot(m, "push", u)' <=> Spot(m, "push", u)
BY PushSpotsOf

\* The stack of t changes, nothing else that messages are in.
LEMMA StackKeeps ==
  ASSUME StacksOK, Placed, NEW t \in Threads, NEW z \in Seq(Calls),
         stack' = [stack EXCEPT ![t] = z],
         stack[t] # <<>> => ~IsPush(Top(t)), z # <<>> => ~IsPush(Head(z)),
         UNCHANGED <<msgq, dmsgq, sendlist>>,
         NEW m \in Messages, Alike(stack[t], z, m),
         m \in ready' <=> m \in ready, (m > used') <=> (m > used)
  PROVE  Kept(m) /\ Still(m)
<1>1. stack'[t] = z /\ \A v \in Threads \ {t} : stack'[v] = stack[v]
  BY DEF StacksOK
<1>2. \A u \in Threads : Spot(m, "push", u)' <=> Spot(m, "push", u)
  BY PushSpots
<1>3. \A u \in Threads : Alike(stack[u], stack'[u], m)
  BY <1>1, AlikeSame
<1>4. \A u \in Threads : Line(u)' = Line(u) /\ sendlist'[u] = sendlist[u]
  BY DEF Line
<1>. QED
  BY <1>2, <1>3, <1>4, Unaffected

\* A call that goes on and makes a call, on any stack.
LEMMA CallOnTop ==
  \A s \in Seq(Calls), f, g \in Calls : s # <<>> =>
    /\ <<g, f>> \o Tail(s) = <<g>> \o (<<f>> \o Tail(s))
    /\ <<g, f>> \o Tail(s) \in Seq(Calls)
    /\ Head(<<g, f>> \o Tail(s)) = g
<1> SUFFICES ASSUME NEW s \in Seq(Calls), NEW f \in Calls, NEW g \in Calls,
                    s # <<>>
             PROVE  /\ <<g, f>> \o Tail(s) = <<g>> \o (<<f>> \o Tail(s))
                    /\ <<g, f>> \o Tail(s) \in Seq(Calls)
                    /\ Head(<<g, f>> \o Tail(s)) = g
  OBVIOUS
<1>0. Tail(s) \in Seq(Calls)
  OBVIOUS
<1>1. <<g, f>> \o Tail(s) = <<g>> \o (<<f>> \o Tail(s))
  BY <1>0
<1>2. <<g, f>> \o Tail(s) \in Seq(Calls)
  BY CallProperties
<1>3. Head(<<g, f>> \o Tail(s)) = g
  BY CallProperties
<1>. QED
  BY <1>1, <1>2, <1>3, Zenon

\* The innermost call of t goes on, and may call ReceiveSends.
LEMMA GoesOn ==
  ASSUME StacksOK, Placed, NEW t \in Threads, stack[t] # <<>>, NEW f \in Calls,
         ~IsPush(Top(t)), ~IsPush(f),
         \/ Top(t).fn = "Get" /\ f.fn = "Get"
         \/ /\ Top(t).fn = "Send" /\ f.fn = "Send"
            /\ f.msg = Top(t).msg /\ f.to = Top(t).to,
         Continue(t, f) \/ Call(t, f, ReceiveCall(<<>>)),
         UNCHANGED <<msgq, dmsgq, sendlist, ready, used>>,
         NEW m \in Messages
  PROVE  Kept(m)
<1> DEFINE s == stack[t]
           z == <<f>> \o Tail(s)
           w == <<ReceiveCall(<<>>), f>> \o Tail(s)
<1>1. s \in Seq(Calls) /\ Head(s) = Top(t) /\ Top(t) \in Calls /\ s # <<>>
  BY TopFacts DEF Top
<1>2. z \in Seq(Calls) /\ Head(z) = f
  BY <1>1, ContinueProperties
<1>3. Alike(s, z, m)
  BY <1>1, CallKinds, AlikeContinue
<1>4. CASE Continue(t, f)
  <2>1. stack' = [stack EXCEPT ![t] = z]
    BY <1>4 DEF Continue
  <2> HIDE DEF z
  <2>. QED
    BY <1>2, <1>3, <2>1, StackKeeps
<1>5. CASE Call(t, f, ReceiveCall(<<>>))
  <2>1. ReceiveCall(<<>>) \in Calls /\ Foreign(ReceiveCall(<<>>), m)
        /\ ~IsPush(ReceiveCall(<<>>))
    BY CallTypes, CallKinds DEF IsPush, ReceiveCall
  <2>2. /\ w = <<ReceiveCall(<<>>)>> \o z /\ w \in Seq(Calls)
        /\ Head(w) = ReceiveCall(<<>>)
    <3> DEFINE g == ReceiveCall(<<>>)
    <3>1. g \in Calls
      BY <2>1
    <3> HIDE DEF g, s
    <3>. QED
      BY <1>1, <3>1, CallOnTop, Zenon DEF g
  <2>3. stack' = [stack EXCEPT ![t] = w]
    BY <1>5 DEF Call
  <2> HIDE DEF z, w
  <2>4. Alike(z, w, m)
    BY <1>2, <2>1, <2>2, AlikePush
  <2>5. Alike(s, w, m)
    BY <1>3, <2>4, AlikeTransitive
  <2>. QED
    BY <2>1, <2>2, <2>3, <2>5, StackKeeps
<1>. QED
  BY <1>4, <1>5

\* The message loop, as long as it finds no message.
LEMMA GetPlaces ==
  ASSUME StacksOK, Nested, Placed, NEW t \in Threads, NEW m \in Messages,
         GetReceive(t) \/ GetStop(t) \/ GetWait(t)
  PROVE  Kept(m)
<1>1. /\ stack[t] # <<>> /\ Top(t).fn = "Get" /\ ~IsPush(Top(t))
      /\ UNCHANGED <<msgq, dmsgq, sendlist, ready, used>>
  BY DEF GetReceive, GetStop, GetWait, CheckSends, At, In, IsPush
<1>2. Top(t) \in Calls /\ stack[t] \in Seq(Calls) /\ Tail(stack[t]) \in Seq(Calls)
  BY <1>1, TopFacts
<1>3. CASE GetReceive(t)
  <2>1. GetCall("queue", FALSE) \in Calls
    BY CallTypes
  <2>2. GetCall("queue", FALSE).fn = "Get" /\ ~IsPush(GetCall("queue", FALSE))
    BY DEF GetCall, IsPush
  <2>3. \/ Continue(t, GetCall("queue", FALSE))
        \/ Call(t, GetCall("queue", FALSE), ReceiveCall(<<>>))
    BY <1>3 DEF GetReceive, CheckSends
  <2>. QED
    BY <1>1, <2>1, <2>2, <2>3, GoesOn
<1>4. CASE GetWait(t)
  <2>1. GetCall("receive", FALSE) \in Calls
    BY CallTypes
  <2>2. GetCall("receive", FALSE).fn = "Get"
        /\ ~IsPush(GetCall("receive", FALSE))
    BY DEF GetCall, IsPush
  <2>3. Continue(t, GetCall("receive", FALSE))
    BY <1>4 DEF GetWait
  <2>. QED
    BY <1>1, <2>1, <2>2, <2>3, GoesOn
<1>5. CASE GetStop(t)
  <2>1. CASE Pop(t)
    <3>1. Tail(stack[t]) # <<>> => ~IsPush(Head(Tail(stack[t])))
      BY <1>1, BelowNoPush
    <3>2. Alike(stack[t], Tail(stack[t]), m)
      <4>1. Foreign(Top(t), m)
        BY <1>1, <1>2, CallKinds
      <4>. QED
        BY <1>1, <1>2, <4>1, AlikePop DEF Top
    <3>3. stack' = [stack EXCEPT ![t] = Tail(stack[t])]
      BY <2>1 DEF Pop
    <3>. QED
      BY <1>1, <1>2, <3>1, <3>2, <3>3, StackKeeps
  <2>2. CASE Continue(t, [Top(t) EXCEPT !.pc = "select"])
    <3> DEFINE f == [Top(t) EXCEPT !.pc = "select"]
    <3>1. f = GetCall("select", Top(t).timed) /\ Top(t).timed \in BOOLEAN
      BY <1>1, <1>2, CallUpdates, CallFields
    <3>2. f \in Calls
      BY <3>1, CallTypes
    <3>3. f.fn = "Get" /\ ~IsPush(f)
      BY <3>1 DEF GetCall, IsPush
    <3>4. Continue(t, f)
      BY <2>2
    <3> HIDE DEF f
    <3>. QED
      BY <1>1, <3>2, <3>3, <3>4, GoesOn
  <2>. QED
    BY <1>5, <2>1, <2>2 DEF GetStop
<1>. QED
  BY <1>3, <1>4, <1>5

\* A Send that goes on waiting.
LEMMA SendPlaces ==
  ASSUME StacksOK, Placed, NEW t \in Threads, NEW m \in Messages,
         \/ SendWake(t) \/ SendReceive(t) \/ SendWait(t)
         \/ SendLoop(t) /\ Top(t).msg \notin ready
  PROVE  Kept(m)
<1>1. /\ stack[t] # <<>> /\ Top(t).fn = "Send" /\ ~IsPush(Top(t))
      /\ UNCHANGED <<msgq, dmsgq, sendlist, ready, used>>
  BY DEF SendWake, SendReceive, SendWait, SendLoop, CheckSends, At, In, IsPush
<1>2. Top(t) \in Calls
  BY <1>1, TopFacts
<1>3. \E p \in {"loop", "receive", "select"}, b \in BOOLEAN :
        LET f == SendCall(p, Top(t).msg, Top(t).to, b)
        IN  Continue(t, f) \/ Call(t, f, ReceiveCall(<<>>))
  <2>1. /\ Top(t).waited \in BOOLEAN
        /\ \A p : [Top(t) EXCEPT !.pc = p]
                    = SendCall(p, Top(t).msg, Top(t).to, Top(t).waited)
        /\ [Top(t) EXCEPT !.pc = "loop", !.waited = TRUE]
             = SendCall("loop", Top(t).msg, Top(t).to, TRUE)
    BY <1>1, <1>2, CallUpdates, CallFields
  <2>2. CASE SendWake(t)
    <3>1. Continue(t, SendCall("loop", Top(t).msg, Top(t).to, Top(t).waited))
      BY <2>1, <2>2 DEF SendWake
    <3>. QED
      BY <2>1, <3>1
  <2>3. CASE SendReceive(t)
    <3> DEFINE f == SendCall("select", Top(t).msg, Top(t).to, Top(t).waited)
    <3>1. Continue(t, f) \/ Call(t, f, ReceiveCall(<<>>))
      BY <2>1, <2>3 DEF SendReceive, CheckSends
    <3>. QED
      BY <2>1, <3>1
  <2>4. CASE SendWait(t)
    <3>1. Continue(t, SendCall("loop", Top(t).msg, Top(t).to, TRUE))
      BY <2>1, <2>4 DEF SendWait
    <3>. QED
      BY <2>1, <3>1
  <2>5. CASE SendLoop(t) /\ Top(t).msg \notin ready
    <3>1. Continue(t, SendCall("receive", Top(t).msg, Top(t).to, Top(t).waited))
      BY <2>1, <2>5 DEF SendLoop
    <3>. QED
      BY <2>1, <3>1
  <2>. QED
    BY <2>2, <2>3, <2>4, <2>5
<1>4. PICK p \in {"loop", "receive", "select"}, b \in BOOLEAN :
        \/ Continue(t, SendCall(p, Top(t).msg, Top(t).to, b))
        \/ Call(t, SendCall(p, Top(t).msg, Top(t).to, b), ReceiveCall(<<>>))
  BY <1>3
<1> DEFINE f == SendCall(p, Top(t).msg, Top(t).to, b)
<1>5. f \in Calls
  BY <1>1, <1>2, CallFields, CallTypes
<1>6. /\ f.fn = "Send" /\ ~IsPush(f) /\ f.msg = Top(t).msg /\ f.to = Top(t).to
  BY DEF SendCall, IsPush
<1>7. Continue(t, f) \/ Call(t, f, ReceiveCall(<<>>))
  BY <1>4
<1> HIDE DEF f
<1>. QED
  BY <1>1, <1>5, <1>6, <1>7, GoesOn

\* A thread is told to quit, or time passes.
LEMMA QuitPlaces ==
  ASSUME StacksOK, Placed, NEW t \in Threads, NEW u \in Threads,
         NEW m \in Messages, Quit(t, u)
  PROVE  Kept(m) /\ Still(m)
<1>1. /\ stack[t] # <<>> /\ Top(t).fn = "OnMessage" /\ u \in Owned
      /\ UNCHANGED <<msgq, dmsgq, sendlist, ready, used>>
      /\ stack' = [stack EXCEPT ![t] = <<StopCall(u)>> \o stack[t]]
  BY DEF Quit, In, Push
<1>2. stack[t] \in Seq(Calls) /\ StopCall(u) \in Calls
  BY <1>1, TopFacts, CallTypes
<1>3. Foreign(StopCall(u), m) /\ ~IsPush(StopCall(u)) /\ ~IsPush(Top(t))
  BY <1>1, <1>2, CallKinds DEF StopCall, IsPush
<1>4. Alike(stack[t], <<StopCall(u)>> \o stack[t], m)
  BY <1>2, <1>3, AlikePush
<1>5. /\ <<StopCall(u)>> \o stack[t] \in Seq(Calls)
      /\ Head(<<StopCall(u)>> \o stack[t]) = StopCall(u)
  BY <1>2, PushProperties
<1>. QED
  BY <1>1, <1>3, <1>4, <1>5, StackKeeps

\* Nothing that messages are in changes.
LEMMA StillPlaces ==
  ASSUME Placed, NEW m \in Messages,
         UNCHANGED <<stack, msgq, dmsgq, sendlist, ready, used>>
  PROVE  Kept(m)
<1>1. \A u \in Threads : /\ Line(u)' = Line(u) /\ sendlist'[u] = sendlist[u]
                         /\ stack'[u] = stack[u]
  BY DEF Line
<1>2. \A u \in Threads : Spot(m, "push", u)' <=> Spot(m, "push", u)
  BY DEF Spot, At, In, Top
<1>3. \A u \in Threads : Alike(stack[u], stack'[u], m)
  BY <1>1, AlikeSame
<1>. QED
  BY <1>1, <1>2, <1>3, Unaffected

-----------------------------------------------------------------------------
(* New messages.                                                           *)

\* A message that is in one place after a step.
LEMMA OneSpot ==
  ASSUME NEW m \in Messages, NEW k \in Kinds, NEW t \in Threads,
         \A l \in Kinds, u \in Threads : Spot(m, l, u)' <=> l = k /\ u = t,
         m \notin ready', ~(m > used'),
         k \in {"posted", "run"} => \A u \in Threads : ~Target(m, u)',
         k \notin {"posted", "run"} =>
           Target(m, t)' /\ \A u \in Threads : Target(m, u)' => u = t
  PROVE  InOnePlace(m)'
<1>1. \A l, j \in Kinds, u, v \in Threads :
        Spot(m, l, u)' /\ Spot(m, j, v)' => l = j /\ u = v
  OBVIOUS
<1>2. \A u \in Threads :
        Spot(m, "posted", u)' \/ Spot(m, "run", u)' => k \in {"posted", "run"}
  BY DEF Kinds
<1>3. \A u \in Threads :
        Spot(m, "sent", u)' \/ Spot(m, "push", u)' \/ Spot(m, "serve", u)'
          => u = t /\ k \notin {"posted", "run"}
  BY DEF Kinds
<1>. QED
  BY <1>1, <1>2, <1>3 DEF InOnePlace, NoTarget

\* A message that is nowhere after a step.
LEMMA NoSpot ==
  ASSUME NEW m \in Messages, Nowhere(m)', ~(m > used'),
         \A t, u \in Threads : Target(m, t)' /\ Target(m, u)' => t = u
  PROVE  InOnePlace(m)'
BY DEF InOnePlace, Nowhere, Kinds

\* A message that is about to be used is not under way.
LEMMA UseFacts ==
  ASSUME FlagsOK, Placed, NEW m \in Messages, Use(m)
  PROVE  /\ m > used /\ ~(m > used') /\ m \notin ready
         /\ Nowhere(m) /\ NoTarget(m)
         /\ \A k \in Messages \ {m} : (k > used') <=> (k > used)
<1>1. used \in Nat /\ Messages \subseteq Nat
  BY ThreadAssumption DEF FlagsOK, Messages
<1>2. m > used /\ ~(m > used')
  BY <1>1 DEF Use
<1>3. m \notin ready /\ Nowhere(m) /\ NoTarget(m)
  BY <1>2 DEF Placed, InOnePlace
<1>4. \A k \in Messages \ {m} : (k > used') <=> (k > used)
  BY <1>1 DEF Use
<1>. QED
  BY <1>2, <1>3, <1>4

\* A thread that quits takes no message: it is over at once.
LEMMA RefusedPlaces ==
  ASSUME FlagsOK, Placed, NEW m \in Messages, Use(m),
         NEW u \in Threads, fStop[u],
         UNCHANGED <<stack, msgq, dmsgq, sendlist, ready>>
  PROVE  \A k \in Messages : Kept(k)
<1>1. \A v \in Threads : /\ Line(v)' = Line(v) /\ sendlist'[v] = sendlist[v]
                         /\ stack'[v] = stack[v]
  BY DEF Line
<1>2. \A k \in Messages, v \in Threads :
        Spot(k, "push", v)' <=> Spot(k, "push", v)
  BY DEF Spot, At, In, Top
<1>3. \A k \in Messages, v \in Threads : Alike(stack[v], stack'[v], k)
  BY <1>1, AlikeSame
<1>4. ASSUME NEW k \in Messages, k # m PROVE Kept(k)
  BY <1>1, <1>2, <1>3, <1>4, UseFacts, Unaffected
<1>5. Kept(m)
  <2>1. m > used /\ ~(m > used') /\ Nowhere(m) /\ NoTarget(m)
    BY UseFacts
  <2>2. \A l \in Kinds, v \in Threads : Spot(m, l, v)' <=> Spot(m, l, v)
    BY <1>1, <1>2 DEF Spot
  <2>3. \A v \in Threads : Target(m, v)' <=> Target(m, v)
    BY <1>1 DEF Target
  <2>4. Nowhere(m)' /\ NoTarget(m)'
    BY <2>1, <2>2, <2>3 DEF Nowhere, NoTarget
  <2>5. InOnePlace(m)'
    BY <2>1, <2>4, NoSpot DEF NoTarget
  <2>6. Single(m)'
    BY <1>1 DEF Placed, Single
  <2>7. PhaseFacts(m) /\ PhaseFacts(m)'
          => Phase(m) = <<"idle">> /\ Phase(m)' = <<"over">>
    BY <2>1, <2>4 DEF PhaseFacts
  <2>8. << <<"idle">>, <<"over">> >> \in Promise!Moves(m)
    BY MoveFacts
  <2>. QED
    BY <2>5, <2>6, <2>7, <2>8 DEF Kept, PhaseMoves
<1>. QED
  BY <1>4, <1>5

\* A message enters the queues of a thread.
LEMMA EnqueuedPlaces ==
  ASSUME FlagsOK, Placed, NEW m \in Messages, Use(m), NEW u \in Threads,
         NEW x \in Seq(Messages), NEW y \in Seq(Messages),
         Line(u) = x \o y, Line(u)' = x \o (<<m>> \o y),
         \A v \in Threads \ {u} : Line(v)' = Line(v),
         UNCHANGED <<stack, sendlist, ready>>
  PROVE  \A k \in Messages : Kept(k)
<1>1. \A v \in Threads : sendlist'[v] = sendlist[v] /\ stack'[v] = stack[v]
  OBVIOUS
<1>2. \A k \in Messages, v \in Threads :
        Spot(k, "push", v)' <=> Spot(k, "push", v)
  BY DEF Spot, At, In, Top
<1>3. \A k \in Messages, v \in Threads : Alike(stack[v], stack'[v], k)
  BY <1>1, AlikeSame
<1>4. \A M : /\ Has(Line(u)', M) <=> m \in M \/ Has(Line(u), M)
             /\ Once(Line(u)', M) <=>
                  Once(Line(u), M) /\ (m \in M => ~Has(Line(u), M))
  <2> SUFFICES ASSUME NEW M
               PROVE  /\ Has(Line(u)', M) <=> m \in M \/ Has(Line(u), M)
                      /\ Once(Line(u)', M) <=>
                           Once(Line(u), M) /\ (m \in M => ~Has(Line(u), M))
    OBVIOUS
  <2>1. /\ Has(x \o (<<m>> \o y), M) <=> m \in M \/ Has(x \o y, M)
        /\ Once(x \o (<<m>> \o y), M) <=>
             Once(x \o y, M) /\ (m \in M => ~Has(x \o y, M))
    BY Insertion
  <2>. QED
    BY <2>1, Zenon
<1>5. ASSUME NEW k \in Messages, k # m PROVE Kept(k)
  <2>1. m \notin {k}
    BY <1>5
  <2>2. \A v \in Threads : /\ Has(Line(v)', {k}) <=> Has(Line(v), {k})
                           /\ Once(Line(v), {k}) => Once(Line(v)', {k})
    BY <1>4, <2>1
  <2>. QED
    BY <1>1, <1>2, <1>3, <1>5, <2>2, UseFacts, Unaffected
<1>6. Kept(m)
  <2>1. m > used /\ ~(m > used') /\ m \notin ready /\ Nowhere(m) /\ NoTarget(m)
    BY UseFacts
  <2>2. \A v \in Threads : Has(Line(v)', {m}) <=> v = u
    BY <1>4, <2>1 DEF Nowhere, Spot, Kinds
  <2>3. \A l \in Kinds, v \in Threads : Spot(m, l, v)' <=> l = "posted" /\ v = u
    BY <1>1, <1>2, <2>1, <2>2 DEF Spot, Nowhere, Kinds
  <2>4. \A v \in Threads : ~Target(m, v)'
    BY <1>1, <2>1 DEF Target, NoTarget
  <2>5. InOnePlace(m)'
    BY <2>1, <2>3, <2>4, OneSpot DEF Kinds
  <2>6. Single(m)'
    <3>1. ~Has(Line(u), {m})
      BY <2>1 DEF Nowhere, Spot, Kinds
    <3>2. \A v \in Threads : Once(Line(v), {m}) => Once(Line(v)', {m})
      BY <1>4, <3>1
    <3>. QED
      BY <1>1, <3>2 DEF Placed, Single
  <2>7. PhaseFacts(m) /\ PhaseFacts(m)'
          => Phase(m) = <<"idle">> /\ Phase(m)' = <<"waiting", u>>
    BY <2>1, <2>3 DEF PhaseFacts, Kinds
  <2>8. << <<"idle">>, <<"waiting", u>> >> \in Promise!Moves(m)
    BY MoveFacts
  <2>. QED
    BY <2>5, <2>6, <2>7, <2>8 DEF Kept, PhaseMoves
<1>. QED
  BY <1>5, <1>6

\* Post, of a message to be handled at once,
LEMMA PostPlaces ==
  ASSUME TypeOK, Placed, NEW t \in Threads, NEW u \in Threads,
         NEW m \in Messages, Post(t, u, m)
  PROVE  \A k \in Messages : Kept(k)
<1>1. /\ FlagsOK /\ Use(m) /\ UNCHANGED <<stack, dmsgq, sendlist, ready>>
      /\ fStop[u] \in BOOLEAN
  BY DEF Post, TypeOK, FlagsOK
<1>2. CASE fStop[u]
  <2>1. UNCHANGED msgq
    BY <1>2 DEF Post
  <2>. QED
    BY <1>1, <1>2, <2>1, RefusedPlaces
<1>3. CASE ~fStop[u]
  <2>1. msgq \in [Threads -> Seq(Messages)] /\ dmsgq \in [Threads -> Seq(Messages)]
    BY DEF TypeOK, QueuesOK
  <2>2. /\ msgq'[u] = Append(msgq[u], m) /\ dmsgq'[u] = dmsgq[u]
        /\ \A v \in Threads \ {u} : msgq'[v] = msgq[v] /\ dmsgq'[v] = dmsgq[v]
    BY <1>1, <1>3, <2>1 DEF Post
  <2> DEFINE x == msgq[u]
             y == dmsgq[u]
  <2>3. x \in Seq(Messages) /\ y \in Seq(Messages) /\ <<m>> \in Seq(Messages)
    BY <2>1
  <2>4. Line(u) = x \o y /\ Line(u)' = Append(x, m) \o y
    BY <2>2 DEF Line
  <2>5. \A v \in Threads \ {u} : Line(v)' = Line(v)
    BY <2>2 DEF Line
  <2> HIDE DEF x, y
  <2>6. Append(x, m) \o y = x \o (<<m>> \o y)
    <3>1. Append(x, m) = x \o <<m>>
      BY <2>3, AppendIsConcat
    <3>2. (x \o <<m>>) \o y = x \o (<<m>> \o y)
      BY <2>3, LineAssociative, Zenon
    <3>. QED
      BY <3>1, <3>2, Zenon
  <2>7. Line(u)' = x \o (<<m>> \o y)
    BY <2>4, <2>6, Zenon
  <2>. QED
    BY <1>1, <2>3, <2>4, <2>5, <2>7, EnqueuedPlaces
<1>. QED
  BY <1>2, <1>3

\* or later.
LEMMA PostDelayedPlaces ==
  ASSUME TypeOK, Placed, NEW t \in Threads, NEW u \in Threads,
         NEW m \in Messages, NEW i \in 0 .. Len(dmsgq[u]),
         PostDelayed(t, u, m, i)
  PROVE  \A k \in Messages : Kept(k)
<1>1. /\ FlagsOK /\ Use(m) /\ UNCHANGED <<stack, msgq, sendlist, ready>>
      /\ fStop[u] \in BOOLEAN
  BY DEF PostDelayed, TypeOK, FlagsOK
<1>2. CASE fStop[u]
  <2>1. UNCHANGED dmsgq
    BY <1>2 DEF PostDelayed
  <2>. QED
    BY <1>1, <1>2, <2>1, RefusedPlaces
<1>3. CASE ~fStop[u]
  <2> DEFINE q == msgq[u]
             d == dmsgq[u]
             a == SubSeq(d, 1, i)
             y == SubSeq(d, i + 1, Len(d))
  <2>1. msgq \in [Threads -> Seq(Messages)] /\ dmsgq \in [Threads -> Seq(Messages)]
    BY DEF TypeOK, QueuesOK
  <2>2. /\ dmsgq'[u] = (a \o <<m>>) \o y /\ msgq'[u] = q
        /\ \A v \in Threads \ {u} : msgq'[v] = msgq[v] /\ dmsgq'[v] = dmsgq[v]
    BY <1>1, <1>3, <2>1 DEF PostDelayed
  <2>3. q \in Seq(Messages) /\ d \in Seq(Messages) /\ <<m>> \in Seq(Messages)
    BY <2>1
  <2>4. a \in Seq(Messages) /\ y \in Seq(Messages) /\ a \o y = d
    <3>1. i \in 0 .. Len(d)
      OBVIOUS
    <3> HIDE DEF d
    <3>. QED
      BY <2>3, <3>1, CutInTwo
  <2> DEFINE x == q \o a
  <2>5. Line(u) = q \o d /\ Line(u)' = q \o ((a \o <<m>>) \o y)
    BY <2>2 DEF Line
  <2>6. \A v \in Threads \ {u} : Line(v)' = Line(v)
    BY <2>2 DEF Line
  <2>7. q \in Seq(Messages) /\ a \in Seq(Messages) /\ y \in Seq(Messages)
        /\ a \o y = d
    BY <2>3, <2>4
  <2> HIDE DEF q, d, a, y
  <2>8. x \in Seq(Messages) /\ <<m>> \o y \in Seq(Messages)
    BY <2>3, <2>7, ConcatProperties
  <2>9. q \o d = x \o y
    <3>0. q \in Seq(Messages) /\ a \in Seq(Messages) /\ y \in Seq(Messages)
      BY <2>7, Zenon
    <3>1. (q \o a) \o y = q \o (a \o y)
      BY <3>0, LineAssociative, Zenon
    <3>. QED
      BY <2>7, <3>1, Zenon
  <2>10. q \o ((a \o <<m>>) \o y) = x \o (<<m>> \o y)
    <3>0. q \in Seq(Messages) /\ a \in Seq(Messages) /\ y \in Seq(Messages)
          /\ <<m>> \in Seq(Messages)
      BY <2>3, <2>7, Zenon
    <3>1. (a \o <<m>>) \o y = a \o (<<m>> \o y)
      BY <3>0, LineAssociative, Zenon
    <3>2. q \o (a \o (<<m>> \o y)) = (q \o a) \o (<<m>> \o y)
      <4> DEFINE b == <<m>> \o y
      <4>1. b \in Seq(Messages)
        BY <2>8
      <4> HIDE DEF b
      <4>2. (q \o a) \o b = q \o (a \o b)
        BY <3>0, <4>1, LineAssociative, Zenon
      <4>. QED
        BY <4>2, Zenon DEF b
    <3>. QED
      BY <3>1, <3>2, Zenon
  <2>11. Line(u) = x \o y /\ Line(u)' = x \o (<<m>> \o y)
    BY <2>5, <2>9, <2>10, Zenon
  <2> HIDE DEF x
  <2>. QED
    BY <1>1, <2>6, <2>7, <2>8, <2>11, EnqueuedPlaces
<1>. QED
  BY <1>2, <1>3

\* Lists that stay the same hold the same messages.
LEMMA SameLists ==
  ASSUME NEW m, NEW v
  PROVE  /\ Line(v)' = Line(v) =>
              (Spot(m, "posted", v)' <=> Spot(m, "posted", v))
         /\ sendlist'[v] = sendlist[v] =>
              (Spot(m, "sent", v)' <=> Spot(m, "sent", v))
BY DEF Spot

\* A handler is called for a new message.
LEMMA HandlerPlaces ==
  ASSUME TypeOK, Placed, NEW t \in Threads, NEW m \in Messages, Use(m),
         stack[t] # <<>>, ~IsPush(Top(t)), Push(t, HandlerCall(m)),
         UNCHANGED <<msgq, dmsgq, sendlist, ready>>
  PROVE  \A k \in Messages : Kept(k)
<1> DEFINE f == HandlerCall(m)
           z == <<f>> \o stack[t]
<1>1. StacksOK /\ FlagsOK
  BY DEF TypeOK
<1>2. stack[t] \in Seq(Calls) /\ f \in Calls
  BY <1>1, TopFacts, CallTypes
<1>3. z \in Seq(Calls) /\ z # <<>> /\ Head(z) = f /\ ~IsPush(f)
  BY <1>2, PushProperties DEF IsPush, HandlerCall
<1>4. stack' = [stack EXCEPT ![t] = z]
  BY DEF Push
<1>5. ASSUME NEW k \in Messages, k # m PROVE Kept(k)
  <2>1. Foreign(f, k)
    BY <1>5, CallKinds
  <2>2. Alike(stack[t], z, k)
    BY <1>2, <2>1, AlikePush
  <2>3. (k > used') <=> (k > used)
    BY <1>1, <1>5, UseFacts
  <2> HIDE DEF z, f
  <2>. QED
    BY <1>1, <1>3, <1>4, <2>2, <2>3, StackKeeps
<1>6. Kept(m)
  <2>1. m > used /\ ~(m > used') /\ m \notin ready /\ Nowhere(m) /\ NoTarget(m)
    BY <1>1, UseFacts
  <2>2. /\ f \in Handlers(m) /\ f \notin Servers(m) /\ f \notin Senders(m)
        /\ \A u \in Threads : f \notin SendersTo(m, u)
    BY CallKinds DEF SendersTo
  <2>3. \A M : /\ Has(z, M) <=> f \in M \/ Has(stack[t], M)
               /\ Once(z, M) <=> Once(stack[t], M)
                                  /\ (f \in M => ~Has(stack[t], M))
    BY <1>2, OnTop
  <2>4. stack'[t] = z /\ \A v \in Threads \ {t} : stack'[v] = stack[v]
    BY <1>1, <1>3, <1>4 DEF StacksOK
  <2>5. \A u \in Threads : Spot(m, "push", u)' <=> Spot(m, "push", u)
    BY <1>1, <1>3, <1>4, PushSpots
  <2> HIDE DEF z, f
  <2>6. \A u \in Threads : ~Has(stack[u], Handlers(m)) /\ ~Has(stack[u], Servers(m))
    BY <2>1 DEF Nowhere, Spot, Kinds
  <2>7. \A u \in Threads : /\ Has(stack'[u], Handlers(m)) <=> u = t
                           /\ ~Has(stack'[u], Servers(m))
    BY <2>2, <2>3, <2>4, <2>6
  <2>8. \A u, v \in Threads : ~Has(stack'[u], SendersTo(m, v))
    BY <2>1, <2>2, <2>3, <2>4 DEF NoTarget, Target
  <2>9. \A v \in Threads : Line(v)' = Line(v)
    BY DEF Line
  <2>10. \A l \in Kinds, v \in Threads : Spot(m, l, v)' <=> l = "run" /\ v = t
    <3>1. \A v \in Threads : /\ ~Spot(m, "posted", v)' /\ ~Spot(m, "sent", v)'
                             /\ ~Spot(m, "push", v)'
      BY <2>1, <2>5, <2>9, SameLists DEF Nowhere, Kinds
    <3>2. \A v \in Threads : /\ ~Spot(m, "serve", v)'
                             /\ Spot(m, "run", v)' <=> v = t
      BY <2>7 DEF Spot
    <3>. QED
      BY <3>1, <3>2 DEF Kinds
  <2>11. \A v \in Threads : ~Target(m, v)'
    BY <2>8 DEF Target
  <2>12. InOnePlace(m)'
    BY <2>1, <2>10, <2>11, OneSpot DEF Kinds
  <2>13. Single(m)'
    <3>1. Single(m)
      BY DEF Placed
    <3>2. /\ Once(z, Handlers(m)) /\ Once(z, Servers(m)) /\ Once(z, Senders(m))
      BY <2>2, <2>3, <2>6, <3>1 DEF Single
    <3>. QED
      BY <2>4, <2>7, <2>9, <3>1, <3>2 DEF Single
  <2>14. PhaseFacts(m) /\ PhaseFacts(m)'
           => Phase(m) = <<"idle">> /\ Phase(m)' = <<"running", t>>
    BY <2>1, <2>10 DEF PhaseFacts, Kinds
  <2>15. << <<"idle">>, <<"running", t>> >> \in Promise!Moves(m)
    BY MoveFacts
  <2>. QED
    BY <2>12, <2>13, <2>14, <2>15 DEF Kept, PhaseMoves
<1>. QED
  BY <1>5, <1>6

\* A socket event.
LEMMA SocketEventPlaces ==
  ASSUME TypeOK, Placed, NEW t \in Threads, NEW m \in Messages,
         SocketEvent(t, m)
  PROVE  \A k \in Messages : Kept(k)
<1>1. /\ stack[t] # <<>> /\ ~IsPush(Top(t)) /\ Use(m)
      /\ Push(t, HandlerCall(m)) /\ UNCHANGED <<msgq, dmsgq, sendlist, ready>>
  BY DEF SocketEvent, At, In, IsPush
<1>. QED
  BY <1>1, HandlerPlaces

\* A Send to another thread.
LEMMA SendingPlaces ==
  ASSUME TypeOK, Placed, NEW t \in Threads, NEW u \in Threads,
         NEW m \in Messages, Use(m), stack[t] # <<>>, ~IsPush(Top(t)),
         Push(t, SendCall("push", m, u, FALSE)),
         UNCHANGED <<msgq, dmsgq, sendlist, ready>>
  PROVE  \A k \in Messages : Kept(k)
<1> DEFINE f == SendCall("push", m, u, FALSE)
           z == <<f>> \o stack[t]
<1>1. StacksOK /\ FlagsOK
  BY DEF TypeOK
<1>2. stack[t] \in Seq(Calls) /\ f \in Calls
  BY <1>1, TopFacts, CallTypes
<1>3. z \in Seq(Calls) /\ z # <<>> /\ Head(z) = f
  <2> HIDE DEF f
  <2>. QED
    BY <1>2, PushProperties
<1>4. f.fn = "Send" /\ f.pc = "push" /\ f.msg = m /\ f.to = u
  BY DEF SendCall
<1>5. stack' = [stack EXCEPT ![t] = z]
  BY DEF Push
<1>6. stack'[t] = z /\ \A v \in Threads \ {t} : stack'[v] = stack[v]
  BY <1>1, <1>3, <1>5 DEF StacksOK
<1>7. \A v \in Threads : Line(v)' = Line(v) /\ sendlist'[v] = sendlist[v]
  BY DEF Line
<1>8. ASSUME NEW k \in Messages, k # m PROVE Kept(k)
  <2>1. Foreign(f, k)
    BY <1>2, <1>4, <1>8, CallKinds DEF Foreign
  <2>2. Alike(stack[t], z, k)
    BY <1>2, <2>1, AlikePush
  <2>3. (k > used') <=> (k > used)
    BY <1>1, <1>8, UseFacts
  <2> HIDE DEF z, f
  <2>4. \A v \in Threads : Alike(stack[v], stack'[v], k)
    BY <1>6, <2>2, AlikeSame
  <2>5. \A v \in Threads : Spot(k, "push", v)' <=> Spot(k, "push", v)
    BY <1>1, <1>3, <1>4, <1>5, <1>8, PushSpotsOf
  <2>. QED
    BY <1>7, <2>3, <2>4, <2>5, Unaffected
<1>9. Kept(m)
  <2>1. m > used /\ ~(m > used') /\ m \notin ready /\ Nowhere(m) /\ NoTarget(m)
    BY <1>1, UseFacts
  <2>2. /\ f \notin Handlers(m) /\ f \notin Servers(m) /\ f \in Senders(m)
        /\ \A v \in Threads : f \in SendersTo(m, v) <=> v = u
    BY <1>2, <1>4, CallKinds DEF SendersTo
  <2>3. \A M : /\ Has(z, M) <=> f \in M \/ Has(stack[t], M)
               /\ Once(z, M) <=> Once(stack[t], M)
                                  /\ (f \in M => ~Has(stack[t], M))
    BY <1>2, OnTop
  <2> HIDE DEF z, f
  <2>4. \A v \in Threads : ~Has(stack[v], Handlers(m)) /\ ~Has(stack[v], Servers(m))
    BY <2>1 DEF Nowhere, Spot, Kinds
  <2>5. \A v \in Threads : ~Has(stack'[v], Handlers(m)) /\ ~Has(stack'[v], Servers(m))
    BY <1>6, <2>2, <2>3, <2>4
  <2>6. \A v, w \in Threads : Has(stack'[v], SendersTo(m, w)) <=> v = t /\ w = u
    BY <1>6, <2>1, <2>2, <2>3 DEF NoTarget, Target
  <2>7. \A v \in Threads : Spot(m, "push", v)' <=> v = u
    <3>1. At(t, "Send", "push")' /\ Top(t)' = f
      BY <1>3, <1>4, <1>6 DEF At, In, Top
    <3>2. ASSUME NEW v \in Threads, v # t
          PROVE  ~(At(v, "Send", "push")' /\ Top(v)'.msg = m)
      <4>1. (At(v, "Send", "push")' <=> At(v, "Send", "push")) /\ Top(v)' = Top(v)
        BY <1>6, <3>2 DEF At, In, Top
      <4>2. At(v, "Send", "push") => Top(v).to \in Threads
        BY <1>1, TopFacts, CallFields DEF At, In
      <4>3. \A w \in Threads : ~Spot(m, "push", w)
        BY <2>1 DEF Nowhere, Kinds
      <4>. QED
        BY <4>1, <4>2, <4>3 DEF Spot
    <3>. QED
      BY <1>4, <3>1, <3>2 DEF Spot
  <2>8. \A l \in Kinds, v \in Threads : Spot(m, l, v)' <=> l = "push" /\ v = u
    <3>1. \A v \in Threads : ~Spot(m, "posted", v)' /\ ~Spot(m, "sent", v)'
      BY <1>7, <2>1, SameLists DEF Nowhere, Kinds
    <3>2. \A v \in Threads : ~Spot(m, "serve", v)' /\ ~Spot(m, "run", v)'
      BY <2>5 DEF Spot
    <3>. QED
      BY <2>7, <3>1, <3>2 DEF Kinds
  <2>9. \A v \in Threads : Target(m, v)' <=> v = u
    BY <2>6 DEF Target
  <2>10. InOnePlace(m)'
    BY <2>1, <2>8, <2>9, OneSpot DEF Kinds
  <2>11. Single(m)'
    <3>1. Single(m)
      BY DEF Placed
    <3>2. ~Has(stack[t], Senders(m))
      <4> SUFFICES ASSUME NEW i \in 1 .. Len(stack[t]), stack[t][i] \in Senders(m)
                   PROVE  FALSE
        BY DEF Has
      <4>1. stack[t][i] \in Calls /\ stack[t][i].fn = "Send"
        BY DEF Senders, Sends
      <4>2. stack[t][i].to \in Threads
        BY <4>1, CallFields
      <4>3. Has(stack[t], SendersTo(m, stack[t][i].to))
        BY DEF Has, SendersTo
      <4>. QED
        BY <2>1, <4>2, <4>3 DEF NoTarget, Target
    <3>3. /\ Once(z, Handlers(m)) /\ Once(z, Servers(m)) /\ Once(z, Senders(m))
      BY <2>2, <2>3, <3>1, <3>2 DEF Single
    <3>. QED
      BY <1>6, <1>7, <2>5, <3>1, <3>3 DEF Single
  <2>12. PhaseFacts(m) /\ PhaseFacts(m)'
           => Phase(m) = <<"idle">> /\ Phase(m)' = <<"waiting", u>>
    BY <2>1, <2>8 DEF PhaseFacts, Kinds
  <2>13. << <<"idle">>, <<"waiting", u>> >> \in Promise!Moves(m)
    BY MoveFacts
  <2>. QED
    BY <2>10, <2>11, <2>12, <2>13 DEF Kept, PhaseMoves
<1>. QED
  BY <1>8, <1>9

\* Send: refused, a call of the own thread, or the way through sendlist_.
LEMMA BeginSendPlaces ==
  ASSUME TypeOK, Placed, NEW t \in Threads, NEW u \in Threads,
         NEW m \in Messages, BeginSend(t, u, m)
  PROVE  \A k \in Messages : Kept(k)
<1>1. /\ FlagsOK /\ Use(m) /\ UNCHANGED <<msgq, dmsgq, sendlist, ready>>
      /\ stack[t] # <<>> /\ ~IsPush(Top(t))
  BY DEF BeginSend, TypeOK, In, IsPush
<1>2. CASE fStop[u]
  <2>1. UNCHANGED stack
    BY <1>2 DEF BeginSend
  <2>. QED
    BY <1>1, <1>2, <2>1, RefusedPlaces
<1>3. CASE ~fStop[u] /\ u = t
  <2>1. Push(t, HandlerCall(m))
    BY <1>3 DEF BeginSend
  <2>. QED
    BY <1>1, <2>1, HandlerPlaces
<1>4. CASE ~fStop[u] /\ u # t
  <2>1. Push(t, SendCall("push", m, u, FALSE))
    BY <1>4 DEF BeginSend
  <2>. QED
    BY <1>1, <2>1, SendingPlaces
<1>. QED
  BY <1>2, <1>3, <1>4

-----------------------------------------------------------------------------
(* Sent messages.                                                          *)

\* A message is sent by one thread only.
LEMMA OnlySender ==
  ASSUME StacksOK, OneSender, NEW t \in Threads, NEW u \in Threads,
         NEW m \in Messages,
         Has(stack[t], Senders(m)), Has(stack[u], Senders(m))
  PROVE  t = u
<1>1. ASSUME NEW v \in Threads, Has(stack[v], Senders(m)) PROVE Sender(v, m)
  <2>1. stack[v] \in Seq(Calls)
    BY DEF StacksOK
  <2>2. PICK i \in 1 .. Len(stack[v]) : stack[v][i] \in Senders(m)
    BY <1>1 DEF Has
  <2>3. stack[v][i] \in CallsOf(v) /\ Sends(stack[v][i], m)
    BY <2>1, <2>2 DEF CallsOf, Range, Senders
  <2>. QED
    BY <2>3 DEF Sender
<1>. QED
  BY <1>1 DEF OneSender

\* The innermost call, if it is a Send.
LEMMA TopSend ==
  ASSUME StacksOK, NEW t \in Threads, In(t, "Send")
  PROVE  /\ Top(t).msg \in Messages /\ Top(t).to \in Threads
         /\ Top(t) \in Senders(Top(t).msg)
         /\ Top(t) \in SendersTo(Top(t).msg, Top(t).to)
         /\ Has(stack[t], Senders(Top(t).msg))
         /\ Has(stack[t], SendersTo(Top(t).msg, Top(t).to))
<1>1. stack[t] # <<>> /\ Top(t).fn = "Send"
  BY DEF In
<1>2. Top(t) \in Calls /\ Top(t) = stack[t][1] /\ 1 \in 1 .. Len(stack[t])
  BY <1>1, TopFacts
<1>3. Top(t).msg \in Messages /\ Top(t).to \in Threads
  BY <1>1, <1>2, CallFields
<1>4. /\ Top(t) \in Senders(Top(t).msg)
      /\ Top(t) \in SendersTo(Top(t).msg, Top(t).to)
  BY <1>1, <1>2 DEF Senders, SendersTo, Sends
<1>. QED
  BY <1>2, <1>3, <1>4 DEF Has

\* Send enters its message into sendlist_.
LEMMA SendPushPlaces ==
  ASSUME TypeOK, OneSender, Placed, NEW t \in Threads, SendPush(t)
  PROVE  \A k \in Messages : Kept(k)
<1>0. StacksOK /\ In(t, "Send")
  BY DEF TypeOK, SendPush, At
<1> PICK m \in Messages, u \in Threads : Top(t).msg = m /\ Top(t).to = u
  BY <1>0, TopSend
<1> DEFINE e == [msg |-> m, from |-> t]
           f == SendCall("wake", m, u, Top(t).waited)
           z == <<f>> \o Tail(stack[t])
<1>1. /\ In(t, "Send") /\ Top(t).pc = "push" /\ At(t, "Send", "push")
      /\ stack[t] # <<>> /\ Top(t).fn = "Send"
      /\ UNCHANGED <<msgq, dmsgq, ready, used>>
  BY DEF SendPush, At, In
<1>2. StacksOK
  BY DEF TypeOK
<1>3. Top(t) \in Calls /\ stack[t] \in Seq(Calls)
  BY <1>1, <1>2, TopFacts
<1>4. /\ Top(t).waited \in BOOLEAN /\ [Top(t) EXCEPT !.pc = "wake"] = f
  BY <1>1, <1>3, CallUpdates, CallFields
<1>5. f \in Calls /\ f.fn = "Send" /\ f.msg = m /\ f.to = u /\ ~IsPush(f)
  BY <1>4, CallTypes DEF SendCall, IsPush
<1>6. stack' = [stack EXCEPT ![t] = z]
  BY <1>4 DEF SendPush, Continue
<1>7. sendlist' = [sendlist EXCEPT ![u] = Append(@, e)]
  BY DEF SendPush
<1>8. e \in Entries /\ e.msg = m
  BY <1>4 DEF Entries
<1>9. sendlist \in [Threads -> Seq(Entries)]
  BY DEF TypeOK, QueuesOK, Entries
<1> HIDE DEF f, e
<1>10. z \in Seq(Calls) /\ z # <<>> /\ Head(z) = f
  BY <1>1, <1>3, <1>5, ContinueProperties
<1>11. \A k \in Messages : Alike(stack[t], z, k)
  <2>1. Head(stack[t]) = Top(t)
    BY DEF Top
  <2>. QED
    BY <1>1, <1>3, <1>5, <2>1, AlikeContinue
<1> HIDE DEF z
<1>12. stack'[t] = z /\ \A v \in Threads \ {t} : stack'[v] = stack[v]
  BY <1>2, <1>6, <1>10 DEF StacksOK
<1>13. \A k \in Messages, v \in Threads : Alike(stack[v], stack'[v], k)
  BY <1>11, <1>12, AlikeSame
<1>14. \A v \in Threads : Line(v)' = Line(v)
  BY <1>1 DEF Line
<1>15. /\ sendlist'[u] = Append(sendlist[u], e) /\ sendlist[u] \in Seq(Entries)
       /\ \A v \in Threads \ {u} : sendlist'[v] = sendlist[v]
  BY <1>4, <1>7, <1>9
<1>16. \A M : /\ Has(sendlist'[u], M) <=> e \in M \/ Has(sendlist[u], M)
              /\ Once(sendlist'[u], M) <=>
                   Once(sendlist[u], M) /\ (e \in M => ~Has(sendlist[u], M))
  <2> DEFINE q == sendlist[u]
  <2>1. q \in Seq(Entries) /\ sendlist'[u] = Append(q, e)
    BY <1>15
  <2> HIDE DEF q
  <2>2. \A M : /\ Has(Append(q, e), M) <=> e \in M \/ Has(q, M)
               /\ Once(Append(q, e), M) <=> Once(q, M) /\ (e \in M => ~Has(q, M))
    BY <1>8, <2>1, AtEnd
  <2>. QED
    BY <2>1, <2>2, Zenon DEF q
<1>17. ASSUME NEW k \in Messages, k # m PROVE Kept(k)
  <2>1. e \notin EntriesOf(k)
    BY <1>8, <1>17 DEF EntriesOf
  <2>2. \A v \in Threads : Spot(k, "push", v)' <=> Spot(k, "push", v)
    BY <1>2, <1>5, <1>6, <1>10, <1>17, PushSpotsOf
  <2>3. \A v \in Threads :
          /\ Has(sendlist'[v], EntriesOf(k)) <=> Has(sendlist[v], EntriesOf(k))
          /\ Once(sendlist[v], EntriesOf(k)) => Once(sendlist'[v], EntriesOf(k))
    BY <1>15, <1>16, <2>1
  <2>. QED
    BY <1>1, <1>13, <1>14, <2>2, <2>3, Unaffected
<1>18. Kept(m)
  <2>1. Spot(m, "push", u)
    BY <1>1, <1>4 DEF Spot
  <2>2. Single(m) /\ InOnePlace(m)
    BY <1>4 DEF Placed
  <2>3. \A l \in Kinds, v \in Threads : Spot(m, l, v) => l = "push" /\ v = u
    BY <1>4, <2>1, <2>2 DEF InOnePlace, Kinds
  <2>4. m \notin ready /\ ~(m > used)
    BY <1>4, <2>1, <2>2 DEF InOnePlace, Nowhere, Kinds
  <2>5. \A v \in Threads : Target(m, v) <=> v = u
    BY <1>4, <2>1, <2>2 DEF InOnePlace
  <2>6. \A v \in Threads : Target(m, v)' <=> Target(m, v)
    BY <1>4, <1>13 DEF Target, Alike
  <2>7. \A v \in Threads : ~Spot(m, "push", v)'
    <3>1. ~At(t, "Send", "push")'
      BY <1>5, <1>10, <1>12 DEF At, In, Top, IsPush
    <3>2. ASSUME NEW v \in Threads, v # t
          PROVE  ~(At(v, "Send", "push")' /\ Top(v)'.msg = m)
      <4>1. (At(v, "Send", "push")' <=> At(v, "Send", "push")) /\ Top(v)' = Top(v)
        BY <1>12, <3>2 DEF At, In, Top
      <4>2. Has(stack[t], Senders(m))
        BY <1>1, <1>2, TopSend
      <4>3. At(v, "Send", "push") => Has(stack[v], Senders(Top(v).msg))
        BY <1>2, TopSend DEF At
      <4>. QED
        BY <1>2, <1>4, <3>2, <4>1, <4>2, <4>3, OnlySender
    <3>. QED
      BY <3>1, <3>2 DEF Spot
  <2>8. \A v \in Threads : Spot(m, "sent", v)' <=> v = u
    <3>1. e \in EntriesOf(m)
      BY <1>8 DEF EntriesOf
    <3>2. \A v \in Threads : ~Spot(m, "sent", v)
      BY <2>3 DEF Kinds
    <3>3. Spot(m, "sent", u)'
      BY <1>16, <3>1 DEF Spot
    <3>4. \A v \in Threads : v # u => ~Spot(m, "sent", v)'
      BY <1>15, <3>2, SameLists
    <3>. QED
      BY <3>3, <3>4
  <2>9. \A l \in Kinds, v \in Threads : Spot(m, l, v)' <=> l = "sent" /\ v = u
    <3>1. \A v \in Threads : ~Spot(m, "posted", v)'
      BY <1>14, <2>3, SameLists DEF Kinds
    <3>2. \A v \in Threads : /\ Spot(m, "serve", v)' <=> Spot(m, "serve", v)
                             /\ Spot(m, "run", v)' <=> Spot(m, "run", v)
      BY <1>4, <1>13 DEF Spot, Alike
    <3>3. \A v \in Threads : ~Spot(m, "serve", v)' /\ ~Spot(m, "run", v)'
      BY <2>3, <3>2 DEF Kinds
    <3>. QED
      BY <2>7, <2>8, <3>1, <3>3 DEF Kinds
  <2>10. InOnePlace(m)'
    BY <1>1, <1>4, <2>4, <2>5, <2>6, <2>9, OneSpot DEF Kinds
  <2>11. Single(m)'
    <3>1. ~Has(sendlist[u], EntriesOf(m))
      BY <1>4, <2>3 DEF Spot, Kinds
    <3>2. \A v \in Threads :
            Once(sendlist[v], EntriesOf(m)) => Once(sendlist'[v], EntriesOf(m))
      BY <1>15, <1>16, <3>1
    <3>. QED
      BY <1>4, <1>13, <1>14, <2>2, <3>2 DEF Single, Alike
  <2>12. PhaseFacts(m) /\ PhaseFacts(m)'
           => Phase(m) = <<"waiting", u>> /\ Phase(m)' = <<"waiting", u>>
    BY <1>1, <1>4, <2>1, <2>4, <2>9 DEF PhaseFacts, Kinds
  <2>. QED
    BY <2>10, <2>11, <2>12 DEF Kept, PhaseMoves
<1>. QED
  BY <1>17, <1>18

-----------------------------------------------------------------------------
(* Messages are handled.                                                   *)

\* A call that goes on and makes another one, neither of which has to do with m.
LEMMA AlikeCall ==
  ASSUME NEW m \in Messages, NEW s \in Seq(Calls), s # <<>>, NEW f \in Calls,
         NEW g \in Calls, Foreign(Head(s), m), Foreign(f, m), Foreign(g, m)
  PROVE  Alike(s, <<g>> \o (<<f>> \o Tail(s)), m)
<1> DEFINE z == <<f>> \o Tail(s)
<1>1. Alike(s, z, m)
  BY AlikeContinue
<1>2. z \in Seq(Calls)
  BY ContinueProperties
<1> HIDE DEF z
<1>3. Alike(z, <<g>> \o z, m)
  BY <1>2, AlikePush
<1>4. Alike(s, <<g>> \o z, m)
  BY <1>1, <1>3, AlikeTransitive
<1>. QED
  BY <1>4 DEF z

\* The queues of a thread, when the messages that are due have joined.
LEMMA DueLine ==
  ASSUME QueuesOK, NEW t \in Threads
  PROVE  LET q    == msgq[t] \o SubSeq(dmsgq[t], 1, due[t])
             rest == SubSeq(dmsgq[t], due[t] + 1, Len(dmsgq[t]))
         IN  /\ q \in Seq(Messages) /\ rest \in Seq(Messages)
             /\ Line(t) = q \o rest
             /\ q = <<>> => msgq[t] = <<>> /\ rest = dmsgq[t]
<1> DEFINE p == msgq[t]
           d == dmsgq[t]
           a == SubSeq(d, 1, due[t])
           rest == SubSeq(d, due[t] + 1, Len(d))
<1>1. /\ p \in Seq(Messages) /\ d \in Seq(Messages)
      /\ due[t] \in 0 .. Len(d)
  BY DEF QueuesOK
<1>2. a \in Seq(Messages) /\ rest \in Seq(Messages) /\ a \o rest = d
  <2> DEFINE i == due[t]
  <2>1. i \in 0 .. Len(d)
    BY <1>1
  <2> HIDE DEF d, i
  <2>2. /\ SubSeq(d, 1, i) \in Seq(Messages)
        /\ SubSeq(d, i + 1, Len(d)) \in Seq(Messages)
        /\ SubSeq(d, 1, i) \o SubSeq(d, i + 1, Len(d)) = d
    BY <1>1, <2>1, CutInTwo
  <2>. QED
    BY <2>2 DEF i
<1>3. Line(t) = p \o d
  BY DEF Line
<1> DEFINE q == p \o a
<1> HIDE DEF p, d, a, rest
<1>4. q \in Seq(Messages)
  BY <1>1, <1>2, ConcatProperties
<1>5. Line(t) = q \o rest
  <2>0. p \in Seq(Messages) /\ a \in Seq(Messages) /\ rest \in Seq(Messages)
    BY <1>1, <1>2, Zenon
  <2>1. (p \o a) \o rest = p \o (a \o rest)
    BY <2>0, LineAssociative, Zenon
  <2>. QED
    BY <1>2, <1>3, <2>1, Zenon DEF q
<1>6. q = <<>> => p = <<>> /\ rest = d
  <2> SUFFICES ASSUME q = <<>> PROVE p = <<>> /\ rest = d
    OBVIOUS
  <2>1. Len(p \o a) = Len(p) + Len(a) /\ Len(p) \in Nat /\ Len(a) \in Nat
    BY <1>1, <1>2, ConcatProperties
  <2>2. Len(p \o a) = 0
    BY DEF q
  <2>3. Len(p) = 0 /\ Len(a) = 0
    BY <2>1, <2>2
  <2>4. p = <<>> /\ a = <<>>
    BY <1>1, <1>2, <2>3, EmptySeq
  <2>5. <<>> \o rest = rest
    BY <1>2, ConcatEmptySeq
  <2>. QED
    BY <1>2, <2>4, <2>5, Zenon
<1>. QED
  BY <1>2, <1>4, <1>5, <1>6 DEF p, d, a, rest, q

\* The loop takes the first message.
LEMMA TakePlaces ==
  ASSUME TypeOK, Placed, NEW t \in Threads, NEW m \in Messages,
         stack[t] # <<>>, Top(t).fn = "Get",
         Call(t, GetCall("receive", FALSE), HandlerCall(m)),
         Line(t)' \in Seq(Messages), Line(t) = <<m>> \o Line(t)',
         \A v \in Threads \ {t} : Line(v)' = Line(v),
         UNCHANGED <<sendlist, ready, used>>
  PROVE  \A k \in Messages : Kept(k)
<1> DEFINE f == GetCall("receive", FALSE)
           g == HandlerCall(m)
           s == stack[t]
           y == <<f>> \o Tail(s)
           z == <<g>> \o y
<1>1. StacksOK
  BY DEF TypeOK
<1>2. /\ s \in Seq(Calls) /\ s # <<>> /\ Head(s) = Top(t)
      /\ Head(s) \in Calls /\ Head(s).fn = "Get"
  BY <1>1, TopFacts DEF Top
<1>3. f \in Calls /\ g \in Calls /\ f.fn = "Get" /\ ~IsPush(g) /\ ~IsPush(Top(t))
  BY CallTypes DEF GetCall, HandlerCall, IsPush
<1>4. \A k \in Messages : Foreign(Head(s), k) /\ Foreign(f, k)
  <2> HIDE DEF f, s
  <2>. QED
    BY <1>2, <1>3, CallKinds
<1>5. stack' = [stack EXCEPT ![t] = z] /\ z \in Seq(Calls) /\ Head(z) = g
      /\ y \in Seq(Calls)
  <2>1. stack' = [stack EXCEPT ![t] = <<g, f>> \o Tail(stack[t])]
    BY DEF Call
  <2>2. y \in Seq(Calls)
    BY <1>2, <1>3, ContinueProperties
  <2> HIDE DEF f, g, s
  <2>3. /\ <<g, f>> \o Tail(s) = <<g>> \o (<<f>> \o Tail(s))
        /\ <<g, f>> \o Tail(s) \in Seq(Calls)
        /\ Head(<<g, f>> \o Tail(s)) = g
    BY <1>2, <1>3, CallOnTop, Zenon
  <2>4. stack' = [stack EXCEPT ![t] = <<g, f>> \o Tail(s)]
    BY <2>1 DEF s
  <2>. QED
    BY <2>2, <2>3, <2>4, Zenon
<1>6. \A k \in Messages : Alike(s, y, k)
  BY <1>2, <1>3, <1>4, AlikeContinue
<1>7. \A M : /\ Has(z, M) <=> g \in M \/ Has(y, M)
             /\ Once(z, M) <=> Once(y, M) /\ (g \in M => ~Has(y, M))
  <2> HIDE DEF y, g
  <2>. QED
    BY <1>3, <1>5, OnTop
<1>8. ASSUME NEW k \in Messages, k # m PROVE Alike(s, z, k)
  <2>1. Foreign(g, k)
    BY <1>8, CallKinds
  <2> HIDE DEF y, g
  <2>2. Alike(y, z, k)
    BY <1>3, <1>5, <2>1, AlikePush
  <2>. QED
    BY <1>6, <2>2, AlikeTransitive
<1>9. /\ g \in Handlers(m) /\ g \notin Servers(m) /\ g \notin Senders(m)
      /\ \A v \in Threads : g \notin SendersTo(m, v)
  BY CallKinds DEF SendersTo
<1> HIDE DEF f, g, y, z
<1>10. stack'[t] = z /\ \A v \in Threads \ {t} : stack'[v] = stack[v]
  BY <1>1, <1>5 DEF StacksOK
<1>11. \A k \in Messages, v \in Threads : Spot(k, "push", v)' <=> Spot(k, "push", v)
  BY <1>1, <1>3, <1>5, PushSpots
<1>12. \A M : /\ Has(Line(t), M) <=> m \in M \/ Has(Line(t)', M)
              /\ Once(Line(t), M) <=>
                   Once(Line(t)', M) /\ (m \in M => ~Has(Line(t)', M))
  <2> DEFINE n == Line(t)'
  <2>1. n \in Seq(Messages) /\ Line(t) = <<m>> \o n
    OBVIOUS
  <2> HIDE DEF n
  <2>2. \A M : /\ Has(<<m>> \o n, M) <=> m \in M \/ Has(n, M)
               /\ Once(<<m>> \o n, M) <=> Once(n, M) /\ (m \in M => ~Has(n, M))
    BY <2>1, OnTop
  <2>. QED
    BY <2>1, <2>2, Zenon DEF n
<1>13. ASSUME NEW k \in Messages, k # m PROVE Kept(k)
  <2>1. m \notin {k}
    BY <1>13
  <2>2. \A v \in Threads : /\ Has(Line(v)', {k}) <=> Has(Line(v), {k})
                           /\ Once(Line(v), {k}) => Once(Line(v)', {k})
    BY <1>12, <2>1
  <2>3. \A v \in Threads : Alike(stack[v], stack'[v], k)
    BY <1>8, <1>10, <1>13, AlikeSame
  <2>. QED
    BY <1>11, <2>2, <2>3, Unaffected
<1>14. Kept(m)
  <2>1. m \in {m}
    OBVIOUS
  <2>2. Spot(m, "posted", t)
    BY <1>12, <2>1 DEF Spot
  <2>3. Single(m) /\ InOnePlace(m)
    BY DEF Placed
  <2>4. \A l \in Kinds, v \in Threads : Spot(m, l, v) => l = "posted" /\ v = t
    BY <2>2, <2>3 DEF InOnePlace, Kinds
  <2>5. m \notin ready /\ ~(m > used) /\ NoTarget(m)
    BY <2>2, <2>3 DEF InOnePlace, Nowhere, Kinds
  <2>6. \A v \in Threads : ~Has(stack[v], Handlers(m)) /\ ~Has(stack[v], Servers(m))
    BY <2>4 DEF Spot, Kinds
  <2>7. \A M : g \notin M /\ (Has(y, M) <=> Has(s, M)) => (Has(z, M) <=> Has(s, M))
    BY <1>7
  <2>8. /\ ~Has(y, Handlers(m)) /\ ~Has(z, Servers(m)) /\ Has(z, Handlers(m))
        /\ \A v \in Threads : Has(z, SendersTo(m, v)) <=> Has(s, SendersTo(m, v))
    BY <1>6, <1>7, <1>9, <2>6 DEF Alike
  <2>9. \A v \in Threads : /\ Has(stack'[v], Handlers(m)) <=> v = t
                           /\ ~Has(stack'[v], Servers(m))
    BY <1>10, <2>6, <2>8
  <2>10. \A v \in Threads : ~Target(m, v)'
    BY <1>10, <2>5, <2>8 DEF Target, NoTarget
  <2>11. \A v \in Threads : ~Spot(m, "posted", v)'
    <3>1. ~Has(Line(t)', {m})
      BY <1>12, <2>1, <2>3 DEF Single
    <3>2. \A v \in Threads : v # t => ~Spot(m, "posted", v)
      BY <2>4 DEF Kinds
    <3>3. \A v \in Threads : v # t => ~Spot(m, "posted", v)'
      BY <3>2, SameLists
    <3>4. ~Spot(m, "posted", t)'
      BY <3>1 DEF Spot
    <3>. QED
      BY <3>3, <3>4
  <2>12. \A l \in Kinds, v \in Threads : Spot(m, l, v)' <=> l = "run" /\ v = t
    <3>1. \A v \in Threads : ~Spot(m, "sent", v)' /\ ~Spot(m, "push", v)'
      BY <1>11, <2>4, SameLists DEF Kinds
    <3>2. \A v \in Threads : /\ ~Spot(m, "serve", v)'
                             /\ Spot(m, "run", v)' <=> v = t
      BY <2>9 DEF Spot
    <3>. QED
      BY <2>11, <3>1, <3>2 DEF Kinds
  <2>13. InOnePlace(m)'
    BY <2>5, <2>10, <2>12, OneSpot DEF Kinds
  <2>14. Single(m)'
    <3>1. Once(y, Handlers(m)) /\ Once(y, Servers(m)) /\ Once(y, Senders(m))
      BY <1>6, <2>3 DEF Alike, Single
    <3>2. /\ Once(z, Handlers(m)) /\ Once(z, Servers(m)) /\ Once(z, Senders(m))
      BY <1>7, <1>9, <2>8, <3>1
    <3>3. \A v \in Threads : Once(Line(v)', {m})
      BY <1>12, <2>3 DEF Single
    <3>. QED
      BY <1>10, <2>3, <2>9, <3>2, <3>3 DEF Single
  <2>15. PhaseFacts(m) /\ PhaseFacts(m)'
           => Phase(m) = <<"waiting", t>> /\ Phase(m)' = <<"running", t>>
    BY <2>2, <2>5, <2>12 DEF PhaseFacts, Kinds
  <2>16. << <<"waiting", t>>, <<"running", t>> >> \in Promise!Moves(m)
    BY MoveFacts
  <2>. QED
    BY <2>13, <2>14, <2>15, <2>16 DEF Kept, PhaseMoves
<1>. QED
  BY <1>13, <1>14

\* Get looks into its queues.
LEMMA GetQueuePlaces ==
  ASSUME TypeOK, Placed, NEW t \in Threads, GetQueue(t)
  PROVE  \A k \in Messages : Kept(k)
<1> DEFINE q    == msgq[t] \o SubSeq(dmsgq[t], 1, due[t])
           rest == SubSeq(dmsgq[t], due[t] + 1, Len(dmsgq[t]))
<1>1. /\ stack[t] # <<>> /\ Top(t).fn = "Get" /\ ~IsPush(Top(t))
      /\ UNCHANGED <<sendlist, ready, used>>
      /\ dmsgq' = [dmsgq EXCEPT ![t] = rest]
  BY DEF GetQueue, At, In, IsPush
<1>2. StacksOK /\ QueuesOK
  BY DEF TypeOK
<1>3. /\ q \in Seq(Messages) /\ rest \in Seq(Messages) /\ Line(t) = q \o rest
      /\ q = <<>> => msgq[t] = <<>> /\ rest = dmsgq[t]
  BY <1>2, DueLine
<1>4. CASE q = <<>>
  <2>1. UNCHANGED msgq /\ \E b \in BOOLEAN : Continue(t, GetCall("stop", b))
    BY <1>4 DEF GetQueue
  <2>2. dmsgq' = dmsgq
    <3> HIDE DEF rest
    <3>. QED
      BY <1>1, <1>2, <1>3, <1>4 DEF QueuesOK
  <2>3. PICK b \in BOOLEAN : Continue(t, GetCall("stop", b))
    BY <2>1
  <2>4. GetCall("stop", b) \in Calls
    BY CallTypes
  <2>5. GetCall("stop", b).fn = "Get" /\ ~IsPush(GetCall("stop", b))
    BY DEF GetCall, IsPush
  <2>. QED
    BY <1>1, <1>2, <2>1, <2>2, <2>3, <2>4, <2>5, GoesOn
<1>5. CASE q # <<>>
  <2>1. /\ Call(t, GetCall("receive", FALSE), HandlerCall(Head(q)))
        /\ msgq' = [msgq EXCEPT ![t] = Tail(q)]
    BY <1>5 DEF GetQueue
  <2> HIDE DEF q, rest
  <2>2. Head(q) \in Messages /\ Tail(q) \in Seq(Messages)
        /\ q = <<Head(q)>> \o Tail(q)
    BY <1>3, <1>5, HeadTailProperties
  <2>3. /\ msgq'[t] = Tail(q) /\ dmsgq'[t] = rest
        /\ \A v \in Threads \ {t} : msgq'[v] = msgq[v] /\ dmsgq'[v] = dmsgq[v]
    BY <1>1, <1>2, <1>3, <2>1, <2>2 DEF QueuesOK
  <2>4. Line(t)' = Tail(q) \o rest
    BY <2>3 DEF Line
  <2>5. \A v \in Threads \ {t} : Line(v)' = Line(v)
    BY <2>3 DEF Line
  <2> DEFINE m == Head(q)
             y == Tail(q)
  <2>6. m \in Messages /\ <<m>> \in Seq(Messages) /\ y \in Seq(Messages)
    BY <2>2
  <2>7. q = <<m>> \o y /\ Line(t)' = y \o rest
    BY <2>2, <2>4
  <2>8. Call(t, GetCall("receive", FALSE), HandlerCall(m))
    BY <2>1
  <2> HIDE DEF m, y
  <2>9. y \o rest \in Seq(Messages)
    BY <1>3, <2>6, ConcatProperties
  <2>10. (<<m>> \o y) \o rest = <<m>> \o (y \o rest)
    BY <1>3, <2>6, LineAssociative, Zenon
  <2>11. Line(t) = <<m>> \o Line(t)' /\ Line(t)' \in Seq(Messages)
    BY <1>3, <2>7, <2>9, <2>10, Zenon
  <2>. QED
    BY <1>1, <2>5, <2>6, <2>8, <2>11, TakePlaces
<1>. QED
  BY <1>4, <1>5

\* A handler returns.
LEMMA ReturnPlaces ==
  ASSUME TypeOK, Nested, Placed, NEW t \in Threads, Return(t)
  PROVE  \A k \in Messages : Kept(k)
<1> DEFINE s == stack[t]
           z == Tail(s)
<1>1. /\ stack[t] # <<>> /\ Top(t).fn = "OnMessage" /\ ~IsPush(Top(t))
      /\ UNCHANGED <<msgq, dmsgq, sendlist, ready, used>>
      /\ stack' = [stack EXCEPT ![t] = z]
  BY DEF Return, In, IsPush, Pop
<1>2. StacksOK
  BY DEF TypeOK
<1>3. /\ s \in Seq(Calls) /\ s # <<>> /\ z \in Seq(Calls) /\ Head(s) = Top(t)
      /\ Top(t) \in Calls
  BY <1>1, <1>2, TopFacts DEF Top
<1>4. z # <<>> => ~IsPush(Head(z))
  BY <1>1, <1>2, BelowNoPush
<1>5. ASSUME NEW k \in Messages, Top(t).msg # k PROVE Kept(k)
  <2>1. Foreign(Head(s), k)
    BY <1>1, <1>3, <1>5 DEF Foreign, Handlers, Servers, Senders, Runs, Serves, Sends
  <2>2. Alike(s, z, k)
    <3> HIDE DEF s
    <3>. QED
      BY <1>3, <2>1, AlikePop
  <2> HIDE DEF z
  <2>. QED
    BY <1>1, <1>2, <1>3, <1>4, <2>2, StackKeeps
<1>6. ASSUME NEW m \in Messages, Top(t).msg = m PROVE Kept(m)
  <2>1. /\ Head(s) \in Handlers(m) /\ Head(s) \notin Servers(m)
        /\ Head(s) \notin Senders(m)
        /\ \A v \in Threads : Head(s) \notin SendersTo(m, v)
    BY <1>1, <1>3, <1>6
    DEF Handlers, Servers, Senders, SendersTo, Runs, Serves, Sends
  <2>2. \A M : /\ Has(s, M) <=> Head(s) \in M \/ Has(z, M)
               /\ Once(s, M) <=> Once(z, M) /\ (Head(s) \in M => ~Has(z, M))
    <3> HIDE DEF s
    <3>. QED
      BY <1>3, OffTop
  <2>3. Under(s, Handlers(m), Servers(m)) => Under(z, Handlers(m), Servers(m))
    <3> HIDE DEF s
    <3>. QED
      BY <1>3, UnderTail
  <2>4. Single(m) /\ InOnePlace(m)
    BY DEF Placed
  <2>5. stack'[t] = z /\ \A v \in Threads \ {t} : stack'[v] = stack[v]
    BY <1>1, <1>2, <1>3 DEF StacksOK
  <2>6. \A v \in Threads : Spot(m, "push", v)' <=> Spot(m, "push", v)
    <3> HIDE DEF z
    <3>. QED
      BY <1>1, <1>2, <1>3, <1>4, PushSpots
  <2>7. \A v \in Threads : Line(v)' = Line(v) /\ sendlist'[v] = sendlist[v]
    BY <1>1 DEF Line
  <2>8. /\ Once(s, Handlers(m)) /\ Once(s, Servers(m)) /\ Once(s, Senders(m))
        /\ Has(s, Servers(m)) => Under(s, Handlers(m), Servers(m))
    BY <2>4 DEF Single
  <2> HIDE DEF z
  <2>9. /\ Has(s, Handlers(m)) /\ ~Has(z, Handlers(m))
        /\ Has(z, Servers(m)) <=> Has(s, Servers(m))
        /\ \A v \in Threads : Has(z, SendersTo(m, v)) <=> Has(s, SendersTo(m, v))
        /\ Once(z, Handlers(m)) /\ Once(z, Servers(m)) /\ Once(z, Senders(m))
        /\ Has(z, Servers(m)) => Under(z, Handlers(m), Servers(m))
    <3>1. Has(s, Handlers(m)) /\ ~Has(z, Handlers(m))
      BY <2>1, <2>2, <2>8
    <3>2. Has(z, Servers(m)) <=> Has(s, Servers(m))
      BY <2>1, <2>2
    <3>3. \A v \in Threads : Has(z, SendersTo(m, v)) <=> Has(s, SendersTo(m, v))
      BY <2>1, <2>2
    <3>4. Once(z, Handlers(m)) /\ Once(z, Servers(m)) /\ Once(z, Senders(m))
      BY <2>1, <2>2, <2>8
    <3>. QED
      BY <2>3, <2>8, <3>1, <3>2, <3>3, <3>4
  <2>10. Single(m)'
    BY <2>4, <2>5, <2>7, <2>9 DEF Single
  <2>11. \A v \in Threads : Target(m, v)' <=> Target(m, v)
    BY <2>5, <2>9 DEF Target
  <2>12. \A v \in Threads : /\ Spot(m, "posted", v)' <=> Spot(m, "posted", v)
                            /\ Spot(m, "sent", v)' <=> Spot(m, "sent", v)
    BY <2>7, SameLists
  <2>13. \A v \in Threads : Spot(m, "serve", v)' <=> Spot(m, "serve", v)
    BY <2>5, <2>9 DEF Spot
  <2>14. \A v \in Threads : Spot(m, "run", v)' <=> Spot(m, "run", v) /\ v # t
    BY <2>5, <2>9 DEF Spot
  <2>15. CASE Has(s, Servers(m))
    <3>1. ~Spot(m, "run", t)
      BY <2>15 DEF Spot
    <3>2. SameView(m)
      BY <1>1, <2>6, <2>11, <2>12, <2>13, <2>14, <3>1 DEF SameView, Kinds
    <3>. QED
      BY <2>4, <2>10, <3>2, SameViewKeeps
  <2>16. CASE ~Has(s, Servers(m))
    <3>1. Spot(m, "run", t)
      BY <2>9, <2>16 DEF Spot
    <3>2. \A l \in Kinds, v \in Threads : Spot(m, l, v) => l = "run" /\ v = t
      BY <2>4, <3>1 DEF InOnePlace, Kinds
    <3>3. m \notin ready /\ ~(m > used) /\ NoTarget(m)
      BY <2>4, <3>1 DEF InOnePlace, Nowhere, Kinds
    <3>4. Nowhere(m)'
      BY <2>6, <2>12, <2>13, <2>14, <3>2 DEF Nowhere, Kinds
    <3>5. NoTarget(m)'
      BY <2>11, <3>3 DEF NoTarget
    <3>6. InOnePlace(m)'
      BY <1>1, <3>3, <3>4, <3>5, NoSpot DEF NoTarget
    <3>7. PhaseFacts(m) /\ PhaseFacts(m)'
            => Phase(m) = <<"running", t>> /\ Phase(m)' = <<"over">>
      BY <1>1, <3>1, <3>3, <3>4, <3>5 DEF PhaseFacts
    <3>8. << <<"running", t>>, <<"over">> >> \in Promise!Moves(m)
      BY MoveFacts
    <3>. QED
      BY <2>10, <3>6, <3>7, <3>8 DEF Kept, PhaseMoves
  <2>. QED
    BY <2>15, <2>16
<1>. QED
  BY <1>5, <1>6

\* A sent message was answered: its Send is all that is left of it.
LEMMA AnsweredPlaces ==
  ASSUME Placed, NEW t \in Threads, NEW m \in Messages,
         Spot(m, "serve", t), Single(m)',
         ~Has(stack'[t], Handlers(m)), ~Has(stack'[t], Servers(m)),
         \A v \in Threads : Has(stack'[t], SendersTo(m, v))
                              <=> Has(stack[t], SendersTo(m, v)),
         \A v \in Threads \ {t} : stack'[v] = stack[v],
         \A v \in Threads : /\ Spot(m, "posted", v)' => Spot(m, "posted", v)
                            /\ Spot(m, "sent", v)' => Spot(m, "sent", v)
                            /\ Spot(m, "push", v)' => Spot(m, "push", v),
         UNCHANGED used
  PROVE  Kept(m)
<1>1. InOnePlace(m)
  BY DEF Placed
<1>2. \A l \in Kinds, v \in Threads : Spot(m, l, v) => l = "serve" /\ v = t
  BY <1>1 DEF InOnePlace, Kinds
<1>3. ~(m > used) /\ \A v \in Threads : Target(m, v) <=> v = t
  BY <1>1 DEF InOnePlace, Nowhere, Kinds
<1>4. \A v \in Threads : Target(m, v)' <=> v = t
  BY <1>3 DEF Target
<1>5. Nowhere(m)'
  <2>1. \A v \in Threads : ~Spot(m, "serve", v)' /\ ~Spot(m, "run", v)'
    <3>1. ~Spot(m, "serve", t)' /\ ~Spot(m, "run", t)'
      BY DEF Spot
    <3>2. \A v \in Threads : v # t => ~Spot(m, "serve", v) /\ ~Spot(m, "run", v)
      BY <1>2 DEF Kinds
    <3>3. \A v \in Threads : v # t => ~Spot(m, "serve", v)' /\ ~Spot(m, "run", v)'
      BY <3>2 DEF Spot
    <3>. QED
      BY <3>1, <3>3
  <2>. QED
    BY <1>2, <2>1 DEF Nowhere, Kinds
<1>6. InOnePlace(m)'
  BY <1>3, <1>4, <1>5, NoSpot
<1>7. PhaseFacts(m) /\ PhaseFacts(m)'
        => Phase(m) = <<"serving", t>> /\ Phase(m)' = <<"handled", t>>
  BY <1>3, <1>4, <1>5 DEF PhaseFacts
<1>8. << <<"serving", t>>, <<"handled", t>> >> \in Promise!Moves(m)
  BY MoveFacts
<1>. QED
  BY <1>6, <1>7, <1>8 DEF Kept, PhaseMoves

\* A sent message is taken from sendlist_ and handled.
LEMMA ServedPlaces ==
  ASSUME Placed, NEW t \in Threads, NEW m \in Messages,
         Spot(m, "sent", t), Single(m)', m \notin ready',
         Has(stack'[t], Servers(m)),
         \A v \in Threads : Has(stack'[t], SendersTo(m, v))
                              <=> Has(stack[t], SendersTo(m, v)),
         \A v \in Threads \ {t} : stack'[v] = stack[v],
         ~Spot(m, "sent", t)',
         \A v \in Threads : /\ Spot(m, "posted", v)' => Spot(m, "posted", v)
                            /\ Spot(m, "sent", v)' => Spot(m, "sent", v)
                            /\ Spot(m, "push", v)' => Spot(m, "push", v),
         UNCHANGED used
  PROVE  Kept(m)
<1>1. InOnePlace(m)
  BY DEF Placed
<1>2. \A l \in Kinds, v \in Threads : Spot(m, l, v) => l = "sent" /\ v = t
  BY <1>1 DEF InOnePlace, Kinds
<1>3. ~(m > used) /\ \A v \in Threads : Target(m, v) <=> v = t
  BY <1>1 DEF InOnePlace, Nowhere, Kinds
<1>4. \A v \in Threads : Target(m, v)' <=> v = t
  BY <1>3 DEF Target
<1>5. \A v \in Threads : Spot(m, "serve", v)' <=> v = t
  <2>1. Spot(m, "serve", t)'
    BY DEF Spot
  <2>2. \A v \in Threads : v # t => ~Spot(m, "serve", v)
    BY <1>2 DEF Kinds
  <2>3. \A v \in Threads : v # t => ~Spot(m, "serve", v)'
    BY <2>2 DEF Spot
  <2>. QED
    BY <2>1, <2>3
<1>6. \A v \in Threads : ~Spot(m, "run", v)'
  <2>1. ~Spot(m, "run", t)'
    BY DEF Spot
  <2>2. \A v \in Threads : v # t => ~Spot(m, "run", v)
    BY <1>2 DEF Kinds
  <2>3. \A v \in Threads : v # t => ~Spot(m, "run", v)'
    BY <2>2 DEF Spot
  <2>. QED
    BY <2>1, <2>3
<1>7. \A l \in Kinds, v \in Threads : Spot(m, l, v)' <=> l = "serve" /\ v = t
  <2>1. \A v \in Threads : /\ ~Spot(m, "posted", v)' /\ ~Spot(m, "sent", v)'
                           /\ ~Spot(m, "push", v)'
    BY <1>2 DEF Kinds
  <2>. QED
    BY <1>5, <1>6, <2>1 DEF Kinds
<1>8. InOnePlace(m)'
  BY <1>3, <1>4, <1>7, OneSpot DEF Kinds
<1>9. PhaseFacts(m) /\ PhaseFacts(m)'
        => Phase(m) = <<"waiting", t>> /\ Phase(m)' = <<"serving", t>>
  BY <1>3, <1>5 DEF PhaseFacts
<1>10. << <<"waiting", t>>, <<"serving", t>> >> \in Promise!Moves(m)
  BY MoveFacts
<1>. QED
  BY <1>8, <1>9, <1>10 DEF Kept, PhaseMoves

\* The entries that a ReceiveSends has handled: none or one.
LEMMA AnsweredEntries ==
  ASSUME StacksOK, NEW t \in Threads, In(t, "ReceiveSends")
  PROVE  /\ \A k \in Messages :
              /\ Top(t) \notin Handlers(k) /\ Top(t) \notin Senders(k)
              /\ Top(t) \in Servers(k) <=> \E e \in Answered(t) : e.msg = k
         /\ Answered(t) \subseteq Entries
         /\ \A e, d \in Answered(t) : e = d
<1>1. Top(t) \in Calls /\ Top(t).fn = "ReceiveSends"
  BY TopFacts DEF In
<1>2. \A k \in Messages :
        /\ Top(t) \notin Handlers(k) /\ Top(t) \notin Senders(k)
        /\ Top(t) \in Servers(k) <=> \E e \in Answered(t) : e.msg = k
  BY <1>1 DEF Handlers, Senders, Servers, Runs, Sends, Serves, Answered
<1>3. \/ Top(t).handling = <<>>
      \/ \E m \in Messages, u \in Threads :
           Top(t).handling = <<[msg |-> m, from |-> u]>>
  BY <1>1, CallFields
<1>4. CASE Top(t).handling = <<>>
  <2>1. Answered(t) = {}
    BY <1>4 DEF Answered, Range
  <2>. QED
    BY <1>2, <2>1
<1>5. CASE \E m \in Messages, u \in Threads :
             Top(t).handling = <<[msg |-> m, from |-> u]>>
  <2>1. PICK m \in Messages, u \in Threads :
          Top(t).handling = <<[msg |-> m, from |-> u]>>
    BY <1>5
  <2>2. Answered(t) = {[msg |-> m, from |-> u]}
    BY <2>1 DEF Answered, Range
  <2>3. [msg |-> m, from |-> u] \in Entries
    BY DEF Entries
  <2>. QED
    BY <1>2, <2>2, <2>3
<1>. QED
  BY <1>3, <1>4, <1>5

\* The stack without the ReceiveSends that has answered m.
LEMMA AnsweredStack ==
  ASSUME StacksOK, Placed, NEW t \in Threads, stack[t] # <<>>,
         NEW m \in Messages, Top(t) \in Servers(m), Top(t) \notin Handlers(m),
         Top(t) \notin Senders(m), NEW z, Alike(Tail(stack[t]), z, m)
  PROVE  /\ ~Has(z, Handlers(m)) /\ ~Has(z, Servers(m))
         /\ \A v \in Threads : Has(z, SendersTo(m, v))
                                 <=> Has(stack[t], SendersTo(m, v))
         /\ Once(z, Handlers(m)) /\ Once(z, Servers(m)) /\ Once(z, Senders(m))
         /\ Spot(m, "serve", t)
<1> DEFINE s == stack[t]
           y == Tail(s)
<1>1. s \in Seq(Calls) /\ s # <<>> /\ Head(s) = Top(t)
  BY TopFacts DEF Top
<1>2. \A M : /\ Has(s, M) <=> Head(s) \in M \/ Has(y, M)
             /\ Once(s, M) <=> Once(y, M) /\ (Head(s) \in M => ~Has(y, M))
  <2> HIDE DEF s
  <2>. QED
    BY <1>1, OffTop
<1>3. Single(m)
  BY DEF Placed
<1>4. Has(s, Servers(m))
  BY <1>1, <1>2
<1>5. /\ Once(s, Handlers(m)) /\ Once(s, Servers(m)) /\ Once(s, Senders(m))
      /\ Under(s, Handlers(m), Servers(m))
  BY <1>3, <1>4 DEF Single
<1>6. ~Has(s, Handlers(m))
  <2>1. Head(s) \in Servers(m)
    BY <1>1
  <2> HIDE DEF s
  <2>. QED
    BY <1>1, <1>5, <2>1, UnderTop
<1>7. \A v \in Threads : Top(t) \notin SendersTo(m, v)
  BY DEF SendersTo
<1>8. Alike(y, z, m)
  OBVIOUS
<1>9. Spot(m, "serve", t)
  BY <1>4 DEF Spot
<1> HIDE DEF y
<1>10. ~Has(y, Handlers(m)) /\ ~Has(y, Servers(m))
  BY <1>1, <1>2, <1>5, <1>6
<1>11. Once(y, Handlers(m)) /\ Once(y, Servers(m)) /\ Once(y, Senders(m))
  BY <1>2, <1>5
<1>12. \A v \in Threads : Has(y, SendersTo(m, v)) <=> Has(s, SendersTo(m, v))
  BY <1>1, <1>2, <1>7
<1>. QED
  BY <1>8, <1>9, <1>10, <1>11, <1>12 DEF Alike

\* ReceiveSends finds no more messages,
LEMMA ReceiveEndPlaces ==
  ASSUME TypeOK, Nested, Placed, NEW t \in Threads, ReceiveNext(t),
         sendlist[t] = <<>>
  PROVE  \A k \in Messages : Kept(k)
<1> DEFINE s == stack[t]
           z == Tail(s)
<1>1. /\ In(t, "ReceiveSends") /\ stack[t] # <<>> /\ ~IsPush(Top(t))
      /\ UNCHANGED <<msgq, dmsgq, sendlist, used>>
      /\ stack' = [stack EXCEPT ![t] = z]
      /\ ready' = ready \cup {e.msg : e \in Answered(t)}
  BY DEF ReceiveNext, In, IsPush, Pop, Release
<1>2. StacksOK
  BY DEF TypeOK
<1>3. /\ s \in Seq(Calls) /\ s # <<>> /\ z \in Seq(Calls) /\ Head(s) = Top(t)
  BY <1>1, <1>2, TopFacts DEF Top
<1>4. z # <<>> => ~IsPush(Head(z))
  BY <1>1, <1>2, BelowNoPush
<1>5. ASSUME NEW k \in Messages, \A e \in Answered(t) : e.msg # k PROVE Kept(k)
  <2>1. Foreign(Head(s), k)
    BY <1>1, <1>2, <1>3, <1>5, AnsweredEntries DEF Foreign
  <2>2. Alike(s, z, k)
    <3> HIDE DEF s
    <3>. QED
      BY <1>3, <2>1, AlikePop
  <2>3. k \in ready' <=> k \in ready
    BY <1>1, <1>5
  <2> HIDE DEF z
  <2>. QED
    BY <1>1, <1>2, <1>3, <1>4, <2>2, <2>3, StackKeeps
<1>6. ASSUME NEW m \in Messages, \E e \in Answered(t) : e.msg = m PROVE Kept(m)
  <2>1. Top(t) \in Servers(m) /\ Top(t) \notin Handlers(m) /\ Top(t) \notin Senders(m)
    BY <1>1, <1>2, <1>6, AnsweredEntries
  <2>2. stack'[t] = z /\ \A v \in Threads \ {t} : stack'[v] = stack[v]
    BY <1>1, <1>2, <1>3 DEF StacksOK
  <2>3. Alike(Tail(stack[t]), z, m)
    BY AlikeSame
  <2>4. \A v \in Threads : Spot(m, "push", v)' <=> Spot(m, "push", v)
    <3> HIDE DEF z
    <3>. QED
      BY <1>1, <1>2, <1>3, <1>4, PushSpots
  <2> HIDE DEF z
  <2>5. /\ ~Has(z, Handlers(m)) /\ ~Has(z, Servers(m))
        /\ \A v \in Threads : Has(z, SendersTo(m, v))
                                <=> Has(stack[t], SendersTo(m, v))
        /\ Once(z, Handlers(m)) /\ Once(z, Servers(m)) /\ Once(z, Senders(m))
        /\ Spot(m, "serve", t)
    BY <1>1, <1>2, <2>1, <2>3, AnsweredStack
  <2>6. \A v \in Threads : Line(v)' = Line(v) /\ sendlist'[v] = sendlist[v]
    BY <1>1 DEF Line
  <2>7. Single(m)'
    BY <2>2, <2>5, <2>6 DEF Placed, Single
  <2>8. \A v \in Threads : /\ Spot(m, "posted", v)' => Spot(m, "posted", v)
                           /\ Spot(m, "sent", v)' => Spot(m, "sent", v)
    BY <2>6, SameLists
  <2>. QED
    BY <1>1, <2>2, <2>4, <2>5, <2>7, <2>8, AnsweredPlaces
<1>. QED
  BY <1>5, <1>6

\* or takes the next one.
LEMMA ReceiveMorePlaces ==
  ASSUME TypeOK, Placed, NEW t \in Threads, ReceiveNext(t),
         sendlist[t] # <<>>
  PROVE  \A k \in Messages : Kept(k)
<1>1. /\ In(t, "ReceiveSends") /\ stack[t] # <<>> /\ ~IsPush(Top(t))
      /\ UNCHANGED <<msgq, dmsgq, used>>
      /\ Call(t, ReceiveCall(<<Head(sendlist[t])>>),
              HandlerCall(Head(sendlist[t]).msg))
      /\ sendlist' = [sendlist EXCEPT ![t] = Tail(sendlist[t])]
      /\ ready' = ready \cup {e.msg : e \in Answered(t)}
  BY DEF ReceiveNext, In, IsPush, Release
<1>2. StacksOK /\ sendlist \in [Threads -> Seq(Entries)]
  BY DEF TypeOK, QueuesOK, Entries
<1>3. Head(sendlist[t]) \in Entries /\ Tail(sendlist[t]) \in Seq(Entries)
  BY <1>2
<1>4. PICK e \in Entries : e = Head(sendlist[t])
  BY <1>3
<1>5. PICK m \in Messages, w \in Threads : e = [msg |-> m, from |-> w]
  BY DEF Entries
<1> DEFINE s == stack[t]
           f == ReceiveCall(<<e>>)
           g == HandlerCall(m)
           y == <<f>> \o Tail(s)
           z == <<g>> \o y
<1>6. /\ s \in Seq(Calls) /\ s # <<>> /\ Head(s) = Top(t)
      /\ Tail(s) \in Seq(Calls)
  BY <1>1, <1>2, TopFacts DEF Top
<1>7. f \in Calls /\ g \in Calls /\ ~IsPush(g) /\ e.msg = m
  BY <1>5, CallTypes DEF HandlerCall, IsPush
<1>8. \A k \in Messages : /\ f \notin Handlers(k) /\ f \notin Senders(k)
                          /\ f \in Servers(k) <=> k = m
  BY <1>7, CallKinds DEF EntriesOf
<1>9. /\ \A k \in Messages : k # m => Foreign(g, k)
      /\ g \in Handlers(m) /\ g \notin Servers(m) /\ g \notin Senders(m)
  BY CallKinds
<1>10. stack' = [stack EXCEPT ![t] = <<g, f>> \o Tail(s)]
  BY <1>1, <1>4, <1>7 DEF Call
<1> HIDE DEF f, g, s
<1>11. /\ <<g, f>> \o Tail(s) = z /\ z \in Seq(Calls) /\ Head(z) = g
       /\ y \in Seq(Calls)
  <2>1. y \in Seq(Calls)
    BY <1>6, <1>7, ContinueProperties
  <2>2. /\ <<g, f>> \o Tail(s) = <<g>> \o (<<f>> \o Tail(s))
        /\ <<g, f>> \o Tail(s) \in Seq(Calls)
        /\ Head(<<g, f>> \o Tail(s)) = g
    BY <1>6, <1>7, CallOnTop, Zenon
  <2>. QED
    BY <2>1, <2>2, Zenon
<1>12. stack' = [stack EXCEPT ![t] = z]
  BY <1>10, <1>11, Zenon
<1>13. ASSUME NEW k \in Messages, k # m PROVE Alike(Tail(s), z, k)
  <2>1. Foreign(f, k) /\ Foreign(g, k)
    BY <1>8, <1>9, <1>13 DEF Foreign
  <2>2. Alike(Tail(s), y, k)
    BY <1>6, <1>7, <2>1, AlikePush
  <2> HIDE DEF y
  <2>3. Alike(y, z, k)
    BY <1>7, <1>11, <2>1, AlikePush
  <2>. QED
    BY <2>2, <2>3, AlikeTransitive
<1>14. \A M : /\ Has(z, M) <=> g \in M \/ Has(y, M)
              /\ Once(z, M) <=> Once(y, M) /\ (g \in M => ~Has(y, M))
  <2> HIDE DEF y
  <2>. QED
    BY <1>7, <1>11, OnTop
<1>15. \A M : /\ Has(y, M) <=> f \in M \/ Has(Tail(s), M)
              /\ Once(y, M) <=> Once(Tail(s), M) /\ (f \in M => ~Has(Tail(s), M))
  BY <1>6, <1>7, OnTop
<1>16. \A M : /\ Has(s, M) <=> Head(s) \in M \/ Has(Tail(s), M)
              /\ Once(s, M) <=> Once(Tail(s), M)
                                 /\ (Head(s) \in M => ~Has(Tail(s), M))
  BY <1>6, OffTop
<1>17. ~Has(Tail(s), Handlers(m)) => Under(z, Handlers(m), Servers(m))
  BY <1>6, <1>7, <1>8, UnderCall
<1> HIDE DEF y, z
<1>18. stack'[t] = z /\ \A v \in Threads \ {t} : stack'[v] = stack[v]
  BY <1>2, <1>11, <1>12 DEF StacksOK
<1>19. \A k \in Messages, v \in Threads : Spot(k, "push", v)' <=> Spot(k, "push", v)
  BY <1>1, <1>2, <1>7, <1>11, <1>12, PushSpots
<1>20. \A v \in Threads : Line(v)' = Line(v)
  BY <1>1 DEF Line
<1>21. /\ sendlist'[t] = Tail(sendlist[t])
       /\ \A v \in Threads \ {t} : sendlist'[v] = sendlist[v]
  BY <1>1, <1>2, <1>3
<1>22. \A M : /\ Has(sendlist[t], M) <=> e \in M \/ Has(sendlist'[t], M)
              /\ Once(sendlist[t], M) <=>
                   Once(sendlist'[t], M) /\ (e \in M => ~Has(sendlist'[t], M))
  <2> DEFINE q == sendlist[t]
  <2>1. /\ q \in Seq(Entries) /\ q # <<>> /\ e = Head(q)
        /\ sendlist'[t] = Tail(q)
    BY <1>2, <1>4, <1>21
  <2> HIDE DEF q
  <2>2. \A M : /\ Has(q, M) <=> Head(q) \in M \/ Has(Tail(q), M)
               /\ Once(q, M) <=> Once(Tail(q), M)
                                  /\ (Head(q) \in M => ~Has(Tail(q), M))
    BY <2>1, OffTop
  <2>. QED
    BY <2>1, <2>2, Zenon DEF q
<1>23. \A k \in Messages : e \in EntriesOf(k) <=> k = m
  BY <1>7 DEF EntriesOf
<1>24. \A k \in Messages, v \in Threads :
         Once(sendlist[v], EntriesOf(k)) => Once(sendlist'[v], EntriesOf(k))
  BY <1>21, <1>22
<1>25. \A k \in Messages, v \in Threads :
         Has(sendlist'[v], EntriesOf(k)) => Has(sendlist[v], EntriesOf(k))
  BY <1>21, <1>22
<1>26. \A k \in Messages, v \in Threads :
         /\ Spot(k, "posted", v)' => Spot(k, "posted", v)
         /\ Spot(k, "sent", v)' => Spot(k, "sent", v)
  <2>1. \A k \in Messages, v \in Threads :
          Spot(k, "sent", v)' => Spot(k, "sent", v)
    BY <1>25 DEF Spot
  <2>. QED
    BY <1>20, <2>1, SameLists
<1>27. Spot(m, "sent", t)
  BY <1>22, <1>23 DEF Spot
<1>28. ASSUME NEW k \in Messages, \E d \in Answered(t) : d.msg = k
       PROVE  /\ Top(t) \in Servers(k) /\ Top(t) \notin Handlers(k)
              /\ Top(t) \notin Senders(k) /\ k # m
  <2>1. Top(t) \in Servers(k) /\ Top(t) \notin Handlers(k) /\ Top(t) \notin Senders(k)
    BY <1>1, <1>2, <1>28, AnsweredEntries
  <2>2. Spot(k, "serve", t)
    BY <1>6, <1>16, <2>1 DEF Spot, s
  <2>3. InOnePlace(k)
    BY DEF Placed
  <2>4. ~Spot(k, "sent", t)
    BY <2>2, <2>3 DEF InOnePlace, Kinds
  <2>. QED
    BY <1>27, <2>1, <2>4
<1>29. ASSUME NEW k \in Messages, \A d \in Answered(t) : d.msg # k
       PROVE  Foreign(Head(s), k) /\ (k \in ready' <=> k \in ready)
  <2>1. Foreign(Head(s), k)
    BY <1>1, <1>2, <1>6, <1>29, AnsweredEntries DEF Foreign
  <2>2. k \in ready' <=> k \in ready
    BY <1>1, <1>29
  <2>. QED
    BY <2>1, <2>2
<1>30. ASSUME NEW k \in Messages, k # m, \A d \in Answered(t) : d.msg # k
       PROVE  Kept(k)
  <2>1. Alike(s, Tail(s), k)
    BY <1>6, <1>29, <1>30, AlikePop
  <2>2. Alike(Tail(s), z, k)
    BY <1>13, <1>30
  <2>3. Alike(s, z, k)
    BY <2>1, <2>2, AlikeTransitive
  <2>4. \A v \in Threads : Alike(stack[v], stack'[v], k)
    BY <1>18, <2>3, AlikeSame DEF s
  <2>5. \A v \in Threads :
          Has(sendlist'[v], EntriesOf(k)) <=> Has(sendlist[v], EntriesOf(k))
    BY <1>21, <1>22, <1>23, <1>30
  <2>6. k \in ready' <=> k \in ready
    BY <1>29, <1>30
  <2>. QED
    BY <1>1, <1>19, <1>20, <1>24, <2>4, <2>5, <2>6, Unaffected
<1>31. ASSUME NEW k \in Messages, \E d \in Answered(t) : d.msg = k
       PROVE  Kept(k)
  <2>1. /\ Top(t) \in Servers(k) /\ Top(t) \notin Handlers(k)
        /\ Top(t) \notin Senders(k) /\ k # m
    BY <1>28, <1>31
  <2>2. Alike(Tail(stack[t]), z, k)
    BY <1>13, <2>1 DEF s
  <2>3. /\ ~Has(z, Handlers(k)) /\ ~Has(z, Servers(k))
        /\ \A v \in Threads : Has(z, SendersTo(k, v))
                                <=> Has(stack[t], SendersTo(k, v))
        /\ Once(z, Handlers(k)) /\ Once(z, Servers(k)) /\ Once(z, Senders(k))
        /\ Spot(k, "serve", t)
    BY <1>1, <1>2, <2>1, <2>2, AnsweredStack
  <2>4. Single(k)'
    BY <1>18, <1>20, <1>24, <2>3 DEF Placed, Single
  <2>. QED
    BY <1>1, <1>18, <1>19, <1>26, <2>3, <2>4, AnsweredPlaces
<1>32. Kept(m)
  <2>1. Single(m) /\ InOnePlace(m)
    BY DEF Placed
  <2>2. \A l \in Kinds, v \in Threads : Spot(m, l, v) => l = "sent" /\ v = t
    BY <1>27, <2>1 DEF InOnePlace, Kinds
  <2>3. ~Has(s, Handlers(m)) /\ ~Has(s, Servers(m))
    BY <2>2 DEF Spot, Kinds, s
  <2>4. Foreign(Head(s), m) /\ m \notin ready'
    <3>1. \A d \in Answered(t) : d.msg # m
      BY <1>28
    <3>2. m \notin ready
      BY <1>27, <2>1 DEF InOnePlace, Nowhere, Kinds
    <3>. QED
      BY <1>29, <3>1, <3>2
  <2>5. \A v \in Threads : /\ Head(s) \notin SendersTo(m, v)
                           /\ f \notin SendersTo(m, v) /\ g \notin SendersTo(m, v)
    BY <1>8, <1>9, <2>4 DEF SendersTo, Foreign
  <2>6. \A v \in Threads : Has(z, SendersTo(m, v)) <=> Has(s, SendersTo(m, v))
    BY <1>14, <1>15, <1>16, <2>5
  <2>7. /\ Has(z, Servers(m)) /\ ~Has(Tail(s), Handlers(m))
        /\ ~Has(Tail(s), Servers(m))
    BY <1>8, <1>14, <1>15, <1>16, <2>3
  <2>8. Once(s, Handlers(m)) /\ Once(s, Servers(m)) /\ Once(s, Senders(m))
    BY <2>1 DEF Single, s
  <2>9. Once(z, Handlers(m))
    BY <1>8, <1>9, <1>14, <1>15, <1>16, <2>7, <2>8
  <2>10. Once(z, Servers(m))
    BY <1>8, <1>9, <1>14, <1>15, <1>16, <2>7, <2>8
  <2>11. Once(z, Senders(m))
    BY <1>8, <1>9, <1>14, <1>15, <1>16, <2>8
  <2>12. Under(z, Handlers(m), Servers(m))
    BY <1>17, <2>7
  <2>13. Single(m)'
    BY <1>18, <1>20, <1>24, <2>1, <2>9, <2>10, <2>11, <2>12 DEF Single
  <2>14. ~Spot(m, "sent", t)'
    BY <1>22, <1>23, <2>1 DEF Spot, Single
  <2>. QED
    BY <1>1, <1>18, <1>19, <1>26, <1>27, <2>4, <2>6, <2>7, <2>13, <2>14,
       ServedPlaces DEF s
<1>. QED
  BY <1>30, <1>31, <1>32

\* Send returns.
LEMMA SendReturnPlaces ==
  ASSUME TypeOK, Nested, OneSender, Placed, NEW t \in Threads,
         SendLoop(t), Top(t).msg \in ready
  PROVE  \A k \in Messages : Kept(k)
<1>1. StacksOK /\ In(t, "Send")
  BY DEF TypeOK, SendLoop, At
<1> PICK m \in Messages, u \in Threads : Top(t).msg = m /\ Top(t).to = u
  BY <1>1, TopSend
<1> DEFINE s == stack[t]
           z == Tail(s)
<1>2. /\ stack[t] # <<>> /\ Top(t).fn = "Send" /\ ~IsPush(Top(t))
      /\ UNCHANGED <<msgq, dmsgq, sendlist, used>>
      /\ stack' = [stack EXCEPT ![t] = z] /\ ready' = ready \ {m}
  BY DEF SendLoop, At, In, IsPush, Pop
<1>3. /\ s \in Seq(Calls) /\ s # <<>> /\ z \in Seq(Calls) /\ Head(s) = Top(t)
      /\ Top(t) \in Calls
  BY <1>1, <1>2, TopFacts DEF Top
<1>4. z # <<>> => ~IsPush(Head(z))
  BY <1>1, <1>2, BelowNoPush
<1>5. /\ Head(s) \in Senders(m) /\ Head(s) \in SendersTo(m, u)
      /\ \A k \in Messages : Head(s) \notin Handlers(k) /\ Head(s) \notin Servers(k)
      /\ \A k \in Messages : k # m => Foreign(Head(s), k)
  BY <1>1, <1>2, <1>3, TopSend, CallKinds DEF Foreign
<1>6. ASSUME NEW k \in Messages, k # m PROVE Kept(k)
  <2>1. Alike(s, z, k)
    <3> HIDE DEF s
    <3>. QED
      BY <1>3, <1>5, <1>6, AlikePop
  <2>2. k \in ready' <=> k \in ready
    BY <1>2, <1>6
  <2> HIDE DEF z
  <2>. QED
    BY <1>1, <1>2, <1>3, <1>4, <2>1, <2>2, StackKeeps
<1>7. Kept(m)
  <2>1. Single(m) /\ InOnePlace(m)
    BY DEF Placed
  <2>2. Nowhere(m) /\ ~(m > used)
    BY <2>1 DEF InOnePlace
  <2>3. Target(m, u)
    BY <1>1, TopSend DEF Target
  <2>4. \A M : /\ Has(s, M) <=> Head(s) \in M \/ Has(z, M)
               /\ Once(s, M) <=> Once(z, M) /\ (Head(s) \in M => ~Has(z, M))
    <3> HIDE DEF s
    <3>. QED
      BY <1>3, OffTop
  <2>5. stack'[t] = z /\ \A v \in Threads \ {t} : stack'[v] = stack[v]
    BY <1>1, <1>2, <1>3 DEF StacksOK
  <2>6. \A v \in Threads : Spot(m, "push", v)' <=> Spot(m, "push", v)
    <3> HIDE DEF z
    <3>. QED
      BY <1>1, <1>2, <1>3, <1>4, PushSpots
  <2>7. \A v \in Threads : Line(v)' = Line(v) /\ sendlist'[v] = sendlist[v]
    BY <1>2 DEF Line
  <2>8. \A v \in Threads : ~Has(stack[v], Handlers(m)) /\ ~Has(stack[v], Servers(m))
    BY <2>2 DEF Nowhere, Spot, Kinds
  <2>9. Once(s, Handlers(m)) /\ Once(s, Servers(m)) /\ Once(s, Senders(m))
    BY <2>1 DEF Single
  <2> HIDE DEF z
  <2>10. /\ ~Has(z, Handlers(m)) /\ ~Has(z, Servers(m)) /\ ~Has(z, Senders(m))
         /\ Once(z, Handlers(m)) /\ Once(z, Servers(m)) /\ Once(z, Senders(m))
    BY <1>5, <2>4, <2>8, <2>9
  <2>11. \A v \in Threads : v # t => ~Has(stack[v], Senders(m))
    <3>1. Has(stack[t], Senders(m))
      BY <1>1, TopSend
    <3>. QED
      BY <1>1, <3>1, OnlySender
  <2>12. \A v \in Threads : ~Has(stack'[v], Senders(m))
    BY <2>5, <2>10, <2>11
  <2>13. \A v \in Threads : ~Target(m, v)'
    BY <2>12 DEF Target, SendersTo, Has
  <2>14. Nowhere(m)'
    <3>1. \A v \in Threads : /\ ~Spot(m, "posted", v)' /\ ~Spot(m, "sent", v)'
                             /\ ~Spot(m, "push", v)'
      BY <2>2, <2>6, <2>7, SameLists DEF Nowhere, Kinds
    <3>2. \A v \in Threads : ~Spot(m, "serve", v)' /\ ~Spot(m, "run", v)'
      BY <2>5, <2>8, <2>10 DEF Spot
    <3>. QED
      BY <3>1, <3>2 DEF Nowhere, Kinds
  <2>15. InOnePlace(m)'
    BY <1>2, <2>2, <2>13, <2>14, NoSpot
  <2>16. Single(m)'
    BY <2>1, <2>5, <2>7, <2>10 DEF Single
  <2>17. PhaseFacts(m) /\ PhaseFacts(m)'
           => Phase(m) = <<"handled", u>> /\ Phase(m)' = <<"over">>
    BY <1>2, <2>2, <2>3, <2>13, <2>14 DEF PhaseFacts, NoTarget
  <2>18. << <<"handled", u>>, <<"over">> >> \in Promise!Moves(m)
    BY MoveFacts
  <2>. QED
    BY <2>15, <2>16, <2>17, <2>18 DEF Kept, PhaseMoves
<1>. QED
  BY <1>6, <1>7

-----------------------------------------------------------------------------
(* Messages are dropped.                                                   *)

\* A message is taken out of a list of u and is not handled.
LEMMA DroppedPlaces ==
  ASSUME Placed, NEW m \in Messages, NEW u \in Threads,
         Spot(m, "posted", u) \/ Spot(m, "sent", u),
         ~Spot(m, "posted", u)', ~Spot(m, "sent", u)',
         \A v \in Threads :
           /\ Spot(m, "posted", v)' => Spot(m, "posted", v)
           /\ Spot(m, "sent", v)' => Spot(m, "sent", v)
           /\ Spot(m, "push", v)' => Spot(m, "push", v)
           /\ Once(Line(v), {m}) => Once(Line(v)', {m})
           /\ Once(sendlist[v], EntriesOf(m)) => Once(sendlist'[v], EntriesOf(m))
           /\ Alike(stack[v], stack'[v], m),
         UNCHANGED used, fStop[u] \/ m \in cleared'
  PROVE  Kept(m)
<1>1. Single(m) /\ InOnePlace(m)
  BY DEF Placed
<1>2. \A l \in Kinds, v \in Threads :
        Spot(m, l, v) => l \in {"posted", "sent"} /\ v = u
  BY <1>1 DEF InOnePlace, Kinds
<1>3. ~(m > used)
  BY <1>1 DEF InOnePlace, Nowhere, Kinds
<1>4. \A v \in Threads : Target(m, v)' <=> Target(m, v)
  BY DEF Target, Alike
<1>5. \A v \in Threads : /\ Spot(m, "serve", v)' <=> Spot(m, "serve", v)
                         /\ Spot(m, "run", v)' <=> Spot(m, "run", v)
  BY DEF Spot, Alike
<1>6. Nowhere(m)'
  BY <1>2, <1>5 DEF Nowhere, Kinds
<1>7. \A v, w \in Threads : Target(m, v) /\ Target(m, w) => v = w
  BY <1>1 DEF InOnePlace
<1>8. InOnePlace(m)'
  BY <1>3, <1>4, <1>6, <1>7, NoSpot
<1>9. Single(m)'
  BY <1>1 DEF Single, Alike
<1>10. /\ Spot(m, "posted", u) => NoTarget(m)'
       /\ Spot(m, "sent", u) => Target(m, u)'
  BY <1>1, <1>4 DEF InOnePlace, NoTarget
<1>11. PhaseFacts(m) /\ PhaseFacts(m)' =>
         /\ Phase(m) = <<"waiting", u>>
         /\ Phase(m)' = <<"over">> \/ Phase(m)' = <<"handled", u>>
  BY <1>3, <1>6, <1>10 DEF PhaseFacts
<1>12. /\ << <<"waiting", u>>, <<"handled", u>> >> \in Promise!Moves(m)
       /\ << <<"waiting", u>>, <<"over">> >> \in Promise!Moves(m)
  BY MoveFacts
<1>. QED
  BY <1>8, <1>9, <1>11, <1>12 DEF Kept, PhaseMoves

\* Clear, of a message in the queues of u:
LEMMA ClearLinePlaces ==
  ASSUME Placed, NEW u \in Threads, NEW m \in Messages,
         NEW x \in Seq(Messages), NEW y \in Seq(Messages),
         Line(u) = x \o (<<m>> \o y), Line(u)' = x \o y,
         \A v \in Threads \ {u} : Line(v)' = Line(v),
         UNCHANGED <<stack, sendlist, ready, used>>, m \in cleared'
  PROVE  \A k \in Messages : Kept(k)
<1>1. \A v \in Threads : sendlist'[v] = sendlist[v] /\ stack'[v] = stack[v]
  OBVIOUS
<1>2. \A k \in Messages, v \in Threads :
        Spot(k, "push", v)' <=> Spot(k, "push", v)
  BY DEF Spot, At, In, Top
<1>3. \A k \in Messages, v \in Threads : Alike(stack[v], stack'[v], k)
  BY <1>1, AlikeSame
<1>4. \A M : /\ Has(Line(u), M) <=> m \in M \/ Has(Line(u)', M)
             /\ Once(Line(u), M) <=>
                  Once(Line(u)', M) /\ (m \in M => ~Has(Line(u)', M))
  <2> SUFFICES ASSUME NEW M
               PROVE  /\ Has(Line(u), M) <=> m \in M \/ Has(Line(u)', M)
                      /\ Once(Line(u), M) <=>
                           Once(Line(u)', M) /\ (m \in M => ~Has(Line(u)', M))
    OBVIOUS
  <2>1. /\ Has(x \o (<<m>> \o y), M) <=> m \in M \/ Has(x \o y, M)
        /\ Once(x \o (<<m>> \o y), M) <=>
             Once(x \o y, M) /\ (m \in M => ~Has(x \o y, M))
    BY Insertion
  <2>. QED
    BY <2>1, Zenon
<1>5. \A k \in Messages, v \in Threads : Once(Line(v), {k}) => Once(Line(v)', {k})
  BY <1>4
<1>6. ASSUME NEW k \in Messages, k # m PROVE Kept(k)
  <2>1. m \notin {k}
    BY <1>6
  <2>2. \A v \in Threads : Has(Line(v)', {k}) <=> Has(Line(v), {k})
    BY <1>4, <2>1
  <2>. QED
    BY <1>1, <1>2, <1>3, <1>5, <2>2, Unaffected
<1>7. Kept(m)
  <2>1. m \in {m}
    OBVIOUS
  <2>2. Once(Line(u), {m})
    BY DEF Placed, Single
  <2>3. Has(Line(u), {m}) /\ ~Has(Line(u)', {m})
    BY <1>4, <2>1, <2>2
  <2>4. Spot(m, "posted", u) /\ ~Spot(m, "posted", u)'
    BY <2>3 DEF Spot
  <2>5. \A v \in Threads : /\ Spot(m, "posted", v)' => Spot(m, "posted", v)
                           /\ Spot(m, "sent", v)' <=> Spot(m, "sent", v)
    <3>1. \A v \in Threads \ {u} : Spot(m, "posted", v)' <=> Spot(m, "posted", v)
      BY SameLists
    <3>. QED
      BY <1>1, <2>4, <3>1, SameLists
  <2>6. ~Spot(m, "sent", u)
    BY <2>4 DEF Placed, InOnePlace, Kinds
  <2>. QED
    BY <1>1, <1>2, <1>3, <1>5, <2>4, <2>5, <2>6, DroppedPlaces
<1>. QED
  BY <1>6, <1>7

\* of a message sent to u;
LEMMA ClearSentPlaces ==
  ASSUME TypeOK, Placed, NEW u \in Threads, NEW m \in Messages,
         NEW i \in DOMAIN sendlist[u], sendlist[u][i].msg = m,
         sendlist' = [sendlist EXCEPT ![u] = RemoveAt(@, i)],
         ready' = ready \cup {m}, UNCHANGED <<stack, msgq, dmsgq, used>>,
         m \in cleared'
  PROVE  \A k \in Messages : Kept(k)
<1>1. \A v \in Threads : Line(v)' = Line(v) /\ stack'[v] = stack[v]
  BY DEF Line
<1>2. \A k \in Messages, v \in Threads :
        Spot(k, "push", v)' <=> Spot(k, "push", v)
  BY DEF Spot, At, In, Top
<1>3. \A k \in Messages, v \in Threads : Alike(stack[v], stack'[v], k)
  BY <1>1, AlikeSame
<1>4. sendlist \in [Threads -> Seq(Entries)]
  BY DEF TypeOK, QueuesOK, Entries
<1>5. /\ sendlist[u] \in Seq(Entries) /\ i \in 1 .. Len(sendlist[u])
      /\ sendlist[u][i] \in Entries
  BY <1>4
<1>6. /\ sendlist'[u] = RemoveAt(sendlist[u], i)
      /\ \A v \in Threads \ {u} : sendlist'[v] = sendlist[v]
  BY <1>4
<1> DEFINE q == sendlist[u]
           e == q[i]
<1>7. q \in Seq(Entries) /\ i \in 1 .. Len(q) /\ sendlist'[u] = RemoveAt(q, i)
  BY <1>5, <1>6
<1>8. \A k \in Messages : e \in EntriesOf(k) <=> k = m
  BY <1>5 DEF EntriesOf
<1> HIDE DEF q
<1>9. \A M : /\ Has(q, M) <=> e \in M \/ Has(sendlist'[u], M)
             /\ Once(q, M) <=>
                  Once(sendlist'[u], M) /\ (e \in M => ~Has(sendlist'[u], M))
  <2>1. \A M : /\ Has(q, M) <=> q[i] \in M \/ Has(RemoveAt(q, i), M)
               /\ Once(q, M) <=> /\ Once(RemoveAt(q, i), M)
                                 /\ q[i] \in M => ~Has(RemoveAt(q, i), M)
    BY <1>7, TakenOut
  <2>. QED
    BY <1>7, <2>1, Zenon
<1> HIDE DEF e
<1>10. \A k \in Messages, v \in Threads :
         Once(sendlist[v], EntriesOf(k)) => Once(sendlist'[v], EntriesOf(k))
  BY <1>6, <1>9 DEF q
<1>11. ASSUME NEW k \in Messages, k # m PROVE Kept(k)
  <2>1. e \notin EntriesOf(k)
    BY <1>8, <1>11
  <2>2. \A v \in Threads :
          Has(sendlist'[v], EntriesOf(k)) <=> Has(sendlist[v], EntriesOf(k))
    BY <1>6, <1>9, <2>1 DEF q
  <2>3. k \in ready' <=> k \in ready
    BY <1>11
  <2>. QED
    BY <1>1, <1>2, <1>3, <1>10, <2>2, <2>3, Unaffected
<1>12. Kept(m)
  <2>1. e \in EntriesOf(m)
    BY <1>8
  <2>2. Once(q, EntriesOf(m))
    BY DEF Placed, Single, q
  <2>3. Has(sendlist[u], EntriesOf(m)) /\ ~Has(sendlist'[u], EntriesOf(m))
    BY <1>9, <2>1, <2>2 DEF q
  <2>4. Spot(m, "sent", u) /\ ~Spot(m, "sent", u)'
    BY <2>3 DEF Spot
  <2>5. \A v \in Threads : /\ Spot(m, "sent", v)' => Spot(m, "sent", v)
                           /\ Spot(m, "posted", v)' <=> Spot(m, "posted", v)
    <3>1. \A v \in Threads \ {u} : Spot(m, "sent", v)' <=> Spot(m, "sent", v)
      BY <1>6, SameLists
    <3>. QED
      BY <1>1, <2>4, <3>1, SameLists
  <2>6. ~Spot(m, "posted", u)
    BY <2>4 DEF Placed, InOnePlace, Kinds
  <2>. QED
    BY <1>1, <1>2, <1>3, <1>10, <2>4, <2>5, <2>6, DroppedPlaces
<1>. QED
  BY <1>11, <1>12

\* and Clear as a whole.
LEMMA ClearPlaces ==
  ASSUME TypeOK, Placed, NEW t \in Threads, NEW u \in Threads,
         NEW m \in Messages, Clear(t, u, m)
  PROVE  \A k \in Messages : Kept(k)
<1>1. UNCHANGED <<stack, used>> /\ m \in cleared'
  BY DEF Clear
<1>2. msgq \in [Threads -> Seq(Messages)] /\ dmsgq \in [Threads -> Seq(Messages)]
  BY DEF TypeOK, QueuesOK
<1>3. ASSUME NEW i \in DOMAIN sendlist[u], sendlist[u][i].msg = m,
             Release({sendlist[u][i]}),
             sendlist' = [sendlist EXCEPT ![u] = RemoveAt(@, i)],
             UNCHANGED <<msgq, dmsgq, due>>
      PROVE  \A k \in Messages : Kept(k)
  <2>1. ready' = ready \cup {m}
    BY <1>3 DEF Release
  <2>. QED
    BY <1>1, <1>3, <2>1, ClearSentPlaces
<1>4. ASSUME NEW i \in DOMAIN msgq[u], msgq[u][i] = m,
             msgq' = [msgq EXCEPT ![u] = RemoveAt(@, i)],
             UNCHANGED <<dmsgq, due, sendlist, ready, signaled>>
      PROVE  \A k \in Messages : Kept(k)
  <2> DEFINE q == msgq[u]
             d == dmsgq[u]
             a == SubSeq(q, 1, i - 1)
             b == SubSeq(q, i + 1, Len(q))
             y == b \o d
  <2>1. q \in Seq(Messages) /\ i \in 1 .. Len(q) /\ d \in Seq(Messages)
        /\ <<m>> \in Seq(Messages) /\ q[i] = m
    BY <1>2, <1>4
  <2>2. /\ msgq'[u] = RemoveAt(q, i) /\ dmsgq'[u] = d
        /\ \A v \in Threads \ {u} : msgq'[v] = msgq[v] /\ dmsgq'[v] = dmsgq[v]
    BY <1>2, <1>4
  <2>3. Line(u) = q \o d /\ Line(u)' = RemoveAt(q, i) \o d
    BY <2>2 DEF Line
  <2>4. \A v \in Threads \ {u} : Line(v)' = Line(v)
    BY <2>2 DEF Line
  <2> HIDE DEF q, d
  <2>5. /\ a \in Seq(Messages) /\ b \in Seq(Messages) /\ RemoveAt(q, i) = a \o b
        /\ q = a \o (<<q[i]>> \o b)
    BY <2>1, CutOut
  <2>6. q = a \o (<<m>> \o b)
    BY <2>1, <2>5, Zenon
  <2> HIDE DEF a, b
  <2>7. y \in Seq(Messages) /\ <<m>> \o b \in Seq(Messages)
    BY <2>1, <2>5, ConcatProperties
  <2>8. a \in Seq(Messages) /\ b \in Seq(Messages) /\ d \in Seq(Messages)
        /\ <<m>> \in Seq(Messages)
    BY <2>1, <2>5, Zenon
  <2>9. (a \o b) \o d = a \o y
    BY <2>8, LineAssociative, Zenon
  <2>10. (a \o (<<m>> \o b)) \o d = a \o (<<m>> \o y)
    <3> DEFINE c == <<m>> \o b
    <3>1. c \in Seq(Messages)
      BY <2>7
    <3>2. c \o d = <<m>> \o (b \o d)
      BY <2>8, LineAssociative, Zenon
    <3> HIDE DEF c
    <3>3. (a \o c) \o d = a \o (c \o d)
      BY <2>8, <3>1, LineAssociative, Zenon
    <3>. QED
      BY <3>2, <3>3, Zenon DEF c
  <2>11. Line(u) = a \o (<<m>> \o y) /\ Line(u)' = a \o y
    BY <2>3, <2>5, <2>6, <2>9, <2>10, Zenon
  <2> HIDE DEF y
  <2>. QED
    BY <1>1, <1>4, <2>4, <2>7, <2>8, <2>11, ClearLinePlaces
<1>5. ASSUME NEW i \in DOMAIN dmsgq[u], dmsgq[u][i] = m,
             dmsgq' = [dmsgq EXCEPT ![u] = RemoveAt(@, i)],
             UNCHANGED <<msgq, sendlist, ready, signaled>>
      PROVE  \A k \in Messages : Kept(k)
  <2> DEFINE q == msgq[u]
             d == dmsgq[u]
             a == SubSeq(d, 1, i - 1)
             b == SubSeq(d, i + 1, Len(d))
             x == q \o a
  <2>1. q \in Seq(Messages) /\ i \in 1 .. Len(d) /\ d \in Seq(Messages)
        /\ <<m>> \in Seq(Messages) /\ d[i] = m
    BY <1>2, <1>5
  <2>2. /\ dmsgq'[u] = RemoveAt(d, i) /\ msgq'[u] = q
        /\ \A v \in Threads \ {u} : msgq'[v] = msgq[v] /\ dmsgq'[v] = dmsgq[v]
    BY <1>2, <1>5
  <2>3. Line(u) = q \o d /\ Line(u)' = q \o RemoveAt(d, i)
    BY <2>2 DEF Line
  <2>4. \A v \in Threads \ {u} : Line(v)' = Line(v)
    BY <2>2 DEF Line
  <2> HIDE DEF q, d
  <2>5. /\ a \in Seq(Messages) /\ b \in Seq(Messages) /\ RemoveAt(d, i) = a \o b
        /\ d = a \o (<<d[i]>> \o b)
    BY <2>1, CutOut
  <2>6. d = a \o (<<m>> \o b)
    BY <2>1, <2>5, Zenon
  <2> HIDE DEF a, b
  <2>7. x \in Seq(Messages) /\ <<m>> \o b \in Seq(Messages)
    BY <2>1, <2>5, ConcatProperties
  <2>8. a \in Seq(Messages) /\ b \in Seq(Messages) /\ q \in Seq(Messages)
    BY <2>1, <2>5, Zenon
  <2>9. (q \o a) \o b = q \o (a \o b)
    BY <2>8, LineAssociative, Zenon
  <2>10. (q \o a) \o (<<m>> \o b) = q \o (a \o (<<m>> \o b))
    <3> DEFINE c == <<m>> \o b
    <3>1. c \in Seq(Messages)
      BY <2>7
    <3> HIDE DEF c
    <3>2. (q \o a) \o c = q \o (a \o c)
      BY <2>8, <3>1, LineAssociative, Zenon
    <3>. QED
      BY <3>2, Zenon DEF c
  <2>11. Line(u) = x \o (<<m>> \o b) /\ Line(u)' = x \o b
    BY <2>3, <2>5, <2>6, <2>9, <2>10, Zenon
  <2> HIDE DEF x
  <2>. QED
    BY <1>1, <1>5, <2>4, <2>7, <2>8, <2>11, ClearLinePlaces
<1>. QED
  BY <1>3, <1>4, <1>5 DEF Clear

\* A thread is destroyed with what is left in its lists.
LEMMA DestroyPlaces ==
  ASSUME TypeOK, Nested, StopsQuit, Placed, NEW t \in Threads, Destroy(t)
  PROVE  \A k \in Messages : Kept(k)
<1>1. StacksOK /\ stack[t] # <<>> /\ Top(t).fn = "Stop" /\ ~IsPush(Top(t))
  BY DEF TypeOK, Destroy, In, IsPush
<1>2. stack[t] \in Seq(Calls) /\ Top(t) \in Calls /\ Tail(stack[t]) \in Seq(Calls)
  BY <1>1, TopFacts
<1>3. PICK u \in Threads : Top(t).to = u
  BY <1>1, <1>2, CallFields, ThreadAssumption
<1>4. fStop[u]
  <2>1. Top(t) \in CallsOf(t)
    BY <1>1, TopFacts DEF CallsOf, Range
  <2>. QED
    BY <1>1, <1>3, <2>1 DEF StopsQuit
<1>5. /\ ready' = ready \cup {e.msg : e \in Range(sendlist[u])}
      /\ sendlist' = [sendlist EXCEPT ![u] = <<>>]
      /\ msgq' = [msgq EXCEPT ![u] = <<>>] /\ dmsgq' = [dmsgq EXCEPT ![u] = <<>>]
      /\ stack' = [stack EXCEPT ![t] = Tail(stack[t])] /\ UNCHANGED used
  BY <1>3 DEF Destroy, Release, Pop
<1>6. /\ sendlist \in [Threads -> Seq(Entries)] /\ msgq \in [Threads -> Seq(Messages)]
      /\ dmsgq \in [Threads -> Seq(Messages)]
  BY DEF TypeOK, QueuesOK, Entries
<1>7. Line(u)' = <<>> /\ \A v \in Threads \ {u} : Line(v)' = Line(v)
  <2>1. /\ msgq'[u] = <<>> /\ dmsgq'[u] = <<>>
        /\ \A v \in Threads \ {u} : msgq'[v] = msgq[v] /\ dmsgq'[v] = dmsgq[v]
    BY <1>5, <1>6
  <2>2. <<>> \o <<>> = <<>>
    OBVIOUS
  <2>. QED
    BY <2>1, <2>2 DEF Line
<1>8. sendlist'[u] = <<>> /\ \A v \in Threads \ {u} : sendlist'[v] = sendlist[v]
  BY <1>5, <1>6
<1>9. \A M : ~Has(<<>>, M) /\ Once(<<>>, M)
  BY DEF Has, Once
<1>10. \A k \in Messages, v \in Threads :
         /\ Once(Line(v), {k}) => Once(Line(v)', {k})
         /\ Once(sendlist[v], EntriesOf(k)) => Once(sendlist'[v], EntriesOf(k))
  BY <1>7, <1>8, <1>9
<1>11. \A k \in Messages, v \in Threads : Alike(stack[v], stack'[v], k)
  <2>1. \A k \in Messages : Foreign(Head(stack[t]), k)
    BY <1>1, <1>2, CallKinds DEF Top
  <2>2. \A k \in Messages : Alike(stack[t], Tail(stack[t]), k)
    BY <1>1, <1>2, <2>1, AlikePop
  <2>3. stack'[t] = Tail(stack[t]) /\ \A v \in Threads \ {t} : stack'[v] = stack[v]
    BY <1>1, <1>2, <1>5 DEF StacksOK
  <2>. QED
    BY <2>2, <2>3, AlikeSame
<1>12. \A k \in Messages, v \in Threads :
         Spot(k, "push", v)' <=> Spot(k, "push", v)
  <2>1. Tail(stack[t]) # <<>> => ~IsPush(Head(Tail(stack[t])))
    BY <1>1, BelowNoPush
  <2>. QED
    BY <1>1, <1>2, <1>5, <2>1, PushSpots
<1>13. \A k \in Messages : ~Spot(k, "posted", u)' /\ ~Spot(k, "sent", u)'
  BY <1>7, <1>8, <1>9 DEF Spot
<1>14. \A k \in Messages, v \in Threads : v # u =>
         /\ Spot(k, "posted", v)' <=> Spot(k, "posted", v)
         /\ Spot(k, "sent", v)' <=> Spot(k, "sent", v)
  BY <1>7, <1>8, SameLists
<1>15. ASSUME NEW k \in Messages, Spot(k, "posted", u) \/ Spot(k, "sent", u)
       PROVE  Kept(k)
  BY <1>4, <1>5, <1>10, <1>11, <1>12, <1>13, <1>14, <1>15, DroppedPlaces
<1>16. ASSUME NEW k \in Messages, ~Spot(k, "posted", u), ~Spot(k, "sent", u)
       PROVE  Kept(k)
  <2>1. ~Has(Line(u), {k}) /\ ~Has(sendlist[u], EntriesOf(k))
    BY <1>16 DEF Spot
  <2>2. \A v \in Threads :
          /\ Has(Line(v)', {k}) <=> Has(Line(v), {k})
          /\ Has(sendlist'[v], EntriesOf(k)) <=> Has(sendlist[v], EntriesOf(k))
    BY <1>7, <1>8, <1>9, <2>1
  <2>3. k \in ready' <=> k \in ready
    <3>1. ASSUME NEW e \in Range(sendlist[u]) PROVE e.msg # k
      <4>1. PICK i \in 1 .. Len(sendlist[u]) : e = sendlist[u][i]
        BY <1>6 DEF Range
      <4>2. e \in Entries
        BY <1>6, <4>1
      <4>. QED
        BY <2>1, <4>1, <4>2 DEF Has, EntriesOf
    <3>. QED
      BY <1>5, <3>1
  <2>. QED
    BY <1>5, <1>10, <1>11, <1>12, <2>2, <2>3, Unaffected
<1>. QED
  BY <1>15, <1>16

-----------------------------------------------------------------------------
(* Threads implement Messaging.                                            *)

\* At first every thread runs the handler of no message.
LEMMA InitPlaced == Init => Placed
<1> SUFFICES ASSUME Init, NEW m \in Messages
             PROVE  Single(m) /\ InOnePlace(m)
  BY DEF Placed
<1>1. m \in Nat /\ m # 0 /\ m > 0
  BY ThreadAssumption DEF Messages
<1> DEFINE f == GetCall("receive", FALSE)
           g == HandlerCall(0)
           s == <<g>> \o (<<f>> \o <<>>)
<1>2. f \in Calls /\ g \in Calls /\ f.fn = "Get" /\ ~IsPush(g)
  BY CallTypes DEF GetCall, HandlerCall, IsPush
<1>3. Foreign(f, m) /\ Foreign(g, m)
  BY <1>1, <1>2, CallKinds
<1>4. \A t \in Threads : /\ stack[t] = <<g, f>> /\ Line(t) = <<>> \o <<>>
                         /\ sendlist[t] = <<>>
  BY DEF Init, Line
<1> HIDE DEF f, g
<1>5. \A M : ~Has(<<>>, M) /\ Once(<<>>, M)
  BY DEF Has, Once
<1>6. <<g, f>> = s /\ <<>> \o <<>> = <<>>
  OBVIOUS
<1>7. /\ <<>> \in Seq(Calls) /\ <<f>> \o <<>> \in Seq(Calls) /\ s # <<>>
      /\ Head(s) = g
  BY <1>2, PushProperties
<1>8. Alike(<<>>, s, m)
  <2> DEFINE e == <<>>
             y == <<f>> \o e
  <2>1. e \in Seq(Calls) /\ y \in Seq(Calls)
    BY <1>7
  <2> HIDE DEF e
  <2>2. Alike(e, y, m)
    BY <1>2, <1>3, <2>1, AlikePush
  <2> HIDE DEF y
  <2>3. Alike(y, <<g>> \o y, m)
    BY <1>2, <1>3, <2>1, AlikePush
  <2>4. Alike(e, <<g>> \o y, m)
    BY <2>2, <2>3, AlikeTransitive
  <2>. QED
    BY <2>4 DEF e, y
<1>9. Under(<<>>, Handlers(m), Servers(m))
  BY DEF Under
<1>10. /\ ~Has(s, Handlers(m)) /\ ~Has(s, Servers(m))
       /\ \A v \in Threads : ~Has(s, SendersTo(m, v))
       /\ Once(s, Handlers(m)) /\ Once(s, Servers(m)) /\ Once(s, Senders(m))
  BY <1>5, <1>8 DEF Alike
<1> HIDE DEF s
<1>11. \A t \in Threads : stack[t] = s /\ Line(t) = <<>> /\ sendlist[t] = <<>>
  BY <1>4, <1>6
<1>12. Single(m)
  BY <1>5, <1>10, <1>11 DEF Single
<1>13. Nowhere(m)
  <2>1. \A t \in Threads : ~Spot(m, "posted", t) /\ ~Spot(m, "sent", t)
    BY <1>5, <1>11 DEF Spot
  <2>2. \A t \in Threads : ~Spot(m, "serve", t) /\ ~Spot(m, "run", t)
    BY <1>10, <1>11 DEF Spot
  <2>3. \A t \in Threads : ~Spot(m, "push", t)
    BY <1>2, <1>7, <1>11 DEF Spot, At, In, Top, IsPush
  <2>. QED
    BY <2>1, <2>2, <2>3 DEF Nowhere, Kinds
<1>14. NoTarget(m)
  BY <1>10, <1>11 DEF NoTarget, Target
<1>15. m \notin ready
  BY DEF Init
<1>. QED
  BY <1>12, <1>13, <1>14, <1>15 DEF InOnePlace, Nowhere, NoTarget, Kinds

\* Whatever a thread does, every message stays in one place and moves as
\* Messaging lets it.
LEMMA StepPlaces ==
  ASSUME ThreadInv, Placed, [Next]_vars
  PROVE  \A k \in Messages : Kept(k)
<1>1. TypeOK /\ StacksOK /\ Nested /\ StopsQuit /\ OneSender
  BY DEF ThreadInv, Safe, TypeOK
<1>2. CASE UNCHANGED vars
  BY <1>2, StillPlaces DEF vars
<1>3. CASE Next
  <2>1. PICK t \in Threads : \/ Run(t) \/ Request(t) \/ Elapse(t)
                             \/ \E m \in Messages : SocketEvent(t, m)
    BY <1>3 DEF Next
  <2>2. CASE Run(t)
    <3>1. CASE GetReceive(t) \/ GetStop(t) \/ GetWait(t)
      BY <1>1, <3>1, GetPlaces
    <3>2. CASE GetQueue(t)
      BY <1>1, <3>2, GetQueuePlaces
    <3>3. CASE ReceiveNext(t)
      BY <1>1, <3>3, ReceiveEndPlaces, ReceiveMorePlaces
    <3>4. CASE Return(t)
      BY <1>1, <3>4, ReturnPlaces
    <3>5. CASE Destroy(t)
      BY <1>1, <3>5, DestroyPlaces
    <3>6. CASE SendPush(t)
      BY <1>1, <3>6, SendPushPlaces
    <3>7. CASE SendWake(t) \/ SendReceive(t) \/ SendWait(t)
      BY <1>1, <3>7, SendPlaces
    <3>8. CASE SendLoop(t)
      BY <1>1, <3>8, SendPlaces, SendReturnPlaces
    <3>. QED
      BY <2>2, <3>1, <3>2, <3>3, <3>4, <3>5, <3>6, <3>7, <3>8 DEF Run
  <2>3. CASE Request(t)
    <3>1. PICK u \in Threads :
            \/ \E m \in Messages : Post(t, u, m) \/ BeginSend(t, u, m)
            \/ \E m \in Messages, i \in 0 .. Len(dmsgq[u]) :
                 PostDelayed(t, u, m, i)
            \/ \E m \in Messages : Clear(t, u, m)
            \/ Quit(t, u)
      BY <2>3 DEF Request
    <3>2. ASSUME NEW m \in Messages, Post(t, u, m)
          PROVE  \A k \in Messages : Kept(k)
      BY <1>1, <3>2, PostPlaces
    <3>3. ASSUME NEW m \in Messages, BeginSend(t, u, m)
          PROVE  \A k \in Messages : Kept(k)
      BY <1>1, <3>3, BeginSendPlaces
    <3>4. ASSUME NEW m \in Messages, NEW i \in 0 .. Len(dmsgq[u]),
                 PostDelayed(t, u, m, i)
          PROVE  \A k \in Messages : Kept(k)
      BY <1>1, <3>4, PostDelayedPlaces
    <3>5. ASSUME NEW m \in Messages, Clear(t, u, m)
          PROVE  \A k \in Messages : Kept(k)
      BY <1>1, <3>5, ClearPlaces
    <3>6. CASE Quit(t, u)
      BY <1>1, <3>6, QuitPlaces
    <3>. QED
      BY <3>1, <3>2, <3>3, <3>4, <3>5, <3>6
  <2>4. CASE Elapse(t)
    BY <2>4, StillPlaces DEF Elapse
  <2>5. ASSUME NEW m \in Messages, SocketEvent(t, m)
        PROVE  \A k \in Messages : Kept(k)
    BY <1>1, <2>5, SocketEventPlaces
  <2>. QED
    BY <2>1, <2>2, <2>3, <2>4, <2>5
<1>. QED
  BY <1>2, <1>3

\* Threads are told to quit by Quit only, and no message is cleared and comes
\* back.
LEMMA StepStops ==
  ASSUME ThreadInv, [Next]_vars
  PROVE  /\ cleared \subseteq cleared'
         /\ \/ fStop' = fStop
            \/ \E t, u \in Threads : Quit(t, u)
<1>1. CASE UNCHANGED vars
  BY <1>1 DEF vars
<1>2. CASE Next
  <2>1. PICK t \in Threads : \/ Run(t) \/ Request(t) \/ Elapse(t)
                             \/ \E m \in Messages : SocketEvent(t, m)
    BY <1>2 DEF Next
  <2>2. CASE Run(t)
    BY <2>2 DEF Run, GetReceive, GetQueue, GetStop, GetWait, ReceiveNext, Return,
       Destroy, SendPush, SendWake, SendLoop, SendReceive, SendWait, CheckSends
  <2>3. CASE Request(t)
    <3>1. PICK u \in Threads :
            \/ \E m \in Messages : Post(t, u, m) \/ BeginSend(t, u, m)
            \/ \E m \in Messages, i \in 0 .. Len(dmsgq[u]) :
                 PostDelayed(t, u, m, i)
            \/ \E m \in Messages : Clear(t, u, m)
            \/ Quit(t, u)
      BY <2>3 DEF Request
    <3>2. CASE Quit(t, u)
      BY <3>2 DEF Quit
    <3>3. CASE ~Quit(t, u)
      BY <3>1, <3>3 DEF Post, BeginSend, PostDelayed, Clear
    <3>. QED
      BY <3>2, <3>3
  <2>4. CASE Elapse(t) \/ \E m \in Messages : SocketEvent(t, m)
    BY <2>4 DEF Elapse, SocketEvent
  <2>. QED
    BY <2>1, <2>2, <2>3, <2>4
<1>. QED
  BY <1>1, <1>2

\* So a step of the threads is a step of Messaging.
LEMMA StepDelivers ==
  ASSUME ThreadInv, Placed, PhasesArePlaces, PhasesArePlaces', FlagsOK',
         [Next]_vars
  PROVE  Promise!Next
<1>1. StacksOK /\ FlagsOK
  BY DEF ThreadInv, TypeOK
<1>2. CASE fStop' = fStop
  <2>1. \A m \in Messages : PhaseMoves(m)
    BY StepPlaces DEF Kept, PhasesArePlaces
  <2>2. cleared \subseteq cleared' /\ cleared' \subseteq Messages
    BY StepStops DEF FlagsOK
  <2>3. Promise!Deliver
    BY <1>2, <2>1, <2>2, DeliverStep
  <2>. QED
    BY <2>3 DEF Promise!Next
<1>3. CASE \E t, u \in Threads : Quit(t, u)
  <2>1. PICK t \in Threads, u \in Threads : Quit(t, u)
    BY <1>3
  <2>2. \A m \in Messages : Phase(m)' = Phase(m)
    BY <1>1, <2>1, QuitPlaces DEF Still, PhasesArePlaces
  <2>3. cleared' = cleared /\ fStop' = [fStop EXCEPT ![u] = TRUE]
    BY <2>1 DEF Quit
  <2>4. [m \in Messages |-> Phase(m)]' = [m \in Messages |-> Phase(m)]
    BY <2>2
  <2>5. {v \in Threads : fStop[v]}' = {v \in Threads : fStop[v]} \cup {u}
    BY <1>1, <2>3 DEF FlagsOK
  <2>6. Promise!Stop(u)
    BY <2>3, <2>4, <2>5 DEF Promise!Stop
  <2>. QED
    BY <2>6 DEF Promise!Next
<1>. QED
  BY <1>2, <1>3, StepStops

\* A message is in one place only: the queues, the sendlist_ or the hands of
\* one thread, or the hands of its sender, and never twice; a sent message has
\* exactly one Send that waits for it.
THEOREM MessagesAreInOnePlace == Spec => []Placed
<1>1. Init => Placed
  BY InitPlaced
<1>2. ThreadInv /\ Placed /\ [Next]_vars => Placed'
  BY StepPlaces DEF Kept, Placed
<1>. QED
  BY <1>1, <1>2, Invariance, PTL DEF Spec

\* Threads keep what Messaging promises: whatever threads there are and however
\* their handlers post, send to each other, clear and stop threads, a message is
\* handled by the thread it was posted or sent to, once; Send returns only when
\* its message was handled; and a message is dropped only with its handler or by
\* a thread that was told to quit.
THEOREM ThreadsDeliver == Spec => Delivers
<1>1. Init => Promise!Init
  <2> SUFFICES ASSUME Init PROVE Promise!Init
    OBVIOUS
  <2>1. ASSUME NEW m \in Messages PROVE Phase(m) = <<"idle">>
    <3>1. m > used
      BY ThreadAssumption DEF Init, Messages
    <3>. QED
      BY <3>1, Zenon DEF Phase
  <2>2. {t \in Threads : fStop[t]} = {} /\ cleared = {}
    BY DEF Init
  <2>. QED
    BY <2>1, <2>2 DEF Promise!Init, Promise!Idle
<1>2. TypeOK /\ Placed => PhasesArePlaces
  BY PhasesFromPlaces
<1>3. TypeOK' /\ Placed' => PhasesArePlaces'
  BY <1>2, PTL
<1>4. TypeOK' => FlagsOK'
  BY DEF TypeOK
<1>5. /\ ThreadInv /\ TypeOK /\ Placed /\ TypeOK' /\ Placed' /\ [Next]_vars
      => [Promise!Next]_<<[m \in Messages |-> Phase(m)],
                          {t \in Threads : fStop[t]}, cleared>>
  BY <1>2, <1>3, <1>4, StepDelivers
<1>. QED
  BY <1>1, <1>5, Invariance, TypeCorrect, MessagesAreInOnePlace, PTL
  DEF Spec, Delivers, Promise!Spec

=============================================================================
