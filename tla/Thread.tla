------------------------------- MODULE Thread -------------------------------
(***************************************************************************)
(* The threads every other component runs on: classes Thread and           *)
(* MessageQueue of talk/base/thread.cc and messagequeue.cc over            *)
(* PhysicalSocketServer of physicalsocketserver.cc.                        *)
(*                                                                         *)
(* A thread is a stack of C++ calls: its message loop (Get) at the bottom, *)
(* handlers (OnMessage) above it, and in them Sends that wait for another  *)
(* thread and meanwhile serve the messages sent to their own               *)
(* (ReceiveSends), which calls handlers again.  A step is what happens     *)
(* under one lock, or one unlocked access to what threads share.           *)
(*                                                                         *)
(* A handler may post, send, delay a message or stop a thread, in any      *)
(* order, or clear a message whose handler is destroyed; each message is   *)
(* used once.  A socket event counts as a message too.  Of time, only the  *)
(* order of the delayed messages is kept.                                  *)
(***************************************************************************)
EXTENDS Naturals, Sequences, SequencesExt

CONSTANTS
  Threads,
  Owned,       \* the threads that another one may stop
  MaxMessages, \* bound: messages and socket events
  MaxDelayed   \* bound: which of them may be delayed: the first ones

ASSUME ThreadAssumption ==
  /\ Owned \subseteq Threads
  /\ MaxMessages \in Nat /\ MaxDelayed \in Nat

VARIABLES
  stack,      \* of each thread: its calls, the innermost one first
  msgq,       \* msgq_
  dmsgq,      \* dmsgq_, sorted by the time at which they are due
  due,        \* how many of those that is already past
  sendlist,   \* sendlist_: the message and the thread that waits for it
  hasSends,   \* has_sends_, also read without the lock
  signaled,   \* fSignaled_ of the socket server's Signaler
  fWait,      \* its fWait_
  fStop,      \* fStop_
  gone,       \* the threads destroyed
  ready,      \* the sent messages whose ready flag is set
  cleared,    \* the messages removed because their handler was destroyed
  used        \* how many messages there have been

vars == <<stack, msgq, dmsgq, due, sendlist, hasSends, signaled, fWait, fStop,
          gone, ready, cleared, used>>

\* The calls on a stack.
GetCall(pc, timed) == [fn |-> "Get", pc |-> pc, timed |-> timed]
HandlerCall(m) == [fn |-> "OnMessage", msg |-> m]
SendCall(pc, m, t, waited) ==
  [fn |-> "Send", pc |-> pc, msg |-> m, to |-> t, waited |-> waited]
ReceiveCall(entries) == [fn |-> "ReceiveSends", handling |-> entries]
StopCall(t) == [fn |-> "Stop", to |-> t]

Top(t)       == Head(stack[t])
In(t, fn)    == stack[t] # <<>> /\ Top(t).fn = fn
At(t, fn, p) == In(t, fn) /\ Top(t).pc = p

Push(t, f)    == stack' = [stack EXCEPT ![t] = <<f>> \o @]
Pop(t)        == stack' = [stack EXCEPT ![t] = Tail(@)]
Continue(t, f) == stack' = [stack EXCEPT ![t] = <<f>> \o Tail(@)]
\* The innermost call goes on as f and calls g.
Call(t, f, g) == stack' = [stack EXCEPT ![t] = <<g, f>> \o Tail(@)]

WakeUp(ts) == signaled' = [t \in Threads |-> signaled[t] \/ t \in ts]

\* Messages are told apart by number; threads start in the handler of a 0.
Messages == 1 .. MaxMessages
Use(m) == m = used + 1 /\ used' = m

-----------------------------------------------------------------------------
(* The message loop.                                                       *)

\* Get starts a round: it looks for sent messages, at first without the lock.
\* Send does the same while it waits.
CheckSends(t, f) ==
  /\ IF hasSends[t] THEN Call(t, f, ReceiveCall(<<>>)) ELSE Continue(t, f)
  /\ UNCHANGED <<msgq, dmsgq, due, sendlist, hasSends, signaled, fWait, fStop,
                 gone, ready, cleared, used>>

GetReceive(t) ==
  /\ At(t, "Get", "receive")
  /\ CheckSends(t, GetCall("queue", FALSE))

\* Under the lock: delayed messages that are due join the queue, and its first
\* message is dispatched.
GetQueue(t) ==
  /\ At(t, "Get", "queue")
  /\ LET q    == msgq[t] \o SubSeq(dmsgq[t], 1, due[t])
         rest == SubSeq(dmsgq[t], due[t] + 1, Len(dmsgq[t]))
     IN /\ dmsgq' = [dmsgq EXCEPT ![t] = rest]
        /\ due' = [due EXCEPT ![t] = 0]
        /\ IF q = <<>>
           THEN /\ Continue(t, GetCall("stop", rest # <<>>))
                /\ UNCHANGED msgq
           ELSE /\ Call(t, GetCall("receive", FALSE), HandlerCall(Head(q)))
                /\ msgq' = [msgq EXCEPT ![t] = Tail(q)]
  /\ UNCHANGED <<sendlist, hasSends, signaled, fWait, fStop, gone, ready,
                 cleared, used>>

\* Nothing to do: leave the loop if told to quit, otherwise enter Wait.
GetStop(t) ==
  /\ At(t, "Get", "stop")
  /\ IF fStop[t]
     THEN Pop(t) /\ UNCHANGED fWait
     ELSE /\ Continue(t, [Top(t) EXCEPT !.pc = "select"])
          /\ fWait' = [fWait EXCEPT ![t] = TRUE]
  /\ UNCHANGED <<msgq, dmsgq, due, sendlist, hasSends, signaled, fStop, gone,
                 ready, cleared, used>>

\* PhysicalSocketServer::Wait.  It returns when the signal, which clears
\* itself, has reset fWait_, here or in a Wait within a socket event; or when
\* the next delayed message is due.
GetWait(t) ==
  /\ At(t, "Get", "select")
  /\ \/ /\ signaled[t]
        /\ signaled' = [signaled EXCEPT ![t] = FALSE]
        /\ fWait' = [fWait EXCEPT ![t] = FALSE]
     \/ /\ ~fWait[t] \/ (Top(t).timed /\ due[t] > 0)
        /\ UNCHANGED <<signaled, fWait>>
  /\ Continue(t, GetCall("receive", FALSE))
  /\ UNCHANGED <<msgq, dmsgq, due, sendlist, hasSends, fStop, gone, ready,
                 cleared, used>>

\* The main loop handles socket events in Wait as well, in the same round as a
\* signal, whose turn comes first.
SocketEvent(t, m) ==
  /\ At(t, "Get", "select") /\ fWait[t]
  /\ Use(m)
  /\ signaled' = [signaled EXCEPT ![t] = FALSE]
  /\ fWait' = [fWait EXCEPT ![t] = ~signaled[t]]
  /\ Push(t, HandlerCall(m))
  /\ UNCHANGED <<msgq, dmsgq, due, sendlist, hasSends, fStop, gone, ready,
                 cleared>>

\* The time comes for the next delayed message of t.
Elapse(t) ==
  /\ due[t] < Len(dmsgq[t])
  /\ due' = [due EXCEPT ![t] = @ + 1]
  /\ UNCHANGED <<stack, msgq, dmsgq, sendlist, hasSends, signaled, fWait,
                 fStop, gone, ready, cleared, used>>

-----------------------------------------------------------------------------
(* Serving sent messages.                                                  *)

\* Set the ready flags of sent messages and wake their senders.
\* Variant (EveryMessageEnds): nobody is told.
ReleaseNobody(entries) == UNCHANGED <<ready, signaled>>
Release(entries) ==
  /\ ready' = ready \cup {e.msg : e \in entries}
  /\ WakeUp({e.from : e \in entries})

\* The entry that ReceiveSends has just handled.
\* Variant (Delivers): the one it is about to handle.
AnsweredEarly(t) == IF sendlist[t] = <<>> THEN {} ELSE {Head(sendlist[t])}
Answered(t) == Range(Top(t).handling)

\* Under the lock: report the message just handled to its sender, and take the
\* next one.
ReceiveNext(t) ==
  /\ In(t, "ReceiveSends")
  /\ Release(Answered(t))
  /\ LET q == sendlist[t]
     IN IF q = <<>>
        THEN /\ Pop(t)
             /\ hasSends' = [hasSends EXCEPT ![t] = FALSE]
             /\ UNCHANGED sendlist
        ELSE /\ Call(t, ReceiveCall(<<Head(q)>>), HandlerCall(Head(q).msg))
             /\ sendlist' = [sendlist EXCEPT ![t] = Tail(q)]
             /\ UNCHANGED hasSends
  /\ UNCHANGED <<msgq, dmsgq, due, fWait, fStop, gone, cleared, used>>

-----------------------------------------------------------------------------
(* What a handler may do.                                                  *)

Return(t) ==
  /\ In(t, "OnMessage")
  /\ Pop(t)
  /\ UNCHANGED <<msgq, dmsgq, due, sendlist, hasSends, signaled, fWait, fStop,
                 gone, ready, cleared, used>>

\* Post holds the lock of the queue; it does nothing when the thread quits.
Post(t, u, m) ==
  /\ In(t, "OnMessage") /\ u \notin gone
  /\ Use(m)
  /\ IF fStop[u]
     THEN UNCHANGED <<msgq, signaled>>
     ELSE msgq' = [msgq EXCEPT ![u] = Append(@, m)] /\ WakeUp({u})
  /\ UNCHANGED <<stack, dmsgq, due, sendlist, hasSends, fWait, fStop, gone,
                 ready, cleared>>

\* The new message comes after those that are due, and after those of the same
\* time.
PostDelayed(t, u, m, i) ==
  /\ In(t, "OnMessage") /\ u \notin gone
  /\ Use(m)
  /\ i \in due[u] .. Len(dmsgq[u]) /\ m <= MaxDelayed
  /\ IF fStop[u]
     THEN UNCHANGED <<dmsgq, signaled>>
     ELSE /\ dmsgq' = [dmsgq EXCEPT ![u] =
                         SubSeq(@, 1, i) \o <<m>> \o SubSeq(@, i + 1, Len(@))]
          /\ WakeUp({u})
  /\ UNCHANGED <<stack, msgq, due, sendlist, hasSends, fWait, fStop, gone,
                 ready, cleared>>

\* Send to the own thread is a call; otherwise it goes through sendlist_.
BeginSend(t, u, m) ==
  /\ In(t, "OnMessage") /\ u \notin gone
  /\ Use(m)
  /\ IF fStop[u] THEN UNCHANGED stack
     ELSE Push(t, IF u = t THEN HandlerCall(m)
                           ELSE SendCall("push", m, u, FALSE))
  /\ UNCHANGED <<msgq, dmsgq, due, sendlist, hasSends, signaled, fWait, fStop,
                 gone, ready, cleared>>

SendPush(t) ==
  /\ At(t, "Send", "push")
  /\ LET u == Top(t).to
     IN /\ sendlist' = [sendlist EXCEPT ![u] =
                          Append(@, [msg |-> Top(t).msg, from |-> t])]
        /\ hasSends' = [hasSends EXCEPT ![u] = TRUE]
  /\ Continue(t, [Top(t) EXCEPT !.pc = "wake"])
  /\ UNCHANGED <<msgq, dmsgq, due, signaled, fWait, fStop, gone, ready,
                 cleared, used>>

SendWake(t) ==
  /\ At(t, "Send", "wake")
  /\ WakeUp({Top(t).to})
  /\ Continue(t, [Top(t) EXCEPT !.pc = "loop"])
  /\ UNCHANGED <<msgq, dmsgq, due, sendlist, hasSends, fWait, fStop, gone,
                 ready, cleared, used>>

\* A Send that waited may have taken a signal that was meant for a call below
\* it on the stack, and signals again.
\* Variant (NoLostWakeUp): it does not.
SignalLost(t) == {}
SignalAgain(t) == IF Top(t).waited THEN {t} ELSE {}

SendLoop(t) ==
  /\ At(t, "Send", "loop")
  /\ IF Top(t).msg \in ready
     THEN /\ Pop(t)
          /\ WakeUp(SignalAgain(t))
          /\ ready' = ready \ {Top(t).msg}
     ELSE /\ Continue(t, [Top(t) EXCEPT !.pc = "receive"])
          /\ UNCHANGED <<signaled, ready>>
  /\ UNCHANGED <<msgq, dmsgq, due, sendlist, hasSends, fWait, fStop, gone,
                 cleared, used>>

SendReceive(t) ==
  /\ At(t, "Send", "receive")
  /\ CheckSends(t, [Top(t) EXCEPT !.pc = "select"])

\* Wait again, for the signal only.
SendWait(t) ==
  /\ At(t, "Send", "select") /\ signaled[t]
  /\ signaled' = [signaled EXCEPT ![t] = FALSE]
  /\ fWait' = [fWait EXCEPT ![t] = FALSE]
  /\ Continue(t, [Top(t) EXCEPT !.pc = "loop", !.waited = TRUE])
  /\ UNCHANGED <<msgq, dmsgq, due, sendlist, hasSends, fStop, gone, ready,
                 cleared, used>>

\* Clear, from the destructor of a handler: its message is removed, from
\* whichever list it is in, and whoever waits for it is released.
Clear(t, u, m) ==
  /\ In(t, "OnMessage") /\ u \notin gone
  /\ \/ \E i \in DOMAIN sendlist[u] :
          /\ sendlist[u][i].msg = m
          /\ Release({sendlist[u][i]})
          /\ sendlist' = [sendlist EXCEPT ![u] = RemoveAt(@, i)]
          /\ UNCHANGED <<msgq, dmsgq, due>>
     \/ \E i \in DOMAIN msgq[u] :
          /\ msgq[u][i] = m
          /\ msgq' = [msgq EXCEPT ![u] = RemoveAt(@, i)]
          /\ UNCHANGED <<dmsgq, due, sendlist, ready, signaled>>
     \/ \E i \in DOMAIN dmsgq[u] :
          /\ dmsgq[u][i] = m
          /\ dmsgq' = [dmsgq EXCEPT ![u] = RemoveAt(@, i)]
          /\ due' = [due EXCEPT ![u] = IF i <= @ THEN @ - 1 ELSE @]
          /\ UNCHANGED <<msgq, sendlist, ready, signaled>>
  /\ cleared' = cleared \cup {m}
  /\ UNCHANGED <<stack, hasSends, fWait, fStop, gone, used>>

\* Stop, from the destructor: Quit, then Join.  It is the owner's duty that no
\* other thread is about to use u, one that merely waits for its Send excepted.
Quit(t, u) ==
  /\ In(t, "OnMessage") /\ u \in Owned \ {t} /\ ~fStop[u]
  /\ \A v \in Threads : At(v, "Send", "push") \/ At(v, "Send", "wake")
                         => Top(v).to # u
  /\ fStop' = [fStop EXCEPT ![u] = TRUE]
  /\ WakeUp({u})
  /\ Push(t, StopCall(u))
  /\ UNCHANGED <<msgq, dmsgq, due, sendlist, hasSends, fWait, gone, ready,
                 cleared, used>>

Join(u) == stack[u] = <<>>

\* u has left its loop: Join returns, and Clear releases whoever waits for u.
Destroy(t) ==
  /\ In(t, "Stop") /\ Join(Top(t).to)
  /\ LET u == Top(t).to
         left == Range(sendlist[u])
     IN /\ Release(left)
        /\ sendlist' = [sendlist EXCEPT ![u] = <<>>]
        /\ msgq' = [msgq EXCEPT ![u] = <<>>]
        /\ dmsgq' = [dmsgq EXCEPT ![u] = <<>>]
        /\ due' = [due EXCEPT ![u] = 0]
        /\ gone' = gone \cup {u}
  /\ Pop(t)
  /\ UNCHANGED <<hasSends, fWait, fStop, cleared, used>>

-----------------------------------------------------------------------------
Init ==
  /\ stack = [t \in Threads |->
                <<HandlerCall(0), GetCall("receive", FALSE)>>]
  /\ msgq = [t \in Threads |-> <<>>]
  /\ dmsgq = [t \in Threads |-> <<>>]
  /\ due = [t \in Threads |-> 0]
  /\ sendlist = [t \in Threads |-> <<>>]
  /\ hasSends = [t \in Threads |-> FALSE]
  /\ signaled = [t \in Threads |-> FALSE]
  /\ fWait = [t \in Threads |-> FALSE]
  /\ fStop = [t \in Threads |-> FALSE]
  /\ gone = {} /\ ready = {} /\ cleared = {} /\ used = 0

\* The calls a handler makes.
Request(t) ==
  \E u \in Threads :
    \/ \E m \in Messages : Post(t, u, m) \/ BeginSend(t, u, m)
    \/ \E m \in Messages, i \in 0 .. Len(dmsgq[u]) : PostDelayed(t, u, m, i)
    \/ \E m \in Messages : Clear(t, u, m)
    \/ Quit(t, u)

\* What a thread does by itself.
Run(t) ==
  \/ GetReceive(t) \/ GetQueue(t) \/ GetStop(t) \/ GetWait(t)
  \/ ReceiveNext(t) \/ Return(t) \/ Destroy(t)
  \/ SendPush(t) \/ SendWake(t) \/ SendLoop(t) \/ SendReceive(t) \/ SendWait(t)

Next ==
  \E t \in Threads : \/ Run(t) \/ Request(t) \/ Elapse(t)
                     \/ \E m \in Messages : SocketEvent(t, m)

Spec == Init /\ [][Next]_vars

\* Threads are scheduled, handlers return and time passes.
FairSpec ==
  /\ Spec
  /\ \A t \in Threads : WF_vars(Run(t)) /\ WF_vars(Elapse(t))

-----------------------------------------------------------------------------
(* Properties.                                                             *)

Calls == [fn : {"Get"}, pc : {"receive", "queue", "stop", "select"},
          timed : BOOLEAN]
         \cup [fn : {"OnMessage"}, msg : Messages \cup {0}]
         \cup [fn : {"Send"}, msg : Messages, to : Threads, waited : BOOLEAN,
               pc : {"push", "wake", "loop", "receive", "select"}]
         \cup [fn : {"ReceiveSends"},
               handling : {<<>>} \cup {<<[msg |-> m, from |-> t]>> :
                                        m \in Messages, t \in Threads}]
         \cup [fn : {"Stop"}, to : Owned]

StacksOK ==
  /\ stack \in [Threads -> Seq(Calls)]
  /\ gone \subseteq {t \in Owned : fStop[t] /\ stack[t] = <<>>}

QueuesOK ==
  /\ msgq \in [Threads -> Seq(Messages)]
  /\ dmsgq \in [Threads -> Seq(Messages)]
  /\ due \in [Threads -> Nat] /\ \A t \in Threads : due[t] <= Len(dmsgq[t])
  /\ sendlist \in [Threads -> Seq([msg : Messages, from : Threads])]

FlagsOK ==
  /\ hasSends \in [Threads -> BOOLEAN] /\ signaled \in [Threads -> BOOLEAN]
  /\ fWait \in [Threads -> BOOLEAN] /\ fStop \in [Threads -> BOOLEAN]
  /\ ready \subseteq Messages /\ cleared \subseteq Messages
  /\ used \in 0 .. MaxMessages

TypeOK == StacksOK /\ QueuesOK /\ FlagsOK

\* t sleeps in select and nothing that has been signaled would wake it.
Asleep(t) ==
  /\ (At(t, "Get", "select") /\ fWait[t]) \/ At(t, "Send", "select")
  /\ ~signaled[t]

\* No wake-up is lost, whoever consumed it: a thread that sleeps has nothing to
\* do.  No message sent to it waits (but for one whose sender has still to call
\* WakeUp); if it waits for its own Send, that was not answered; if it is in
\* its main loop, it has no posted message, was not told to quit, and wakes up
\* by itself for its delayed messages.
NoLostWakeUp ==
  \A t \in Threads : Asleep(t) =>
    /\ sendlist[t] # <<>>
         => \E u \in Threads : At(u, "Send", "wake") /\ Top(u).to = t
    /\ In(t, "Send") => Top(t).msg \notin ready
    /\ In(t, "Get") => /\ msgq[t] = <<>> /\ ~fStop[t]
                       /\ dmsgq[t] # <<>> => Top(t).timed

\* The one way for threads to block each other: a thread sends to one that
\* does nothing but wait, in Join, for a thread that waits in turn.
Deadlocked ==
  \E S \in (SUBSET Threads) \ {{}} : \A t \in S :
    \/ In(t, "Stop") /\ Top(t).to \in S
    \/ In(t, "Send") /\ Top(t).to \in S /\ In(Top(t).to, "Stop")

\* Where a message is, as Messaging sees it.
Runs(c, m)   == c.fn = "OnMessage" /\ c.msg = m
Serves(c, m) == c.fn = "ReceiveSends" /\ \E e \in Range(c.handling) : e.msg = m
Sends(c, m)  == c.fn = "Send" /\ c.msg = m
CallsOn(t, P(_, _), m) == \E i \in DOMAIN stack[t] : P(stack[t][i], m)
WaitsAt(t, m) ==
  \/ \E i \in DOMAIN msgq[t] : msgq[t][i] = m
  \/ \E i \in DOMAIN dmsgq[t] : dmsgq[t][i] = m
  \/ \E i \in DOMAIN sendlist[t] : sendlist[t][i].msg = m
  \/ \E u \in Threads :
       At(u, "Send", "push") /\ Top(u).msg = m /\ Top(u).to = t

Phase(m) ==
  LET serving == {t \in Threads : CallsOn(t, Serves, m)}
      running == {t \in Threads : CallsOn(t, Runs, m)}
      waiting == {t \in Threads : WaitsAt(t, m)}
      sending == UNION {{stack[u][i].to : i \in {j \in DOMAIN stack[u] :
                                                Sends(stack[u][j], m)}}
                          : u \in Threads}
      in(name, ts) == <<name, CHOOSE t \in ts : TRUE>>
  IN IF m > used            THEN <<"idle">>
     ELSE IF serving # {} THEN in("serving", serving)
     ELSE IF running # {} THEN in("running", running)
     ELSE IF waiting # {} THEN in("waiting", waiting)
     ELSE IF sending # {} THEN in("handled", sending)
     ELSE <<"over">>

Promise == INSTANCE Messaging
             WITH phase <- [m \in Messages |-> Phase(m)],
                  stopped <- {t \in Threads : fStop[t]},
                  cleared <- cleared

\* Threads keep what Messaging promises.
Delivers == Promise!Spec

\* No message is under way: all threads are in their main loops or over.
Quiet == \A t \in Threads :
           /\ msgq[t] = <<>> /\ dmsgq[t] = <<>> /\ sendlist[t] = <<>>
           /\ Len(stack[t]) <= 1

\* Every message is handled or dropped, every Send returns and every thread
\* gets back to its main loop - in whatever order threads call each other, as
\* long as none of them sends to a thread that joins it.  (Messages are
\* finitely many, so this is to say that again and again none is under way.)
EveryMessageEnds == []<>(Deadlocked \/ Quiet)

=============================================================================
