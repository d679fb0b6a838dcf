----------------------------- MODULE Messaging -----------------------------
(***************************************************************************)
(* What talk_base::Thread promises to its users, without stacks, locks and *)
(* wake-ups: a message is handled by the thread it was posted or sent to,  *)
(* once, and Send returns only when its message was handled.  A message is *)
(* dropped only with its handler, or by a thread that was told to quit.    *)
(***************************************************************************)
CONSTANTS Threads, Messages

VARIABLES
  phase,    \* how far each message is, and on which thread
  stopped,  \* the threads that were told to quit
  cleared   \* the messages whose handlers were destroyed

Idle       == <<"idle">>
Waiting(t) == <<"waiting", t>>   \* in a queue of t, or on its way there
Running(t) == <<"running", t>>   \* posted, or called on t itself
Serving(t) == <<"serving", t>>   \* sent by another thread
Handled(t) == <<"handled", t>>   \* so, but Send has not returned yet
Over       == <<"over">>

Init == phase = [m \in Messages |-> Idle] /\ stopped = {} /\ cleared = {}

\* The moves of one message.
Call(t)   == {<<Idle, Waiting(t)>>, <<Idle, Running(t)>>}
Handle(t) == {<<Waiting(t), Running(t)>>, <<Waiting(t), Serving(t)>>}
Finish(t) == {<<Running(t), Over>>, <<Serving(t), Handled(t)>>}
Return(t) == {<<Handled(t), Over>>}
Refuse    == {<<Idle, Over>>}
Drop(t)   == {<<Waiting(t), Handled(t)>>, <<Waiting(t), Over>>}

Moves(m) ==
  (UNION {Call(t) \cup Handle(t) \cup Finish(t) \cup Return(t) : t \in Threads})
    \cup (UNION {Refuse \cup Drop(t) : t \in stopped})
    \cup (UNION {Drop(t) : t \in {u \in Threads : m \in cleared'}})

\* A thread may finish one message and take the next one in the same step.
Deliver ==
  /\ DOMAIN phase' = Messages
  /\ \A m \in Messages :
       LET from == phase[m]
           to   == phase'[m]
       IN from = to \/ <<from, to>> \in Moves(m)
  /\ stopped' = stopped
  /\ cleared \subseteq cleared' /\ cleared' \subseteq Messages

Stop(t) == stopped' = stopped \cup {t} /\ UNCHANGED <<phase, cleared>>

Next == Deliver \/ \E t \in Threads : Stop(t)

Spec == Init /\ [][Next]_<<phase, stopped, cleared>>
=============================================================================
