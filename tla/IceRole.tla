------------------------------ MODULE IceRole ------------------------------
(***************************************************************************)
(* ICE roles of two sessions (BaseSession, Transport, Port): each side     *)
(* starts its transports as controlling or controlled, finds out from the  *)
(* checks of the other side when both claim the same role, and settles it  *)
(* by tie-breakers.  Checks and 487 error responses are lost, delayed and  *)
(* duplicated, and a conflict found on the worker thread is a message to   *)
(* the signaling thread, which then sets the role of one transport after   *)
(* the other with a Send to the worker.                                    *)
(***************************************************************************)
EXTENDS Integers, FiniteSets

CONSTANTS
  Contents,       \* the contents that have a transport, the same on both sides
  Tiebreaker,     \* ice_tiebreaker_ of each session, 64 random bits
  LateTransports  \* whether contents are added after a role was switched

Sides   == {"a", "b"}
Peer(s) == IF s = "a" THEN "b" ELSE "a"

ASSUME TiebreakerAssumption ==
  Tiebreaker \in [Sides -> Nat] /\ Tiebreaker["a"] # Tiebreaker["b"]

VARIABLES
  initiator,  \* initiator_ of each session, fixed with its first description
  role,       \* ice_role_ of each side's transport and of its ports
  switched,   \* role_switch_
  conflicts,  \* MSG_ROLECONFLICT messages: the side and content they are for
  changing,   \* transports that OnRoleConflict has yet to call
  checks,     \* binding requests on their way, with the role they carry
  errors      \* 487 responses on their way: the side and content they go to

vars == <<initiator, role, switched, conflicts, changing, checks, errors>>

Roles == {"CONTROLLING", "CONTROLLED"}
None  == "NONE"

Initial(s)  == IF initiator[s] THEN "CONTROLLING" ELSE "CONTROLLED"
Reversed(s) == IF initiator[s] THEN "CONTROLLED" ELSE "CONTROLLING"

Checks == [from : Sides, content : Contents, role : Roles]

----------------------------------------------------------------------------
Init ==
  /\ initiator \in [Sides -> BOOLEAN]
  /\ role = [s \in Sides |-> [c \in Contents |-> None]]
  /\ switched = [s \in Sides |-> FALSE]
  /\ conflicts = {}
  /\ changing = [s \in Sides |-> {}]
  /\ checks = {}
  /\ errors = {}

\* The signaling thread waits for the worker inside OnRoleConflict.
SignalingFree(s) == changing[s] = {}

\* GetOrCreateTransportProxy
CreateTransport(s, c) ==
  /\ SignalingFree(s) /\ role[s][c] = None
  /\ switched[s] => LateTransports
  /\ role' = [role EXCEPT ![s][c] = Initial(s)]
  /\ UNCHANGED <<initiator, switched, conflicts, changing, checks, errors>>

\* ConnectionRequest::Prepare
Ping(s, c) ==
  /\ role[s][c] # None
  /\ checks' = checks \cup {[from |-> s, content |-> c, role |-> role[s][c]]}
  /\ UNCHANGED <<initiator, role, switched, conflicts, changing, errors>>

\* Variant (OnlyTheLoserSwitches): the greater tie-breaker wins in either role.
MustSwitchAlike(s, r) == Tiebreaker[Peer(s)] >= Tiebreaker[s]

\* Whether a side in role r gives way to a peer that claims the same role.
MustSwitch(s, r) ==
  IF r = "CONTROLLING" THEN Tiebreaker[Peer(s)] >= Tiebreaker[s]
  ELSE Tiebreaker[Peer(s)] < Tiebreaker[s]

\* Port::MaybeIceRoleConflict, when a check arrives.
MaybeIceRoleConflict(k, rest) ==
  LET s == Peer(k.from)
      r == role[s][k.content]
  IN  /\ k \in checks /\ r # None
      /\ checks' = rest
      /\ \/ /\ k.role # r
            /\ UNCHANGED <<conflicts, errors>>
         \/ /\ k.role = r /\ MustSwitch(s, r)
            /\ conflicts' = conflicts \cup {<<s, k.content>>}
            /\ UNCHANGED errors
         \/ /\ k.role = r /\ ~MustSwitch(s, r)
            /\ errors' = errors \cup {<<k.from, k.content>>}
            /\ UNCHANGED conflicts
      /\ UNCHANGED <<initiator, role, switched, changing>>

\* A check may arrive again.
ReceiveCheck(k) ==
  \/ MaybeIceRoleConflict(k, checks)
  \/ MaybeIceRoleConflict(k, checks \ {k})

\* Connection::HandleRoleConflictFromPeer, when a 487 response arrives.  Its
\* transaction is over then: the response is not heard again.
ReceiveError(e) ==
  /\ e \in errors
  /\ errors' = errors \ {e}
  /\ conflicts' = conflicts \cup {e}
  /\ UNCHANGED <<initiator, role, switched, changing, checks>>

Lose ==
  /\ \/ \E k \in checks : checks' = checks \ {k} /\ UNCHANGED errors
     \/ \E e \in errors : errors' = errors \ {e} /\ UNCHANGED checks
  /\ UNCHANGED <<initiator, role, switched, conflicts, changing>>

\* Variant (TypeOK): reverses transports that do not exist as well.
OnRoleConflictAll(s, c) ==
  /\ <<s, c>> \in conflicts /\ SignalingFree(s)
  /\ conflicts' = conflicts \ {<<s, c>>}
  /\ switched' = [switched EXCEPT ![s] = TRUE]
  /\ changing' = [changing EXCEPT ![s] = IF switched[s] THEN {} ELSE Contents]
  /\ UNCHANGED <<initiator, role, checks, errors>>

\* Variant (RolesSettle): reverses only the transport that met the conflict.
OnRoleConflictOne(s, c) ==
  /\ <<s, c>> \in conflicts /\ SignalingFree(s)
  /\ conflicts' = conflicts \ {<<s, c>>}
  /\ switched' = [switched EXCEPT ![s] = TRUE]
  /\ changing' = [changing EXCEPT ![s] = IF switched[s] THEN {} ELSE {c}]
  /\ UNCHANGED <<initiator, role, checks, errors>>

\* BaseSession::OnRoleConflict: the roles are reversed once.
OnRoleConflict(s, c) ==
  /\ <<s, c>> \in conflicts /\ SignalingFree(s)
  /\ conflicts' = conflicts \ {<<s, c>>}
  /\ switched' = [switched EXCEPT ![s] = TRUE]
  /\ changing' = [changing EXCEPT ![s] =
       IF switched[s] THEN {} ELSE {d \in Contents : role[s][d] # None}]
  /\ UNCHANGED <<initiator, role, checks, errors>>

\* Transport::SetIceRole_w, for its channels and their ports.
SetIceRole(s, c) ==
  /\ c \in changing[s]
  /\ changing' = [changing EXCEPT ![s] = @ \ {c}]
  /\ role' = [role EXCEPT ![s][c] = Reversed(s)]
  /\ UNCHANGED <<initiator, switched, conflicts, checks, errors>>

Next ==
  \/ \E s \in Sides, c \in Contents :
       \/ CreateTransport(s, c) \/ Ping(s, c)
       \/ OnRoleConflict(s, c) \/ SetIceRole(s, c)
  \/ \E k \in Checks : ReceiveCheck(k)
  \/ \E e \in Sides \X Contents : ReceiveError(e)
  \/ Lose

Spec == Init /\ [][Next]_vars

\* Transports are pinged again and again, a check that is sent again and again
\* arrives now and then, and threads run.  Nothing is assumed of 487 responses.
FairSpec ==
  /\ Spec
  /\ \A s \in Sides, c \in Contents :
       /\ WF_vars(Ping(s, c))
       /\ WF_vars(OnRoleConflict(s, c))
       /\ WF_vars(SetIceRole(s, c))
  /\ \A k \in Checks : SF_vars(ReceiveCheck(k))

----------------------------------------------------------------------------
(* Properties                                                              *)

\* The variables have their types, and only transports that exist are changed.
TypeOK ==
  /\ initiator \in [Sides -> BOOLEAN]
  /\ role \in [Sides -> [Contents -> Roles \cup {None}]]
  /\ switched \in [Sides -> BOOLEAN]
  /\ conflicts \subseteq Sides \X Contents
  /\ changing \in [Sides -> SUBSET Contents]
  /\ \A s \in Sides : \A c \in changing[s] : role[s][c] # None
  /\ checks \subseteq Checks
  /\ errors \subseteq Sides \X Contents

\* Both sides started in the same role and it is s that has to give it up.
Loser(s) ==
  /\ Initial(s) = Initial(Peer(s))
  /\ IF initiator[s] THEN Tiebreaker[s] < Tiebreaker[Peer(s)]
                     ELSE Tiebreaker[s] > Tiebreaker[Peer(s)]

\* Only the side that loses by tie-breaker reverses its roles, and only when
\* there is a conflict: checks and errors sent before a switch and heard after
\* it never make the other side switch as well.
OnlyTheLoserSwitches == \A s \in Sides : switched[s] => Loser(s)

\* Once both sides have reversed or kept their roles, no transport that exists
\* on both sides stays in conflict.
RolesSettle ==
  \A c \in Contents :
    []<>(\/ \E s \in Sides : role[s][c] = None
         \/ role["a"][c] # role["b"][c])
=============================================================================
