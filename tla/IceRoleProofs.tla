--------------------------- MODULE IceRoleProofs ---------------------------
(***************************************************************************)
(* For any contents and any two different tie-breakers, only the loser of  *)
(* a conflict reverses its roles.  The invariant has to speak of what is   *)
(* still on its way: every check carries the role that its sender started  *)
(* in, unless the sender has switched, and every 487 response and every    *)
(* MSG_ROLECONFLICT is for the loser.                                      *)
(***************************************************************************)
EXTENDS IceRole, TLAPS

\* A role that side s may have, or may have had.
RoleOf(s, r) == r = Initial(s) \/ (switched[s] /\ r = Reversed(s))

RolesAreKnown ==
  \A s \in Sides : \A c \in Contents :
    role[s][c] # None => RoleOf(s, role[s][c])

ChecksAreKnown == \A k \in checks : RoleOf(k.from, k.role)

OnlyLosersHear ==
  /\ \A e \in conflicts : Loser(e[1])
  /\ \A e \in errors : Loser(e[1])

ChangesFollowSwitch == \A s \in Sides : changing[s] # {} => switched[s]

IInv ==
  /\ TypeOK
  /\ RolesAreKnown
  /\ ChecksAreKnown
  /\ OnlyLosersHear
  /\ ChangesFollowSwitch
  /\ OnlyTheLoserSwitches

----------------------------------------------------------------------------
\* At most one side loses (Tiebreaker is compared strictly in Loser).
LEMMA OneLoser ==
  ASSUME NEW s \in Sides, Loser(s)
  PROVE  ~Loser(Peer(s))
  BY TiebreakerAssumption, SMT DEF Loser, Sides, Peer, Initial

\* The initial state satisfies the invariant.
LEMMA InitHolds == Init => IInv
  BY DEF Init, IInv, TypeOK, RolesAreKnown, ChecksAreKnown, OnlyLosersHear,
         ChangesFollowSwitch, OnlyTheLoserSwitches, Sides, Checks, Roles, None

\* MaybeIceRoleConflict finds a conflict only when both sides started in the
\* same role, and blames the loser of it.
LEMMA ConflictBlamesTheLoser ==
  ASSUME IInv, NEW k \in checks, role[Peer(k.from)][k.content] = k.role
  PROVE  IF MustSwitch(Peer(k.from), k.role)
         THEN Loser(Peer(k.from)) ELSE Loser(k.from)
<1> DEFINE s == k.from
           p == Peer(k.from)
<1>1. k \in Checks /\ s \in Sides /\ p \in Sides /\ Peer(p) = s
  BY DEF IInv, TypeOK, Checks, Sides, Peer
<1>2. RoleOf(s, k.role) /\ RoleOf(p, k.role)
  BY <1>1 DEF IInv, ChecksAreKnown, RolesAreKnown, Checks, Roles, None
<1>3. initiator \in [Sides -> BOOLEAN]
  BY DEF IInv, TypeOK
<1>4. ~(switched[s] /\ switched[p])
  BY <1>1, OneLoser DEF IInv, OnlyTheLoserSwitches
<1>5. Initial(s) = k.role /\ Initial(p) = k.role
  <2>1. CASE switched[s]
    <3>1. Initial(s) = Initial(p)
      BY <2>1, <1>1 DEF IInv, OnlyTheLoserSwitches, Loser
    <3>2. k.role = Initial(p)
      BY <2>1, <1>2, <1>4 DEF RoleOf
    <3> QED BY <3>1, <3>2
  <2>2. CASE switched[p]
    <3>1. Initial(p) = Initial(s)
      BY <2>2, <1>1 DEF IInv, OnlyTheLoserSwitches, Loser
    <3>2. k.role = Initial(s)
      BY <2>2, <1>2, <1>4 DEF RoleOf
    <3> QED BY <3>1, <3>2
  <2>3. CASE ~switched[s] /\ ~switched[p]
    BY <2>3, <1>2 DEF RoleOf
  <2> QED BY <2>1, <2>2, <2>3
<1>6. (s = "a" /\ p = "b") \/ (s = "b" /\ p = "a")
  BY <1>1 DEF Sides, Peer
<1>7. MustSwitch(p, k.role) => Loser(p)
  BY <1>1, <1>3, <1>5, <1>6, TiebreakerAssumption
     DEF MustSwitch, Loser, Initial, Sides
<1>8. ~MustSwitch(p, k.role) => Loser(s)
  BY <1>1, <1>3, <1>5, <1>6, TiebreakerAssumption
     DEF MustSwitch, Loser, Initial, Sides
<1> QED BY <1>7, <1>8

\* Every step preserves the invariant.
LEMMA NextPreserves == IInv /\ [Next]_vars => IInv'
<1> SUFFICES ASSUME IInv, [Next]_vars PROVE IInv'
  OBVIOUS
<1> USE DEF IInv, TypeOK, RolesAreKnown, ChecksAreKnown, OnlyLosersHear,
            ChangesFollowSwitch, OnlyTheLoserSwitches
<1>1. ASSUME NEW s \in Sides, NEW c \in Contents, CreateTransport(s, c)
      PROVE  IInv'
  BY <1>1 DEF CreateTransport, SignalingFree, RoleOf, Loser, Initial, Reversed,
              Roles
<1>2. ASSUME NEW s \in Sides, NEW c \in Contents, Ping(s, c)
      PROVE  IInv'
  BY <1>2 DEF Ping, RoleOf, Loser, Initial, Reversed, Roles, Checks, None
<1>3. ASSUME NEW s \in Sides, NEW c \in Contents, OnRoleConflict(s, c)
      PROVE  IInv'
  <2>1. Loser(s)
    BY <1>3 DEF OnRoleConflict
  <2>2. TypeOK'
    BY <1>3 DEF OnRoleConflict
  <2>3. OnlyTheLoserSwitches'
    BY <1>3, <2>1 DEF OnRoleConflict, Loser, Initial
  <2>4. RolesAreKnown' /\ ChecksAreKnown'
    BY <1>3 DEF OnRoleConflict, RoleOf, Initial, Reversed, Checks
  <2>5. OnlyLosersHear' /\ ChangesFollowSwitch'
    BY <1>3 DEF OnRoleConflict, Loser, Initial
  <2> QED BY <2>2, <2>3, <2>4, <2>5
<1>4. ASSUME NEW s \in Sides, NEW c \in Contents, SetIceRole(s, c)
      PROVE  IInv'
  <2>1. switched[s]
    BY <1>4 DEF SetIceRole
  <2>2. TypeOK'
    BY <1>4 DEF SetIceRole, Reversed, Roles, None
  <2>3. RolesAreKnown'
    BY <1>4, <2>1 DEF SetIceRole, RoleOf, Initial, Reversed
  <2>4. ChecksAreKnown' /\ OnlyLosersHear' /\ ChangesFollowSwitch'
        /\ OnlyTheLoserSwitches'
    BY <1>4 DEF SetIceRole, RoleOf, Loser, Initial, Reversed
  <2> QED BY <2>2, <2>3, <2>4
<1>5. ASSUME NEW k \in Checks, NEW rest \in SUBSET checks,
             MaybeIceRoleConflict(k, rest)
      PROVE  IInv'
  <2> DEFINE p == Peer(k.from)
  <2>1. k \in checks /\ k.from \in Sides /\ k.content \in Contents
        /\ p \in Sides
    BY <1>5 DEF MaybeIceRoleConflict, Checks, Sides, Peer
  <2>2. UNCHANGED <<initiator, role, switched, changing>> /\ checks' = rest
    BY <1>5 DEF MaybeIceRoleConflict
  <2>3. \/ conflicts' = conflicts /\ errors' = errors
        \/ /\ role[p][k.content] = k.role /\ MustSwitch(p, k.role)
           /\ conflicts' = conflicts \cup {<<p, k.content>>}
           /\ errors' = errors
        \/ /\ role[p][k.content] = k.role /\ ~MustSwitch(p, k.role)
           /\ errors' = errors \cup {<<k.from, k.content>>}
           /\ conflicts' = conflicts
    BY <1>5 DEF MaybeIceRoleConflict
  <2>4. role[p][k.content] = k.role =>
          IF MustSwitch(p, k.role) THEN Loser(p) ELSE Loser(k.from)
    BY <2>1, ConflictBlamesTheLoser
  <2>5. OnlyLosersHear'
    BY <2>2, <2>3, <2>4 DEF Loser, Initial
  <2>6. TypeOK'
    BY <2>1, <2>2, <2>3
  <2>7. RolesAreKnown' /\ ChecksAreKnown' /\ ChangesFollowSwitch'
        /\ OnlyTheLoserSwitches'
    BY <2>2 DEF RoleOf, Loser, Initial, Reversed
  <2> QED BY <2>5, <2>6, <2>7
<1>6. ASSUME NEW e \in Sides \X Contents, ReceiveError(e)
      PROVE  IInv'
  BY <1>6 DEF ReceiveError, RoleOf, Loser, Initial, Reversed
<1>7. ASSUME Lose PROVE IInv'
  BY <1>7 DEF Lose, RoleOf, Loser, Initial, Reversed
<1>8. ASSUME UNCHANGED vars PROVE IInv'
  BY <1>8 DEF vars, RoleOf, Loser, Initial, Reversed
<1> QED
  <2>1. \A k \in Checks : ReceiveCheck(k) =>
          \E rest \in SUBSET checks : MaybeIceRoleConflict(k, rest)
    BY DEF ReceiveCheck
  <2> QED BY <1>1, <1>2, <1>3, <1>4, <1>5, <1>6, <1>7, <1>8, <2>1 DEF Next

\* The invariant of the roles, for any contents and tie-breakers.
THEOREM RolesInvariant == Spec => []IInv
  BY InitHolds, NextPreserves, PTL DEF Spec

\* Type correctness of the roles (IceRole's TypeOK).
THEOREM TypeCorrect == Spec => []TypeOK
<1>1. IInv => TypeOK
  BY DEF IInv
<1> QED BY <1>1, RolesInvariant, PTL

\* However checks, 487 responses and messages between threads are delayed or
\* duplicated, BaseSession::OnRoleConflict reverses the roles of
\* the loser only.
THEOREM LoserSwitches == Spec => []OnlyTheLoserSwitches
<1>1. IInv => OnlyTheLoserSwitches
  BY DEF IInv
<1> QED BY <1>1, RolesInvariant, PTL

\* So the two sides never both reverse their roles, which would only swap the
\* conflict around.
THEOREM NeverBothSwitch == Spec => [](~(switched["a"] /\ switched["b"]))
<1>1. OnlyTheLoserSwitches => ~(switched["a"] /\ switched["b"])
  <2>1. "a" \in Sides /\ "b" \in Sides /\ Peer("a") = "b"
    BY DEF Sides, Peer
  <2> QED BY <2>1, OneLoser DEF OnlyTheLoserSwitches
<1> QED BY <1>1, LoserSwitches, PTL
=============================================================================
