----------------------------- MODULE MCIceRole -----------------------------
(* Two sessions; b has the greater tie-breaker, either may be the initiator. *)
EXTENDS IceRole

SmallTiebreakers == [s \in Sides |-> IF s = "a" THEN 1 ELSE 2]
=============================================================================
