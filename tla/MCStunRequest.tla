--------------------------- MODULE MCStunRequest ---------------------------
(* Instance of StunRequest: a STUN request and connectivity pings.          *)
EXTENDS StunRequest
CONSTANTS r1, r2, p1
=============================================================================
