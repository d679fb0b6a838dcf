---------------------------- MODULE MCConnection ----------------------------
(* Instance of Connection with the timeouts scaled down, their order kept.  *)
EXTENDS Connection
=============================================================================
