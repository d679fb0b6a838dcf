---------------------------- MODULE MCPseudoTcp ----------------------------
(* Two ends of a pseudo-TCP connection; the client connects. *)
EXTENDS PseudoTcp

ClientWrites == [e \in Ends |-> IF e = "client" THEN 3 ELSE 0]
ServerWrites == [e \in Ends |-> IF e = "server" THEN 3 ELSE 0]
BothWrite == [e \in Ends |-> 2]
=============================================================================
