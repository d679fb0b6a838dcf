------------------------------ MODULE MCThread ------------------------------
(* Two threads: the signaling thread and the worker, which it owns.        *)
EXTENDS Thread
CONSTANTS signaling, worker
=============================================================================
