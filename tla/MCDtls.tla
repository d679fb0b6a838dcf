------------------------------- MODULE MCDtls -------------------------------
(* Instances of Dtls for TLC. *)
EXTENDS Dtls

=============================================================================
