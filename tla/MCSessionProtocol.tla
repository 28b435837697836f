-------------------------- MODULE MCSessionProtocol ---------------------------
(* One session with any command. *)
EXTENDS SessionProtocol
=============================================================================
