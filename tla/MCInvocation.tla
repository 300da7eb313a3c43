---------------------------- MODULE MCInvocation ----------------------------
(* One call of every kind, with an agent that writes a few times. *)
EXTENDS Invocation
=============================================================================
