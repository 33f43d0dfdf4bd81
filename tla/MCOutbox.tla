------------------------------- MODULE MCOutbox -------------------------------
(* Outbox on small sets for TLC. *)
EXTENDS Outbox

CONSTANT bad
===============================================================================
