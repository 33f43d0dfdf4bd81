------------------------------- MODULE MCServer -------------------------------
(* Server on small sets for TLC. *)
EXTENDS Server, TLC

CONSTANT admin
===============================================================================
