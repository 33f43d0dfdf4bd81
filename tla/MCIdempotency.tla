---------------------------- MODULE MCIdempotency -----------------------------
(* Idempotency on small sets for TLC. *)
EXTENDS Idempotency, TLC

Symmetry == Permutations(Requests) \cup Permutations(Payloads)
===============================================================================
