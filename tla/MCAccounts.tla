------------------------------ MODULE MCAccounts ------------------------------
(* Accounts on small sets for TLC. *)
EXTENDS Accounts, TLC

Symmetry == Permutations(Emails) \cup Permutations(Tokens)
              \cup Permutations(Requests)
===============================================================================
