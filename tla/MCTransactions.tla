---------------------------- MODULE MCTransactions ----------------------------
(* Transactions on small sets for TLC. *)
EXTENDS Transactions, TLC

CONSTANTS add1, cancel1

MCTarget == cancel1 :> add1
===============================================================================
