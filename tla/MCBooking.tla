------------------------------- MODULE MCBooking -------------------------------
(* CohortBooking on small sets for TLC. *)
EXTENDS CohortBooking, TLC

CONSTANTS leader1, leader2, operator, safety, v1, v2

MCRoleOf == [u \in Users |-> IF u = operator THEN "operator"
                             ELSE IF u = safety THEN "safety" ELSE "leader"]
MCCapacity == v1 :> 2 @@ v2 :> 1

Symmetry == Permutations(Cohorts) \cup Permutations(Items)
              \cup Permutations(Mentors)
===============================================================================
