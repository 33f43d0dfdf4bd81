----------------------------- MODULE MCAttendance -----------------------------
(* Attendance on small sets for TLC: one window, one size, no waiting. *)
EXTENDS Attendance, TLC

CONSTANTS leader1, operator, safety, mentor, v1, g1, g2, p1, p2

MCRoleOf == [u \in Users |-> CASE u = operator -> "operator"
                               [] u = safety -> "safety"
                               [] u = mentor -> "mentor"
                               [] OTHER -> "leader"]
MCCapacity == v1 :> 4

Symmetry == Permutations(Cohorts) \cup Permutations(Items)
              \cup Permutations(Mentors) \cup Permutations(GroupNames)

MCBatchInputs ==
    {<<[group |-> g1, participant |-> p1, status |-> "late"],
       [group |-> g1, participant |-> p2, status |-> "absent"]>>,
     <<[group |-> g2, participant |-> p1, status |-> "absent"],
       [group |-> g2, participant |-> p1, status |-> "present"]>>}
===============================================================================
