----------------------------- MODULE AtLeastOnce ------------------------------
(***************************************************************************)
(* What the outbox promises whoever puts a job into it: the job is handled *)
(* to the end at least once before it counts as done, it is done or given  *)
(* up once and for all, and it may be handled again, even after that.      *)
(***************************************************************************)
EXTENDS Naturals

CONSTANTS Jobs, Permanent

VARIABLES
    state,      \* of each job: none, open, succeeded or failed
    runs        \* number of times the handler of a job returned nil

Init ==
    /\ state = [j \in Jobs |-> "none"]
    /\ runs = [j \in Jobs |-> 0]

Settle(j, from, to) ==
    /\ state[j] = from
    /\ state' = [state EXCEPT ![j] = to]
    /\ UNCHANGED runs

Create(j) == Settle(j, "none", "open")

Run(j) ==
    /\ state[j] # "none" /\ j \notin Permanent
    /\ runs' = [runs EXCEPT ![j] = @ + 1]
    /\ UNCHANGED state

Succeed(j) == runs[j] > 0 /\ Settle(j, "open", "succeeded")

GiveUp(j) == Settle(j, "open", "failed")

Next == \E j \in Jobs : Create(j) \/ Run(j) \/ Succeed(j) \/ GiveUp(j)

Spec == Init /\ [][Next]_<<state, runs>>
===============================================================================
