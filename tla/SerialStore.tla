------------------------------ MODULE SerialStore ------------------------------
(***************************************************************************)
(* What a handler may believe of Repository.Transact: requests take effect *)
(* one at a time, all or nothing, and each decides on what is there at the *)
(* moment of its effect.  A request that is refused changes nothing.       *)
(***************************************************************************)
EXTENDS Naturals, FiniteSets

CONSTANTS
    Adds, Cancels, Applies,     \* requests by what they do
    Target,                     \* the addition that a cancellation undoes
    Capacity

VARIABLES
    entries,    \* additions and applications that are in the store
    outcome     \* of every request: open, done or refused

Requests == Adds \cup Cancels \cup Applies

Init == entries = {} /\ outcome = [r \in Requests |-> "open"]

Done(r) == outcome[r] = "open" /\ outcome' = [outcome EXCEPT ![r] = "done"]

Add(r) ==
    /\ Done(r)
    /\ Cardinality(entries \cap Adds) < Capacity
    /\ entries' = entries \cup {r}

Apply(r) == Done(r) /\ entries' = entries \cup {r}

Cancel(r) ==
    /\ Done(r)
    /\ Target[r] \in entries
    /\ entries' = entries \ {Target[r]}

Refuse(S) ==
    /\ \A r \in S : outcome[r] = "open"
    /\ outcome' = [r \in Requests |-> IF r \in S THEN "refused" ELSE outcome[r]]
    /\ UNCHANGED entries

Next ==
    \/ \E r \in Adds : Add(r)
    \/ \E r \in Applies : Apply(r)
    \/ \E r \in Cancels : Cancel(r)
    \/ \E S \in SUBSET Requests : Refuse(S)

Spec == Init /\ [][Next]_<<entries, outcome>>
===============================================================================
