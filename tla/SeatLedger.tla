------------------------------ MODULE SeatLedger ------------------------------
(***************************************************************************)
(* What planning promises, without cohorts, statuses, tables or text: a    *)
(* ledger of bookings.  A booking takes a mentor and some seats of a       *)
(* venue, from one moment up to another.  It is entered or moved only      *)
(* where the mentor is free and the seats are there at every moment of it, *)
(* and nothing else ever changes it but its removal.                       *)
(***************************************************************************)
EXTENDS Integers, FiniteSets

CONSTANTS Bookings, Venues, Mentors, Capacity, Moments, Sizes

VARIABLE ledger

Free == [seats |-> 0]
Entry == [venue : Venues, mentor : Mentors, starts : Moments, ends : Moments,
          seats : Sizes]

Open == {b \in Bookings : ledger[b] # Free}

Covers(entry, t) == entry.starts <= t /\ t < entry.ends

Taken(B, v, t) ==
    Cardinality(UNION {{b} \X (1 .. ledger[b].seats) :
                         b \in {x \in B : /\ ledger[x].venue = v
                                          /\ Covers(ledger[x], t)}})

\* seats for the entry beside the bookings B, at every moment of it
Room(entry, B) ==
    \A t \in Moments : Covers(entry, t) =>
        Taken(B, entry.venue, t) + entry.seats <= Capacity[entry.venue]

MentorFree(entry) ==
    \A b \in Open : ledger[b].mentor = entry.mentor =>
        ledger[b].ends <= entry.starts \/ entry.ends <= ledger[b].starts

Init == ledger = [b \in Bookings |-> Free]

\* the one booking that a step touches
Only(b) == \A other \in Bookings \ {b} : ledger'[other] = ledger[other]

Enter(b) ==
    LET entry == ledger'[b] IN
    /\ ledger[b] = Free /\ entry # Free
    /\ Only(b)
    /\ MentorFree(entry)
    /\ Room(entry, Open)

Move(b) ==
    LET entry == ledger'[b] IN
    /\ ledger[b] # Free /\ entry # Free
    /\ entry = [ledger[b] EXCEPT !.venue = entry.venue]
    /\ Only(b)
    /\ Room(entry, Open \ {b})

Remove == \A b \in Bookings : ledger'[b] \in {Free, ledger[b]}

Next ==
    /\ ledger' \in [Bookings -> Entry \cup {Free}]
    /\ Remove \/ \E b \in Bookings : Enter(b) \/ Move(b)

Spec == Init /\ [][Next]_ledger
===============================================================================
