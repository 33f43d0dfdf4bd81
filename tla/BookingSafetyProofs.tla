-------------------------- MODULE BookingSafetyProofs --------------------------
(***************************************************************************)
(* Nothing is booked twice: no mentor is in two places and no venue is     *)
(* overfull, for every set of cohorts, venues and mentors, as long as      *)
(* every time in a request is a whole second.  (Without that the overlap   *)
(* checks compare texts that do not sort as times do, and TLC finds the    *)
(* double booking.)                                                        *)
(***************************************************************************)
EXTENDS BookingLifecycleProofs, Functions

WholeSeconds == \A t \in ScheduleTimes : WholeSecond(t)

\* Whole seconds sort as texts the way they do as times.
LEMMA WholeTextLT ==
  ASSUME NEW t \in Nat, NEW u \in Nat, WholeSecond(t), WholeSecond(u)
  PROVE  TextLT(t, u) <=> t < u
BY TicksAssumption DEF TextLT, FormatTime

\* What every step but an insertion leaves of the assignments: those that are
\* live afterwards were live before, in the same place.
AssignmentsKept ==
  \A i \in Items : assignments'[i].status \in Live =>
      /\ assignments[i].status \in Live
      /\ assignments'[i].mentor = assignments[i].mentor
      /\ assignments'[i].starts = assignments[i].starts
      /\ assignments'[i].ends = assignments[i].ends

LEMMA KeptExclusive ==
  ASSUME MentorExclusive, AssignmentsKept
  PROVE  MentorExclusive'
BY DEF MentorExclusive, AssignmentsKept

\* Where AddPlanItem finds no overlap of the mentor, there is none in time.
LEMMA NoOverlap ==
  ASSUME WholeSeconds, TypeOK, NEW m, NEW s \in ScheduleTimes,
         NEW e \in ScheduleTimes, ~ MentorHasOverlap(m, s, e),
         NEW j \in Items, assignments[j].status \in Live, assignments[j].mentor = m
  PROVE  e <= assignments[j].starts \/ assignments[j].ends <= s
<1>1. assignments[j] \in AssignmentRow
  BY AssignmentThere DEF Live
<1>2. /\ assignments[j].starts \in ScheduleTimes
      /\ assignments[j].ends \in ScheduleTimes
  BY <1>1 DEF AssignmentRow
<1>3. ~ (TextLT(assignments[j].starts, e) /\ TextLT(s, assignments[j].ends))
  BY DEF MentorHasOverlap, Overlapping
<1>4. ScheduleTimes \subseteq Nat
  BY BookingAssumption
<1>5. ~ (assignments[j].starts < e /\ s < assignments[j].ends)
  BY <1>2, <1>3, <1>4, WholeTextLT DEF WholeSeconds
<1>6. /\ s \in Nat /\ e \in Nat
      /\ assignments[j].starts \in Nat /\ assignments[j].ends \in Nat
  BY <1>2, <1>4
<1>. QED
  BY <1>5, <1>6

LEMMA AddPlanItemExclusive ==
  ASSUME WholeSeconds, IInv, MentorExclusive, NEW u \in Users,
         NEW c \in Cohorts, NEW i \in Items, NEW v \in Venues,
         NEW m \in Mentors, NEW s \in ScheduleTimes, NEW e \in ScheduleTimes,
         AddPlanItem(u, c, i, v, m, s, e)
  PROVE  MentorExclusive'
<1>1. /\ assignments'[i].mentor = m
      /\ assignments'[i].starts = s /\ assignments'[i].ends = e
      /\ \A j \in Items \ {i} : assignments'[j] = assignments[j]
  BY DEF AddPlanItem, CreatePlanItem, IInv, TypeOK
<1>2. ASSUME NEW j \in Items \ {i}, assignments[j].status \in Live,
             assignments[j].mentor = m
      PROVE  e <= assignments[j].starts \/ assignments[j].ends <= s
  BY <1>2, NoOverlap DEF AddPlanItem, IInv
<1>. QED
  BY <1>1, <1>2 DEF MentorExclusive

\* An UPDATE of the status alone moves nobody.
LEMMA WithStatusKept ==
  ASSUME TypeOK, NEW S \in SUBSET Items, NEW to,
         \A i \in S : assignments[i].status \in Live,
         assignments' = WithStatus(assignments, S, to)
  PROVE  AssignmentsKept
<1> SUFFICES ASSUME NEW i \in Items, assignments'[i].status \in Live
             PROVE  /\ assignments[i].status \in Live
                    /\ assignments'[i].mentor = assignments[i].mentor
                    /\ assignments'[i].starts = assignments[i].starts
                    /\ assignments'[i].ends = assignments[i].ends
  BY DEF AssignmentsKept
<1>1. CASE i \in S
  <2>1. assignments[i] \in AssignmentRow
    BY <1>1, AssignmentThere DEF Live
  <2>2. assignments'[i] = [assignments[i] EXCEPT !.status = to]
    BY <1>1 DEF WithStatus
  <2>. QED
    BY <1>1, <2>1, <2>2 DEF AssignmentRow
<1>2. CASE i \notin S
  BY <1>2 DEF WithStatus
<1>. QED
  BY <1>1, <1>2

LEMMA NextExclusive ==
  ASSUME WholeSeconds, IInv, MentorExclusive, [Next]_vars
  PROVE  MentorExclusive'
<1>1. CASE UNCHANGED assignments
  <2>1. AssignmentsKept
    BY <1>1 DEF AssignmentsKept
  <2>. QED
    BY <2>1, KeptExclusive
<1>2. ASSUME NEW u \in Users, NEW c \in Cohorts, Confirm(u, c)
      PROVE  MentorExclusive'
  <2>1. /\ MentorRows(c) \in SUBSET Items
        /\ \A i \in MentorRows(c) : assignments[i].status \in Live
    BY DEF MentorRows, ListPlanItems, Live
  <2>2. assignments' = WithStatus(assignments, MentorRows(c), "confirmed")
    BY <1>2 DEF Confirm, ConfirmResources
  <2>. QED
    BY <2>1, <2>2, WithStatusKept, KeptExclusive DEF IInv
<1>3. ASSUME NEW u \in Users, NEW c \in Cohorts,
             NEW gross \in GrossAmounts, Cancel(u, c, gross)
      PROVE  MentorExclusive'
  <2>1. /\ Releasable(assignments, c) \in SUBSET Items
        /\ \A i \in Releasable(assignments, c) : assignments[i].status \in Live
    BY DEF Releasable
  <2>2. assignments' =
          WithStatus(assignments, Releasable(assignments, c), "released")
    BY <1>3 DEF Cancel, ReleaseResources
  <2>. QED
    BY <2>1, <2>2, WithStatusKept, KeptExclusive DEF IInv
<1>4. ASSUME NEW u \in Users, NEW c \in Cohorts, NEW i \in Items,
             NEW v \in Venues, NEW m \in Mentors, NEW s \in ScheduleTimes,
             NEW e \in ScheduleTimes, AddPlanItem(u, c, i, v, m, s, e)
      PROVE  MentorExclusive'
  BY <1>4, AddPlanItemExclusive
<1>5. ASSUME NEW u \in Users, NEW c \in Cohorts
      PROVE  /\ \A size \in Sizes, s, e \in ScheduleTimes :
                   Apply(u, c, size, s, e) => UNCHANGED assignments
             /\ \A approve \in BOOLEAN :
                   DecideApplication(u, c, approve) => UNCHANGED assignments
             /\ AcknowledgeRisk(u, c) => UNCHANGED assignments
             /\ \A i \in Items, v \in Venues :
                   Reroute(u, c, i, v) => UNCHANGED assignments
  BY DEF Apply, DecideApplication, AcknowledgeRisk, Reroute, plan
<1>6. Tick \/ UNCHANGED vars => UNCHANGED assignments
  BY DEF Tick, vars, plan
<1>7. CASE Tick \/ UNCHANGED vars
  BY <1>1, <1>6, <1>7
<1>8. ASSUME NEW u \in Users, NEW c \in Cohorts, BookingStep(u, c)
      PROVE  MentorExclusive'
  BY <1>1, <1>2, <1>3, <1>4, <1>5, <1>8 DEF BookingStep
<1>. QED
  BY <1>7, <1>8 DEF Next

LEMMA InitExclusive == Init => MentorExclusive
BY DEF Init, MentorExclusive, NoRow, Live

\* No mentor is ever assigned to two overlapping items, of one cohort or of
\* two, if requests are in whole seconds.
THEOREM MentorNeverDoubleBooked ==
  ASSUME WholeSeconds
  PROVE  Spec => []MentorExclusive
<1>1. IInv /\ MentorExclusive /\ [Next]_vars => MentorExclusive'
  BY NextExclusive
<1>. QED
  BY <1>1, InitExclusive, Agreement, PTL DEF Spec

-----------------------------------------------------------------------------
\* The seats that the rows S of a table take, one by one.
SeatSet(table, S) == UNION {{i} \X (1 .. table[i].seats) : i \in S}

LEMMA SeatsOfSeatSet == \A S : SeatsOf(S) = Cardinality(SeatSet(holds, S))
BY DEF SeatsOf, SeatSet

\* One row takes as many seats as it says.
LEMMA OwnSeats ==
  ASSUME NEW i, NEW n \in Nat
  PROVE  IsFiniteSet({i} \X (1 .. n)) /\ Cardinality({i} \X (1 .. n)) = n
<1>1. IsFiniteSet({i}) /\ Cardinality({i}) = 1
  BY FS_Singleton
<1>2. IsFiniteSet(1 .. n) /\ Cardinality(1 .. n) = n
  <2>1. /\ IsFiniteSet(1 .. n)
        /\ Cardinality(1 .. n) = IF 1 > n THEN 0 ELSE n - 1 + 1
    BY FS_Interval
  <2>. QED
    BY <2>1
<1>3. /\ IsFiniteSet({i} \X (1 .. n))
      /\ Cardinality({i} \X (1 .. n)) = Cardinality({i}) * Cardinality(1 .. n)
  BY <1>1, <1>2, FS_Product
<1>. QED
  BY <1>1, <1>2, <1>3

LEMMA SeatSetFinite ==
  ASSUME NEW table, NEW S \in SUBSET Items, \A i \in S : table[i].seats \in Nat
  PROVE  IsFiniteSet(SeatSet(table, S))
<1> DEFINE seatsOf == [i \in S |-> {i} \X (1 .. table[i].seats)]
           rows == {{i} \X (1 .. table[i].seats) : i \in S}
<1>1. IsFiniteSet(S)
  BY BookingAssumption, FS_Subset
<1>2. seatsOf \in Surjection(S, rows)
  BY DEF Surjection
<1>3. IsFiniteSet(rows)
  BY <1>1, <1>2, FS_Surjection
<1>4. \A i \in S : IsFiniteSet({i} \X (1 .. table[i].seats))
  BY OwnSeats
<1>. QED
  BY <1>3, <1>4, FS_UNION DEF SeatSet

\* Fewer rows take no more seats ...
LEMMA SeatsMonotone ==
  ASSUME NEW f, NEW g, NEW S \in SUBSET Items, NEW T \in SUBSET Items,
         S \subseteq T, \A i \in S : f[i].seats = g[i].seats,
         \A i \in T : g[i].seats \in Nat
  PROVE  /\ Cardinality(SeatSet(f, S)) <= Cardinality(SeatSet(g, T))
         /\ Cardinality(SeatSet(f, S)) \in Nat
         /\ Cardinality(SeatSet(g, T)) \in Nat
<1>1. SeatSet(f, S) \subseteq SeatSet(g, T)
  BY DEF SeatSet
<1>2. IsFiniteSet(SeatSet(g, T))
  BY SeatSetFinite
<1>. QED
  BY <1>1, <1>2, FS_Subset, FS_CardinalityType

\* ... and one row more takes no more than its own.
LEMMA SeatsPlusOne ==
  ASSUME NEW f, NEW g, NEW S \in SUBSET Items, NEW T \in SUBSET Items,
         NEW i \in Items, S \subseteq T \cup {i}, f[i].seats \in Nat,
         \A j \in S \ {i} : f[j].seats = g[j].seats,
         \A j \in T : g[j].seats \in Nat
  PROVE  Cardinality(SeatSet(f, S)) <=
            Cardinality(SeatSet(g, T)) + f[i].seats
<1> DEFINE own == {i} \X (1 .. f[i].seats)
<1>1. SeatSet(f, S) \subseteq SeatSet(g, T) \cup own
  BY DEF SeatSet
<1>2. IsFiniteSet(SeatSet(g, T)) /\ Cardinality(SeatSet(g, T)) \in Nat
  BY SeatSetFinite, FS_CardinalityType
<1>3. IsFiniteSet(own) /\ Cardinality(own) = f[i].seats
  BY OwnSeats
<1>4. /\ IsFiniteSet(SeatSet(g, T) \cup own)
      /\ Cardinality(SeatSet(g, T) \cup own) =
            Cardinality(SeatSet(g, T)) + Cardinality(own)
              - Cardinality(SeatSet(g, T) \cap own)
  BY <1>2, <1>3, FS_Union
<1>5. Cardinality(SeatSet(g, T) \cap own) \in Nat
  <2>1. IsFiniteSet(SeatSet(g, T) \cap own)
    BY <1>2, FS_Intersection
  <2>. QED
    BY <2>1, FS_CardinalityType
<1>6. /\ Cardinality(SeatSet(f, S)) \in Nat
      /\ Cardinality(SeatSet(f, S)) <= Cardinality(SeatSet(g, T) \cup own)
  BY <1>1, <1>4, FS_Subset, FS_CardinalityType
<1>. QED
  BY <1>2, <1>3, <1>4, <1>5, <1>6

-----------------------------------------------------------------------------
\* The rows that take seats of a venue at a moment.
TakenAt(v, t) == {i \in LiveAt(holds, t) : holds[i].venue = v}

SeatsTaken(v, t) == Cardinality(SeatSet(holds, TakenAt(v, t)))

LEMMA CapacityBySets ==
  VenueCapacity <=>
    \A v \in Venues, t \in ScheduleTimes : SeatsTaken(v, t) <= Capacity[v]
BY DEF VenueCapacity, SeatsTaken, TakenAt, SeatsOf, SeatSet

LEMMA LiveSeats ==
  ASSUME TypeOK, NEW i \in Items, holds[i].status \in Live
  PROVE  /\ holds[i].seats \in Nat
         /\ holds[i].starts \in ScheduleTimes /\ holds[i].ends \in ScheduleTimes
<1>1. holds[i] \in HoldRow
  BY HoldThere DEF Live
<1>. QED
  BY <1>1 DEF HoldRow

LEMMA TakenSeats ==
  ASSUME TypeOK, NEW v, NEW t
  PROVE  /\ TakenAt(v, t) \in SUBSET Items
         /\ \A i \in TakenAt(v, t) : holds[i].seats \in Nat
BY LiveSeats DEF TakenAt, LiveAt

\* Every row that takes a seat at a moment of [s, e) overlaps [s, e) for SQL,
\* so that the seats the check counts are no fewer than those taken.
LEMMA CountedSeats ==
  ASSUME WholeSeconds, TypeOK, NEW v \in Venues, NEW t \in ScheduleTimes,
         NEW s \in ScheduleTimes, NEW e \in ScheduleTimes, s <= t, t < e
  PROVE  /\ SeatsTaken(v, t) <= CountOverlappingVenueSeats(v, s, e)
         /\ SeatsTaken(v, t) \in Nat
         /\ CountOverlappingVenueSeats(v, s, e) \in Nat
<1> DEFINE T == {i \in Overlapping(holds, s, e) : holds[i].venue = v}
<1>1. TakenAt(v, t) \subseteq T
  <2> SUFFICES ASSUME NEW i \in TakenAt(v, t) PROVE i \in T
    OBVIOUS
  <2>1. /\ i \in Items /\ holds[i].status \in Live /\ holds[i].venue = v
        /\ holds[i].starts <= t /\ t < holds[i].ends
    BY DEF TakenAt, LiveAt
  <2>2. holds[i].starts \in ScheduleTimes /\ holds[i].ends \in ScheduleTimes
    BY <2>1, LiveSeats
  <2>3. ScheduleTimes \subseteq Nat
    BY BookingAssumption
  <2>4. holds[i].starts < e /\ s < holds[i].ends
    BY <2>1, <2>2, <2>3
  <2>5. TextLT(holds[i].starts, e) /\ TextLT(s, holds[i].ends)
    BY <2>2, <2>3, <2>4, WholeTextLT DEF WholeSeconds
  <2>. QED
    BY <2>1, <2>5 DEF Overlapping
<1>2. T \in SUBSET Items /\ \A i \in T : holds[i].seats \in Nat
  BY LiveSeats DEF Overlapping
<1>3. TakenAt(v, t) \in SUBSET Items
  BY TakenSeats
<1>4. CountOverlappingVenueSeats(v, s, e) = Cardinality(SeatSet(holds, T))
  BY SeatsOfSeatSet DEF CountOverlappingVenueSeats
<1>. QED
  BY <1>1, <1>2, <1>3, <1>4, SeatsMonotone DEF SeatsTaken

\* What every step but an insertion and a reroute leaves of the holds.
HoldsKept ==
  \A i \in Items : holds'[i].status \in Live =>
      /\ holds[i].status \in Live
      /\ holds'[i].venue = holds[i].venue
      /\ holds'[i].seats = holds[i].seats
      /\ holds'[i].starts = holds[i].starts
      /\ holds'[i].ends = holds[i].ends

LEMMA KeptCapacity ==
  ASSUME TypeOK, VenueCapacity, HoldsKept
  PROVE  VenueCapacity'
<1> SUFFICES ASSUME NEW v \in Venues, NEW t \in ScheduleTimes
             PROVE  SeatsTaken(v, t)' <= Capacity[v]
  BY DEF VenueCapacity, SeatsTaken, TakenAt, SeatsOf, SeatSet
<1>1. /\ TakenAt(v, t)' \subseteq TakenAt(v, t)
      /\ \A i \in TakenAt(v, t)' : holds'[i].seats = holds[i].seats
  BY DEF TakenAt, LiveAt, HoldsKept
<1>2. /\ SeatsTaken(v, t)' <= SeatsTaken(v, t)
      /\ SeatsTaken(v, t)' \in Nat /\ SeatsTaken(v, t) \in Nat
  <2>1. /\ TakenAt(v, t) \in SUBSET Items
        /\ \A i \in TakenAt(v, t) : holds[i].seats \in Nat
    BY TakenSeats
  <2>2. TakenAt(v, t)' \in SUBSET Items
    BY <1>1, <2>1
  <2>. QED
    BY <1>1, <2>1, <2>2, SeatsMonotone DEF SeatsTaken
<1>3. SeatsTaken(v, t) <= Capacity[v]
  BY CapacityBySets
<1>4. Capacity[v] \in Nat
  BY BookingAssumption
<1>. QED
  BY <1>2, <1>3, <1>4

\* A row that is put where the check has found room, be it new or moved, fits.
LEMMA PlacedCapacity ==
  ASSUME WholeSeconds, TypeOK, VenueCapacity, NEW i \in Items, NEW v \in Venues,
         NEW s \in ScheduleTimes, NEW e \in ScheduleTimes, NEW n \in Nat,
         CountOverlappingVenueSeats(v, s, e) + n <= Capacity[v],
         holds'[i].venue = v, holds'[i].seats = n,
         holds'[i].starts = s, holds'[i].ends = e,
         \A j \in Items \ {i} : holds'[j] = holds[j]
  PROVE  VenueCapacity'
<1> SUFFICES ASSUME NEW w \in Venues, NEW t \in ScheduleTimes
             PROVE  SeatsTaken(w, t)' <= Capacity[w]
  BY DEF VenueCapacity, SeatsTaken, TakenAt, SeatsOf, SeatSet
<1>1. /\ TakenAt(w, t) \in SUBSET Items
      /\ \A j \in TakenAt(w, t) : holds[j].seats \in Nat
  BY TakenSeats
<1>2. /\ TakenAt(w, t)' \in SUBSET Items
      /\ TakenAt(w, t)' \subseteq TakenAt(w, t) \cup {i}
      /\ \A j \in TakenAt(w, t)' \ {i} : holds'[j].seats = holds[j].seats
  BY DEF TakenAt, LiveAt
<1>3. Capacity[w] \in Nat /\ SeatsTaken(w, t) <= Capacity[w]
  BY BookingAssumption, CapacityBySets
<1>4. CASE i \in TakenAt(w, t)'
  <2>1. w = v /\ s <= t /\ t < e
    BY <1>4 DEF TakenAt, LiveAt
  <2>2. SeatsTaken(w, t)' <= SeatsTaken(w, t) + n
    BY <1>1, <1>2, SeatsPlusOne DEF SeatsTaken
  <2>3. /\ SeatsTaken(w, t) <= CountOverlappingVenueSeats(v, s, e)
        /\ SeatsTaken(w, t) \in Nat
        /\ CountOverlappingVenueSeats(v, s, e) \in Nat
    BY <2>1, CountedSeats
  <2>4. SeatsTaken(w, t)' \in Nat
    <3>1. \A j \in TakenAt(w, t)' : holds'[j].seats \in Nat
      BY <1>1, <1>2
    <3>. QED
      BY <1>2, <3>1, SeatsMonotone DEF SeatsTaken
  <2>. QED
    BY <1>3, <2>1, <2>2, <2>3, <2>4
<1>5. CASE i \notin TakenAt(w, t)'
  <2>1. TakenAt(w, t)' \subseteq TakenAt(w, t)
    BY <1>2, <1>5
  <2>2. /\ SeatsTaken(w, t)' <= SeatsTaken(w, t)
        /\ SeatsTaken(w, t)' \in Nat /\ SeatsTaken(w, t) \in Nat
    BY <1>1, <1>2, <1>5, <2>1, SeatsMonotone DEF SeatsTaken
  <2>. QED
    BY <1>3, <2>2
<1>. QED
  BY <1>4, <1>5

LEMMA AddPlanItemCapacity ==
  ASSUME WholeSeconds, IInv, VenueCapacity, NEW u \in Users,
         NEW c \in Cohorts, NEW i \in Items, NEW v \in Venues,
         NEW m \in Mentors, NEW s \in ScheduleTimes, NEW e \in ScheduleTimes,
         AddPlanItem(u, c, i, v, m, s, e)
  PROVE  VenueCapacity'
<1>1. cohorts[c].size \in Nat
  BY CohortThere DEF AddPlanItem, IInv, CohortRow
<1>2. /\ holds'[i].venue = v /\ holds'[i].seats = cohorts[c].size
      /\ holds'[i].starts = s /\ holds'[i].ends = e
      /\ \A j \in Items \ {i} : holds'[j] = holds[j]
  BY DEF AddPlanItem, CreatePlanItem, IInv, TypeOK
<1>3. CountOverlappingVenueSeats(v, s, e) + cohorts[c].size <= Capacity[v]
  BY DEF AddPlanItem
<1>. QED
  BY <1>1, <1>2, <1>3, PlacedCapacity DEF IInv

LEMMA RerouteCapacity ==
  ASSUME WholeSeconds, IInv, VenueCapacity, NEW u \in Users,
         NEW c \in Cohorts, NEW i \in Items, NEW v \in Venues,
         Reroute(u, c, i, v)
  PROVE  VenueCapacity'
<1>1. holds[i] \in HoldRow
  BY HoldThere DEF Reroute, IInv
<1>2. /\ holds'[i] = [holds[i] EXCEPT !.venue = v]
      /\ \A j \in Items \ {i} : holds'[j] = holds[j]
  BY DEF Reroute, SwapVenueHold, IInv, TypeOK
<1>3. /\ holds'[i].venue = v /\ holds'[i].seats = holds[i].seats
      /\ holds'[i].starts = holds[i].starts /\ holds'[i].ends = holds[i].ends
      /\ holds[i].seats \in Nat
      /\ holds[i].starts \in ScheduleTimes /\ holds[i].ends \in ScheduleTimes
  BY <1>1, <1>2 DEF HoldRow
<1>4. CountOverlappingVenueSeats(v, holds[i].starts, holds[i].ends)
        + holds[i].seats <= Capacity[v]
  BY DEF Reroute
<1>. QED
  BY <1>2, <1>3, <1>4, PlacedCapacity DEF IInv

LEMMA WithStatusHoldsKept ==
  ASSUME TypeOK, NEW S \in SUBSET Items, NEW to,
         \A i \in S : holds[i].status \in Live,
         holds' = WithStatus(holds, S, to)
  PROVE  HoldsKept
<1> SUFFICES ASSUME NEW i \in Items, holds'[i].status \in Live
             PROVE  /\ holds[i].status \in Live
                    /\ holds'[i].venue = holds[i].venue
                    /\ holds'[i].seats = holds[i].seats
                    /\ holds'[i].starts = holds[i].starts
                    /\ holds'[i].ends = holds[i].ends
  BY DEF HoldsKept
<1>1. CASE i \in S
  <2>1. holds[i] \in HoldRow
    BY <1>1, HoldThere DEF Live
  <2>2. holds'[i] = [holds[i] EXCEPT !.status = to]
    BY <1>1 DEF WithStatus
  <2>. QED
    BY <1>1, <2>1, <2>2 DEF HoldRow
<1>2. CASE i \notin S
  BY <1>2 DEF WithStatus
<1>. QED
  BY <1>1, <1>2

LEMMA NextCapacity ==
  ASSUME WholeSeconds, IInv, VenueCapacity, [Next]_vars
  PROVE  VenueCapacity'
<1>1. CASE UNCHANGED holds
  <2>1. HoldsKept
    BY <1>1 DEF HoldsKept
  <2>. QED
    BY <2>1, KeptCapacity DEF IInv
<1>2. ASSUME NEW u \in Users, NEW c \in Cohorts, Confirm(u, c)
      PROVE  VenueCapacity'
  <2>1. /\ VenueRows(c) \in SUBSET Items
        /\ \A i \in VenueRows(c) : holds[i].status \in Live
    BY DEF VenueRows, Confirmable, ListPlanItems, Live
  <2>2. holds' = WithStatus(holds, VenueRows(c), "confirmed")
    BY <1>2 DEF Confirm, ConfirmResources
  <2>. QED
    BY <2>1, <2>2, WithStatusHoldsKept, KeptCapacity DEF IInv
<1>3. ASSUME NEW u \in Users, NEW c \in Cohorts,
             NEW gross \in GrossAmounts, Cancel(u, c, gross)
      PROVE  VenueCapacity'
  <2>1. /\ Releasable(holds, c) \in SUBSET Items
        /\ \A i \in Releasable(holds, c) : holds[i].status \in Live
    BY DEF Releasable
  <2>2. holds' = WithStatus(holds, Releasable(holds, c), "released")
    BY <1>3 DEF Cancel, ReleaseResources
  <2>. QED
    BY <2>1, <2>2, WithStatusHoldsKept, KeptCapacity DEF IInv
<1>4. ASSUME NEW u \in Users, NEW c \in Cohorts, NEW i \in Items,
             NEW v \in Venues, NEW m \in Mentors, NEW s \in ScheduleTimes,
             NEW e \in ScheduleTimes, AddPlanItem(u, c, i, v, m, s, e)
      PROVE  VenueCapacity'
  BY <1>4, AddPlanItemCapacity
<1>5. ASSUME NEW u \in Users, NEW c \in Cohorts, NEW i \in Items,
             NEW v \in Venues, Reroute(u, c, i, v)
      PROVE  VenueCapacity'
  BY <1>5, RerouteCapacity
<1>6. ASSUME NEW u \in Users, NEW c \in Cohorts
      PROVE  /\ \A size \in Sizes, s, e \in ScheduleTimes :
                   Apply(u, c, size, s, e) => UNCHANGED holds
             /\ \A approve \in BOOLEAN :
                   DecideApplication(u, c, approve) => UNCHANGED holds
             /\ AcknowledgeRisk(u, c) => UNCHANGED holds
  BY DEF Apply, DecideApplication, AcknowledgeRisk, plan
<1>7. Tick \/ UNCHANGED vars => UNCHANGED holds
  BY DEF Tick, vars, plan
<1>8. CASE Tick \/ UNCHANGED vars
  BY <1>1, <1>7, <1>8
<1>9. ASSUME NEW u \in Users, NEW c \in Cohorts, BookingStep(u, c)
      PROVE  VenueCapacity'
  BY <1>1, <1>2, <1>3, <1>4, <1>5, <1>6, <1>9 DEF BookingStep
<1>. QED
  BY <1>8, <1>9 DEF Next

LEMMA InitCapacity == Init => VenueCapacity
<1> SUFFICES ASSUME Init, NEW v \in Venues, NEW t \in ScheduleTimes
             PROVE  SeatsTaken(v, t) <= Capacity[v]
  BY CapacityBySets
<1>1. TakenAt(v, t) = {}
  BY DEF Init, TakenAt, LiveAt, NoRow, Live
<1>2. SeatSet(holds, {}) = {}
  BY DEF SeatSet
<1>. QED
  BY <1>1, <1>2, FS_EmptySet, BookingAssumption DEF SeatsTaken

\* The live holds of a venue never need more seats than it has, at any time
\* that is asked for, if requests are in whole seconds.
THEOREM VenueNeverOverfull ==
  ASSUME WholeSeconds
  PROVE  Spec => []VenueCapacity
<1>1. IInv /\ VenueCapacity /\ [Next]_vars => VenueCapacity'
  BY NextCapacity
<1>. QED
  BY <1>1, InitCapacity, Agreement, PTL DEF Spec

-----------------------------------------------------------------------------
(* Booking implements the ledger of seats.                                 *)

\* Seats are numbers somebody applied for.
Sized ==
  /\ \A c \in Cohorts : cohorts[c] # NoRow => cohorts[c].size \in Sizes
  /\ \A i \in Items : holds[i] # NoRow => holds[i].seats \in Sizes

LEMMA WithStatusSeats ==
  ASSUME TypeOK, NEW S \in SUBSET Items, \A i \in S : holds[i] # NoRow,
         NEW to, holds' = WithStatus(holds, S, to), NEW i \in Items,
         holds'[i] # NoRow
  PROVE  holds[i] # NoRow /\ holds'[i].seats = holds[i].seats
<1>1. CASE i \in S
  <2>1. holds[i] \in HoldRow
    BY <1>1 DEF TypeOK
  <2>2. holds'[i] = [holds[i] EXCEPT !.status = to]
    BY <1>1 DEF WithStatus
  <2>. QED
    BY <1>1, <2>1, <2>2 DEF HoldRow
<1>2. CASE i \notin S
  BY <1>2 DEF WithStatus
<1>. QED
  BY <1>1, <1>2

LEMMA WrittenSized ==
  ASSUME Sized, NEW c \in Cohorts, NEW to, StatusWritten(c, to),
         \A i \in Items : holds'[i] # NoRow =>
            holds[i] # NoRow /\ holds'[i].seats = holds[i].seats
  PROVE  Sized'
BY DEF Sized, StatusWritten

LEMMA NextSized ==
  ASSUME IInv, Sized, [Next]_vars
  PROVE  Sized'
<1>1. ASSUME NEW u \in Users, NEW c \in Cohorts, NEW size \in Sizes,
             NEW s \in ScheduleTimes, NEW e \in ScheduleTimes,
             Apply(u, c, size, s, e)
      PROVE  Sized'
  <2>1. /\ cohorts'[c].size = size /\ holds' = holds
        /\ \A d \in Cohorts \ {c} : cohorts'[d] = cohorts[d]
    BY <1>1 DEF Apply, CreateCohort, plan, IInv, TypeOK
  <2>. QED
    BY <2>1 DEF Sized
<1>2. ASSUME NEW u \in Users, NEW c \in Cohorts, NEW approve \in BOOLEAN,
             DecideApplication(u, c, approve)
      PROVE  Sized'
  BY <1>2, DecideEffect, WrittenSized
<1>3. ASSUME NEW u \in Users, NEW c \in Cohorts, Confirm(u, c)
      PROVE  Sized'
  <2>1. /\ VenueRows(c) \in SUBSET Items
        /\ \A i \in VenueRows(c) : holds[i] # NoRow
        /\ holds' = WithStatus(holds, VenueRows(c), "confirmed")
    BY <1>3 DEF VenueRows, Confirmable, ListPlanItems, NoRow, Confirm,
       ConfirmResources
  <2>. QED
    BY <1>3, <2>1, WithStatusSeats, ConfirmEffect, WrittenSized DEF IInv
<1>4. ASSUME NEW u \in Users, NEW c \in Cohorts,
             NEW gross \in GrossAmounts, Cancel(u, c, gross)
      PROVE  Sized'
  <2>1. /\ Releasable(holds, c) \in SUBSET Items
        /\ \A i \in Releasable(holds, c) : holds[i] # NoRow
        /\ holds' = WithStatus(holds, Releasable(holds, c), "released")
    BY <1>4 DEF Releasable, Live, NoRow, Cancel, ReleaseResources
  <2>. QED
    BY <1>4, <2>1, WithStatusSeats, CancelEffect, WrittenSized DEF IInv
<1>5. ASSUME NEW u \in Users, NEW c \in Cohorts, NEW i \in Items,
             NEW v \in Venues, NEW m \in Mentors, NEW s \in ScheduleTimes,
             NEW e \in ScheduleTimes, AddPlanItem(u, c, i, v, m, s, e)
      PROVE  Sized'
  <2>1. /\ holds'[i].seats = cohorts[c].size /\ cohorts' = cohorts
        /\ cohorts[c] # NoRow
        /\ \A j \in Items \ {i} : holds'[j] = holds[j]
    BY <1>5 DEF AddPlanItem, CreatePlanItem, IInv, TypeOK, NoRow
  <2>. QED
    BY <2>1 DEF Sized
<1>6. ASSUME NEW u \in Users, NEW c \in Cohorts, NEW i \in Items,
             NEW v \in Venues, Reroute(u, c, i, v)
      PROVE  Sized'
  <2>1. holds[i] \in HoldRow /\ holds[i] # NoRow
    BY <1>6, HoldThere DEF Reroute, IInv
  <2>2. /\ holds'[i] = [holds[i] EXCEPT !.venue = v] /\ cohorts' = cohorts
        /\ \A j \in Items \ {i} : holds'[j] = holds[j]
    BY <1>6 DEF Reroute, SwapVenueHold, IInv, TypeOK
  <2>3. holds'[i].seats = holds[i].seats
    BY <2>1, <2>2 DEF HoldRow
  <2>. QED
    BY <2>1, <2>2, <2>3 DEF Sized
<1>7. ASSUME UNCHANGED <<cohorts, holds>>
      PROVE  Sized'
  BY <1>7 DEF Sized
<1>8. ASSUME NEW u \in Users, NEW c \in Cohorts, AcknowledgeRisk(u, c)
      PROVE  Sized'
  BY <1>7, <1>8 DEF AcknowledgeRisk, plan
<1>9. CASE Tick \/ UNCHANGED vars
  BY <1>7, <1>9 DEF Tick, vars, plan
<1>. QED
  BY <1>1, <1>2, <1>3, <1>4, <1>5, <1>6, <1>8, <1>9 DEF Next, BookingStep

\* The ledger as one function, and what it holds of an item.
Booked == [i \in Items |-> BookingOf(i)]

LEMMA BookedFields ==
  ASSUME NEW i \in Items, holds[i].status \in Live
  PROVE  /\ BookingOf(i) # [seats |-> 0]
         /\ BookingOf(i).venue = holds[i].venue
         /\ BookingOf(i).mentor = assignments[i].mentor
         /\ BookingOf(i).starts = holds[i].starts
         /\ BookingOf(i).ends = holds[i].ends
         /\ BookingOf(i).seats = holds[i].seats
<1>1. BookingOf(i) = [venue |-> holds[i].venue, mentor |-> assignments[i].mentor,
                      starts |-> holds[i].starts, ends |-> holds[i].ends,
                      seats |-> holds[i].seats]
  BY DEF BookingOf
<1>2. \A v, m, s, e, n : [venue |-> v, mentor |-> m, starts |-> s, ends |-> e,
                          seats |-> n] # [seats |-> 0]
  OBVIOUS
<1>. QED
  BY <1>1, <1>2

LEMMA BookedLive ==
  ASSUME NEW i \in Items
  PROVE  BookingOf(i) # [seats |-> 0] <=> holds[i].status \in Live
BY BookedFields DEF BookingOf

LedgerTyped == Booked \in [Items -> Ledger!Entry \cup {Ledger!Free}]

LEMMA BookedType ==
  ASSUME IInv, Sized
  PROVE  LedgerTyped
<1> SUFFICES ASSUME NEW i \in Items
             PROVE  BookingOf(i) \in Ledger!Entry \cup {Ledger!Free}
  BY DEF LedgerTyped, Booked
<1>1. CASE holds[i].status \in Live
  <2>1. holds[i] \in HoldRow /\ holds[i] # NoRow
    BY <1>1, HoldThere DEF Live, IInv
  <2>2. assignments[i] \in AssignmentRow
    BY <2>1 DEF IInv, TypeOK, HoldsPaired, AgreeOn
  <2>3. holds[i].seats \in Sizes
    BY <2>1 DEF Sized
  <2>. QED
    BY <1>1, <2>1, <2>2, <2>3 DEF BookingOf, Ledger!Entry, HoldRow, AssignmentRow
<1>2. CASE holds[i].status \notin Live
  BY <1>2 DEF BookingOf, Ledger!Free
<1>. QED
  BY <1>1, <1>2

LEMMA BookedOpen ==
  Ledger!Open = {i \in Items : holds[i].status \in Live}
BY BookedLive DEF Ledger!Open, Ledger!Free

\* The ledger counts as FiniteSets does.
LEMMA LedgerCardinality == \A S : Ledger!Cardinality(S) = Cardinality(S)
BY DEF Ledger!Cardinality, Cardinality

\* The seats the ledger counts are those the holds take.
LEMMA BookedTaken ==
  ASSUME TypeOK, NEW B \in SUBSET Items, NEW v, NEW t,
         B \subseteq {i \in Items : holds[i].status \in Live}
  PROVE  /\ Ledger!Taken(B, v, t) = Cardinality(SeatSet(holds, TakenAt(v, t) \cap B))
         /\ Ledger!Taken(B, v, t) <= SeatsTaken(v, t)
         /\ Ledger!Taken(B, v, t) \in Nat
<1> DEFINE S == {x \in B : /\ Booked[x].venue = v
                           /\ Ledger!Covers(Booked[x], t)}
<1>1. S = TakenAt(v, t) \cap B
  <2>1. ASSUME NEW x \in B
        PROVE  x \in S <=> x \in TakenAt(v, t)
    <3>1. /\ holds[x].status \in Live /\ x \in Items
          /\ Booked[x] = BookingOf(x)
      BY DEF Booked
    <3>. QED
      BY <3>1, BookedFields DEF TakenAt, LiveAt, Ledger!Covers
  <2>. QED
    BY <2>1
<1>2. UNION {{b} \X (1 .. Booked[b].seats) : b \in S} = SeatSet(holds, S)
  <2>1. \A b \in S : Booked[b].seats = holds[b].seats
    BY BookedFields DEF Booked
  <2>. QED
    BY <2>1 DEF SeatSet
<1>3. Ledger!Taken(B, v, t) =
        Cardinality(UNION {{b} \X (1 .. Booked[b].seats) : b \in S})
  BY LedgerCardinality DEF Ledger!Taken, Booked
<1>4. /\ S \in SUBSET Items /\ S \subseteq TakenAt(v, t)
      /\ TakenAt(v, t) \in SUBSET Items
      /\ \A i \in TakenAt(v, t) : holds[i].seats \in Nat
  BY <1>1, TakenSeats
<1>5. /\ Cardinality(SeatSet(holds, S)) <= Cardinality(SeatSet(holds, TakenAt(v, t)))
      /\ Cardinality(SeatSet(holds, S)) \in Nat
  BY <1>4, SeatsMonotone
<1>. QED
  BY <1>1, <1>2, <1>3, <1>5 DEF SeatsTaken

\* A step that leaves what is live where it was only removes bookings.
LEMMA KeptRemoves ==
  ASSUME IInv, IInv', HoldsKept, AssignmentsKept
  PROVE  Ledger!Remove
<1> SUFFICES ASSUME NEW i \in Items
             PROVE  BookingOf(i)' \in {[seats |-> 0], BookingOf(i)}
  BY DEF Ledger!Remove, Ledger!Free
<1>1. CASE holds'[i].status \in Live
  <2>1. /\ holds[i].status \in Live
        /\ holds'[i].venue = holds[i].venue /\ holds'[i].seats = holds[i].seats
        /\ holds'[i].starts = holds[i].starts /\ holds'[i].ends = holds[i].ends
    BY <1>1 DEF HoldsKept
  <2>2. assignments'[i].status = holds'[i].status
    BY <1>1 DEF IInv, HoldsPaired, AgreeOn, NoRow, Live
  <2>3. assignments'[i].mentor = assignments[i].mentor
    BY <1>1, <2>2 DEF AssignmentsKept
  <2>. QED
    BY <1>1, <2>1, <2>3 DEF BookingOf
<1>2. CASE holds'[i].status \notin Live
  BY <1>2 DEF BookingOf
<1>. QED
  BY <1>1, <1>2

LEMMA AddPlanItemEnters ==
  ASSUME WholeSeconds, IInv, NEW u \in Users,
         NEW c \in Cohorts, NEW i \in Items, NEW v \in Venues,
         NEW m \in Mentors, NEW s \in ScheduleTimes, NEW e \in ScheduleTimes,
         AddPlanItem(u, c, i, v, m, s, e)
  PROVE  Ledger!Enter(i)
<1>1. /\ holds[i] = NoRow
      /\ holds'[i].status \in Live
      /\ holds'[i].venue = v /\ assignments'[i].mentor = m
      /\ holds'[i].starts = s /\ holds'[i].ends = e
      /\ holds'[i].seats = cohorts[c].size
      /\ \A j \in Items \ {i} : /\ holds'[j] = holds[j]
                                /\ assignments'[j] = assignments[j]
  BY DEF AddPlanItem, CreatePlanItem, IInv, TypeOK, HoldsPaired, AgreeOn, Live
<1>2. BookingOf(i) = [seats |-> 0]
  BY <1>1 DEF BookingOf, NoRow, Live
<1>3. \A j \in Items \ {i} : BookingOf(j)' = BookingOf(j)
  BY <1>1 DEF BookingOf
<1>4. PICK entry : entry = BookingOf(i)'
  OBVIOUS
<1>5. /\ entry # [seats |-> 0]
      /\ entry.venue = v /\ entry.mentor = m /\ entry.starts = s
      /\ entry.ends = e /\ entry.seats = cohorts[c].size
  <2>1. entry = [venue |-> v, mentor |-> m, starts |-> s, ends |-> e,
                 seats |-> cohorts[c].size]
    BY <1>1, <1>4 DEF BookingOf
  <2>2. \A n : [venue |-> v, mentor |-> m, starts |-> s, ends |-> e,
                seats |-> n] # [seats |-> 0]
    OBVIOUS
  <2>. QED
    BY <2>1, <2>2
<1>6. Ledger!MentorFree(entry)
  <2> SUFFICES ASSUME NEW b \in Ledger!Open, BookingOf(b).mentor = m
               PROVE  BookingOf(b).ends <= s \/ e <= BookingOf(b).starts
    BY <1>5, BookedOpen DEF Ledger!MentorFree
  <2>1. /\ b \in Items /\ holds[b].status \in Live
        /\ BookingOf(b).mentor = assignments[b].mentor
        /\ BookingOf(b).starts = holds[b].starts
        /\ BookingOf(b).ends = holds[b].ends
    BY BookedOpen, BookedFields
  <2>2. /\ assignments[b].status \in Live
        /\ assignments[b].starts = holds[b].starts
        /\ assignments[b].ends = holds[b].ends
    BY <2>1 DEF IInv, HoldsPaired, AgreeOn, NoRow, Live
  <2>. QED
    BY <2>1, <2>2, NoOverlap DEF AddPlanItem, IInv
<1>7. Ledger!Room(entry, Ledger!Open)
  <2> SUFFICES ASSUME NEW t \in ScheduleTimes, s <= t, t < e
               PROVE  Ledger!Taken(Ledger!Open, v, t) + cohorts[c].size <= Capacity[v]
    BY <1>5 DEF Ledger!Room, Ledger!Covers
  <2>1. /\ Ledger!Taken(Ledger!Open, v, t) <= SeatsTaken(v, t)
        /\ Ledger!Taken(Ledger!Open, v, t) \in Nat
    BY BookedOpen, BookedTaken DEF IInv
  <2>2. /\ SeatsTaken(v, t) <= CountOverlappingVenueSeats(v, s, e)
        /\ SeatsTaken(v, t) \in Nat
        /\ CountOverlappingVenueSeats(v, s, e) \in Nat
    BY CountedSeats DEF IInv
  <2>3. /\ CountOverlappingVenueSeats(v, s, e) + cohorts[c].size <= Capacity[v]
        /\ cohorts[c].size \in Nat /\ Capacity[v] \in Nat
    BY CohortThere, BookingAssumption DEF AddPlanItem, IInv, CohortRow
  <2>. QED
    BY <2>1, <2>2, <2>3
<1>. QED
  BY <1>2, <1>3, <1>4, <1>5, <1>6, <1>7
     DEF Ledger!Enter, Ledger!Only, Ledger!Free

LEMMA RerouteMoves ==
  ASSUME WholeSeconds, IInv, NEW u \in Users, NEW c \in Cohorts,
         NEW i \in Items, NEW v \in Venues, Reroute(u, c, i, v)
  PROVE  Ledger!Move(i)
<1>1. holds[i] \in HoldRow /\ holds[i].status \in Live
  BY HoldThere DEF Reroute, IInv, Live
<1>2. /\ holds'[i] = [holds[i] EXCEPT !.venue = v] /\ assignments' = assignments
      /\ \A j \in Items \ {i} : holds'[j] = holds[j]
  BY DEF Reroute, SwapVenueHold, IInv, TypeOK
<1>3. /\ holds'[i].venue = v /\ holds'[i].seats = holds[i].seats
      /\ holds'[i].starts = holds[i].starts /\ holds'[i].ends = holds[i].ends
      /\ holds'[i].status = holds[i].status
      /\ holds[i].seats \in Nat
      /\ holds[i].starts \in ScheduleTimes /\ holds[i].ends \in ScheduleTimes
  BY <1>1, <1>2 DEF HoldRow
<1>4. \A j \in Items \ {i} : BookingOf(j)' = BookingOf(j)
  BY <1>2 DEF BookingOf
<1>5. /\ BookingOf(i) = [venue |-> holds[i].venue, mentor |-> assignments[i].mentor,
                         starts |-> holds[i].starts, ends |-> holds[i].ends,
                         seats |-> holds[i].seats]
      /\ BookingOf(i)' = [venue |-> v, mentor |-> assignments[i].mentor,
                          starts |-> holds[i].starts, ends |-> holds[i].ends,
                          seats |-> holds[i].seats]
  BY <1>1, <1>2, <1>3 DEF BookingOf
<1>6. PICK entry : entry = BookingOf(i)'
  OBVIOUS
<1>7. /\ entry # [seats |-> 0] /\ BookingOf(i) # [seats |-> 0]
      /\ entry = [BookingOf(i) EXCEPT !.venue = entry.venue]
      /\ entry.venue = v /\ entry.seats = holds[i].seats
      /\ entry.starts = holds[i].starts /\ entry.ends = holds[i].ends
  <2>1. \A w, m, s, e, n : [venue |-> w, mentor |-> m, starts |-> s, ends |-> e,
                            seats |-> n] # [seats |-> 0]
    OBVIOUS
  <2>. QED
    BY <1>5, <1>6, <2>1
<1>8. Ledger!Room(entry, Ledger!Open \ {i})
  <2> SUFFICES ASSUME NEW t \in ScheduleTimes,
                      holds[i].starts <= t, t < holds[i].ends
               PROVE  Ledger!Taken(Ledger!Open \ {i}, v, t) + holds[i].seats
                        <= Capacity[v]
    BY <1>7 DEF Ledger!Room, Ledger!Covers
  <2>1. /\ Ledger!Taken(Ledger!Open \ {i}, v, t) <= SeatsTaken(v, t)
        /\ Ledger!Taken(Ledger!Open \ {i}, v, t) \in Nat
    <3>1. Ledger!Open \ {i} \in SUBSET Items
          /\ Ledger!Open \ {i} \subseteq {j \in Items : holds[j].status \in Live}
      BY BookedOpen
    <3>. QED
      BY <3>1, BookedTaken DEF IInv
  <2>2. PICK n \in Nat : /\ n = CountOverlappingVenueSeats(v, holds[i].starts,
                                                           holds[i].ends)
                         /\ SeatsTaken(v, t) <= n /\ SeatsTaken(v, t) \in Nat
    BY <1>3, CountedSeats DEF IInv
  <2>3. n + holds[i].seats <= Capacity[v] /\ Capacity[v] \in Nat
    BY <2>2, BookingAssumption DEF Reroute
  <2>. QED
    BY <1>3, <2>1, <2>2, <2>3
<1>. QED
  BY <1>4, <1>6, <1>7, <1>8 DEF Ledger!Move, Ledger!Only, Ledger!Free

LEMMA ConfirmKeeps ==
  ASSUME IInv, NEW u \in Users, NEW c \in Cohorts, Confirm(u, c)
  PROVE  HoldsKept /\ AssignmentsKept
<1>1. /\ VenueRows(c) \in SUBSET Items /\ MentorRows(c) \in SUBSET Items
      /\ \A i \in VenueRows(c) : holds[i].status \in Live
      /\ \A i \in MentorRows(c) : assignments[i].status \in Live
  BY DEF VenueRows, MentorRows, Confirmable, ListPlanItems, Live
<1>2. /\ holds' = WithStatus(holds, VenueRows(c), "confirmed")
      /\ assignments' = WithStatus(assignments, MentorRows(c), "confirmed")
  BY DEF Confirm, ConfirmResources
<1>. QED
  BY <1>1, <1>2, WithStatusHoldsKept, WithStatusKept DEF IInv

LEMMA CancelKeeps ==
  ASSUME IInv, NEW u \in Users, NEW c \in Cohorts,
         NEW gross \in GrossAmounts, Cancel(u, c, gross)
  PROVE  HoldsKept /\ AssignmentsKept
<1>1. /\ Releasable(holds, c) \in SUBSET Items
      /\ Releasable(assignments, c) \in SUBSET Items
      /\ \A i \in Releasable(holds, c) : holds[i].status \in Live
      /\ \A i \in Releasable(assignments, c) : assignments[i].status \in Live
  BY DEF Releasable
<1>2. /\ holds' = WithStatus(holds, Releasable(holds, c), "released")
      /\ assignments' =
            WithStatus(assignments, Releasable(assignments, c), "released")
  BY DEF Cancel, ReleaseResources
<1>. QED
  BY <1>1, <1>2, WithStatusHoldsKept, WithStatusKept DEF IInv

LEMMA StillLedgered ==
  ASSUME IInv, IInv', UNCHANGED <<holds, assignments>>
  PROVE  Ledger!Remove
<1>1. HoldsKept /\ AssignmentsKept
  BY DEF HoldsKept, AssignmentsKept
<1>. QED
  BY <1>1, KeptRemoves

LEMMA NextLedgered ==
  ASSUME WholeSeconds, IInv, IInv', [Next]_vars
  PROVE  Ledger!Remove \/ \E b \in Items : Ledger!Enter(b) \/ Ledger!Move(b)
<1>1. ASSUME UNCHANGED <<holds, assignments>>
      PROVE  Ledger!Remove
  BY <1>1, StillLedgered
<1>2. ASSUME NEW u \in Users, NEW c \in Cohorts
      PROVE  /\ Confirm(u, c) => Ledger!Remove
             /\ \A gross \in GrossAmounts : Cancel(u, c, gross) => Ledger!Remove
  BY ConfirmKeeps, CancelKeeps, KeptRemoves
<1>3. ASSUME NEW u \in Users, NEW c \in Cohorts
      PROVE  /\ \A size \in Sizes, s, e \in ScheduleTimes :
                   Apply(u, c, size, s, e) => UNCHANGED <<holds, assignments>>
             /\ \A approve \in BOOLEAN :
                   DecideApplication(u, c, approve) =>
                      UNCHANGED <<holds, assignments>>
             /\ AcknowledgeRisk(u, c) => UNCHANGED <<holds, assignments>>
  BY DEF Apply, DecideApplication, AcknowledgeRisk, plan
<1>4. Tick \/ UNCHANGED vars => UNCHANGED <<holds, assignments>>
  BY DEF Tick, vars, plan
<1>5. ASSUME NEW u \in Users, NEW c \in Cohorts, NEW i \in Items, NEW v \in Venues
      PROVE  /\ \A m \in Mentors, s, e \in ScheduleTimes :
                   AddPlanItem(u, c, i, v, m, s, e) => Ledger!Enter(i)
             /\ Reroute(u, c, i, v) => Ledger!Move(i)
  BY AddPlanItemEnters, RerouteMoves
<1>. QED
  BY <1>1, <1>2, <1>3, <1>4, <1>5 DEF Next, BookingStep

LEMMA LedgerStep ==
  ASSUME LedgerTyped',
         Ledger!Remove \/ \E b \in Items : Ledger!Enter(b) \/ Ledger!Move(b)
  PROVE  Ledger!Next
<1>1. Booked' \in [Items -> Ledger!Entry \cup {Ledger!Free}]
  BY DEF LedgerTyped, Ledger!Entry, Ledger!Free
<1>. QED
  BY <1>1 DEF Ledger!Next, Booked

LEMMA InitLedgered == Init => Ledger!Init /\ Sized
BY DEF Init, Ledger!Init, Ledger!Free, BookingOf, Sized, NoRow, Live

\* While requests are in whole seconds, every step of the booking handlers is
\* a step of the ledger of seats: it enters or moves one booking where there
\* is room in real time, or removes some, or leaves the ledger as it is.
THEOREM BookingIsLedger ==
  ASSUME WholeSeconds
  PROVE  Spec => ImplementsLedger
<1>1. IInv /\ Sized /\ [Next]_vars => Sized'
  BY NextSized
<1>2. Spec => [](IInv /\ Sized)
  BY <1>1, InitLedgered, Agreement, PTL DEF Spec
<1>3. IInv /\ Sized => LedgerTyped
  BY BookedType
<1>4. IInv /\ Sized /\ [Next]_vars /\ IInv' /\ LedgerTyped' => Ledger!Next
  BY NextLedgered, LedgerStep
<1>5. Init => Ledger!Init
  BY InitLedgered
<1>. QED
  BY <1>2, <1>3, <1>4, <1>5, PTL DEF Spec, ImplementsLedger, Ledger!Spec
===============================================================================
