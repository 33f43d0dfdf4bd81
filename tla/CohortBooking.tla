----------------------------- MODULE CohortBooking -----------------------------
(***************************************************************************)
(* A cohort from application to confirmation, rerouting and cancellation:  *)
(* internal/service/{applications,planning,reroute,cancellation}.go over   *)
(* the tables of internal/storage.                                         *)
(*                                                                         *)
(* Every handler runs in one Repository.Transact.  SQLite transactions     *)
(* here are serializable (one writer, and a reader whose snapshot is stale *)
(* cannot become a writer), and one that fails, is cancelled or crashes    *)
(* leaves no trace, so a handler is one action and its failures stutter.   *)
(* AcknowledgeRisk alone runs outside a transaction, but what it reads     *)
(* (owner, plan revision) no handler ever changes.                         *)
(*                                                                         *)
(* Row identifiers come from security.RandomID: an action that inserts     *)
(* takes any identifier no row has.  Free text and the version of holds    *)
(* and assignments are left out: no guard of another handler reads them.   *)
(* Of the audit rows the number is kept, by action and cohort.             *)
(*                                                                         *)
(* An operator named Bug... is a fault the code does not have: put in      *)
(* place of the operator that follows it, it must break a property.        *)
(***************************************************************************)
EXTENDS Integers, Sequences, FiniteSets, TimeText, Int64

CONSTANTS
    Users, RoleOf,        \* accounts and their role, fixed once created
    Cohorts, Items,       \* identifiers of cohorts and of plan items
    Venues, Capacity,     \* the catalogue: venues with their seats
    Mentors,
    Sizes,                \* participant counts that are applied for
    ScheduleTimes,        \* times that appear in requests
    HoldFor,              \* ticks a venue hold lasts (two hours)
    GrossAmounts,         \* amounts of cents that cancellations name
    ShortNotice,          \* ticks before the start (24 hours, 72 hours)
    LongNotice,
    MaxNow,               \* bound: the clock stops here
    MaxReroutes           \* bound: reroutes in all

Roles == {"leader", "operator", "venue_admin", "mentor", "safety"}

ASSUME BookingAssumption ==
    /\ RoleOf \in [Users -> Roles]
    /\ IsFiniteSet(Items)
    /\ Capacity \in [Venues -> Nat \ {0}]
    /\ Sizes \subseteq Nat
    /\ ScheduleTimes \subseteq Nat
    /\ HoldFor \in Nat \ {0}
    /\ GrossAmounts \subseteq Int
    /\ ShortNotice \in Nat /\ LongNotice \in Nat
    /\ MaxNow \in Nat
    /\ MaxReroutes \in Nat

VARIABLES
    now,            \* service.clock
    cohorts,        \* table cohorts, NoRow where there is none
    applications,   \* status of the cohort's application
    planItems,      \* table plan_items
    holds,          \* table venue_holds, by plan item (UNIQUE)
    assignments,    \* table mentor_assignments, by plan item (UNIQUE)
    acks,           \* risk_acknowledgements: <<cohort, plan revision>>
    reroutes,       \* table reroutes, in insertion order
    settlements,    \* table settlements, by cohort (UNIQUE)
    jobs,           \* outbox_jobs created: number by <<kind, cohort>>
    audit           \* audit_events: number by <<action, cohort>>

vars == <<now, cohorts, applications, planItems, holds, assignments, acks,
          reroutes, settlements, jobs, audit>>
plan == <<planItems, holds, assignments>>

-----------------------------------------------------------------------------
NoRow == [status |-> "none"]

CohortStatus == {"draft", "applied", "planned", "confirmed", "active",
                 "completed", "cancelled", "suspended"}
ApplicationStatus == {"none", "submitted", "approved", "rejected", "withdrawn"}
ResourceStatus == {"held", "confirmed", "released", "expired"}
JobKinds == {"confirmation.notice", "settlement.process"}
AuditActions == {"application.submit", "application.decide", "plan.item.add",
                 "cohort.confirm", "route.change", "cohort.cancel",
                 "attendance.record", "artifact.archive"}

CohortRow == [owner : Users, size : Nat, status : CohortStatus,
              planRevision : Nat, version : Nat,
              starts : ScheduleTimes, ends : ScheduleTimes]
PlanItemRow == [cohort : Cohorts, venue : Venues, mentor : Mentors,
                starts : ScheduleTimes, ends : ScheduleTimes, revision : Nat]
HoldRow == [cohort : Cohorts, venue : Venues, starts : ScheduleTimes,
            ends : ScheduleTimes, seats : Nat, status : ResourceStatus,
            expiresAt : Nat]
AssignmentRow == [cohort : Cohorts, mentor : Mentors, starts : ScheduleTimes,
                  ends : ScheduleTimes, status : ResourceStatus]
RerouteRow == [item : Items, from : Venues, to : Venues]
SettlementRow == [gross : Nat, fee : Nat, refund : Nat, createdAt : Nat]

Init ==
    /\ now = 0
    /\ cohorts = [c \in Cohorts |-> NoRow]
    /\ applications = [c \in Cohorts |-> "none"]
    /\ planItems = [i \in Items |-> NoRow]
    /\ holds = [i \in Items |-> NoRow]
    /\ assignments = [i \in Items |-> NoRow]
    /\ acks = {}
    /\ reroutes = <<>>
    /\ settlements = [c \in Cohorts |-> NoRow]
    /\ jobs = [kc \in JobKinds \X Cohorts |-> 0]
    /\ audit = [ac \in AuditActions \X Cohorts |-> 0]

-----------------------------------------------------------------------------
(* Pure parts: the transition tables, validation, overlap and counting.    *)

Require(u, roles) == RoleOf[u] \in roles

cohortTransitions == [draft     |-> {"applied", "cancelled"},
                      applied   |-> {"planned", "cancelled"},
                      planned   |-> {"confirmed", "cancelled", "suspended"},
                      confirmed |-> {"active", "cancelled", "suspended"},
                      active    |-> {"completed", "cancelled", "suspended"},
                      suspended |-> {"planned", "confirmed", "cancelled"},
                      completed |-> {},
                      cancelled |-> {},
                      none      |-> {}]
BugCanTransition(c, to) == cohorts[c].status # "none"
CanTransition(c, to) == to \in cohortTransitions[cohorts[c].status]

applicationTransitions == [submitted |-> {"approved", "rejected", "withdrawn"},
                           approved  |-> {"withdrawn"},
                           rejected  |-> {},
                           withdrawn |-> {},
                           none      |-> {}]

ApplicationAfter(approve) == IF approve THEN "approved" ELSE "rejected"
CohortAfter(approve) == IF approve THEN "planned" ELSE "cancelled"

ValidCohort(size, s, e) == size \in 1 .. 500 /\ s < e

ValidItem(s, e) == s < e

Live == {"held", "confirmed"}

\* rows of a table that SQL finds to meet [s, e)
Overlapping(table, s, e) ==
    {i \in Items : /\ table[i].status \in Live
                   /\ TextLT(table[i].starts, e)
                   /\ TextLT(s, table[i].ends)}

\* SUM(seats), as the number of seats of a set of holds
SeatsOf(S) == Cardinality(UNION {{i} \X (1 .. holds[i].seats) : i \in S})

BugCountOverlappingVenueSeats(v, s, e) ==
    SeatsOf({i \in Overlapping(holds, s, e) :
               holds[i].venue = v /\ holds[i].status = "confirmed"})
CountOverlappingVenueSeats(v, s, e) ==
    SeatsOf({i \in Overlapping(holds, s, e) : holds[i].venue = v})

BugMentorHasOverlap(m, s, e) ==
    \E i \in Overlapping(assignments, s, e) :
        assignments[i].mentor = m /\ assignments[i].status = "confirmed"
MentorHasOverlap(m, s, e) ==
    \E i \in Overlapping(assignments, s, e) : assignments[i].mentor = m

\* plan_items of the cohort's current revision
ListPlanItems(c) ==
    {i \in Items : /\ planItems[i] # NoRow
                   /\ planItems[i].cohort = c
                   /\ planItems[i].revision = cohorts[c].planRevision}

BugFeeRate(untilStart) == IF untilStart >= LongNotice THEN 50
                          ELSE IF untilStart >= ShortNotice THEN 25 ELSE 10
FeeRate(untilStart) == IF untilStart < ShortNotice THEN 50
                       ELSE IF untilStart < LongNotice THEN 25 ELSE 10

\* in 64 bits: the product wraps around
Fee(gross, rate) == Quot(Wrap(gross * rate), 100)

NewCancellationSettlement(gross, starts) ==
    LET fee == Fee(gross, FeeRate(starts - now))
    IN [gross |-> gross, fee |-> fee, refund |-> gross - fee, createdAt |-> now]

-----------------------------------------------------------------------------
(* What a handler writes: one operator per UPDATE or INSERT it shares.     *)

SetStatus(c, to) ==
    [cohorts EXCEPT ![c] = [@ EXCEPT !.status = to,
                                     !.version = cohorts[c].version + 1]]

WithStatus(table, S, to) ==
    [i \in Items |-> IF i \in S THEN [table[i] EXCEPT !.status = to]
                                ELSE table[i]]

BugCreateJob(kind, c) ==
    jobs' = [jobs EXCEPT ![<<"confirmation.notice", c>>] = @ + 1]
CreateJob(kind, c) == jobs' = [jobs EXCEPT ![<<kind, c>>] = @ + 1]

BugRecord(action, c) ==
    audit' = IF action = "route.change" THEN audit
             ELSE [audit EXCEPT ![<<action, c>>] = @ + 1]
Record(action, c) == audit' = [audit EXCEPT ![<<action, c>>] = @ + 1]

CreateCohort(c, row) ==
    /\ cohorts[c] = NoRow
    /\ ValidCohort(row.size, row.starts, row.ends)
    /\ cohorts' = [cohorts EXCEPT ![c] = row]
    /\ applications' = [applications EXCEPT ![c] = "submitted"]

\* UNIQUE(cohort_id, revision, starts_at) is the last guard.
CreatePlanItem(i, item, hold, assignment) ==
    /\ ValidItem(item.starts, item.ends)
    /\ planItems[i] = NoRow
    /\ \A j \in ListPlanItems(item.cohort) : planItems[j].starts # item.starts
    /\ planItems' = [planItems EXCEPT ![i] = item]
    /\ holds' = [holds EXCEPT ![i] = hold]
    /\ assignments' = [assignments EXCEPT ![i] = assignment]

UpsertAcknowledgement(c) == acks' = acks \cup {<<c, cohorts[c].planRevision>>}

CreateReroute(row) ==
    /\ Len(reroutes) < MaxReroutes
    /\ reroutes' = Append(reroutes, row)

\* The table refuses negative amounts.
CreateSettlement(c, row) ==
    /\ settlements[c] = NoRow
    /\ row.fee >= 0 /\ row.refund >= 0
    /\ settlements' = [settlements EXCEPT ![c] = row]

BugConfirmable(i) == holds[i].status = "held"
Confirmable(i) == holds[i].status = "held" /\ TextLT(now, holds[i].expiresAt)

VenueRows(c) == {i \in ListPlanItems(c) : Confirmable(i)}
MentorRows(c) == {i \in ListPlanItems(c) : assignments[i].status = "held"}

BugCountsAgree(venues, mentors) == venues # 0
CountsAgree(venues, mentors) == venues # 0 /\ venues = mentors

\* Two UPDATEs, and the comparison of how many rows each has changed.
ConfirmResources(c) ==
    /\ CountsAgree(Cardinality(VenueRows(c)), Cardinality(MentorRows(c)))
    /\ holds' = WithStatus(holds, VenueRows(c), "confirmed")
    /\ assignments' = WithStatus(assignments, MentorRows(c), "confirmed")

BugReleasable(table, c) == {i \in Items : table[i].status = "held"
                                          /\ table[i].cohort = c}
Releasable(table, c) == {i \in Items : table[i].status \in Live
                                       /\ table[i].cohort = c}

ReleaseResources(c) ==
    /\ holds' = WithStatus(holds, Releasable(holds, c), "released")
    /\ assignments' = WithStatus(assignments, Releasable(assignments, c),
                                 "released")

BugSwapPlanItem(i, v) == UNCHANGED planItems
SwapPlanItem(i, v) == planItems' = [planItems EXCEPT ![i].venue = v]

\* Demands an unexpired hold, of a hold that is already confirmed.
SwapVenueHold(i, v) ==
    /\ holds[i].status = "confirmed"
    /\ TextLT(now, holds[i].expiresAt)
    /\ planItems[i].venue = holds[i].venue
    /\ holds' = [holds EXCEPT ![i].venue = v]
    /\ SwapPlanItem(i, v)

-----------------------------------------------------------------------------
Apply(u, c, size, s, e) ==
    /\ Require(u, {"leader", "operator"})
    /\ CreateCohort(c, [owner |-> u, size |-> size, status |-> "applied",
                        planRevision |-> 1, version |-> 1,
                        starts |-> s, ends |-> e])
    /\ Record("application.submit", c)
    /\ UNCHANGED <<now, plan, acks, reroutes, settlements, jobs>>

\* Only an approval asks whether the cohort may move; a rejection does not.
DecideApplication(u, c, approve) ==
    /\ Require(u, {"operator"})
    /\ ApplicationAfter(approve) \in applicationTransitions[applications[c]]
    /\ approve => CanTransition(c, CohortAfter(approve))
    /\ applications' = [applications EXCEPT ![c] = ApplicationAfter(approve)]
    /\ cohorts' = SetStatus(c, CohortAfter(approve))
    /\ Record("application.decide", c)
    /\ UNCHANGED <<now, plan, acks, reroutes, settlements, jobs>>

AddPlanItem(u, c, i, v, m, s, e) ==
    /\ Require(u, {"operator"})
    /\ cohorts[c].status = "planned"
    /\ cohorts[c].starts <= s /\ e <= cohorts[c].ends
    /\ cohorts[c].size <= Capacity[v]
    /\ CountOverlappingVenueSeats(v, s, e) + cohorts[c].size <= Capacity[v]
    /\ ~ MentorHasOverlap(m, s, e)
    /\ CreatePlanItem(i,
          [cohort |-> c, venue |-> v, mentor |-> m, starts |-> s, ends |-> e,
           revision |-> cohorts[c].planRevision],
          [cohort |-> c, venue |-> v, starts |-> s, ends |-> e,
           seats |-> cohorts[c].size, status |-> "held",
           expiresAt |-> now + HoldFor],
          [cohort |-> c, mentor |-> m, starts |-> s, ends |-> e,
           status |-> "held"])
    /\ Record("plan.item.add", c)
    /\ UNCHANGED <<now, cohorts, applications, acks, reroutes, settlements,
                   jobs>>

BugMayAcknowledge(u, c) == Require(u, {"leader", "operator"})
MayAcknowledge(u, c) == Require(u, {"leader"}) /\ cohorts[c].owner = u

\* No check of the cohort's status: any time from application on.
AcknowledgeRisk(u, c) ==
    /\ cohorts[c] # NoRow
    /\ MayAcknowledge(u, c)
    /\ UpsertAcknowledgement(c)
    /\ UNCHANGED <<now, cohorts, applications, plan, reroutes, settlements,
                   jobs, audit>>

Confirm(u, c) ==
    /\ Require(u, {"operator"})
    /\ CanTransition(c, "confirmed")
    /\ applications[c] = "approved"
    /\ ListPlanItems(c) # {}
    /\ <<c, cohorts[c].planRevision>> \in acks
    /\ ConfirmResources(c)
    /\ cohorts' = SetStatus(c, "confirmed")
    /\ CreateJob("confirmation.notice", c)
    /\ Record("cohort.confirm", c)
    /\ UNCHANGED <<now, applications, planItems, acks, reroutes, settlements>>

Reroute(u, c, i, v) ==
    /\ Require(u, {"operator", "safety"})
    /\ cohorts[c].status \in {"confirmed", "active", "suspended"}
    /\ holds[i].status = "confirmed" /\ holds[i].cohort = c
    /\ holds[i].seats <= Capacity[v]
    /\ CountOverlappingVenueSeats(v, holds[i].starts, holds[i].ends)
         + holds[i].seats <= Capacity[v]
    /\ SwapVenueHold(i, v)
    /\ CreateReroute([item |-> i, from |-> holds[i].venue, to |-> v])
    /\ Record("route.change", c)
    /\ UNCHANGED <<now, cohorts, applications, assignments, acks, settlements,
                   jobs>>

Cancel(u, c, gross) ==
    /\ Require(u, {"leader", "operator"})
    /\ CanTransition(c, "cancelled")
    /\ RoleOf[u] = "leader" => cohorts[c].owner = u
    /\ gross >= 0
    /\ ReleaseResources(c)
    /\ CreateSettlement(c, NewCancellationSettlement(gross, cohorts[c].starts))
    /\ cohorts' = SetStatus(c, "cancelled")
    /\ CreateJob("settlement.process", c)
    /\ Record("cohort.cancel", c)
    /\ UNCHANGED <<now, applications, planItems, acks, reroutes>>

Tick ==
    /\ now < MaxNow
    /\ now' = now + 1
    /\ UNCHANGED <<cohorts, applications, plan, acks, reroutes, settlements,
                   jobs, audit>>

-----------------------------------------------------------------------------
BookingStep(u, c) ==
    \/ \E size \in Sizes, s, e \in ScheduleTimes : Apply(u, c, size, s, e)
    \/ \E approve \in BOOLEAN : DecideApplication(u, c, approve)
    \/ \E i \in Items, v \in Venues, m \in Mentors, s, e \in ScheduleTimes :
          AddPlanItem(u, c, i, v, m, s, e)
    \/ AcknowledgeRisk(u, c)
    \/ Confirm(u, c)
    \/ \E i \in Items, v \in Venues : Reroute(u, c, i, v)
    \/ \E gross \in GrossAmounts : Cancel(u, c, gross)

Next == Tick \/ \E u \in Users, c \in Cohorts : BookingStep(u, c)

Spec == Init /\ [][Next]_vars

-----------------------------------------------------------------------------
(* Properties.                                                             *)

TypeOK ==
    /\ now \in Nat
    /\ cohorts \in [Cohorts -> CohortRow \cup {NoRow}]
    /\ applications \in [Cohorts -> ApplicationStatus]
    /\ planItems \in [Items -> PlanItemRow \cup {NoRow}]
    /\ holds \in [Items -> HoldRow \cup {NoRow}]
    /\ assignments \in [Items -> AssignmentRow \cup {NoRow}]
    /\ acks \subseteq Cohorts \X Nat
    /\ reroutes \in Seq(RerouteRow)
    /\ settlements \in [Cohorts -> SettlementRow \cup {NoRow}]
    /\ jobs \in [JobKinds \X Cohorts -> Nat]
    /\ audit \in [AuditActions \X Cohorts -> Nat]

LiveAt(table, t) == {i \in Items : /\ table[i].status \in Live
                                   /\ table[i].starts <= t
                                   /\ t < table[i].ends}

\* At no moment do the live holds of a venue need more seats than it has,
\* whatever was held, confirmed, rerouted or released by whom in between:
\* AddPlanItem and Reroute check the sum of the overlapping rows.
VenueCapacity ==
    \A v \in Venues, t \in ScheduleTimes :
        SeatsOf({i \in LiveAt(holds, t) : holds[i].venue = v}) <= Capacity[v]

\* A mentor is never in two places: two live assignments of one mentor, of
\* any two cohorts, are disjoint in time (MentorHasOverlap).
MentorExclusive ==
    \A i, j \in Items :
        /\ i # j
        /\ assignments[i].status \in Live
        /\ assignments[j].status \in Live
        /\ assignments[i].mentor = assignments[j].mentor
        => \/ assignments[i].ends <= assignments[j].starts
           \/ assignments[j].ends <= assignments[i].starts

AgreeOn(i) ==
    /\ planItems[i] # NoRow /\ holds[i] # NoRow /\ assignments[i] # NoRow
    /\ holds[i].status = assignments[i].status
    /\ planItems[i].cohort = holds[i].cohort
    /\ planItems[i].cohort = assignments[i].cohort
    /\ planItems[i].venue = holds[i].venue
    /\ planItems[i].mentor = assignments[i].mentor
    /\ planItems[i].starts = holds[i].starts
    /\ planItems[i].ends = holds[i].ends
    /\ planItems[i].starts = assignments[i].starts
    /\ planItems[i].ends = assignments[i].ends

\* The three tables of a plan agree row by row: an item has its hold and its
\* assignment, they belong to one cohort, stand in one place and one time,
\* and are held, confirmed and released together.
HoldsPaired ==
    \A i \in Items :
        \/ planItems[i] = NoRow /\ holds[i] = NoRow /\ assignments[i] = NoRow
        \/ AgreeOn(i)

Delivered == {"confirmed", "active"}

\* A confirmed cohort has an approved application and a plan whose every
\* item is confirmed at the venue and with the mentor: the counts that
\* ConfirmResources compares let no partly expired plan through.
ConfirmedComplete ==
    \A c \in Cohorts : cohorts[c].status \in Delivered =>
        /\ applications[c] = "approved"
        /\ ListPlanItems(c) # {}
        /\ \A i \in ListPlanItems(c) : /\ holds[i].status = "confirmed"
                                       /\ assignments[i].status = "confirmed"

\* Only a cohort whose owner is a leader, and whose risk that leader
\* acknowledged, is ever confirmed; one that an operator applied for cannot
\* be, since nobody may acknowledge for it.
ConfirmedAcknowledged ==
    \A c \in Cohorts : cohorts[c].status \in Delivered =>
        /\ RoleOf[cohorts[c].owner] = "leader"
        /\ <<c, cohorts[c].planRevision>> \in acks

\* A cancelled cohort keeps nobody's seat or hour, in either table, and is
\* settled unless it was rejected; settlements exist for no other cohort.
CancelledReleased ==
    /\ \A c \in Cohorts : cohorts[c].status = "cancelled" =>
          /\ settlements[c] # NoRow \/ applications[c] = "rejected"
          /\ \A i \in Items : \A table \in {holds, assignments} :
                table[i].status \in Live => table[i].cohort # c
    /\ \A c \in Cohorts : settlements[c] # NoRow => cohorts[c].status = "cancelled"

\* The outbox says what happened: one notice for a confirmed cohort and none
\* before, one settlement job for each settlement row.
OutboxMatches ==
    \A c \in Cohorts :
        /\ jobs[<<"settlement.process", c>>] = IF settlements[c] = NoRow THEN 0 ELSE 1
        /\ jobs[<<"confirmation.notice", c>>] \in
              CASE cohorts[c].status \in Delivered   -> {1}
                [] cohorts[c].status = "cancelled"   -> {0, 1}
                [] OTHER                             -> {0}

\* The reroutes of an item form a chain that ends where its hold and its
\* plan item stand now.
RerouteTrail ==
    \A k \in DOMAIN reroutes :
        LET i == reroutes[k].item
            later == {n \in DOMAIN reroutes : n > k /\ reroutes[n].item = i}
        IN IF later = {}
           THEN holds[i].venue = reroutes[k].to
                /\ planItems[i].venue = reroutes[k].to
           ELSE \E n \in later : /\ \A other \in later : n <= other
                                 /\ reroutes[n].from = reroutes[k].to

\* A settlement divides what was paid: the parts are not negative and add up,
\* the fee is at most half and, unless the product overflows, at least a tenth
\* (rounded down); and of two cohorts settled at one time for one amount, the
\* one that starts sooner does not pay less.
SettlementFair ==
    \A c \in Cohorts : settlements[c] # NoRow =>
        LET row == settlements[c]
        IN  /\ row.fee + row.refund = row.gross
            /\ row.fee >= 0 /\ 2 * row.fee <= row.gross
            /\ row.gross * 50 < Half =>
                  /\ 10 * row.fee > row.gross - 10
                  /\ \A d \in Cohorts :
                        /\ settlements[d] # NoRow
                        /\ settlements[d].gross = row.gross
                        /\ settlements[d].createdAt = row.createdAt
                        /\ cohorts[c].starts <= cohorts[d].starts
                        => row.fee >= settlements[d].fee

\* The audit trail is complete and nothing else: the version of a cohort is
\* the number of its recorded changes, and every plan item, reroute and
\* settlement has its event, whatever failed or was refused in between.
AuditMatches ==
    \A c \in Cohorts :
        LET events(action) == audit[<<action, c>>] IN
        /\ cohorts[c] # NoRow =>
              cohorts[c].version =
                 events("application.submit") + events("application.decide")
                   + events("cohort.confirm") + events("cohort.cancel")
        /\ events("plan.item.add") =
              Cardinality({i \in Items : planItems[i] # NoRow
                                         /\ planItems[i].cohort = c})
        /\ events("route.change") =
              Cardinality({k \in DOMAIN reroutes :
                             planItems[reroutes[k].item].cohort = c})
        /\ events("cohort.cancel") = IF settlements[c] = NoRow THEN 0 ELSE 1

\* The live rows of the plan tables, read as a ledger of bookings.
BookingOf(i) ==
    IF holds[i].status \in Live
    THEN [venue |-> holds[i].venue, mentor |-> assignments[i].mentor,
          starts |-> holds[i].starts, ends |-> holds[i].ends,
          seats |-> holds[i].seats]
    ELSE [seats |-> 0]

Ledger == INSTANCE SeatLedger WITH
    Bookings <- Items, Moments <- ScheduleTimes,
    ledger <- [i \in Items |-> BookingOf(i)]

\* While all times are whole seconds, booking implements the ledger: however
\* requests, confirmations, reroutes and cancellations interleave, each step
\* enters, moves or removes bookings where there is room in real time, or
\* changes none.
ImplementsLedger == Ledger!Spec

\* How the status of a cohort, of its application and of its plan go
\* together; with the row-by-row agreement of the tables this is inductive.
CohortStage ==
    \A c \in Cohorts :
        /\ cohorts[c].status \in {"none", "applied", "planned", "cancelled"}
                                   \cup Delivered
        /\ cohorts[c].status = "none" <=> applications[c] = "none"
        /\ cohorts[c].status = "applied" => applications[c] = "submitted"
        /\ cohorts[c].status \in {"planned"} \cup Delivered
             => applications[c] = "approved"
        /\ cohorts[c].status # "none" => cohorts[c].planRevision = 1

ItemStage(i) ==
    /\ planItems[i].revision = 1
    /\ <<holds[i].status, cohorts[planItems[i].cohort].status>> \in
          {<<"held", "planned">>, <<"released", "cancelled">>}
            \cup {"confirmed"} \X Delivered

PlanStage == \A i \in Items : planItems[i] # NoRow => ItemStage(i)

IInv == TypeOK /\ CohortStage /\ HoldsPaired /\ PlanStage

\* Every write of a cohort's row follows the lifecycle table, except that a
\* rejection may be decided for a cohort that is already cancelled.
LifecycleSteps ==
    [][\A c \in Cohorts : cohorts[c] # NoRow /\ cohorts'[c] # cohorts[c] =>
          \/ cohorts'[c].status \in cohortTransitions[cohorts[c].status]
          \/ /\ cohorts[c].status = "cancelled" /\ cohorts'[c].status = "cancelled"
             /\ applications[c] = "submitted" /\ applications'[c] = "rejected"]_vars

\* A hold is confirmed only while it lasts, to within the second in which it
\* ends (the two times are compared as text).
ConfirmedInTime ==
    [][\A i \in Items : holds[i].status = "held" /\ holds'[i].status = "confirmed"
          => now < holds[i].expiresAt + TicksPerSecond]_vars

-----------------------------------------------------------------------------
(* What the documents say and the code does not do: each is refuted by a   *)
(* run of its own.                                                         *)

\* README.md:38: a confirmed hold can be moved to another venue that has the
\* seats free, as long as the cohort is confirmed.
ReroutePossible ==
    \A c \in Cohorts, i \in Items, v \in Venues :
        /\ cohorts[c].status = "confirmed"
        /\ holds[i].status = "confirmed" /\ holds[i].cohort = c
        /\ Capacity[v] - CountOverlappingVenueSeats(v, holds[i].starts, holds[i].ends)
             >= holds[i].seats
        /\ Len(reroutes) < MaxReroutes
        => \E u \in Users : ENABLED Reroute(u, c, i, v)
===============================================================================
