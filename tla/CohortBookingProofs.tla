-------------------------- MODULE CohortBookingProofs --------------------------
(***************************************************************************)
(* What holds of CohortBooking for every set of users, cohorts, items,     *)
(* venues and mentors, proved with TLAPS.                                  *)
(***************************************************************************)
EXTENDS CohortBooking, FiniteSetTheorems, TLAPS

\* A row that an UPDATE touches keeps its type.
LEMMA SetStatusType ==
  ASSUME TypeOK, NEW c \in Cohorts, cohorts[c] # NoRow, NEW to \in CohortStatus
  PROVE  SetStatus(c, to) \in [Cohorts -> CohortRow \cup {NoRow}]
<1>1. cohorts[c] \in CohortRow
  BY DEF TypeOK
<1>2. cohorts[c].version + 1 \in Nat
  BY <1>1 DEF CohortRow
<1>3. ASSUME NEW n \in Nat
      PROVE  [cohorts[c] EXCEPT !.status = to, !.version = n] \in CohortRow
  BY <1>1 DEF CohortRow
<1>4. [cohorts[c] EXCEPT !.status = to, !.version = cohorts[c].version + 1]
        \in CohortRow
  BY <1>2, <1>3
<1>5. ASSUME NEW row \in CohortRow
      PROVE  [cohorts EXCEPT ![c] = row] \in [Cohorts -> CohortRow \cup {NoRow}]
  BY DEF TypeOK
<1>. QED
  BY <1>4, <1>5 DEF SetStatus

LEMMA WithStatusHolds ==
  ASSUME TypeOK, NEW S \in SUBSET Items, \A i \in S : holds[i] # NoRow,
         NEW to \in ResourceStatus
  PROVE  WithStatus(holds, S, to) \in [Items -> HoldRow \cup {NoRow}]
  BY DEF TypeOK, WithStatus, HoldRow

LEMMA WithStatusAssignments ==
  ASSUME TypeOK, NEW S \in SUBSET Items, \A i \in S : assignments[i] # NoRow,
         NEW to \in ResourceStatus
  PROVE  WithStatus(assignments, S, to) \in [Items -> AssignmentRow \cup {NoRow}]
  BY DEF TypeOK, WithStatus, AssignmentRow

LEMMA CreateJobType ==
  ASSUME TypeOK, NEW kind \in JobKinds, NEW c \in Cohorts
  PROVE  [jobs EXCEPT ![<<kind, c>>] = @ + 1] \in [JobKinds \X Cohorts -> Nat]
  BY DEF TypeOK

LEMMA RecordType ==
  ASSUME TypeOK, NEW action \in AuditActions, NEW c \in Cohorts, Record(action, c)
  PROVE  audit' \in [AuditActions \X Cohorts -> Nat]
  BY DEF TypeOK, Record

\* The arithmetic of a settlement stays within the integers.
LEMMA FeeType ==
  ASSUME NEW gross \in Int, NEW rate \in Int
  PROVE  Fee(gross, rate) \in Int
<1>1. gross * rate \in Int
  OBVIOUS
<1>2. ASSUME NEW n \in Int
      PROVE  Wrap(n) \in Int
  BY HalfAssumption DEF Wrap
<1>3. ASSUME NEW n \in Int
      PROVE  Quot(n, 100) \in Int
  BY DEF Quot
<1>. QED
  BY <1>1, <1>2, <1>3 DEF Fee

LEMMA SettlementType ==
  ASSUME TypeOK, NEW gross \in GrossAmounts, gross >= 0,
         NEW starts \in ScheduleTimes,
         NEW row, row = NewCancellationSettlement(gross, starts),
         row.fee >= 0, row.refund >= 0
  PROVE  row \in SettlementRow
<1>1. gross \in Int /\ FeeRate(starts - now) \in Int
  BY BookingAssumption DEF FeeRate
<1>2. Fee(gross, FeeRate(starts - now)) \in Int
  BY <1>1, FeeType
<1>. QED
  BY <1>1, <1>2 DEF NewCancellationSettlement, SettlementRow, TypeOK

LEMMA InitType == Init => TypeOK
  BY BookingAssumption DEF Init, TypeOK, ApplicationStatus

\* A row whose status is one of the table's own is there.
LEMMA CohortThere ==
  ASSUME TypeOK, NEW c \in Cohorts, cohorts[c].status # "none"
  PROVE  cohorts[c] \in CohortRow /\ cohorts[c] # NoRow
  BY DEF TypeOK, NoRow

LEMMA HoldThere ==
  ASSUME TypeOK, NEW i \in Items, holds[i].status # "none"
  PROVE  holds[i] \in HoldRow /\ holds[i] # NoRow
  BY DEF TypeOK, NoRow

LEMMA AssignmentThere ==
  ASSUME TypeOK, NEW i \in Items, assignments[i].status # "none"
  PROVE  assignments[i] \in AssignmentRow /\ assignments[i] # NoRow
  BY DEF TypeOK, NoRow

LEMMA PlannedItem ==
  ASSUME TypeOK, NEW i \in Items, planItems[i] # NoRow
  PROVE  planItems[i] \in PlanItemRow /\ planItems[i].cohort \in Cohorts
  BY DEF TypeOK, PlanItemRow

LEMMA ApplyType ==
  ASSUME IInv, NEW u \in Users, NEW c \in Cohorts, NEW size \in Sizes,
         NEW s \in ScheduleTimes, NEW e \in ScheduleTimes,
         Apply(u, c, size, s, e)
  PROVE  TypeOK'
<1>1. [owner |-> u, size |-> size, status |-> "applied", planRevision |-> 1,
       version |-> 1, starts |-> s, ends |-> e] \in CohortRow
  BY BookingAssumption DEF CohortRow, CohortStatus
<1>. QED
  BY <1>1, RecordType DEF Apply, CreateCohort, IInv, TypeOK, plan,
     ApplicationStatus, AuditActions

LEMMA DecideApplicationType ==
  ASSUME IInv, NEW u \in Users, NEW c \in Cohorts, NEW approve \in BOOLEAN,
         DecideApplication(u, c, approve)
  PROVE  TypeOK'
<1>1. applications[c] # "none"
  BY DEF DecideApplication, applicationTransitions
<1>2. cohorts[c] # NoRow
  BY <1>1 DEF IInv, CohortStage, NoRow
<1>3. CohortAfter(approve) \in CohortStatus
  BY DEF CohortAfter, CohortStatus
<1>4. cohorts' \in [Cohorts -> CohortRow \cup {NoRow}]
  BY <1>2, <1>3, SetStatusType DEF DecideApplication, IInv
<1>5. ApplicationAfter(approve) \in ApplicationStatus
  BY DEF ApplicationAfter, ApplicationStatus
<1>. QED
  BY <1>4, <1>5, RecordType DEF DecideApplication, IInv, TypeOK, plan, AuditActions

LEMMA AddPlanItemType ==
  ASSUME IInv, NEW u \in Users, NEW c \in Cohorts, NEW i \in Items,
         NEW v \in Venues, NEW m \in Mentors, NEW s \in ScheduleTimes,
         NEW e \in ScheduleTimes, AddPlanItem(u, c, i, v, m, s, e)
  PROVE  TypeOK'
<1>1. cohorts[c] \in CohortRow
  BY CohortThere DEF AddPlanItem, IInv
<1>2. cohorts[c].size \in Nat /\ cohorts[c].planRevision \in Nat
  BY <1>1 DEF CohortRow
<1>3. now + HoldFor \in Nat
  BY BookingAssumption DEF IInv, TypeOK
<1>4. /\ planItems' \in [Items -> PlanItemRow \cup {NoRow}]
      /\ holds' \in [Items -> HoldRow \cup {NoRow}]
      /\ assignments' \in [Items -> AssignmentRow \cup {NoRow}]
  BY <1>2, <1>3 DEF AddPlanItem, CreatePlanItem, IInv, TypeOK, PlanItemRow,
     HoldRow, AssignmentRow, ResourceStatus
<1>. QED
  BY <1>4, RecordType DEF AddPlanItem, IInv, TypeOK, AuditActions

LEMMA AcknowledgeRiskType ==
  ASSUME IInv, NEW u \in Users, NEW c \in Cohorts, AcknowledgeRisk(u, c)
  PROVE  TypeOK'
<1>1. cohorts[c].planRevision \in Nat
  BY DEF AcknowledgeRisk, IInv, TypeOK, CohortRow
<1>. QED
  BY <1>1 DEF AcknowledgeRisk, UpsertAcknowledgement, IInv, TypeOK, plan

LEMMA ConfirmType ==
  ASSUME IInv, NEW u \in Users, NEW c \in Cohorts, Confirm(u, c)
  PROVE  TypeOK'
<1>1. cohorts' \in [Cohorts -> CohortRow \cup {NoRow}]
  <2>1. cohorts[c] # NoRow
    BY DEF Confirm, CanTransition, cohortTransitions, NoRow
  <2>. QED
    BY <2>1, SetStatusType DEF Confirm, IInv, CohortStatus
<1>2. holds' \in [Items -> HoldRow \cup {NoRow}]
  <2>1. \A i \in VenueRows(c) : holds[i] # NoRow
    BY DEF VenueRows, Confirmable, NoRow
  <2>2. VenueRows(c) \in SUBSET Items
    BY DEF VenueRows, ListPlanItems
  <2>. QED
    BY <2>1, <2>2, WithStatusHolds DEF Confirm, ConfirmResources, IInv,
       ResourceStatus
<1>3. assignments' \in [Items -> AssignmentRow \cup {NoRow}]
  <2>1. \A i \in MentorRows(c) : assignments[i] # NoRow
    BY DEF MentorRows, NoRow
  <2>2. MentorRows(c) \in SUBSET Items
    BY DEF MentorRows, ListPlanItems
  <2>. QED
    BY <2>1, <2>2, WithStatusAssignments DEF Confirm, ConfirmResources, IInv,
       ResourceStatus
<1>4. jobs' \in [JobKinds \X Cohorts -> Nat]
  BY CreateJobType DEF Confirm, CreateJob, IInv, JobKinds
<1>. QED
  BY <1>1, <1>2, <1>3, <1>4, RecordType DEF Confirm, IInv, TypeOK, AuditActions

LEMMA RerouteType ==
  ASSUME IInv, NEW u \in Users, NEW c \in Cohorts, NEW i \in Items,
         NEW v \in Venues, Reroute(u, c, i, v)
  PROVE  TypeOK'
<1>1. holds[i] \in HoldRow /\ holds[i] # NoRow
  BY HoldThere DEF Reroute, IInv
<1>2. planItems[i] \in PlanItemRow
  BY <1>1 DEF IInv, TypeOK, HoldsPaired, AgreeOn
<1>3. holds' \in [Items -> HoldRow \cup {NoRow}]
  BY <1>1 DEF Reroute, SwapVenueHold, IInv, TypeOK, HoldRow
<1>4. planItems' \in [Items -> PlanItemRow \cup {NoRow}]
  BY <1>2 DEF Reroute, SwapVenueHold, SwapPlanItem, IInv, TypeOK, PlanItemRow
<1>5. reroutes' \in Seq(RerouteRow)
  BY <1>1 DEF Reroute, CreateReroute, IInv, TypeOK, RerouteRow, HoldRow
<1>. QED
  BY <1>3, <1>4, <1>5, RecordType DEF Reroute, IInv, TypeOK, AuditActions

LEMMA CancelType ==
  ASSUME IInv, NEW u \in Users, NEW c \in Cohorts,
         NEW gross \in GrossAmounts, Cancel(u, c, gross)
  PROVE  TypeOK'
<1>1. cohorts' \in [Cohorts -> CohortRow \cup {NoRow}]
  <2>1. cohorts[c] # NoRow
    BY DEF Cancel, CanTransition, cohortTransitions, NoRow
  <2>. QED
    BY <2>1, SetStatusType DEF Cancel, IInv, CohortStatus
<1>2. holds' \in [Items -> HoldRow \cup {NoRow}]
  <2>1. \A i \in Releasable(holds, c) : holds[i] # NoRow
    BY DEF Releasable, Live, NoRow
  <2>2. Releasable(holds, c) \in SUBSET Items
    BY DEF Releasable
  <2>. QED
    BY <2>1, <2>2, WithStatusHolds DEF Cancel, ReleaseResources, IInv,
       ResourceStatus
<1>3. assignments' \in [Items -> AssignmentRow \cup {NoRow}]
  <2>1. \A i \in Releasable(assignments, c) : assignments[i] # NoRow
    BY DEF Releasable, Live, NoRow
  <2>2. Releasable(assignments, c) \in SUBSET Items
    BY DEF Releasable
  <2>. QED
    BY <2>1, <2>2, WithStatusAssignments DEF Cancel, ReleaseResources, IInv,
       ResourceStatus
<1>4. jobs' \in [JobKinds \X Cohorts -> Nat]
  BY CreateJobType DEF Cancel, CreateJob, IInv, JobKinds
<1>5. settlements' \in [Cohorts -> SettlementRow \cup {NoRow}]
  <2>1. cohorts[c].starts \in ScheduleTimes
    BY CohortThere DEF Cancel, CanTransition, cohortTransitions, IInv, CohortRow
  <2>2. NewCancellationSettlement(gross, cohorts[c].starts) \in SettlementRow
    BY <2>1, SettlementType DEF Cancel, CreateSettlement, IInv
  <2>. QED
    BY <2>2 DEF Cancel, CreateSettlement, IInv, TypeOK
<1>. QED
  BY <1>1, <1>2, <1>3, <1>4, <1>5, RecordType DEF Cancel, IInv, TypeOK,
     AuditActions


-----------------------------------------------------------------------------
\* What an UPDATE of a status leaves alone.
LEMMA SetStatusFields ==
  ASSUME TypeOK, NEW c \in Cohorts, cohorts[c] # NoRow, NEW to \in CohortStatus,
         cohorts' = SetStatus(c, to)
  PROVE  /\ cohorts'[c].status = to
         /\ cohorts'[c].planRevision = cohorts[c].planRevision
         /\ cohorts'[c].owner = cohorts[c].owner
         /\ \A d \in Cohorts \ {c} : cohorts'[d] = cohorts[d]
<1>1. cohorts[c] \in CohortRow
  BY DEF TypeOK
<1>2. cohorts'[c] = [cohorts[c] EXCEPT !.status = to,
                                       !.version = cohorts[c].version + 1]
  BY DEF SetStatus, TypeOK
<1>3. \A d \in Cohorts \ {c} : cohorts'[d] = cohorts[d]
  BY DEF SetStatus, TypeOK
<1>4. ASSUME NEW n
      PROVE  LET row == [cohorts[c] EXCEPT !.status = to, !.version = n]
             IN  /\ row.status = to
                 /\ row.planRevision = cohorts[c].planRevision
                 /\ row.owner = cohorts[c].owner
  BY <1>1 DEF CohortRow
<1>. QED
  BY <1>2, <1>3, <1>4

\* Holds and assignments that change status together stay paired.
LEMMA PairedAfter ==
  ASSUME IInv, NEW S \in SUBSET Items, \A i \in S : planItems[i] # NoRow,
         NEW to \in ResourceStatus, planItems' = planItems,
         holds' = WithStatus(holds, S, to),
         assignments' = WithStatus(assignments, S, to)
  PROVE  /\ HoldsPaired'
         /\ \A i \in S : holds'[i].status = to
         /\ \A i \in Items \ S : holds'[i] = holds[i]
<1> SUFFICES ASSUME NEW i \in Items
             PROVE  /\ (planItems'[i] = NoRow /\ holds'[i] = NoRow
                       /\ assignments'[i] = NoRow) \/ AgreeOn(i)'
                    /\ i \in S => holds'[i].status = to
                    /\ i \notin S => holds'[i] = holds[i]
  BY DEF HoldsPaired, AgreeOn
<1>1. CASE i \in S
  <2>1. /\ planItems[i] \in PlanItemRow
        /\ holds[i] \in HoldRow
        /\ assignments[i] \in AssignmentRow
    BY <1>1 DEF IInv, TypeOK, HoldsPaired, AgreeOn
  <2>2. /\ holds'[i] = [holds[i] EXCEPT !.status = to]
        /\ assignments'[i] = [assignments[i] EXCEPT !.status = to]
    BY <1>1 DEF WithStatus
  <2>3. /\ holds'[i].status = to /\ assignments'[i].status = to
        /\ holds'[i].cohort = holds[i].cohort
        /\ holds'[i].venue = holds[i].venue
        /\ holds'[i].starts = holds[i].starts
        /\ holds'[i].ends = holds[i].ends
        /\ assignments'[i].cohort = assignments[i].cohort
        /\ assignments'[i].mentor = assignments[i].mentor
        /\ assignments'[i].starts = assignments[i].starts
        /\ assignments'[i].ends = assignments[i].ends
    BY <2>1, <2>2 DEF HoldRow, AssignmentRow
  <2>4. to # "none"
    BY DEF ResourceStatus
  <2>5. holds'[i] # NoRow /\ assignments'[i] # NoRow
    BY <2>3, <2>4 DEF NoRow
  <2>. QED
    BY <1>1, <2>3, <2>5 DEF IInv, HoldsPaired, AgreeOn
<1>2. CASE i \notin S
  BY <1>2 DEF WithStatus, IInv, HoldsPaired, AgreeOn
<1>. QED
  BY <1>1, <1>2

\* ConfirmResources confirms the same items in both tables: its first UPDATE
\* cannot reach an item the second does not, and the counts are equal.
LEMMA SameRows ==
  ASSUME IInv, NEW u \in Users, NEW c \in Cohorts, Confirm(u, c)
  PROVE  VenueRows(c) = MentorRows(c)
<1>1. VenueRows(c) \subseteq MentorRows(c)
  BY DEF VenueRows, MentorRows, Confirmable, ListPlanItems, IInv, HoldsPaired,
     AgreeOn, NoRow
<1>2. IsFiniteSet(MentorRows(c))
  BY BookingAssumption, FS_Subset DEF MentorRows, ListPlanItems
<1>3. Cardinality(VenueRows(c)) = Cardinality(MentorRows(c))
  BY DEF Confirm, ConfirmResources, CountsAgree
<1>. QED
  BY <1>1, <1>2, <1>3, FS_Subset

\* Cancellation releases the same items in both tables.
LEMMA SameReleased ==
  ASSUME IInv, NEW c \in Cohorts
  PROVE  /\ Releasable(holds, c) = Releasable(assignments, c)
         /\ \A i \in Releasable(holds, c) :
               planItems[i] # NoRow /\ planItems[i].cohort = c
  BY DEF Releasable, Live, IInv, HoldsPaired, AgreeOn, NoRow

\* An item of a planned cohort is confirmable in both tables or in none, so
\* equal counts of a plan whose items are all held leave none behind.
LEMMA AllConfirmed ==
  ASSUME IInv, NEW u \in Users, NEW c \in Cohorts, Confirm(u, c)
  PROVE  /\ cohorts[c].status = "planned"
         /\ VenueRows(c) = ListPlanItems(c)
         /\ ListPlanItems(c) = {i \in Items : /\ planItems[i] # NoRow
                                              /\ planItems[i].cohort = c}
<1>1. cohorts[c].status = "planned"
  BY DEF Confirm, CanTransition, cohortTransitions, IInv, CohortStage,
     Delivered
<1>2. ListPlanItems(c) = {i \in Items : /\ planItems[i] # NoRow
                                        /\ planItems[i].cohort = c}
  BY <1>1 DEF ListPlanItems, IInv, PlanStage, ItemStage, CohortStage
<1>3. \A i \in ListPlanItems(c) : holds[i].status = "held"
  BY <1>1 DEF ListPlanItems, IInv, PlanStage, ItemStage, Delivered
<1>4. MentorRows(c) = ListPlanItems(c)
  BY <1>3 DEF MentorRows, ListPlanItems, IInv, HoldsPaired, AgreeOn
<1>. QED
  BY <1>1, <1>2, <1>4, SameRows


-----------------------------------------------------------------------------
\* Each handler preserves the agreement of statuses and of tables.
Stages == CohortStage /\ HoldsPaired /\ PlanStage

LEMMA ApplyStages ==
  ASSUME IInv, NEW u \in Users, NEW c \in Cohorts, NEW size \in Sizes,
         NEW s \in ScheduleTimes, NEW e \in ScheduleTimes,
         Apply(u, c, size, s, e)
  PROVE  Stages'
<1>1. /\ cohorts[c].status = "none"
      /\ cohorts'[c].status = "applied"
      /\ cohorts'[c].planRevision = 1
      /\ \A d \in Cohorts \ {c} : cohorts'[d] = cohorts[d]
  BY DEF Apply, CreateCohort, IInv, TypeOK, NoRow
<1>2. CohortStage'
  BY <1>1 DEF Apply, CreateCohort, IInv, TypeOK, CohortStage, Delivered
<1>3. HoldsPaired'
  BY DEF Apply, plan, IInv, HoldsPaired, AgreeOn
<1>4. PlanStage'
  <2> SUFFICES ASSUME NEW i \in Items, planItems[i] # NoRow
               PROVE  ItemStage(i)'
    BY DEF PlanStage, Apply, plan
  <2>1. planItems[i].cohort \in Cohorts \ {c} /\ ItemStage(i)
    BY <1>1, PlannedItem DEF IInv, PlanStage, ItemStage, Delivered
  <2>. QED
    BY <1>1, <2>1 DEF Apply, plan, ItemStage
<1>. QED
  BY <1>2, <1>3, <1>4 DEF Stages

LEMMA DecideApplicationStages ==
  ASSUME IInv, NEW u \in Users, NEW c \in Cohorts, NEW approve \in BOOLEAN,
         DecideApplication(u, c, approve)
  PROVE  Stages'
<1>1. applications[c] = "submitted"
  BY DEF DecideApplication, ApplicationAfter, applicationTransitions, IInv,
     TypeOK, ApplicationStatus
<1>2. cohorts[c].status \in {"applied", "cancelled"}
  BY <1>1 DEF IInv, CohortStage, Delivered
<1>3. approve => cohorts[c].status = "applied"
  BY <1>2 DEF DecideApplication, CohortAfter, CanTransition, cohortTransitions
<1>4. /\ cohorts'[c].status = CohortAfter(approve)
      /\ cohorts'[c].planRevision = cohorts[c].planRevision
      /\ \A d \in Cohorts \ {c} : cohorts'[d] = cohorts[d]
  <2>1. cohorts[c] # NoRow
    BY <1>2 DEF NoRow
  <2>2. CohortAfter(approve) \in CohortStatus
    BY DEF CohortAfter, CohortStatus
  <2>. QED
    BY <2>1, <2>2, SetStatusFields DEF DecideApplication, IInv
<1>5. /\ applications'[c] = ApplicationAfter(approve)
      /\ \A d \in Cohorts \ {c} : applications'[d] = applications[d]
  BY DEF DecideApplication, IInv, TypeOK
<1>6. CohortStage'
  BY <1>2, <1>4, <1>5 DEF IInv, CohortStage, CohortAfter, ApplicationAfter,
     Delivered
<1>7. HoldsPaired'
  BY DEF DecideApplication, plan, IInv, HoldsPaired, AgreeOn
<1>8. PlanStage'
  <2>1. \A i \in Items : planItems[i] # NoRow /\ planItems[i].cohort = c
           => cohorts[c].status = "cancelled" /\ ~ approve
    BY <1>2, <1>3 DEF IInv, PlanStage, ItemStage, Delivered
  <2>. QED
    BY <1>2, <1>4, <2>1 DEF DecideApplication, plan, IInv, TypeOK, PlanItemRow,
       PlanStage, ItemStage, CohortAfter
<1>. QED
  BY <1>6, <1>7, <1>8 DEF Stages

LEMMA AddPlanItemStages ==
  ASSUME IInv, NEW u \in Users, NEW c \in Cohorts, NEW i \in Items,
         NEW v \in Venues, NEW m \in Mentors, NEW s \in ScheduleTimes,
         NEW e \in ScheduleTimes, AddPlanItem(u, c, i, v, m, s, e)
  PROVE  Stages'
<1>1. /\ planItems'[i].cohort = c /\ holds'[i].cohort = c
      /\ assignments'[i].cohort = c
      /\ planItems'[i].venue = v /\ holds'[i].venue = v
      /\ planItems'[i].mentor = m /\ assignments'[i].mentor = m
      /\ planItems'[i].starts = s /\ holds'[i].starts = s
      /\ planItems'[i].ends = e /\ holds'[i].ends = e
      /\ assignments'[i].starts = s /\ assignments'[i].ends = e
      /\ holds'[i].status = "held" /\ assignments'[i].status = "held"
      /\ planItems'[i].revision = cohorts[c].planRevision
  BY DEF AddPlanItem, CreatePlanItem, IInv, TypeOK
<1>2. \A j \in Items \ {i} : /\ planItems'[j] = planItems[j]
                             /\ holds'[j] = holds[j]
                             /\ assignments'[j] = assignments[j]
  BY DEF AddPlanItem, CreatePlanItem, IInv, TypeOK
<1>3. planItems'[i] # NoRow /\ holds'[i] # NoRow /\ assignments'[i] # NoRow
  BY DEF AddPlanItem, CreatePlanItem, IInv, TypeOK, NoRow
<1>4. CohortStage'
  BY DEF AddPlanItem, IInv, CohortStage
<1>5. HoldsPaired'
  BY <1>1, <1>2, <1>3 DEF IInv, HoldsPaired, AgreeOn
<1>6. PlanStage'
  <2>1. ItemStage(i)'
    BY <1>1 DEF AddPlanItem, IInv, CohortStage, ItemStage
  <2>2. ASSUME NEW j \in Items \ {i}, planItems'[j] # NoRow
        PROVE  ItemStage(j)'
    BY <1>2, <2>2 DEF AddPlanItem, IInv, PlanStage, ItemStage
  <2>. QED
    BY <2>1, <2>2 DEF PlanStage
<1>. QED
  BY <1>4, <1>5, <1>6 DEF Stages

LEMMA ConfirmStages ==
  ASSUME IInv, NEW u \in Users, NEW c \in Cohorts, Confirm(u, c)
  PROVE  Stages'
<1>1. /\ cohorts[c].status = "planned"
      /\ VenueRows(c) = {i \in Items : planItems[i] # NoRow /\ planItems[i].cohort = c}
      /\ MentorRows(c) = VenueRows(c)
  BY AllConfirmed, SameRows
<1>2. /\ cohorts'[c].status = "confirmed"
      /\ cohorts'[c].planRevision = cohorts[c].planRevision
      /\ \A d \in Cohorts \ {c} : cohorts'[d] = cohorts[d]
  BY <1>1, CohortThere, SetStatusFields DEF Confirm, IInv, CohortStatus
<1>3. /\ HoldsPaired'
      /\ \A i \in VenueRows(c) : holds'[i].status = "confirmed"
      /\ \A i \in Items \ VenueRows(c) : holds'[i] = holds[i]
  BY <1>1, PairedAfter DEF Confirm, ConfirmResources, ResourceStatus
<1>4. CohortStage'
  BY <1>1, <1>2 DEF Confirm, IInv, CohortStage, Delivered
<1>5. PlanStage'
  <2> SUFFICES ASSUME NEW i \in Items, planItems[i] # NoRow
               PROVE  ItemStage(i)'
    BY DEF PlanStage, Confirm
  <2>1. planItems[i].cohort \in Cohorts /\ ItemStage(i)
    BY PlannedItem DEF IInv, PlanStage
  <2>2. CASE planItems[i].cohort = c
    BY <1>1, <1>2, <1>3, <2>1, <2>2 DEF Confirm, ItemStage, Delivered
  <2>3. CASE planItems[i].cohort # c
    BY <1>1, <1>2, <1>3, <2>1, <2>3 DEF Confirm, ItemStage
  <2>. QED
    BY <2>2, <2>3
<1>. QED
  BY <1>3, <1>4, <1>5 DEF Stages

LEMMA RerouteStages ==
  ASSUME IInv, NEW u \in Users, NEW c \in Cohorts, NEW i \in Items,
         NEW v \in Venues, Reroute(u, c, i, v)
  PROVE  Stages'
<1>1. holds[i] \in HoldRow /\ planItems[i] \in PlanItemRow
      /\ planItems[i] # NoRow
  BY HoldThere DEF Reroute, IInv, TypeOK, HoldsPaired, AgreeOn
<1>2. /\ holds'[i] = [holds[i] EXCEPT !.venue = v]
      /\ planItems'[i] = [planItems[i] EXCEPT !.venue = v]
      /\ \A j \in Items \ {i} : holds'[j] = holds[j] /\ planItems'[j] = planItems[j]
  BY DEF Reroute, SwapVenueHold, SwapPlanItem, IInv, TypeOK
<1>3. /\ holds'[i].venue = v /\ holds'[i].status = holds[i].status
      /\ holds'[i].cohort = holds[i].cohort
      /\ holds'[i].starts = holds[i].starts /\ holds'[i].ends = holds[i].ends
  BY <1>1, <1>2 DEF HoldRow
<1>4. /\ planItems'[i].venue = v /\ planItems'[i].cohort = planItems[i].cohort
      /\ planItems'[i].mentor = planItems[i].mentor
      /\ planItems'[i].starts = planItems[i].starts
      /\ planItems'[i].ends = planItems[i].ends
      /\ planItems'[i].revision = planItems[i].revision
  BY <1>1, <1>2 DEF PlanItemRow
<1>5. holds'[i] # NoRow /\ planItems'[i] # NoRow
  <2>1. planItems'[i] \in PlanItemRow
    BY <1>1, <1>2 DEF PlanItemRow
  <2>2. planItems'[i] # NoRow
    BY <2>1 DEF PlanItemRow, NoRow
  <2>. QED
    BY <1>3, <2>2 DEF Reroute, NoRow
<1>6. CohortStage'
  BY DEF Reroute, IInv, CohortStage
<1>7. HoldsPaired'
  <2>1. AgreeOn(i)'
    <3>1. AgreeOn(i) /\ assignments' = assignments
      BY <1>1 DEF Reroute, IInv, HoldsPaired
    <3>. QED
      BY <1>3, <1>4, <1>5, <3>1 DEF AgreeOn
  <2>2. ASSUME NEW j \in Items \ {i}
        PROVE  (planItems'[j] = NoRow /\ holds'[j] = NoRow
                  /\ assignments'[j] = NoRow) \/ AgreeOn(j)'
    BY <1>2 DEF Reroute, IInv, HoldsPaired, AgreeOn
  <2>. QED
    BY <2>1, <2>2 DEF HoldsPaired
<1>8. PlanStage'
  <2>1. ItemStage(i)'
    BY <1>1, <1>3, <1>4 DEF Reroute, IInv, PlanStage, ItemStage
  <2>2. ASSUME NEW j \in Items \ {i}, planItems'[j] # NoRow
        PROVE  ItemStage(j)'
    <3>1. ItemStage(j) /\ cohorts' = cohorts
      BY <1>2, <2>2 DEF Reroute, IInv, PlanStage
    <3>. QED
      BY <1>2, <3>1 DEF ItemStage
  <2>. QED
    BY <2>1, <2>2 DEF PlanStage
<1>. QED
  BY <1>6, <1>7, <1>8 DEF Stages

LEMMA CancelStages ==
  ASSUME IInv, NEW u \in Users, NEW c \in Cohorts,
         NEW gross \in GrossAmounts, Cancel(u, c, gross)
  PROVE  Stages'
<1>1. cohorts[c] # NoRow
  BY DEF Cancel, CanTransition, cohortTransitions, NoRow
<1>2. /\ cohorts'[c].status = "cancelled"
      /\ cohorts'[c].planRevision = cohorts[c].planRevision
      /\ \A d \in Cohorts \ {c} : cohorts'[d] = cohorts[d]
  BY <1>1, SetStatusFields DEF Cancel, IInv, CohortStatus
<1>3. /\ HoldsPaired'
      /\ \A i \in Releasable(holds, c) : holds'[i].status = "released"
      /\ \A i \in Items \ Releasable(holds, c) : holds'[i] = holds[i]
  <2>1. Releasable(holds, c) \in SUBSET Items
    BY DEF Releasable
  <2>. QED
    BY <2>1, SameReleased, PairedAfter DEF Cancel, ReleaseResources,
       ResourceStatus
<1>4. CohortStage'
  <2>1. cohorts[c].status # "none"
    BY DEF Cancel, CanTransition, cohortTransitions
  <2>. QED
    BY <1>2, <2>1 DEF Cancel, IInv, CohortStage, Delivered
<1>5. PlanStage'
  <2>1. \A i \in Items : planItems[i] # NoRow /\ planItems[i].cohort = c =>
           i \in Releasable(holds, c) \/ holds[i].status = "released"
    BY DEF Releasable, Live, IInv, HoldsPaired, AgreeOn, PlanStage, ItemStage,
       Delivered
  <2>2. \A i \in Items : planItems[i] # NoRow /\ planItems[i].cohort # c =>
           i \notin Releasable(holds, c)
    BY SameReleased
  <2>3. ASSUME NEW i \in Items, planItems[i] # NoRow
        PROVE  ItemStage(i)'
    <3>1. planItems[i].cohort \in Cohorts /\ ItemStage(i)
      BY <2>3, PlannedItem DEF IInv, PlanStage
    <3>2. CASE planItems[i].cohort = c
      BY <1>2, <1>3, <2>1, <2>3, <3>1, <3>2 DEF Cancel, ItemStage
    <3>3. CASE planItems[i].cohort # c
      BY <1>2, <1>3, <2>2, <2>3, <3>1, <3>3 DEF Cancel, ItemStage
    <3>. QED
      BY <3>2, <3>3
  <2>. QED
    BY <2>3 DEF Cancel, PlanStage
<1>. QED
  BY <1>3, <1>4, <1>5 DEF Stages


-----------------------------------------------------------------------------
LEMMA InitIInv == Init => IInv
<1> SUFFICES ASSUME Init PROVE IInv
  OBVIOUS
<1>1. CohortStage
  BY DEF Init, CohortStage, NoRow, Delivered
<1>2. HoldsPaired /\ PlanStage
  BY DEF Init, HoldsPaired, PlanStage
<1>. QED
  BY <1>1, <1>2, InitType DEF IInv

LEMMA NextIInv == IInv /\ [Next]_vars => IInv'
<1> SUFFICES ASSUME IInv, [Next]_vars PROVE IInv'
  OBVIOUS
<1>. USE DEF IInv, Stages
<1>1. ASSUME NEW u \in Users, NEW c \in Cohorts,
             NEW size \in Sizes, NEW s \in ScheduleTimes, NEW e \in ScheduleTimes,
             Apply(u, c, size, s, e)
      PROVE  IInv'
  BY <1>1, ApplyType, ApplyStages
<1>2. ASSUME NEW u \in Users, NEW c \in Cohorts, NEW approve \in BOOLEAN,
             DecideApplication(u, c, approve)
      PROVE  IInv'
  BY <1>2, DecideApplicationType, DecideApplicationStages
<1>3. ASSUME NEW u \in Users, NEW c \in Cohorts, NEW i \in Items,
             NEW v \in Venues, NEW m \in Mentors, NEW s \in ScheduleTimes,
             NEW e \in ScheduleTimes, AddPlanItem(u, c, i, v, m, s, e)
      PROVE  IInv'
  BY <1>3, AddPlanItemType, AddPlanItemStages
<1>4. ASSUME NEW u \in Users, NEW c \in Cohorts, AcknowledgeRisk(u, c)
      PROVE  IInv'
  BY <1>4, AcknowledgeRiskType DEF AcknowledgeRisk, plan, CohortStage,
     HoldsPaired, AgreeOn, PlanStage, ItemStage
<1>5. ASSUME NEW u \in Users, NEW c \in Cohorts, Confirm(u, c)
      PROVE  IInv'
  BY <1>5, ConfirmType, ConfirmStages
<1>6. ASSUME NEW u \in Users, NEW c \in Cohorts, NEW i \in Items,
             NEW v \in Venues, Reroute(u, c, i, v)
      PROVE  IInv'
  BY <1>6, RerouteType, RerouteStages
<1>7. ASSUME NEW u \in Users, NEW c \in Cohorts,
         NEW gross \in GrossAmounts, Cancel(u, c, gross)
      PROVE  IInv'
  BY <1>7, CancelType, CancelStages
<1>8. CASE Tick
  BY <1>8 DEF Tick, plan, TypeOK, CohortStage, HoldsPaired, AgreeOn, PlanStage,
     ItemStage
<1>9. CASE UNCHANGED vars
  BY <1>9 DEF vars, TypeOK, CohortStage, HoldsPaired, AgreeOn, PlanStage,
     ItemStage
<1>. QED
  BY <1>1, <1>2, <1>3, <1>4, <1>5, <1>6, <1>7, <1>8, <1>9 DEF Next, BookingStep

\* Types, the agreement of statuses and the agreement of the three tables of
\* a plan hold always.
THEOREM Agreement == Spec => []IInv
<1>. QED
  BY InitIInv, NextIInv, PTL DEF Spec

\* Every variable keeps its type.
THEOREM TypeCorrect == Spec => []TypeOK
<1>1. IInv => TypeOK
  BY DEF IInv
<1>. QED
  BY <1>1, Agreement, PTL

===============================================================================
