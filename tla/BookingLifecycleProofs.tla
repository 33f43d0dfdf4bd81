------------------------- MODULE BookingLifecycleProofs -------------------------
(***************************************************************************)
(* What the statuses of a cohort promise, for every value of the           *)
(* constants: what confirmed and cancelled mean, which steps a status may  *)
(* take, and that jobs, settlements, reroutes and the audit trail tell     *)
(* what has happened.  All of it rests on the inductive invariant IInv.    *)
(***************************************************************************)
EXTENDS CohortBookingProofs

-----------------------------------------------------------------------------
(* What each handler does to the row of its cohort.                        *)

LEMMA ApplyEffect ==
  ASSUME IInv, NEW u \in Users, NEW c \in Cohorts, NEW size \in Sizes,
         NEW s \in ScheduleTimes, NEW e \in ScheduleTimes,
         Apply(u, c, size, s, e)
  PROVE  /\ cohorts[c] = NoRow /\ applications[c] = "none"
         /\ cohorts'[c] # NoRow
         /\ cohorts'[c].status = "applied" /\ cohorts'[c].version = 1
         /\ applications'[c] = "submitted"
         /\ \A d \in Cohorts \ {c} : /\ cohorts'[d] = cohorts[d]
                                     /\ applications'[d] = applications[d]
         /\ UNCHANGED <<now, planItems, holds, assignments, acks, reroutes,
                        settlements, jobs>>
BY DEF Apply, CreateCohort, IInv, TypeOK, CohortStage, NoRow, plan

\* An UPDATE of a status also counts the version up and keeps the window.
LEMMA SetStatusCounts ==
  ASSUME TypeOK, NEW c \in Cohorts, cohorts[c] # NoRow, NEW to \in CohortStatus,
         cohorts' = SetStatus(c, to)
  PROVE  /\ cohorts'[c].version = cohorts[c].version + 1
         /\ cohorts'[c].starts = cohorts[c].starts
         /\ cohorts'[c].size = cohorts[c].size
         /\ cohorts[c].version \in Nat
<1>1. cohorts[c] \in CohortRow
  BY DEF TypeOK
<1>2. cohorts'[c] = [cohorts[c] EXCEPT !.status = to,
                                       !.version = cohorts[c].version + 1]
  BY DEF SetStatus, TypeOK
<1>3. ASSUME NEW n
      PROVE  LET row == [cohorts[c] EXCEPT !.status = to, !.version = n]
             IN  /\ row.version = n
                 /\ row.starts = cohorts[c].starts
                 /\ row.size = cohorts[c].size
  BY <1>1 DEF CohortRow
<1>4. cohorts[c].version \in Nat
  BY <1>1 DEF CohortRow
<1>. QED
  BY <1>2, <1>3, <1>4

\* The row of a cohort after its status went to "to".
StatusWritten(c, to) ==
  /\ cohorts[c] # NoRow /\ cohorts'[c] # NoRow
  /\ cohorts'[c].status = to
  /\ cohorts'[c].planRevision = cohorts[c].planRevision
  /\ cohorts'[c].owner = cohorts[c].owner
  /\ cohorts'[c].starts = cohorts[c].starts
  /\ cohorts'[c].size = cohorts[c].size
  /\ cohorts[c].version \in Nat
  /\ cohorts'[c].version = cohorts[c].version + 1
  /\ \A d \in Cohorts \ {c} : cohorts'[d] = cohorts[d]

LEMMA Written ==
  ASSUME TypeOK, NEW c \in Cohorts, cohorts[c] # NoRow, NEW to \in CohortStatus,
         cohorts' = SetStatus(c, to)
  PROVE  StatusWritten(c, to)
<1>1. cohorts'[c].status # NoRow.status
  BY SetStatusFields DEF NoRow, CohortStatus
<1>. QED
  BY <1>1, SetStatusFields, SetStatusCounts DEF StatusWritten

LEMMA DecideEffect ==
  ASSUME IInv, NEW u \in Users, NEW c \in Cohorts, NEW approve \in BOOLEAN,
         DecideApplication(u, c, approve)
  PROVE  /\ applications[c] = "submitted"
         /\ applications'[c] = ApplicationAfter(approve)
         /\ \A d \in Cohorts \ {c} : applications'[d] = applications[d]
         /\ cohorts[c].status \in {"applied", "cancelled"}
         /\ approve => cohorts[c].status = "applied"
         /\ StatusWritten(c, CohortAfter(approve))
         /\ UNCHANGED <<now, planItems, holds, assignments, acks, reroutes,
                        settlements, jobs>>
<1>1. applications[c] = "submitted"
  BY DEF DecideApplication, ApplicationAfter, applicationTransitions, IInv,
     TypeOK, ApplicationStatus
<1>2. cohorts[c].status \in {"applied", "cancelled"}
  BY <1>1 DEF IInv, CohortStage, Delivered
<1>3. approve => cohorts[c].status = "applied"
  BY <1>2 DEF DecideApplication, CohortAfter, CanTransition, cohortTransitions
<1>4. StatusWritten(c, CohortAfter(approve))
  <2>1. cohorts[c] # NoRow
    BY <1>2 DEF NoRow
  <2>2. CohortAfter(approve) \in CohortStatus
    BY DEF CohortAfter, CohortStatus
  <2>. QED
    BY <2>1, <2>2, Written DEF DecideApplication, IInv
<1>5. /\ applications'[c] = ApplicationAfter(approve)
      /\ \A d \in Cohorts \ {c} : applications'[d] = applications[d]
  BY DEF DecideApplication, IInv, TypeOK
<1>. QED
  BY <1>1, <1>2, <1>3, <1>4, <1>5 DEF DecideApplication, plan

LEMMA ConfirmEffect ==
  ASSUME IInv, NEW u \in Users, NEW c \in Cohorts, Confirm(u, c)
  PROVE  /\ cohorts[c].status = "planned"
         /\ StatusWritten(c, "confirmed")
         /\ UNCHANGED <<now, applications, planItems, acks, reroutes, settlements>>
<1>1. cohorts[c].status = "planned"
  BY AllConfirmed
<1>2. StatusWritten(c, "confirmed")
  BY <1>1, CohortThere, Written DEF Confirm, IInv, CohortStatus
<1>. QED
  BY <1>1, <1>2 DEF Confirm

LEMMA CancelEffect ==
  ASSUME IInv, NEW u \in Users, NEW c \in Cohorts,
         NEW gross \in GrossAmounts, Cancel(u, c, gross)
  PROVE  /\ cohorts[c].status \in {"applied", "planned"} \cup Delivered
         /\ StatusWritten(c, "cancelled")
         /\ UNCHANGED <<now, applications, planItems, acks, reroutes>>
<1>1. cohorts[c].status \in {"applied", "planned"} \cup Delivered
  BY DEF Cancel, CanTransition, cohortTransitions, IInv, CohortStage
<1>2. cohorts[c] # NoRow
  BY <1>1 DEF NoRow, Delivered
<1>3. StatusWritten(c, "cancelled")
  BY <1>2, Written DEF Cancel, IInv, CohortStatus
<1>. QED
  BY <1>1, <1>3 DEF Cancel

-----------------------------------------------------------------------------
(* What confirmed means.                                                   *)

\* An acknowledgement was made by the leader who owns the cohort ...
AckStage ==
  \A c \in Cohorts : <<c, 1>> \in acks =>
      cohorts[c] # NoRow /\ RoleOf[cohorts[c].owner] = "leader"

\* ... and a confirmed cohort has one, and an item in its plan.
DeliveredStage ==
  \A c \in Cohorts : cohorts[c].status \in Delivered =>
      /\ <<c, 1>> \in acks
      /\ \E i \in Items : planItems[i] # NoRow /\ planItems[i].cohort = c

LEMMA NextAckStage ==
  ASSUME IInv, AckStage, [Next]_vars
  PROVE  AckStage'
<1>1. ASSUME NEW u \in Users, NEW c \in Cohorts, NEW size \in Sizes,
             NEW s \in ScheduleTimes, NEW e \in ScheduleTimes,
             Apply(u, c, size, s, e)
      PROVE  AckStage'
  BY <1>1, ApplyEffect DEF AckStage
<1>2. ASSUME NEW u \in Users, NEW c \in Cohorts, NEW approve \in BOOLEAN,
             DecideApplication(u, c, approve)
      PROVE  AckStage'
  BY <1>2, DecideEffect DEF AckStage, StatusWritten
<1>3. ASSUME NEW u \in Users, NEW c \in Cohorts, AcknowledgeRisk(u, c)
      PROVE  AckStage'
  <2>1. cohorts' = cohorts /\ cohorts[c] # NoRow
        /\ RoleOf[cohorts[c].owner] = "leader"
        /\ \A d \in Cohorts : <<d, 1>> \in acks' => d = c \/ <<d, 1>> \in acks
    BY <1>3 DEF AcknowledgeRisk, MayAcknowledge, Require, UpsertAcknowledgement
  <2>. QED
    BY <2>1 DEF AckStage
<1>4. ASSUME NEW u \in Users, NEW c \in Cohorts, Confirm(u, c)
      PROVE  AckStage'
  BY <1>4, ConfirmEffect DEF AckStage, StatusWritten
<1>5. ASSUME NEW u \in Users, NEW c \in Cohorts,
             NEW gross \in GrossAmounts, Cancel(u, c, gross)
      PROVE  AckStage'
  BY <1>5, CancelEffect DEF AckStage, StatusWritten
<1>6. ASSUME UNCHANGED <<cohorts, acks>>
      PROVE  AckStage'
  BY <1>6 DEF AckStage
<1>7. ASSUME NEW u \in Users, NEW c \in Cohorts, NEW i \in Items, NEW v \in Venues
      PROVE  /\ \A m \in Mentors, s, e \in ScheduleTimes :
                   AddPlanItem(u, c, i, v, m, s, e) => UNCHANGED <<cohorts, acks>>
             /\ Reroute(u, c, i, v) => UNCHANGED <<cohorts, acks>>
  BY DEF AddPlanItem, Reroute
<1>8. Tick \/ UNCHANGED vars => UNCHANGED <<cohorts, acks>>
  BY DEF Tick, vars
<1>. QED
  BY <1>1, <1>2, <1>3, <1>4, <1>5, <1>6, <1>7, <1>8 DEF Next, BookingStep

LEMMA NextDeliveredStage ==
  ASSUME IInv, DeliveredStage, [Next]_vars
  PROVE  DeliveredStage'
<1>1. ASSUME NEW u \in Users, NEW c \in Cohorts, NEW size \in Sizes,
             NEW s \in ScheduleTimes, NEW e \in ScheduleTimes,
             Apply(u, c, size, s, e)
      PROVE  DeliveredStage'
  BY <1>1, ApplyEffect DEF DeliveredStage, Delivered
<1>2. ASSUME NEW u \in Users, NEW c \in Cohorts, NEW approve \in BOOLEAN,
             DecideApplication(u, c, approve)
      PROVE  DeliveredStage'
  BY <1>2, DecideEffect DEF DeliveredStage, StatusWritten, Delivered, CohortAfter
<1>3. ASSUME NEW u \in Users, NEW c \in Cohorts, NEW i \in Items,
             NEW v \in Venues, NEW m \in Mentors, NEW s \in ScheduleTimes,
             NEW e \in ScheduleTimes, AddPlanItem(u, c, i, v, m, s, e)
      PROVE  DeliveredStage'
  <2>1. /\ cohorts' = cohorts /\ acks' = acks
        /\ planItems[i] = NoRow
        /\ \A j \in Items \ {i} : planItems'[j] = planItems[j]
    BY <1>3 DEF AddPlanItem, CreatePlanItem, IInv, TypeOK
  <2>. QED
    BY <2>1 DEF DeliveredStage
<1>4. ASSUME NEW u \in Users, NEW c \in Cohorts, AcknowledgeRisk(u, c)
      PROVE  DeliveredStage'
  BY <1>4 DEF AcknowledgeRisk, UpsertAcknowledgement, DeliveredStage, plan
<1>5. ASSUME NEW u \in Users, NEW c \in Cohorts, Confirm(u, c)
      PROVE  DeliveredStage'
  <2>1. /\ <<c, 1>> \in acks
        /\ \E i \in Items : planItems[i] # NoRow /\ planItems[i].cohort = c
    <3>1. cohorts[c].planRevision = 1
      BY <1>5, ConfirmEffect DEF IInv, CohortStage
    <3>. QED
      BY <1>5, <3>1 DEF Confirm, ListPlanItems
  <2>. QED
    BY <1>5, <2>1, ConfirmEffect DEF DeliveredStage, StatusWritten
<1>6. ASSUME NEW u \in Users, NEW c \in Cohorts, NEW i \in Items,
             NEW v \in Venues, Reroute(u, c, i, v)
      PROVE  DeliveredStage'
  <2>1. /\ planItems'[i] # NoRow /\ planItems'[i].cohort = planItems[i].cohort
        /\ \A j \in Items \ {i} : planItems'[j] = planItems[j]
    <3>1. planItems[i] \in PlanItemRow
      BY <1>6, HoldThere DEF Reroute, IInv, TypeOK, HoldsPaired, AgreeOn
    <3>2. planItems' = [planItems EXCEPT ![i].venue = v]
      BY <1>6 DEF Reroute, SwapVenueHold, SwapPlanItem
    <3>3. planItems'[i] = [planItems[i] EXCEPT !.venue = v]
          /\ \A j \in Items \ {i} : planItems'[j] = planItems[j]
      BY <3>2 DEF IInv, TypeOK
    <3>4. planItems'[i] \in PlanItemRow /\ planItems'[i].cohort = planItems[i].cohort
      BY <3>1, <3>3 DEF PlanItemRow
    <3>5. NoRow \notin PlanItemRow
      BY DEF PlanItemRow, NoRow
    <3>. QED
      BY <3>3, <3>4, <3>5
  <2>2. cohorts' = cohorts /\ acks' = acks
    BY <1>6 DEF Reroute
  <2>. QED
    BY <2>1, <2>2 DEF DeliveredStage
<1>7. ASSUME NEW u \in Users, NEW c \in Cohorts,
             NEW gross \in GrossAmounts, Cancel(u, c, gross)
      PROVE  DeliveredStage'
  BY <1>7, CancelEffect DEF DeliveredStage, StatusWritten, Delivered
<1>8. CASE Tick \/ UNCHANGED vars
  BY <1>8 DEF DeliveredStage, Tick, vars, plan
<1>. QED
  BY <1>1, <1>2, <1>3, <1>4, <1>5, <1>6, <1>7, <1>8 DEF Next, BookingStep

LEMMA InitConfirmed == Init => AckStage /\ DeliveredStage
BY DEF Init, AckStage, DeliveredStage, NoRow, Delivered

LEMMA ConfirmedAlways == Spec => [](IInv /\ AckStage /\ DeliveredStage)
<1>1. IInv /\ AckStage /\ DeliveredStage /\ [Next]_vars
        => AckStage' /\ DeliveredStage'
  BY NextAckStage, NextDeliveredStage
<1>. QED
  BY <1>1, InitConfirmed, Agreement, PTL DEF Spec

LEMMA CompleteByStage == IInv /\ DeliveredStage => ConfirmedComplete
<1> SUFFICES ASSUME IInv, DeliveredStage, NEW c \in Cohorts,
                    cohorts[c].status \in Delivered
             PROVE  /\ applications[c] = "approved"
                    /\ ListPlanItems(c) # {}
                    /\ \A i \in ListPlanItems(c) :
                          /\ holds[i].status = "confirmed"
                          /\ assignments[i].status = "confirmed"
  BY DEF ConfirmedComplete
<1>1. applications[c] = "approved" /\ cohorts[c].planRevision = 1
  BY DEF IInv, CohortStage, Delivered
<1>2. \A i \in Items : planItems[i] # NoRow /\ planItems[i].cohort = c =>
         /\ planItems[i].revision = 1
         /\ holds[i].status = "confirmed"
         /\ assignments[i].status = "confirmed"
  <2> SUFFICES ASSUME NEW i \in Items, planItems[i] # NoRow,
                      planItems[i].cohort = c
               PROVE  /\ planItems[i].revision = 1
                      /\ holds[i].status = "confirmed"
                      /\ assignments[i].status = "confirmed"
    OBVIOUS
  <2>1. planItems[i].revision = 1 /\ holds[i].status = "confirmed"
    BY DEF IInv, PlanStage, ItemStage, Delivered
  <2>. QED
    BY <2>1 DEF IInv, HoldsPaired, AgreeOn
<1>. QED
  BY <1>1, <1>2 DEF ListPlanItems, DeliveredStage

\* A confirmed cohort has an approved application and a plan whose every item
\* is confirmed at its venue and with its mentor (Confirm, ConfirmResources).
THEOREM ConfirmedIsComplete == Spec => []ConfirmedComplete
BY CompleteByStage, ConfirmedAlways, PTL

LEMMA AcknowledgedByStage == IInv /\ AckStage /\ DeliveredStage => ConfirmedAcknowledged
<1> SUFFICES ASSUME IInv, AckStage, DeliveredStage, NEW c \in Cohorts,
                    cohorts[c].status \in Delivered
             PROVE  /\ RoleOf[cohorts[c].owner] = "leader"
                    /\ <<c, cohorts[c].planRevision>> \in acks
  BY DEF ConfirmedAcknowledged
<1>1. cohorts[c].planRevision = 1
  BY DEF IInv, CohortStage, Delivered
<1>2. <<c, 1>> \in acks
  BY DEF DeliveredStage
<1>. QED
  BY <1>1, <1>2 DEF AckStage

\* A confirmed cohort was applied for by a leader, who acknowledged its risk
\* (AcknowledgeRisk, Confirm): one an operator applied for is never confirmed.
THEOREM ConfirmedIsAcknowledged == Spec => []ConfirmedAcknowledged
BY AcknowledgedByStage, ConfirmedAlways, PTL


-----------------------------------------------------------------------------
(* What cancelled means, and what the outbox tells.                        *)

\* Cancelled is settled or rejected, and nobody else is settled.
SettledStage ==
  \A c \in Cohorts :
    /\ cohorts[c].status = "cancelled" =>
          settlements[c] # NoRow \/ applications[c] = "rejected"
    /\ settlements[c] # NoRow => cohorts[c].status = "cancelled"

LEMMA JobCreated ==
  ASSUME TypeOK, NEW kind \in JobKinds, NEW c \in Cohorts, CreateJob(kind, c)
  PROVE  /\ jobs[<<kind, c>>] \in Nat
         /\ jobs'[<<kind, c>>] = jobs[<<kind, c>>] + 1
         /\ \A k \in JobKinds, d \in Cohorts :
               k # kind \/ d # c => jobs'[<<k, d>>] = jobs[<<k, d>>]
BY DEF TypeOK, CreateJob

LEMMA SettlementCreated ==
  ASSUME IInv, NEW u \in Users, NEW c \in Cohorts,
         NEW gross \in GrossAmounts, Cancel(u, c, gross)
  PROVE  /\ settlements[c] = NoRow
         /\ settlements'[c] = NewCancellationSettlement(gross, cohorts[c].starts)
         /\ settlements'[c] # NoRow
         /\ settlements'[c] \in SettlementRow
         /\ \A d \in Cohorts \ {c} : settlements'[d] = settlements[d]
<1>1. TypeOK'
  BY CancelType
<1>2. /\ settlements[c] = NoRow
      /\ settlements'[c] = NewCancellationSettlement(gross, cohorts[c].starts)
      /\ \A d \in Cohorts \ {c} : settlements'[d] = settlements[d]
  BY DEF Cancel, CreateSettlement, IInv, TypeOK
<1>3. settlements'[c].gross = gross /\ settlements'[c] # NoRow
  <2> DEFINE fee == Fee(gross, FeeRate(cohorts[c].starts - now))
  <2> HIDE DEF fee
  <2>1. settlements'[c] = [gross |-> gross, fee |-> fee, refund |-> gross - fee,
                           createdAt |-> now]
    BY <1>2 DEF NewCancellationSettlement, fee
  <2>. QED
    BY <2>1 DEF NoRow
<1>. QED
  BY <1>1, <1>2, <1>3 DEF TypeOK

LEMMA NextSettledStage ==
  ASSUME IInv, SettledStage, [Next]_vars
  PROVE  SettledStage'
<1>1. ASSUME NEW u \in Users, NEW c \in Cohorts, NEW size \in Sizes,
             NEW s \in ScheduleTimes, NEW e \in ScheduleTimes,
             Apply(u, c, size, s, e)
      PROVE  SettledStage'
  <2>1. settlements[c] = NoRow
    BY <1>1, ApplyEffect DEF SettledStage, NoRow
  <2>. QED
    BY <1>1, <2>1, ApplyEffect DEF SettledStage
<1>2. ASSUME NEW u \in Users, NEW c \in Cohorts, NEW approve \in BOOLEAN,
             DecideApplication(u, c, approve)
      PROVE  SettledStage'
  <2>1. approve => settlements[c] = NoRow
    BY <1>2, DecideEffect DEF SettledStage
  <2>. QED
    BY <1>2, <2>1, DecideEffect
       DEF SettledStage, StatusWritten, CohortAfter, ApplicationAfter
<1>3. ASSUME NEW u \in Users, NEW c \in Cohorts, Confirm(u, c)
      PROVE  SettledStage'
  <2>1. settlements[c] = NoRow
    BY <1>3, ConfirmEffect DEF SettledStage
  <2>. QED
    BY <1>3, <2>1, ConfirmEffect DEF SettledStage, StatusWritten
<1>4. ASSUME NEW u \in Users, NEW c \in Cohorts,
             NEW gross \in GrossAmounts, Cancel(u, c, gross)
      PROVE  SettledStage'
  BY <1>4, CancelEffect, SettlementCreated DEF SettledStage, StatusWritten
<1>5. ASSUME UNCHANGED <<cohorts, applications, settlements>>
      PROVE  SettledStage'
  BY <1>5 DEF SettledStage
<1>6. ASSUME NEW u \in Users, NEW c \in Cohorts
      PROVE  /\ \A i \in Items, v \in Venues, m \in Mentors,
                   s, e \in ScheduleTimes : AddPlanItem(u, c, i, v, m, s, e) =>
                   UNCHANGED <<cohorts, applications, settlements>>
             /\ \A i \in Items, v \in Venues : Reroute(u, c, i, v) =>
                   UNCHANGED <<cohorts, applications, settlements>>
             /\ AcknowledgeRisk(u, c) =>
                   UNCHANGED <<cohorts, applications, settlements>>
  BY DEF AddPlanItem, Reroute, AcknowledgeRisk
<1>7. Tick \/ UNCHANGED vars => UNCHANGED <<cohorts, applications, settlements>>
  BY DEF Tick, vars
<1>. QED
  BY <1>1, <1>2, <1>3, <1>4, <1>5, <1>6, <1>7 DEF Next, BookingStep

\* One notice while a cohort is confirmed and none before: the three kinds of
\* cohort of OutboxMatches, one by one.
JobsMatch(c) ==
  /\ jobs[<<"settlement.process", c>>] = IF settlements[c] = NoRow THEN 0 ELSE 1
  /\ cohorts[c].status \in Delivered => jobs[<<"confirmation.notice", c>>] = 1
  /\ cohorts[c].status = "cancelled" =>
        jobs[<<"confirmation.notice", c>>] \in {0, 1}
  /\ cohorts[c].status \notin Delivered \cup {"cancelled"} =>
        jobs[<<"confirmation.notice", c>>] = 0

LEMMA OutboxByStatus ==
  /\ OutboxMatches <=> \A c \in Cohorts : JobsMatch(c)
  /\ OutboxMatches' <=> \A c \in Cohorts : JobsMatch(c)'
BY DEF OutboxMatches, JobsMatch, Delivered

\* A step that leaves the status alone leaves the cohort's jobs right.
LEMMA OtherJobs ==
  ASSUME NEW c \in Cohorts, JobsMatch(c), cohorts'[c] = cohorts[c],
         settlements'[c] = settlements[c],
         \A k \in JobKinds : jobs'[<<k, c>>] = jobs[<<k, c>>]
  PROVE  JobsMatch(c)'
BY DEF JobsMatch, JobKinds

LEMMA NextOutbox ==
  ASSUME IInv, SettledStage, OutboxMatches, [Next]_vars
  PROVE  OutboxMatches'
<1>0. \A c \in Cohorts : JobsMatch(c)
  BY OutboxByStatus
<1>1. ASSUME NEW u \in Users, NEW c \in Cohorts, NEW size \in Sizes,
             NEW s \in ScheduleTimes, NEW e \in ScheduleTimes,
             Apply(u, c, size, s, e), NEW d \in Cohorts
      PROVE  JobsMatch(d)'
  <2>1. jobs' = jobs /\ settlements' = settlements
    BY <1>1, ApplyEffect
  <2>2. CASE d = c
    BY <1>0, <1>1, <2>1, <2>2, ApplyEffect DEF JobsMatch, Delivered, NoRow
  <2>3. CASE d # c
    BY <1>0, <1>1, <2>1, <2>3, ApplyEffect, OtherJobs
  <2>. QED
    BY <2>2, <2>3
<1>2. ASSUME NEW u \in Users, NEW c \in Cohorts, NEW approve \in BOOLEAN,
             DecideApplication(u, c, approve), NEW d \in Cohorts
      PROVE  JobsMatch(d)'
  <2>1. jobs' = jobs /\ settlements' = settlements
    BY <1>2, DecideEffect
  <2>2. CASE d = c
    <3>1. cohorts'[c].status = CohortAfter(approve)
      BY <1>2, DecideEffect DEF StatusWritten
    <3>2. /\ cohorts[c].status \in {"applied", "cancelled"}
          /\ approve => cohorts[c].status = "applied"
      BY <1>2, DecideEffect
    <3>. QED
      BY <1>0, <2>1, <2>2, <3>1, <3>2 DEF JobsMatch, Delivered, CohortAfter
  <2>3. CASE d # c
    BY <1>0, <1>2, <2>1, <2>3, DecideEffect, OtherJobs DEF StatusWritten
  <2>. QED
    BY <2>2, <2>3
<1>3. ASSUME NEW u \in Users, NEW c \in Cohorts, Confirm(u, c), NEW d \in Cohorts
      PROVE  JobsMatch(d)'
  <2>1. CreateJob("confirmation.notice", c)
    BY <1>3 DEF Confirm
  <2>2. /\ \A k \in JobKinds, o \in Cohorts :
              k # "confirmation.notice" \/ o # c => jobs'[<<k, o>>] = jobs[<<k, o>>]
        /\ jobs'[<<"confirmation.notice", c>>] =
              jobs[<<"confirmation.notice", c>>] + 1
    BY <2>1, JobCreated DEF JobKinds, IInv
  <2>3. CASE d = c
    <3>1. /\ cohorts[c].status = "planned" /\ cohorts'[c].status = "confirmed"
          /\ settlements' = settlements
      BY <1>3, ConfirmEffect DEF StatusWritten
    <3>2. jobs[<<"confirmation.notice", c>>] = 0
      BY <1>0, <3>1 DEF JobsMatch, Delivered
    <3>3. jobs'[<<"settlement.process", c>>] = jobs[<<"settlement.process", c>>]
      BY <2>2 DEF JobKinds
    <3>. QED
      BY <1>0, <2>2, <2>3, <3>1, <3>2, <3>3 DEF JobsMatch, Delivered
  <2>4. CASE d # c
    BY <1>0, <1>3, <2>2, <2>4, ConfirmEffect, OtherJobs DEF StatusWritten
  <2>. QED
    BY <2>3, <2>4
<1>4. ASSUME NEW u \in Users, NEW c \in Cohorts,
             NEW gross \in GrossAmounts, Cancel(u, c, gross), NEW d \in Cohorts
      PROVE  JobsMatch(d)'
  <2>1. CreateJob("settlement.process", c)
    BY <1>4 DEF Cancel
  <2>2. /\ \A k \in JobKinds, o \in Cohorts :
              k # "settlement.process" \/ o # c => jobs'[<<k, o>>] = jobs[<<k, o>>]
        /\ jobs'[<<"settlement.process", c>>] =
              jobs[<<"settlement.process", c>>] + 1
    BY <2>1, JobCreated DEF JobKinds, IInv
  <2>3. CASE d = c
    <3>1. /\ cohorts'[c].status = "cancelled"
          /\ settlements[c] = NoRow /\ settlements'[c] # NoRow
      BY <1>4, CancelEffect, SettlementCreated DEF StatusWritten
    <3>2. jobs[<<"settlement.process", c>>] = 0
      BY <1>0, <3>1 DEF JobsMatch
    <3>3. jobs'[<<"confirmation.notice", c>>] = jobs[<<"confirmation.notice", c>>]
      BY <2>2 DEF JobKinds
    <3>4. jobs[<<"confirmation.notice", c>>] \in {0, 1}
      BY <1>0 DEF JobsMatch
    <3>. QED
      BY <2>2, <2>3, <3>1, <3>2, <3>3, <3>4 DEF JobsMatch, Delivered
  <2>4. CASE d # c
    BY <1>0, <1>4, <2>2, <2>4, CancelEffect, SettlementCreated, OtherJobs
       DEF StatusWritten
  <2>. QED
    BY <2>3, <2>4
<1>5. ASSUME UNCHANGED <<cohorts, settlements, jobs>>
      PROVE  \A d \in Cohorts : JobsMatch(d)'
  BY <1>0, <1>5, OtherJobs
<1>6. ASSUME NEW u \in Users, NEW c \in Cohorts
      PROVE  /\ \A i \in Items, v \in Venues, m \in Mentors,
                   s, e \in ScheduleTimes : AddPlanItem(u, c, i, v, m, s, e) =>
                   UNCHANGED <<cohorts, settlements, jobs>>
             /\ \A i \in Items, v \in Venues : Reroute(u, c, i, v) =>
                   UNCHANGED <<cohorts, settlements, jobs>>
             /\ AcknowledgeRisk(u, c) => UNCHANGED <<cohorts, settlements, jobs>>
  BY DEF AddPlanItem, Reroute, AcknowledgeRisk
<1>7. Tick \/ UNCHANGED vars => UNCHANGED <<cohorts, settlements, jobs>>
  BY DEF Tick, vars
<1>8. \A d \in Cohorts : JobsMatch(d)'
  BY <1>1, <1>2, <1>3, <1>4, <1>5, <1>6, <1>7 DEF Next, BookingStep
<1>. QED
  BY <1>8, OutboxByStatus

LEMMA InitSettled == Init => SettledStage /\ OutboxMatches
BY DEF Init, SettledStage, OutboxMatches, NoRow, Delivered, JobKinds

LEMMA SettledAlways == Spec => [](IInv /\ SettledStage /\ OutboxMatches)
<1>1. IInv /\ SettledStage /\ OutboxMatches /\ [Next]_vars
        => SettledStage' /\ OutboxMatches'
  BY NextSettledStage, NextOutbox
<1>. QED
  BY <1>1, InitSettled, Agreement, PTL DEF Spec

LEMMA ReleasedByStage == IInv /\ SettledStage => CancelledReleased
<1>1. ASSUME IInv, NEW c \in Cohorts, cohorts[c].status = "cancelled",
             NEW i \in Items, holds[i].status \in Live
                                \/ assignments[i].status \in Live
      PROVE  holds[i].cohort # c /\ assignments[i].cohort # c
  <2>1. AgreeOn(i)
    BY <1>1 DEF IInv, HoldsPaired, NoRow, Live
  <2>2. planItems[i].cohort # c
    BY <1>1, <2>1 DEF AgreeOn, IInv, PlanStage, ItemStage, Delivered, Live
  <2>. QED
    BY <2>1, <2>2 DEF AgreeOn
<1>. QED
  BY <1>1 DEF CancelledReleased, SettledStage

\* A cancelled cohort is settled or was rejected, and keeps neither a seat
\* nor a mentor's hour; nothing else is settled (Cancel, ReleaseResources).
THEOREM CancelledIsReleased == Spec => []CancelledReleased
BY ReleasedByStage, SettledAlways, PTL

\* One settlement job for each settlement, one notice for each confirmed
\* cohort and none before (CreateJob in Confirm and in Cancel).
THEOREM OutboxTellsTruth == Spec => []OutboxMatches
BY SettledAlways, PTL

-----------------------------------------------------------------------------
(* The steps a status may take.                                            *)

LifecycleStep(c) ==
  cohorts[c] # NoRow /\ cohorts'[c] # cohorts[c] =>
    \/ cohorts'[c].status \in cohortTransitions[cohorts[c].status]
    \/ /\ cohorts[c].status = "cancelled" /\ cohorts'[c].status = "cancelled"
       /\ applications[c] = "submitted" /\ applications'[c] = "rejected"

LEMMA NextLifecycle ==
  ASSUME IInv, [Next]_vars, NEW c \in Cohorts
  PROVE  LifecycleStep(c)
<1>1. ASSUME NEW u \in Users, NEW d \in Cohorts, NEW size \in Sizes,
             NEW s \in ScheduleTimes, NEW e \in ScheduleTimes,
             Apply(u, d, size, s, e)
      PROVE  LifecycleStep(c)
  BY <1>1, ApplyEffect DEF LifecycleStep
<1>2. ASSUME NEW u \in Users, NEW d \in Cohorts, NEW approve \in BOOLEAN,
             DecideApplication(u, d, approve)
      PROVE  LifecycleStep(c)
  <2>1. /\ cohorts[d].status \in {"applied", "cancelled"}
        /\ approve => cohorts[d].status = "applied"
        /\ cohorts'[d].status = CohortAfter(approve)
        /\ applications[d] = "submitted"
        /\ applications'[d] = ApplicationAfter(approve)
        /\ c # d => cohorts'[c] = cohorts[c]
    BY <1>2, DecideEffect DEF StatusWritten
  <2>. QED
    BY <2>1 DEF LifecycleStep, CohortAfter, ApplicationAfter, cohortTransitions
<1>3. ASSUME NEW u \in Users, NEW d \in Cohorts, Confirm(u, d)
      PROVE  LifecycleStep(c)
  BY <1>3, ConfirmEffect DEF LifecycleStep, StatusWritten, cohortTransitions
<1>4. ASSUME NEW u \in Users, NEW d \in Cohorts,
             NEW gross \in GrossAmounts, Cancel(u, d, gross)
      PROVE  LifecycleStep(c)
  BY <1>4, CancelEffect
     DEF LifecycleStep, StatusWritten, cohortTransitions, Delivered
<1>5. ASSUME UNCHANGED cohorts
      PROVE  LifecycleStep(c)
  BY <1>5 DEF LifecycleStep
<1>6. ASSUME NEW u \in Users, NEW d \in Cohorts
      PROVE  /\ \A i \in Items, v \in Venues, m \in Mentors,
                   s, e \in ScheduleTimes :
                   AddPlanItem(u, d, i, v, m, s, e) => UNCHANGED cohorts
             /\ \A i \in Items, v \in Venues :
                   Reroute(u, d, i, v) => UNCHANGED cohorts
             /\ AcknowledgeRisk(u, d) => UNCHANGED cohorts
  BY DEF AddPlanItem, Reroute, AcknowledgeRisk
<1>7. Tick \/ UNCHANGED vars => UNCHANGED cohorts
  BY DEF Tick, vars
<1>. QED
  BY <1>1, <1>2, <1>3, <1>4, <1>5, <1>6, <1>7 DEF Next, BookingStep

\* The status of a cohort moves along the lifecycle table; the one write that
\* does not is a rejection decided for a cohort already cancelled.
THEOREM LifecycleFollowed == Spec => LifecycleSteps
<1>1. IInv /\ [Next]_vars =>
        [\A c \in Cohorts : cohorts[c] # NoRow /\ cohorts'[c] # cohorts[c] =>
          \/ cohorts'[c].status \in cohortTransitions[cohorts[c].status]
          \/ /\ cohorts[c].status = "cancelled" /\ cohorts'[c].status = "cancelled"
             /\ applications[c] = "submitted" /\ applications'[c] = "rejected"]_vars
  BY NextLifecycle DEF LifecycleStep
<1>. QED
  BY <1>1, Agreement, PTL DEF Spec, LifecycleSteps

-----------------------------------------------------------------------------
(* Holds are confirmed while they last.                                    *)

\* The text order errs by less than a second.
LEMMA TextLTError ==
  ASSUME NEW t \in Nat, NEW u \in Nat, TextLT(t, u)
  PROVE  t < u + TicksPerSecond
BY TicksAssumption DEF TextLT, FormatTime

ConfirmedLate(i) ==
  /\ holds[i].status = "held" /\ holds'[i].status = "confirmed"
  /\ ~ (now < holds[i].expiresAt + TicksPerSecond)

LEMMA NextInTime ==
  ASSUME IInv, [Next]_vars, NEW i \in Items
  PROVE  ~ ConfirmedLate(i)
<1>1. ASSUME NEW u \in Users, NEW c \in Cohorts, Confirm(u, c)
      PROVE  ~ ConfirmedLate(i)
  <2>1. CASE i \in VenueRows(c)
    <3>1. TextLT(now, holds[i].expiresAt) /\ holds[i].status = "held"
      BY <2>1 DEF VenueRows, Confirmable
    <3>2. holds[i] \in HoldRow
      BY <3>1, HoldThere DEF IInv
    <3>3. now \in Nat /\ holds[i].expiresAt \in Nat
      BY <3>2 DEF HoldRow, IInv, TypeOK
    <3>. QED
      BY <3>1, <3>3, TextLTError DEF ConfirmedLate
  <2>2. CASE i \notin VenueRows(c)
    BY <1>1, <2>2 DEF Confirm, ConfirmResources, WithStatus, ConfirmedLate
  <2>. QED
    BY <2>1, <2>2
<1>2. ASSUME NEW u \in Users, NEW c \in Cohorts,
             NEW gross \in GrossAmounts, Cancel(u, c, gross)
      PROVE  ~ ConfirmedLate(i)
  <2>1. CASE i \in Releasable(holds, c)
    <3>1. holds[i] \in HoldRow
      BY <2>1, HoldThere DEF Releasable, Live, IInv
    <3>2. holds'[i] = [holds[i] EXCEPT !.status = "released"]
      BY <1>2, <2>1 DEF Cancel, ReleaseResources, WithStatus
    <3>3. holds'[i].status = "released"
      BY <3>1, <3>2 DEF HoldRow
    <3>. QED
      BY <3>3 DEF ConfirmedLate
  <2>2. CASE i \notin Releasable(holds, c)
    BY <1>2, <2>2 DEF Cancel, ReleaseResources, WithStatus, ConfirmedLate
  <2>. QED
    BY <2>1, <2>2
<1>3. ASSUME NEW u \in Users, NEW c \in Cohorts, NEW j \in Items,
             NEW v \in Venues, NEW m \in Mentors, NEW s \in ScheduleTimes,
             NEW e \in ScheduleTimes, AddPlanItem(u, c, j, v, m, s, e)
      PROVE  ~ ConfirmedLate(i)
  <2>1. holds'[j].status = "held" /\ \A k \in Items \ {j} : holds'[k] = holds[k]
    BY <1>3 DEF AddPlanItem, CreatePlanItem, IInv, TypeOK
  <2>. QED
    BY <2>1 DEF ConfirmedLate
<1>4. ASSUME NEW u \in Users, NEW c \in Cohorts, NEW j \in Items,
             NEW v \in Venues, Reroute(u, c, j, v)
      PROVE  ~ ConfirmedLate(i)
  <2>1. /\ holds[j].status = "confirmed"
        /\ \A k \in Items \ {j} : holds'[k] = holds[k]
    BY <1>4 DEF Reroute, SwapVenueHold, IInv, TypeOK
  <2>. QED
    BY <2>1 DEF ConfirmedLate
<1>5. ASSUME UNCHANGED holds
      PROVE  ~ ConfirmedLate(i)
  BY <1>5 DEF ConfirmedLate
<1>6. ASSUME NEW u \in Users, NEW c \in Cohorts
      PROVE  /\ \A size \in Sizes, s, e \in ScheduleTimes :
                   Apply(u, c, size, s, e) => UNCHANGED holds
             /\ \A approve \in BOOLEAN :
                   DecideApplication(u, c, approve) => UNCHANGED holds
             /\ AcknowledgeRisk(u, c) => UNCHANGED holds
  BY DEF Apply, DecideApplication, AcknowledgeRisk, plan
<1>7. Tick \/ UNCHANGED vars => UNCHANGED holds
  BY DEF Tick, vars, plan
<1>. QED
  BY <1>1, <1>2, <1>3, <1>4, <1>5, <1>6, <1>7 DEF Next, BookingStep

\* No hold is confirmed a second or more after it ended (ConfirmResources).
THEOREM ConfirmedWhileHeld == Spec => ConfirmedInTime
<1>1. IInv /\ [Next]_vars =>
        [\A i \in Items : holds[i].status = "held" /\ holds'[i].status = "confirmed"
          => now < holds[i].expiresAt + TicksPerSecond]_vars
  BY NextInTime DEF ConfirmedLate
<1>. QED
  BY <1>1, Agreement, PTL DEF Spec, ConfirmedInTime

-----------------------------------------------------------------------------
(* The reroutes and the audit trail tell what happened to the plan.        *)

LEMMA AddPlanItemEffect ==
  ASSUME IInv, NEW u \in Users, NEW c \in Cohorts, NEW i \in Items,
         NEW v \in Venues, NEW m \in Mentors, NEW s \in ScheduleTimes,
         NEW e \in ScheduleTimes, AddPlanItem(u, c, i, v, m, s, e)
  PROVE  /\ planItems[i] = NoRow
         /\ planItems'[i] # NoRow /\ planItems'[i].cohort = c
         /\ \A j \in Items \ {i} : /\ planItems'[j] = planItems[j]
                                   /\ holds'[j] = holds[j]
         /\ UNCHANGED <<now, cohorts, applications, acks, reroutes, settlements,
                        jobs>>
<1>1. /\ planItems[i] = NoRow
      /\ planItems'[i] = [cohort |-> c, venue |-> v, mentor |-> m, starts |-> s,
                          ends |-> e, revision |-> cohorts[c].planRevision]
      /\ \A j \in Items \ {i} : /\ planItems'[j] = planItems[j]
                                /\ holds'[j] = holds[j]
  BY DEF AddPlanItem, CreatePlanItem, IInv, TypeOK
<1>. QED
  BY <1>1 DEF AddPlanItem, NoRow

LEMMA RerouteEffect ==
  ASSUME IInv, NEW u \in Users, NEW c \in Cohorts, NEW i \in Items,
         NEW v \in Venues, Reroute(u, c, i, v)
  PROVE  /\ planItems[i] # NoRow /\ planItems[i].cohort = c
         /\ planItems'[i] # NoRow /\ planItems'[i].cohort = c
         /\ planItems'[i].venue = v /\ holds'[i].venue = v
         /\ \A j \in Items \ {i} : /\ planItems'[j] = planItems[j]
                                   /\ holds'[j] = holds[j]
         /\ reroutes' = Append(reroutes,
                               [item |-> i, from |-> holds[i].venue, to |-> v])
         /\ UNCHANGED <<now, cohorts, applications, acks, settlements, jobs>>
<1>1. holds[i] \in HoldRow /\ planItems[i] \in PlanItemRow /\ AgreeOn(i)
  BY HoldThere DEF Reroute, IInv, TypeOK, HoldsPaired, AgreeOn
<1>2. planItems[i] # NoRow /\ planItems[i].cohort = c
  BY <1>1 DEF AgreeOn, Reroute
<1>3. /\ holds' = [holds EXCEPT ![i].venue = v]
      /\ planItems' = [planItems EXCEPT ![i].venue = v]
  BY DEF Reroute, SwapVenueHold, SwapPlanItem
<1>4. /\ holds'[i] = [holds[i] EXCEPT !.venue = v]
      /\ planItems'[i] = [planItems[i] EXCEPT !.venue = v]
      /\ \A j \in Items \ {i} : /\ planItems'[j] = planItems[j]
                                /\ holds'[j] = holds[j]
  BY <1>3 DEF IInv, TypeOK
<1>5. /\ holds'[i].venue = v /\ planItems'[i].venue = v
      /\ planItems'[i] \in PlanItemRow
      /\ planItems'[i].cohort = planItems[i].cohort
  BY <1>1, <1>4 DEF HoldRow, PlanItemRow
<1>6. NoRow \notin PlanItemRow
  BY DEF PlanItemRow, NoRow
<1>7. reroutes' = Append(reroutes,
                         [item |-> i, from |-> holds[i].venue, to |-> v])
  BY DEF Reroute, CreateReroute
<1>. QED
  BY <1>2, <1>4, <1>5, <1>6, <1>7 DEF Reroute

\* An UPDATE of the status moves no hold.
LEMMA VenueKept ==
  ASSUME TypeOK, NEW S \in SUBSET Items, \A i \in S : holds[i] # NoRow,
         NEW to, holds' = WithStatus(holds, S, to), NEW i \in Items
  PROVE  holds'[i].venue = holds[i].venue
<1>1. CASE i \in S
  <2>1. holds[i] \in HoldRow
    BY <1>1 DEF TypeOK
  <2>2. holds'[i] = [holds[i] EXCEPT !.status = to]
    BY <1>1 DEF WithStatus
  <2>. QED
    BY <2>1, <2>2 DEF HoldRow
<1>2. CASE i \notin S
  BY <1>2 DEF WithStatus
<1>. QED
  BY <1>1, <1>2

LEMMA ConfirmMovesNothing ==
  ASSUME IInv, NEW u \in Users, NEW c \in Cohorts, Confirm(u, c), NEW i \in Items
  PROVE  holds'[i].venue = holds[i].venue
<1>1. /\ VenueRows(c) \in SUBSET Items
      /\ \A j \in VenueRows(c) : holds[j] # NoRow
  BY DEF VenueRows, ListPlanItems, Confirmable, NoRow
<1>2. holds' = WithStatus(holds, VenueRows(c), "confirmed")
  BY DEF Confirm, ConfirmResources
<1>. QED
  BY <1>1, <1>2, VenueKept DEF IInv

LEMMA CancelMovesNothing ==
  ASSUME IInv, NEW u \in Users, NEW c \in Cohorts,
         NEW gross \in GrossAmounts, Cancel(u, c, gross), NEW i \in Items
  PROVE  holds'[i].venue = holds[i].venue
<1>1. /\ Releasable(holds, c) \in SUBSET Items
      /\ \A j \in Releasable(holds, c) : holds[j] # NoRow
  BY DEF Releasable, Live, NoRow
<1>2. holds' = WithStatus(holds, Releasable(holds, c), "released")
  BY DEF Cancel, ReleaseResources
<1>. QED
  BY <1>1, <1>2, VenueKept DEF IInv

\* An item that was rerouted is there: rows of plan_items are never deleted.
ReroutedItems ==
  \A k \in DOMAIN reroutes : planItems[reroutes[k].item] # NoRow

LEMMA ReroutedTyped ==
  ASSUME TypeOK, NEW k \in DOMAIN reroutes
  PROVE  reroutes[k] \in RerouteRow /\ reroutes[k].item \in Items
<1>1. reroutes[k] \in RerouteRow
  BY DEF TypeOK
<1>. QED
  BY <1>1 DEF RerouteRow

\* What Append does to the reroutes.
LEMMA Appended ==
  ASSUME TypeOK, NEW row, row \in RerouteRow, reroutes' = Append(reroutes, row)
  PROVE  /\ Len(reroutes) \in Nat /\ DOMAIN reroutes = 1 .. Len(reroutes)
         /\ DOMAIN reroutes' = DOMAIN reroutes \cup {Len(reroutes) + 1}
         /\ Len(reroutes) + 1 \notin DOMAIN reroutes
         /\ reroutes'[Len(reroutes) + 1] = row
         /\ \A k \in DOMAIN reroutes : reroutes'[k] = reroutes[k]
         /\ \A k \in DOMAIN reroutes : reroutes[k] \in RerouteRow
BY DEF TypeOK

\* The three ways a step can touch the plan items and the reroutes.
PlanKept ==
  /\ UNCHANGED <<planItems, reroutes>>
  /\ \A i \in Items : holds'[i].venue = holds[i].venue

LEMMA PlanSteps ==
  ASSUME IInv, [Next]_vars
  PROVE  \/ PlanKept
         \/ \E u \in Users, c \in Cohorts, i \in Items, v \in Venues,
              m \in Mentors, s, e \in ScheduleTimes :
              AddPlanItem(u, c, i, v, m, s, e)
         \/ \E u \in Users, c \in Cohorts, i \in Items, v \in Venues :
              Reroute(u, c, i, v)
<1>1. ASSUME NEW u \in Users, NEW c \in Cohorts, Confirm(u, c)
      PROVE  PlanKept
  BY <1>1, ConfirmMovesNothing DEF PlanKept, Confirm
<1>2. ASSUME NEW u \in Users, NEW c \in Cohorts,
             NEW gross \in GrossAmounts, Cancel(u, c, gross)
      PROVE  PlanKept
  BY <1>2, CancelMovesNothing DEF PlanKept, Cancel
<1>3. ASSUME NEW u \in Users, NEW c \in Cohorts
      PROVE  /\ \A size \in Sizes, s, e \in ScheduleTimes :
                   Apply(u, c, size, s, e) => PlanKept
             /\ \A approve \in BOOLEAN :
                   DecideApplication(u, c, approve) => PlanKept
             /\ AcknowledgeRisk(u, c) => PlanKept
  BY DEF Apply, DecideApplication, AcknowledgeRisk, plan, PlanKept
<1>4. Tick \/ UNCHANGED vars => PlanKept
  BY DEF Tick, vars, plan, PlanKept
<1>. QED
  BY <1>1, <1>2, <1>3, <1>4 DEF Next, BookingStep

LEMMA RerouteRowType ==
  ASSUME IInv, NEW u \in Users, NEW c \in Cohorts, NEW i \in Items,
         NEW v \in Venues, Reroute(u, c, i, v)
  PROVE  [item |-> i, from |-> holds[i].venue, to |-> v] \in RerouteRow
<1>1. holds[i] \in HoldRow
  BY HoldThere DEF Reroute, IInv
<1>. QED
  BY <1>1 DEF HoldRow, RerouteRow

LEMMA NextReroutedItems ==
  ASSUME IInv, ReroutedItems, [Next]_vars
  PROVE  ReroutedItems'
<1>1. CASE PlanKept
  BY <1>1 DEF PlanKept, ReroutedItems
<1>2. ASSUME NEW u \in Users, NEW c \in Cohorts, NEW i \in Items,
             NEW v \in Venues, NEW m \in Mentors, NEW s \in ScheduleTimes,
             NEW e \in ScheduleTimes, AddPlanItem(u, c, i, v, m, s, e)
      PROVE  ReroutedItems'
  <2>1. \A k \in DOMAIN reroutes : reroutes[k].item \in Items
    BY ReroutedTyped DEF IInv
  <2>. QED
    BY <1>2, <2>1, AddPlanItemEffect DEF ReroutedItems
<1>3. ASSUME NEW u \in Users, NEW c \in Cohorts, NEW i \in Items,
             NEW v \in Venues, Reroute(u, c, i, v)
      PROVE  ReroutedItems'
  <2> DEFINE row == [item |-> i, from |-> holds[i].venue, to |-> v]
  <2>1. row \in RerouteRow /\ reroutes' = Append(reroutes, row) /\ row.item = i
    BY <1>3, RerouteEffect, RerouteRowType
  <2> HIDE DEF row
  <2>2. /\ DOMAIN reroutes' = DOMAIN reroutes \cup {Len(reroutes) + 1}
        /\ reroutes'[Len(reroutes) + 1] = row
        /\ \A k \in DOMAIN reroutes : reroutes'[k] = reroutes[k]
        /\ \A k \in DOMAIN reroutes : reroutes[k].item \in Items
    BY <2>1, Appended DEF IInv, RerouteRow
  <2>3. \A j \in Items : planItems[j] # NoRow => planItems'[j] # NoRow
    BY <1>3, RerouteEffect
  <2>4. planItems'[i] # NoRow
    BY <1>3, RerouteEffect
  <2>. QED
    BY <2>1, <2>2, <2>3, <2>4 DEF ReroutedItems
<1>. QED
  BY <1>1, <1>2, <1>3, PlanSteps

\* The reroutes after the k-th that move the same item.
LaterOnes(k) == {n \in DOMAIN reroutes : n > k /\ reroutes[n].item = reroutes[k].item}

TrailAt(k) ==
  IF LaterOnes(k) = {}
  THEN /\ holds[reroutes[k].item].venue = reroutes[k].to
       /\ planItems[reroutes[k].item].venue = reroutes[k].to
  ELSE \E n \in LaterOnes(k) : /\ \A other \in LaterOnes(k) : n <= other
                               /\ reroutes[n].from = reroutes[k].to

LEMMA TrailByParts ==
  /\ RerouteTrail <=> \A k \in DOMAIN reroutes : TrailAt(k)
  /\ RerouteTrail' <=> \A k \in DOMAIN reroutes' : TrailAt(k)'
BY DEF RerouteTrail, TrailAt, LaterOnes

\* A reroute ends the trail of its item and leaves every other as it was.
LEMMA RerouteExtends ==
  ASSUME IInv, RerouteTrail, NEW u \in Users, NEW c \in Cohorts,
         NEW i \in Items, NEW v \in Venues, Reroute(u, c, i, v)
  PROVE  RerouteTrail'
<1> DEFINE row == [item |-> i, from |-> holds[i].venue, to |-> v]
<1>a. /\ holds'[i].venue = v /\ planItems'[i].venue = v
      /\ \A j \in Items \ {i} : holds'[j] = holds[j] /\ planItems'[j] = planItems[j]
      /\ reroutes' = Append(reroutes,
                            [item |-> i, from |-> holds[i].venue, to |-> v])
  BY RerouteEffect
<1>0. PICK last \in Nat : last = Len(reroutes) + 1
  BY Appended, RerouteEffect, RerouteRowType DEF IInv
<1>1. /\ row \in RerouteRow /\ reroutes' = Append(reroutes, row)
      /\ row.item = i /\ row.from = holds[i].venue /\ row.to = v
  BY RerouteEffect, RerouteRowType
<1> HIDE DEF row
<1>2. /\ DOMAIN reroutes = 1 .. Len(reroutes) /\ Len(reroutes) \in Nat
      /\ DOMAIN reroutes' = DOMAIN reroutes \cup {last}
      /\ last \notin DOMAIN reroutes
      /\ reroutes'[last] = row
      /\ \A k \in DOMAIN reroutes : reroutes'[k] = reroutes[k]
  BY <1>0, <1>1, Appended DEF IInv
<1>3. \A k \in DOMAIN reroutes : k < last /\ k \in Nat
  BY <1>0, <1>2
<1>4. LaterOnes(last)' = {}
  <2>1. \A n \in DOMAIN reroutes' : ~ (n > last)
    BY <1>2, <1>3
  <2>. QED
    BY <2>1, <1>2 DEF LaterOnes
<1>5. TrailAt(last)'
  BY <1>a, <1>1, <1>2, <1>4 DEF TrailAt
<1>6. ASSUME NEW k \in DOMAIN reroutes
      PROVE  TrailAt(k)'
  <2>0. TrailAt(k) /\ reroutes[k].item \in Items /\ reroutes'[k] = reroutes[k]
    BY <1>2, TrailByParts, ReroutedTyped DEF IInv
  <2>1. CASE reroutes[k].item # i
    <3>1. LaterOnes(k)' = LaterOnes(k)
      BY <1>1, <1>2, <2>1 DEF LaterOnes
    <3>2. /\ holds'[reroutes[k].item] = holds[reroutes[k].item]
          /\ planItems'[reroutes[k].item] = planItems[reroutes[k].item]
      BY <1>a, <2>0, <2>1
    <3>3. \A n \in LaterOnes(k) : reroutes'[n] = reroutes[n]
      BY <1>2 DEF LaterOnes
    <3>. QED
      BY <1>2, <2>0, <3>1, <3>2, <3>3 DEF TrailAt
  <2>2. CASE reroutes[k].item = i
    <3>1. LaterOnes(k)' = LaterOnes(k) \cup {last}
      BY <1>1, <1>2, <1>3, <2>2 DEF LaterOnes
    <3>2. \A n \in LaterOnes(k) : reroutes'[n] = reroutes[n] /\ n <= last
      BY <1>2, <1>3 DEF LaterOnes
    <3>3. last \in Nat
      BY <1>2
    <3>4. CASE LaterOnes(k) = {}
      <4>1. reroutes[k].to = holds[i].venue
        BY <2>0, <2>2, <3>4 DEF TrailAt
      <4>2. reroutes'[last].from = reroutes'[k].to
        BY <1>1, <1>2, <2>0, <4>1
      <4>. QED
        BY <3>1, <3>3, <3>4, <4>2 DEF TrailAt
    <3>5. CASE LaterOnes(k) # {}
      <4>1. PICK n \in LaterOnes(k) : /\ \A other \in LaterOnes(k) : n <= other
                                      /\ reroutes[n].from = reroutes[k].to
        BY <2>0, <3>5 DEF TrailAt
      <4>2. \A other \in LaterOnes(k)' : n <= other
        BY <3>1, <3>2, <4>1
      <4>3. reroutes'[n].from = reroutes'[k].to
        BY <2>0, <3>2, <4>1
      <4>. QED
        BY <3>1, <4>1, <4>2, <4>3 DEF TrailAt
    <3>. QED
      BY <3>4, <3>5
  <2>. QED
    BY <2>1, <2>2
<1>. QED
  BY <1>2, <1>5, <1>6, TrailByParts

LEMMA NextTrail ==
  ASSUME IInv, ReroutedItems, RerouteTrail, [Next]_vars
  PROVE  RerouteTrail'
<1>1. ASSUME reroutes' = reroutes,
             \A k \in DOMAIN reroutes :
                /\ holds'[reroutes[k].item].venue = holds[reroutes[k].item].venue
                /\ planItems'[reroutes[k].item] = planItems[reroutes[k].item]
      PROVE  RerouteTrail'
  <2>1. ASSUME NEW k \in DOMAIN reroutes
        PROVE  TrailAt(k)'
    <3>1. TrailAt(k) /\ LaterOnes(k)' = LaterOnes(k)
      BY <1>1, TrailByParts DEF LaterOnes
    <3>. QED
      BY <1>1, <3>1 DEF TrailAt
  <2>. QED
    BY <1>1, <2>1, TrailByParts
<1>2. CASE PlanKept
  BY <1>1, <1>2, ReroutedTyped DEF PlanKept, IInv
<1>3. ASSUME NEW u \in Users, NEW c \in Cohorts, NEW i \in Items,
             NEW v \in Venues, NEW m \in Mentors, NEW s \in ScheduleTimes,
             NEW e \in ScheduleTimes, AddPlanItem(u, c, i, v, m, s, e)
      PROVE  RerouteTrail'
  <2>1. \A k \in DOMAIN reroutes : reroutes[k].item \in Items \ {i}
    BY <1>3, AddPlanItemEffect, ReroutedTyped DEF ReroutedItems, IInv
  <2>2. reroutes' = reroutes
    BY <1>3, AddPlanItemEffect
  <2>. QED
    BY <1>1, <1>3, <2>1, <2>2, AddPlanItemEffect
<1>. QED
  BY <1>2, <1>3, RerouteExtends, PlanSteps

LEMMA InitTrail == Init => ReroutedItems /\ RerouteTrail
BY DEF Init, ReroutedItems, RerouteTrail

LEMMA TrailAlways == Spec => [](IInv /\ ReroutedItems /\ RerouteTrail)
<1>1. IInv /\ ReroutedItems /\ RerouteTrail /\ [Next]_vars
        => ReroutedItems' /\ RerouteTrail'
  BY NextReroutedItems, NextTrail
<1>. QED
  BY <1>1, InitTrail, Agreement, PTL DEF Spec

\* The reroutes of an item lead, one from where the other ended, to where its
\* hold and its plan item stand (Reroute, SwapVenueHold).
THEOREM ReroutesLeadHere == Spec => []RerouteTrail
BY TrailAlways, PTL


-----------------------------------------------------------------------------
(* The audit trail.  AuditMatches alone is not inductive: it says nothing  *)
(* of a cohort that is not there yet, whose trail must be empty.           *)

LifeEvents == {"application.submit", "application.decide", "cohort.confirm",
               "cohort.cancel"}

ItemsOf(c) == {i \in Items : planItems[i] # NoRow /\ planItems[i].cohort = c}
ReroutesOf(c) ==
  {k \in DOMAIN reroutes : planItems[reroutes[k].item].cohort = c}

\* The version may be ahead of the events that booking records: the first
\* attendance counts one more (in module Attendance).
VersionRecorded(c, ahead) ==
  cohorts[c] # NoRow =>
    cohorts[c].version =
      audit[<<"application.submit", c>>] + audit[<<"application.decide", c>>]
        + audit[<<"cohort.confirm", c>>] + audit[<<"cohort.cancel", c>>] + ahead
ItemsRecorded(c) == audit[<<"plan.item.add", c>>] = Cardinality(ItemsOf(c))
ReroutesRecorded(c) == audit[<<"route.change", c>>] = Cardinality(ReroutesOf(c))
CancelRecorded(c) ==
  audit[<<"cohort.cancel", c>>] = IF settlements[c] = NoRow THEN 0 ELSE 1

LifeRecorded == \A c \in Cohorts : VersionRecorded(c, 0) /\ CancelRecorded(c)
PlanRecorded == \A c \in Cohorts : ItemsRecorded(c) /\ ReroutesRecorded(c)

LEMMA AuditByParts == TypeOK /\ LifeRecorded /\ PlanRecorded => AuditMatches
<1>1. TypeOK => \A a \in AuditActions, c \in Cohorts : audit[<<a, c>>] \in Nat
  BY DEF TypeOK
<1>2. ASSUME TypeOK, NEW c \in Cohorts, VersionRecorded(c, 0), cohorts[c] # NoRow
      PROVE  cohorts[c].version =
               audit[<<"application.submit", c>>] + audit[<<"application.decide", c>>]
                 + audit[<<"cohort.confirm", c>>] + audit[<<"cohort.cancel", c>>]
  BY <1>1, <1>2 DEF VersionRecorded, AuditActions
<1>. QED
  BY <1>2 DEF LifeRecorded, PlanRecorded, AuditMatches, ItemsRecorded,
     ReroutesRecorded, CancelRecorded, ItemsOf, ReroutesOf

LEMMA Recorded ==
  ASSUME TypeOK, NEW action \in AuditActions, NEW c \in Cohorts, Record(action, c)
  PROVE  /\ audit[<<action, c>>] \in Nat
         /\ audit'[<<action, c>>] = audit[<<action, c>>] + 1
         /\ \A a \in AuditActions, d \in Cohorts :
               a # action \/ d # c => audit'[<<a, d>>] = audit[<<a, d>>]
BY DEF TypeOK, Record

LEMMA AuditTyped ==
  ASSUME TypeOK, NEW action \in AuditActions, NEW c \in Cohorts
  PROVE  audit[<<action, c>>] \in Nat
BY DEF TypeOK

LEMMA LifeRecord ==
  ASSUME TypeOK, NEW action \in LifeEvents, NEW c \in Cohorts, Record(action, c)
  PROVE  /\ audit[<<action, c>>] \in Nat
         /\ audit'[<<action, c>>] = audit[<<action, c>>] + 1
         /\ \A a \in LifeEvents : /\ audit[<<a, c>>] \in Nat
                                  /\ a # action =>
                                        audit'[<<a, c>>] = audit[<<a, c>>]
<1>1. LifeEvents \subseteq AuditActions
  BY DEF LifeEvents, AuditActions
<1>. QED
  BY <1>1, Recorded, AuditTyped

\* A cohort that no event of its life touches keeps the record of it.
LifeKept(c) ==
  /\ cohorts'[c] = cohorts[c] /\ settlements'[c] = settlements[c]
  /\ \A action \in LifeEvents : audit'[<<action, c>>] = audit[<<action, c>>]

LifeCorrect(c, ahead) ==
  /\ VersionRecorded(c, ahead) /\ CancelRecorded(c)
  /\ cohorts[c] = NoRow =>
        ahead = 0 /\ \A action \in LifeEvents : audit[<<action, c>>] = 0

LEMMA KeptLife ==
  ASSUME NEW c \in Cohorts, NEW ahead \in Nat, LifeCorrect(c, ahead), LifeKept(c)
  PROVE  LifeCorrect(c, ahead)'
BY DEF LifeCorrect, LifeKept, VersionRecorded, CancelRecorded, LifeEvents

\* One more event of its life and one more version.
LEMMA CountedLife ==
  ASSUME IInv, NEW c \in Cohorts, NEW ahead \in Nat, LifeCorrect(c, ahead),
         NEW action \in LifeEvents \ {"application.submit", "cohort.cancel"},
         Record(action, c), settlements'[c] = settlements[c],
         cohorts[c] # NoRow, cohorts'[c] # NoRow, cohorts[c].version \in Nat,
         cohorts'[c].version = cohorts[c].version + 1
  PROVE  LifeCorrect(c, ahead)'
<1>1. /\ LifeEvents \subseteq AuditActions /\ action \in AuditActions
      /\ action \in {"application.decide", "cohort.confirm"}
  BY DEF LifeEvents, AuditActions
<1>2. /\ audit'[<<action, c>>] = audit[<<action, c>>] + 1
      /\ \A a \in LifeEvents : a # action =>
            audit'[<<a, c>>] = audit[<<a, c>>]
  BY <1>1, Recorded DEF IInv
<1>3. \A a \in LifeEvents : audit[<<a, c>>] \in Nat
  BY <1>1, AuditTyped DEF IInv
<1>. QED
  BY <1>1, <1>2, <1>3 DEF LifeCorrect, VersionRecorded, CancelRecorded, LifeEvents

LEMMA OthersLife ==
  ASSUME IInv, NEW action \in AuditActions, NEW c \in Cohorts, Record(action, c),
         NEW ahead \in Nat,
         NEW d \in Cohorts, d # c \/ action \notin LifeEvents,
         cohorts'[d] = cohorts[d], settlements'[d] = settlements[d],
         LifeCorrect(d, ahead)
  PROVE  LifeCorrect(d, ahead)'
<1>1. LifeEvents \subseteq AuditActions
  BY DEF LifeEvents, AuditActions
<1>2. LifeKept(d)
  BY <1>1, Recorded DEF LifeKept, IInv
<1>. QED
  BY <1>2, KeptLife

LEMMA NextLife ==
  ASSUME IInv, [Next]_vars, NEW d \in Cohorts, NEW ahead \in Nat,
         LifeCorrect(d, ahead)
  PROVE  LifeCorrect(d, ahead)'
<1>0. AuditActions = {"application.submit", "application.decide",
                      "plan.item.add", "cohort.confirm", "route.change",
                      "cohort.cancel", "attendance.record", "artifact.archive"}
      /\ LifeEvents \subseteq AuditActions
  BY DEF AuditActions, LifeEvents
<1>1. ASSUME NEW u \in Users, NEW c \in Cohorts, NEW size \in Sizes,
             NEW s \in ScheduleTimes, NEW e \in ScheduleTimes,
             Apply(u, c, size, s, e)
      PROVE  LifeCorrect(d, ahead)'
  <2>1. Record("application.submit", c) /\ settlements' = settlements
    BY <1>1 DEF Apply
  <2>2. CASE d = c
    <3>1. \A a \in LifeEvents : audit[<<a, c>>] = 0
      BY <1>1, <2>2, ApplyEffect DEF LifeCorrect
    <3>2. /\ audit'[<<"application.submit", c>>] = 1
          /\ \A a \in LifeEvents : a # "application.submit" =>
                audit'[<<a, c>>] = 0
      <4>1. "application.submit" \in LifeEvents
        BY DEF LifeEvents
      <4>2. PICK act \in LifeEvents : act = "application.submit"
        BY <4>1
      <4>3. /\ audit'[<<act, c>>] = audit[<<act, c>>] + 1
            /\ \A a \in LifeEvents : a # act => audit'[<<a, c>>] = audit[<<a, c>>]
        BY <2>1, <4>2, LifeRecord DEF IInv
      <4>4. audit'[<<act, c>>] = 1 /\ \A a \in LifeEvents : a # act => audit'[<<a, c>>] = 0
        BY <3>1, <4>3
      <4>. QED
        BY <4>2, <4>4
    <3>3. cohorts'[c] # NoRow /\ cohorts'[c].version = 1 /\ ahead = 0
      BY <1>1, <2>2, ApplyEffect DEF LifeCorrect
    <3>4. CancelRecorded(c) /\ audit[<<"cohort.cancel", c>>] = 0
      BY <2>2, <3>1 DEF LifeCorrect, LifeEvents
    <3>. QED
      BY <2>1, <2>2, <3>2, <3>3, <3>4
         DEF LifeCorrect, VersionRecorded, CancelRecorded, LifeEvents
  <2>3. CASE d # c
    BY <1>0, <1>1, <2>1, <2>3, ApplyEffect, OthersLife
  <2>. QED
    BY <2>2, <2>3
<1>2. ASSUME NEW u \in Users, NEW c \in Cohorts, NEW approve \in BOOLEAN,
             DecideApplication(u, c, approve)
      PROVE  LifeCorrect(d, ahead)'
  <2>1. /\ Record("application.decide", c) /\ settlements' = settlements
        /\ StatusWritten(c, CohortAfter(approve))
    BY <1>2, DecideEffect DEF DecideApplication
  <2>2. CASE d = c
    BY <2>1, <2>2, CountedLife DEF StatusWritten, LifeEvents
  <2>3. CASE d # c
    BY <1>0, <2>1, <2>3, OthersLife DEF StatusWritten
  <2>. QED
    BY <2>2, <2>3
<1>3. ASSUME NEW u \in Users, NEW c \in Cohorts, Confirm(u, c)
      PROVE  LifeCorrect(d, ahead)'
  <2>1. /\ Record("cohort.confirm", c) /\ settlements' = settlements
        /\ StatusWritten(c, "confirmed")
    BY <1>3, ConfirmEffect DEF Confirm
  <2>2. CASE d = c
    BY <2>1, <2>2, CountedLife DEF StatusWritten, LifeEvents
  <2>3. CASE d # c
    BY <1>0, <2>1, <2>3, OthersLife DEF StatusWritten
  <2>. QED
    BY <2>2, <2>3
<1>4. ASSUME NEW u \in Users, NEW c \in Cohorts,
             NEW gross \in GrossAmounts, Cancel(u, c, gross)
      PROVE  LifeCorrect(d, ahead)'
  <2>1. /\ Record("cohort.cancel", c) /\ StatusWritten(c, "cancelled")
        /\ settlements[c] = NoRow /\ settlements'[c] # NoRow
        /\ \A o \in Cohorts \ {c} : settlements'[o] = settlements[o]
    BY <1>4, CancelEffect, SettlementCreated DEF Cancel
  <2>2. CASE d = c
    <3>1. PICK act \in LifeEvents : act = "cohort.cancel"
      BY DEF LifeEvents
    <3>2. /\ audit'[<<act, c>>] = audit[<<act, c>>] + 1
          /\ \A a \in LifeEvents : /\ audit[<<a, c>>] \in Nat
                                   /\ a # act => audit'[<<a, c>>] = audit[<<a, c>>]
      BY <2>1, <3>1, LifeRecord DEF IInv
    <3>. QED
      BY <2>1, <2>2, <3>1, <3>2 DEF LifeCorrect, VersionRecorded, CancelRecorded,
         LifeEvents, StatusWritten
  <2>3. CASE d # c
    BY <1>0, <2>1, <2>3, OthersLife DEF StatusWritten
  <2>. QED
    BY <2>2, <2>3
<1>5. ASSUME NEW u \in Users, NEW c \in Cohorts, NEW i \in Items,
             NEW v \in Venues, NEW m \in Mentors, NEW s \in ScheduleTimes,
             NEW e \in ScheduleTimes, AddPlanItem(u, c, i, v, m, s, e)
      PROVE  LifeCorrect(d, ahead)'
  <2>1. /\ Record("plan.item.add", c)
        /\ cohorts' = cohorts /\ settlements' = settlements
    BY <1>5 DEF AddPlanItem
  <2>. QED
    BY <1>0, <2>1, OthersLife DEF LifeEvents
<1>6. ASSUME NEW u \in Users, NEW c \in Cohorts, NEW i \in Items,
             NEW v \in Venues, Reroute(u, c, i, v)
      PROVE  LifeCorrect(d, ahead)'
  <2>1. /\ Record("route.change", c)
        /\ cohorts' = cohorts /\ settlements' = settlements
    BY <1>6 DEF Reroute
  <2>. QED
    BY <1>0, <2>1, OthersLife DEF LifeEvents
<1>7. ASSUME UNCHANGED <<cohorts, settlements, audit>>
      PROVE  LifeCorrect(d, ahead)'
  BY <1>7, KeptLife DEF LifeKept
<1>8. ASSUME NEW u \in Users, NEW c \in Cohorts, AcknowledgeRisk(u, c)
      PROVE  LifeCorrect(d, ahead)'
  BY <1>7, <1>8 DEF AcknowledgeRisk
<1>9. CASE Tick \/ UNCHANGED vars
  BY <1>7, <1>9 DEF Tick, vars
<1>. QED
  BY <1>1, <1>2, <1>3, <1>4, <1>5, <1>6, <1>8, <1>9 DEF Next, BookingStep

\* Rows of the plan are finitely many, so that adding one counts one more.
LEMMA PlanFinite ==
  ASSUME TypeOK, NEW c
  PROVE  IsFiniteSet(ItemsOf(c)) /\ IsFiniteSet(ReroutesOf(c))
<1>1. IsFiniteSet(ItemsOf(c))
  BY BookingAssumption, FS_Subset DEF ItemsOf
<1>2. IsFiniteSet(1 .. Len(reroutes)) /\ DOMAIN reroutes = 1 .. Len(reroutes)
  <2>1. /\ Len(reroutes) \in Nat /\ DOMAIN reroutes = 1 .. Len(reroutes)
        /\ 1 \in Int /\ Len(reroutes) \in Int
    BY DEF TypeOK
  <2>. QED
    BY <2>1, FS_Interval
<1>3. ReroutesOf(c) \subseteq 1 .. Len(reroutes)
  BY <1>2 DEF ReroutesOf
<1>. QED
  BY <1>1, <1>2, <1>3, FS_Subset

PlanCorrect(c) == ItemsRecorded(c) /\ ReroutesRecorded(c)

PlanEvents == {"plan.item.add", "route.change"}

LEMMA KeptPlan ==
  ASSUME NEW c \in Cohorts, PlanCorrect(c),
         ItemsOf(c)' = ItemsOf(c), ReroutesOf(c)' = ReroutesOf(c),
         \A action \in PlanEvents : audit'[<<action, c>>] = audit[<<action, c>>]
  PROVE  PlanCorrect(c)'
BY DEF PlanCorrect, ItemsRecorded, ReroutesRecorded, PlanEvents

LEMMA OthersPlan ==
  ASSUME IInv, NEW action \in AuditActions, NEW c \in Cohorts, Record(action, c),
         NEW d \in Cohorts, d # c \/ action \notin PlanEvents,
         ItemsOf(d)' = ItemsOf(d), ReroutesOf(d)' = ReroutesOf(d),
         PlanCorrect(d)
  PROVE  PlanCorrect(d)'
<1>1. PlanEvents \subseteq AuditActions
  BY DEF PlanEvents, AuditActions
<1>2. \A a \in PlanEvents : audit'[<<a, d>>] = audit[<<a, d>>]
  BY <1>1, Recorded DEF IInv
<1>. QED
  BY <1>2, KeptPlan

LEMMA AddPlanItemRecorded ==
  ASSUME IInv, ReroutedItems, \A o \in Cohorts : PlanCorrect(o), NEW d \in Cohorts,
         NEW u \in Users, NEW c \in Cohorts, NEW i \in Items,
         NEW v \in Venues, NEW m \in Mentors, NEW s \in ScheduleTimes,
         NEW e \in ScheduleTimes, AddPlanItem(u, c, i, v, m, s, e)
  PROVE  PlanCorrect(d)'
<1>1. /\ planItems[i] = NoRow
      /\ planItems'[i] # NoRow /\ planItems'[i].cohort = c
      /\ \A j \in Items \ {i} : planItems'[j] = planItems[j]
      /\ reroutes' = reroutes
  BY AddPlanItemEffect
<1>2. Record("plan.item.add", c)
  BY DEF AddPlanItem
<1>3. ReroutesOf(d)' = ReroutesOf(d)
  <2>1. \A k \in DOMAIN reroutes : reroutes[k].item \in Items \ {i}
    BY <1>1, ReroutedTyped DEF ReroutedItems, IInv
  <2>. QED
    BY <1>1, <2>1 DEF ReroutesOf
<1>4. CASE d = c
  <2>1. ItemsOf(c)' = ItemsOf(c) \cup {i} /\ i \notin ItemsOf(c)
    BY <1>1 DEF ItemsOf
  <2>2. Cardinality(ItemsOf(c)') = Cardinality(ItemsOf(c)) + 1
    BY <2>1, PlanFinite, FS_AddElement DEF IInv
  <2>3. /\ audit'[<<"plan.item.add", c>>] = audit[<<"plan.item.add", c>>] + 1
        /\ audit'[<<"route.change", c>>] = audit[<<"route.change", c>>]
    <3>1. PICK act \in AuditActions : act = "plan.item.add"
      BY DEF AuditActions
    <3>2. PICK other \in AuditActions : other = "route.change"
      BY DEF AuditActions
    <3>3. /\ audit'[<<act, c>>] = audit[<<act, c>>] + 1
          /\ other # act => audit'[<<other, c>>] = audit[<<other, c>>]
      BY <1>2, <3>1, Recorded DEF IInv
    <3>. QED
      BY <3>1, <3>2, <3>3
  <2>. QED
    BY <1>3, <1>4, <2>2, <2>3 DEF PlanCorrect, ItemsRecorded, ReroutesRecorded
<1>5. CASE d # c
  <2>1. ItemsOf(d)' = ItemsOf(d)
    BY <1>1, <1>5 DEF ItemsOf
  <2>. QED
    BY <1>2, <1>3, <1>5, <2>1, OthersPlan DEF AuditActions
<1>. QED
  BY <1>4, <1>5

LEMMA RerouteRecorded ==
  ASSUME IInv, ReroutedItems, \A o \in Cohorts : PlanCorrect(o), NEW d \in Cohorts,
         NEW u \in Users, NEW c \in Cohorts, NEW i \in Items,
         NEW v \in Venues, Reroute(u, c, i, v)
  PROVE  PlanCorrect(d)'
<1> DEFINE row == [item |-> i, from |-> holds[i].venue, to |-> v]
<1>1. /\ planItems[i] # NoRow /\ planItems[i].cohort = c
      /\ planItems'[i] # NoRow /\ planItems'[i].cohort = c
      /\ \A j \in Items \ {i} : planItems'[j] = planItems[j]
      /\ reroutes' = Append(reroutes, row)
  BY RerouteEffect
<1>2. Record("route.change", c) /\ row \in RerouteRow /\ row.item = i
  BY RerouteRowType DEF Reroute
<1> HIDE DEF row
<1>3. PICK last : last = Len(reroutes) + 1
  OBVIOUS
<1>4. /\ DOMAIN reroutes' = DOMAIN reroutes \cup {last}
      /\ last \notin DOMAIN reroutes
      /\ reroutes'[last] = row
      /\ \A k \in DOMAIN reroutes : reroutes'[k] = reroutes[k]
  BY <1>1, <1>2, <1>3, Appended DEF IInv
<1>5. \A j \in Items : planItems'[j].cohort = planItems[j].cohort
  BY <1>1
<1>6. \A k \in DOMAIN reroutes : reroutes[k].item \in Items
  BY ReroutedTyped DEF IInv
<1>7. ItemsOf(d)' = ItemsOf(d)
  BY <1>1 DEF ItemsOf
<1>8. CASE d = c
  <2>1. ReroutesOf(c)' = ReroutesOf(c) \cup {last} /\ last \notin ReroutesOf(c)
    BY <1>1, <1>2, <1>4, <1>5, <1>6 DEF ReroutesOf
  <2>2. Cardinality(ReroutesOf(c)') = Cardinality(ReroutesOf(c)) + 1
    BY <2>1, PlanFinite, FS_AddElement DEF IInv
  <2>3. /\ audit'[<<"route.change", c>>] = audit[<<"route.change", c>>] + 1
        /\ audit'[<<"plan.item.add", c>>] = audit[<<"plan.item.add", c>>]
    <3>1. PICK act \in AuditActions : act = "route.change"
      BY DEF AuditActions
    <3>2. PICK other \in AuditActions : other = "plan.item.add"
      BY DEF AuditActions
    <3>3. /\ audit'[<<act, c>>] = audit[<<act, c>>] + 1
          /\ other # act => audit'[<<other, c>>] = audit[<<other, c>>]
      BY <1>2, <3>1, Recorded DEF IInv
    <3>. QED
      BY <3>1, <3>2, <3>3
  <2>. QED
    BY <1>7, <1>8, <2>2, <2>3 DEF PlanCorrect, ItemsRecorded, ReroutesRecorded
<1>9. CASE d # c
  <2>1. ReroutesOf(d)' = ReroutesOf(d)
    BY <1>1, <1>2, <1>4, <1>5, <1>6, <1>9 DEF ReroutesOf
  <2>. QED
    BY <1>2, <1>7, <1>9, <2>1, OthersPlan DEF AuditActions
<1>. QED
  BY <1>8, <1>9

LEMMA NextPlanRecorded ==
  ASSUME IInv, ReroutedItems, [Next]_vars, \A c \in Cohorts : PlanCorrect(c),
         NEW d \in Cohorts
  PROVE  PlanCorrect(d)'
<1>1. ASSUME UNCHANGED <<planItems, reroutes>>
      PROVE  ItemsOf(d)' = ItemsOf(d) /\ ReroutesOf(d)' = ReroutesOf(d)
  BY <1>1 DEF ItemsOf, ReroutesOf
<1>2. ASSUME NEW u \in Users, NEW c \in Cohorts, NEW size \in Sizes,
             NEW s \in ScheduleTimes, NEW e \in ScheduleTimes,
             Apply(u, c, size, s, e)
      PROVE  PlanCorrect(d)'
  BY <1>1, <1>2, OthersPlan DEF Apply, plan, PlanEvents, AuditActions
<1>3. ASSUME NEW u \in Users, NEW c \in Cohorts, NEW approve \in BOOLEAN,
             DecideApplication(u, c, approve)
      PROVE  PlanCorrect(d)'
  BY <1>1, <1>3, OthersPlan DEF DecideApplication, plan, PlanEvents, AuditActions
<1>4. ASSUME NEW u \in Users, NEW c \in Cohorts, Confirm(u, c)
      PROVE  PlanCorrect(d)'
  BY <1>1, <1>4, OthersPlan DEF Confirm, PlanEvents, AuditActions
<1>5. ASSUME NEW u \in Users, NEW c \in Cohorts,
             NEW gross \in GrossAmounts, Cancel(u, c, gross)
      PROVE  PlanCorrect(d)'
  BY <1>1, <1>5, OthersPlan DEF Cancel, PlanEvents, AuditActions
<1>6. ASSUME UNCHANGED <<planItems, reroutes, audit>>
      PROVE  PlanCorrect(d)'
  BY <1>1, <1>6, KeptPlan
<1>7. ASSUME NEW u \in Users, NEW c \in Cohorts, AcknowledgeRisk(u, c)
      PROVE  PlanCorrect(d)'
  BY <1>6, <1>7 DEF AcknowledgeRisk, plan
<1>8. CASE Tick \/ UNCHANGED vars
  BY <1>6, <1>8 DEF Tick, vars, plan
<1>. QED
  BY <1>2, <1>3, <1>4, <1>5, <1>7, <1>8, AddPlanItemRecorded, RerouteRecorded
     DEF Next, BookingStep

AuditCorrect == \A c \in Cohorts : LifeCorrect(c, 0) /\ PlanCorrect(c)

LEMMA NextAudit ==
  ASSUME IInv, ReroutedItems, AuditCorrect, [Next]_vars
  PROVE  AuditCorrect'
BY NextLife, NextPlanRecorded DEF AuditCorrect

LEMMA InitAudit == Init => AuditCorrect
<1> SUFFICES ASSUME Init, NEW c \in Cohorts PROVE LifeCorrect(c, 0) /\ PlanCorrect(c)
  BY DEF AuditCorrect
<1>1. \A action \in AuditActions : audit[<<action, c>>] = 0
  BY DEF Init
<1>2. LifeCorrect(c, 0)
  BY <1>1 DEF Init, LifeCorrect, VersionRecorded, CancelRecorded, LifeEvents,
     AuditActions
<1>3. ItemsOf(c) = {} /\ ReroutesOf(c) = {}
  BY DEF Init, ItemsOf, ReroutesOf
<1>. QED
  BY <1>1, <1>2, <1>3, FS_EmptySet
     DEF PlanCorrect, ItemsRecorded, ReroutesRecorded, AuditActions

\* The version of a cohort counts its recorded changes, and every plan item,
\* reroute and settlement has its event: nothing happened unrecorded and
\* nothing was recorded that did not happen.
THEOREM AuditTellsAll == Spec => []AuditMatches
<1>1. IInv /\ ReroutedItems /\ AuditCorrect /\ [Next]_vars => AuditCorrect'
  BY NextAudit
<1>2. IInv /\ AuditCorrect => AuditMatches
  BY AuditByParts DEF IInv, AuditCorrect, LifeCorrect, PlanCorrect, LifeRecorded,
     PlanRecorded
<1>. QED
  BY <1>1, <1>2, InitAudit, TrailAlways, PTL DEF Spec

-----------------------------------------------------------------------------
(* Settlements are fair: int64 arithmetic first.                           *)

LEMMA ModSmall ==
  ASSUME NEW a \in Nat, NEW b \in Nat, a < b
  PROVE  a % b = a
OBVIOUS

LEMMA ModBelow ==
  ASSUME NEW a \in Nat, NEW b \in Nat \ {0}
  PROVE  a % b \in 0 .. b - 1
OBVIOUS

LEMMA Hundredth ==
  ASSUME NEW n \in Nat
  PROVE  /\ n \div 100 \in Nat
         /\ 100 * (n \div 100) <= n /\ n < 100 * (n \div 100) + 100
OBVIOUS

\* A product that does not overflow is itself, and none that does grows.
LEMMA WrapUp ==
  ASSUME NEW n \in Nat
  PROVE  /\ Wrap(n) \in Int /\ Wrap(n) <= n
         /\ n < Half => Wrap(n) = n
<1>1. Half \in Nat \ {0} /\ n + Half \in Nat /\ 2 * Half \in Nat \ {0}
  BY HalfAssumption
<1>2. CASE n < Half
  <2>1. (n + Half) % (2 * Half) = n + Half
    BY <1>1, <1>2, ModSmall
  <2>. QED
    BY <1>1, <2>1 DEF Wrap
<1>3. CASE ~ (n < Half)
  <2>1. (n + Half) % (2 * Half) \in 0 .. 2 * Half - 1
    BY <1>1, ModBelow
  <2>. QED
    BY <1>1, <1>3, <2>1 DEF Wrap
<1>. QED
  BY <1>2, <1>3

LEMMA QuotUp ==
  ASSUME NEW n \in Int
  PROVE  /\ Quot(n, 100) \in Int
         /\ n >= 0 => /\ Quot(n, 100) >= 0 /\ 100 * Quot(n, 100) <= n
                      /\ n < 100 * Quot(n, 100) + 100
         /\ n < 0 => Quot(n, 100) <= 0
<1>1. CASE n >= 0
  <2>1. n \in Nat /\ Quot(n, 100) = n \div 100
    BY <1>1 DEF Quot
  <2>. QED
    BY <1>1, <2>1, Hundredth
<1>2. CASE n < 0
  <2>1. -n \in Nat /\ Quot(n, 100) = -((-n) \div 100)
    BY <1>2 DEF Quot
  <2>2. (-n) \div 100 \in Nat
    BY <2>1, Hundredth
  <2>. QED
    BY <1>2, <2>1, <2>2
<1>. QED
  BY <1>1, <1>2

LEMMA RateRange ==
  ASSUME NEW untilStart \in Int
  PROVE  FeeRate(untilStart) \in {10, 25, 50}
BY DEF FeeRate

\* The less notice, the higher the rate.
LEMMA RateFalls ==
  ASSUME NEW sooner \in Int, NEW later \in Int, sooner <= later
  PROVE  FeeRate(sooner) >= FeeRate(later)
BY BookingAssumption DEF FeeRate

LEMMA Shares ==
  ASSUME NEW gross \in Nat, NEW rate \in {10, 25, 50}
  PROVE  /\ gross * rate \in Nat /\ gross * rate <= gross * 50
         /\ gross * 10 <= gross * rate
OBVIOUS

\* No fee is more than half; one whose product fits is its rate, rounded down.
LEMMA FeeShare ==
  ASSUME NEW gross \in Nat, NEW rate \in {10, 25, 50}, Fee(gross, rate) >= 0
  PROVE  /\ Fee(gross, rate) \in Nat /\ 2 * Fee(gross, rate) <= gross
         /\ gross * 50 < Half =>
               /\ 100 * Fee(gross, rate) <= gross * rate
               /\ gross * rate < 100 * Fee(gross, rate) + 100
<1>1. /\ gross * rate \in Nat /\ gross * rate <= gross * 50
      /\ Half \in Nat
  BY Shares, HalfAssumption
<1>2. PICK w \in Int : /\ w = Wrap(gross * rate) /\ w <= gross * rate
                       /\ gross * rate < Half => w = gross * rate
  BY <1>1, WrapUp
<1>3. PICK fee \in Int : fee = Fee(gross, rate) /\ fee = Quot(w, 100)
  BY <1>2, QuotUp DEF Fee
<1>4. /\ w >= 0 => fee >= 0 /\ 100 * fee <= w /\ w < 100 * fee + 100
      /\ w < 0 => fee <= 0
  BY <1>2, <1>3, QuotUp
<1>5. fee \in Nat /\ 2 * fee <= gross
  <2>1. fee >= 0
    BY <1>3
  <2>2. CASE w >= 0
    BY <1>1, <1>2, <1>4, <2>1, <2>2
  <2>3. CASE w < 0
    BY <1>4, <2>1, <2>3
  <2>. QED
    BY <2>2, <2>3
<1>6. gross * 50 < Half => 100 * fee <= gross * rate /\ gross * rate < 100 * fee + 100
  BY <1>1, <1>2, <1>4
<1>. QED
  BY <1>3, <1>5, <1>6

LEMMA MoreRateMoreFee ==
  ASSUME NEW gross \in Nat, NEW high \in {10, 25, 50}, NEW low \in {10, 25, 50},
         low <= high, gross * 50 < Half, Fee(gross, high) >= 0, Fee(gross, low) >= 0
  PROVE  Fee(gross, high) >= Fee(gross, low)
<1>1. gross * low <= gross * high /\ gross * low \in Nat /\ gross * high \in Nat
  OBVIOUS
<1>2. /\ Fee(gross, high) \in Nat /\ gross * high < 100 * Fee(gross, high) + 100
      /\ Fee(gross, low) \in Nat /\ 100 * Fee(gross, low) <= gross * low
  BY FeeShare
<1>. QED
  BY <1>1, <1>2

\* A settlement is what NewCancellationSettlement made of the start of its
\* cohort, which no later step moves.
SettledAsRated ==
  \A c \in Cohorts : settlements[c] # NoRow =>
    LET row == settlements[c] IN
    /\ cohorts[c] # NoRow
    /\ row.fee = Fee(row.gross, FeeRate(cohorts[c].starts - row.createdAt))
    /\ row.refund = row.gross - row.fee

LEMMA StartsKept ==
  ASSUME IInv, [Next]_vars, NEW c \in Cohorts, cohorts[c] # NoRow
  PROVE  cohorts'[c] # NoRow /\ cohorts'[c].starts = cohorts[c].starts
<1>1. ASSUME NEW u \in Users, NEW d \in Cohorts, NEW size \in Sizes,
             NEW s \in ScheduleTimes, NEW e \in ScheduleTimes,
             Apply(u, d, size, s, e)
      PROVE  cohorts'[c] = cohorts[c]
  BY <1>1, ApplyEffect
<1>2. ASSUME NEW d \in Cohorts, NEW to, StatusWritten(d, to)
      PROVE  cohorts'[c] # NoRow /\ cohorts'[c].starts = cohorts[c].starts
  BY <1>2 DEF StatusWritten
<1>3. ASSUME NEW u \in Users, NEW d \in Cohorts
      PROVE  /\ \A approve \in BOOLEAN : DecideApplication(u, d, approve) =>
                   StatusWritten(d, CohortAfter(approve))
             /\ Confirm(u, d) => StatusWritten(d, "confirmed")
             /\ \A gross \in GrossAmounts :
                   Cancel(u, d, gross) => StatusWritten(d, "cancelled")
  BY DecideEffect, ConfirmEffect, CancelEffect
<1>4. ASSUME NEW u \in Users, NEW d \in Cohorts
      PROVE  /\ \A i \in Items, v \in Venues, m \in Mentors,
                   s, e \in ScheduleTimes :
                   AddPlanItem(u, d, i, v, m, s, e) => UNCHANGED cohorts
             /\ \A i \in Items, v \in Venues :
                   Reroute(u, d, i, v) => UNCHANGED cohorts
             /\ AcknowledgeRisk(u, d) => UNCHANGED cohorts
  BY DEF AddPlanItem, Reroute, AcknowledgeRisk
<1>5. Tick \/ UNCHANGED vars => UNCHANGED cohorts
  BY DEF Tick, vars
<1>. QED
  BY <1>1, <1>2, <1>3, <1>4, <1>5 DEF Next, BookingStep

LEMMA SettledSteps ==
  ASSUME IInv, [Next]_vars
  PROVE  \/ UNCHANGED settlements
         \/ \E u \in Users, c \in Cohorts, gross \in GrossAmounts :
              Cancel(u, c, gross)
<1>1. ASSUME NEW u \in Users, NEW c \in Cohorts
      PROVE  /\ \A size \in Sizes, s, e \in ScheduleTimes :
                   Apply(u, c, size, s, e) => UNCHANGED settlements
             /\ \A approve \in BOOLEAN :
                   DecideApplication(u, c, approve) => UNCHANGED settlements
             /\ \A i \in Items, v \in Venues, m \in Mentors,
                   s, e \in ScheduleTimes :
                   AddPlanItem(u, c, i, v, m, s, e) => UNCHANGED settlements
             /\ AcknowledgeRisk(u, c) => UNCHANGED settlements
             /\ Confirm(u, c) => UNCHANGED settlements
             /\ \A i \in Items, v \in Venues :
                   Reroute(u, c, i, v) => UNCHANGED settlements
  BY DEF Apply, DecideApplication, AddPlanItem, AcknowledgeRisk, Confirm, Reroute
<1>2. Tick \/ UNCHANGED vars => UNCHANGED settlements
  BY DEF Tick, vars
<1>. QED
  BY <1>1, <1>2 DEF Next, BookingStep

LEMMA NextSettledAsRated ==
  ASSUME IInv, SettledAsRated, [Next]_vars
  PROVE  SettledAsRated'
<1>1. CASE UNCHANGED settlements
  BY <1>1, StartsKept DEF SettledAsRated
<1>2. ASSUME NEW u \in Users, NEW c \in Cohorts,
             NEW gross \in GrossAmounts, Cancel(u, c, gross)
      PROVE  SettledAsRated'
  <2>1. /\ settlements'[c] = NewCancellationSettlement(gross, cohorts[c].starts)
        /\ \A d \in Cohorts \ {c} : settlements'[d] = settlements[d]
        /\ cohorts[c] # NoRow
    BY <1>2, SettlementCreated, CancelEffect DEF StatusWritten
  <2>2. LET row == settlements'[c] IN
        /\ row.fee = Fee(row.gross, FeeRate(cohorts[c].starts - row.createdAt))
        /\ row.refund = row.gross - row.fee
    BY <2>1 DEF NewCancellationSettlement
  <2>. QED
    BY <2>1, <2>2, StartsKept DEF SettledAsRated
<1>. QED
  BY <1>1, <1>2, SettledSteps

LEMMA InitSettledAsRated == Init => SettledAsRated
BY DEF Init, SettledAsRated

LEMMA RatedIsFair ==
  ASSUME IInv, SettledAsRated
  PROVE  SettlementFair
<1>1. ASSUME NEW c \in Cohorts, settlements[c] # NoRow
      PROVE  LET row == settlements[c]
                 rate == FeeRate(cohorts[c].starts - row.createdAt) IN
             /\ row.gross \in Nat /\ row.fee \in Nat /\ row.refund \in Nat
             /\ row.createdAt \in Nat /\ cohorts[c].starts \in Nat
             /\ rate \in {10, 25, 50} /\ row.fee = Fee(row.gross, rate)
             /\ row.refund = row.gross - row.fee
  <2>1. settlements[c] \in SettlementRow /\ cohorts[c] \in CohortRow
    BY <1>1 DEF IInv, TypeOK, SettledAsRated
  <2>2. /\ settlements[c].createdAt \in Nat /\ cohorts[c].starts \in Nat
        /\ settlements[c].gross \in Nat /\ settlements[c].fee \in Nat
        /\ settlements[c].refund \in Nat
    BY <2>1, BookingAssumption DEF SettlementRow, CohortRow
  <2>3. cohorts[c].starts - settlements[c].createdAt \in Int
    BY <2>2
  <2>. QED
    BY <1>1, <2>2, <2>3, RateRange DEF SettledAsRated
<1> SUFFICES ASSUME NEW c \in Cohorts, settlements[c] # NoRow
             PROVE  LET row == settlements[c]
                    IN  /\ row.fee + row.refund = row.gross
                        /\ row.fee >= 0 /\ 2 * row.fee <= row.gross
                        /\ row.gross * 50 < Half =>
                             /\ 10 * row.fee > row.gross - 10
                             /\ \A d \in Cohorts :
                                  /\ settlements[d] # NoRow
                                  /\ settlements[d].gross = row.gross
                                  /\ settlements[d].createdAt = row.createdAt
                                  /\ cohorts[c].starts <= cohorts[d].starts
                                  => row.fee >= settlements[d].fee
  BY DEF SettlementFair
<1> DEFINE row == settlements[c]
           rate == FeeRate(cohorts[c].starts - row.createdAt)
<1>2. /\ row.gross \in Nat /\ row.fee \in Nat /\ row.refund \in Nat
      /\ row.createdAt \in Nat /\ cohorts[c].starts \in Nat
      /\ rate \in {10, 25, 50} /\ row.fee = Fee(row.gross, rate)
      /\ row.refund = row.gross - row.fee
  BY <1>1
<1>3. /\ 2 * row.fee <= row.gross
      /\ row.gross * 50 < Half => row.gross * rate < 100 * row.fee + 100
  BY <1>2, FeeShare
<1>4. row.gross * 50 < Half => 10 * row.fee > row.gross - 10
  <2>1. row.gross * 10 <= row.gross * rate /\ row.gross * rate \in Nat
    BY <1>2, Shares
  <2>. QED
    BY <1>2, <1>3, <2>1
<1>5. ASSUME row.gross * 50 < Half, NEW d \in Cohorts, settlements[d] # NoRow,
             settlements[d].gross = row.gross,
             settlements[d].createdAt = row.createdAt,
             cohorts[c].starts <= cohorts[d].starts
      PROVE  row.fee >= settlements[d].fee
  <2> DEFINE low == FeeRate(cohorts[d].starts - settlements[d].createdAt)
  <2>1. /\ settlements[d].fee \in Nat /\ cohorts[d].starts \in Nat
        /\ low \in {10, 25, 50} /\ settlements[d].fee = Fee(row.gross, low)
    BY <1>1, <1>5
  <2>2. low <= rate
    <3>1. /\ cohorts[c].starts - row.createdAt \in Int
          /\ cohorts[d].starts - row.createdAt \in Int
          /\ cohorts[c].starts - row.createdAt <= cohorts[d].starts - row.createdAt
      BY <1>2, <1>5, <2>1
    <3>2. low = FeeRate(cohorts[d].starts - row.createdAt)
      BY <1>5
    <3> HIDE DEF low
    <3>3. rate >= low
      BY <3>1, <3>2, RateFalls
    <3>. QED
      BY <1>2, <2>1, <3>3
  <2> HIDE DEF low, rate, row
  <2>. QED
    BY <1>2, <1>5, <2>1, <2>2, MoreRateMoreFee
<1>. QED
  BY <1>2, <1>3, <1>4, <1>5

\* Whatever a cancellation names as paid, the settlement divides it: the fee
\* is at most half, at least a tenth, rounded down, while the product fits
\* into an int64, and never less for a cohort that starts sooner (FeeRate,
\* NewCancellationSettlement).
THEOREM SettlementsAreFair == Spec => []SettlementFair
<1>1. IInv /\ SettledAsRated /\ [Next]_vars => SettledAsRated'
  BY NextSettledAsRated
<1>2. IInv /\ SettledAsRated => SettlementFair
  BY RatedIsFair
<1>. QED
  BY <1>1, <1>2, InitSettledAsRated, Agreement, PTL DEF Spec
===============================================================================
