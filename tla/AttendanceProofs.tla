---------------------------- MODULE AttendanceProofs ----------------------------
(***************************************************************************)
(* Proofs of the properties of Attendance, for all cohorts, groups,        *)
(* participants, artifacts and batches.  The invariant of CohortBooking is *)
(* carried along: its steps are among those of Attendance, and what        *)
(* attendance writes into its tables preserves it.                         *)
(***************************************************************************)
EXTENDS Attendance, BookingSafetyProofs

Recordings == [Cohorts \X Participants -> AttendanceRow \cup {NoRow}]
Batches == [cohort : Cohorts \cup {"none"}, inputs : BatchInputs \cup {<<>>},
            outcomes : Seq({"recorded", "failed"})]

Typed ==
    /\ groups \in [Groups -> GroupRequest \cup {NoRow}]
    /\ records \in Recordings
    /\ artifacts \subseteq Cohorts \X Participants \X Artifacts
    /\ creating \subseteq GroupRequest
    /\ batch \in Batches
    /\ Len(batch.outcomes) <= Len(batch.inputs)
    /\ batch.outcomes # <<>> => batch.cohort \in Cohorts

\* who has a seat of a group
Attending(g) ==
    {cp \in Cohorts \X Participants : /\ records[cp].status \in Consuming
                                      /\ records[cp].group = g}

\* A record is in a group of its own cohort, which has a seat for it.
GroupsKept ==
    /\ \A cp \in Cohorts \X Participants : records[cp] # NoRow =>
          groups[records[cp].group] # NoRow /\ groups[records[cp].group].cohort = cp[1]
    /\ \A g \in Groups : IsFiniteSet(Attending(g))
    /\ \A g \in Groups : groups[g] # NoRow =>
          Cardinality(Attending(g)) <= groups[g].capacity

Noticed(c) == jobs[<<"confirmation.notice", c>>] = 1

\* Records, groups and requests for groups are those of cohorts that were
\* confirmed, and the first record makes its cohort active.
Attended ==
    \A c \in Cohorts :
        /\ cohorts[c].status = "active" => RecordsOf(c) # {}
        /\ RecordsOf(c) # {} => cohorts[c].status \in {"active", "cancelled"} /\ Noticed(c)
AllNoticed ==
    /\ \A r \in creating : Noticed(r.cohort)
    /\ \A g \in Groups : groups[g] # NoRow => Noticed(groups[g].cohort)

\* the version that the first record adds
First(c) == IF RecordsOf(c) = {} THEN 0 ELSE 1

ArtifactsOf(c) == {cpa \in artifacts : cpa[1] = c}
Counted(c) ==
    /\ IsFiniteSet(RecordsOf(c)) /\ IsFiniteSet(ArtifactsOf(c))
    /\ LifeCorrect(c, First(c))
    /\ audit[<<"attendance.record", c>>] = Cardinality(RecordsOf(c))
    /\ audit[<<"artifact.archive", c>>] = Cardinality(ArtifactsOf(c))
EventsCounted == \A c \in Cohorts : Counted(c)

BookingInv == IInv /\ SettledStage /\ OutboxMatches

AttInv ==
    /\ BookingInv
    /\ Typed
    /\ GroupsKept
    /\ Attended
    /\ AllNoticed
    /\ ArtifactsEligible
    /\ BatchTruthful
    /\ EventsCounted

LEMMA NoRowIsNone ==
  /\ NoRow \notin GroupRequest /\ NoRow \notin AttendanceRow
  /\ NoRow \notin CohortRow
  /\ \A row \in AttendanceRow : /\ row.status \in {"present", "late", "absent"}
                                /\ row.group \in Groups
  /\ NoRow.status = "none"
BY DEF NoRow, GroupRequest, AttendanceRow, CohortRow

LEMMA InitAttInv == AttendanceInit => AttInv
<1> SUFFICES ASSUME AttendanceInit PROVE AttInv
  OBVIOUS
<1>1. BookingInv
  BY InitIInv, InitSettled DEF AttendanceInit, BookingInv
<1>2. Typed
  BY DEF AttendanceInit, Typed, Recordings, Batches, NoBatch
<1>3. \A g \in Groups : Attending(g) = {}
  BY NoRowIsNone DEF AttendanceInit, Attending, Consuming
<1>4. \A c \in Cohorts : RecordsOf(c) = {} /\ ArtifactsOf(c) = {}
  BY DEF AttendanceInit, RecordsOf, ArtifactsOf
<1>5. GroupsKept
  BY <1>3, FS_EmptySet DEF AttendanceInit, GroupsKept
<1>6. Attended /\ AllNoticed
  BY <1>4, NoRowIsNone DEF AttendanceInit, Init, Attended, AllNoticed
<1>7. ArtifactsEligible /\ BatchTruthful
  BY DEF AttendanceInit, ArtifactsEligible, BatchTruthful, NoBatch
<1>8. EventsCounted
  <2> SUFFICES ASSUME NEW c \in Cohorts PROVE Counted(c)
    BY DEF EventsCounted
  <2>1. /\ audit[<<"attendance.record", c>>] = 0
        /\ audit[<<"artifact.archive", c>>] = 0
        /\ \A a \in LifeEvents : audit[<<a, c>>] = 0
        /\ cohorts[c] = NoRow /\ settlements[c] = NoRow
    BY DEF AttendanceInit, Init, AuditActions, LifeEvents
  <2>2. First(c) = 0
    BY <1>4 DEF First
  <2>3. LifeCorrect(c, 0)
    BY <2>1 DEF LifeCorrect, VersionRecorded, CancelRecorded, LifeEvents
  <2>. QED
    BY <1>4, <2>1, <2>2, <2>3, FS_EmptySet DEF Counted
<1>. QED
  BY <1>1, <1>2, <1>5, <1>6, <1>7, <1>8 DEF AttInv

-----------------------------------------------------------------------------
(* Recording attendance, singly or in a batch.                             *)

LEMMA InputFields ==
  ASSUME NEW in \in Input
  PROVE  /\ in.group \in Groups /\ in.participant \in Participants
         /\ [group |-> in.group, status |-> in.status] \in AttendanceRow
         /\ [group |-> in.group, status |-> in.status] # NoRow
<1>1. /\ in.group \in Groups /\ in.participant \in Participants
      /\ in.status \in {"present", "late", "absent"}
  BY DEF Input
<1>2. [group |-> in.group, status |-> in.status] \in AttendanceRow
  BY <1>1 DEF AttendanceRow
<1>. QED
  BY <1>1, <1>2, NoRowIsNone

\* The cohort stays as it is, or goes from confirmed to active.
Promoted(c) ==
  \/ cohorts[c].status = "active" /\ cohorts' = cohorts
  \/ cohorts[c].status = "confirmed" /\ StatusWritten(c, "active")

LEMMA InsertEffect ==
  ASSUME BookingInv, Typed, NEW c \in Cohorts, NEW in \in Input,
         Recordable(c, in), Insert(c, in)
  PROVE  /\ records[<<c, in.participant>>] = NoRow
         /\ records'[<<c, in.participant>>] = [group |-> in.group, status |-> in.status]
         /\ \A cp \in Cohorts \X Participants :
               cp # <<c, in.participant>> => records'[cp] = records[cp]
         /\ records' \in Recordings
         /\ Promoted(c) /\ cohorts' \in [Cohorts -> CohortRow \cup {NoRow}]
         /\ Record("attendance.record", c)
         /\ UNCHANGED <<now, applications, planItems, holds, assignments, acks,
                        reroutes, settlements, jobs>>
<1>1. /\ records[<<c, in.participant>>] = NoRow
      /\ records' = [records EXCEPT ![<<c, in.participant>>] =
                        [group |-> in.group, status |-> in.status]]
      /\ <<c, in.participant>> \in Cohorts \X Participants
  BY InputFields DEF Recordable, Unrecorded, Insert
<1>2. /\ records'[<<c, in.participant>>] = [group |-> in.group, status |-> in.status]
      /\ \A cp \in Cohorts \X Participants :
            cp # <<c, in.participant>> => records'[cp] = records[cp]
      /\ records' \in Recordings
  BY <1>1, InputFields DEF Typed, Recordings
<1>3. Promoted(c) /\ cohorts' \in [Cohorts -> CohortRow \cup {NoRow}]
  <2>1. CASE cohorts[c].status = "confirmed"
    <3>1. cohorts' = SetStatus(c, "active") /\ cohorts[c] # NoRow
      BY <2>1 DEF Insert, Activate, NoRow
    <3>. QED
      BY <2>1, <3>1, Written, SetStatusType
         DEF Promoted, BookingInv, IInv, CohortStatus
  <2>2. CASE cohorts[c].status = "active"
    BY <2>2 DEF Insert, Activate, Promoted, BookingInv, IInv, TypeOK
  <2>. QED
    BY <2>1, <2>2 DEF Recordable, Attendable
<1>. QED
  BY <1>1, <1>2, <1>3 DEF Insert, plan

\* The invariant of booking survives what attendance writes.
LEMMA PromotedBooked ==
  ASSUME BookingInv, NEW c \in Cohorts, Promoted(c),
         cohorts' \in [Cohorts -> CohortRow \cup {NoRow}],
         Record("attendance.record", c),
         UNCHANGED <<now, applications, planItems, holds, assignments, acks,
                     reroutes, settlements, jobs>>
  PROVE  BookingInv'
<1>1. TypeOK'
  <2>1. audit' \in [AuditActions \X Cohorts -> Nat]
    BY RecordType DEF BookingInv, IInv, AuditActions
  <2>. QED
    BY <2>1 DEF BookingInv, IInv, TypeOK
<1>2. /\ \A d \in Cohorts \ {c} : cohorts'[d] = cohorts[d]
      /\ cohorts[c].status \in Delivered /\ cohorts'[c].status = "active"
      /\ cohorts'[c].planRevision = cohorts[c].planRevision
  BY DEF Promoted, StatusWritten, Delivered
<1>3. CohortStage'
  BY <1>2 DEF BookingInv, IInv, CohortStage, Delivered
<1>4. HoldsPaired'
  BY DEF BookingInv, IInv, HoldsPaired, AgreeOn
<1>5. PlanStage'
  <2> SUFFICES ASSUME NEW i \in Items, planItems[i] # NoRow, ItemStage(i)
               PROVE  ItemStage(i)'
    BY DEF BookingInv, IInv, PlanStage
  <2>1. planItems[i].cohort \in Cohorts
    BY DEF BookingInv, IInv, TypeOK, PlanItemRow
  <2>2. CASE planItems[i].cohort = c
    BY <1>2, <2>2 DEF ItemStage, Delivered
  <2>3. CASE planItems[i].cohort # c
    BY <1>2, <2>1, <2>3 DEF ItemStage
  <2>. QED
    BY <2>2, <2>3
<1>6. SettledStage'
  BY <1>2 DEF BookingInv, SettledStage, Delivered
<1>7. OutboxMatches'
  <2>1. \A d \in Cohorts : JobsMatch(d)
    BY OutboxByStatus DEF BookingInv
  <2>2. \A d \in Cohorts \ {c} : JobsMatch(d)'
    BY <1>2, <2>1, OtherJobs
  <2>3. JobsMatch(c)'
    BY <1>2, <2>1 DEF JobsMatch, Delivered
  <2>. QED
    BY <2>2, <2>3, OutboxByStatus
<1>. QED
  BY <1>1, <1>3, <1>4, <1>5, <1>6, <1>7 DEF BookingInv, IInv

\* One more record, of the cohort and in the group that it names.
LEMMA InsertAdds ==
  ASSUME BookingInv, Typed, NEW c \in Cohorts, NEW in \in Input,
         Recordable(c, in), Insert(c, in)
  PROVE  /\ \A d \in Cohorts \ {c} : RecordsOf(d)' = RecordsOf(d)
         /\ RecordsOf(c)' = RecordsOf(c) \cup {in.participant}
         /\ in.participant \notin RecordsOf(c)
         /\ \A g \in Groups \ {in.group} : Attending(g)' = Attending(g)
         /\ Attending(in.group)' =
               IF in.status = "absent" THEN Attending(in.group)
               ELSE Attending(in.group) \cup {<<c, in.participant>>}
         /\ <<c, in.participant>> \notin Attending(in.group)
<1> DEFINE new == <<c, in.participant>>
<1>1. /\ records[new] = NoRow
      /\ records'[new] = [group |-> in.group, status |-> in.status]
      /\ \A cp \in Cohorts \X Participants :
            cp # new => records'[cp] = records[cp]
  BY InsertEffect
<1>2. /\ new \in Cohorts \X Participants /\ in.participant \in Participants
      /\ in.group \in Groups /\ in.status \in {"present", "late", "absent"}
      /\ records'[new] # NoRow
  BY <1>1, InputFields DEF Input
<1>3. /\ \A d \in Cohorts \ {c} : RecordsOf(d)' = RecordsOf(d)
      /\ RecordsOf(c)' = RecordsOf(c) \cup {in.participant}
      /\ in.participant \notin RecordsOf(c)
  BY <1>1, <1>2 DEF RecordsOf
<1>4. /\ records[new].status \notin Consuming
      /\ records'[new].status = in.status /\ records'[new].group = in.group
  BY <1>1, NoRowIsNone DEF Consuming
<1>5. \A g \in Groups \ {in.group} : Attending(g)' = Attending(g)
  BY <1>1, <1>4 DEF Attending
<1>6. Attending(in.group)' =
         IF in.status = "absent" THEN Attending(in.group)
         ELSE Attending(in.group) \cup {new}
  BY <1>1, <1>2, <1>4 DEF Attending, Consuming
<1>7. new \notin Attending(in.group)
  BY <1>4 DEF Attending
<1>. QED
  BY <1>3, <1>5, <1>6, <1>7

LEMMA SeatThere ==
  ASSUME BookingInv, Typed, GroupsKept, NEW c \in Cohorts, NEW in \in Input,
         Recordable(c, in), Insert(c, in), UNCHANGED groups
  PROVE  GroupsKept'
<1> DEFINE new == <<c, in.participant>>
<1>1. /\ groups[in.group] # NoRow /\ groups[in.group].cohort = c
      /\ in.group \in Groups /\ new[1] = c
      /\ groups[in.group].capacity \in Nat
  BY InputFields DEF Recordable, GroupFits, Typed, GroupRequest
<1>2. \A cp \in Cohorts \X Participants : records'[cp] # NoRow =>
         groups'[records'[cp].group] # NoRow
         /\ groups'[records'[cp].group].cohort = cp[1]
  <2>1. /\ records'[new] = [group |-> in.group, status |-> in.status]
        /\ \A cp \in Cohorts \X Participants :
              cp # new => records'[cp] = records[cp]
    BY InsertEffect
  <2>. QED
    BY <1>1, <2>1 DEF GroupsKept
<1>3. /\ \A g \in Groups \ {in.group} : Attending(g)' = Attending(g)
      /\ Attending(in.group)' =
            IF in.status = "absent" THEN Attending(in.group)
            ELSE Attending(in.group) \cup {new}
      /\ new \notin Attending(in.group)
  BY InsertAdds
<1>4. IsFiniteSet(Attending(in.group))
      /\ Cardinality(Attending(in.group)) <= groups[in.group].capacity
  BY <1>1 DEF GroupsKept
<1>5. in.status # "absent" =>
        Cardinality(Attending(in.group)) < groups[in.group].capacity
  <2>1. CountGroupAttendance(in.group) = Cardinality(Attending(in.group))
    <3>1. DOMAIN records = Cohorts \X Participants
      BY DEF Typed, Recordings
    <3>. QED
      BY <3>1 DEF CountGroupAttendance, Attending
  <2>. QED
    BY <2>1 DEF Recordable
<1>6. /\ IsFiniteSet(Attending(in.group) \cup {new})
      /\ Cardinality(Attending(in.group) \cup {new})
            = Cardinality(Attending(in.group)) + 1
      /\ Cardinality(Attending(in.group)) \in Nat
  BY <1>3, <1>4, FS_AddElement, FS_CardinalityType
<1>7. /\ IsFiniteSet(Attending(in.group)')
      /\ Cardinality(Attending(in.group)') <= groups[in.group].capacity
  <2>1. CASE in.status = "absent"
    BY <1>3, <1>4, <2>1
  <2>2. CASE in.status # "absent"
    <3>1. Cardinality(Attending(in.group)) + 1 <= groups[in.group].capacity
      BY <1>1, <1>5, <1>6, <2>2
    <3>. QED
      BY <1>3, <1>6, <2>2, <3>1
  <2>. QED
    BY <2>1, <2>2
<1>8. \A g \in Groups : IsFiniteSet(Attending(g)')
  BY <1>3, <1>7 DEF GroupsKept
<1>9. \A g \in Groups : groups'[g] # NoRow =>
         Cardinality(Attending(g)') <= groups'[g].capacity
  BY <1>3, <1>7 DEF GroupsKept
<1>. QED
  BY <1>2, <1>8, <1>9 DEF GroupsKept

LEMMA InsertAttends ==
  ASSUME AttInv, NEW c \in Cohorts, NEW in \in Input,
         Recordable(c, in), Insert(c, in), UNCHANGED <<groups, artifacts, creating>>
  PROVE  Attended' /\ AllNoticed' /\ ArtifactsEligible'
<1>1. /\ \A d \in Cohorts \ {c} : RecordsOf(d)' = RecordsOf(d)
      /\ RecordsOf(c)' # {}
  BY InsertAdds DEF AttInv
<1>2. /\ \A d \in Cohorts \ {c} : cohorts'[d] = cohorts[d]
      /\ cohorts[c].status \in Delivered /\ cohorts'[c].status = "active"
      /\ jobs' = jobs
  BY InsertEffect DEF AttInv, Promoted, StatusWritten, Delivered
<1>3. Noticed(c)
  <2>1. JobsMatch(c)
    BY OutboxByStatus DEF AttInv, BookingInv
  <2>. QED
    BY <1>2, <2>1 DEF JobsMatch, Noticed
<1>4. Attended'
  BY <1>1, <1>2, <1>3 DEF AttInv, Attended, Noticed
<1>5. AllNoticed'
  BY <1>2 DEF AttInv, AllNoticed, Noticed
<1>6. ArtifactsEligible'
  <2> SUFFICES ASSUME NEW cpa \in artifacts
               PROVE  records'[<<cpa[1], cpa[2]>>].status \in {"present", "late"}
    BY DEF ArtifactsEligible
  <2>1. PICK cp \in Cohorts \X Participants : cp = <<cpa[1], cpa[2]>>
    BY DEF AttInv, Typed
  <2>2. records[cp].status \in {"present", "late"}
    BY <2>1 DEF AttInv, ArtifactsEligible
  <2>3. cp # <<c, in.participant>>
    <3>1. records[<<c, in.participant>>] = NoRow
      BY InsertEffect DEF AttInv
    <3>. QED
      BY <2>2, <3>1, NoRowIsNone
  <2>4. records'[cp] = records[cp]
    BY <2>3, InsertEffect DEF AttInv
  <2>. QED
    BY <2>1, <2>2, <2>4
<1>. QED
  BY <1>4, <1>5, <1>6

\* The events of attendance are none of those that the version counts.
LEMMA AttendanceEvents ==
  ASSUME IInv, NEW action \in {"attendance.record", "artifact.archive"},
         NEW c \in Cohorts, Record(action, c)
  PROVE  /\ action \in AuditActions \ LifeEvents
         /\ audit[<<action, c>>] \in Nat
         /\ audit'[<<action, c>>] = audit[<<action, c>>] + 1
         /\ \A a \in {"attendance.record", "artifact.archive"}, d \in Cohorts :
               a # action \/ d # c => audit'[<<a, d>>] = audit[<<a, d>>]
         /\ \A a \in LifeEvents, d \in Cohorts : audit'[<<a, d>>] = audit[<<a, d>>]
<1>1. /\ {"attendance.record", "artifact.archive"} \subseteq AuditActions
      /\ LifeEvents \subseteq AuditActions /\ action \in AuditActions \ LifeEvents
  BY DEF AuditActions, LifeEvents
<1>. QED
  BY <1>1, Recorded DEF IInv

\* The first record, and no other, is a version of its cohort.
LEMMA InsertLife ==
  ASSUME AttInv, NEW c \in Cohorts, NEW in \in Input,
         Recordable(c, in), Insert(c, in)
  PROVE  LifeCorrect(c, First(c))'
<1>1. /\ Promoted(c) /\ settlements' = settlements
      /\ \A a \in LifeEvents : audit'[<<a, c>>] = audit[<<a, c>>]
      /\ \A a \in LifeEvents : audit[<<a, c>>] \in Nat
  BY InsertEffect, AttendanceEvents, AuditTyped
     DEF AttInv, BookingInv, IInv, LifeEvents, AuditActions
<1>2. /\ LifeCorrect(c, First(c)) /\ First(c)' = 1
  BY InsertAdds DEF AttInv, EventsCounted, Counted, First
<1>3. cohorts[c] # NoRow /\ cohorts'[c] # NoRow
  BY <1>1 DEF Promoted, StatusWritten, NoRow
<1>4. CancelRecorded(c)'
  BY <1>1, <1>2 DEF LifeCorrect, CancelRecorded, LifeEvents
<1>5. VersionRecorded(c, 1)'
  <2>1. CASE cohorts[c].status = "active" /\ cohorts' = cohorts
    <3>1. First(c) = 1
      BY <2>1 DEF AttInv, Attended, First
    <3>. QED
      BY <1>1, <1>2, <2>1, <3>1 DEF LifeCorrect, VersionRecorded, LifeEvents
  <2>2. CASE cohorts[c].status = "confirmed" /\ StatusWritten(c, "active")
    <3>1. First(c) = 0
      BY <2>2 DEF AttInv, Attended, First
    <3>. QED
      BY <1>1, <1>2, <1>3, <2>2, <3>1
         DEF LifeCorrect, VersionRecorded, LifeEvents, StatusWritten
  <2>. QED
    BY <1>1, <2>1, <2>2 DEF Promoted
<1>. QED
  BY <1>2, <1>3, <1>4, <1>5 DEF LifeCorrect, VersionRecorded

LEMMA InsertCounted ==
  ASSUME AttInv, NEW c \in Cohorts, NEW in \in Input,
         Recordable(c, in), Insert(c, in), UNCHANGED artifacts
  PROVE  EventsCounted'
<1>1. /\ Record("attendance.record", c) /\ settlements' = settlements
      /\ \A d \in Cohorts \ {c} : cohorts'[d] = cohorts[d]
  BY InsertEffect DEF AttInv, Promoted, StatusWritten
<1>2. \A d \in Cohorts : ArtifactsOf(d)' = ArtifactsOf(d)
  BY DEF ArtifactsOf
<1>3. Counted(c)'
  <2>1. /\ IsFiniteSet(RecordsOf(c)) /\ IsFiniteSet(ArtifactsOf(c))
        /\ audit[<<"attendance.record", c>>] = Cardinality(RecordsOf(c))
        /\ audit[<<"artifact.archive", c>>] = Cardinality(ArtifactsOf(c))
    BY DEF AttInv, EventsCounted, Counted
  <2>2. /\ audit'[<<"attendance.record", c>>] = audit[<<"attendance.record", c>>] + 1
        /\ audit'[<<"artifact.archive", c>>] = audit[<<"artifact.archive", c>>]
    BY <1>1, AttendanceEvents DEF AttInv, BookingInv
  <2>3. /\ RecordsOf(c)' = RecordsOf(c) \cup {in.participant}
        /\ in.participant \notin RecordsOf(c)
    BY InsertAdds DEF AttInv
  <2>4. /\ IsFiniteSet(RecordsOf(c) \cup {in.participant})
        /\ Cardinality(RecordsOf(c) \cup {in.participant})
              = Cardinality(RecordsOf(c)) + 1
    BY <2>1, <2>3, FS_AddElement
  <2>5. /\ IsFiniteSet(RecordsOf(c)')
        /\ audit'[<<"attendance.record", c>>] = Cardinality(RecordsOf(c)')
    BY <2>1, <2>2, <2>3, <2>4
  <2>. QED
    BY <1>2, <2>1, <2>2, <2>5, InsertLife DEF Counted
<1>4. ASSUME NEW d \in Cohorts, d # c
      PROVE  Counted(d)'
  <2>1. RecordsOf(d)' = RecordsOf(d) /\ Counted(d)
    BY <1>4, InsertAdds DEF AttInv, EventsCounted
  <2>2. PICK n \in Nat : n = First(d)
    BY DEF First
  <2>3. LifeKept(d)
    BY <1>1, <1>4, AttendanceEvents DEF AttInv, BookingInv, LifeKept
  <2>4. LifeCorrect(d, n)'
    BY <2>1, <2>2, <2>3, KeptLife DEF Counted
  <2>5. First(d)' = n
    BY <2>1, <2>2 DEF First
  <2>6. /\ audit'[<<"attendance.record", d>>] = audit[<<"attendance.record", d>>]
        /\ audit'[<<"artifact.archive", d>>] = audit[<<"artifact.archive", d>>]
    BY <1>1, <1>4, AttendanceEvents DEF AttInv, BookingInv
  <2>. QED
    BY <1>2, <2>1, <2>4, <2>5, <2>6 DEF Counted
<1>. QED
  BY <1>3, <1>4 DEF EventsCounted

-----------------------------------------------------------------------------
(* The outcomes of a batch.                                                *)

LEMMA BatchFields ==
  ASSUME Typed
  PROVE  /\ batch.inputs \in Seq(Input)
         /\ batch.outcomes \in Seq({"recorded", "failed"})
         /\ DOMAIN batch.outcomes = 1 .. Len(batch.outcomes)
         /\ Len(batch.outcomes) \in Nat /\ Len(batch.inputs) \in Nat
         /\ \A k \in DOMAIN batch.outcomes :
               batch.inputs[k] \in Input /\ batch.cohort \in Cohorts
<1>1. /\ batch.inputs \in Seq(Input)
      /\ batch.outcomes \in Seq({"recorded", "failed"})
  BY AttendanceAssumption DEF Typed, Batches
<1>2. /\ DOMAIN batch.outcomes = 1 .. Len(batch.outcomes)
      /\ Len(batch.outcomes) \in Nat /\ Len(batch.inputs) \in Nat
  BY <1>1
<1>3. ASSUME NEW k \in DOMAIN batch.outcomes
      PROVE  batch.inputs[k] \in Input /\ batch.cohort \in Cohorts
  <2>1. k \in 1 .. Len(batch.inputs) /\ batch.outcomes # <<>>
    BY <1>1, <1>2, <1>3 DEF Typed
  <2>. QED
    BY <1>1, <2>1 DEF Typed
<1>. QED
  BY <1>1, <1>2, <1>3

\* What was reported as recorded stays recorded, of another participant than
\* the one recorded now.
Told(k) ==
  /\ batch.outcomes[k] = "recorded" =>
        records[<<batch.cohort, batch.inputs[k].participant>>] =
           [group |-> batch.inputs[k].group, status |-> batch.inputs[k].status]
  /\ batch.outcomes[k] = "recorded" =>
        \A n \in DOMAIN batch.outcomes \ {k} :
           batch.outcomes[n] = "recorded" =>
              batch.inputs[n].participant # batch.inputs[k].participant

LEMMA TruthfulByItems ==
  /\ BatchTruthful <=> \A k \in DOMAIN batch.outcomes : Told(k)
  /\ BatchTruthful' <=> \A k \in DOMAIN batch.outcomes' : Told(k)'
BY DEF BatchTruthful, Told

LEMMA ToldStays ==
  ASSUME BookingInv, Typed, BatchTruthful, NEW c \in Cohorts, NEW in \in Input,
         Recordable(c, in), Insert(c, in),
         NEW k \in DOMAIN batch.outcomes, batch.outcomes[k] = "recorded"
  PROVE  /\ records'[<<batch.cohort, batch.inputs[k].participant>>] =
               [group |-> batch.inputs[k].group, status |-> batch.inputs[k].status]
         /\ <<batch.cohort, batch.inputs[k].participant>> # <<c, in.participant>>
<1>1. batch.inputs[k] \in Input /\ batch.cohort \in Cohorts
  BY BatchFields
<1>2. PICK cp \in Cohorts \X Participants :
          cp = <<batch.cohort, batch.inputs[k].participant>>
  BY <1>1, InputFields
<1>3. /\ records[cp] = [group |-> batch.inputs[k].group,
                        status |-> batch.inputs[k].status]
      /\ records[cp] # NoRow
  BY <1>1, <1>2, TruthfulByItems, InputFields DEF Told
<1>4. records[<<c, in.participant>>] = NoRow
  BY InsertEffect
<1>5. cp # <<c, in.participant>>
  BY <1>3, <1>4
<1>6. records'[cp] = records[cp]
  BY <1>5, InsertEffect
<1>. QED
  BY <1>2, <1>3, <1>5, <1>6

LEMMA RecordTruthful ==
  ASSUME BookingInv, Typed, BatchTruthful, NEW c \in Cohorts, NEW in \in Input,
         Recordable(c, in), Insert(c, in), UNCHANGED batch
  PROVE  BatchTruthful'
<1> SUFFICES ASSUME NEW k \in DOMAIN batch.outcomes PROVE Told(k)'
  BY TruthfulByItems
<1>1. CASE batch.outcomes[k] = "recorded"
  <2>1. records'[<<batch.cohort, batch.inputs[k].participant>>] =
           [group |-> batch.inputs[k].group, status |-> batch.inputs[k].status]
    BY <1>1, ToldStays
  <2>2. Told(k)
    BY TruthfulByItems
  <2>. QED
    BY <2>1, <2>2 DEF Told
<1>2. CASE batch.outcomes[k] # "recorded"
  BY <1>2 DEF Told
<1>. QED
  BY <1>1, <1>2

\* One more outcome.
LEMMA OutcomeAdds ==
  ASSUME Typed, Pending, NEW result \in {"recorded", "failed"},
         batch' = Outcome(result)
  PROVE  /\ batch.cohort \in Cohorts /\ NextInput \in Input
         /\ batch' \in Batches
         /\ batch'.cohort = batch.cohort /\ batch'.inputs = batch.inputs
         /\ Len(batch'.outcomes) <= Len(batch'.inputs)
         /\ Len(batch.outcomes) + 1 \notin DOMAIN batch.outcomes
         /\ DOMAIN batch'.outcomes =
               DOMAIN batch.outcomes \cup {Len(batch.outcomes) + 1}
         /\ batch'.outcomes[Len(batch.outcomes) + 1] = result
         /\ \A k \in DOMAIN batch.outcomes : batch'.outcomes[k] = batch.outcomes[k]
<1>1. /\ batch.cohort \in Cohorts /\ batch.inputs \in BatchInputs \cup {<<>>}
      /\ batch.outcomes \in Seq({"recorded", "failed"})
      /\ batch.inputs \in Seq(Input)
      /\ Len(batch.outcomes) < Len(batch.inputs)
  BY BatchFields DEF Pending, Typed, Batches
<1>2. NextInput \in Input
  <2>1. Len(batch.outcomes) + 1 \in 1 .. Len(batch.inputs)
    BY <1>1
  <2>. QED
    BY <1>1, <2>1 DEF NextInput
<1>3. PICK out : out = Append(batch.outcomes, result)
  OBVIOUS
<1>4. /\ out \in Seq({"recorded", "failed"}) /\ Len(out) = Len(batch.outcomes) + 1
      /\ DOMAIN out = DOMAIN batch.outcomes \cup {Len(batch.outcomes) + 1}
      /\ Len(batch.outcomes) + 1 \notin DOMAIN batch.outcomes
      /\ out[Len(batch.outcomes) + 1] = result
      /\ \A k \in DOMAIN batch.outcomes : out[k] = batch.outcomes[k]
  BY <1>1, <1>3
<1>5. batch' = [batch EXCEPT !.outcomes = out]
  BY <1>3 DEF Outcome
<1>6. /\ batch'.outcomes = out /\ batch'.cohort = batch.cohort
      /\ batch'.inputs = batch.inputs /\ batch' \in Batches
  BY <1>4, <1>5 DEF Typed, Batches
<1>7. Len(out) <= Len(batch.inputs)
  BY <1>1, <1>4
<1>. QED
  BY <1>1, <1>2, <1>4, <1>6, <1>7

LEMMA ItemTruthful ==
  ASSUME BookingInv, Typed, BatchTruthful, BatchItem
  PROVE  BatchTruthful'
<1>0. /\ Recordable(batch.cohort, NextInput) /\ Insert(batch.cohort, NextInput)
      /\ Pending /\ batch' = Outcome("recorded")
  BY DEF BatchItem
<1>1. PICK last : last = Len(batch.outcomes) + 1
  OBVIOUS
<1>2. /\ batch.cohort \in Cohorts /\ NextInput \in Input
      /\ batch'.cohort = batch.cohort /\ batch'.inputs = batch.inputs
      /\ last \notin DOMAIN batch.outcomes
      /\ DOMAIN batch'.outcomes = DOMAIN batch.outcomes \cup {last}
      /\ batch'.outcomes[last] = "recorded"
      /\ \A k \in DOMAIN batch.outcomes : batch'.outcomes[k] = batch.outcomes[k]
  BY <1>0, <1>1, OutcomeAdds
<1>3. PICK in \in Input : in = NextInput /\ in = batch.inputs[last]
  BY <1>1, <1>2 DEF NextInput
<1>4. \A k \in DOMAIN batch.outcomes : batch.outcomes[k] = "recorded" =>
         /\ records'[<<batch.cohort, batch.inputs[k].participant>>] =
               [group |-> batch.inputs[k].group, status |-> batch.inputs[k].status]
         /\ batch.inputs[k].participant # in.participant
  BY <1>0, <1>2, <1>3, ToldStays
<1>5. records'[<<batch.cohort, in.participant>>] =
         [group |-> in.group, status |-> in.status]
  BY <1>0, <1>2, <1>3, InsertEffect
<1>6. Told(last)'
  BY <1>2, <1>3, <1>4, <1>5 DEF Told
<1>7. ASSUME NEW k \in DOMAIN batch.outcomes
      PROVE  Told(k)'
  <2>1. Told(k)
    BY TruthfulByItems
  <2>. QED
    BY <1>2, <1>3, <1>4, <2>1 DEF Told
<1>. QED
  BY <1>2, <1>6, <1>7, TruthfulByItems

LEMMA FailedTruthful ==
  ASSUME Typed, BatchTruthful, BatchItemFails
  PROVE  BatchTruthful'
<1>1. PICK last : last = Len(batch.outcomes) + 1
  OBVIOUS
<1>2. /\ batch'.cohort = batch.cohort /\ batch'.inputs = batch.inputs
      /\ DOMAIN batch'.outcomes = DOMAIN batch.outcomes \cup {last}
      /\ batch'.outcomes[last] = "failed"
      /\ \A k \in DOMAIN batch.outcomes : batch'.outcomes[k] = batch.outcomes[k]
      /\ records' = records
  BY <1>1, OutcomeAdds DEF BatchItemFails
<1>3. Told(last)'
  BY <1>2 DEF Told
<1>4. ASSUME NEW k \in DOMAIN batch.outcomes
      PROVE  Told(k)'
  <2>1. Told(k)
    BY TruthfulByItems
  <2>. QED
    BY <1>2, <2>1 DEF Told
<1>. QED
  BY <1>2, <1>3, <1>4, TruthfulByItems

-----------------------------------------------------------------------------
(* Every step keeps the invariant.                                         *)

LEMMA RecordAttendanceKeeps ==
  ASSUME AttInv, NEW u \in Users, NEW c \in Cohorts, NEW in \in Input,
         RecordAttendance(u, c, in)
  PROVE  AttInv'
<1>1. /\ Recordable(c, in) /\ Insert(c, in)
      /\ UNCHANGED <<groups, artifacts, creating, batch>>
      /\ BookingInv /\ Typed /\ GroupsKept /\ BatchTruthful
  BY DEF RecordAttendance, AttInv
<1>2. BookingInv'
  BY <1>1, InsertEffect, PromotedBooked
<1>3. Typed'
  BY <1>1, InsertEffect DEF Typed
<1>4. GroupsKept' /\ BatchTruthful'
  BY <1>1, SeatThere, RecordTruthful
<1>5. Attended' /\ AllNoticed' /\ ArtifactsEligible' /\ EventsCounted'
  BY <1>1, InsertAttends, InsertCounted
<1>. QED
  BY <1>2, <1>3, <1>4, <1>5 DEF AttInv

LEMMA BatchItemKeeps ==
  ASSUME AttInv, BatchItem
  PROVE  AttInv'
<1>1. /\ Recordable(batch.cohort, NextInput) /\ Insert(batch.cohort, NextInput)
      /\ UNCHANGED <<groups, artifacts, creating>>
      /\ Pending /\ batch' = Outcome("recorded")
      /\ BookingInv /\ Typed /\ GroupsKept /\ BatchTruthful
  BY DEF BatchItem, AttInv
<1>2. PICK c \in Cohorts, in \in Input : c = batch.cohort /\ in = NextInput
  BY <1>1, OutcomeAdds
<1>3. Recordable(c, in) /\ Insert(c, in)
  BY <1>1, <1>2
<1>4. BookingInv'
  BY <1>1, <1>3, InsertEffect, PromotedBooked
<1>5. Typed'
  <2>1. /\ batch' \in Batches /\ Len(batch'.outcomes) <= Len(batch'.inputs)
        /\ batch'.cohort \in Cohorts
    BY <1>1, OutcomeAdds
  <2>2. records' \in Recordings
    BY <1>1, <1>3, InsertEffect
  <2>. QED
    BY <1>1, <2>1, <2>2 DEF Typed
<1>6. GroupsKept' /\ BatchTruthful'
  BY <1>1, <1>3, SeatThere, ItemTruthful
<1>7. Attended' /\ AllNoticed' /\ ArtifactsEligible' /\ EventsCounted'
  BY <1>1, <1>3, InsertAttends, InsertCounted
<1>. QED
  BY <1>4, <1>5, <1>6, <1>7 DEF AttInv

\* Steps that touch neither the tables of booking nor those of attendance.
LEMMA BookedKept ==
  ASSUME AttInv, UNCHANGED vars
  PROVE  BookingInv'
<1>1. IInv'
  BY NextIInv DEF AttInv, BookingInv
<1>2. SettledStage' /\ OutboxMatches'
  BY NextSettledStage, NextOutbox DEF AttInv, BookingInv
<1>. QED
  BY <1>1, <1>2 DEF BookingInv

LEMMA CountedKept ==
  ASSUME EventsCounted, UNCHANGED <<vars, records, artifacts>>
  PROVE  EventsCounted'
<1> SUFFICES ASSUME NEW d \in Cohorts PROVE Counted(d)'
  BY DEF EventsCounted
<1>1. Counted(d)
  BY DEF EventsCounted
<1>2. /\ RecordsOf(d)' = RecordsOf(d) /\ ArtifactsOf(d)' = ArtifactsOf(d)
      /\ cohorts' = cohorts /\ settlements' = settlements /\ audit' = audit
  BY DEF RecordsOf, ArtifactsOf, vars
<1>3. First(d)' = First(d)
  BY <1>2 DEF First
<1>4. LifeCorrect(d, First(d))'
  BY <1>1, <1>2, <1>3 DEF Counted, LifeCorrect, VersionRecorded, CancelRecorded
<1>. QED
  BY <1>1, <1>2, <1>4 DEF Counted

LEMMA RecordsKept ==
  ASSUME AttInv, UNCHANGED <<vars, records, artifacts>>
  PROVE  BookingInv' /\ Attended' /\ ArtifactsEligible' /\ EventsCounted'
<1>1. cohorts' = cohorts /\ jobs' = jobs
  BY DEF vars
<1>2. Attended' /\ ArtifactsEligible'
  BY <1>1 DEF AttInv, Attended, ArtifactsEligible, RecordsOf, Noticed
<1>. QED
  BY <1>2, BookedKept, CountedKept DEF AttInv

LEMMA BatchSteps ==
  ASSUME AttInv,
         \/ \E u \in Users, c \in Cohorts, inputs \in BatchInputs :
               StartBatch(u, c, inputs)
         \/ BatchItemFails
         \/ EndBatch
  PROVE  AttInv'
<1>1. UNCHANGED <<vars, groups, records, artifacts, creating>>
  BY DEF StartBatch, BatchItemFails, EndBatch
<1>2. BookingInv' /\ Attended' /\ ArtifactsEligible' /\ EventsCounted'
  BY <1>1, RecordsKept
<1>3. GroupsKept' /\ AllNoticed'
  BY <1>1 DEF AttInv, GroupsKept, AllNoticed, Attending, Noticed, vars
<1>4. ASSUME NEW c \in Cohorts \cup {"none"}, NEW inputs \in BatchInputs \cup {<<>>},
             batch' = [cohort |-> c, inputs |-> inputs, outcomes |-> <<>>]
      PROVE  Typed' /\ BatchTruthful'
  <2>1. Len(inputs) \in Nat
    <3>1. BatchInputs \subseteq Seq(Input)
      BY AttendanceAssumption
    <3>2. CASE inputs \in BatchInputs
      BY <3>1, <3>2
    <3>3. CASE inputs = <<>>
      BY <3>3
    <3>. QED
      BY <1>4, <3>2, <3>3
  <2>2. /\ batch' \in Batches /\ batch'.outcomes = <<>> /\ batch'.inputs = inputs
    <3>1. <<>> \in Seq({"recorded", "failed"})
      OBVIOUS
    <3>. QED
      BY <1>4, <3>1 DEF Batches
  <2>3. Len(batch'.outcomes) <= Len(batch'.inputs)
    BY <2>1, <2>2
  <2>. QED
    BY <1>1, <2>2, <2>3 DEF AttInv, Typed, BatchTruthful
<1>5. ASSUME BatchItemFails
      PROVE  Typed' /\ BatchTruthful'
  <2>1. /\ batch' \in Batches /\ Len(batch'.outcomes) <= Len(batch'.inputs)
        /\ batch'.cohort \in Cohorts
    BY <1>5, OutcomeAdds DEF AttInv, BatchItemFails
  <2>. QED
    BY <1>1, <1>5, <2>1, FailedTruthful DEF AttInv, Typed
<1>6. ASSUME EndBatch
      PROVE  Typed' /\ BatchTruthful'
  BY <1>4, <1>6 DEF EndBatch, NoBatch
<1>7. ASSUME NEW u \in Users, NEW c \in Cohorts, NEW inputs \in BatchInputs,
             StartBatch(u, c, inputs)
      PROVE  Typed' /\ BatchTruthful'
  BY <1>4, <1>7 DEF StartBatch
<1>. QED
  BY <1>2, <1>3, <1>5, <1>6, <1>7 DEF AttInv

\* A group is asked for, and inserted, only if its cohort was confirmed once.
LEMMA GroupSteps ==
  ASSUME AttInv,
         \/ \E u \in Users, c \in Cohorts, name \in GroupNames,
               n \in GroupCapacities : CheckGroup(u, c, name, n)
         \/ \E r \in creating : AbandonGroup(r)
         \/ \E r \in creating, g \in Groups : InsertGroup(r, g)
  PROVE  AttInv'
<1>1. UNCHANGED <<vars, records, artifacts, batch>>
  BY DEF CheckGroup, AbandonGroup, InsertGroup
<1>2. BookingInv' /\ Attended' /\ ArtifactsEligible' /\ EventsCounted'
  BY <1>1, RecordsKept
<1>3. BatchTruthful'
  BY <1>1 DEF AttInv, BatchTruthful
<1>4. jobs' = jobs /\ \A g \in Groups : Attending(g)' = Attending(g)
  BY <1>1 DEF vars, Attending
<1>5. ASSUME UNCHANGED groups, creating' \subseteq GroupRequest,
             \A r \in creating' : r \in creating \/ Noticed(r.cohort)
      PROVE  Typed' /\ GroupsKept' /\ AllNoticed'
  BY <1>1, <1>4, <1>5 DEF AttInv, Typed, GroupsKept, AllNoticed, Noticed
<1>6. ASSUME NEW u \in Users, NEW c \in Cohorts, NEW name \in GroupNames,
             NEW n \in GroupCapacities, CheckGroup(u, c, name, n)
      PROVE  Typed' /\ GroupsKept' /\ AllNoticed'
  <2>1. PICK r : r = [cohort |-> c, name |-> name, capacity |-> n]
    OBVIOUS
  <2>2. creating' = creating \cup {r} /\ groups' = groups /\ r.cohort = c
    BY <1>6, <2>1 DEF CheckGroup
  <2>3. r \in GroupRequest
    <3>1. cohorts[c] \in CohortRow
      BY <1>6, CohortThere DEF CheckGroup, Attendable, AttInv, BookingInv, IInv
    <3>2. n \in Nat
      BY <1>6, <3>1 DEF CheckGroup, CohortRow
    <3>. QED
      BY <2>1, <3>2 DEF GroupRequest
  <2>4. Noticed(c)
    <3>1. JobsMatch(c)
      BY OutboxByStatus DEF AttInv, BookingInv
    <3>. QED
      BY <1>6, <3>1 DEF CheckGroup, Attendable, JobsMatch, Noticed, Delivered
  <2>. QED
    BY <1>5, <2>2, <2>3, <2>4 DEF AttInv, Typed
<1>7. ASSUME NEW r \in creating, AbandonGroup(r)
      PROVE  Typed' /\ GroupsKept' /\ AllNoticed'
  BY <1>5, <1>7 DEF AbandonGroup, AttInv, Typed
<1>8. ASSUME NEW r \in creating, NEW g \in Groups, InsertGroup(r, g)
      PROVE  Typed' /\ GroupsKept' /\ AllNoticed'
  <2>1. /\ groups[g] = NoRow /\ groups'[g] = r
        /\ \A h \in Groups \ {g} : groups'[h] = groups[h]
        /\ groups' \in [Groups -> GroupRequest \cup {NoRow}]
        /\ creating' \subseteq creating
        /\ r \in GroupRequest /\ Noticed(r.cohort)
    BY <1>8 DEF InsertGroup, AttInv, Typed, AllNoticed
  <2>2. r # NoRow /\ r.capacity \in Nat
    BY <2>1, NoRowIsNone DEF GroupRequest
  <2>3. Typed'
    BY <1>1, <2>1 DEF AttInv, Typed
  <2>4. AllNoticed'
    BY <1>4, <2>1 DEF AttInv, AllNoticed, Noticed
  <2>5. \A cp \in Cohorts \X Participants : records[cp] # NoRow =>
           records[cp].group \in Groups \ {g}
    <3>1. \A cp \in Cohorts \X Participants : records[cp] # NoRow =>
             records[cp] \in AttendanceRow
      BY DEF AttInv, Typed, Recordings
    <3>. QED
      BY <2>1, <3>1, NoRowIsNone DEF AttInv, GroupsKept
  <2>6. Attending(g) = {}
    BY <2>5, NoRowIsNone DEF Attending, Consuming
  <2>7. Cardinality(Attending(g)) <= r.capacity
    BY <2>2, <2>6, FS_EmptySet
  <2>. QED
    BY <1>1, <1>4, <2>1, <2>3, <2>4, <2>5, <2>7 DEF AttInv, GroupsKept
<1>. QED
  BY <1>2, <1>3, <1>6, <1>7, <1>8 DEF AttInv

LEMMA ArchiveKeeps ==
  ASSUME AttInv, NEW u \in Users, NEW c \in Cohorts, NEW p \in Participants,
         NEW a \in Artifacts, ArchiveArtifact(u, c, p, a)
  PROVE  AttInv'
<1> DEFINE new == <<c, p, a>>
<1>1. /\ records[<<c, p>>].status \in {"present", "late"}
      /\ new \notin artifacts /\ artifacts' = artifacts \cup {new}
      /\ Record("artifact.archive", c)
      /\ UNCHANGED <<now, cohorts, applications, planItems, holds, assignments, acks,
                     reroutes, settlements, jobs, groups, records, creating, batch>>
  BY DEF ArchiveArtifact, Eligible, Consuming, plan
<1>2. BookingInv'
  <2>1. TypeOK'
    <3>1. audit' \in [AuditActions \X Cohorts -> Nat]
      BY <1>1, RecordType DEF AttInv, BookingInv, IInv, AuditActions
    <3>. QED
      BY <1>1, <3>1 DEF AttInv, BookingInv, IInv, TypeOK
  <2>2. CohortStage' /\ HoldsPaired' /\ PlanStage'
    BY <1>1 DEF AttInv, BookingInv, IInv, CohortStage, HoldsPaired, AgreeOn,
       PlanStage, ItemStage
  <2>3. SettledStage' /\ OutboxMatches'
    BY <1>1 DEF AttInv, BookingInv, SettledStage, OutboxMatches
  <2>. QED
    BY <2>1, <2>2, <2>3 DEF BookingInv, IInv
<1>3. Typed'
  BY <1>1 DEF AttInv, Typed
<1>4. GroupsKept' /\ AllNoticed' /\ Attended' /\ BatchTruthful'
  <2>1. /\ \A g \in Groups : Attending(g)' = Attending(g)
        /\ \A d \in Cohorts : RecordsOf(d)' = RecordsOf(d)
    BY <1>1 DEF Attending, RecordsOf
  <2>2. GroupsKept' /\ AllNoticed'
    BY <1>1, <2>1 DEF AttInv, GroupsKept, AllNoticed, Noticed
  <2>3. Attended'
    BY <1>1, <2>1 DEF AttInv, Attended, Noticed
  <2>4. BatchTruthful'
    BY <1>1 DEF AttInv, BatchTruthful
  <2>. QED
    BY <2>2, <2>3, <2>4
<1>5. ArtifactsEligible'
  <2> SUFFICES ASSUME NEW cpa \in artifacts \cup {new}
               PROVE  records[<<cpa[1], cpa[2]>>].status \in {"present", "late"}
    BY <1>1 DEF ArtifactsEligible
  <2>1. CASE cpa \in artifacts
    BY <2>1 DEF AttInv, ArtifactsEligible
  <2>2. CASE cpa = new
    <3>1. cpa[1] = c /\ cpa[2] = p
      BY <2>2
    <3>. QED
      BY <1>1, <3>1
  <2>. QED
    BY <2>1, <2>2
<1>6. EventsCounted'
  <2> SUFFICES ASSUME NEW d \in Cohorts PROVE Counted(d)'
    BY DEF EventsCounted
  <2>1. /\ Counted(d) /\ RecordsOf(d)' = RecordsOf(d)
        /\ \A e \in LifeEvents : audit'[<<e, d>>] = audit[<<e, d>>]
        /\ audit'[<<"attendance.record", d>>] = audit[<<"attendance.record", d>>]
    BY <1>1, AttendanceEvents DEF AttInv, BookingInv, EventsCounted, RecordsOf
  <2>2. LifeCorrect(d, First(d))'
    <3>1. PICK n \in Nat : n = First(d)
      BY DEF First
    <3>2. LifeCorrect(d, n)'
      BY <1>1, <2>1, <3>1, KeptLife DEF Counted, LifeKept
    <3>3. First(d)' = n
      BY <2>1, <3>1 DEF First
    <3>. QED
      BY <3>2, <3>3
  <2>3. CASE d # c
    <3>1. ArtifactsOf(d)' = ArtifactsOf(d)
      BY <1>1, <2>3 DEF ArtifactsOf
    <3>2. audit'[<<"artifact.archive", d>>] = audit[<<"artifact.archive", d>>]
      BY <1>1, <2>3, AttendanceEvents DEF AttInv, BookingInv
    <3>. QED
      BY <2>1, <2>2, <3>1, <3>2 DEF Counted
  <2>4. CASE d = c
    <3>1. /\ ArtifactsOf(c)' = ArtifactsOf(c) \cup {new}
          /\ new \notin ArtifactsOf(c)
      BY <1>1 DEF ArtifactsOf
    <3>2. /\ IsFiniteSet(ArtifactsOf(c))
          /\ audit[<<"artifact.archive", c>>] = Cardinality(ArtifactsOf(c))
      BY <2>1, <2>4 DEF Counted
    <3>3. /\ IsFiniteSet(ArtifactsOf(c) \cup {new})
          /\ Cardinality(ArtifactsOf(c) \cup {new}) = Cardinality(ArtifactsOf(c)) + 1
      BY <3>1, <3>2, FS_AddElement
    <3>4. audit'[<<"artifact.archive", c>>] = audit[<<"artifact.archive", c>>] + 1
      BY <1>1, AttendanceEvents DEF AttInv, BookingInv
    <3>5. /\ IsFiniteSet(ArtifactsOf(c)')
          /\ audit'[<<"artifact.archive", c>>] = Cardinality(ArtifactsOf(c)')
      BY <3>1, <3>2, <3>3, <3>4
    <3>. QED
      BY <2>1, <2>2, <2>4, <3>5 DEF Counted
  <2>. QED
    BY <2>3, <2>4
<1>. QED
  BY <1>2, <1>3, <1>4, <1>5, <1>6 DEF AttInv

\* What booking does to a cohort never takes it back to or past a record.
BookingKept(d) ==
  /\ cohorts'[d].status = "active" => cohorts[d].status = "active"
  /\ cohorts[d].status \in {"active", "cancelled"} =>
        cohorts'[d].status \in {"active", "cancelled"}
  /\ Noticed(d) => Noticed(d)'
  /\ \A a \in {"attendance.record", "artifact.archive"} :
        audit'[<<a, d>>] = audit[<<a, d>>]

LEMMA OtherEvents ==
  ASSUME IInv, NEW action \in AuditActions \ {"attendance.record", "artifact.archive"},
         NEW c \in Cohorts, Record(action, c)
  PROVE  \A a \in {"attendance.record", "artifact.archive"}, d \in Cohorts :
            audit'[<<a, d>>] = audit[<<a, d>>]
<1>1. {"attendance.record", "artifact.archive"} \subseteq AuditActions
  BY DEF AuditActions
<1>. QED
  BY <1>1, Recorded DEF IInv

LEMMA BookingKeeps ==
  ASSUME IInv, OutboxMatches, [Next]_vars, NEW d \in Cohorts
  PROVE  BookingKept(d)
<1>1. ASSUME NEW u \in Users, NEW c \in Cohorts, NEW size \in Sizes,
             NEW s \in ScheduleTimes, NEW e \in ScheduleTimes,
             Apply(u, c, size, s, e)
      PROVE  BookingKept(d)
  <2>1. Record("application.submit", c)
    BY <1>1 DEF Apply
  <2>2. \A a \in {"attendance.record", "artifact.archive"} :
           audit'[<<a, d>>] = audit[<<a, d>>]
    BY <2>1, OtherEvents DEF AuditActions
  <2>3. /\ cohorts[c].status = "none" /\ cohorts'[c].status = "applied"
        /\ d # c => cohorts'[d] = cohorts[d]
        /\ jobs' = jobs
    BY <1>1, ApplyEffect DEF NoRow
  <2>. QED
    BY <2>2, <2>3 DEF BookingKept, Noticed
<1>2. ASSUME NEW u \in Users, NEW c \in Cohorts, NEW approve \in BOOLEAN,
             DecideApplication(u, c, approve)
      PROVE  BookingKept(d)
  <2>1. Record("application.decide", c)
    BY <1>2 DEF DecideApplication
  <2>2. \A a \in {"attendance.record", "artifact.archive"} :
           audit'[<<a, d>>] = audit[<<a, d>>]
    BY <2>1, OtherEvents DEF AuditActions
  <2>3. /\ cohorts[c].status \in {"applied", "cancelled"}
        /\ approve => cohorts[c].status = "applied"
        /\ cohorts'[c].status = CohortAfter(approve)
        /\ d # c => cohorts'[d] = cohorts[d]
        /\ jobs' = jobs
    BY <1>2, DecideEffect DEF StatusWritten
  <2>. QED
    BY <2>2, <2>3 DEF BookingKept, Noticed, CohortAfter
<1>3. ASSUME NEW u \in Users, NEW c \in Cohorts, Confirm(u, c)
      PROVE  BookingKept(d)
  <2>1. Record("cohort.confirm", c) /\ CreateJob("confirmation.notice", c)
    BY <1>3 DEF Confirm
  <2>2. \A a \in {"attendance.record", "artifact.archive"} :
           audit'[<<a, d>>] = audit[<<a, d>>]
    BY <2>1, OtherEvents DEF AuditActions
  <2>3. /\ cohorts[c].status = "planned" /\ cohorts'[c].status = "confirmed"
        /\ d # c => cohorts'[d] = cohorts[d]
    BY <1>3, ConfirmEffect DEF StatusWritten
  <2>4. jobs[<<"confirmation.notice", c>>] = 0
    <3>1. JobsMatch(c)
      BY OutboxByStatus
    <3>. QED
      BY <2>3, <3>1 DEF JobsMatch, Delivered
  <2>5. d # c => jobs'[<<"confirmation.notice", d>>] = jobs[<<"confirmation.notice", d>>]
    BY <2>1, JobCreated DEF JobKinds, IInv
  <2>. QED
    BY <2>2, <2>3, <2>4, <2>5 DEF BookingKept, Noticed
<1>4. ASSUME NEW u \in Users, NEW c \in Cohorts,
             NEW gross \in GrossAmounts, Cancel(u, c, gross)
      PROVE  BookingKept(d)
  <2>1. Record("cohort.cancel", c) /\ CreateJob("settlement.process", c)
    BY <1>4 DEF Cancel
  <2>2. \A a \in {"attendance.record", "artifact.archive"} :
           audit'[<<a, d>>] = audit[<<a, d>>]
    BY <2>1, OtherEvents DEF AuditActions
  <2>3. /\ cohorts'[c].status = "cancelled"
        /\ d # c => cohorts'[d] = cohorts[d]
    BY <1>4, CancelEffect DEF StatusWritten
  <2>4. jobs'[<<"confirmation.notice", d>>] = jobs[<<"confirmation.notice", d>>]
    BY <2>1, JobCreated DEF JobKinds, IInv
  <2>. QED
    BY <2>2, <2>3, <2>4 DEF BookingKept, Noticed
<1>5. ASSUME NEW u \in Users, NEW c \in Cohorts, NEW i \in Items,
             NEW v \in Venues, NEW m \in Mentors, NEW s \in ScheduleTimes,
             NEW e \in ScheduleTimes, AddPlanItem(u, c, i, v, m, s, e)
      PROVE  BookingKept(d)
  <2>1. Record("plan.item.add", c) /\ cohorts' = cohorts /\ jobs' = jobs
    BY <1>5 DEF AddPlanItem
  <2>2. \A a \in {"attendance.record", "artifact.archive"} :
           audit'[<<a, d>>] = audit[<<a, d>>]
    BY <2>1, OtherEvents DEF AuditActions
  <2>. QED
    BY <2>1, <2>2 DEF BookingKept, Noticed
<1>6. ASSUME NEW u \in Users, NEW c \in Cohorts, NEW i \in Items,
             NEW v \in Venues, Reroute(u, c, i, v)
      PROVE  BookingKept(d)
  <2>1. Record("route.change", c) /\ cohorts' = cohorts /\ jobs' = jobs
    BY <1>6 DEF Reroute
  <2>2. \A a \in {"attendance.record", "artifact.archive"} :
           audit'[<<a, d>>] = audit[<<a, d>>]
    BY <2>1, OtherEvents DEF AuditActions
  <2>. QED
    BY <2>1, <2>2 DEF BookingKept, Noticed
<1>7. ASSUME UNCHANGED <<cohorts, jobs, audit>>
      PROVE  BookingKept(d)
  BY <1>7 DEF BookingKept, Noticed
<1>8. ASSUME NEW u \in Users, NEW c \in Cohorts, AcknowledgeRisk(u, c)
      PROVE  BookingKept(d)
  BY <1>7, <1>8 DEF AcknowledgeRisk
<1>9. CASE Tick \/ UNCHANGED vars
  BY <1>7, <1>9 DEF Tick, vars
<1>. QED
  BY <1>1, <1>2, <1>3, <1>4, <1>5, <1>6, <1>8, <1>9 DEF Next, BookingStep


LEMMA BookingKeepsAll ==
  ASSUME AttInv, [Next]_vars, UNCHANGED avars
  PROVE  AttInv'
<1>1. /\ UNCHANGED groups /\ UNCHANGED records /\ UNCHANGED artifacts
      /\ UNCHANGED creating /\ UNCHANGED batch
  BY DEF avars
<1>2. BookingInv'
  BY NextIInv, NextSettledStage, NextOutbox DEF AttInv, BookingInv
<1>3. \A d \in Cohorts : BookingKept(d)
  BY BookingKeeps DEF AttInv, BookingInv
<1>4. /\ \A g \in Groups : Attending(g)' = Attending(g)
      /\ \A d \in Cohorts : /\ RecordsOf(d)' = RecordsOf(d)
                            /\ ArtifactsOf(d)' = ArtifactsOf(d)
  BY <1>1 DEF Attending, RecordsOf, ArtifactsOf
<1>5. Typed'
  BY <1>1 DEF AttInv, Typed
<1>6. GroupsKept'
  BY <1>1, <1>4 DEF AttInv, GroupsKept
<1>7. Attended'
  BY <1>3, <1>4 DEF AttInv, Attended, BookingKept
<1>8. AllNoticed'
  <2>1. /\ \A r \in creating : r.cohort \in Cohorts
        /\ \A g \in Groups : groups[g] # NoRow => groups[g].cohort \in Cohorts
    BY DEF AttInv, Typed, GroupRequest
  <2>2. \A d \in Cohorts : Noticed(d) => Noticed(d)'
    BY <1>3 DEF BookingKept
  <2>. QED
    BY <1>1, <2>1, <2>2 DEF AttInv, AllNoticed, Noticed
<1>9. ArtifactsEligible' /\ BatchTruthful'
  BY <1>1 DEF AttInv, ArtifactsEligible, BatchTruthful
<1>10. EventsCounted'
  <2> SUFFICES ASSUME NEW d \in Cohorts PROVE Counted(d)'
    BY DEF EventsCounted
  <2>1. Counted(d)
    BY DEF AttInv, EventsCounted
  <2>2. PICK n \in Nat : n = First(d)
    BY DEF First
  <2>3. LifeCorrect(d, n)'
    BY <2>1, <2>2, NextLife DEF AttInv, BookingInv, Counted
  <2>4. First(d)' = n
    BY <1>4, <2>2 DEF First
  <2>. QED
    BY <1>3, <1>4, <2>1, <2>3, <2>4 DEF Counted, BookingKept
<1>. QED
  BY <1>2, <1>5, <1>6, <1>7, <1>8, <1>9, <1>10 DEF AttInv

LEMMA NextAttInv == AttInv /\ [AttendanceNext]_allvars => AttInv'
<1> SUFFICES ASSUME AttInv, [AttendanceNext]_allvars PROVE AttInv'
  OBVIOUS
<1>1. CASE [Next]_vars /\ UNCHANGED avars
  BY <1>1, BookingKeepsAll
<1>2. ASSUME NEW u \in Users, NEW c \in Cohorts, AttendanceStep(u, c)
      PROVE  AttInv'
  BY <1>2, GroupSteps, RecordAttendanceKeeps, BatchSteps, ArchiveKeeps
     DEF AttendanceStep
<1>3. ASSUME NEW r \in creating,
             AbandonGroup(r) \/ \E g \in Groups : InsertGroup(r, g)
      PROVE  AttInv'
  BY <1>3, GroupSteps
<1>. QED
  BY <1>1, <1>2, <1>3, BatchItemKeeps, BatchSteps DEF AttendanceNext, allvars

\* The invariant holds always.
THEOREM AttendanceInvariant == AttendanceSpec => []AttInv
BY InitAttInv, NextAttInv, PTL DEF AttendanceSpec

\* Every variable of attendance and of booking keeps its type.
THEOREM AttendanceTypes == AttendanceSpec => []AttendanceTypeOK
<1>1. AttInv => AttendanceTypeOK
  BY DEF AttInv, BookingInv, IInv, Typed, Recordings, Batches, AttendanceTypeOK
<1>. QED
  BY <1>1, AttendanceInvariant, PTL

\* The present and late participants of a group fit it, and are its cohort's
\* (CountGroupAttendance, GroupFits).
THEOREM GroupsFit == AttendanceSpec => []GroupCapacity
<1>1. AttInv => GroupCapacity
  <2> SUFFICES ASSUME AttInv PROVE GroupCapacity
    OBVIOUS
  <2>1. DOMAIN records = Cohorts \X Participants
    BY DEF AttInv, Typed, Recordings
  <2>2. \A g \in Groups :
           Attending(g) = {cp \in DOMAIN records :
                             /\ records[cp].status \in {"present", "late"}
                             /\ records[cp].group = g}
    BY <2>1 DEF Attending, Consuming
  <2>3. \A g \in Groups : groups[g] # NoRow =>
           Cardinality({cp \in DOMAIN records :
                          /\ records[cp].status \in {"present", "late"}
                          /\ records[cp].group = g}) <= groups[g].capacity
    BY <2>2 DEF AttInv, GroupsKept
  <2>4. ASSUME NEW c \in Cohorts, NEW p \in RecordsOf(c)
        PROVE  groups[records[<<c, p>>].group].cohort = c
    BY DEF AttInv, GroupsKept, RecordsOf
  <2>. QED
    BY <2>3, <2>4 DEF GroupCapacity
<1>. QED
  BY <1>1, AttendanceInvariant, PTL

\* An active cohort has a record, one with a record is active or cancelled,
\* and records and groups are those of cohorts that were confirmed (Activate,
\* CheckGroup, RecordAttendance).
THEOREM ActiveIsAttended == AttendanceSpec => []ActiveMeansAttended
<1>1. AttInv => ActiveMeansAttended
  BY DEF AttInv, Attended, AllNoticed, Noticed, ActiveMeansAttended
<1>. QED
  BY <1>1, AttendanceInvariant, PTL

\* An artifact belongs to a participant recorded as present or late
\* (ArchiveArtifact).
THEOREM ArtifactsAreEligible == AttendanceSpec => []ArtifactsEligible
<1>1. AttInv => ArtifactsEligible
  BY DEF AttInv
<1>. QED
  BY <1>1, AttendanceInvariant, PTL

\* What a batch reports as recorded is recorded as it was sent (BatchItem).
THEOREM BatchesAreTruthful == AttendanceSpec => []BatchTruthful
<1>1. AttInv => BatchTruthful
  BY DEF AttInv
<1>. QED
  BY <1>1, AttendanceInvariant, PTL

\* Each record and each artifact has its event, and the first record alone
\* is a version of its cohort (Insert, ArchiveArtifact).
THEOREM AttendanceIsAudited == AttendanceSpec => []AttendanceAudited
<1>1. AttInv => AttendanceAudited
  <2> SUFFICES ASSUME AttInv, NEW c \in Cohorts
               PROVE  /\ audit[<<"attendance.record", c>>] = Cardinality(RecordsOf(c))
                      /\ audit[<<"artifact.archive", c>>] =
                            Cardinality({cpa \in artifacts : cpa[1] = c})
                      /\ cohorts[c] # NoRow =>
                            cohorts[c].version =
                               audit[<<"application.submit", c>>]
                                 + audit[<<"application.decide", c>>]
                                 + audit[<<"cohort.confirm", c>>]
                                 + audit[<<"cohort.cancel", c>>]
                                 + (IF RecordsOf(c) = {} THEN 0 ELSE 1)
    BY DEF AttendanceAudited
  <2>1. Counted(c)
    BY DEF AttInv, EventsCounted
  <2>2. VersionRecorded(c, First(c))
    BY <2>1 DEF Counted, LifeCorrect
  <2>. QED
    BY <2>1, <2>2 DEF Counted, ArtifactsOf, VersionRecorded, First
<1>. QED
  BY <1>1, AttendanceInvariant, PTL

-----------------------------------------------------------------------------
(* What booking promises stands while attendance runs beside it: attendance *)
(* writes no table of the plan, and of a cohort only the first record's     *)
(* move from confirmed to active.                                           *)

BeyondBooking ==
  /\ UNCHANGED <<now, applications, planItems, holds, assignments, acks,
                 reroutes, settlements, jobs>>
  /\ cohorts' = cohorts \/ \E c \in Cohorts : Promoted(c)

LEMMA StepsOfAttendance ==
  ASSUME AttInv, [AttendanceNext]_allvars
  PROVE  [Next]_vars \/ BeyondBooking
<1>1. ASSUME NEW c \in Cohorts, NEW in \in Input,
             Recordable(c, in), Insert(c, in)
      PROVE  BeyondBooking
  BY <1>1, InsertEffect DEF AttInv, BeyondBooking
<1>2. ASSUME BatchItem
      PROVE  BeyondBooking
  <2>1. PICK c \in Cohorts, in \in Input : c = batch.cohort /\ in = NextInput
    BY <1>2, OutcomeAdds DEF AttInv, BatchItem
  <2>. QED
    BY <1>1, <1>2, <2>1 DEF BatchItem
<1>3. ASSUME NEW u \in Users, NEW c \in Cohorts, AttendanceStep(u, c)
      PROVE  UNCHANGED vars \/ BeyondBooking
  <2>1. ASSUME NEW in \in Input, RecordAttendance(u, c, in)
        PROVE  BeyondBooking
    BY <1>1, <2>1 DEF RecordAttendance
  <2>2. ASSUME NEW p \in Participants, NEW a \in Artifacts,
               ArchiveArtifact(u, c, p, a)
        PROVE  BeyondBooking
    BY <2>2 DEF ArchiveArtifact, BeyondBooking, plan
  <2>. QED
    BY <1>3, <2>1, <2>2 DEF AttendanceStep, CheckGroup, StartBatch
<1>. QED
  BY <1>2, <1>3 DEF AttendanceNext, allvars, AbandonGroup, InsertGroup,
     BatchItemFails, EndBatch

Promises ==
  /\ AckStage /\ DeliveredStage
  /\ ReroutedItems /\ RerouteTrail
  /\ SettledAsRated /\ Sized

\* The row of a cohort, as BeyondBooking leaves it.
LEMMA BeyondRow ==
  ASSUME BeyondBooking, NEW d \in Cohorts
  PROVE  \/ cohorts'[d] = cohorts[d]
         \/ /\ cohorts[d].status \in Delivered /\ cohorts'[d].status = "active"
            /\ cohorts[d] # NoRow /\ cohorts'[d] # NoRow
            /\ cohorts'[d].owner = cohorts[d].owner
            /\ cohorts'[d].starts = cohorts[d].starts
            /\ cohorts'[d].size = cohorts[d].size
BY DEF BeyondBooking, Promoted, StatusWritten, Delivered

LEMMA BeyondKeeps ==
  ASSUME IInv, Promises, BeyondBooking
  PROVE  Promises'
<1>0. /\ planItems' = planItems /\ holds' = holds /\ acks' = acks
      /\ reroutes' = reroutes /\ settlements' = settlements
  BY DEF BeyondBooking
<1>1. AckStage'
  BY <1>0, BeyondRow DEF Promises, AckStage
<1>2. DeliveredStage'
  BY <1>0, BeyondRow DEF Promises, DeliveredStage
<1>3. ReroutedItems' /\ RerouteTrail'
  BY <1>0 DEF Promises, ReroutedItems, RerouteTrail
<1>4. SettledAsRated'
  BY <1>0, BeyondRow DEF Promises, SettledAsRated
<1>5. Sized'
  BY <1>0, BeyondRow DEF Promises, Sized
<1>. QED
  BY <1>1, <1>2, <1>3, <1>4, <1>5 DEF Promises

LEMMA NextPromises ==
  ASSUME AttInv, Promises, [AttendanceNext]_allvars
  PROVE  Promises'
<1>1. CASE BeyondBooking
  BY <1>1, BeyondKeeps DEF AttInv, BookingInv
<1>2. CASE [Next]_vars
  BY <1>2, NextAckStage, NextDeliveredStage, NextReroutedItems, NextTrail,
     NextSettledAsRated, NextSized DEF AttInv, BookingInv, Promises
<1>. QED
  BY <1>1, <1>2, StepsOfAttendance

LEMMA InitPromises == AttendanceInit => Promises
BY InitConfirmed, InitTrail, InitSettledAsRated, InitLedgered
   DEF AttendanceInit, Promises

LEMMA PromisesAlways == AttendanceSpec => [](AttInv /\ Promises)
<1>1. AttInv /\ Promises /\ [AttendanceNext]_allvars => Promises'
  BY NextPromises
<1>. QED
  BY <1>1, InitPromises, AttendanceInvariant, PTL DEF AttendanceSpec

\* What confirmed and cancelled mean, what the outbox tells, where reroutes
\* lead and what a settlement divides is as without attendance, for active
\* cohorts too (Activate).
THEOREM BookingStands ==
  AttendanceSpec => [](/\ ConfirmedComplete /\ ConfirmedAcknowledged
                       /\ CancelledReleased /\ OutboxMatches
                       /\ RerouteTrail /\ SettlementFair)
<1>1. AttInv /\ Promises =>
        /\ ConfirmedComplete /\ ConfirmedAcknowledged
        /\ CancelledReleased /\ OutboxMatches
        /\ RerouteTrail /\ SettlementFair
  BY CompleteByStage, AcknowledgedByStage, ReleasedByStage, RatedIsFair
     DEF AttInv, BookingInv, Promises
<1>. QED
  BY <1>1, PromisesAlways, PTL

\* The status of a cohort moves along the lifecycle table: attendance takes
\* the step from confirmed to active and no other (Activate).
THEOREM LifecycleStands == AttendanceSpec => LifecycleSteps
<1>1. ASSUME AttInv, BeyondBooking, NEW c \in Cohorts
      PROVE  LifecycleStep(c)
  <2>1. \/ cohorts'[c] = cohorts[c]
        \/ cohorts[c].status = "confirmed" /\ cohorts'[c].status = "active"
    BY <1>1 DEF BeyondBooking, Promoted, StatusWritten
  <2>. QED
    BY <2>1 DEF LifecycleStep, cohortTransitions
<1>2. AttInv /\ [AttendanceNext]_allvars =>
        [\A c \in Cohorts : cohorts[c] # NoRow /\ cohorts'[c] # cohorts[c] =>
          \/ cohorts'[c].status \in cohortTransitions[cohorts[c].status]
          \/ /\ cohorts[c].status = "cancelled" /\ cohorts'[c].status = "cancelled"
             /\ applications[c] = "submitted" /\ applications'[c] = "rejected"]_vars
  BY <1>1, NextLifecycle, StepsOfAttendance DEF LifecycleStep, AttInv, BookingInv
<1>. QED
  BY <1>2, AttendanceInvariant, PTL DEF AttendanceSpec, LifecycleSteps

\* While requests are in whole seconds, booking and attendance together
\* implement the ledger of seats, as booking does alone.
THEOREM AttendanceIsLedger ==
  ASSUME WholeSeconds
  PROVE  AttendanceSpec => ImplementsLedger
<1>1. AttInv /\ Promises => IInv /\ LedgerTyped
  BY BookedType DEF AttInv, BookingInv, Promises
<1>2. ASSUME AttInv, IInv, IInv', LedgerTyped', [AttendanceNext]_allvars
      PROVE  Ledger!Next
  <2>1. CASE BeyondBooking
    <3>1. UNCHANGED <<holds, assignments>>
      BY <2>1 DEF BeyondBooking
    <3>. QED
      BY <1>2, <3>1, StillLedgered, LedgerStep
  <2>2. CASE [Next]_vars
    BY <1>2, <2>2, NextLedgered, LedgerStep
  <2>. QED
    BY <1>2, <2>1, <2>2, StepsOfAttendance
<1>3. AttInv /\ IInv /\ IInv' /\ LedgerTyped' /\ [AttendanceNext]_allvars
        => Ledger!Next
  BY <1>2
<1>4. AttendanceInit => Ledger!Init
  BY InitLedgered DEF AttendanceInit
<1>. QED
  BY <1>1, <1>3, <1>4, PromisesAlways, PTL
     DEF AttendanceSpec, ImplementsLedger, Ledger!Spec

\* While requests are in whole seconds, no venue is overfull and no mentor
\* in two places, with attendance running beside the bookings.
THEOREM RoomStands ==
  ASSUME WholeSeconds
  PROVE  AttendanceSpec => [](VenueCapacity /\ MentorExclusive)
<1>1. AttInv /\ VenueCapacity /\ MentorExclusive /\ [AttendanceNext]_allvars
        => VenueCapacity' /\ MentorExclusive'
  <2> SUFFICES ASSUME AttInv, VenueCapacity, MentorExclusive,
                      [AttendanceNext]_allvars
               PROVE  VenueCapacity' /\ MentorExclusive'
    OBVIOUS
  <2>1. CASE BeyondBooking
    <3>1. HoldsKept /\ AssignmentsKept
      BY <2>1 DEF BeyondBooking, HoldsKept, AssignmentsKept
    <3>. QED
      BY <3>1, KeptCapacity, KeptExclusive DEF AttInv, BookingInv, IInv
  <2>2. CASE [Next]_vars
    BY <2>2, NextCapacity, NextExclusive DEF AttInv, BookingInv
  <2>. QED
    BY <2>1, <2>2, StepsOfAttendance
<1>2. AttendanceInit => VenueCapacity /\ MentorExclusive
  BY InitCapacity, InitExclusive DEF AttendanceInit
<1>. QED
  BY <1>1, <1>2, AttendanceInvariant, PTL DEF AttendanceSpec
===============================================================================
