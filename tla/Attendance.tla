------------------------------ MODULE Attendance ------------------------------
(***************************************************************************)
(* Attendance groups, attendance (single and in batches) and artifacts:    *)
(* internal/service/{attendance,attendance_batch,artifacts}.go, composed   *)
(* with CohortBooking: the first record moves a confirmed cohort to        *)
(* active, and a cancellation may come between any two steps.              *)
(*                                                                         *)
(* RecordAttendance and ArchiveArtifact are transactions, hence one action *)
(* each.  CreateAttendanceGroup reads the cohort and inserts the group     *)
(* with no transaction around the two, so it is two actions.  A batch is   *)
(* one transaction for each of its items.                                  *)
(***************************************************************************)
EXTENDS CohortBooking

CONSTANTS
    Groups, GroupNames, GroupCapacities,
    Participants,
    Artifacts,          \* kind and checksum of an artifact
    BatchInputs,        \* batches that are sent: sequences of Input
    MaxCreating         \* bound: group requests between read and insert

Input == [group : Groups, participant : Participants,
          status : {"present", "late", "absent"}]

ASSUME AttendanceAssumption ==
    /\ BatchInputs \subseteq Seq(Input) \ {<<>>}
    /\ MaxCreating \in Nat

VARIABLES
    groups,      \* table attendance_groups
    records,     \* table attendance_records, UNIQUE(cohort, participant)
    artifacts,   \* table artifacts: <<cohort, participant, artifact>>
    creating,    \* CreateAttendanceGroup calls that passed their checks
    batch        \* the batch being served, with the outcomes so far

avars == <<groups, records, artifacts, creating, batch>>
allvars == <<vars, avars>>

NoBatch == [cohort |-> "none", inputs |-> <<>>, outcomes |-> <<>>]

GroupRequest == [cohort : Cohorts, name : GroupNames, capacity : Nat]
AttendanceRow == [group : Groups, status : {"present", "late", "absent"}]

AttendanceInit ==
    /\ Init
    /\ groups = [g \in Groups |-> NoRow]
    /\ records = [cp \in Cohorts \X Participants |-> NoRow]
    /\ artifacts = {}
    /\ creating = {}
    /\ batch = NoBatch

-----------------------------------------------------------------------------
BugAttendable(c) == cohorts[c].status \notin {"none", "cancelled"}
Attendable(c) == cohorts[c].status \in {"confirmed", "active"}

CheckGroup(u, c, name, capacity) ==
    /\ Require(u, {"operator", "safety"})
    /\ Attendable(c)
    /\ capacity \in 1 .. cohorts[c].size
    /\ Cardinality(creating) < MaxCreating
    /\ creating' = creating \cup {[cohort |-> c, name |-> name,
                                   capacity |-> capacity]}
    /\ UNCHANGED <<vars, groups, records, artifacts, batch>>

InsertGroup(r, g) ==
    /\ groups[g] = NoRow
    /\ \A other \in Groups : groups[other] # NoRow =>
          <<groups[other].cohort, groups[other].name>> # <<r.cohort, r.name>>
    /\ groups' = [groups EXCEPT ![g] = r]
    /\ creating' = creating \ {r}
    /\ UNCHANGED <<vars, records, artifacts, batch>>

\* UNIQUE(cohort_id, name), a busy database, or the client gone
AbandonGroup(r) ==
    /\ creating' = creating \ {r}
    /\ UNCHANGED <<vars, groups, records, artifacts, batch>>

Consuming == {"present", "late"}
BugCountGroupAttendance(g) ==
    Cardinality({cp \in DOMAIN records : records[cp].status = "present"
                                         /\ records[cp].group = g})
CountGroupAttendance(g) ==
    Cardinality({cp \in DOMAIN records : records[cp].status \in Consuming
                                         /\ records[cp].group = g})

\* The checks of the transaction, and what it writes.
GroupFits(c, g) == groups[g] # NoRow /\ groups[g].cohort = c

BugActivateAs(c) == cohorts' = SetStatus(c, "present")
BugActivateAgain(c) == cohorts' = SetStatus(c, "active")
Activate(c) ==
    cohorts' = IF cohorts[c].status = "confirmed" THEN SetStatus(c, "active")
                                                  ELSE cohorts

BugUnrecorded(c, p) == TRUE
Unrecorded(c, p) == records[<<c, p>>] = NoRow

Recordable(c, in) ==
    /\ Attendable(c)
    /\ GroupFits(c, in.group)
    /\ in.status # "absent" =>
          CountGroupAttendance(in.group) < groups[in.group].capacity
    /\ Unrecorded(c, in.participant)

Insert(c, in) ==
    /\ records' = [records EXCEPT ![<<c, in.participant>>] =
                      [group |-> in.group, status |-> in.status]]
    /\ Activate(c)
    /\ Record("attendance.record", c)
    /\ UNCHANGED <<now, applications, plan, acks, reroutes, settlements, jobs>>

MayRecord(u) == Require(u, {"leader", "safety", "mentor"})

RecordAttendance(u, c, in) ==
    /\ MayRecord(u)
    /\ Recordable(c, in)
    /\ Insert(c, in)
    /\ UNCHANGED <<groups, artifacts, creating, batch>>

-----------------------------------------------------------------------------
StartBatch(u, c, inputs) ==
    /\ MayRecord(u)
    /\ batch.cohort = "none"
    /\ cohorts[c] # NoRow
    /\ batch' = [cohort |-> c, inputs |-> inputs, outcomes |-> <<>>]
    /\ UNCHANGED <<vars, groups, records, artifacts, creating>>

Outcome(result) == [batch EXCEPT !.outcomes = Append(@, result)]

Pending == batch.cohort # "none" /\ Len(batch.outcomes) < Len(batch.inputs)
NextInput == batch.inputs[Len(batch.outcomes) + 1]

BatchItem ==
    /\ Pending
    /\ Recordable(batch.cohort, NextInput)
    /\ Insert(batch.cohort, NextInput)
    /\ batch' = Outcome("recorded")
    /\ UNCHANGED <<groups, artifacts, creating>>

\* a check, a constraint or a busy database refused the item
BatchItemFails ==
    /\ Pending
    /\ batch' = Outcome("failed")
    /\ UNCHANGED <<vars, groups, records, artifacts, creating>>

\* The answer is sent, or the client is gone and the outcomes with it.
EndBatch ==
    /\ batch.cohort # "none"
    /\ batch' = NoBatch
    /\ UNCHANGED <<vars, groups, records, artifacts, creating>>

BugEligible(c, p) == records[<<c, p>>] # NoRow
Eligible(c, p) == records[<<c, p>>].status \in Consuming

ArchiveArtifact(u, c, p, a) ==
    /\ Require(u, {"mentor", "operator"})
    /\ Eligible(c, p)
    /\ <<c, p, a>> \notin artifacts
    /\ artifacts' = artifacts \cup {<<c, p, a>>}
    /\ Record("artifact.archive", c)
    /\ UNCHANGED <<now, cohorts, applications, plan, acks, reroutes, settlements,
                   jobs, groups, records, creating, batch>>

-----------------------------------------------------------------------------
AttendanceStep(u, c) ==
    \/ \E name \in GroupNames, n \in GroupCapacities : CheckGroup(u, c, name, n)
    \/ \E in \in Input : RecordAttendance(u, c, in)
    \/ \E inputs \in BatchInputs : StartBatch(u, c, inputs)
    \/ \E p \in Participants, a \in Artifacts : ArchiveArtifact(u, c, p, a)

AttendanceNext ==
    \/ Next /\ UNCHANGED avars
    \/ \E u \in Users, c \in Cohorts : AttendanceStep(u, c)
    \/ \E r \in creating : AbandonGroup(r) \/ \E g \in Groups : InsertGroup(r, g)
    \/ BatchItem
    \/ BatchItemFails
    \/ EndBatch

AttendanceSpec == AttendanceInit /\ [][AttendanceNext]_allvars

-----------------------------------------------------------------------------
(* Properties.                                                             *)

AttendanceTypeOK ==
    /\ TypeOK
    /\ groups \in [Groups -> GroupRequest \cup {NoRow}]
    /\ records \in [Cohorts \X Participants -> AttendanceRow \cup {NoRow}]
    /\ artifacts \subseteq Cohorts \X Participants \X Artifacts
    /\ creating \subseteq GroupRequest
    /\ batch.cohort \in Cohorts \cup {"none"}
    /\ batch.inputs \in BatchInputs \cup {<<>>}
    /\ Len(batch.outcomes) <= Len(batch.inputs)

RecordsOf(c) == {p \in Participants : records[<<c, p>>] # NoRow}

\* However single records and batches of both kinds interleave, the present
\* and late participants of a group never outnumber its capacity, and they
\* are participants of the group's own cohort.
GroupCapacity ==
    /\ \A g \in Groups : groups[g] # NoRow =>
          Cardinality({cp \in DOMAIN records :
                         /\ records[cp].status \in {"present", "late"}
                         /\ records[cp].group = g}) <= groups[g].capacity
    /\ \A c \in Cohorts : \A p \in RecordsOf(c) :
          groups[records[<<c, p>>].group].cohort = c

\* Attendance is what makes a cohort active: an active cohort has a record,
\* and no cohort with a record is back at, or still in, an earlier stage.
\* Groups and records exist only for a cohort that was confirmed once, as its
\* notice in the outbox tells, whatever has become of it since.
ActiveMeansAttended ==
    \A c \in Cohorts :
        LET grouped == \E g \in Groups : groups[g] # NoRow /\ groups[g].cohort = c
        IN  /\ cohorts[c].status = "active" => RecordsOf(c) # {}
            /\ RecordsOf(c) # {} => cohorts[c].status \in {"active", "cancelled"}
            /\ RecordsOf(c) # {} \/ grouped => jobs[<<"confirmation.notice", c>>] = 1

\* An artifact belongs to a participant recorded present or late in the same
\* cohort.
ArtifactsEligible ==
    \A cpa \in artifacts :
        records[<<cpa[1], cpa[2]>>].status \in {"present", "late"}

\* The audit trail of attendance is complete: an event for every record and
\* every artifact, and the first record alone counts as a change of the
\* cohort, however records and cancellations interleave.
AttendanceAudited ==
    \A c \in Cohorts :
        LET events(action) == audit[<<action, c>>] IN
        /\ events("attendance.record") = Cardinality(RecordsOf(c))
        /\ events("artifact.archive") =
              Cardinality({cpa \in artifacts : cpa[1] = c})
        /\ cohorts[c] # NoRow =>
              cohorts[c].version =
                 events("application.submit") + events("application.decide")
                   + events("cohort.confirm") + events("cohort.cancel")
                   + (IF RecordsOf(c) = {} THEN 0 ELSE 1)

\* The outcomes of a batch are true: an item reported as recorded has its
\* record as sent, and no two of them name one participant.
BatchTruthful ==
    \A k \in DOMAIN batch.outcomes : batch.outcomes[k] = "recorded" =>
        LET in == batch.inputs[k]
        IN  /\ records[<<batch.cohort, in.participant>>] =
                  [group |-> in.group, status |-> in.status]
            /\ \A n \in DOMAIN batch.outcomes \ {k} :
                  batch.outcomes[n] = "recorded" =>
                     batch.inputs[n].participant # in.participant

\* Said by the error of attendance.go:23, "attendance groups require a
\* confirmed cohort": a group is inserted only while its cohort is confirmed
\* or active.  The check is outside the transaction of the insert.
GroupsOfConfirmed ==
    [][\A g \in Groups : groups[g] = NoRow /\ groups'[g] # NoRow =>
          cohorts[groups'[g].cohort].status \in Delivered]_allvars
===============================================================================
