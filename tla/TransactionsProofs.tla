-------------------------- MODULE TransactionsProofs --------------------------
(***************************************************************************)
(* Proofs about the transactions, for any number of requests, connections  *)
(* and crashes: rows that are written together are there together, and     *)
(* transactions that interleave implement SerialStore, one after the       *)
(* other.  The reason is one fact: a transaction that may write has a      *)
(* snapshot nobody has committed after, so its view is what it has written *)
(* on top of the committed rows.                                           *)
(***************************************************************************)
EXTENDS Transactions, FiniteSetTheorems, TLAPS

\* The rows there can be.
Rows == UNION {TablesOf(r) \X {r} : r \in Adds \cup Applies}

Pcs == {"waiting", "reading", "writing", "half", "written", "committed", "failed"}

\* Types; the committed rows and every view are finitely many rows.
Typed ==
    /\ db \in SUBSET Rows /\ IsFiniteSet(db)
    /\ commits \in Nat
    /\ tx \in [Requests -> [pc : Pcs, seen : Int, view : SUBSET Rows]]
    /\ \A r \in Requests : /\ IsFiniteSet(tx[r].view)
                           /\ Unseen <= tx[r].seen /\ tx[r].seen <= commits

\* What the two statements of a request make of rows.
First(r, rows) ==
    IF r \in Adds THEN rows \cup {<<"venue_holds", r>>}
    ELSE IF r \in Applies THEN rows \cup {<<"cohorts", r>>}
    ELSE rows \ {<<"venue_holds", Target[r]>>}
Second(r, rows) ==
    IF r \in Adds THEN rows \cup {<<"mentor_assignments", r>>}
    ELSE IF r \in Applies THEN rows \cup {<<"applications", r>>}
    ELSE rows \ {<<"mentor_assignments", Target[r]>>}

\* The writer is the one transaction that has written.
OneWriter ==
    \A r \in Requests : writer = r <=> tx[r].pc \in {"half", "written"}

\* A snapshot is taken by the first statement.
Snapshots ==
    \A r \in Requests :
        /\ tx[r].pc \in {"waiting", "reading"} => tx[r].seen = Unseen
        /\ tx[r].pc = "writing" => (tx[r].seen = Unseen <=> r \in Applies)
        /\ tx[r].pc \in {"half", "written"} => tx[r].seen = commits

\* While nobody has committed since a transaction's snapshot, its view is the
\* committed rows with its own writes, and its checks hold of those rows.
ViewsCurrent ==
    \A r \in Requests :
        tx[r].seen = commits /\ tx[r].pc \in {"writing", "half", "written"} =>
            /\ r \notin Applies => Accepts(r, db)
            /\ tx[r].view = CASE tx[r].pc = "writing" -> db
                              [] tx[r].pc = "half" -> First(r, db)
                              [] OTHER -> Second(r, First(r, db))

TxInv == Typed /\ writer \in Requests \cup {Nobody} /\ OneWriter /\ Snapshots
         /\ ViewsCurrent /\ RowsPaired

-----------------------------------------------------------------------------
(* Rows.                                                                   *)

\* A request is of one kind, and a cancellation's target is an addition.
LEMMA Kinds ==
  ASSUME NEW r \in Requests
  PROVE  /\ r # Nobody
         /\ \/ r \in Adds /\ r \notin Applies /\ r \notin Cancels
            \/ r \in Applies /\ r \notin Adds /\ r \notin Cancels
            \/ r \in Cancels /\ r \notin Adds /\ r \notin Applies /\ Target[r] \in Adds
  BY TransactionsAssumption DEF Requests

LEMMA RowOf ==
  ASSUME NEW r \in Adds \cup Applies, NEW t \in TablesOf(r)
  PROVE  <<t, r>> \in Rows
  BY DEF Rows

\* A request's statements keep the rows' type, and what is finite.
LEMMA StatementsTyped ==
  ASSUME NEW r \in Requests, NEW rows \in SUBSET Rows, IsFiniteSet(rows)
  PROVE  /\ First(r, rows) \in SUBSET Rows /\ IsFiniteSet(First(r, rows))
         /\ Second(r, rows) \in SUBSET Rows /\ IsFiniteSet(Second(r, rows))
<1>1. \A row : IsFiniteSet(rows \cup {row}) /\ IsFiniteSet(rows \ {row})
  BY FS_AddElement, FS_RemoveElement
<1>2. r \in Adds => /\ <<"venue_holds", r>> \in Rows
                    /\ <<"mentor_assignments", r>> \in Rows
  BY RowOf DEF TablesOf
<1>3. r \in Applies => <<"cohorts", r>> \in Rows /\ <<"applications", r>> \in Rows
  BY RowOf, Kinds DEF TablesOf
<1>. QED
  BY <1>1, <1>2, <1>3 DEF First, Second

Paired(rows) ==
    \A r \in Adds \cup Applies : \A s, t \in TablesOf(r) : <<s, r>> \in rows => <<t, r>> \in rows

\* Both statements together keep rows paired: each of them alone does not.
LEMMA BothPaired ==
  ASSUME NEW r \in Requests, NEW rows, Paired(rows)
  PROVE  Paired(Second(r, First(r, rows)))
<1>. DEFINE after == Second(r, First(r, rows))
<1>. SUFFICES ASSUME NEW q \in Adds \cup Applies, NEW s \in TablesOf(q), NEW t \in TablesOf(q),
                     <<s, q>> \in after
              PROVE  <<t, q>> \in after
  BY DEF Paired
<1>1. q \in Requests /\ ~ q \in Cancels
  BY TransactionsAssumption DEF Requests
<1>2. <<s, q>> \in rows => <<t, q>> \in rows
  BY DEF Paired
<1>3. CASE r \in Adds
  <2>1. after = rows \cup {<<"venue_holds", r>>} \cup {<<"mentor_assignments", r>>}
    BY <1>3 DEF First, Second
  <2>2. CASE q = r
    BY <1>3, <2>1, <2>2 DEF TablesOf
  <2>3. CASE q # r
    BY <1>2, <2>1, <2>3
  <2>. QED
    BY <2>2, <2>3
<1>4. CASE r \in Applies
  <2>1. after = rows \cup {<<"cohorts", r>>} \cup {<<"applications", r>>} /\ ~ r \in Adds
    BY <1>4, Kinds DEF First, Second
  <2>2. CASE q = r
    BY <2>1, <2>2 DEF TablesOf
  <2>3. CASE q # r
    BY <1>2, <2>1, <2>3
  <2>. QED
    BY <2>2, <2>3
<1>5. CASE r \in Cancels
  <2>1. /\ after = (rows \ {<<"venue_holds", Target[r]>>}) \ {<<"mentor_assignments", Target[r]>>}
        /\ Target[r] \in Adds
    BY <1>5, Kinds DEF First, Second
  <2>2. CASE q = Target[r]
    BY <2>1, <2>2 DEF TablesOf
  <2>3. CASE q # Target[r]
    BY <1>2, <2>1, <2>3
  <2>. QED
    BY <2>2, <2>3
<1>. QED
  BY <1>3, <1>4, <1>5, Kinds

-----------------------------------------------------------------------------
(* The inductive invariant.                                                *)

LEMMA TxInit == Init => TxInv
<1>. SUFFICES ASSUME Init PROVE TxInv
  OBVIOUS
<1>1. \A r \in Requests : tx[r] = Fresh /\ tx[r].pc = "waiting" /\ tx[r].seen = -1 /\ tx[r].view = {}
  BY DEF Init, Fresh, Unseen
<1>2. Typed
  BY <1>1, FS_EmptySet DEF Init, Typed, Fresh, Unseen, Pcs
<1>3. OneWriter /\ Snapshots /\ ViewsCurrent
  BY <1>1, Kinds DEF Init, OneWriter, Snapshots, ViewsCurrent, Unseen
<1>. QED
  BY <1>2, <1>3 DEF Init, TxInv, RowsPaired

\* What a step says of its transaction, and that it leaves the others alone.
Others(r) == \A q \in Requests : q # r => tx'[q] = tx[q]

LEMMA BeginStep ==
  ASSUME TxInv, NEW r \in Requests, BeginTx(r)
  PROVE  TxInv'
<1>1. /\ Others(r) /\ UNCHANGED <<db, commits, writer>>
      /\ tx[r].pc = "waiting" /\ tx[r].seen = Unseen
      /\ tx'[r].pc = IF r \in Applies THEN "writing" ELSE "reading"
      /\ tx'[r].seen = tx[r].seen /\ tx'[r].view = tx[r].view
      /\ commits \in Nat
  BY DEF BeginTx, TxInv, Typed, Others, Snapshots
<1>2. Typed'
  <2>1. tx' \in [Requests -> [pc : Pcs, seen : Int, view : SUBSET Rows]]
    BY DEF BeginTx, TxInv, Typed, Pcs
  <2>. QED
    BY <1>1, <2>1 DEF TxInv, Typed, Others
<1>3. OneWriter' /\ Snapshots'
  BY <1>1 DEF TxInv, OneWriter, Snapshots, Others
<1>4. ViewsCurrent'
  BY <1>1 DEF TxInv, ViewsCurrent, Others, Unseen
<1>. QED
  BY <1>1, <1>2, <1>3, <1>4 DEF TxInv, RowsPaired

LEMMA ReadStep ==
  ASSUME TxInv, NEW r \in Requests, Read(r)
  PROVE  TxInv'
<1>1. /\ tx[r].pc = "reading" /\ tx[r].seen = Unseen /\ commits \in Nat
      /\ UNCHANGED <<db, commits, writer>>
      /\ Accepts(r, db)
      /\ tx' = [tx EXCEPT ![r] = [pc |-> "writing", seen |-> commits, view |-> db]]
  BY DEF Read, TxInv, Snapshots, Typed, Executor, Sees, SeenAt
<1>2. /\ Others(r)
      /\ tx'[r].pc = "writing" /\ tx'[r].seen = commits /\ tx'[r].view = db
  BY <1>1 DEF TxInv, Typed, Others
<1>3. ~ r \in Applies
  BY <1>1, Kinds DEF Accepts
<1>4. Typed'
  BY <1>1, <1>2 DEF TxInv, Typed, Others, Pcs, Unseen
<1>5. OneWriter' /\ Snapshots'
  BY <1>1, <1>2, <1>3 DEF TxInv, OneWriter, Snapshots, Others, Unseen
<1>6. ViewsCurrent'
  BY <1>1, <1>2 DEF TxInv, ViewsCurrent, Others
<1>. QED
  BY <1>1, <1>4, <1>5, <1>6 DEF TxInv, RowsPaired

\* A statement that writes: the transaction becomes the writer, or is it.
LEMMA WriteStep ==
  ASSUME TxInv, NEW r \in Requests, NEW pc, NEW next, NEW rows,
         Write(r, pc, next, rows),
         \/ pc = "writing" /\ next = "half" /\ rows = First(r, Sees(r))
         \/ pc = "half" /\ next = "written" /\ rows = Second(r, Sees(r))
  PROVE  TxInv'
<1>1. /\ tx[r].pc = pc /\ writer \in {Nobody, r} /\ SeenAt(r) = commits
      /\ UNCHANGED <<db, commits>> /\ writer' = r
      /\ tx' = [tx EXCEPT ![r] = [pc |-> next, seen |-> commits, view |-> rows]]
      /\ commits \in Nat
  BY DEF Write, MayWrite, TxInv, Typed
<1>2. /\ Others(r)
      /\ tx'[r].pc = next /\ tx'[r].seen = commits /\ tx'[r].view = rows
  BY <1>1 DEF TxInv, Typed, Others
<1>3. pc = "writing" => Sees(r) = db /\ (r \notin Applies => Accepts(r, db))
  <2>1. CASE tx[r].seen = Unseen
    BY <1>1, <2>1 DEF TxInv, Snapshots, Sees
  <2>2. CASE tx[r].seen # Unseen
    BY <1>1, <2>2 DEF TxInv, ViewsCurrent, Sees, SeenAt
  <2>. QED
    BY <2>1, <2>2
<1>4. pc = "half" => Sees(r) = First(r, db) /\ (r \notin Applies => Accepts(r, db))
  BY <1>1 DEF TxInv, Snapshots, ViewsCurrent, Sees, Unseen
<1>5. \/ next = "half" /\ rows = First(r, db)
      \/ next = "written" /\ rows = Second(r, First(r, db))
  BY <1>1, <1>3, <1>4
<1>6. r \notin Applies => Accepts(r, db)
  BY <1>1, <1>3, <1>4
<1>7. rows \in SUBSET Rows /\ IsFiniteSet(rows)
  <2>1. First(r, db) \in SUBSET Rows /\ IsFiniteSet(First(r, db))
    BY StatementsTyped DEF TxInv, Typed
  <2>2. Second(r, First(r, db)) \in SUBSET Rows /\ IsFiniteSet(Second(r, First(r, db)))
    BY <2>1, StatementsTyped
  <2>. QED
    BY <1>5, <2>1, <2>2
<1>8. Typed'
  BY <1>1, <1>2, <1>5, <1>7 DEF TxInv, Typed, Others, Pcs, Unseen
<1>9. OneWriter'
  <2>1. \A q \in Requests : q # r => ~ tx[q].pc \in {"half", "written"}
    BY <1>1, Kinds DEF TxInv, OneWriter
  <2>. QED
    BY <1>1, <1>2, <1>5, <2>1 DEF OneWriter, Others
<1>10. Snapshots'
  BY <1>1, <1>2, <1>5 DEF TxInv, Snapshots, Others
<1>11. ViewsCurrent'
  <2>. SUFFICES ASSUME NEW q \in Requests, tx'[q].seen = commits,
                       tx'[q].pc \in {"writing", "half", "written"}
                PROVE  /\ q \notin Applies => Accepts(q, db)
                       /\ tx'[q].view = CASE tx'[q].pc = "writing" -> db
                                          [] tx'[q].pc = "half" -> First(q, db)
                                          [] OTHER -> Second(q, First(q, db))
    BY <1>1 DEF ViewsCurrent
  <2>1. CASE q = r
    BY <1>2, <1>5, <1>6, <2>1
  <2>2. CASE q # r
    BY <1>2, <2>2 DEF TxInv, ViewsCurrent, Others
  <2>. QED
    BY <2>1, <2>2
<1>. QED
  BY <1>1, <1>8, <1>9, <1>10, <1>11 DEF TxInv, RowsPaired

LEMMA InsertStep ==
  ASSUME TxInv, NEW r \in Requests, Insert(r) \/ Release(r)
  PROVE  TxInv'
<1>1. \/ Write(r, "writing", "half", First(r, Sees(r)))
      \/ Write(r, "half", "written", Second(r, Sees(r)))
  BY Kinds DEF Insert, Release, First, Second
<1>2. CASE Write(r, "writing", "half", First(r, Sees(r)))
  BY <1>2, WriteStep
<1>3. CASE Write(r, "half", "written", Second(r, Sees(r)))
  BY <1>3, WriteStep
<1>. QED
  BY <1>1, <1>2, <1>3

\* What a commit finds: it is the writer, nobody committed since its snapshot,
\* and its checks still hold.
LEMMA AtCommit ==
  ASSUME TxInv, NEW r \in Requests, Commit(r)
  PROVE  /\ writer = r /\ tx[r].seen = commits
         /\ db' = Second(r, First(r, db))
         /\ r \notin Applies => Accepts(r, db)
  BY DEF Commit, TxInv, OneWriter, Snapshots, ViewsCurrent

LEMMA CommitStep ==
  ASSUME TxInv, NEW r \in Requests, Commit(r)
  PROVE  TxInv'
<1>1. /\ db' = Second(r, First(r, db)) /\ writer = r
  BY AtCommit
<1>2. /\ commits' = commits + 1 /\ writer' = Nobody /\ commits \in Nat
      /\ tx' = [tx EXCEPT ![r] = [pc |-> "committed", seen |-> Unseen, view |-> {}]]
  <2>1. [Fresh EXCEPT !.pc = "committed"] = [pc |-> "committed", seen |-> Unseen, view |-> {}]
    BY DEF Fresh
  <2>. QED
    BY <2>1 DEF Commit, TxInv, Typed
<1>3. /\ Others(r)
      /\ tx'[r].pc = "committed" /\ tx'[r].seen = Unseen /\ tx'[r].view = {}
  BY <1>2 DEF TxInv, Typed, Others
<1>4. db' \in SUBSET Rows /\ IsFiniteSet(db')
  <2>1. First(r, db) \in SUBSET Rows /\ IsFiniteSet(First(r, db))
    BY StatementsTyped DEF TxInv, Typed
  <2>. QED
    BY <1>1, <2>1, StatementsTyped
<1>5. Typed'
  <2>1. IsFiniteSet({})
    BY FS_EmptySet
  <2>2. tx' \in [Requests -> [pc : Pcs, seen : Int, view : SUBSET Rows]]
    BY <1>2 DEF TxInv, Typed, Pcs, Unseen
  <2>. QED
    BY <1>2, <1>3, <1>4, <2>1, <2>2 DEF TxInv, Typed, Others, Unseen
<1>6. \A q \in Requests : q # r => ~ tx'[q].pc \in {"half", "written"}
  BY <1>1, <1>3 DEF TxInv, OneWriter, Others
<1>7. OneWriter'
  BY <1>2, <1>3, <1>6, Kinds DEF OneWriter
<1>8. Snapshots'
  BY <1>3, <1>6 DEF TxInv, Snapshots, Others
<1>9. ViewsCurrent'
  <2>1. \A q \in Requests : q # r => tx'[q].seen # commits'
    BY <1>2, <1>3 DEF TxInv, Typed, Others
  <2>. QED
    BY <1>3, <2>1 DEF ViewsCurrent
<1>10. RowsPaired'
  <2>1. Paired(db)
    BY DEF TxInv, RowsPaired, Paired
  <2>2. Paired(db')
    BY <1>1, <2>1, BothPaired
  <2>. QED
    BY <2>2 DEF RowsPaired, Paired
<1>. QED
  BY <1>2, <1>5, <1>7, <1>8, <1>9, <1>10 DEF TxInv

\* Transactions that fail, one or all of them.
LEMMA FailStep ==
  ASSUME TxInv, NEW S \in SUBSET Requests, UNCHANGED <<db, commits>>,
         tx' = [r \in Requests |-> IF r \in S THEN [Fresh EXCEPT !.pc = "failed"] ELSE tx[r]],
         writer' = IF writer \in S THEN Nobody ELSE writer
  PROVE  TxInv'
<1>1. /\ \A r \in S : /\ tx'[r].pc = "failed" /\ tx'[r].seen = Unseen /\ tx'[r].view = {}
                      /\ tx'[r] \in [pc : Pcs, seen : Int, view : SUBSET Rows]
      /\ \A r \in Requests : r \notin S => tx'[r] = tx[r]
      /\ commits \in Nat
  BY DEF Fresh, Unseen, Pcs, TxInv, Typed
<1>2. Typed'
  <2>1. IsFiniteSet({})
    BY FS_EmptySet
  <2>2. tx' \in [Requests -> [pc : Pcs, seen : Int, view : SUBSET Rows]]
    BY <1>1 DEF TxInv, Typed
  <2>3. \A r \in Requests : /\ IsFiniteSet(tx'[r].view)
                            /\ Unseen <= tx'[r].seen /\ tx'[r].seen <= commits
    <3>. TAKE r \in Requests
    <3>1. CASE r \in S
      BY <1>1, <2>1, <3>1 DEF Unseen
    <3>2. CASE r \notin S
      BY <1>1, <3>2 DEF TxInv, Typed
    <3>. QED
      BY <3>1, <3>2
  <2>. QED
    BY <1>1, <2>2, <2>3 DEF TxInv, Typed
<1>3. OneWriter'
  BY <1>1, Kinds DEF TxInv, OneWriter
<1>4. Snapshots' /\ ViewsCurrent'
  BY <1>1 DEF TxInv, Snapshots, ViewsCurrent
<1>. QED
  BY <1>2, <1>3, <1>4 DEF TxInv, RowsPaired

LEMMA RollbackStep ==
  ASSUME TxInv, NEW r \in Requests, Rollback(r)
  PROVE  TxInv'
<1>1. tx' = [q \in Requests |-> IF q \in {r} THEN [Fresh EXCEPT !.pc = "failed"] ELSE tx[q]]
  BY DEF Rollback, TxInv, Typed
<1>2. writer' = IF writer \in {r} THEN Nobody ELSE writer
  BY DEF Rollback, WriterAfter
<1>. QED
  BY <1>1, <1>2, FailStep DEF Rollback, Kept

LEMMA CrashStep ==
  ASSUME TxInv, Crash
  PROVE  TxInv'
<1>1. InUse \in SUBSET Requests
  BY DEF InUse
<1>2. writer' = IF writer \in InUse THEN Nobody ELSE writer
  BY DEF Crash, TxInv, OneWriter, InUse
<1>. QED
  BY <1>1, <1>2, FailStep DEF Crash

LEMMA TxStep == TxInv /\ [Next]_vars => TxInv'
<1>1. ASSUME TxInv, UNCHANGED vars PROVE TxInv'
  BY <1>1 DEF vars, TxInv, Typed, OneWriter, Snapshots, ViewsCurrent, RowsPaired
<1>. QED
  BY <1>1, BeginStep, ReadStep, InsertStep, CommitStep, RollbackStep, CrashStep
     DEF Next, Step

\* The inductive invariant: whoever may still write sees what is committed.
THEOREM TransactionsInvariant == Spec => []TxInv
  BY TxInit, TxStep, PTL DEF Spec

\* Types; the write lock is nobody's or that of a transaction in use.
THEOREM TransactionsTypes == Spec => []TransactionsTypeOK
<1>1. TxInv => TransactionsTypeOK
  <2>. SUFFICES ASSUME TxInv PROVE TransactionsTypeOK
    OBVIOUS
  <2>1. writer \in InUse \cup {Nobody}
    BY DEF TxInv, OneWriter, InUse
  <2>2. \A r \in Requests : tx[r].pc \in Pcs /\ tx[r].seen \in Unseen .. commits
    BY DEF TxInv, Typed, Unseen
  <2>. QED
    BY <2>1, <2>2 DEF TxInv, Typed, TransactionsTypeOK, Rows, Pcs
<1>. QED
  BY <1>1, TransactionsInvariant, PTL

\* What a request writes into two tables is there together, whatever failed,
\* was rolled back or crashed in between.
THEOREM RowsArePaired == Spec => []RowsPaired
<1>1. TxInv => RowsPaired
  BY DEF TxInv
<1>. QED
  BY <1>1, TransactionsInvariant, PTL

-----------------------------------------------------------------------------
(* Transactions implement SerialStore.                                     *)

EntriesOf(rows) == {r \in Adds \cup Applies : \E t \in TablesOf(r) : <<t, r>> \in rows}
Entries == EntriesOf(db)

OutcomeAt(pc) == CASE pc = "committed" -> "done"
                   [] pc = "failed"    -> "refused"
                   [] OTHER            -> "open"
Outcome == [r \in Requests |-> OutcomeAt(tx[r].pc)]

LEMMA SerialCardinality == \A S : Serial!Cardinality(S) = Cardinality(S)
  BY DEF Serial!Cardinality, Cardinality

LEMMA OutcomeOfPc ==
  /\ OutcomeAt("committed") = "done" /\ OutcomeAt("failed") = "refused"
  /\ \A pc \in Pcs \ {"committed", "failed"} : OutcomeAt(pc) = "open"
  BY DEF OutcomeAt, Pcs

\* An addition is in the store when its seats are taken: both rows are there.
LEMMA EntryRows ==
  ASSUME NEW rows, Paired(rows)
  PROVE  /\ \A r \in Adds : r \in EntriesOf(rows) <=> <<"venue_holds", r>> \in rows
         /\ \A r \in Applies : r \in EntriesOf(rows) <=> <<"cohorts", r>> \in rows
         /\ EntriesOf(rows) \subseteq Adds \cup Applies
<1>1. \A r \in Adds : TablesOf(r) = {"venue_holds", "mentor_assignments"}
  BY DEF TablesOf
<1>2. \A r \in Applies : TablesOf(r) = {"cohorts", "applications"}
  BY TransactionsAssumption DEF TablesOf
<1>. QED
  BY <1>1, <1>2 DEF EntriesOf, Paired

\* The seats that AddPlanItem counts are the additions in the store.
LEMMA SeatsAreEntries ==
  ASSUME Typed, Paired(db)
  PROVE  Cardinality({row \in db : row[1] = "venue_holds"}) = Cardinality(Entries \cap Adds)
<1>. DEFINE Seats == {row \in db : row[1] = "venue_holds"}
            f == [row \in Seats |-> row[2]]
<1>1. \A row \in Seats : row[2] \in Adds /\ row = <<"venue_holds", row[2]>>
  <2>. TAKE row \in Seats
  <2>1. PICK r \in Adds \cup Applies : row \in TablesOf(r) \X {r}
    BY DEF Typed, Rows
  <2>2. PICK t \in TablesOf(r) : row = <<t, r>>
    BY <2>1
  <2>3. t = "venue_holds"
    BY <2>2
  <2>4. r \in Adds
    BY <2>3 DEF TablesOf
  <2>. QED
    BY <2>2, <2>3, <2>4
<1>2. IsFiniteSet(Seats)
  BY FS_Subset DEF Typed
<1>3. f \in [Seats -> Entries \cap Adds]
  BY <1>1, EntryRows DEF Entries
<1>4. \A row, other \in Seats : f[row] = f[other] => row = other
  BY <1>1
<1>5. \A r \in Entries \cap Adds : \E row \in Seats : f[row] = r
  <2>. TAKE r \in Entries \cap Adds
  <2>1. <<"venue_holds", r>> \in Seats /\ f[<<"venue_holds", r>>] = r
    BY EntryRows DEF Entries
  <2>. QED
    BY <2>1
<1>. HIDE DEF f
<1>6. f \in Bijection(Seats, Entries \cap Adds)
  BY <1>3, <1>4, <1>5 DEF Bijection, Injection, IsInjective, Surjection
<1>. HIDE DEF Seats
<1>7. ExistsBijection(Seats, Entries \cap Adds)
  BY <1>6 DEF ExistsBijection
<1>8. Cardinality(Entries \cap Adds) = Cardinality(Seats)
  BY <1>2, <1>7, FS_Bijection
<1>. QED
  BY <1>8 DEF Seats

\* A commit is the request's effect on the store, decided on what is there now.
LEMMA CommitIsSerial ==
  ASSUME TxInv, TxInv', NEW r \in Requests, Commit(r)
  PROVE  Serial!Next
<1>1. /\ db' = Second(r, First(r, db)) /\ (r \notin Applies => Accepts(r, db))
      /\ Paired(db) /\ Paired(db') /\ Typed
  BY AtCommit DEF TxInv, RowsPaired, Paired
<1>2. Serial!Done(r)
  <2>1. /\ tx[r].pc = "written" /\ tx'[r].pc = "committed"
        /\ \A q \in Requests : q # r => tx'[q] = tx[q]
    BY DEF Commit, Fresh, TxInv, Typed
  <2>2. Outcome[r] = "open" /\ Outcome' = [Outcome EXCEPT ![r] = "done"]
    BY <2>1, OutcomeOfPc DEF Outcome, Pcs
  <2>. QED
    BY <2>2 DEF Serial!Done, Outcome, OutcomeAt
<1>3. Entries' = EntriesOf(db')
  BY DEF Entries, EntriesOf
<1>4. /\ Entries \subseteq Adds \cup Applies /\ Entries' \subseteq Adds \cup Applies
      /\ \A q \in Adds : q \in Entries' <=> <<"venue_holds", q>> \in db'
      /\ \A q \in Applies : q \in Entries' <=> <<"cohorts", q>> \in db'
      /\ \A q \in Adds : q \in Entries <=> <<"venue_holds", q>> \in db
      /\ \A q \in Applies : q \in Entries <=> <<"cohorts", q>> \in db
  BY <1>1, <1>3, EntryRows DEF Entries
<1>5. CASE r \in Adds
  <2>1. Entries' = Entries \cup {r}
    BY <1>1, <1>4, <1>5 DEF First, Second
  <2>2. Cardinality(Entries \cap Adds) < Capacity
    BY <1>1, <1>5, Kinds, SeatsAreEntries DEF Accepts
  <2>3. Serial!Add(r)
    BY <1>2, <2>1, <2>2, SerialCardinality DEF Serial!Add, Entries, EntriesOf
  <2>. QED
    BY <1>5, <2>3 DEF Serial!Next
<1>6. CASE r \in Applies
  <2>1. Entries' = Entries \cup {r}
    BY <1>1, <1>4, <1>6, Kinds DEF First, Second
  <2>2. Serial!Apply(r)
    BY <1>2, <2>1 DEF Serial!Apply, Entries, EntriesOf
  <2>. QED
    BY <1>6, <2>2 DEF Serial!Next
<1>7. CASE r \in Cancels
  <2>1. Target[r] \in Adds /\ Target[r] \in Entries
    BY <1>1, <1>4, <1>7, Kinds DEF Accepts
  <2>2. Entries' = Entries \ {Target[r]}
    BY <1>1, <1>4, <1>7, <2>1, Kinds DEF First, Second
  <2>3. Serial!Cancel(r)
    BY <1>2, <2>1, <2>2 DEF Serial!Cancel, Entries, EntriesOf
  <2>. QED
    BY <1>7, <2>3 DEF Serial!Next
<1>. QED
  BY <1>5, <1>6, <1>7, Kinds

\* A failure refuses the requests it ends and changes nothing.
LEMMA FailureIsSerial ==
  ASSUME TxInv, NEW S \in SUBSET InUse, UNCHANGED db,
         tx' = [r \in Requests |-> IF r \in S THEN [Fresh EXCEPT !.pc = "failed"] ELSE tx[r]]
  PROVE  Serial!Next
<1>1. \A r \in S : r \in Requests /\ tx[r].pc \in {"reading", "writing", "half", "written"}
  BY DEF InUse
<1>2. \A r \in Requests : tx'[r].pc = IF r \in S THEN "failed" ELSE tx[r].pc
  BY DEF Fresh
<1>3. \A r \in S : Outcome[r] = "open"
  BY <1>1, OutcomeOfPc DEF Outcome, Pcs
<1>4. Outcome' = [r \in Requests |-> IF r \in S THEN "refused" ELSE Outcome[r]]
  BY <1>2, OutcomeOfPc DEF Outcome
<1>5. Entries' = Entries
  BY DEF Entries, EntriesOf
<1>6. Serial!Refuse(S)
  BY <1>3, <1>4, <1>5 DEF Serial!Refuse, Serial!Requests, Requests, Outcome, OutcomeAt, Entries, EntriesOf
<1>7. S \in SUBSET Serial!Requests
  BY <1>1 DEF Serial!Requests, Requests
<1>. QED
  BY <1>6, <1>7 DEF Serial!Next

LEMMA SerialStep ==
  ASSUME TxInv, TxInv', [Next]_vars
  PROVE  [Serial!Next]_<<Entries, Outcome>>
<1>1. ASSUME UNCHANGED db,
             \A r \in Requests : OutcomeAt(tx'[r].pc) = OutcomeAt(tx[r].pc)
      PROVE  UNCHANGED <<Entries, Outcome>>
  BY <1>1 DEF Entries, EntriesOf, Outcome
<1>2. ASSUME NEW r \in Requests, tx[r].pc \in Pcs \ {"committed", "failed"},
             tx'[r].pc \in Pcs \ {"committed", "failed"},
             \A q \in Requests : q # r => tx'[q] = tx[q], UNCHANGED db
      PROVE  UNCHANGED <<Entries, Outcome>>
  BY <1>1, <1>2, OutcomeOfPc
<1>3. ASSUME NEW r \in Requests, BeginTx(r) PROVE UNCHANGED <<Entries, Outcome>>
  BY <1>2, <1>3 DEF BeginTx, TxInv, Typed, Pcs
<1>4. ASSUME NEW r \in Requests, Read(r) PROVE UNCHANGED <<Entries, Outcome>>
  BY <1>2, <1>4 DEF Read, TxInv, Typed, Pcs
<1>5. ASSUME NEW r \in Requests, Insert(r) \/ Release(r) PROVE UNCHANGED <<Entries, Outcome>>
  BY <1>2, <1>5 DEF Insert, Release, Write, TxInv, Typed, Pcs
<1>6. ASSUME NEW r \in Requests, Rollback(r) PROVE Serial!Next
  <2>1. tx' = [q \in Requests |-> IF q \in {r} THEN [Fresh EXCEPT !.pc = "failed"] ELSE tx[q]]
    BY <1>6 DEF Rollback, TxInv, Typed
  <2>. QED
    BY <1>6, <2>1, FailureIsSerial DEF Rollback, Kept
<1>7. ASSUME Crash PROVE Serial!Next
  BY <1>7, FailureIsSerial DEF Crash
<1>8. ASSUME UNCHANGED vars PROVE UNCHANGED <<Entries, Outcome>>
  BY <1>8 DEF vars, Entries, EntriesOf, Outcome
<1>. QED
  BY <1>3, <1>4, <1>5, <1>6, <1>7, <1>8, CommitIsSerial DEF Next, Step

\* Transactions that interleave have the effect of one after the other: what a
\* request checked still holds when it takes effect, and a request that fails
\* changes nothing.
THEOREM TransactionsAreSerial == Spec => ImplementsSerial
<1>1. Init => Serial!Init
  <2>. SUFFICES ASSUME Init PROVE Serial!Init
    OBVIOUS
  <2>1. Entries = {} /\ Outcome = [r \in Requests |-> "open"]
    BY OutcomeOfPc DEF Init, Entries, EntriesOf, Outcome, Fresh, Pcs
  <2>. QED
    BY <2>1 DEF Serial!Init, Serial!Requests, Requests, Entries, EntriesOf, Outcome, OutcomeAt
<1>2. TxInv /\ TxInv' /\ [Next]_vars => [Serial!Next]_<<Entries, Outcome>>
  BY SerialStep
<1>. QED
  BY <1>1, <1>2, TransactionsInvariant, PTL
     DEF Spec, ImplementsSerial, Serial!Spec, Entries, EntriesOf, Outcome, OutcomeAt
===============================================================================
