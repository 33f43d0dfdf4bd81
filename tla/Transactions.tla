----------------------------- MODULE Transactions -----------------------------
(***************************************************************************)
(* Repository.Transact over SQLite, statement by statement: why a handler  *)
(* may be one action in the other modules.                                 *)
(*                                                                         *)
(* Three requests stand for all handlers.  An addition (AddPlanItem)       *)
(* counts seats and then inserts rows into two tables; a cancellation      *)
(* reads the cohort and then updates both tables; an application inserts   *)
(* into two tables and reads nothing first.                                *)
(*                                                                         *)
(* SQLite in WAL mode: a transaction is deferred, so its first statement   *)
(* fixes what it sees; there is one writer at a time; a transaction that   *)
(* has read may become the writer only while nothing has been committed    *)
(* since.  Otherwise its write fails, at once or after busy_timeout.       *)
(***************************************************************************)
EXTENDS Integers, FiniteSets

CONSTANTS
    Adds, Cancels, Applies,
    Target,
    Capacity,
    MaxConns,       \* SetMaxOpenConns
    MaxCrashes      \* bound

Requests == Adds \cup Cancels \cup Applies
Nobody == "nobody"

ASSUME TransactionsAssumption ==
    /\ Adds \cap Cancels = {} /\ Adds \cap Applies = {} /\ Cancels \cap Applies = {}
    /\ Nobody \notin Requests
    /\ Target \in [Cancels -> Adds]
    /\ Capacity \in Nat /\ MaxConns \in Nat \ {0} /\ MaxCrashes \in Nat

VARIABLES
    db,         \* committed rows: <<table, request that inserted it>>
    commits,    \* number of commits so far
    writer,     \* request whose transaction holds the write lock
    tx,         \* the transaction of each request
    crashes     \* history, for the bound

vars == <<db, commits, writer, tx, crashes>>

\* seen: number of commits in the snapshot, or Unseen before a statement;
\* view: the snapshot with the transaction's own writes.
Unseen == -1
Fresh == [pc |-> "waiting", seen |-> Unseen, view |-> {}]

Init ==
    /\ db = {}
    /\ commits = 0
    /\ writer = Nobody
    /\ tx = [r \in Requests |-> Fresh]
    /\ crashes = 0

-----------------------------------------------------------------------------
BugInUse == {r \in Requests : tx[r].pc \notin {"waiting", "committed"}}
InUse == {r \in Requests : tx[r].pc \in {"reading", "writing", "half", "written"}}

\* what the first statement of r finds, and later ones
Sees(r) == IF tx[r].seen = Unseen THEN db ELSE tx[r].view
SeenAt(r) == IF tx[r].seen = Unseen THEN commits ELSE tx[r].seen

BugExecutor(r) == [seen |-> Unseen, view |-> {}]
\* executor: a repository in a transaction reads through it, and the read
\* stays part of it.
Executor(r) == [seen |-> SeenAt(r), view |-> Sees(r)]

BeginTx(r) ==
    /\ tx[r].pc = "waiting"
    /\ Cardinality(InUse) < MaxConns
    /\ tx' = [tx EXCEPT ![r].pc = IF r \in Applies THEN "writing" ELSE "reading"]
    /\ UNCHANGED <<db, commits, writer, crashes>>

\* the checks of the handler, on what it reads
Accepts(r, rows) ==
    \/ r \in Adds /\ Cardinality({row \in rows : row[1] = "venue_holds"}) < Capacity
    \/ r \in Cancels /\ <<"venue_holds", Target[r]>> \in rows

Read(r) ==
    /\ tx[r].pc = "reading"
    /\ Accepts(r, Sees(r))
    /\ tx' = [tx EXCEPT ![r] = [pc |-> "writing", seen |-> Executor(r).seen,
                                view |-> Executor(r).view]]
    /\ UNCHANGED <<db, commits, writer, crashes>>

MayWrite(r) == writer \in {Nobody, r} /\ SeenAt(r) = commits

Write(r, pc, next, rows) ==
    /\ tx[r].pc = pc
    /\ MayWrite(r)
    /\ writer' = r
    /\ tx' = [tx EXCEPT ![r] = [pc |-> next, seen |-> SeenAt(r), view |-> rows]]
    /\ UNCHANGED <<db, commits, crashes>>

Insert(r) ==
    \/ r \in Adds /\ \/ Write(r, "writing", "half", Sees(r) \cup {<<"venue_holds", r>>})
                     \/ Write(r, "half", "written",
                              Sees(r) \cup {<<"mentor_assignments", r>>})
    \/ r \in Applies /\ \/ Write(r, "writing", "half", Sees(r) \cup {<<"cohorts", r>>})
                        \/ Write(r, "half", "written",
                                 Sees(r) \cup {<<"applications", r>>})

Release(r) ==
    /\ r \in Cancels
    /\ \/ Write(r, "writing", "half", Sees(r) \ {<<"venue_holds", Target[r]>>})
       \/ Write(r, "half", "written",
                Sees(r) \ {<<"mentor_assignments", Target[r]>>})

Commit(r) ==
    /\ tx[r].pc = "written"
    /\ db' = tx[r].view
    /\ commits' = commits + 1
    /\ writer' = Nobody
    /\ tx' = [tx EXCEPT ![r] = [Fresh EXCEPT !.pc = "committed"]]
    /\ UNCHANGED crashes

BugWriterAfter(r) == writer
\* database/sql returns the connection, and SQLite the write lock.
WriterAfter(r) == IF writer = r THEN Nobody ELSE writer

BugKept(r) == IF writer = r THEN tx[r].view ELSE db
\* what a transaction leaves behind that did not commit
Kept(r) == db

\* A check, a constraint, a stale snapshot, a busy database or a context that
\* is done: the function fails, or the commit does.
Rollback(r) ==
    /\ r \in InUse
    /\ tx' = [tx EXCEPT ![r] = [Fresh EXCEPT !.pc = "failed"]]
    /\ writer' = WriterAfter(r)
    /\ db' = Kept(r)
    /\ UNCHANGED <<commits, crashes>>

Crash ==
    /\ crashes < MaxCrashes
    /\ crashes' = crashes + 1
    /\ tx' = [r \in Requests |->
                 IF r \in InUse THEN [Fresh EXCEPT !.pc = "failed"] ELSE tx[r]]
    /\ writer' = Nobody
    /\ UNCHANGED <<db, commits>>

Step(r) ==
    BeginTx(r) \/ Read(r) \/ Insert(r) \/ Release(r) \/ Commit(r) \/ Rollback(r)

Next == Crash \/ \E r \in Requests : Step(r)

Spec == Init /\ [][Next]_vars

\* A handler runs on, no statement waits longer than busy_timeout, and
\* database/sql gives a free connection to who waits for one.
Fairness == \A r \in Requests : WF_vars(Step(r))

FairSpec == Spec /\ Fairness

-----------------------------------------------------------------------------
(* Properties.                                                             *)

TablesOf(r) == IF r \in Adds THEN {"venue_holds", "mentor_assignments"}
                             ELSE {"cohorts", "applications"}

TransactionsTypeOK ==
    /\ db \subseteq UNION {TablesOf(r) \X {r} : r \in Adds \cup Applies}
    /\ commits \in Nat
    /\ writer \in InUse \cup {Nobody}
    /\ \A r \in Requests :
          /\ tx[r].pc \in {"waiting", "reading", "writing", "half", "written",
                           "committed", "failed"}
          /\ tx[r].seen \in Unseen .. commits

\* What is written together is there together: no crash, failed statement or
\* lost race leaves a row of one table without its row of the other.
RowsPaired ==
    \A r \in Adds \cup Applies : \A s, t \in TablesOf(r) :
        <<s, r>> \in db => <<t, r>> \in db

Serial == INSTANCE SerialStore WITH
    entries <- {r \in Adds \cup Applies : \E t \in TablesOf(r) : <<t, r>> \in db},
    outcome <- [r \in Requests |-> CASE tx[r].pc = "committed" -> "done"
                                     [] tx[r].pc = "failed"    -> "refused"
                                     [] OTHER                  -> "open"]

\* Transactions that interleave have the effect of one after the other: the
\* check of seats holds at the commit, not only when it was made.
ImplementsSerial == Serial!Spec

\* Every request is answered: no transaction waits for a connection or for
\* the write lock for ever, however many wait for each other.
EveryTransactionEnds ==
    \A r \in Requests : <>(tx[r].pc \in {"committed", "failed"})
===============================================================================
