-------------------------------- MODULE Server --------------------------------
(***************************************************************************)
(* The process: cmd/server/main.go, with the migration and the bootstrap   *)
(* account it begins with, its worker and its HTTP server, composed with   *)
(* Accounts.  Several processes may be started on one database and one     *)
(* address, at the same time or one after the other; a process may get a   *)
(* signal, or end without notice, at any step; and each may be started in  *)
(* an environment that is not fit for it.  The sessions do not end by      *)
(* themselves here, as they do in Accounts.                                *)
(***************************************************************************)
EXTENDS Accounts

CONSTANTS
    Procs,              \* processes, each started once
    BootstrapEmail,     \* as normalised when the account is created
    MaxFaults           \* bound: processes killed and recoveries that fail

ASSUME ServerAssumption ==
    /\ BootstrapEmail \in Emails
    /\ MaxFaults \in Nat

VARIABLES
    applied,    \* times the migration was applied to the database
    proc,       \* main goroutine, signal, worker and listener of each process
    at,         \* process that a request came to
    faults      \* history, for the bound

serverVars == <<applied, proc, at, faults>>
vars == <<accountVars, serverVars>>

\* rival: another process was running at some time since the start.
\* fit: nothing but another process is in the way of this one.  Its database can
\* be opened and written and no other program locks it, its bootstrap email is
\* as it is stored and CreateUser accepts it and the password, and its address
\* is one to bind, which no other program holds.
Off == [main |-> "off", signalled |-> FALSE, worker |-> "none",
        listener |-> "none", rival |-> FALSE, fit |-> FALSE]

Starting == {"opened", "migrating", "migrated", "creating", "seeded"}
Launched == {"launched", "waiting", "draining", "joining", "stopping"}
Running == Starting \cup Launched
\* exit status 0 after a shutdown; exit status 0 without one, because the
\* worker was seen to end before the signal was; a start that failed; other ends
Ended == {"clean", "quit", "unable", "broken"}

ServerInit ==
    /\ AccountsInit
    /\ applied \in {0, 1}
    /\ applied = 0 => \A e \in Emails : users[e] = "none"
    /\ proc = [p \in Procs |-> Off]
    /\ at = [q \in Requests |-> "none"]
    /\ faults = 0

To(p, main) == proc' = [proc EXCEPT ![p].main = main]

\* Whatever the process was doing is cut off.
Exit(p, why) ==
    /\ proc' = [proc EXCEPT ![p] = [Off EXCEPT !.main = why,
                                   !.rival = why = "unable" /\ proc[p].rival,
                                   !.fit = why = "unable" /\ proc[p].fit]]
    /\ requests' = [q \in Requests |->
          IF at[q] = p /\ InFlight(q) THEN [requests[q] EXCEPT !.pc = "lost"]
                                      ELSE requests[q]]
    /\ UNCHANGED <<users, sessions, effects, applied, at>>

Unable(p) == Exit(p, "unable") /\ UNCHANGED faults

-----------------------------------------------------------------------------
(* Start-up: Open migrates, then the bootstrap account is looked for.      *)

Start(p) ==
    /\ proc[p].main = "off"
    /\ LET others == {x \in Procs : proc[x].main \in Running} IN
       \E fit \in BOOLEAN : proc' = [x \in Procs |->
          IF x = p THEN [Off EXCEPT !.main = "opened", !.rival = others # {},
                                    !.fit = fit]
          ELSE IF x \in others THEN [proc[x] EXCEPT !.rival = TRUE] ELSE proc[x]]
    /\ UNCHANGED <<accountVars, applied, at, faults>>

CheckMigration(p) ==
    /\ proc[p].main = "opened"
    /\ To(p, IF applied > 0 THEN "migrated" ELSE "migrating")
    /\ UNCHANGED <<accountVars, applied, at, faults>>

BugApplies == TRUE
\* CREATE TABLE, and the primary key of schema_migrations, refuse to do it
\* again: then the transaction is rolled back.
Applies == applied = 0

ApplyMigration(p) ==
    /\ proc[p].main = "migrating"
    /\ \/ /\ Applies
          /\ applied' = applied + 1
          /\ To(p, "migrated")
          /\ UNCHANGED <<accountVars, at, faults>>
       \/ ~ Applies /\ Unable(p)

BugFinds == FALSE
BugFindsAny == TRUE
Finds == users[BootstrapEmail] # "none"

\* FindUserByEmail looks for the email as it is configured, spaces included.
FindBootstrap(p) ==
    /\ proc[p].main = "migrated"
    /\ \/ Finds /\ To(p, "seeded")
       \/ ~ (Finds /\ proc[p].fit) /\ To(p, "creating")
    /\ UNCHANGED <<accountVars, applied, at, faults>>

\* CreateUser refuses a short or overlong password and an email without @, and
\* the table a second row with one email.
CreateBootstrap(p) ==
    /\ proc[p].main = "creating"
    /\ \/ /\ CreateUser(BootstrapEmail)
          /\ To(p, "seeded")
          /\ UNCHANGED <<applied, at, faults>>
       \/ (users[BootstrapEmail] # "none" \/ ~ proc[p].fit) /\ Unable(p)

\* A statement of the start-up fails: the file cannot be opened or written, or
\* whoever else uses it keeps it busy for longer than busy_timeout.
StatementFails(p) ==
    /\ proc[p].main \in Starting \ {"seeded"}
    /\ ~ proc[p].fit \/ \E x \in Procs \ {p} : proc[x].main \in Running
    /\ Unable(p)

\* A signal cancels the context of every statement of the start-up.
Interrupted(p) ==
    /\ proc[p].main \in Starting /\ proc[p].signalled
    /\ Exit(p, "broken")
    /\ UNCHANGED faults

Launch(p) ==
    /\ proc[p].main = "seeded"
    /\ proc' = [proc EXCEPT ![p].main = "launched", ![p].worker = "recovering",
                            ![p].listener = "binding"]
    /\ UNCHANGED <<accountVars, applied, at, faults>>

-----------------------------------------------------------------------------
(* Three goroutines.  What is ready first wakes a select that waits; if    *)
(* several are ready when it is reached, any of them is taken.             *)

\* the row of p after something became ready that leads main to next
Woken(p, row, next) ==
    proc' = [proc EXCEPT ![p] = IF row.main = "waiting"
                                THEN [row EXCEPT !.main = next] ELSE row]

SignalArrives(p) ==
    /\ proc[p].main \in Running /\ ~ proc[p].signalled
    /\ Woken(p, [proc[p] EXCEPT !.signalled = TRUE], "draining")
    /\ UNCHANGED <<accountVars, applied, at, faults>>

\* ListenAndServe: the address cannot be bound, or somebody holds it.
Listen(p) ==
    /\ proc[p].listener = "binding"
    /\ IF proc[p].main \in {"draining", "joining"}
       THEN proc' = [proc EXCEPT ![p].listener = "closed"]
       ELSE \/ /\ \A x \in Procs : proc[x].listener # "open"
               /\ proc' = [proc EXCEPT ![p].listener = "open"]
            \/ /\ ~ proc[p].fit \/ \E x \in Procs : proc[x].listener = "open"
               /\ Woken(p, [proc[p] EXCEPT !.listener = "failed"], "stopping")
    /\ UNCHANGED <<accountVars, applied, at, faults>>

Recover(p) ==
    /\ proc[p].worker = "recovering" /\ ~ proc[p].signalled
    /\ proc' = [proc EXCEPT ![p].worker = "looping"]
    /\ UNCHANGED <<accountVars, applied, at, faults>>

RecoverFails(p) ==
    /\ proc[p].worker = "recovering"
    /\ faults < MaxFaults
    /\ faults' = faults + 1
    /\ Woken(p, [proc[p] EXCEPT !.worker = "failed"], "stopping")
    /\ UNCHANGED <<accountVars, applied, at>>

BugTold(p) == FALSE
\* the worker has the context that the signal cancels
Told(p) == proc[p].signalled

\* The context is done: Run returns its error.
WorkerEnds(p) ==
    /\ proc[p].worker \in {"recovering", "looping"} /\ Told(p)
    /\ proc' = [proc EXCEPT ![p].worker = "cancelled"]
    /\ UNCHANGED <<accountVars, applied, at, faults>>

Select(p) ==
    LET ready == {next \in {"draining", "stopping"} :
          \/ next = "draining" /\ proc[p].signalled
          \/ next = "stopping" /\ \/ proc[p].worker \in {"failed", "cancelled"}
                                  \/ proc[p].listener = "failed"}
    IN /\ proc[p].main = "launched"
       /\ \/ ready = {} /\ To(p, "waiting")
          \/ \E next \in ready : To(p, next)
       /\ UNCHANGED <<accountVars, applied, at, faults>>

InFlightAt(p) == {q \in Requests : at[q] = p /\ InFlight(q)}

BugDrained(p) == TRUE
Drained(p) == InFlightAt(p) = {}

\* Shutdown closes the listener at once and waits for the requests.
Drain(p) ==
    /\ proc[p].main = "draining"
    /\ \/ /\ proc[p].listener = "open"
          /\ proc' = [proc EXCEPT ![p].listener = "closed"]
       \/ /\ proc[p].listener # "open"
          /\ Drained(p)
          /\ To(p, "joining")
    /\ UNCHANGED <<accountVars, applied, at, faults>>

\* ten seconds are over
DrainTimesOut(p) ==
    /\ proc[p].main = "draining" /\ ~ Drained(p)
    /\ Exit(p, "broken")
    /\ UNCHANGED faults

Joined(p) == proc[p].worker \in {"failed", "cancelled"}

Join(p) ==
    /\ proc[p].main = "joining"
    /\ Joined(p)
    /\ Exit(p, IF proc[p].worker = "failed" THEN "broken" ELSE "clean")
    /\ UNCHANGED faults

\* run returns at once: the worker and the requests are not waited for.  A
\* worker that ended because of a signal is no error.
Stop(p) ==
    /\ proc[p].main = "stopping"
    /\ \/ proc[p].listener = "failed" /\ Exit(p, "unable")
       \/ proc[p].worker = "failed" /\ Exit(p, "broken")
       \/ proc[p].worker = "cancelled" /\ Exit(p, "quit")
    /\ UNCHANGED faults

Crash(p) ==
    /\ proc[p].main \in Running
    /\ faults < MaxFaults
    /\ faults' = faults + 1
    /\ Exit(p, "broken")

-----------------------------------------------------------------------------
RequestArrives(p, q) ==
    /\ proc[p].listener = "open"
    /\ Receive(q)
    /\ at' = [at EXCEPT ![q] = p]
    /\ UNCHANGED <<applied, proc, faults>>

Serve(q) == Handle(q) /\ UNCHANGED serverVars

Main(p) ==
    \/ CheckMigration(p) \/ ApplyMigration(p) \/ FindBootstrap(p)
    \/ CreateBootstrap(p) \/ StatementFails(p) \/ Interrupted(p)
    \/ Launch(p) \/ Select(p)
    \/ Drain(p) \/ DrainTimesOut(p) \/ Join(p) \/ Stop(p)

Worker(p) == Recover(p) \/ WorkerEnds(p)

Next ==
    \/ \E p \in Procs :
          \/ Start(p) \/ Main(p) \/ Worker(p) \/ Listen(p)
          \/ SignalArrives(p) \/ RecoverFails(p) \/ Crash(p)
          \/ \E q \in Requests : RequestArrives(p, q)
    \/ \E q \in Requests : Serve(q)

Spec == ServerInit /\ [][Next]_vars

\* The goroutines of a process run on; the worker looks at its context after
\* every job, which has ten seconds.
Fairness ==
    /\ \A p \in Procs : WF_vars(Main(p)) /\ WF_vars(Worker(p)) /\ WF_vars(Listen(p))
    /\ \A q \in Requests : WF_vars(Serve(q))

FairSpec == Spec /\ Fairness

-----------------------------------------------------------------------------
(* Properties.                                                             *)

ServerTypeOK ==
    /\ AccountsTypeOK
    /\ applied \in {0, 1}
    /\ \A p \in Procs :
          /\ proc[p].main \in {"off"} \cup Running \cup Ended
          /\ proc[p].worker \in {"none", "recovering", "looping", "failed",
                                 "cancelled"}
          /\ proc[p].listener \in {"none", "binding", "open", "closed", "failed"}
    /\ at \in [Requests -> Procs \cup {"none"}]

\* A process that serves has found or made the schema and the account, and at
\* most one process listens.
ServingPrepared ==
    /\ \A p \in Procs : proc[p].main \in Launched =>
          applied = 1 /\ users[BootstrapEmail] # "none"
    /\ \A p, x \in Procs : proc[p].listener = "open" /\ proc[x].listener = "open"
          => p = x

\* README.md:74: repeated startup is idempotent.  In an environment that is fit
\* for it, a start fails only if another process was running meanwhile,
\* whatever was done to the database before by starts that went well, failed,
\* or were killed half-way, in whatever environment they were.
FailedStartHadRival ==
    \A p \in Procs : proc[p].main = "unable" /\ proc[p].fit => proc[p].rival

\* A process that shuts down and exits with status 0 has cut off nobody: all
\* its requests are answered and its worker has returned.
CleanExitCutsNobody ==
    [][\A p \in Procs : proc[p].main # "clean" /\ proc'[p].main = "clean"
          => InFlightAt(p) = {} /\ proc[p].worker = "cancelled"]_vars

\* A process that got a signal ends, whatever its requests and its worker do.
SignalEndsProcess ==
    \A p \in Procs : proc[p].signalled ~> proc[p].main \in Ended
===============================================================================
