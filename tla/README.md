# Lushan Study Operations: specification and proofs

A TLA+ development of the Go backend in `src/`: what it does to its tables,
step by step, what should be true of them after any sequence of steps, and
which of those statements hold. TLC checks small instances; TLAPS proves for
every value of the constants what TLC found to hold, liveness excepted.

    tlc -workers 4 -config Booking_contention.cfg MCBooking
    tlapm BookingSafetyProofs.tla

Contents: [system](#the-system) · [modules](#the-modules) ·
[reading of the code](#how-the-code-is-read) · [runs](#the-runs) ·
[findings](#findings) · [proofs](#the-proofs) · [limits](#what-is-not-covered) ·
[plan](#plan).

## The system

One process over one SQLite database (WAL, transactions that begin deferred, a pool of
connections). HTTP requests become calls of `internal/service`; every call that
writes several rows does so in one `Repository.Transact`. A worker goroutine
empties the outbox table. Nothing is shared between requests but the database.

| component | code | state | operations | what makes it correct |
|---|---|---|---|---|
| cohort lifecycle and booking | `service/{applications,planning,reroute,cancellation}.go`, `domain/{lifecycle,planning}.go`, `storage/{cohorts,resources}.go` | tables `cohorts`, `applications`, `plan_items`, `venue_holds`, `mentor_assignments`, `risk_acknowledgements`, `reroutes`, `settlements` | Apply, DecideApplication, AddPlanItem, AcknowledgeRisk, Confirm, Reroute, Cancel | no venue overfull, no mentor in two places, a confirmed cohort has a whole confirmed plan and its leader's acknowledgement, a cancelled one keeps nothing |
| times as text | `storage/time.go` | none | formatTime, and SQL's comparison of its results | the order of the texts is the order of the times (it is not, within a second) |
| attendance and artifacts | `service/{attendance,attendance_batch,artifacts}.go`, `storage/operations.go` | `attendance_groups`, `attendance_records`, `artifacts` | CreateAttendanceGroup, RecordAttendance, RecordAttendanceBatch, ArchiveArtifact | groups within capacity, only for cohorts that were confirmed, truthful outcomes of a batch |
| outbox and worker | `worker/*.go`, `storage/jobs.go`, `domain/jobs.go` | `outbox_jobs`; the loop's claim in memory | create, recover, claim, handle, complete, fail and retry | each job settles, once; nothing finished is reopened; two workers never hold one claim |
| transactions | `storage/{transaction,database}.go` | connections | Transact | handlers are serial, a failed one leaves no trace |
| settlement arithmetic | `domain/operations.go` | `settlements` | NewCancellationSettlement | fee and refund add up, in range, and a shorter notice never costs less |
| idempotency | `idempotency/service.go`, `storage/jobs.go` | `idempotency_keys` | Do | one outcome for one key in its time to live |
| accounts and sessions | `service/auth.go`, `storage/auth.go`, `security/*.go` | `users`, `sessions` | CreateUser, Login, Authenticate, Logout, EnsureBootstrapUser | who comes after the end of a session is kept out |
| start and shutdown | `cmd/server/main.go`, `storage/migrate.go` | `schema_migrations`, three goroutines | migrate, bootstrap, serve, stop | repeatable start; a clean exit cuts off nobody; a signal ends the process |
| catalogue | `service/catalog.go`, `storage/catalog.go` | `course_units`, `venues`, `mentors` | SeedCatalog, reads | rows never change once created |
| audit trail | `audit/recorder.go`, `storage/audit.go` | `audit_events` | append | one event for each change, none for what was refused |
| HTTP interface | `httpapi/*.go` | requests in flight | routing, authentication, one service call, answer | nothing is done for a request before it is authenticated |
| configuration, helpers | `config`, `apperr`, `clock`, `requestctx`, `repository` | none | reading, wording | |

How they interact. A request is authenticated (session), served by one service
call and answered. Confirm and Cancel create an outbox job in the transaction
of the change they announce; the worker takes it later, in a process that may
have been restarted since. The first attendance record moves its cohort from
confirmed to active. Booking and attendance meet in the cohort's status, booking
and the outbox in the job rows.

What is hard here:

- cohorts compete for seats and hours through three tables that are written by
  four handlers (add, confirm, reroute, release), and the check is a sum over
  rows in two statuses;
- holds expire by the clock while their status stays `held`, and every time
  comparison is a comparison of texts;
- a cancellation, or a late decision, may come between any two steps of
  anything else;
- group creation has no transaction, a batch has one per item;
- the worker may die with a job in hand, lose the write of an outcome, or have
  its job taken away by another process that takes it for stale;
- transactions begin deferred: several read one state, and one may write;
- a logout, an expiry or a second call with one key comes between the steps of
  a request;
- a signal, a taken address, a failed worker or a kill meets a process that is
  starting, serving or shutting down, beside another one on the same database.

`PROJECT.json` lists each of these hazards at its line with the properties that
watch it.

## The modules

| module | what it is | state and actions against the code |
|---|---|---|
| `TimeText` | times as the storage keeps them | `FormatTime` places a time in the byte order of the RFC3339Nano texts; `TextLT` is SQL's `<` |
| `CohortBooking` | the core: a cohort from application to cancellation | a variable per table (named after it), one action per service method (named after it); `CreatePlanItem`, `ConfirmResources`, `ReleaseResources`, `SwapVenueHold`, ... are the repository methods of those names |
| `SeatLedger` | what planning promises, abstractly: bookings that take a mentor and seats, entered or moved only where there is room at every moment | `CohortBooking` implements it (`ImplementsLedger`); the ledger is the live rows of the plan tables |
| `Int64` | products that wrap and quotients that cut off | used for the fee and the backoff |
| `MCBooking` | its instance for TLC | roles, capacities, symmetry |
| `CohortBookingProofs` | type correctness and the inductive invariant | `TypeCorrect`, `Agreement` |
| `BookingSafetyProofs` | EXTENDS `BookingLifecycleProofs`: the promises about resources | `MentorNeverDoubleBooked`, `VenueNeverOverfull`, `BookingIsLedger` |
| `BookingLifecycleProofs` | EXTENDS `CohortBookingProofs`: what the statuses, the outbox, the reroutes, the audit trail and the settlements promise | nine theorems, one for each of the other properties of the booking |
| `Attendance` | EXTENDS `CohortBooking`: groups, records, batches and artifacts | `CheckGroup`/`InsertGroup`/`AbandonGroup` are the two halves of CreateAttendanceGroup and its failure, `BatchItem`/`BatchItemFails` one turn of the batch loop |
| `AttendanceProofs` | EXTENDS `Attendance` and `BookingSafetyProofs`: attendance, and the promises of booking with attendance beside it | `AttendanceInvariant` and ten theorems from it |
| `MCAttendance` | its instance for TLC | batches that are sent |
| `Outbox` | the table, the worker, and the process that dies | `Start` is Run's recovery, `Claim` ClaimJob, `Succeed`/`Err`/`ErrPermanently` the handler's return, `Complete`/`Fail` the report |
| `AtLeastOnce` | what the outbox promises, abstractly: handled to the end before it counts as done, settled once and for all | `Outbox` implements it (`ImplementsAtLeastOnce`) |
| `OutboxProofs` | EXTENDS `Outbox` | its invariants, the fence, `OutboxIsAtLeastOnce` |
| `MCOutbox` | its instance for TLC | a job that only fails |
| `Transactions` | `Repository.Transact` over SQLite, statement by statement, for three kinds of request | `BeginTx`, `Commit`, `Rollback` are Transact; `Executor` is what a repository in a transaction reads through; `Insert`, `Release` the repository methods that write two tables |
| `SerialStore` | what a handler may believe of Transact: one request at a time, all or nothing | `Transactions` implements it (`ImplementsSerial`) |
| `TransactionsProofs` | EXTENDS `Transactions` | pairs of rows, `TransactionsAreSerial` |
| `MCTransactions` | its instance for TLC | which addition a cancellation undoes |
| `Accounts` | users, sessions, and a request from its arrival to its answer | `Authenticate` is the middleware, `CheckLogin` and `CreateSession` the two statements of Login, `Logout`, `ListCohorts` and `Operate` the handlers |
| `MCAccounts` | its instance for TLC | symmetry |
| `Server` | EXTENDS `Accounts`: the process, from `storage.Open` to its exit | `main` of a process is the place in `run`; `Select`, `Drain`, `Join`, `Stop` its branches; `Recover`, `WorkerEnds`, `Listen` the two goroutines |
| `ServerProofs` | EXTENDS `Server`: the proofs about `Accounts` and about `Server` | the steps of a request are proved once and serve both |
| `MCServer` | its instance for TLC | the bootstrap account |
| `Idempotency` | `Do` in five steps over `idempotency_keys` | `Begin`, `GetIdempotency`, `Operation`, `PutIdempotency`, `Return`; `PutFails` and `CutOff` are the other ends, the latter after any step |
| `IdempotencyProofs` | EXTENDS `Idempotency` | whose outcome, which outcome, how often |
| `MCIdempotency` | its instance for TLC | symmetry |

An operator named `Bug...` is a plausible fault, beside the operator of the code
it would replace. With the fault in place the property it belongs to must fail:
`PROJECT.json` pairs each property of each passing run with one. No
specification uses them.

## How the code is read

**Handlers are atomic.** A method inside `Transact` is one action; an error, a
cancelled context, a busy database or a crash rolls back, which is a stutter.
`Transactions` shows it of SQLite's rules, which are modelled from its use: a
snapshot from the first statement on, one writer, and no writer on a snapshot
that is no longer current (it fails with `SQLITE_BUSY`). What has no such transaction is split: CreateAttendanceGroup
(check, then insert), RecordAttendanceBatch (one transaction per item), the
worker (claim, handle, report). AcknowledgeRisk reads and writes without one
transaction, but nothing ever changes what it reads (owner and plan revision),
so one action stands for both.

**Identifiers** are random: an insert takes any identifier no row has. Texts
and the version numbers of holds, assignments and groups are left out; of the
audit events their number is kept, by action and cohort. The version of a cohort is kept, since every write of the row goes through
it; inside one transaction its check cannot fail, so it is no guard.

**Time.** `now` counts ticks, `TicksPerSecond` to the second; with more than one
tick the text order is not the order of time. In `Outbox` times are relative
(`due`, `age`), so that the clock may run for ever, and in whole seconds: there
the text order and the order of time agree, and what a fraction could add (a
job found due, or stale, up to a second late) delays a step that fairness
delays by any amount already.

**Roles and catalogue** are constants: no handler changes an account, a venue or
a mentor after its creation. Every guard `Require(u, roles)` is in the action.

**Amounts.** `Wrap` is the product of two int64 and `Quot` Go's quotient; `Half`
stands for 2^63. The fee wraps around for amounts that the instance of
`booking_contention` contains (20 at a rate of 50 with `Half` = 512), and so does
the backoff of `outbox` (with `Half` = 4 seconds: 1, capped, negative, zero; the
fifth and last attempt is the retry after the zero). A `due` below zero is a time years ago, as in the code.

**Requests.** In `Accounts` every statement on the database is a step; the
operation behind a private route is one step (its own steps are `CohortBooking`
and `Attendance`). "unauthorized" stands for 401 and 403, "refused" for the
other answers of a request that changed nothing, "failed" for an internal error
or a client that has gone: the operation may have taken effect before. That a
session's time is over may happen at any moment (`Expire`); that a user is
deactivated is nothing the code does but everything it checks.

**Processes.** In `Server` a signal cancels the context of every statement of
the start-up. What is ready first wakes the waiting `select`, and of several
branches that are ready when it is reached any may be taken. The worker's loop
over jobs is `Outbox`; here it recovers, loops, fails to recover or ends.
Each process is started in an environment that is `fit` for it, or not: one whose
database file cannot be used or is locked by a foreign program, whose bootstrap
email is not spelled as it is stored, whose email or password `CreateUser`
refuses (a password under ten characters or beyond bcrypt's limit, an email
without `@`), or whose address cannot be bound. Where a start meets what is unfit it
may fail (`StatementFails`, `CreateBootstrap`, `Listen`); where it does not, it goes
on, as a bad password does no harm once the account is there. A statement may
also fail because another process keeps the database busy. A recovery that fails
and a kill count as faults and not as failed starts; what `config.Load` refuses
fails before anything is opened.

**Ends of a call of `Do`.** The context may be cancelled, or the process end, after
each of the five steps, so also when the outcome is stored and nobody was told.

**Bounds**, each a constant that a guard names: `MaxNow` and `MaxTime` (the
clock), `MaxReroutes`, `MaxCreating` (group requests between check and
insertion), `MaxCrashes`, `MaxLosses`, `MaxFaults` (kills and failed recoveries
together). Identifiers, tokens and requests are finite sets, used once each. `HoldFor`, `StaleAfter` and `MaxBackoff` are the
code's two hours, thirty seconds and one minute, scaled down.

**Deadlock** is not checked anywhere: every cohort may be cancelled, every
identifier used up, every job finished, every request answered and every process
ended, after which the system rests.

## The runs

Distinct states are of one run with the given symmetry.

| run | question | instance | states |
|---|---|---|---|
| `booking_contention` | can competing cohorts overbook, or leave the tables in disagreement? | 2 cohorts of 1 or 2, 3 items, venues of 2 seats and 1 seat, 2 mentors, 3 whole-second times (so windows that overlap, adjoin and coincide), 2 reroutes, 2 amounts; the clock stands still | 436 000 |
| `booking_lifecycle` | does a status mean what it says? | 1 cohort, 2 leaders, operator and safety officer, 2 items, 3 amounts, a clock of 4 half seconds that passes both expiries | 106 000 |
| `attendance` | groups, records, batches, cancellation in between; do two cohorts keep their participants apart? | 2 cohorts that share the names of groups and participants, groups of 1 place, 2 batches, one that contradicts itself | 192 000 |
| `outbox` | claims, fences, terminal states; does every job settle? | 2 workers, 2 jobs of which one always fails, 5 attempts, 1 crash, 1 lost outcome, under fairness | 169 000 |
| `transactions` | is a handler one atomic step? | 3 additions to 1 seat, a cancellation, an application, 3 connections, 1 crash, under fairness | 7 400 |
| `accounts` | is anyone served who should not be? | 3 requests, 2 sessions, 2 users, with symmetry | 896 000 |
| `server` | do start and stop work, alone and beside another process? | 2 processes in environments fit or not, 1 request, 1 session, 2 faults, under fairness | 438 000 |
| `idempotency` | one outcome for one key? | 3 calls, 2 payloads, a clock of 6 half seconds, a time to live of 3 | 394 000 |

What they show.

*Booking.* `VenueCapacity`, `MentorExclusive`: in whole seconds, nothing is
overbooked by any order of adding, confirming, rerouting and releasing, and
`ImplementsLedger` says more: each step enters, moves or removes bookings of the
abstract ledger, with room in real time at every moment of the booking.
`IInv` (by its part `HoldsPaired`) and `RerouteTrail`: the plan item, the hold and
the assignment of an item never part, and the reroutes recorded lead to where it
stands.
`CancelledReleased`, `OutboxMatches`: a cancellation leaves nothing behind and is
settled and announced once. `SettlementFair`: the parts of a settlement add up
and are in range even when the fee overflows (the table's checks reject the
rest), and a shorter notice never costs less. `AuditMatches`: the version of a
cohort, its plan items, reroutes and settlement are accounted for by audit
events one by one. `ConfirmedComplete`, `ConfirmedAcknowledged`: no
partly expired plan and no unacknowledged cohort is confirmed.
`LifecycleSteps`, `ConfirmedInTime` bound what a step may do, and name where
the code is laxer than one would expect: a rejection may still be decided for,
and rewrites, a cohort that was cancelled meanwhile (only an approval asks
whether the cohort may move), and a hold that ends on a whole second may be
confirmed until that second is over, because the two times are compared as text.

*Attendance.* `GroupCapacity`, `BatchTruthful`, `ArtifactsEligible`,
`ActiveMeansAttended`, `AttendanceAudited`: attendance is
counted, reported, audited and used for the right cohort, whatever comes between.

*Outbox.* `ImplementsAtLeastOnce`: a job is succeeded only when its handler ran to
the end, and what is finished stays so, whatever late report, retry or recovery
comes. `ClaimsDistinct`, `FailureFenced`, `OutboxTypeOK` (with the order of the
queue): two workers on one table, of which one has been given up for dead while it
works, do not confuse each other's outcomes. `AttemptsAccounted`: a job is given up
only after a permanent error or its last attempt, and claimed beyond its
`max_attempts` at most once for each start of a process but the first.
`SettlesOrOrphaned`: every job is finished, or left running with no worker, also
when the backoff has overflowed.

*Transactions.* `ImplementsSerial`: the check of seats that a transaction made on
its snapshot still holds at its commit; `RowsPaired`: two tables that are written
together agree after any failure; `EveryTransactionEnds`: with more requests
than connections none waits for ever.

*Accounts.* `DeadStaysOut`: a request that comes after the end
of its session is not admitted, and after an answered logout nothing is carried
out, also when two logouts race. A request that was admitted before may still be
carried out after the logout: the principal is not read again.

*Server.* `ServingPrepared`: who serves has schema, account and the address to
itself. `FailedStartHadRival`: in a fit environment a start fails only beside another
process, never because of what an earlier one left half done, in whatever
environment that was. `CleanExitCutsNobody`: an exit after
a shutdown has answered every request and joined the worker.
`SignalEndsProcess`: the drain's ten seconds and the worker's return bound the end.

*Idempotency.* `AnswersAgree`, `StoredRunsOnce`: in the time to live of a key,
less the second in which texts are out of order, one outcome is given out, and
once it is stored the operation does not run again, also for a client that was cut
off before it was told. `OutcomeIsOwn`: nobody gets the outcome of another payload,
and nobody is refused before running but for another payload whose outcome was
stored under the key (its own client may never have heard of it) and is not of the
past.

Why the bounds are enough. Overbooking needs two cohorts and two windows that
overlap; three items allow a third window to be released or rerouted in between
and a sum of three rows to pass the capacity. A venue of two seats and sizes of
one and two reach exactly full, one too many, and the size that never fits. One
expired and one live hold in one plan need two items and a clock that moves
between them. An outbox fault of the fencing kind needs two workers, one job and
one recovery; a second job shows that the first does not block the queue; five
attempts retry after each case of the backoff. Reroutes matter one after
another for the trail: two of them. A second crash only repeats the first, except
for the attempts, whose bound counts the starts. Three additions for one seat make
two lose against the snapshot, one before and one after a cancellation. A logout
that finds its session revoked by another, and a request after both, are three
requests. Two processes are enough for every race at the start, for a start after a
kill and for a taken address. Two calls overlap and the third comes late; the
clock passes one expiry and the second around it.

**Fairness.** Weak fairness only, where the code runs on by itself. `Outbox`: of
`Work` (the loop of Run never stops by itself, and a handler's context ends after
ten seconds, so a handler returns), of `Start` (the process is started again) and
of the passing of time. `Transactions`: of the steps of a request (a handler runs
on, a statement waits no longer than `busy_timeout`, a free connection goes to who
waits). `Server`: of each goroutine and of the handling of a request. No fairness
says which way a handler ends, and none is asked of a crash, a signal, a lost
write or a request that comes.

## Findings

Four statements of the documents or the error texts are refuted, each
by a run of its own with a shortest counterexample.

| run | statement | what the code does |
|---|---|---|
| `booking_subsecond` | "mentor has an overlapping assignment" (`service/planning.go:74`) | the overlap check compares texts: `08:00:00Z` sorts after `08:00:00.5Z`, and an assignment that ends half a second after another starts is let through |
| `booking_reroute` | rerouting needs the capacity and the version (`README.md:38`) | it also needs the original hold's two hours not to be over, though a confirmed hold no longer expires |
| `attendance_race` | "attendance groups require a confirmed cohort" (`service/attendance.go:23`) | the cohort is read outside any transaction |
| `outbox_orphan` | "restart recovery" (`README.md:10`) | recovery runs once at start and takes only jobs locked for more than thirty seconds: after a quick restart a job stays running |

Not refuted, since no document says otherwise, but seen while modelling: an
expired hold keeps its seats until the cohort is cancelled, as no code sets the
status `expired`; one cohort may be planned in two venues at the same time; the
groups of a cohort may have more places together than it has participants; a
cohort that an operator applied for can never be confirmed, since only an owner
who is a leader may acknowledge; any leader may record attendance for any
cohort. Of the second kind, with something to do for who maintains the code:

- `BOOTSTRAP_EMAIL` with spaces around it: the account is stored under the trimmed
  address and looked for under the other, so the first start works and every
  later one fails on the unique address, though `README.md:74` calls repeated
  startup idempotent. In `Server` this is one of the environments that are not fit:
  without `fit` in it `FailedStartHadRival` does not hold.
- A job that ends its process is claimed again after each restart that finds it
  stale, whatever its `max_attempts` ("bounded retry", `README.md:10`): the bound
  that holds is `AttemptsAccounted`.
- Nothing raises the plan revision, so an acknowledgement covers items that are
  added after it ("current plan revision, risk acknowledgement", `README.md:34`).
- A signal that comes before `run` reaches its `select` may be noticed through
  the worker's end: then the process exits with status 0 and drains nothing
  (`README.md:18`). In `Server` this end is "quit", beside the "clean" one.
- A fee that overflows int64 may come out as zero or small and pass the table's
  checks; from the 35th attempt on the backoff is negative or zero.
- Two overlapping calls of `Do` with one key both run the operation, and the later
  one is told of a conflict after its operation took effect; so is one whose
  outcome could not be stored for any other reason.
- A record of `idempotency_keys` may end up to a second early, or late.
- `GET /v1/cohorts` answers with the limit that was asked for, while a limit
  outside 1 to 100 lists 20 cohorts.

## The proofs

Every property of a passing run is a theorem for every value of the constants,
but for the three that speak of liveness.

| module | theorem | says |
|---|---|---|
| `CohortBookingProofs` | `TypeCorrect`, `Agreement` | `Spec => []TypeOK`, `Spec => []IInv` |
| `BookingLifecycleProofs` | `ConfirmedIsComplete`, `ConfirmedIsAcknowledged` | `[]ConfirmedComplete`, `[]ConfirmedAcknowledged` |
| | `CancelledIsReleased`, `OutboxTellsTruth` | `[]CancelledReleased`, `[]OutboxMatches` |
| | `LifecycleFollowed`, `ConfirmedWhileHeld` | the action properties `LifecycleSteps`, `ConfirmedInTime` |
| | `ReroutesLeadHere`, `AuditTellsAll`, `SettlementsAreFair` | `[]RerouteTrail`, `[]AuditMatches`, `[]SettlementFair` |
| `BookingSafetyProofs` | `MentorNeverDoubleBooked`, `VenueNeverOverfull` | in whole seconds, `[]MentorExclusive` and `[]VenueCapacity` |
| | `BookingIsLedger` | in whole seconds, `Spec => ImplementsLedger` |
| `AttendanceProofs` | `AttendanceInvariant`, `AttendanceTypes` | `[]AttInv`, `[]AttendanceTypeOK` |
| | `GroupsFit`, `ActiveIsAttended`, `ArtifactsAreEligible`, `BatchesAreTruthful`, `AttendanceIsAudited` | the five invariants of the run `attendance` |
| | `BookingStands`, `LifecycleStands` | what booking promises, of `AttendanceSpec` |
| | `AttendanceIsLedger`, `RoomStands` | in whole seconds, the refinement and the two promises about resources, of `AttendanceSpec` |
| `OutboxProofs` | `OutboxTypes`, `NoClaimTwice`, `AttemptsAreAccounted`, `LateFailureFenced` | the invariants of the run `outbox` and `FailureFenced` |
| | `OutboxIsAtLeastOnce` | `Spec => ImplementsAtLeastOnce` |
| `TransactionsProofs` | `TransactionsTypes`, `RowsArePaired`, `TransactionsAreSerial` | types, `[]RowsPaired`, `Spec => ImplementsSerial` |
| `IdempotencyProofs` | `IdempotencyTypes`, `OutcomesAreOwn`, `AnswersAgreeInTime`, `RunsOnceInTime` | the four properties of the run `idempotency` |
| `ServerProofs` | `AccountsTypes`, `DeadSessionsStayOut` | of `AccountsSpec`: types, `[]DeadStaysOut` |
| | `ServerTypes`, `ServersArePrepared`, `StartsAreIdempotent`, `DeadStayOutOfServer`, `CleanExits` | of `Server`'s `Spec`: types, `[]ServingPrepared`, `[]FailedStartHadRival`, `[]DeadStaysOut`, `CleanExitCutsNobody` |

**What they assume.** The types of the constants, in a named ASSUME of the module
that declares them, evaluated by TLC in a run of each:

| assumption | beyond types it says |
|---|---|
| `BookingAssumption` | `Items` is finite, without which a sum of seats means nothing; a venue has a seat (the table's check) |
| `TicksAssumption` | one to ten ticks in a second |
| `HalfAssumption` | half the range of an int64 is positive |
| `AttendanceAssumption` | a batch that is sent has an item (the handler refuses the empty one) |
| `OutboxAssumption` | at least one attempt, a positive longest backoff |
| `TransactionsAssumption` | a request is of one kind; `Nobody` is no request |
| `IdempotencyAssumption` | a positive time to live; an outcome is no error |
| `ServerAssumption` | the account to create has one of the addresses |

Nothing bounds the numbers of cohorts, users, workers, jobs, requests or processes.
The bounds of TLC's runs (`MaxNow`, `MaxReroutes`, `MaxCrashes`, ...) are constants
in the theorems as well: any natural number. One hypothesis is stated in the
theorems that need it: `WholeSeconds`, every time in a request is a whole second
(`booking_subsecond` refutes `MentorExclusive` without it).

**Booking: the inductive invariant.** `TypeOK` alone is not inductive: that a
release writes a row that exists, or that a decision finds its cohort, depends on
how the tables go together. `IInv` adds

- `CohortStage`: the status of a cohort against that of its application, and the
  plan revision that never leaves 1;
- `HoldsPaired`: the three tables agree row by row;
- `PlanStage`: the status of a plan's rows is a function of that of the cohort
  (held while planned, confirmed from then on, released once cancelled).

Confirmation is the step that needs all of them: it updates the two tables with
different conditions, and only because the numbers of changed rows agree, and
every row of a planned cohort is held in both tables, are all of them changed.
`booking_lifecycle` checks `IInv` before the proof does.

**Booking: what a status means.** `ConfirmedComplete` is `PlanStage` read backwards,
but for the plan that is not empty, and `ConfirmedAcknowledged` needs the past: that
an acknowledgement is its leader's (`AckStage`), and that a cohort which came this
far has one and has an item (`DeliveredStage`). `SettledStage` says who is settled,
without which a job for a settlement (`OutboxMatches`) might be counted
twice. `LifecycleSteps` and `ConfirmedInTime` follow from the guards with `IInv`;
the second rests on `TextLTError`, which bounds by a second how far the order of
texts is from the order of times.

**Booking: trails and sums.** A reroute extends the chain of its item because rows
of `plan_items` are never deleted (`ReroutedItems`). The audit trail is proved by
cohort: either a step touches nothing that the record of the cohort counts, or it
adds one event with one version; `LifeCorrect` leaves a number `ahead` open for
versions that others raise, which attendance uses. `SettlementFair` compares two
settlements, so it needs to know how each came about: `SettledAsRated`, the fee is
that of the notice at its time, and the start of a cohort never moves. The lemmas
on the arithmetic (`WrapUp`, `QuotUp`, `FeeShare`) are about `Wrap` and `Quot` for
any width.

**Booking: the mentor.** `MentorExclusive` is kept by AddPlanItem because the text
order is the order of time in whole seconds, and by the rest because none changes
a mentor or a window, or brings a row back to life.

**Booking: the venue.** The seats of a set of holds are the size of a set of pairs
(hold, seat), so that sums are cardinalities: adding a hold adds a disjoint set of
pairs (`SeatsPlusOne`), and the holds that are live at a moment t of the new window
are among those that the check counted over the whole window (`CountedSeats`,
`SeatsMonotone`). At a moment outside the window nothing is added. Rerouting is
the same step with the hold taken from its old venue, where the sum can only
fall; confirming changes no sum and releasing lowers them.

**Booking: the ledger.** The entry of an item is made of its hold and its
assignment, both live or neither (`IInv`). AddPlanItem enters one, Reroute moves
one, Cancel removes a set, and all else leaves the entries as they are; the room
that the ledger asks for at every moment is what the two arguments above give.

**Attendance.** The invariant carries that of booking along (`BookingInv`), since
each reads what the other writes. Two parts are not obvious. A group fits because
`Attending` counts those with a seat, and an insertion that takes a seat has seen
one free in the same transaction. `First` is the version that the first record
adds: records, their events and the version of the cohort are tied together
through it, because the first record alone is not only an insertion. That a group
is never one of a cohort which was not confirmed once holds across the gap
between check and insertion because the notice is never taken back (`AllNoticed`),
though the status is (`attendance_race`). The composition rests on one lemma,
`StepsOfAttendance`: every step is one of booking or leaves its tables alone, up to
a cohort that goes from confirmed to active; with it each promise of booking is
proved again from the lemmas of booking, and no argument is repeated.

**Outbox.** `Typed`, `Queued` and `Blank` keep the queue: the waiting jobs, each
once, in the order of `available_at`, which the insertion of a set of recovered
jobs must not disturb (`QueueInsert`). A claim is named by job and attempt
number, and that number only grows: so a late report is of an older claim
(`ClaimsKnown`), and `ReportsHonest` says that it tells what the handler did.
`RunsPaid` bounds runs of a handler by claims. `AttemptsAccounted` is inductive only
with the claims counted against starts: `OverLimit` says that a job above its limit
had a start for each claim above it, and that one that waits, about to be claimed
once more, has a start to spare. The simulation maps `pending`, `retry` and
`running` to "open"; recovery, retry and claim are stutters.

**Transactions.** `ViewsCurrent` is what makes the deferred transaction serial: while
nobody has committed since its snapshot, the view of a transaction is the
committed rows with its own writes, and the check it made holds of the committed
rows. A transaction with a snapshot that is no longer current cannot write, so a
commit is the abstract request carried out at once; every other end is the
abstract failure.

**Idempotency.** A row is overwritten once it is expired by the text order; which
outcomes were ever stored is the history `stored`. `RowsRemember` says of every
outcome ever stored that it is still the row's, or a time to live, less a second,
behind it; `Spaced` says the same of any two. With a time to live of less than a
second the two say nothing, and `AnswersAgree` asks nothing.

**Accounts and server.** `Over` (revoked, expired, or of a user who is deactivated)
is never taken back; a request that came after its session was over remains
unadmitted from then on, since authentication reads the row after its arrival
(`CallOK`). For the process, `RowOK` says what lies behind each place of `run`
(schema, account, closed listener) and that each way to fail needs, in a fit
environment, another process: a migration that is there while this one is
migrating, an account that came between look and insertion, a database that is
busy, an address that is taken. `RivalsKnown` makes the
other process one that ran beside it. `JoiningIsDrained` carries "no request in
flight" from the drain to the exit; it holds because a closed listener lets no
request in.

**Only model-checked.** `SettlesOrOrphaned`, `EveryTransactionEnds` and
`SignalEndsProcess` are liveness under fairness, and `ReroutePossible` speaks of
ENABLED: both are out of the prover's reach. The statements that the violation
runs refute are refuted by TLC.

## What is not covered

- *Not modelled*: the configuration (read once, no state) and the helpers
  (`apperr`, `clock`, `requestctx`, `repository`, constructors: no state).
- *Catalogue*: rows that are written once, in one transaction, by an operation
  that no route calls; constants of the booking.
- *HTTP interface*: decoding, encoding, status codes, query parameters and paging
  are left out; of a request its routing, authentication and end are modelled.
- *Security*: passwords, hashes and tokens are abstract; a token is never guessed
  or drawn twice.
- *Idempotency* is modelled as it stands: no handler uses it at this commit.
- *Sub-second text order in the outbox*: see the reading of time above.
- *The delivery of a notice* as one property of booking and outbox together: the
  two modules meet in `CreateJob`, the last write of `Confirm` and `Cancel`.

## Plan

Done: every component with state is modelled, three abstract specifications are
implemented, and every safety property and every refinement is proved. Next:

1. what the abstract specifications promise by themselves, so that the
   refinements carry it over: no time with a mentor twice in `SeatLedger`, nothing
   succeeded that was not handled in `AtLeastOnce`, no seat too many in `SerialStore`;
2. the delivery of a notice: a job that `Confirm` or `Cancel` created is the
   `Create` of an `Outbox` whose jobs are those of `CohortBooking`.
