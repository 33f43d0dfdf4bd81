-------------------------------- MODULE Outbox --------------------------------
(***************************************************************************)
(* The durable outbox: the table outbox_jobs (internal/storage/jobs.go),   *)
(* the worker that empties it (internal/worker/worker.go), and the process *)
(* around it, which may crash or be restarted between any two steps.       *)
(*                                                                         *)
(* Times are relative, in seconds, so that the clock may run for ever:     *)
(* due is how long until available_at (0: it has come; less: it was long   *)
(* past when it was written), age how long ago locked_at was, up to just   *)
(* over the stale limit.  ClaimJob takes the oldest available_at: queue    *)
(* keeps the waiting jobs in that order.                                   *)
(***************************************************************************)
EXTENDS Int64, Sequences, FiniteSets

CONSTANTS
    Jobs,           \* identifiers; a job is created with a handler's request
    Workers,        \* processes on the database (the program starts one)
    Permanent,      \* jobs whose handling can only fail for good
    MaxAttempts,
    StaleAfter,     \* seconds
    MaxBackoff,     \* seconds; one minute in the code
    MaxCrashes,     \* bound: processes that end without notice, in all
    MaxLosses       \* bound: outcomes whose write fails, in all

ASSUME OutboxAssumption ==
    /\ Permanent \subseteq Jobs
    /\ MaxAttempts \in Nat \ {0}
    /\ StaleAfter \in Nat
    /\ MaxBackoff \in Nat \ {0}
    /\ MaxCrashes \in Nat
    /\ MaxLosses \in Nat

VARIABLES
    job,        \* row by identifier: status, attempts, due, age
    queue,      \* pending and retry jobs by available_at
    worker,     \* what each process is doing, with its copy of the claim
    handled,    \* history: number of times the handler of a job returned nil
    crashes,    \* history, for the bound
    losses      \* history, for the bound

vars == <<job, queue, worker, handled, crashes, losses>>

JobStatus == {"none", "pending", "running", "retry", "succeeded", "failed"}
Waiting == {"pending", "retry"}
Terminal == {"succeeded", "failed"}

Down == [pc |-> "down"]
Idle == [pc |-> "idle"]

Init ==
    /\ job = [j \in Jobs |-> [status |-> "none", attempts |-> 0, due |-> 0,
                              age |-> 0]]
    /\ queue = <<>>
    /\ worker = [w \in Workers |-> Down]
    /\ handled = [j \in Jobs |-> 0]
    /\ crashes = 0 /\ losses = 0

-----------------------------------------------------------------------------
BugEnqueue(q, j, due) == Append(q, j)
\* j goes behind every waiting job that is due no later than it (a due below
\* zero is years ago: before all that has come since)
Enqueue(q, j, due) ==
    LET n == Cardinality({k \in DOMAIN q : job[q[k]].due <= due})
    IN SubSeq(q, 1, n) \o <<j>> \o SubSeq(q, n + 1, Len(q))

\* The product overflows before it is compared with the cap: it turns
\* negative once attempts is large enough, and zero after that.
Backoff(attempts) ==
    LET backoff == Wrap(2 ^ (attempts - 1))
    IN IF backoff > MaxBackoff THEN MaxBackoff ELSE backoff

\* CreateJob: the last write of Confirm or Cancel
CreateJob(j) ==
    /\ job[j].status = "none"
    /\ job' = [job EXCEPT ![j].status = "pending"]
    /\ queue' = Enqueue(queue, j, 0)
    /\ UNCHANGED <<worker, handled, crashes, losses>>

-----------------------------------------------------------------------------
Stale == {j \in Jobs : job[j].status = "running" /\ job[j].age > StaleAfter}

\* Run: the one UPDATE of RecoverStaleJobs, then the loop.  The rows that it
\* recovers are available from now on, in any order.
Start(w) ==
    /\ worker[w] = Down
    /\ job' = [j \in Jobs |->
          IF j \in Stale THEN [job[j] EXCEPT !.status = "retry", !.due = 0,
                                             !.age = 0]
                         ELSE job[j]]
    /\ \E order \in [1 .. Cardinality(Stale) -> Stale] :
          /\ \A j \in Stale : \E k \in DOMAIN order : order[k] = j
          /\ LET n == Cardinality({k \in DOMAIN queue : job[queue[k]].due <= 0})
             IN queue' = SubSeq(queue, 1, n) \o order
                           \o SubSeq(queue, n + 1, Len(queue))
    /\ worker' = [worker EXCEPT ![w] = Idle]
    /\ UNCHANGED <<handled, crashes, losses>>

BugClaimable(j) == job[j].due = 0 /\ job[j].status \in Waiting
Claimable(j) == job[j].due <= 0 /\ job[j].status \in Waiting

BugClaimed(row) == [status |-> "running", due |-> 0, age |-> 0,
                    attempts |-> IF row.attempts < MaxAttempts
                                 THEN row.attempts + 1 ELSE MaxAttempts]
Claimed(row) == [status |-> "running", due |-> 0, attempts |-> row.attempts + 1,
                 age |-> 0]

\* ClaimJob; the worker keeps the row as it was claimed.
Claim(w) ==
    /\ worker[w] = Idle
    /\ queue # <<>>
    /\ LET j == Head(queue) IN
          /\ Claimable(j)
          /\ job' = [job EXCEPT ![j] = Claimed(@)]
          /\ worker' = [worker EXCEPT ![w] =
                [pc |-> "handling", job |-> j, attempts |-> Claimed(job[j]).attempts]]
    /\ queue' = Tail(queue)
    /\ UNCHANGED <<handled, crashes, losses>>

HandlerReturns(w, pc) ==
    /\ worker[w].pc = "handling"
    /\ worker' = [worker EXCEPT ![w].pc = pc]
    /\ UNCHANGED <<job, queue, crashes, losses>>

Report(err) == IF err THEN "failing" ELSE "completing"

Succeed(w) ==
    /\ HandlerReturns(w, Report(FALSE))
    /\ worker[w].job \notin Permanent
    /\ handled' = [handled EXCEPT ![worker[w].job] = @ + 1]

\* an error, or the job's timeout
Err(w) ==
    /\ HandlerReturns(w, Report(TRUE))
    /\ worker[w].job \notin Permanent
    /\ UNCHANGED handled

\* a PermanentError, also for a kind that has no handler
ErrPermanently(w) ==
    /\ HandlerReturns(w, "refusing")
    /\ worker[w].job \in Permanent
    /\ UNCHANGED handled

-----------------------------------------------------------------------------
BugCompletable(w) == TRUE
Completable(w) == job[worker[w].job].status = "running"

Complete(w) ==
    /\ worker[w].pc = "completing"
    /\ IF Completable(w)
       THEN /\ job' = [job EXCEPT ![worker[w].job].status = "succeeded",
                                  ![worker[w].job].age = 0]
       ELSE UNCHANGED job
    /\ worker' = [worker EXCEPT ![w] = Idle]
    /\ UNCHANGED <<queue, handled, crashes, losses>>

BugRetryable(w) == job[worker[w].job].status = "running"
Retryable(w) == /\ job[worker[w].job].status = "running"
                /\ job[worker[w].job].attempts = worker[w].attempts

BugPermanentlyLate(w) == worker[w].pc = "refusing" \/ worker[w].attempts > MaxAttempts
Permanently(w) == worker[w].pc = "refusing" \/ worker[w].attempts >= MaxAttempts

Fail(w) ==
    LET j == worker[w].job
        due == Backoff(worker[w].attempts)
    IN /\ worker[w].pc \in {"failing", "refusing"}
       /\ \/ ~ Retryable(w) /\ UNCHANGED <<job, queue>>
          \/ /\ Retryable(w) /\ Permanently(w)
             /\ job' = [job EXCEPT ![j].status = "failed", ![j].age = 0]
             /\ UNCHANGED queue
          \/ /\ Retryable(w) /\ ~ Permanently(w)
             /\ job' = [job EXCEPT ![j].status = "retry", ![j].due = due,
                                   ![j].age = 0]
             /\ queue' = Enqueue(queue, j, due)
       /\ worker' = [worker EXCEPT ![w] = Idle]
       /\ UNCHANGED <<handled, crashes, losses>>

\* The process ends, or the write of an outcome fails and the loop goes on
\* (the database is busy, or a shutdown has cancelled the context): either
\* way what the worker knew of its job is gone.
Crash(w) ==
    /\ worker[w] # Down
    /\ crashes < MaxCrashes
    /\ crashes' = crashes + 1
    /\ worker' = [worker EXCEPT ![w] = Down]
    /\ UNCHANGED <<job, queue, handled, losses>>

LoseOutcome(w) ==
    /\ worker[w].pc \in {"completing", "failing", "refusing"}
    /\ losses < MaxLosses
    /\ losses' = losses + 1
    /\ worker' = [worker EXCEPT ![w] = Idle]
    /\ UNCHANGED <<job, queue, handled, crashes>>

Tick ==
    /\ job' = [j \in Jobs |->
          [job[j] EXCEPT
             !.due = IF @ > 0 THEN @ - 1 ELSE @,
             !.age = IF job[j].status = "running" /\ @ <= StaleAfter THEN @ + 1
                                                                   ELSE @]]
    /\ job' # job
    /\ UNCHANGED <<queue, worker, handled, crashes, losses>>

Work(w) ==
    \/ Claim(w) \/ Succeed(w) \/ Err(w) \/ ErrPermanently(w)
    \/ Complete(w) \/ Fail(w)

Next ==
    \/ \E j \in Jobs : CreateJob(j)
    \/ \E w \in Workers : Start(w) \/ Work(w) \/ Crash(w) \/ LoseOutcome(w)
    \/ Tick

Spec == Init /\ [][Next]_vars

\* Run never stops by itself, a handler is given ten seconds, the process is
\* started again when it is down, and time passes.
Fairness == WF_vars(Tick) /\ \A w \in Workers : WF_vars(Start(w)) /\ WF_vars(Work(w))

FairSpec == Spec /\ Fairness

-----------------------------------------------------------------------------
(* Properties.                                                             *)

Holding(w) == worker[w].pc \notin {"down", "idle"}

\* Types; and the queue is the table's waiting jobs, each once, in the order
\* of their available_at.
OutboxTypeOK ==
    /\ job \in [Jobs -> [status : JobStatus, attempts : Nat,
                         due : -Half .. MaxBackoff, age : 0 .. StaleAfter + 1]]
    /\ queue \in Seq(Jobs)
    /\ {queue[k] : k \in DOMAIN queue} = {j \in Jobs : job[j].status \in Waiting}
    /\ \A k, n \in DOMAIN queue : k < n =>
          queue[k] # queue[n] /\ job[queue[k]].due <= job[queue[n]].due
    /\ \A w \in Workers : Holding(w) => worker[w].job \in Jobs

\* No two workers ever hold one claim: the attempt number a claim returns is
\* held by one worker, also after a stale job was taken from a live one.
ClaimsDistinct ==
    \A w, x \in Workers : Holding(w) /\ Holding(x) /\ w # x =>
        <<worker[w].job, worker[w].attempts>> # <<worker[x].job, worker[x].attempts>>

\* The attempts are honest: a job is given up only after a permanent error or
\* its last attempt; it is claimed beyond its max_attempts only after a
\* restart, at most once for each start of a process but the first; and its
\* handler never ran to the end more often than the job was claimed.
AttemptsAccounted ==
    LET starts == crashes + Cardinality({w \in Workers : worker[w] # Down})
    IN \A j \in Jobs :
          /\ job[j].status = "failed" =>
                j \in Permanent \/ job[j].attempts >= MaxAttempts
          /\ job[j].attempts > MaxAttempts =>
                job[j].attempts - MaxAttempts < starts
          /\ handled[j] <= job[j].attempts

AsPromised == INSTANCE AtLeastOnce WITH
    state <- [j \in Jobs |-> IF job[j].status \in Waiting \cup {"running"}
                            THEN "open" ELSE job[j].status],
    runs <- handled

\* The table, the claims, recoveries and late reports do what the outbox
\* promises: a job is succeeded only when its handler ran to the end, and no
\* late report, retry or recovery brings back what is finished.
ImplementsAtLeastOnce == AsPromised!Spec

\* A report about an earlier claim changes a job only to succeeded: a failure
\* is fenced by the attempt number.
FailureFenced ==
    [][\A w \in Workers, j \in Jobs :
          /\ worker[w].pc \in {"failing", "refusing"} /\ worker'[w] = Idle
          /\ worker[w].job = j /\ worker[w].attempts # job[j].attempts
          => job'[j] = job[j]]_vars

Orphaned(j) == job[j].status = "running"
               /\ \A w \in Workers : Holding(w) => worker[w].job # j

\* Every job that was created is finished in the end, or else left running
\* with no worker that knows of it.
SettlesOrOrphaned ==
    \A j \in Jobs : job[j].status # "none"
                      ~> job[j].status \in Terminal \/ Orphaned(j)

\* README.md:10 promises restart recovery: every job is finished in the end,
\* processes being started again.
EveryJobSettles ==
    \A j \in Jobs : job[j].status # "none" ~> job[j].status \in Terminal
===============================================================================
