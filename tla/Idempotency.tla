----------------------------- MODULE Idempotency ------------------------------
(***************************************************************************)
(* Idempotent operations: Do of internal/idempotency/service.go over the   *)
(* table idempotency_keys of internal/storage/jobs.go.  Do reads the clock *)
(* once, looks the key up, runs the operation, stores its outcome and      *)
(* returns it: five steps, which other requests and the passing of time    *)
(* come between, and after each of which the process may end or the        *)
(* context be cancelled.                                                   *)
(*                                                                         *)
(* A key stands for a scope and a key, a payload for its hash.  An outcome *)
(* is named by the request that ran the operation; a client that tries     *)
(* again sends another request with the same key.                          *)
(***************************************************************************)
EXTENDS TimeText, FiniteSets

CONSTANTS
    Requests, Keys, Payloads,
    TTL,        \* ticks
    MaxTime     \* bound: the clock stops there

ASSUME IdempotencyAssumption ==
    /\ TTL \in Nat \ {0}
    /\ MaxTime \in Nat
    \* an outcome is told apart from an answer that is none
    /\ Requests \cap {"none", "conflict", "error"} = {}

VARIABLES
    clock,
    records,    \* table idempotency_keys, by key
    request,    \* progress of each call of Do; answer: an outcome, or why not
    ran,        \* history: requests whose operation took effect
    stored      \* history: requests whose outcome was stored

vars == <<clock, records, request, ran, stored>>

NoRecord == [outcome |-> "none"]
NewRequest == [pc |-> "new", key |-> "none", payload |-> "none", now |-> 0,
               answer |-> "none"]
InFlight(q) == request[q].pc \in {"begun", "absent", "ran", "stored"}

Init ==
    /\ clock = 0
    /\ records = [k \in Keys |-> NoRecord]
    /\ request = [q \in Requests |-> NewRequest]
    /\ ran = {}
    /\ stored = {}

Answer(q, answer) ==
    request' = [request EXCEPT ![q].pc = "answered", ![q].answer = answer]

-----------------------------------------------------------------------------
Begin(q, k, p) ==
    /\ request[q].pc = "new"
    /\ request' = [request EXCEPT ![q] =
          [pc |-> "begun", key |-> k, payload |-> p, now |-> clock,
           answer |-> "none"]]
    /\ UNCHANGED <<clock, records, ran, stored>>

BugActive(k, now) == records[k] # NoRecord /\ TextLT(now, records[k].created)
\* "expires_at > now", in the order of the texts
Active(k, now) == records[k] # NoRecord /\ TextLT(now, records[k].expires)

BugSamePayload(q) == TRUE
SamePayload(q) == records[request[q].key].payload = request[q].payload

GetIdempotency(q) ==
    LET k == request[q].key
    IN /\ request[q].pc = "begun"
       /\ \/ /\ Active(k, request[q].now) /\ SamePayload(q)
             /\ Answer(q, records[k].outcome)
          \/ /\ Active(k, request[q].now) /\ ~ SamePayload(q)
             /\ Answer(q, "conflict")
          \/ /\ ~ Active(k, request[q].now)
             /\ request' = [request EXCEPT ![q].pc = "absent"]
       /\ UNCHANGED <<clock, records, ran, stored>>

\* An operation that fails has no effect (it is one transaction), and Do
\* stores nothing of it.
Operation(q) ==
    /\ request[q].pc = "absent"
    /\ \/ /\ request' = [request EXCEPT ![q].pc = "ran"]
          /\ ran' = ran \cup {q}
       \/ Answer(q, "error") /\ UNCHANGED ran
    /\ UNCHANGED <<clock, records, stored>>

BugRecordOf(q) == [payload |-> request[q].payload, outcome |-> request[q].answer,
                   created |-> request[q].now, expires |-> request[q].now + TTL]
RecordOf(q) == [payload |-> request[q].payload, outcome |-> q,
                created |-> request[q].now, expires |-> request[q].now + TTL]

BugWritable(k, created) == TRUE
\* the WHERE of the upsert: "expires_at <= created_at", as texts
Writable(k, created) ==
    ~ (records[k] # NoRecord /\ TextLT(created, records[k].expires))

PutIdempotency(q) ==
    LET k == request[q].key
    IN /\ request[q].pc = "ran"
       /\ \/ /\ Writable(k, request[q].now)
             /\ records' = [records EXCEPT ![k] = RecordOf(q)]
             /\ request' = [request EXCEPT ![q].pc = "stored"]
             /\ stored' = stored \cup {q}
          \/ /\ ~ Writable(k, request[q].now)
             /\ Answer(q, "conflict")
             /\ UNCHANGED <<records, stored>>
       /\ UNCHANGED <<clock, ran>>

Return(q) ==
    /\ request[q].pc = "stored"
    /\ Answer(q, q)
    /\ UNCHANGED <<clock, records, ran, stored>>

\* Do calls every failure to store a conflict, except a cancelled context.
PutFails(q) ==
    /\ request[q].pc = "ran"
    /\ Answer(q, "conflict")
    /\ UNCHANGED <<clock, records, ran, stored>>

\* The lookup finds the database busy, the context is cancelled or the process
\* gone: before the operation or the store took effect, or after it, when what
\* was done stays and nobody is told.
CutOff(q) ==
    /\ InFlight(q)
    /\ Answer(q, "error")
    /\ UNCHANGED <<clock, records, ran, stored>>

Tick ==
    /\ clock < MaxTime
    /\ clock' = clock + 1
    /\ UNCHANGED <<records, request, ran, stored>>

Do(q) ==
    \/ \E k \in Keys, p \in Payloads : Begin(q, k, p)
    \/ GetIdempotency(q) \/ Operation(q) \/ PutIdempotency(q)
    \/ Return(q) \/ PutFails(q) \/ CutOff(q)

Next == (\E q \in Requests : Do(q)) \/ Tick

Spec == Init /\ [][Next]_vars

-----------------------------------------------------------------------------
(* Properties.                                                             *)

Answered(q) == request[q].answer \in Requests

IdempotencyTypeOK ==
    /\ clock \in 0 .. MaxTime
    /\ records \in [Keys -> [payload : Payloads, outcome : Requests,
                             created : 0 .. MaxTime, expires : 0 .. MaxTime + TTL]
                              \cup {NoRecord}]
    /\ \A q \in Requests :
          /\ InFlight(q) \/ request[q].pc \in {"new", "answered"}
          /\ Answered(q) \/ request[q].answer \in {"none", "conflict", "error"}
    /\ stored \subseteq ran /\ ran \subseteq Requests

\* A request gets what its own operation deserves.  It is answered only with
\* the outcome of a run of its key and its payload, one that took effect; and
\* refused before it ran only because the outcome of another payload was stored
\* under its key - whether anybody was told of it or not - and not because of
\* the past: that one was not begun a time to live and a second before.
OutcomeIsOwn ==
    /\ \A q \in Requests : Answered(q) =>
          LET r == request[q].answer
          IN /\ r \in ran
             /\ request[r].key = request[q].key
             /\ request[r].payload = request[q].payload
    /\ \A q \in Requests \ ran : request[q].answer = "conflict" =>
          \E r \in stored :
             /\ request[r].key = request[q].key
             /\ request[r].payload # request[q].payload
             /\ request[q].now < request[r].now + TTL + TicksPerSecond

\* how far apart two calls of Do read the clock
Apart(q, r) == IF request[q].now < request[r].now
               THEN request[r].now - request[q].now
               ELSE request[q].now - request[r].now

\* Two runs of one key whose outcomes were both given out began at least a
\* time to live apart, less the second by which texts may be out of order: no
\* order of lookups, runs and writes gives two outcomes out for one key.
AnswersAgree ==
    \A q, r \in Requests :
        /\ Answered(q) /\ Answered(r)
        /\ request[q].key = request[r].key
        /\ request[q].answer # request[r].answer
        => Apart(request[q].answer, request[r].answer) > TTL - TicksPerSecond

\* A client that tries again is safe from the moment the outcome is stored, also
\* when the answer never reached it: a request runs the operation of a key with
\* a stored outcome only after its time to live, less a second.  (Requests that
\* overlap, or whose outcome was not stored, may.)
StoredRunsOnce ==
    [][\A q \in Requests, r \in stored :
          /\ request[q].pc = "begun" /\ request'[q].pc = "absent"
          /\ request[r].key = request[q].key
          => Apart(q, r) > TTL - TicksPerSecond]_vars
===============================================================================
