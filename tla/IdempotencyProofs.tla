--------------------------- MODULE IdempotencyProofs ---------------------------
(***************************************************************************)
(* Proofs of the properties of Idempotency, for all keys, payloads, times  *)
(* to live and numbers of calls.  A key's row may be overwritten, so the   *)
(* invariant keeps, for every outcome that was stored, given out or not,   *)
(* how far behind the row of its key it is.                                *)
(***************************************************************************)
EXTENDS Idempotency, TLAPS

Reasons == {"none", "conflict", "error"}
Pcs == {"new", "begun", "absent", "ran", "stored", "answered"}
Rows == [payload : Payloads, outcome : Requests, created : 0 .. MaxTime,
         expires : 0 .. MaxTime + TTL]
Calls == [pc : Pcs, key : Keys \cup {"none"}, payload : Payloads \cup {"none"},
          now : 0 .. MaxTime, answer : Requests \cup Reasons]

\* the operation of r took effect and its outcome was stored
Stored(r) == r \in stored

Typed ==
    /\ clock \in 0 .. MaxTime
    /\ records \in [Keys -> Rows \cup {NoRecord}]
    /\ request \in [Requests -> Calls]
    /\ ran \subseteq Requests
    /\ stored \subseteq ran

Progress ==
    \A q \in Requests :
        /\ request[q].pc = "new" \/ (request[q].key \in Keys /\ request[q].payload \in Payloads)
        /\ request[q].pc # "answered" => request[q].answer = "none"
        /\ request[q].pc \in {"new", "begun", "absent"} => q \notin ran
        /\ request[q].pc \in {"ran", "stored"} => q \in ran
        /\ request[q].pc = "ran" => q \notin stored
        /\ request[q].pc = "stored" => q \in stored

\* r is a run of the key and the payload of call c
RunOf(r, key, payload) ==
    r \in ran /\ Stored(r) /\ request[r].key = key /\ request[r].payload = payload

RowsHonest ==
    \A k \in Keys : records[k] # NoRecord =>
        /\ RunOf(records[k].outcome, k, records[k].payload)
        /\ records[k].created = request[records[k].outcome].now
        /\ records[k].expires = records[k].created + TTL

AnswersHonest ==
    \A q \in Requests : Answered(q) =>
        RunOf(request[q].answer, request[q].key, request[q].payload)

\* the second half of OutcomeIsOwn
Refusal(q) ==
    \E r \in Requests :
        /\ Stored(r) /\ request[r].key = request[q].key
        /\ request[r].payload # request[q].payload
        /\ request[q].now < request[r].now + TTL + TicksPerSecond
RefusalsHonest ==
    \A q \in Requests \ ran : request[q].answer = "conflict" => Refusal(q)

\* what Begin fixes of a call
SameCall(c, d) == c.key = d.key /\ c.payload = d.payload /\ c.now = d.now

\* u is more than a time to live less a second after t
Later(u, t) == t + TTL < u + TicksPerSecond

\* The row of a key is that of its last stored outcome; the others are a time
\* to live behind it.  (With a time to live of less than a second there is
\* nothing to say.)
RowsRemember ==
    TTL >= TicksPerSecond =>
        \A r \in Requests : Stored(r) =>
            LET row == records[request[r].key]
            IN /\ row # NoRecord
               /\ row.outcome = r \/ Later(row.created, request[r].now)

Spaced ==
    \A r, s \in Requests :
        Stored(r) /\ Stored(s) /\ r # s /\ request[r].key = request[s].key =>
            \/ Later(request[r].now, request[s].now)
            \/ Later(request[s].now, request[r].now)

IdemInv ==
    /\ Typed
    /\ Progress
    /\ RowsHonest
    /\ AnswersHonest
    /\ RefusalsHonest
    /\ RowsRemember
    /\ Spaced

-----------------------------------------------------------------------------
(* The order of the texts, against the order of time.                      *)

\* Texts in order: the times are, but for less than a second.
LEMMA TextInOrder ==
  ASSUME NEW t \in Nat, NEW u \in Nat, TextLT(t, u)
  PROVE  t < u + TicksPerSecond
  BY TicksAssumption DEF TextLT, FormatTime

\* Texts not in order: the first time is later, but for less than a second.
LEMMA TextNotInOrder ==
  ASSUME NEW t \in Nat, NEW u \in Nat, ~ TextLT(t, u)
  PROVE  u < t + TicksPerSecond
<1>. DEFINE T == TicksPerSecond
<1>1. T \in 1 .. 10
  BY TicksAssumption
<1>2. CASE t + T = u
  <2>1. (t + T) % T = t % T
    BY <1>1
  <2>2. WholeSecond(u) <=> WholeSecond(t)
    BY <1>2, <2>1 DEF WholeSecond
  <2>. QED
    BY <1>1, <1>2, <2>2 DEF TextLT, FormatTime
<1>3. CASE t + T # u
  BY <1>1, <1>3 DEF TextLT, FormatTime
<1>. QED
  BY <1>2, <1>3

\* A row is told apart from none, and an outcome from a reason.
LEMMA Kinds ==
  /\ \A row \in Rows : row # NoRecord
  /\ Requests \cap Reasons = {}
<1>1. \A row \in Rows : row.outcome \in Requests
  BY DEF Rows
<1>2. NoRecord.outcome = "none"
  BY DEF NoRecord
<1>. QED
  BY <1>1, <1>2, IdempotencyAssumption DEF Reasons

-----------------------------------------------------------------------------
(* The invariant is preserved.                                             *)

\* What a call does before an outcome is stored, and when none is given out.
LEMMA QuietStep ==
  ASSUME IdemInv, NEW q \in Requests, request[q].pc # "answered",
         NEW c \in Calls, request' = [request EXCEPT ![q] = c],
         c.answer \in Reasons,
         c.pc \notin {"new", "stored"}, c.key \in Keys, c.payload \in Payloads,
         request[q].pc = "stored" => SameCall(c, request[q]) /\ c.pc = "answered",
         c.pc # "answered" => c.answer = "none",
         c.pc \in {"begun", "absent"} => q \notin ran',
         c.pc = "ran" => q \in ran',
         ran' = ran \/ ran' = ran \cup {q},
         c.answer = "conflict" => q \in ran' \/ Refusal(q)',
         UNCHANGED <<clock, records, stored>>
  PROVE  IdemInv'
<1>. USE DEF IdemInv, Stored
<1>1. Typed'
  BY DEF Typed
<1>2. request'[q] = c /\ \A x \in Requests : x # q => request'[x] = request[x]
  BY DEF Typed
<1>3. /\ ~ Answered(q) /\ ~ Answered(q)'
      /\ \A x \in Requests : Stored(x)' <=> Stored(x)
      /\ \A x \in Requests : Stored(x) => SameCall(request'[x], request[x])
  <2>1. ~ Answered(q) /\ ~ Answered(q)'
    BY <1>2, Kinds DEF Progress, Answered, Reasons
  <2>2. request[q].pc \in Pcs
    BY DEF Typed, Calls
  <2>3. Stored(q) => request[q].pc = "stored"
    BY <2>2 DEF Progress, Typed, Pcs
  <2>. QED
    BY <1>2, <2>1, <2>3 DEF SameCall
<1>4. ran \subseteq ran' /\ \A x \in Requests : x # q => (x \in ran' <=> x \in ran)
  OBVIOUS
<1>5. \A x \in Requests : \A k, p : RunOf(x, k, p) => RunOf(x, k, p)'
  BY <1>3, <1>4 DEF RunOf, SameCall
<1>6. Progress'
  <2>1. request[q].pc \in Pcs
    BY DEF Typed, Calls
  <2>2. c.pc = "ran" => q \notin stored
    BY <2>1 DEF Progress, Typed, Pcs
  <2>. QED
    BY <1>2, <1>4, <2>2 DEF Progress
<1>7. RowsHonest'
  <2>. SUFFICES ASSUME NEW k \in Keys, records[k] # NoRecord
                PROVE  /\ RunOf(records[k].outcome, k, records[k].payload)'
                       /\ records[k].created = request'[records[k].outcome].now
                       /\ records[k].expires = records[k].created + TTL
    BY DEF RowsHonest
  <2>1. records[k].outcome \in Requests
    BY DEF Typed, Rows
  <2>. QED
    BY <1>3, <1>5, <2>1 DEF RowsHonest, RunOf, SameCall
<1>8. AnswersHonest'
  <2>. SUFFICES ASSUME NEW x \in Requests, Answered(x)'
                PROVE  RunOf(request[x].answer, request[x].key, request[x].payload)'
    BY DEF AnswersHonest
  <2>1. x # q /\ Answered(x)
    BY <1>2, <1>3 DEF Answered
  <2>. QED
    BY <1>2, <1>5, <2>1 DEF AnswersHonest, Answered
<1>9. RefusalsHonest'
  <2>. SUFFICES ASSUME NEW x \in Requests \ ran', request'[x].answer = "conflict"
                PROVE  Refusal(x)'
    BY DEF RefusalsHonest
  <2>1. CASE x = q
    BY <1>2, <2>1
  <2>2. CASE x # q
    BY <1>2, <1>3, <1>4, <2>2 DEF RefusalsHonest, Refusal, SameCall
  <2>. QED
    BY <2>1, <2>2
<1>10. RowsRemember'
  BY <1>3 DEF RowsRemember, SameCall
<1>11. Spaced'
  BY <1>3 DEF Spaced, SameCall
<1>. QED
  BY <1>1, <1>6, <1>7, <1>8, <1>9, <1>10, <1>11

\* An outcome is given out: to the call that stored it, or once more.
LEMMA GiveStep ==
  ASSUME IdemInv, NEW q \in Requests, request[q].pc \in {"begun", "stored"},
         NEW r \in Requests, RunOf(r, request[q].key, request[q].payload),
         Answer(q, r), UNCHANGED <<clock, records, ran, stored>>
  PROVE  IdemInv'
<1>. USE DEF IdemInv, Stored
<1>. DEFINE k == request[q].key
<1>1. request[q].answer = "none" /\ k \in Keys
  BY DEF Progress
<1>2. /\ request'[q] = [request[q] EXCEPT !.pc = "answered", !.answer = r]
      /\ \A x \in Requests : x # q => request'[x] = request[x]
  BY DEF Typed, Answer
<1>3. Typed'
  <2>1. request'[q] \in Calls
    BY <1>2 DEF Typed, Calls, Pcs
  <2>. QED
    BY <2>1 DEF Typed, Answer
<1>4. /\ request'[q].answer = r /\ request'[q].key = k /\ request'[q].pc = "answered"
      /\ request'[q].payload = request[q].payload /\ request'[q].now = request[q].now
  BY <1>2 DEF Typed, Calls
<1>5. \A x \in Requests : Stored(x)' <=> Stored(x)
  OBVIOUS
<1>6. \A x \in Requests : SameCall(request'[x], request[x])
  BY <1>2, <1>4 DEF SameCall
<1>7. \A x \in Requests : \A key, p : RunOf(x, key, p) => RunOf(x, key, p)'
  BY <1>5, <1>6 DEF RunOf, SameCall
<1>8. Progress'
  BY <1>1, <1>2, <1>4 DEF Progress
<1>9. RowsHonest'
  <2>. SUFFICES ASSUME NEW key \in Keys, records[key] # NoRecord
                PROVE  /\ RunOf(records[key].outcome, key, records[key].payload)'
                       /\ records[key].created = request'[records[key].outcome].now
                       /\ records[key].expires = records[key].created + TTL
    BY DEF RowsHonest
  <2>1. records[key].outcome \in Requests
    BY DEF Typed, Rows
  <2>. QED
    BY <1>7, <1>6, <2>1 DEF RowsHonest, RunOf, SameCall
<1>10. AnswersHonest'
  <2>. SUFFICES ASSUME NEW x \in Requests, Answered(x)'
                PROVE  RunOf(request[x].answer, request[x].key, request[x].payload)'
    BY DEF AnswersHonest
  <2>1. CASE x = q
    BY <1>4, <1>7, <2>1
  <2>2. CASE x # q
    BY <1>2, <1>7, <2>2 DEF AnswersHonest, Answered
  <2>. QED
    BY <2>1, <2>2
<1>11. RefusalsHonest'
  <2>. SUFFICES ASSUME NEW x \in Requests \ ran, request'[x].answer = "conflict"
                PROVE  Refusal(x)'
    BY DEF RefusalsHonest
  <2>1. x # q
    BY <1>4, Kinds DEF Reasons
  <2>2. Refusal(x)
    BY <1>2, <2>1 DEF RefusalsHonest
  <2>. QED
    BY <1>5, <1>6, <2>2 DEF Refusal, SameCall
<1>12. RowsRemember'
  BY <1>5, <1>6 DEF RowsRemember, SameCall
<1>13. Spaced'
  BY <1>5, <1>6 DEF Spaced, SameCall
<1>. QED
  BY <1>3, <1>8, <1>9, <1>10, <1>11, <1>12, <1>13

\* An outcome is stored: by then the row it replaces, and with it every
\* earlier outcome of the key, is out of date.
LEMMA StoreStep ==
  ASSUME IdemInv, NEW q \in Requests, request[q].pc = "ran",
         NEW k, k = request[q].key, Writable(k, request[q].now),
         records' = [records EXCEPT ![k] = RecordOf(q)],
         request' = [request EXCEPT ![q].pc = "stored"],
         stored' = stored \cup {q}, UNCHANGED <<clock, ran>>
  PROVE  IdemInv'
<1>. USE DEF IdemInv, Stored
<1>1. /\ request[q].answer = "none" /\ k \in Keys /\ request[q].payload \in Payloads
      /\ q \in ran /\ q \notin stored /\ request[q] \in Calls
  BY DEF Progress, Typed
<1>2. /\ request'[q] = [request[q] EXCEPT !.pc = "stored"]
      /\ \A x \in Requests : x # q => request'[x] = request[x]
  BY DEF Typed
<1>3. /\ request'[q].answer = "none" /\ request'[q].key = k /\ request'[q].pc = "stored"
      /\ request'[q].payload = request[q].payload /\ request'[q].now = request[q].now
  BY <1>1, <1>2 DEF Calls
<1>4. /\ RecordOf(q).payload = request[q].payload /\ RecordOf(q).outcome = q
      /\ RecordOf(q).created = request[q].now /\ RecordOf(q).expires = request[q].now + TTL
  BY DEF RecordOf
<1>5. records'[k] = RecordOf(q) /\ \A key \in Keys : key # k => records'[key] = records[key]
  BY <1>1 DEF Typed
<1>6. RecordOf(q) \in Rows
  BY <1>1, IdempotencyAssumption DEF RecordOf, Rows, Calls
<1>7. Typed'
  <2>1. request'[q] \in Calls
    BY <1>1, <1>2 DEF Calls, Pcs
  <2>. QED
    BY <1>1, <1>6, <2>1 DEF Typed
<1>8. ~ Stored(q) /\ Stored(q)' /\ \A x \in Requests : Stored(x)' <=> Stored(x) \/ x = q
  BY <1>1
<1>9. \A x \in Requests : /\ request'[x].key = request[x].key /\ request'[x].now = request[x].now
                          /\ request'[x].payload = request[x].payload
  BY <1>2, <1>3
<1>10. \A x \in Requests : \A key, p : RunOf(x, key, p) => RunOf(x, key, p)'
  BY <1>8, <1>9 DEF RunOf
<1>11. RunOf(q, k, request[q].payload)'
  BY <1>1, <1>3 DEF RunOf
<1>12. Progress'
  BY <1>1, <1>2, <1>3 DEF Progress
<1>13. RowsHonest'
  <2>. SUFFICES ASSUME NEW key \in Keys, records'[key] # NoRecord
                PROVE  /\ RunOf(records[key].outcome, key, records[key].payload)'
                       /\ records'[key].created = request'[records'[key].outcome].now
                       /\ records'[key].expires = records'[key].created + TTL
    BY DEF RowsHonest
  <2>1. CASE key = k
    BY <1>3, <1>4, <1>5, <1>11, <2>1
  <2>2. CASE key # k
    <3>1. records'[key] = records[key] /\ records[key].outcome \in Requests
      BY <1>5, <2>2 DEF Typed, Rows
    <3>. QED
      BY <1>9, <1>10, <3>1 DEF RowsHonest
  <2>. QED
    BY <2>1, <2>2
<1>14. AnswersHonest'
  <2>. SUFFICES ASSUME NEW x \in Requests, Answered(x)'
                PROVE  RunOf(request[x].answer, request[x].key, request[x].payload)'
    BY DEF AnswersHonest
  <2>1. x # q
    BY <1>3, Kinds DEF Answered, Reasons
  <2>. QED
    BY <1>2, <1>10, <2>1 DEF AnswersHonest, Answered
<1>15. RefusalsHonest'
  <2>. SUFFICES ASSUME NEW x \in Requests \ ran, request'[x].answer = "conflict"
                PROVE  Refusal(x)'
    BY DEF RefusalsHonest
  <2>1. Refusal(x)
    BY <1>1, <1>2 DEF RefusalsHonest
  <2>. QED
    BY <1>8, <1>9, <2>1 DEF Refusal
<1>16. ASSUME NEW r \in Requests, Stored(r), request[r].key = k, TTL >= TicksPerSecond
       PROVE  Later(request[q].now, request[r].now)
  <2>1. PICK t \in Nat, u \in Nat : t = request[r].now /\ u = request[q].now
    BY DEF Typed, Calls
  <2>2. records[k] # NoRecord
    BY <1>16 DEF RowsRemember
  <2>3. PICK created \in Nat : /\ records[k].created = created
                               /\ records[k].expires = created + TTL
    BY <1>1, <2>2 DEF Typed, Rows, RowsHonest
  <2>4. t <= created
    BY <1>1, <1>16, <2>1, <2>2, <2>3, TicksAssumption, IdempotencyAssumption
       DEF RowsRemember, RowsHonest, Later
  <2>5. created + TTL < u + TicksPerSecond
    BY <2>1, <2>2, <2>3, TextNotInOrder, IdempotencyAssumption DEF Writable
  <2>. QED
    BY <2>1, <2>4, <2>5, TicksAssumption, IdempotencyAssumption DEF Later
<1>17. RowsRemember'
  <2>. SUFFICES ASSUME TTL >= TicksPerSecond, NEW r \in Requests, Stored(r)'
                PROVE  LET row == records'[request'[r].key]
                       IN /\ row # NoRecord
                          /\ row.outcome = r \/ Later(row.created, request'[r].now)
    BY DEF RowsRemember
  <2>1. CASE r = q
    BY <1>3, <1>4, <1>5, <1>6, <2>1, Kinds
  <2>2. CASE r # q /\ request[r].key = k
    BY <1>4, <1>5, <1>6, <1>8, <1>9, <1>16, <2>2, Kinds
  <2>3. CASE r # q /\ request[r].key # k
    <3>1. Stored(r) /\ request[r].key \in Keys
      BY <1>8, <2>3, Kinds DEF Progress, Typed, Calls, Reasons
    <3>. QED
      BY <1>5, <1>9, <2>3, <3>1 DEF RowsRemember
  <2>. QED
    BY <2>1, <2>2, <2>3
<1>18. ASSUME NEW r \in Requests, Stored(r), request[r].key = k
       PROVE  \/ Later(request[q].now, request[r].now)
              \/ Later(request[r].now, request[q].now)
  <2>1. CASE TTL < TicksPerSecond
    <3>1. PICK t \in Nat, u \in Nat : t = request[r].now /\ u = request[q].now
      BY DEF Typed, Calls
    <3>. QED
      BY <2>1, <3>1, TicksAssumption, IdempotencyAssumption DEF Later
  <2>2. CASE ~ TTL < TicksPerSecond
    BY <1>16, <1>18, <2>2, TicksAssumption, IdempotencyAssumption
  <2>. QED
    BY <2>1, <2>2
<1>19. Spaced'
  <2>. SUFFICES ASSUME NEW r \in Requests, NEW s \in Requests, Stored(r)', Stored(s)', r # s,
                       request[r].key = request[s].key
                PROVE  \/ Later(request[r].now, request[s].now)
                       \/ Later(request[s].now, request[r].now)
    BY <1>9 DEF Spaced
  <2>1. CASE r = q
    BY <1>8, <1>18, <2>1
  <2>2. CASE s = q
    BY <1>8, <1>18, <2>2
  <2>3. CASE r # q /\ s # q
    BY <1>8, <2>3 DEF Spaced
  <2>. QED
    BY <2>1, <2>2, <2>3
<1>. QED
  BY <1>7, <1>12, <1>13, <1>14, <1>15, <1>17, <1>19

LEMMA IdemStep ==
  ASSUME IdemInv, [Next]_vars
  PROVE  IdemInv'
<1>. USE DEF IdemInv
<1>1. ASSUME NEW q \in Requests, NEW k \in Keys, NEW p \in Payloads, Begin(q, k, p)
      PROVE  IdemInv'
  <2>. DEFINE c == [pc |-> "begun", key |-> k, payload |-> p, now |-> clock, answer |-> "none"]
  <2>1. c \in Calls /\ c.answer \in Reasons /\ c.answer # "conflict"
    BY DEF Typed, Calls, Pcs, Reasons
  <2>2. q \notin ran
    BY <1>1 DEF Begin, Progress
  <2>. QED
    BY <1>1, <2>1, <2>2, QuietStep DEF Begin
<1>2. ASSUME NEW q \in Requests, InFlight(q),
             NEW reason \in {"error", "conflict"}, Answer(q, reason),
             UNCHANGED <<clock, records, ran, stored>>,
             reason = "conflict" => q \in ran \/ Refusal(q)'
      PROVE  IdemInv'
  <2>. DEFINE c == [request[q] EXCEPT !.pc = "answered", !.answer = reason]
  <2>1. request[q] \in Calls /\ request[q].key \in Keys /\ request[q].payload \in Payloads
    BY <1>2 DEF Typed, Progress, InFlight
  <2>2. /\ c \in Calls /\ c.answer = reason /\ c.pc = "answered" /\ c.key \in Keys
        /\ c.payload \in Payloads /\ c.answer \in Reasons /\ SameCall(c, request[q])
    BY <1>2, <2>1 DEF Calls, Pcs, Reasons, SameCall
  <2>3. request' = [request EXCEPT ![q] = c]
    BY <1>2 DEF Answer, Typed
  <2>. HIDE DEF c
  <2>. QED
    BY <1>2, <2>2, <2>3, QuietStep DEF InFlight
<1>3. ASSUME NEW q \in Requests, request[q].pc \in {"begun", "absent"},
             NEW pc \in {"absent", "ran"}, request' = [request EXCEPT ![q].pc = pc],
             ran' = IF pc = "ran" THEN ran \cup {q} ELSE ran,
             UNCHANGED <<clock, records, stored>>
      PROVE  IdemInv'
  <2>. DEFINE c == [request[q] EXCEPT !.pc = pc]
  <2>1. /\ request[q] \in Calls /\ request[q].key \in Keys /\ request[q].payload \in Payloads
        /\ request[q].answer = "none" /\ q \notin ran
    BY <1>3 DEF Typed, Progress
  <2>2. /\ c \in Calls /\ c.answer = "none" /\ c.pc = pc /\ c.key \in Keys
        /\ c.payload \in Payloads /\ c.answer \in Reasons
    BY <1>3, <2>1 DEF Calls, Pcs, Reasons
  <2>3. request' = [request EXCEPT ![q] = c]
    BY <1>3 DEF Typed
  <2>. HIDE DEF c
  <2>. QED
    BY <1>3, <2>1, <2>2, <2>3, QuietStep
<1>4. ASSUME NEW q \in Requests, GetIdempotency(q)
      PROVE  IdemInv'
  <2>. DEFINE k == request[q].key
  <2>0. request[q].pc = "begun" /\ InFlight(q) /\ UNCHANGED <<clock, records, ran, stored>>
    BY <1>4 DEF GetIdempotency, InFlight
  <2>1. CASE Active(k, request[q].now) /\ SamePayload(q) /\ Answer(q, records[k].outcome)
    <3>1. PICK r \in Requests : r = records[k].outcome /\ RunOf(r, k, records[k].payload)
      BY <2>0, <2>1 DEF Typed, Rows, Progress, RowsHonest, Active
    <3>. QED
      BY <2>0, <2>1, <3>1, GiveStep DEF SamePayload
  <2>2. CASE Active(k, request[q].now) /\ ~ SamePayload(q) /\ Answer(q, "conflict")
    <3>1. PICK r \in Requests : r = records[k].outcome /\ RunOf(r, k, records[k].payload)
      BY <2>0, <2>2 DEF Typed, Rows, Progress, RowsHonest, Active
    <3>2. /\ k \in Keys /\ records[k].expires = request[r].now + TTL
          /\ TextLT(request[q].now, records[k].expires)
      BY <2>0, <2>2, <3>1 DEF Progress, RowsHonest, Active
    <3>3. request[q].now < request[r].now + TTL + TicksPerSecond
      <4>1. PICK t \in Nat, u \in Nat : t = request[r].now /\ u = request[q].now
        BY DEF Typed, Calls
      <4>2. t + TTL \in Nat
        BY IdempotencyAssumption
      <4>. QED
        BY <3>2, <4>1, <4>2, TextInOrder
    <3>4. /\ r # q /\ request'[r] = request[r] /\ request'[q].key = k
          /\ request'[q].payload = request[q].payload /\ request'[q].now = request[q].now
      BY <2>0, <2>2, <3>1 DEF RunOf, Progress, Answer, Typed, Calls
    <3>5. Refusal(q)'
      BY <2>0, <2>2, <3>1, <3>3, <3>4 DEF Refusal, RunOf, Stored, SamePayload
    <3>. QED
      BY <1>2, <2>0, <2>2, <3>5
  <2>3. CASE request' = [request EXCEPT ![q].pc = "absent"]
    BY <1>3, <2>0, <2>3
  <2>. QED
    BY <1>4, <2>1, <2>2, <2>3 DEF GetIdempotency
<1>5. ASSUME NEW q \in Requests, Operation(q)
      PROVE  IdemInv'
  BY <1>2, <1>3, <1>5 DEF Operation, InFlight
<1>6. ASSUME NEW q \in Requests, PutIdempotency(q)
      PROVE  IdemInv'
  <2>1. q \in ran /\ request[q].pc = "ran"
    BY <1>6 DEF PutIdempotency, Progress
  <2>. QED
    BY <1>2, <1>6, <2>1, StoreStep DEF PutIdempotency, InFlight
<1>7. ASSUME NEW q \in Requests, Return(q)
      PROVE  IdemInv'
  <2>1. RunOf(q, request[q].key, request[q].payload)
    BY <1>7 DEF Return, Progress, RunOf, Stored
  <2>. QED
    BY <1>7, <2>1, GiveStep DEF Return
<1>8. ASSUME NEW q \in Requests, PutFails(q) \/ CutOff(q)
      PROVE  IdemInv'
  <2>1. request[q].pc = "ran" => q \in ran
    BY DEF Progress
  <2>. QED
    BY <1>2, <1>8, <2>1 DEF PutFails, CutOff, InFlight
<1>9. ASSUME Tick \/ UNCHANGED vars
      PROVE  IdemInv'
  <2>1. UNCHANGED <<records, request, ran, stored>> /\ clock' \in 0 .. MaxTime
    BY <1>9, IdempotencyAssumption DEF Tick, vars, Typed
  <2>. QED
    BY <2>1 DEF Typed, Progress, RowsHonest, RunOf, Stored, AnswersHonest, Answered,
                RefusalsHonest, Refusal, RowsRemember, Spaced
<1>. QED
  BY <1>1, <1>4, <1>5, <1>6, <1>7, <1>8, <1>9 DEF Next, Do

\* The inductive invariant of Idempotency.
THEOREM IdempotencyInvariant == Spec => []IdemInv
<1>1. Init => IdemInv
  <2>. SUFFICES ASSUME Init PROVE IdemInv
    OBVIOUS
  <2>1. Typed
    BY IdempotencyAssumption DEF Init, Typed, Calls, Pcs, Reasons, NewRequest
  <2>2. \A q \in Requests : request[q].answer = "none" /\ ~ Stored(q) /\ ~ Answered(q)
    BY Kinds DEF Init, NewRequest, Stored, Answered, Reasons
  <2>. QED
    BY <2>1, <2>2 DEF Init, IdemInv, Progress, NewRequest, RowsHonest, AnswersHonest,
                      RefusalsHonest, RowsRemember, Spaced
<1>. QED
  BY <1>1, IdemStep, PTL DEF Spec

\* Every row of idempotency_keys is that of an operation that took effect, with
\* its times; every call is at a step of Do.
THEOREM IdempotencyTypes == Spec => []IdempotencyTypeOK
<1>1. IdemInv => IdempotencyTypeOK
  BY DEF IdemInv, Typed, Rows, Calls, Pcs, Reasons, IdempotencyTypeOK, InFlight, Answered
<1>. QED
  BY <1>1, IdempotencyInvariant, PTL

\* Do gives a call only the outcome of a run of its own key and payload, and
\* refuses one that did not run only for another payload of its key whose
\* outcome was stored, given out or not, and not in the past.
THEOREM OutcomesAreOwn == Spec => []OutcomeIsOwn
<1>1. IdemInv => OutcomeIsOwn
  BY DEF IdemInv, Typed, AnswersHonest, RunOf, RefusalsHonest, Refusal, Stored, OutcomeIsOwn
<1>. QED
  BY <1>1, IdempotencyInvariant, PTL

\* Two outcomes given out for one key are of runs that began at least a time to
\* live apart, less a second.
THEOREM AnswersAgreeInTime == Spec => []AnswersAgree
<1>1. ASSUME IdemInv PROVE AnswersAgree
  <2>. SUFFICES ASSUME NEW q \in Requests, NEW r \in Requests, Answered(q), Answered(r),
                       request[q].key = request[r].key, request[q].answer # request[r].answer
                PROVE  Apart(request[q].answer, request[r].answer) > TTL - TicksPerSecond
    BY DEF AnswersAgree
  <2>1. PICK x \in Requests, y \in Requests :
            /\ x = request[q].answer /\ y = request[r].answer /\ Stored(x) /\ Stored(y)
            /\ request[x].key = request[y].key
    BY <1>1 DEF IdemInv, AnswersHonest, RunOf, Answered
  <2>2. Later(request[x].now, request[y].now) \/ Later(request[y].now, request[x].now)
    BY <1>1, <2>1 DEF IdemInv, Spaced
  <2>3. PICK t \in Nat, u \in Nat : t = request[x].now /\ u = request[y].now
    BY <1>1 DEF IdemInv, Typed, Calls
  <2>. QED
    BY <2>1, <2>2, <2>3, TicksAssumption, IdempotencyAssumption DEF Later, Apart
<1>. QED
  BY <1>1, IdempotencyInvariant, PTL

\* The operation of a key whose outcome was stored, though its client may never
\* have been told, is run again only after its time to live, less a second.
THEOREM RunsOnceInTime == Spec => StoredRunsOnce
<1>1. ASSUME IdemInv, [Next]_vars, NEW q \in Requests, NEW r \in Requests,
             request[q].pc = "begun", request'[q].pc = "absent", Stored(r),
             request[r].key = request[q].key
      PROVE  Apart(q, r) > TTL - TicksPerSecond
  <2>. DEFINE k == request[q].key
  <2>1. GetIdempotency(q) /\ ~ Active(k, request[q].now)
    <3>1. \A x \in Requests : \A reason : request[x].pc # "absent" /\ Answer(x, reason) =>
              request'[q].pc # "absent"
      BY <1>1 DEF IdemInv, Typed, Calls, Answer
    <3>. QED
      BY <1>1, <3>1 DEF IdemInv, Typed, Next, Do, Begin, GetIdempotency, Operation,
                        PutIdempotency, Return, PutFails, CutOff, Answer, Tick, vars
  <2>2. PICK t \in Nat, u \in Nat : t = request[r].now /\ u = request[q].now
    BY <1>1 DEF IdemInv, Typed, Calls
  <2>3. k \in Keys
    BY <1>1 DEF IdemInv, Progress
  <2>4. CASE TTL < TicksPerSecond
    BY <2>2, <2>4, TicksAssumption, IdempotencyAssumption DEF Apart
  <2>5. CASE ~ TTL < TicksPerSecond
    <3>1. records[k] # NoRecord
      BY <1>1, <2>5, TicksAssumption, IdempotencyAssumption DEF IdemInv, RowsRemember
    <3>2. PICK created \in Nat : /\ records[k].created = created
                                 /\ records[k].expires = created + TTL
      BY <1>1, <2>3, <3>1 DEF IdemInv, Typed, Rows, RowsHonest
    <3>3. t <= created
      BY <1>1, <2>2, <2>3, <2>5, <3>1, <3>2, TicksAssumption, IdempotencyAssumption
         DEF IdemInv, RowsRemember, RowsHonest, Later
    <3>4. created + TTL < u + TicksPerSecond
      BY <2>1, <2>2, <3>1, <3>2, TextNotInOrder, IdempotencyAssumption DEF Active
    <3>. QED
      BY <2>2, <3>3, <3>4, TicksAssumption, IdempotencyAssumption DEF Apart
  <2>. QED
    BY <2>4, <2>5
<1>2. IdemInv /\ [Next]_vars =>
        [\A q \in Requests, r \in stored :
          /\ request[q].pc = "begun" /\ request'[q].pc = "absent"
          /\ request[r].key = request[q].key
          => Apart(q, r) > TTL - TicksPerSecond]_vars
  BY <1>1 DEF Stored, IdemInv, Typed
<1>. QED
  BY <1>2, IdempotencyInvariant, PTL DEF Spec, StoredRunsOnce
===============================================================================
