----------------------------- MODULE OutboxProofs -----------------------------
(***************************************************************************)
(* Proofs about the outbox, for any number of jobs and processes, any      *)
(* limits and any number of crashes and lost outcomes: what the table and  *)
(* its queue look like, that no claim is held twice, that attempts are     *)
(* accounted for, that a late failure is fenced, and that the outbox       *)
(* implements AtLeastOnce.                                                 *)
(***************************************************************************)
EXTENDS Outbox, FiniteSetTheorems, SequenceTheorems, TLAPS

\* What a worker keeps of its claim, until its outcome is written or lost.
Claims == [pc : {"handling", "completing", "failing", "refusing"},
           job : Jobs, attempts : Nat \ {0}]

Rows == [status : JobStatus, attempts : Nat, due : -Half .. MaxBackoff,
         age : 0 .. StaleAfter + 1]

Created == {j \in Jobs : job[j].status # "none"}
Up == {w \in Workers : worker[w] # Down}

\* Types; in every state only finitely many rows and processes exist, so the
\* counts below mean something.
Typed ==
    /\ job \in [Jobs -> Rows]
    /\ worker \in [Workers -> {Down, Idle} \cup Claims]
    /\ handled \in [Jobs -> Nat]
    /\ crashes \in Nat /\ losses \in Nat
    /\ IsFiniteSet(Created) /\ IsFiniteSet(Up)

-----------------------------------------------------------------------------
(* Sequences in the order of a key.                                        *)

Distinct(q) == \A k, n \in DOMAIN q : k < n => q[k] # q[n]
Ordered(q, key) == \A k, n \in DOMAIN q : k < n => key[q[k]] <= key[q[n]]
UpToKey(q, key, d) == {k \in DOMAIN q : key[q[k]] <= d}
Items(q) == {q[k] : k \in DOMAIN q}
Insert(q, n, r) == SubSeq(q, 1, n) \o r \o SubSeq(q, n + 1, Len(q))

\* In a sequence in the order of its keys, the items up to a key are the first
\* ones, as many as there are: the place where Enqueue and Start insert.
LEMMA UpTo ==
  ASSUME NEW S, NEW key \in [S -> Int], NEW a \in Nat, NEW q \in [1 .. a -> S],
         Ordered(q, key), NEW d \in Int
  PROVE  LET n == Cardinality(UpToKey(q, key, d))
         IN  /\ n \in 0 .. a
             /\ \A k \in 1 .. a : key[q[k]] <= d <=> k <= n
<1>. DEFINE K == UpToKey(q, key, d)
<1>1. IsFiniteSet(K) /\ Cardinality(K) \in 0 .. a
  <2>1. IsFiniteSet(1 .. a) /\ Cardinality(1 .. a) = a
    BY FS_Interval
  <2>2. K \in SUBSET (1 .. a)
    BY DEF UpToKey
  <2>. QED
    BY <2>1, <2>2, FS_Subset, FS_CardinalityType
<1>2. PICK n \in 0 .. a : n = Cardinality(K)
  BY <1>1
<1>3. ASSUME NEW k \in 1 .. a, key[q[k]] <= d
      PROVE  k <= n
  <2>1. 1 .. k \in SUBSET K
    BY <1>3 DEF Ordered, UpToKey
  <2>2. Cardinality(1 .. k) = k
    BY FS_Interval
  <2>3. Cardinality(1 .. k) <= Cardinality(K)
    BY <1>1, <2>1, FS_Subset
  <2>. QED
    BY <1>2, <2>2, <2>3
<1>4. ASSUME NEW k \in 1 .. a, ~ (key[q[k]] <= d)
      PROVE  ~ (k <= n)
  <2>1. K \in SUBSET (1 .. k - 1)
    BY <1>4 DEF Ordered, UpToKey
  <2>2. IsFiniteSet(1 .. k - 1) /\ Cardinality(1 .. k - 1) = k - 1
    BY FS_Interval
  <2>3. Cardinality(K) <= Cardinality(1 .. k - 1)
    BY <2>1, <2>2, FS_Subset
  <2>. QED
    BY <1>2, <2>2, <2>3
<1>. QED
  BY <1>2, <1>3, <1>4

\* s has the first n items of q, then r, then the other items of q.
Inserted(s, q, a, n, r, b) ==
    /\ DOMAIN s = 1 .. a + b
    /\ \A k \in 1 .. n : s[k] = q[k]
    /\ \A k \in 1 .. b : s[n + k] = r[k]
    /\ \A k \in n + 1 .. a : s[k + b] = q[k]

\* What SubSeq and \o make of two sequences in Insert.
LEMMA InsertItems ==
  ASSUME NEW S, NEW q \in Seq(S), NEW r \in Seq(S),
         NEW n \in Nat, n <= Len(q)
  PROVE  /\ Insert(q, n, r) \in Seq(S)
         /\ Inserted(Insert(q, n, r), q, Len(q), n, r, Len(r))
<1>. DEFINE u == SubSeq(q, 1, n)
            v == SubSeq(q, n + 1, Len(q))
            x == u \o r
            s == x \o v
<1>1. Len(q) \in Nat /\ Len(r) \in Nat /\ \A k \in 1 .. Len(q) : q[k] \in S
  BY LenProperties, ElementOfSeq
<1>2. u \in Seq(S) /\ Len(u) = n /\ \A k \in 1 .. n : u[k] = q[k]
  <2>1. \A k \in 1 .. n : q[k] \in S
    BY <1>1
  <2>2. /\ u \in Seq(S)
        /\ Len(u) = IF 1 <= n THEN n - 1 + 1 ELSE 0
        /\ \A k \in 1 .. n - 1 + 1 : u[k] = q[1 + k - 1]
    BY <2>1, SubSeqProperties
  <2>. HIDE DEF u
  <2>. QED
    BY <1>1, <2>2
<1>3. v \in Seq(S) /\ Len(v) = Len(q) - n /\ \A k \in 1 .. Len(q) - n : v[k] = q[n + k]
  <2>1. \A k \in n + 1 .. Len(q) : q[k] \in S
    BY <1>1
  <2>2. /\ v \in Seq(S)
        /\ Len(v) = IF n + 1 <= Len(q) THEN Len(q) - (n + 1) + 1 ELSE 0
        /\ \A k \in 1 .. Len(q) - (n + 1) + 1 : v[k] = q[n + 1 + k - 1]
    BY <1>1, <2>1, SubSeqProperties
  <2>. HIDE DEF v
  <2>. QED
    BY <1>1, <2>2
<1>. HIDE DEF u, v
<1>4. /\ x \in Seq(S) /\ Len(x) = n + Len(r)
      /\ \A k \in 1 .. n + Len(r) : x[k] = IF k <= n THEN u[k] ELSE r[k - n]
  BY <1>2, ConcatProperties
<1>. HIDE DEF x
<1>5. /\ s \in Seq(S) /\ Len(s) = n + Len(r) + (Len(q) - n)
      /\ \A k \in 1 .. n + Len(r) + (Len(q) - n) :
            s[k] = IF k <= n + Len(r) THEN x[k] ELSE v[k - (n + Len(r))]
  <2>1. /\ x \o v \in Seq(S) /\ Len(x \o v) = Len(x) + Len(v)
        /\ \A k \in 1 .. Len(x) + Len(v) :
              (x \o v)[k] = IF k <= Len(x) THEN x[k] ELSE v[k - Len(x)]
    <3>1. x \in Seq(S) /\ v \in Seq(S)
      BY <1>3, <1>4
    <3>. QED
      BY <3>1, ConcatProperties
  <2>2. Len(x) = n + Len(r) /\ Len(v) = Len(q) - n
    BY <1>3, <1>4
  <2>. QED
    BY <2>1, <2>2, Zenon
<1>6. DOMAIN s = 1 .. n + Len(r) + (Len(q) - n)
  BY <1>5, LenProperties
<1>. HIDE DEF s
<1>7. Inserted(s, q, Len(q), n, r, Len(r))
  <2>1. PICK a \in Nat : a = Len(q)
    BY <1>1
  <2>2. PICK b \in Nat : b = Len(r)
    BY <1>1
  <2>3. /\ \A k \in 1 .. n : u[k] = q[k]
        /\ \A k \in 1 .. a - n : v[k] = q[n + k]
        /\ \A k \in 1 .. n + b : x[k] = IF k <= n THEN u[k] ELSE r[k - n]
        /\ DOMAIN s = 1 .. n + b + (a - n)
        /\ \A k \in 1 .. n + b + (a - n) :
              s[k] = IF k <= n + b THEN x[k] ELSE v[k - (n + b)]
    BY <1>2, <1>3, <1>4, <1>5, <1>6, <2>1, <2>2, Zenon
  <2>4. n <= a
    BY <2>1
  <2>5. n + b + (a - n) = a + b
    OBVIOUS
  <2>6. DOMAIN s = 1 .. a + b /\ \A k \in 1 .. a + b :
           s[k] = IF k <= n + b THEN x[k] ELSE v[k - (n + b)]
    BY <2>3, <2>5
  <2>7. \A k \in 1 .. n : s[k] = q[k]
    <3>1. \A k \in 1 .. n : k \in 1 .. a + b /\ k \in 1 .. n + b /\ k <= n + b /\ k <= n
      BY <2>4
    <3>. QED
      BY <2>3, <2>6, <3>1
  <2>8. \A k \in 1 .. b : s[n + k] = r[k]
    <3>. TAKE k \in 1 .. b
    <3>1. /\ n + k \in 1 .. a + b /\ n + k \in 1 .. n + b
          /\ n + k <= n + b /\ ~ (n + k <= n) /\ n + k - n = k
      BY <2>4
    <3>. QED
      BY <2>3, <2>6, <3>1
  <2>9. \A k \in n + 1 .. a : s[k + b] = q[k]
    <3>. TAKE k \in n + 1 .. a
    <3>1. /\ k + b \in 1 .. a + b /\ ~ (k + b <= n + b)
          /\ k + b - (n + b) = k - n /\ k - n \in 1 .. a - n /\ n + (k - n) = k
      BY <2>4
    <3>2. s[k + b] = v[k - n] /\ v[k - n] = q[k]
      BY <2>3, <2>6, <3>1
    <3>. QED
      BY <3>2
  <2>. QED
    BY <2>1, <2>2, <2>6, <2>7, <2>8, <2>9 DEF Inserted
<1>8. s = Insert(q, n, r)
  BY DEF s, x, u, v, Insert
<1>. QED
  BY <1>5, <1>7, <1>8

\* Items that all have the key d, put behind the items with a key up to d and
\* before those with a later one: the result has both sequences' items, each
\* once, in the order of the keys.
LEMMA InsertInOrder ==
  ASSUME NEW S, NEW key \in [S -> Int], NEW d \in Int,
         NEW a \in Nat, NEW q \in [1 .. a -> S], Distinct(q), Ordered(q, key),
         NEW b \in Nat, NEW r \in [1 .. b -> S], Distinct(r),
         \A k \in 1 .. b : key[r[k]] = d,
         Items(q) \cap Items(r) = {},
         NEW n \in 0 .. a, \A k \in 1 .. a : key[q[k]] <= d <=> k <= n,
         NEW s, Inserted(s, q, a, n, r, b)
  PROVE  /\ Items(s) = Items(q) \cup Items(r)
         /\ Distinct(s)
         /\ Ordered(s, key)
<1>1. /\ DOMAIN s = 1 .. a + b
      /\ \A k \in 1 .. n : s[k] = q[k]
      /\ \A k \in 1 .. b : s[n + k] = r[k]
      /\ \A k \in n + 1 .. a : s[k + b] = q[k]
  BY DEF Inserted
<1>5. \A k \in 1 .. a + b :
         \/ k \in 1 .. n /\ s[k] = q[k]
         \/ \E m \in 1 .. b : k = n + m /\ s[k] = r[m]
         \/ \E m \in n + 1 .. a : k = m + b /\ s[k] = q[m]
  <2>. TAKE k \in 1 .. a + b
  <2>1. \/ k \in 1 .. n
        \/ k - n \in 1 .. b /\ k = n + (k - n)
        \/ k - b \in n + 1 .. a /\ k = k - b + b
    OBVIOUS
  <2>. QED
    BY <1>1, <2>1
<1>6. Items(s) = Items(q) \cup Items(r)
  <2>1. \A k \in DOMAIN s : s[k] \in Items(q) \cup Items(r)
    <3>1. \A k \in 1 .. a : q[k] \in Items(q)
      BY DEF Items
    <3>2. \A k \in 1 .. b : r[k] \in Items(r)
      BY DEF Items
    <3>. QED
      <4>. TAKE k \in DOMAIN s
      <4>1. k \in 1 .. a + b
        BY <1>1
      <4>2. CASE k \in 1 .. n /\ s[k] = q[k]
        <5>1. k \in 1 .. a
          BY <4>2
        <5>. QED
          BY <3>1, <4>2, <5>1
      <4>3. CASE \E m \in 1 .. b : k = n + m /\ s[k] = r[m]
        BY <3>2, <4>3
      <4>4. CASE \E m \in n + 1 .. a : k = m + b /\ s[k] = q[m]
        <5>1. PICK m \in n + 1 .. a : s[k] = q[m]
          BY <4>4
        <5>2. m \in 1 .. a
          OBVIOUS
        <5>. QED
          BY <3>1, <5>1, <5>2
      <4>. QED
        BY <1>5, <4>1, <4>2, <4>3, <4>4
  <2>2. \A k \in 1 .. a : q[k] \in Items(s)
    <3>. TAKE k \in 1 .. a
    <3>1. CASE k <= n
      <4>1. k \in DOMAIN s /\ s[k] = q[k]
        BY <1>1, <3>1
      <4>. QED
        BY <4>1 DEF Items
    <3>2. CASE k > n
      <4>1. k + b \in DOMAIN s /\ s[k + b] = q[k]
        BY <1>1, <3>2
      <4>. QED
        BY <4>1 DEF Items
    <3>. QED
      BY <3>1, <3>2
  <2>3. \A k \in 1 .. b : r[k] \in Items(s)
    <3>. TAKE k \in 1 .. b
    <3>1. n + k \in DOMAIN s /\ s[n + k] = r[k]
      BY <1>1
    <3>. QED
      BY <3>1 DEF Items
  <2>4. /\ \A x \in Items(q) : \E k \in 1 .. a : x = q[k]
        /\ \A x \in Items(r) : \E k \in 1 .. b : x = r[k]
        /\ \A x \in Items(s) : \E k \in DOMAIN s : x = s[k]
    BY DEF Items
  <2>. QED
    BY <2>1, <2>2, <2>3, <2>4
<1>7. \A k \in 1 .. a, m \in 1 .. b : q[k] # r[m]
  BY DEF Items
<1>8. \A k, m \in 1 .. a : k < m => q[k] # q[m] /\ key[q[k]] <= key[q[m]]
  BY DEF Distinct, Ordered
<1>9. \A k, m \in 1 .. b : k < m => r[k] # r[m]
  BY DEF Distinct
<1>10. \A k \in 1 .. b : key[r[k]] = d
  OBVIOUS
<1>11. \A k \in 1 .. a : /\ key[q[k]] \in Int /\ (key[q[k]] <= d <=> k <= n)
  OBVIOUS
<1>12. ASSUME NEW k \in 1 .. a + b, NEW m \in 1 .. a + b, k < m
       PROVE  s[k] # s[m] /\ key[s[k]] <= key[s[m]]
  <2>1. CASE k \in 1 .. n /\ s[k] = q[k]
    <3>1. CASE m \in 1 .. n /\ s[m] = q[m]
      BY <1>8, <1>12, <2>1, <3>1
    <3>2. CASE \E i \in 1 .. b : m = n + i /\ s[m] = r[i]
      BY <1>7, <1>10, <1>11, <2>1, <3>2
    <3>3. CASE \E i \in n + 1 .. a : m = i + b /\ s[m] = q[i]
      BY <1>8, <2>1, <3>3
    <3>. QED
      BY <1>5, <3>1, <3>2, <3>3
  <2>2. ASSUME NEW i \in 1 .. b, k = n + i, s[k] = r[i]
        PROVE  s[k] # s[m] /\ key[s[k]] <= key[s[m]]
    <3>1. ~ m \in 1 .. n
      BY <1>12, <2>2
    <3>2. ASSUME NEW l \in 1 .. b, m = n + l, s[m] = r[l]
          PROVE  s[k] # s[m] /\ key[s[k]] <= key[s[m]]
      BY <1>9, <1>10, <1>12, <2>2, <3>2
    <3>3. ASSUME NEW l \in n + 1 .. a, m = l + b, s[m] = q[l]
          PROVE  s[k] # s[m] /\ key[s[k]] <= key[s[m]]
      <4>1. l \in 1 .. a /\ ~ (l <= n)
        OBVIOUS
      <4>. QED
        BY <1>7, <1>10, <1>11, <2>2, <3>3, <4>1
    <3>. QED
      BY <1>5, <3>1, <3>2, <3>3
  <2>3. ASSUME NEW i \in n + 1 .. a, k = i + b, s[k] = q[i]
        PROVE  s[k] # s[m] /\ key[s[k]] <= key[s[m]]
    <3>1. ~ (m \in 1 .. n) /\ ~ \E l \in 1 .. b : m = n + l
      BY <1>12, <2>3
    <3>2. PICK l \in n + 1 .. a : m = l + b /\ s[m] = q[l]
      BY <1>5, <3>1
    <3>. QED
      BY <1>8, <1>12, <2>3, <3>2
  <2>. QED
    BY <1>5, <2>1, <2>2, <2>3
<1>. QED
  BY <1>1, <1>6, <1>12 DEF Distinct, Ordered

\* The same, for the place where Enqueue and Start put r.
LEMMA QueueInsert ==
  ASSUME NEW S, NEW key \in [S -> Int], NEW d \in Int,
         NEW q \in Seq(S), Distinct(q), Ordered(q, key),
         NEW r \in Seq(S), Distinct(r), \A k \in DOMAIN r : key[r[k]] = d,
         Items(q) \cap Items(r) = {},
         NEW n, n = Cardinality(UpToKey(q, key, d))
  PROVE  LET s == Insert(q, n, r)
         IN  /\ s \in Seq(S)
             /\ Items(s) = Items(q) \cup Items(r)
             /\ Distinct(s)
             /\ Ordered(s, key)
<1>1. PICK a \in Nat : a = Len(q) /\ q \in [1 .. a -> S]
  BY LenProperties
<1>2. PICK b \in Nat : b = Len(r) /\ r \in [1 .. b -> S]
  BY LenProperties
<1>3. n \in 0 .. a /\ \A k \in 1 .. a : key[q[k]] <= d <=> k <= n
  <2>1. PICK f \in [1 .. a -> S] : f = q
    BY <1>1
  <2>2. Ordered(f, key) /\ n = Cardinality(UpToKey(f, key, d))
    BY <2>1
  <2>3. /\ Cardinality(UpToKey(f, key, d)) \in 0 .. a
        /\ \A k \in 1 .. a : key[f[k]] <= d <=> k <= Cardinality(UpToKey(f, key, d))
    BY <2>2, UpTo
  <2>. QED
    BY <2>1, <2>2, <2>3
<1>4. PICK s \in Seq(S) : s = Insert(q, n, r) /\ Inserted(s, q, a, n, r, b)
  BY <1>1, <1>2, <1>3, InsertItems
<1>5. PICK f \in [1 .. a -> S] : f = q
  BY <1>1
<1>6. PICK g \in [1 .. b -> S] : g = r
  BY <1>2
<1>7. PICK m \in 0 .. a : m = n
  BY <1>3
<1>8. /\ Distinct(f) /\ Ordered(f, key) /\ Distinct(g)
      /\ \A k \in 1 .. b : key[g[k]] = d
      /\ Items(f) \cap Items(g) = {}
      /\ \A k \in 1 .. a : key[f[k]] <= d <=> k <= m
      /\ Inserted(s, f, a, m, g, b)
  BY <1>3, <1>4, <1>5, <1>6, <1>7
<1>9. /\ Items(s) = Items(f) \cup Items(g)
      /\ Distinct(s)
      /\ Ordered(s, key)
  BY <1>8, InsertInOrder
<1>. QED
  BY <1>4, <1>5, <1>6, <1>9

-----------------------------------------------------------------------------
(* Types, and the queue.                                                   *)

Due == [j \in Jobs |-> job[j].due]

\* The queue is the waiting jobs, each once, by available_at.
Queued ==
    /\ queue \in Seq(Jobs)
    /\ Items(queue) = {j \in Jobs : job[j].status \in Waiting}
    /\ Distinct(queue)
    /\ Ordered(queue, Due)

\* The delay before a retry is at most MaxBackoff and may be negative.
LEMMA BackoffRange ==
  ASSUME NEW n \in Nat \ {0}
  PROVE  Backoff(n) \in -Half .. MaxBackoff
<1>1. 2 ^ (n - 1) \in Int
  <2>1. PICK m \in Nat : m = n - 1
    OBVIOUS
  <2>2. 2 ^ m \in Int
    OBVIOUS
  <2>. QED
    BY <2>1, <2>2
<1>2. PICK p \in Int : p = 2 ^ (n - 1)
  BY <1>1
<1>3. Half \in Nat \ {0} /\ MaxBackoff \in Nat
  BY HalfAssumption, OutboxAssumption
<1>4. PICK h \in Nat \ {0} : h = Half
  BY <1>3
<1>5. (p + h) % (2 * h) \in 0 .. 2 * h - 1
  OBVIOUS
<1>6. Wrap(p) \in Int /\ -Half <= Wrap(p)
  BY <1>4, <1>5 DEF Wrap
<1>. QED
  BY <1>2, <1>3, <1>6 DEF Backoff

\* A row that an update rewrites remains a row.
LEMMA RowChanges ==
  ASSUME NEW row \in Rows
  PROVE  /\ [row EXCEPT !.status = "pending"] \in Rows
         /\ [row EXCEPT !.status = "retry", !.due = 0, !.age = 0] \in Rows
         /\ Claimed(row) \in Rows
         /\ [row EXCEPT !.status = "succeeded", !.age = 0] \in Rows
         /\ [row EXCEPT !.status = "failed", !.age = 0] \in Rows
         /\ \A due \in -Half .. MaxBackoff :
               [row EXCEPT !.status = "retry", !.due = due, !.age = 0] \in Rows
<1>1. Half \in Nat \ {0} /\ MaxBackoff \in Nat \ {0} /\ StaleAfter \in Nat
  BY HalfAssumption, OutboxAssumption
<1>2. 0 \in -Half .. MaxBackoff /\ 0 \in 0 .. StaleAfter + 1
  BY <1>1
<1>3. {"pending", "running", "retry", "succeeded", "failed"} \subseteq JobStatus
  BY DEF JobStatus
<1>4. row.attempts + 1 \in Nat
  BY DEF Rows
<1>. QED
  BY <1>2, <1>3, <1>4 DEF Rows, Claimed

\* A row after one second.
Ticked(row) ==
    [row EXCEPT
        !.due = IF @ > 0 THEN @ - 1 ELSE @,
        !.age = IF row.status = "running" /\ @ <= StaleAfter THEN @ + 1 ELSE @]

\* The clock changes due and age, within the type.
LEMMA RowTicks ==
  ASSUME NEW row \in Rows
  PROVE  /\ Ticked(row) \in Rows
         /\ Ticked(row).status = row.status /\ Ticked(row).attempts = row.attempts
         /\ Ticked(row).due = IF row.due > 0 THEN row.due - 1 ELSE row.due
<1>1. Half \in Nat \ {0} /\ MaxBackoff \in Nat \ {0} /\ StaleAfter \in Nat
  BY HalfAssumption, OutboxAssumption
<1>2. row.due \in -Half .. MaxBackoff /\ row.age \in 0 .. StaleAfter + 1
  BY DEF Rows
<1>3. (IF row.due > 0 THEN row.due - 1 ELSE row.due) \in -Half .. MaxBackoff
  BY <1>1, <1>2
<1>4. (IF row.status = "running" /\ row.age <= StaleAfter THEN row.age + 1 ELSE row.age)
         \in 0 .. StaleAfter + 1
  BY <1>1, <1>2
<1>. QED
  BY <1>3, <1>4 DEF Rows, Ticked

LEMMA AllTick == Tick => job' = [j \in Jobs |-> Ticked(job[j])]
  BY DEF Tick, Ticked

LEMMA TypedInit == Init => Typed
<1>. SUFFICES ASSUME Init PROVE Typed
  OBVIOUS
<1>1. Half \in Nat \ {0} /\ MaxBackoff \in Nat \ {0} /\ StaleAfter \in Nat
  BY HalfAssumption, OutboxAssumption
<1>2. 0 \in -Half .. MaxBackoff /\ 0 \in 0 .. StaleAfter + 1
  BY <1>1
<1>3. job \in [Jobs -> Rows]
  BY <1>2 DEF Init, Rows, JobStatus
<1>4. Created = {} /\ Up = {}
  BY DEF Init, Created, Up
<1>. QED
  BY <1>3, <1>4, FS_EmptySet DEF Init, Typed

\* Holding a claim, in terms of the type.
LEMMA HoldingClaim ==
  ASSUME Typed, NEW w \in Workers
  PROVE  /\ Holding(w) <=> worker[w] \in Claims
         /\ ~ Holding(w) <=> worker[w] \in {Down, Idle}
         /\ worker[w].pc \in {"handling", "completing", "failing", "refusing"}
               => worker[w] \in Claims
  BY DEF Typed, Holding, Down, Idle, Claims

\* A claim takes the job at the head, which waits.
LEMMA HeadWaits ==
  ASSUME Queued, queue # <<>>
  PROVE  Head(queue) \in Jobs /\ job[Head(queue)].status \in Waiting
<1>1. Head(queue) \in Jobs /\ Len(queue) \in Nat \ {0} /\ DOMAIN queue = 1 .. Len(queue)
  BY HeadTailProperties, EmptySeq, LenProperties DEF Queued
<1>2. Head(queue) = queue[1] /\ 1 \in DOMAIN queue
  BY <1>1 DEF Queued
<1>. QED
  BY <1>2 DEF Queued, Items

LEMMA TypedStep == Typed /\ Queued /\ [Next]_vars => Typed'
<1>. SUFFICES ASSUME Typed, Queued, [Next]_vars PROVE Typed'
  OBVIOUS
<1>. USE DEF Typed
<1>1. ASSUME UNCHANGED job PROVE Created' = Created
  BY <1>1 DEF Created
<1>2. ASSUME UNCHANGED worker PROVE Up' = Up
  BY <1>2 DEF Up
<1>3. ASSUME NEW w \in Workers, worker[w] # Down,
             \E x \in {Idle} \cup Claims : worker' = [worker EXCEPT ![w] = x]
      PROVE  Up' = Up
  BY <1>3 DEF Up, Down, Idle, Claims
<1>4. ASSUME NEW w \in Workers, worker[w].pc \in {"handling", "completing", "failing", "refusing"}
      PROVE  worker[w] \in Claims /\ worker[w] # Down
  BY <1>4, HoldingClaim DEF Claims, Down
<1>5. ASSUME \A j \in Jobs : job'[j].status # "none" => job[j].status # "none"
      PROVE  IsFiniteSet(Created')
  <2>1. Created' \in SUBSET Created
    BY <1>5 DEF Created
  <2>. QED
    BY <2>1, FS_Subset
<1>6. ASSUME NEW j \in Jobs, CreateJob(j) PROVE Typed'
  <2>1. job' \in [Jobs -> Rows]
    BY <1>6, RowChanges DEF CreateJob
  <2>2. Created' \in SUBSET (Created \cup {j})
    BY <1>6 DEF CreateJob, Created
  <2>3. IsFiniteSet(Created')
    BY <2>2, FS_AddElement, FS_Subset
  <2>. QED
    BY <1>2, <1>6, <2>1, <2>3 DEF CreateJob
<1>7. ASSUME NEW w \in Workers, Start(w) PROVE Typed'
  <2>1. job' \in [Jobs -> Rows]
    BY <1>7, RowChanges DEF Start
  <2>2. IsFiniteSet(Created')
    BY <1>5, <1>7 DEF Start, Stale
  <2>3. Up' \in SUBSET (Up \cup {w})
    BY <1>7 DEF Start, Up
  <2>4. IsFiniteSet(Up')
    BY <2>3, FS_AddElement, FS_Subset
  <2>. QED
    BY <1>7, <2>1, <2>2, <2>4 DEF Start
<1>8. ASSUME NEW w \in Workers, Claim(w) PROVE Typed'
  <2>. DEFINE j == Head(queue)
  <2>1. j \in Jobs /\ job[j] \in Rows
    BY <1>8, HeadWaits DEF Claim
  <2>2. job' \in [Jobs -> Rows]
    BY <1>8, <2>1, RowChanges DEF Claim
  <2>3. IsFiniteSet(Created')
    BY <1>5, <1>8, <2>1, HeadWaits DEF Claim, Waiting
  <2>4. PICK x \in Claims : worker' = [worker EXCEPT ![w] = x]
    <3>1. [pc |-> "handling", job |-> j, attempts |-> Claimed(job[j]).attempts] \in Claims
      BY <2>1 DEF Claims, Claimed, Rows
    <3>. QED
      BY <1>8, <3>1 DEF Claim
  <2>5. Up' = Up
    <3>1. worker[w] # Down
      BY <1>8 DEF Claim, Idle, Down
    <3>. QED
      BY <1>3, <2>4, <3>1
  <2>. QED
    BY <1>8, <2>2, <2>3, <2>4, <2>5 DEF Claim
<1>9. ASSUME NEW w \in Workers, NEW pc \in {"completing", "failing", "refusing"},
             HandlerReturns(w, pc), handled' \in [Jobs -> Nat]
      PROVE  Typed'
  <2>1. worker[w] \in Claims /\ worker[w] # Down
    BY <1>4, <1>9 DEF HandlerReturns
  <2>2. PICK x \in Claims : worker' = [worker EXCEPT ![w] = x]
    <3>1. [worker[w] EXCEPT !.pc = pc] \in Claims
      BY <2>1 DEF Claims
    <3>. QED
      BY <1>9, <3>1 DEF HandlerReturns
  <2>3. Up' = Up /\ Created' = Created
    BY <1>1, <1>3, <1>9, <2>1, <2>2 DEF HandlerReturns
  <2>. QED
    BY <1>9, <2>2, <2>3 DEF HandlerReturns
<1>10. ASSUME NEW w \in Workers, Succeed(w) PROVE Typed'
  <2>1. worker[w] \in Claims
    BY <1>4, <1>10 DEF Succeed, HandlerReturns
  <2>2. handled' \in [Jobs -> Nat]
    BY <1>10, <2>1 DEF Succeed, Claims
  <2>3. HandlerReturns(w, "completing")
    BY <1>10 DEF Succeed, Report
  <2>. QED
    BY <1>9, <2>2, <2>3
<1>11. ASSUME NEW w \in Workers, Err(w) PROVE Typed'
  BY <1>9, <1>11 DEF Err, Report
<1>12. ASSUME NEW w \in Workers, ErrPermanently(w) PROVE Typed'
  BY <1>9, <1>12 DEF ErrPermanently
<1>13. ASSUME NEW w \in Workers, worker[w] \in Claims, worker' = [worker EXCEPT ![w] = Idle],
              job' \in [Jobs -> Rows],
              \A j \in Jobs : job'[j].status # "none" => job[j].status # "none",
              UNCHANGED <<handled, crashes>>, losses' \in Nat
       PROVE  Typed'
  <2>1. Up' = Up
    BY <1>3, <1>4, <1>13 DEF Claims
  <2>. QED
    BY <1>5, <1>13, <2>1
<1>14. ASSUME NEW w \in Workers, Complete(w) PROVE Typed'
  <2>1. worker[w] \in Claims
    BY <1>4, <1>14 DEF Complete
  <2>2. job' = job \/ job' = [job EXCEPT ![worker[w].job] =
                                 [@ EXCEPT !.status = "succeeded", !.age = 0]]
    BY <1>14, <2>1 DEF Complete, Claims
  <2>3. job' \in [Jobs -> Rows]
    <3>1. worker[w].job \in Jobs /\ job[worker[w].job] \in Rows
      BY <2>1 DEF Claims
    <3>2. [job[worker[w].job] EXCEPT !.status = "succeeded", !.age = 0] \in Rows
      BY <3>1, RowChanges
    <3>. QED
      BY <2>2, <3>1, <3>2
  <2>4. \A j \in Jobs : job'[j].status # "none" => job[j].status # "none"
    BY <1>14, <2>1 DEF Complete, Completable, Claims
  <2>. QED
    BY <1>13, <1>14, <2>1, <2>3, <2>4 DEF Complete
<1>15. ASSUME NEW w \in Workers, Fail(w) PROVE Typed'
  <2>1. worker[w] \in Claims
    BY <1>4, <1>15 DEF Fail
  <2>2. worker[w].job \in Jobs /\ Backoff(worker[w].attempts) \in -Half .. MaxBackoff
    BY <2>1, BackoffRange DEF Claims
  <2>3. job' \in [Jobs -> Rows]
    <3>. DEFINE j == worker[w].job
                due == Backoff(worker[w].attempts)
    <3>1. \/ job' = job
          \/ job' = [job EXCEPT ![j] = [@ EXCEPT !.status = "failed", !.age = 0]]
          \/ job' = [job EXCEPT ![j] = [@ EXCEPT !.status = "retry", !.due = due,
                                                !.age = 0]]
      BY <1>15, <2>2 DEF Fail
    <3>2. job[j] \in Rows
      BY <2>2
    <3>3. /\ [job[j] EXCEPT !.status = "failed", !.age = 0] \in Rows
          /\ [job[j] EXCEPT !.status = "retry", !.due = due, !.age = 0] \in Rows
      BY <2>2, <3>2, RowChanges
    <3>. HIDE DEF j, due
    <3>. QED
      BY <3>1, <3>3
  <2>4. \A j \in Jobs : job'[j].status # "none" => job[j].status # "none"
    BY <1>15, <2>2 DEF Fail, Retryable
  <2>. QED
    BY <1>13, <1>15, <2>1, <2>3, <2>4 DEF Fail
<1>16. ASSUME NEW w \in Workers, Crash(w) PROVE Typed'
  <2>1. Up' \in SUBSET Up
    BY <1>16 DEF Crash, Up
  <2>2. IsFiniteSet(Up')
    BY <2>1, FS_Subset
  <2>. QED
    BY <1>1, <1>16, <2>2 DEF Crash
<1>17. ASSUME NEW w \in Workers, LoseOutcome(w) PROVE Typed'
  <2>1. worker[w] \in Claims
    BY <1>4, <1>17 DEF LoseOutcome
  <2>2. losses' \in Nat
    BY <1>17 DEF LoseOutcome
  <2>. QED
    BY <1>13, <1>17, <2>1, <2>2 DEF LoseOutcome
<1>18. ASSUME Tick PROVE Typed'
  <2>1. job' \in [Jobs -> Rows]
    BY <1>18, AllTick, RowTicks
  <2>2. IsFiniteSet(Created')
    <3>1. \A j \in Jobs : job[j] \in Rows
      OBVIOUS
    <3>2. \A j \in Jobs : job'[j].status = job[j].status
      BY <1>18, <3>1, AllTick, RowTicks
    <3>. QED
      BY <1>5, <3>2
  <2>. QED
    BY <1>2, <1>18, <2>1, <2>2 DEF Tick
<1>19. ASSUME UNCHANGED vars PROVE Typed'
  BY <1>1, <1>2, <1>19 DEF vars
<1>. QED
  BY <1>6, <1>7, <1>8, <1>10, <1>11, <1>12, <1>14, <1>15, <1>16, <1>17, <1>18, <1>19
     DEF Next, Work

LEMMA QueuedInit == Init => Queued
<1>. SUFFICES ASSUME Init PROVE Queued
  OBVIOUS
<1>1. queue = <<>> /\ queue \in Seq(Jobs) /\ DOMAIN queue = {}
  BY EmptySeq, LenProperties DEF Init
<1>2. Items(queue) = {} /\ Distinct(queue) /\ Ordered(queue, Due)
  BY <1>1 DEF Items, Distinct, Ordered
<1>3. {j \in Jobs : job[j].status \in Waiting} = {}
  BY DEF Init, Waiting
<1>. QED
  BY <1>1, <1>2, <1>3 DEF Queued

\* A step that leaves the queue alone, and who waits and in which order.
LEMMA QueuedSame ==
  ASSUME Queued, Typed, Typed', queue' = queue,
         \A j \in Jobs : job'[j].status \in Waiting <=> job[j].status \in Waiting,
         \A j, k \in Jobs : job[j].due <= job[k].due /\ job[j].status \in Waiting
                             /\ job[k].status \in Waiting
                             => job'[j].due <= job'[k].due
  PROVE  Queued'
<1>1. \A k \in DOMAIN queue : queue[k] \in Jobs /\ job[queue[k]].status \in Waiting
  BY DEF Queued, Items
<1>2. Ordered(queue, [j \in Jobs |-> job'[j].due])
  BY <1>1 DEF Queued, Ordered, Due
<1>3. {j \in Jobs : job'[j].status \in Waiting} = {j \in Jobs : job[j].status \in Waiting}
  OBVIOUS
<1>. QED
  BY <1>2, <1>3 DEF Queued, Due, Items, Distinct, Ordered

\* A step that inserts r, whose jobs begin to wait.
LEMMA QueuedInsert ==
  ASSUME Queued, Typed, Typed', NEW d \in Int,
         NEW r \in Seq(Jobs), Distinct(r), Items(queue) \cap Items(r) = {},
         \A j \in Items(r) : job'[j].due = d,
         \A j \in Items(queue) : job'[j].due = job[j].due,
         queue' = Insert(queue, Cardinality({k \in DOMAIN queue : job[queue[k]].due <= d}), r),
         {j \in Jobs : job'[j].status \in Waiting}
            = {j \in Jobs : job[j].status \in Waiting} \cup Items(r)
  PROVE  Queued'
<1>. DEFINE key == [j \in Jobs |-> job'[j].due]
<1>1. key \in [Jobs -> Int]
  BY HalfAssumption, OutboxAssumption DEF Typed, Rows
<1>2. \A k \in DOMAIN queue : queue[k] \in Jobs /\ queue[k] \in Items(queue)
  BY DEF Queued, Items
<1>3. Ordered(queue, key)
  BY <1>2 DEF Queued, Ordered, Due
<1>4. \A k \in DOMAIN r : r[k] \in Jobs /\ key[r[k]] = d
  <2>1. \A k \in DOMAIN r : r[k] \in Jobs
    BY LenProperties, ElementOfSeq
  <2>. QED
    BY <2>1 DEF Items
<1>5. UpToKey(queue, key, d) = {k \in DOMAIN queue : job[queue[k]].due <= d}
  BY <1>2 DEF UpToKey
<1>. HIDE DEF key
<1>6. queue' = Insert(queue, Cardinality(UpToKey(queue, key, d)), r)
  BY <1>5
<1>7. /\ queue' \in Seq(Jobs)
      /\ Items(queue') = Items(queue) \cup Items(r)
      /\ Distinct(queue')
      /\ Ordered(queue', key)
  <2>1. /\ queue \in Seq(Jobs) /\ Distinct(queue) /\ Ordered(queue, key)
        /\ \A k \in DOMAIN r : key[r[k]] = d
    BY <1>3, <1>4 DEF Queued
  <2>2. PICK n : n = Cardinality(UpToKey(queue, key, d))
    OBVIOUS
  <2>3. LET s == Insert(queue, n, r)
        IN  /\ s \in Seq(Jobs)
            /\ Items(s) = Items(queue) \cup Items(r)
            /\ Distinct(s)
            /\ Ordered(s, key)
    BY <1>1, <2>1, <2>2, QueueInsert
  <2>. QED
    BY <1>6, <2>2, <2>3
<1>8. key = Due'
  BY DEF key, Due
<1>. QED
  BY <1>7, <1>8 DEF Queued, Items, Distinct, Ordered

\* An order of the recovered jobs lists each of them once.
LEMMA RecoveredOnce ==
  ASSUME NEW S, IsFiniteSet(S), S \subseteq Jobs,
         NEW order \in [1 .. Cardinality(S) -> S],
         \A j \in S : \E k \in DOMAIN order : order[k] = j
  PROVE  order \in Seq(Jobs) /\ Distinct(order) /\ Items(order) = S
<1>1. PICK n \in Nat : n = Cardinality(S)
  BY FS_CardinalityType
<1>2. order \in [1 .. n -> S] /\ DOMAIN order = 1 .. n
  BY <1>1
<1>3. order \in Seq(Jobs)
  BY <1>2, SeqDef
<1>4. Items(order) = S
  BY <1>2 DEF Items
<1>5. IsFiniteSet(1 .. n) /\ Cardinality(1 .. n) = Cardinality(S)
  BY <1>1, FS_Interval
<1>6. order \in Surjection(1 .. n, S)
  BY <1>2 DEF Surjection
<1>7. order \in Injection(1 .. n, S)
  BY <1>5, <1>6, FS_SurjSameCardinalityImpliesInj
<1>8. Distinct(order)
  <2>1. \A k, m \in DOMAIN order : order[k] = order[m] => k = m
    BY <1>7 DEF Injection, IsInjective
  <2>2. \A k, m \in DOMAIN order : k < m => k # m
    BY <1>2
  <2>. QED
    BY <2>1, <2>2 DEF Distinct
<1>. QED
  BY <1>3, <1>4, <1>8

\* A row is written with no attempts and is available at once.
Blank ==
    \A j \in Jobs : job[j].status = "none" => job[j].due = 0 /\ job[j].attempts = 0

LEMMA BlankStep == Typed /\ Queued /\ Blank /\ [Next]_vars => Blank'
<1>. SUFFICES ASSUME Typed, Queued, Blank, [Next]_vars PROVE Blank'
  OBVIOUS
<1>1. \A j \in Jobs : job[j] \in Rows
  BY DEF Typed
<1>2. ASSUME \A j \in Jobs : \/ job'[j].status # "none"
                             \/ job'[j] = job[j]
      PROVE  Blank'
  BY <1>2 DEF Blank
<1>3. ASSUME NEW j \in Jobs, CreateJob(j) PROVE Blank'
  <2>1. \A k \in Jobs : k # j => job'[k] = job[k]
    BY <1>3 DEF CreateJob, Typed
  <2>2. job'[j].status = "pending"
    BY <1>1, <1>3 DEF CreateJob, Typed, Rows
  <2>. QED
    BY <1>2, <2>1, <2>2
<1>4. ASSUME NEW w \in Workers, Start(w) PROVE Blank'
  <2>1. \A j \in Jobs : job'[j] = job[j] \/ job'[j].status = "retry"
    BY <1>1, <1>4 DEF Start, Rows
  <2>. QED
    BY <1>2, <2>1
<1>5. ASSUME NEW w \in Workers, Claim(w) PROVE Blank'
  <2>1. \A j \in Jobs : job'[j] = job[j] \/ job'[j].status = "running"
    BY <1>5, HeadWaits DEF Claim, Claimed, Typed
  <2>. QED
    BY <1>2, <2>1
<1>6. ASSUME NEW w \in Workers, Complete(w) PROVE Blank'
  <2>1. worker[w].job \in Jobs
    BY <1>6, HoldingClaim DEF Complete, Claims
  <2>2. \A j \in Jobs : job'[j] = job[j] \/ job'[j].status = "succeeded"
    BY <1>1, <1>6, <2>1 DEF Complete, Typed, Rows
  <2>. QED
    BY <1>2, <2>2
<1>7. ASSUME NEW w \in Workers, Fail(w) PROVE Blank'
  <2>1. worker[w].job \in Jobs
    BY <1>7, HoldingClaim DEF Fail, Claims
  <2>2. \A j \in Jobs : job'[j] = job[j] \/ job'[j].status \in {"failed", "retry"}
    BY <1>1, <1>7, <2>1 DEF Fail, Typed, Rows
  <2>. QED
    BY <1>2, <2>2
<1>8. ASSUME Tick PROVE Blank'
  <2>1. \A j \in Jobs : /\ job'[j].status = job[j].status
                        /\ job'[j].attempts = job[j].attempts
                        /\ job[j].due = 0 => job'[j].due = 0
    BY <1>1, <1>8, AllTick, RowTicks
  <2>. QED
    BY <2>1 DEF Blank
<1>9. ASSUME UNCHANGED job PROVE Blank'
  BY <1>9 DEF Blank
<1>. QED
  BY <1>3, <1>4, <1>5, <1>6, <1>7, <1>8, <1>9
     DEF Next, Work, Succeed, Err, ErrPermanently, HandlerReturns, Crash, LoseOutcome, vars

\* The queue stays the waiting jobs in their order.
LEMMA QueuedStep == Typed /\ Queued /\ Blank /\ [Next]_vars => Queued'
<1>. SUFFICES ASSUME Typed, Queued, Blank, [Next]_vars PROVE Queued'
  OBVIOUS
<1>1. Typed'
  BY TypedStep
<1>2. /\ job \in [Jobs -> Rows] /\ \A j \in Jobs : job[j] \in Rows
      /\ Half \in Nat /\ StaleAfter \in Nat
  BY HalfAssumption, OutboxAssumption DEF Typed
<1>3. \A j \in Jobs : j \in Items(queue) <=> job[j].status \in Waiting
  BY DEF Queued
<1>4. ASSUME UNCHANGED <<job, queue>> PROVE Queued'
  BY <1>1, <1>4, QueuedSame
<1>5. ASSUME NEW j \in Jobs, NEW d \in Int, ~ job[j].status \in Waiting,
             NEW row \in Rows, row.status \in Waiting, row.due = d,
             job' = [job EXCEPT ![j] = row], queue' = Enqueue(queue, j, d)
      PROVE  Queued'
  <2>. DEFINE r == <<j>>
  <2>1. r \in Seq(Jobs) /\ Distinct(r) /\ Items(r) = {j}
    BY DEF Distinct, Items
  <2>2. Items(queue) \cap Items(r) = {}
    BY <1>3, <1>5, <2>1
  <2>3. /\ \A k \in Items(r) : job'[k].due = d
        /\ \A k \in Items(queue) : job'[k].due = job[k].due
    BY <1>2, <1>3, <1>5, <2>1 DEF Queued
  <2>4. queue' = Insert(queue, Cardinality({k \in DOMAIN queue : job[queue[k]].due <= d}), r)
    BY <1>5 DEF Enqueue, Insert
  <2>5. {k \in Jobs : job'[k].status \in Waiting}
           = {k \in Jobs : job[k].status \in Waiting} \cup Items(r)
    BY <1>2, <1>5, <2>1
  <2>. HIDE DEF r
  <2>. QED
    BY <1>1, <2>1, <2>2, <2>3, <2>4, <2>5, QueuedInsert
<1>6. ASSUME NEW j \in Jobs, NEW row, ~ job[j].status \in Waiting, ~ row.status \in Waiting,
             job' = [job EXCEPT ![j] = row], queue' = queue
      PROVE  Queued'
  BY <1>1, <1>2, <1>6, QueuedSame
<1>7. ASSUME NEW j \in Jobs, CreateJob(j) PROVE Queued'
  <2>1. /\ job' = [job EXCEPT ![j] = [@ EXCEPT !.status = "pending"]]
        /\ [job[j] EXCEPT !.status = "pending"].status \in Waiting
        /\ [job[j] EXCEPT !.status = "pending"].due = 0
        /\ ~ job[j].status \in Waiting
    BY <1>2, <1>7 DEF CreateJob, Waiting, Rows, Blank
  <2>2. PICK row \in Rows : row = [job[j] EXCEPT !.status = "pending"]
    BY <1>2, RowChanges
  <2>. PICK d \in Int : d = 0
    OBVIOUS
  <2>3. job' = [job EXCEPT ![j] = row] /\ queue' = Enqueue(queue, j, d)
    BY <1>7, <2>1, <2>2 DEF CreateJob
  <2>4. row.status \in Waiting /\ row.due = d /\ ~ job[j].status \in Waiting
    BY <2>1, <2>2
  <2>. QED
    BY <1>5, <2>3, <2>4
<1>8. ASSUME NEW w \in Workers, Start(w) PROVE Queued'
  <2>1. IsFiniteSet(Stale) /\ Stale \subseteq Jobs
    <3>1. Stale \in SUBSET Created
      BY DEF Stale, Created
    <3>. QED
      BY <3>1, FS_Subset DEF Typed, Stale
  <2>2. PICK r \in [1 .. Cardinality(Stale) -> Stale] :
           /\ \A j \in Stale : \E k \in DOMAIN r : r[k] = j
           /\ queue' = Insert(queue, Cardinality({k \in DOMAIN queue : job[queue[k]].due <= 0}), r)
    BY <1>8 DEF Start, Insert
  <2>3. r \in Seq(Jobs) /\ Distinct(r) /\ Items(r) = Stale
    BY <2>1, <2>2, RecoveredOnce
  <2>4. \A j \in Jobs : IF j \in Stale THEN job'[j].status = "retry" /\ job'[j].due = 0
                                          ELSE job'[j] = job[j]
    BY <1>2, <1>8 DEF Start, Rows
  <2>5. Items(queue) \cap Items(r) = {}
    BY <1>3, <2>3 DEF Stale, Waiting
  <2>6. \A j \in Items(r) : job'[j].due = 0
    BY <2>1, <2>3, <2>4
  <2>7. \A j \in Items(queue) : job'[j].due = job[j].due
    BY <2>3, <2>4, <2>5 DEF Queued
  <2>8. {j \in Jobs : job'[j].status \in Waiting}
           = {j \in Jobs : job[j].status \in Waiting} \cup Items(r)
    BY <2>1, <2>3, <2>4 DEF Waiting
  <2>. QED
    BY <1>1, <2>2, <2>3, <2>5, <2>6, <2>7, <2>8, QueuedInsert
<1>9. ASSUME NEW w \in Workers, Claim(w) PROVE Queued'
  <2>. DEFINE j == Head(queue)
  <2>1. j \in Jobs
    BY <1>9, HeadWaits DEF Claim
  <2>2. PICK n \in Nat : /\ n = Len(queue) /\ DOMAIN queue = 1 .. n /\ n > 0
                         /\ queue[1] = j
    BY <1>9, EmptySeq, LenProperties, HeadTailProperties DEF Claim, Queued
  <2>3. /\ queue' \in Seq(Jobs)
        /\ DOMAIN queue' = 1 .. n - 1
        /\ \A k \in 1 .. n - 1 : queue'[k] = queue[k + 1]
    <3>1. /\ queue' = Tail(queue) /\ Tail(queue) \in Seq(Jobs)
          /\ Len(Tail(queue)) = Len(queue) - 1
          /\ \A k \in 1 .. Len(Tail(queue)) : Tail(queue)[k] = queue[k + 1]
      BY <1>9, HeadTailProperties DEF Claim, Queued
    <3>2. DOMAIN queue' = 1 .. Len(Tail(queue))
      BY <3>1, LenProperties
    <3>. QED
      BY <2>2, <3>1, <3>2, Zenon
  <2>4. \A k \in Jobs : k # j => job'[k] = job[k]
    BY <1>2, <1>9 DEF Claim
  <2>5. job'[j].status = "running"
    BY <1>2, <1>9, <2>1 DEF Claim, Claimed
  <2>. HIDE DEF j
  <2>6. \A k \in 1 .. n - 1 : k + 1 \in 1 .. n /\ 1 < k + 1 /\ queue'[k] # j
    BY <2>2, <2>3 DEF Queued, Distinct
  <2>7. Items(queue') = {k \in Jobs : job'[k].status \in Waiting}
    <3>1. \A k \in 1 .. n - 1 : queue'[k] \in Jobs /\ job'[queue'[k]].status \in Waiting
      <4>. TAKE k \in 1 .. n - 1
      <4>1. queue[k + 1] \in Items(queue) /\ queue'[k] = queue[k + 1] /\ queue[k + 1] # j
        BY <2>2, <2>3, <2>6 DEF Items
      <4>. QED
        BY <2>4, <4>1 DEF Queued
    <3>2. \A i \in Jobs : job'[i].status \in Waiting => \E k \in 1 .. n - 1 : queue'[k] = i
      <4>. SUFFICES ASSUME NEW i \in Jobs, job'[i].status \in Waiting
                    PROVE  \E k \in 1 .. n - 1 : queue'[k] = i
        OBVIOUS
      <4>1. i # j /\ job[i].status \in Waiting
        BY <2>4, <2>5 DEF Waiting
      <4>2. PICK m \in 1 .. n : queue[m] = i
        BY <1>3, <2>2, <4>1 DEF Items
      <4>3. m - 1 \in 1 .. n - 1 /\ m - 1 + 1 = m
        BY <2>2, <4>1, <4>2
      <4>. QED
        BY <2>3, <4>2, <4>3
    <3>3. Items(queue') = {queue'[k] : k \in 1 .. n - 1}
      BY <2>3 DEF Items
    <3>. QED
      BY <3>1, <3>2, <3>3
  <2>8. Distinct(queue')
    BY <2>2, <2>3 DEF Queued, Distinct
  <2>9. Ordered(queue', Due')
    <3>1. \A k \in 1 .. n - 1 : Due'[queue'[k]] = Due[queue[k + 1]]
      <4>. TAKE k \in 1 .. n - 1
      <4>1. queue[k + 1] \in Items(queue) /\ queue'[k] = queue[k + 1] /\ queue[k + 1] # j
        BY <2>2, <2>3, <2>6 DEF Items
      <4>. QED
        BY <2>4, <4>1 DEF Queued, Due
    <3>2. \A k, m \in 1 .. n - 1 : k < m => Due[queue[k + 1]] <= Due[queue[m + 1]]
      BY <2>2 DEF Queued, Ordered
    <3>. QED
      BY <2>3, <3>1, <3>2 DEF Ordered
  <2>. QED
    BY <2>3, <2>7, <2>8, <2>9 DEF Queued, Items, Distinct, Ordered
<1>10. ASSUME NEW w \in Workers, Complete(w) PROVE Queued'
  <2>1. worker[w].job \in Jobs
    BY <1>10, HoldingClaim DEF Complete, Claims
  <2>2. CASE ~ Completable(w)
    BY <1>4, <1>10, <2>2 DEF Complete
  <2>3. CASE Completable(w)
    <3>. DEFINE row == [job[worker[w].job] EXCEPT !.status = "succeeded", !.age = 0]
    <3>1. /\ job' = [job EXCEPT ![worker[w].job] = row]
          /\ ~ row.status \in Waiting /\ ~ job[worker[w].job].status \in Waiting
          /\ queue' = queue
      BY <1>2, <1>10, <2>1, <2>3 DEF Complete, Completable, Waiting, Rows
    <3>. HIDE DEF row
    <3>. QED
      BY <1>6, <2>1, <3>1
  <2>. QED
    BY <2>2, <2>3
<1>11. ASSUME NEW w \in Workers, Fail(w) PROVE Queued'
  <2>. DEFINE j == worker[w].job
              d == Backoff(worker[w].attempts)
  <2>1. j \in Jobs /\ d \in -Half .. MaxBackoff /\ d \in Int
    <3>1. worker[w] \in Claims
      BY <1>11, HoldingClaim DEF Fail
    <3>. QED
      BY <1>2, <3>1, BackoffRange DEF Claims
  <2>2. CASE ~ Retryable(w)
    BY <1>4, <1>11, <2>2 DEF Fail
  <2>3. CASE Retryable(w) /\ Permanently(w)
    <3>. DEFINE row == [job[j] EXCEPT !.status = "failed", !.age = 0]
    <3>1. /\ job' = [job EXCEPT ![j] = row]
          /\ ~ row.status \in Waiting /\ ~ job[j].status \in Waiting
          /\ queue' = queue
      BY <1>2, <1>11, <2>1, <2>3 DEF Fail, Retryable, Waiting, Rows
    <3>. HIDE DEF row, j
    <3>. QED
      BY <1>6, <2>1, <3>1
  <2>4. CASE Retryable(w) /\ ~ Permanently(w)
    <3>. DEFINE row == [job[j] EXCEPT !.status = "retry", !.due = d, !.age = 0]
    <3>1. /\ job' = [job EXCEPT ![j] = row]
          /\ queue' = Enqueue(queue, j, d)
      BY <1>11, <2>1, <2>4 DEF Fail
    <3>2. row.status \in Waiting /\ row.due = d /\ ~ job[j].status \in Waiting
      BY <1>2, <1>11, <2>1, <2>4 DEF Retryable, Waiting, Rows
    <3>3. row \in Rows
      BY <1>2, <2>1, RowChanges
    <3>. HIDE DEF row, j, d
    <3>. QED
      BY <1>5, <2>1, <3>1, <3>2, <3>3
  <2>. QED
    BY <2>2, <2>3, <2>4
<1>12. ASSUME Tick PROVE Queued'
  <2>1. \A j \in Jobs : /\ job'[j].status = job[j].status
                        /\ job'[j].due = IF job[j].due > 0 THEN job[j].due - 1 ELSE job[j].due
                        /\ job[j].due \in Int
    <3>1. \A j \in Jobs : job[j].due \in Int
      BY <1>2 DEF Rows
    <3>. QED
      BY <1>2, <1>12, <3>1, AllTick, RowTicks
  <2>2. \A j, k \in Jobs : job[j].due <= job[k].due => job'[j].due <= job'[k].due
    BY <2>1
  <2>. QED
    BY <1>1, <1>12, <2>1, <2>2, QueuedSame DEF Tick
<1>. QED
  BY <1>4, <1>7, <1>8, <1>9, <1>10, <1>11, <1>12
     DEF Next, Work, Succeed, Err, ErrPermanently, HandlerReturns, Crash, LoseOutcome, vars

-----------------------------------------------------------------------------
(* Claims.                                                                 *)

\* A worker's claim is one the row still knows: the attempt number only grows,
\* so the next claim's is new.
ClaimsKnown ==
    \A w \in Workers : worker[w] \in Claims =>
        /\ job[worker[w].job].status # "none"
        /\ worker[w].attempts <= job[worker[w].job].attempts

\* What a worker reports is what its handler returned.
ReportsHonest ==
    \A w \in Workers : worker[w] \in Claims =>
        /\ worker[w].pc = "refusing" => worker[w].job \in Permanent
        /\ worker[w].pc = "completing" => handled[worker[w].job] > 0

\* What every step but a claim does to a row and to a worker.
LEMMA NoClaim ==
  ASSUME Typed, Queued, [Next]_vars, \A w \in Workers : ~ Claim(w)
  PROVE  /\ \A w \in Workers : worker'[w] \in Claims =>
               /\ worker[w] \in Claims
               /\ worker'[w].job = worker[w].job
               /\ worker'[w].attempts = worker[w].attempts
               /\ \/ worker'[w] = worker[w]
                  \/ Succeed(w) \/ Err(w) \/ ErrPermanently(w)
         /\ \A j \in Jobs : /\ job'[j].attempts = job[j].attempts
                            /\ job[j].status # "none" => job'[j].status # "none"
<1>. DEFINE W == \A w \in Workers : worker'[w] \in Claims =>
                    /\ worker[w] \in Claims
                    /\ worker'[w].job = worker[w].job
                    /\ worker'[w].attempts = worker[w].attempts
                    /\ \/ worker'[w] = worker[w]
                       \/ Succeed(w) \/ Err(w) \/ ErrPermanently(w)
            J == \A j \in Jobs : /\ job'[j].attempts = job[j].attempts
                                 /\ job[j].status # "none" => job'[j].status # "none"
<1>1. /\ \A j \in Jobs : job[j] \in Rows
      /\ job \in [Jobs -> Rows]
      /\ worker \in [Workers -> {Down, Idle} \cup Claims]
      /\ ~ Down \in Claims /\ ~ Idle \in Claims
  BY DEF Typed, Down, Idle, Claims
<1>2. ASSUME NEW w \in Workers, NEW x \in {Down, Idle}, worker' = [worker EXCEPT ![w] = x]
      PROVE  W
  BY <1>1, <1>2
<1>3. ASSUME UNCHANGED worker PROVE W
  BY <1>3
<1>4. ASSUME UNCHANGED job PROVE J
  BY <1>4
<1>5. ASSUME NEW j \in Jobs, CreateJob(j) PROVE W /\ J
  BY <1>1, <1>3, <1>5 DEF CreateJob, Rows
<1>6. ASSUME NEW w \in Workers, Start(w) PROVE W /\ J
  BY <1>1, <1>2, <1>6 DEF Start, Rows
<1>7. ASSUME NEW w \in Workers, NEW pc \in {"completing", "failing", "refusing"},
             HandlerReturns(w, pc), Succeed(w) \/ Err(w) \/ ErrPermanently(w)
      PROVE  W /\ J
  <2>1. worker[w] \in Claims
    BY <1>7, HoldingClaim DEF HandlerReturns
  <2>2. worker'[w].job = worker[w].job /\ worker'[w].attempts = worker[w].attempts
    BY <1>1, <1>7, <2>1 DEF HandlerReturns, Claims
  <2>3. \A x \in Workers : x # w => worker'[x] = worker[x]
    BY <1>1, <1>7 DEF HandlerReturns
  <2>4. J
    BY <1>4, <1>7 DEF HandlerReturns
  <2>. QED
    BY <1>7, <2>1, <2>2, <2>3, <2>4
<1>8. ASSUME NEW w \in Workers, Succeed(w) \/ Err(w) \/ ErrPermanently(w) PROVE W /\ J
  <2>1. \E pc \in {"completing", "failing", "refusing"} : HandlerReturns(w, pc)
    BY <1>8 DEF Succeed, Err, ErrPermanently, Report
  <2>. QED
    BY <1>7, <1>8, <2>1
<1>9. ASSUME NEW w \in Workers, Complete(w) PROVE W /\ J
  <2>1. worker[w].job \in Jobs
    BY <1>9, HoldingClaim DEF Complete, Claims
  <2>. QED
    BY <1>1, <1>2, <1>9, <2>1 DEF Complete, Rows
<1>10. ASSUME NEW w \in Workers, Fail(w) PROVE W /\ J
  <2>1. worker[w].job \in Jobs
    BY <1>10, HoldingClaim DEF Fail, Claims
  <2>2. J
    BY <1>1, <1>10, <2>1 DEF Fail, Rows
  <2>. QED
    BY <1>2, <1>10, <2>2 DEF Fail
<1>11. ASSUME NEW w \in Workers, Crash(w) \/ LoseOutcome(w) PROVE W /\ J
  BY <1>2, <1>4, <1>11 DEF Crash, LoseOutcome
<1>12. ASSUME Tick PROVE W /\ J
  <2>1. J
    BY <1>1, <1>12, AllTick, RowTicks
  <2>. QED
    BY <1>3, <1>12, <2>1 DEF Tick
<1>13. ASSUME UNCHANGED vars PROVE W /\ J
  BY <1>3, <1>4, <1>13 DEF vars
<1>. QED
  BY <1>5, <1>6, <1>8, <1>9, <1>10, <1>11, <1>12, <1>13 DEF Next, Work

\* What a claim does.
LEMMA OneClaim ==
  ASSUME Typed, Queued, NEW w \in Workers, Claim(w)
  PROVE  \E j \in Jobs :
            /\ job[j].status \in Waiting
            /\ job'[j].status = "running" /\ job'[j].attempts = job[j].attempts + 1
            /\ worker'[w] = [pc |-> "handling", job |-> j,
                             attempts |-> job[j].attempts + 1]
            /\ worker'[w].pc = "handling" /\ worker'[w].job = j
            /\ worker[w] = Idle
            /\ \A i \in Jobs : i # j => job'[i] = job[i]
            /\ \A x \in Workers : x # w => worker'[x] = worker[x]
            /\ handled' = handled /\ crashes' = crashes
<1>1. Head(queue) \in Jobs /\ job[Head(queue)].status \in Waiting
  BY HeadWaits DEF Claim
<1>2. PICK j \in Jobs : j = Head(queue)
  BY <1>1
<1>. QED
  BY <1>1, <1>2 DEF Claim, Claimed, Typed

\* Claims stay known and distinct.
LEMMA ClaimsStep ==
  ASSUME Typed, Queued, ClaimsKnown, ClaimsDistinct, [Next]_vars
  PROVE  ClaimsKnown' /\ ClaimsDistinct'
<1>1. /\ Typed'
      /\ \A w \in Workers : Holding(w) <=> worker[w] \in Claims
      /\ \A w \in Workers : Holding(w)' <=> worker'[w] \in Claims
  <2>1. Typed'
    BY TypedStep
  <2>2. \A w \in Workers : Holding(w)' <=> worker'[w] \in Claims
    BY <2>1 DEF Typed, Holding, Down, Idle, Claims
  <2>. QED
    BY <2>1, <2>2, HoldingClaim
<1>2. CASE \A w \in Workers : ~ Claim(w)
  <2>1. ClaimsKnown'
    <3>. SUFFICES ASSUME NEW w \in Workers, worker'[w] \in Claims
                  PROVE  /\ job'[worker'[w].job].status # "none"
                         /\ worker'[w].attempts <= job'[worker'[w].job].attempts
      BY DEF ClaimsKnown
    <3>1. worker[w] \in Claims /\ worker[w].job \in Jobs
          /\ worker'[w].job = worker[w].job /\ worker'[w].attempts = worker[w].attempts
      BY <1>2, NoClaim DEF Claims
    <3>. QED
      BY <1>2, <3>1, NoClaim DEF ClaimsKnown
  <2>2. ClaimsDistinct'
    <3>. SUFFICES ASSUME NEW w \in Workers, NEW x \in Workers, w # x,
                         worker'[w] \in Claims, worker'[x] \in Claims
                  PROVE  <<worker'[w].job, worker'[w].attempts>>
                            # <<worker'[x].job, worker'[x].attempts>>
      BY <1>1 DEF ClaimsDistinct
    <3>1. /\ worker[w] \in Claims /\ worker[x] \in Claims
          /\ worker'[w].job = worker[w].job /\ worker'[w].attempts = worker[w].attempts
          /\ worker'[x].job = worker[x].job /\ worker'[x].attempts = worker[x].attempts
      BY <1>2, NoClaim
    <3>. QED
      BY <1>1, <3>1 DEF ClaimsDistinct
  <2>. QED
    BY <2>1, <2>2
<1>3. CASE \E w \in Workers : Claim(w)
  <2>1. PICK w \in Workers, j \in Jobs :
            /\ job[j].status \in Waiting
            /\ job'[j].status = "running" /\ job'[j].attempts = job[j].attempts + 1
            /\ worker'[w] = [pc |-> "handling", job |-> j,
                             attempts |-> job[j].attempts + 1]
            /\ \A i \in Jobs : i # j => job'[i] = job[i]
            /\ \A x \in Workers : x # w => worker'[x] = worker[x]
    BY <1>3, OneClaim
  <2>2. PICK a \in Nat : a = job[j].attempts
    BY DEF Typed, Rows
  <2>3. worker'[w].job = j /\ worker'[w].attempts = a + 1
    BY <2>1, <2>2
  <2>4. \A x \in Workers : worker[x] \in Claims =>
           /\ worker[x].job \in Jobs /\ worker[x].attempts \in Nat
           /\ job[worker[x].job].status # "none"
           /\ worker[x].attempts <= job[worker[x].job].attempts
           /\ job[worker[x].job].attempts \in Nat
    BY DEF ClaimsKnown, Claims, Typed, Rows
  <2>5. ClaimsKnown'
    <3>. SUFFICES ASSUME NEW x \in Workers, worker'[x] \in Claims
                  PROVE  /\ job'[worker'[x].job].status # "none"
                         /\ worker'[x].attempts <= job'[worker'[x].job].attempts
      BY DEF ClaimsKnown
    <3>1. CASE x = w
      BY <2>1, <2>2, <2>3, <3>1
    <3>2. CASE x # w
      <4>1. worker'[x] = worker[x] /\ worker[x].job \in Jobs
        BY <2>1, <2>4, <3>2
      <4>2. CASE worker[x].job = j
        BY <2>1, <2>2, <2>4, <4>1, <4>2
      <4>3. CASE worker[x].job # j
        BY <2>1, <2>4, <4>1, <4>3
      <4>. QED
        BY <4>2, <4>3
    <3>. QED
      BY <3>1, <3>2
  <2>6. ClaimsDistinct'
    <3>. SUFFICES ASSUME NEW x \in Workers, NEW y \in Workers, x # y,
                         worker'[x] \in Claims, worker'[y] \in Claims,
                         worker'[x].job = worker'[y].job,
                         worker'[x].attempts = worker'[y].attempts
                  PROVE  FALSE
      BY <1>1 DEF ClaimsDistinct
    <3>1. ASSUME NEW z \in Workers, z # w, worker'[z] \in Claims, worker'[z].job = j
          PROVE  worker'[z].attempts # a + 1
      BY <2>1, <2>2, <2>4, <3>1
    <3>2. CASE x = w
      BY <2>3, <3>1, <3>2
    <3>3. CASE y = w
      BY <2>3, <3>1, <3>3
    <3>4. CASE x # w /\ y # w
      BY <1>1, <2>1, <3>4 DEF ClaimsDistinct
    <3>. QED
      BY <3>2, <3>3, <3>4
  <2>. QED
    BY <2>5, <2>6
<1>. QED
  BY <1>2, <1>3

\* Only a handler that returned nil adds to handled.
LEMMA NotHandled ==
  ASSUME [Next]_vars, \A w \in Workers : ~ Succeed(w)
  PROVE  handled' = handled
  BY DEF Next, Work, CreateJob, Start, Claim, Err, ErrPermanently, Complete, Fail, Crash,
         LoseOutcome, Tick, vars

LEMMA OneSuccess ==
  ASSUME Typed, Queued, NEW w \in Workers, Succeed(w)
  PROVE  /\ worker[w] \in Claims /\ worker[w].pc = "handling"
         /\ worker[w].job \in Jobs \ Permanent
         /\ worker'[w].pc = "completing" /\ worker'[w].job = worker[w].job
         /\ \A x \in Workers : x # w => worker'[x] = worker[x]
         /\ handled'[worker[w].job] = handled[worker[w].job] + 1
         /\ \A j \in Jobs : j # worker[w].job => handled'[j] = handled[j]
         /\ job' = job
<1>1. worker[w] \in Claims
  BY HoldingClaim DEF Succeed, HandlerReturns
<1>. QED
  BY <1>1 DEF Succeed, HandlerReturns, Report, Claims, Typed

\* Reports stay what the handlers returned.
LEMMA ReportsStep ==
  ASSUME Typed, Queued, ReportsHonest, [Next]_vars
  PROVE  ReportsHonest'
<1>1. Typed'
  BY TypedStep
<1>2. \A j \in Jobs : handled[j] \in Nat /\ handled'[j] \in Nat /\ handled[j] <= handled'[j]
  <2>1. \A j \in Jobs : handled[j] \in Nat /\ handled'[j] \in Nat
    BY <1>1 DEF Typed
  <2>2. CASE \A w \in Workers : ~ Succeed(w)
    BY <2>1, <2>2, NotHandled
  <2>3. CASE \E w \in Workers : Succeed(w)
    <3>1. PICK w \in Workers : Succeed(w)
      BY <2>3
    <3>. QED
      BY <2>1, <3>1, OneSuccess
  <2>. QED
    BY <2>2, <2>3
<1>. SUFFICES ASSUME NEW w \in Workers, worker'[w] \in Claims
              PROVE  /\ worker'[w].pc = "refusing" => worker'[w].job \in Permanent
                     /\ worker'[w].pc = "completing" => handled'[worker'[w].job] > 0
  BY DEF ReportsHonest
<1>3. CASE worker'[w] = worker[w]
  <2>1. worker[w].job \in Jobs
    BY <1>3 DEF Claims
  <2>. QED
    BY <1>2, <1>3, <2>1 DEF ReportsHonest
<1>4. CASE Claim(w)
  BY <1>4, OneClaim
<1>5. CASE \E x \in Workers : x # w /\ Claim(x)
  BY <1>3, <1>5, OneClaim
<1>6. CASE Succeed(w)
  <2>1. /\ worker'[w].pc = "completing" /\ worker'[w].job \in Jobs
        /\ handled'[worker'[w].job] = handled[worker'[w].job] + 1
    BY <1>6, OneSuccess
  <2>. QED
    BY <1>2, <2>1
<1>7. CASE Err(w) \/ ErrPermanently(w)
  <2>1. worker[w] \in Claims
    BY <1>7, HoldingClaim DEF Err, ErrPermanently, HandlerReturns
  <2>. QED
    BY <1>7, <2>1 DEF Err, ErrPermanently, HandlerReturns, Report, Claims, Typed
<1>. QED
  BY <1>3, <1>4, <1>5, <1>6, <1>7, NoClaim

-----------------------------------------------------------------------------
(* Attempts.                                                               *)

\* The workers that run the handler of job j.
Busy(j) == {w \in Workers : worker[w] \in Claims /\ worker[w].pc = "handling"
                             /\ worker[w].job = j}

\* A claim pays for one run of the handler, which ends well at most once.
RunsPaid == \A j \in Jobs : handled[j] + Cardinality(Busy(j)) <= job[j].attempts

LEMMA BusyFinite == ASSUME Typed, NEW j \in Jobs PROVE IsFiniteSet(Busy(j)) /\ Cardinality(Busy(j)) \in Nat
<1>1. Busy(j) \in SUBSET Up
  BY DEF Busy, Up, Down, Claims
<1>. QED
  BY <1>1, FS_Subset, FS_CardinalityType DEF Typed

LEMMA RunsStep ==
  ASSUME Typed, Queued, RunsPaid, [Next]_vars
  PROVE  RunsPaid'
<1>1. Typed'
  BY TypedStep
<1>2. \A j \in Jobs : /\ IsFiniteSet(Busy(j)) /\ Cardinality(Busy(j)) \in Nat
                      /\ IsFiniteSet(Busy(j)') /\ Cardinality(Busy(j)') \in Nat
  <2>1. \A j \in Jobs : IsFiniteSet(Busy(j)') /\ Cardinality(Busy(j)') \in Nat
    <3>. TAKE j \in Jobs
    <3>1. Busy(j)' \in SUBSET Up'
      BY DEF Busy, Up, Down, Claims
    <3>. QED
      BY <1>1, <3>1, FS_Subset, FS_CardinalityType DEF Typed
  <2>. QED
    BY <2>1, BusyFinite
<1>3. \A j \in Jobs : /\ handled[j] \in Nat /\ handled'[j] \in Nat
                      /\ job[j].attempts \in Nat /\ job'[j].attempts \in Nat
                      /\ handled[j] + Cardinality(Busy(j)) <= job[j].attempts
  BY <1>1 DEF Typed, Rows, RunsPaid
<1>. SUFFICES ASSUME NEW j \in Jobs
              PROVE  handled'[j] + Cardinality(Busy(j)') <= job'[j].attempts
  BY DEF RunsPaid
<1>4. ASSUME Busy(j)' \in SUBSET Busy(j)
      PROVE  Cardinality(Busy(j)') <= Cardinality(Busy(j))
  BY <1>2, <1>4, FS_Subset
<1>5. ASSUME NEW w \in Workers, Claim(w)
      PROVE  handled'[j] + Cardinality(Busy(j)') <= job'[j].attempts
  <2>1. PICK i \in Jobs :
            /\ job'[i].attempts = job[i].attempts + 1
            /\ worker'[w].job = i
            /\ \A k \in Jobs : k # i => job'[k] = job[k]
            /\ \A x \in Workers : x # w => worker'[x] = worker[x]
            /\ handled' = handled
    BY <1>5, OneClaim
  <2>2. CASE i = j
    <3>1. Busy(j)' \in SUBSET (Busy(j) \cup {w})
      BY <2>1 DEF Busy
    <3>2. /\ IsFiniteSet(Busy(j) \cup {w})
          /\ Cardinality(Busy(j) \cup {w}) <= Cardinality(Busy(j)) + 1
      <4>1. /\ IsFiniteSet(Busy(j) \cup {w})
            /\ Cardinality(Busy(j) \cup {w})
                  = IF w \in Busy(j) THEN Cardinality(Busy(j)) ELSE Cardinality(Busy(j)) + 1
        BY <1>2, FS_AddElement
      <4>. QED
        BY <1>2, <4>1
    <3>3. Cardinality(Busy(j)') <= Cardinality(Busy(j) \cup {w})
      BY <3>1, <3>2, FS_Subset
    <3>4. Cardinality(Busy(j) \cup {w}) \in Nat
      BY <3>2, FS_CardinalityType
    <3>. QED
      BY <1>2, <1>3, <2>1, <2>2, <3>2, <3>3, <3>4
  <2>3. CASE i # j
    <3>1. Busy(j)' \in SUBSET Busy(j)
      BY <2>1, <2>3 DEF Busy
    <3>. QED
      BY <1>2, <1>3, <1>4, <2>1, <2>3, <3>1
  <2>. QED
    BY <2>2, <2>3
<1>6. ASSUME NEW w \in Workers, Succeed(w)
      PROVE  handled'[j] + Cardinality(Busy(j)') <= job'[j].attempts
  <2>1. Busy(j)' \in SUBSET Busy(j)
    BY <1>6, OneSuccess DEF Busy
  <2>2. CASE j = worker[w].job
    <3>1. Busy(j)' \in SUBSET (Busy(j) \ {w})
      BY <1>6, <2>1, OneSuccess DEF Busy
    <3>2. w \in Busy(j)
      BY <1>6, <2>2, OneSuccess DEF Busy
    <3>3. /\ IsFiniteSet(Busy(j) \ {w})
          /\ Cardinality(Busy(j) \ {w}) = Cardinality(Busy(j)) - 1
      BY <1>2, <3>2, FS_RemoveElement
    <3>4. Cardinality(Busy(j)') <= Cardinality(Busy(j) \ {w})
      BY <3>1, <3>3, FS_Subset
    <3>5. handled'[j] = handled[j] + 1 /\ job'[j].attempts = job[j].attempts
      BY <1>6, <2>2, OneSuccess
    <3>. QED
      BY <1>2, <1>3, <3>3, <3>4, <3>5
  <2>3. CASE j # worker[w].job
    <3>1. handled'[j] = handled[j] /\ job'[j].attempts = job[j].attempts
      BY <1>6, <2>3, OneSuccess
    <3>. QED
      BY <1>2, <1>3, <1>4, <2>1, <3>1
  <2>. QED
    BY <2>2, <2>3
<1>7. CASE \A w \in Workers : ~ Claim(w) /\ ~ Succeed(w)
  <2>1. handled' = handled /\ job'[j].attempts = job[j].attempts
    BY <1>7, NotHandled, NoClaim
  <2>2. \A w \in Workers : worker'[w] \in Claims =>
           /\ worker[w] \in Claims /\ worker'[w].job = worker[w].job
           /\ worker'[w] = worker[w] \/ Err(w) \/ ErrPermanently(w)
    BY <1>7, NoClaim
  <2>3. \A w \in Workers : worker'[w] \in Claims /\ (Err(w) \/ ErrPermanently(w))
                             => worker'[w].pc # "handling"
    BY HoldingClaim DEF Err, ErrPermanently, HandlerReturns, Report, Typed, Claims
  <2>4. Busy(j)' \in SUBSET Busy(j)
    BY <2>2, <2>3 DEF Busy
  <2>. QED
    BY <1>2, <1>3, <1>4, <2>1, <2>4
<1>. QED
  BY <1>5, <1>6, <1>7

\* The starts of processes so far: those that ended and those that are up.
Starts == crashes + Cardinality(Up)

LEMMA StartsCount ==
  ASSUME Typed, Queued, [Next]_vars
  PROVE  /\ Starts \in Nat /\ Starts' \in Nat
         /\ (\E w \in Workers : Start(w)) => Starts' = Starts + 1
         /\ (\A w \in Workers : ~ Start(w)) => Starts' = Starts
         /\ (\E w \in Workers : Claim(w)) => Starts > 0
<1>1. Typed'
  BY TypedStep
<1>2. /\ IsFiniteSet(Up) /\ Cardinality(Up) \in Nat /\ crashes \in Nat
      /\ IsFiniteSet(Up') /\ Cardinality(Up') \in Nat /\ crashes' \in Nat
  BY <1>1, FS_CardinalityType DEF Typed
<1>3. ASSUME NEW w \in Workers, Start(w) PROVE Starts' = Starts + 1
  <2>1. Up' = Up \cup {w} /\ ~ w \in Up /\ crashes' = crashes
    BY <1>3 DEF Start, Up, Idle, Down, Typed
  <2>2. Cardinality(Up') = Cardinality(Up) + 1
    BY <1>2, <2>1, FS_AddElement
  <2>. QED
    BY <1>2, <2>1, <2>2 DEF Starts
<1>4. ASSUME NEW w \in Workers, Crash(w) PROVE Starts' = Starts
  <2>1. Up' = Up \ {w} /\ w \in Up /\ crashes' = crashes + 1
    BY <1>4 DEF Crash, Up, Typed
  <2>2. Cardinality(Up') = Cardinality(Up) - 1
    BY <1>2, <2>1, FS_RemoveElement
  <2>. QED
    BY <1>2, <2>1, <2>2 DEF Starts
<1>5. ASSUME NEW w \in Workers, worker[w] # Down, worker'[w] # Down,
             \A x \in Workers : x # w => worker'[x] = worker[x], crashes' = crashes
      PROVE  Starts' = Starts
  <2>1. Up' = Up
    BY <1>5 DEF Up
  <2>. QED
    BY <1>5, <2>1 DEF Starts
<1>6. ASSUME NEW w \in Workers, Work(w) \/ LoseOutcome(w) PROVE Starts' = Starts
  <2>1. worker[w] # Down
    <3>1. worker[w] = Idle \/ worker[w] \in Claims
      BY <1>6, HoldingClaim DEF Work, Claim, Succeed, Err, ErrPermanently, HandlerReturns,
         Complete, Fail, LoseOutcome
    <3>. QED
      BY <3>1 DEF Idle, Down, Claims
  <2>2. crashes' = crashes
    BY <1>6 DEF Work, Claim, Succeed, Err, ErrPermanently, HandlerReturns, Complete, Fail,
       LoseOutcome
  <2>3. \A x \in Workers : x # w => worker'[x] = worker[x]
    BY <1>6 DEF Work, Claim, Succeed, Err, ErrPermanently, HandlerReturns, Complete, Fail,
       LoseOutcome, Typed
  <2>4. worker'[w] # Down
    <3>1. CASE Claim(w)
      <4>1. worker'[w].pc = "handling"
        BY <3>1, OneClaim
      <4>. QED
        BY <4>1 DEF Down
    <3>2. CASE Complete(w) \/ Fail(w) \/ LoseOutcome(w)
      BY <3>2 DEF Complete, Fail, LoseOutcome, Idle, Down, Typed
    <3>3. CASE Succeed(w) \/ Err(w) \/ ErrPermanently(w)
      <4>1. worker'[w].pc \in {"completing", "failing", "refusing"}
        <5>1. worker[w] \in Claims
          BY <3>3, HoldingClaim DEF Succeed, Err, ErrPermanently, HandlerReturns
        <5>. QED
          BY <3>3, <5>1 DEF Succeed, Err, ErrPermanently, HandlerReturns, Report, Claims, Typed
      <4>. QED
        BY <4>1 DEF Down
    <3>. QED
      BY <1>6, <3>1, <3>2, <3>3 DEF Work
  <2>. QED
    BY <1>5, <2>1, <2>2, <2>3, <2>4
<1>7. ASSUME UNCHANGED <<worker, crashes>> PROVE Starts' = Starts
  BY <1>7 DEF Starts, Up
<1>8. (\A w \in Workers : ~ Start(w)) => Starts' = Starts
  BY <1>4, <1>6, <1>7 DEF Next, CreateJob, Tick, vars
<1>9. ASSUME NEW w \in Workers, Claim(w) PROVE Starts > 0
  <2>1. w \in Up
    BY <1>9 DEF Claim, Up, Idle, Down
  <2>2. Cardinality(Up) # 0
    BY <1>2, <2>1, FS_EmptySet
  <2>. QED
    BY <1>2, <2>2 DEF Starts
<1>. QED
  BY <1>2, <1>3, <1>8, <1>9 DEF Starts

\* A job is beyond its limit only after restarts: every claim beyond the limit
\* took a start, and a job that waits with no attempt left has one to spare.
OverLimit ==
    \A j \in Jobs : job[j].attempts >= MaxAttempts =>
        /\ job[j].attempts - MaxAttempts < Starts
        /\ job[j].status \in Waiting => job[j].attempts - MaxAttempts + 1 < Starts

\* A job is given up for a reason.
GivenUpRightly ==
    \A j \in Jobs : job[j].status = "failed" =>
        j \in Permanent \/ job[j].attempts >= MaxAttempts

\* How a job comes to wait, and how it comes to be given up.
LEMMA StatusStep ==
  ASSUME Typed, Queued, Blank, ReportsHonest, [Next]_vars, NEW j \in Jobs
  PROVE  /\ job'[j].status \in Waiting =>
               \/ job[j].status \in Waiting
               \/ job'[j].attempts < MaxAttempts
               \/ \E w \in Workers : Start(w)
         /\ job'[j].status = "failed" =>
               \/ job[j].status = "failed"
               \/ j \in Permanent \/ job'[j].attempts >= MaxAttempts
<1>. DEFINE G == /\ job'[j].status \in Waiting =>
                       \/ job[j].status \in Waiting
                       \/ job'[j].attempts < MaxAttempts
                       \/ \E w \in Workers : Start(w)
                 /\ job'[j].status = "failed" =>
                       \/ job[j].status = "failed"
                       \/ j \in Permanent \/ job'[j].attempts >= MaxAttempts
<1>1. /\ \A i \in Jobs : job[i] \in Rows
      /\ job \in [Jobs -> Rows] /\ MaxAttempts \in Nat \ {0}
  BY OutboxAssumption DEF Typed
<1>2. CASE job'[j] = job[j]
  BY <1>2
<1>3. ASSUME NEW i \in Jobs, CreateJob(i) PROVE G
  <2>1. CASE i = j
    BY <1>1, <1>3, <2>1 DEF CreateJob, Blank, Rows
  <2>2. CASE i # j
    BY <1>1, <1>2, <1>3, <2>2 DEF CreateJob
  <2>. QED
    BY <2>1, <2>2
<1>4. ASSUME NEW w \in Workers, Start(w) PROVE G
  BY <1>1, <1>4 DEF Start, Rows
<1>5. ASSUME NEW w \in Workers, Claim(w) PROVE G
  BY <1>2, <1>5, OneClaim DEF Waiting
<1>6. ASSUME NEW w \in Workers, Complete(w) PROVE G
  <2>1. worker[w].job \in Jobs
    BY <1>6, HoldingClaim DEF Complete, Claims
  <2>. QED
    BY <1>1, <1>6, <2>1 DEF Complete, Rows, Waiting
<1>7. ASSUME NEW w \in Workers, Fail(w) PROVE G
  <2>1. /\ worker[w] \in Claims /\ worker[w].job \in Jobs /\ worker[w].attempts \in Nat
        /\ worker[w].pc = "refusing" => worker[w].job \in Permanent
    BY <1>7, HoldingClaim DEF Fail, Claims, ReportsHonest
  <2>2. CASE j # worker[w].job \/ job' = job
    BY <1>1, <1>2, <1>7, <2>2 DEF Fail
  <2>3. CASE j = worker[w].job /\ Retryable(w) /\ Permanently(w)
    BY <1>1, <1>7, <2>1, <2>3 DEF Fail, Retryable, Permanently, Rows, Waiting
  <2>4. CASE j = worker[w].job /\ Retryable(w) /\ ~ Permanently(w)
    <3>1. job[j].attempts < MaxAttempts
      BY <1>1, <2>1, <2>4 DEF Retryable, Permanently
    <3>2. job'[j].attempts = job[j].attempts /\ job'[j].status = "retry"
      BY <1>1, <1>7, <2>1, <2>4 DEF Fail, Rows
    <3>. QED
      BY <3>1, <3>2
  <2>. QED
    BY <1>7, <2>2, <2>3, <2>4 DEF Fail
<1>8. ASSUME Tick PROVE G
  BY <1>1, <1>8, AllTick, RowTicks
<1>. QED
  BY <1>2, <1>3, <1>4, <1>5, <1>6, <1>7, <1>8
     DEF Next, Work, Succeed, Err, ErrPermanently, HandlerReturns, Crash, LoseOutcome, vars

LEMMA LimitStep ==
  ASSUME Typed, Queued, Blank, ReportsHonest, OverLimit, GivenUpRightly, [Next]_vars
  PROVE  OverLimit' /\ GivenUpRightly'
<1>1. PICK m \in Nat \ {0} : m = MaxAttempts
  BY OutboxAssumption
<1>2. PICK s \in Nat, t \in Nat : s = Starts /\ t = Starts'
  BY StartsCount
<1>3. s <= t /\ ((\E w \in Workers : Start(w)) => t = s + 1)
  BY <1>2, StartsCount
<1>4. Typed'
  BY TypedStep
<1>5. ASSUME NEW j \in Jobs
      PROVE  /\ job'[j].attempts >= m =>
                   /\ job'[j].attempts - m < t
                   /\ job'[j].status \in Waiting => job'[j].attempts - m + 1 < t
             /\ job'[j].status = "failed" => j \in Permanent \/ job'[j].attempts >= m
  <2>1. PICK a \in Nat, b \in Nat : a = job[j].attempts /\ b = job'[j].attempts
    BY <1>4 DEF Typed, Rows
  <2>2. a >= m => a - m < s /\ (job[j].status \in Waiting => a - m + 1 < s)
    BY <1>1, <1>2, <2>1 DEF OverLimit
  <2>3. job[j].status = "failed" => j \in Permanent \/ a >= m
    BY <1>1, <2>1 DEF GivenUpRightly
  <2>4. /\ job'[j].status \in Waiting =>
              \/ job[j].status \in Waiting
              \/ b < m
              \/ t = s + 1
        /\ job'[j].status = "failed" =>
              \/ job[j].status = "failed"
              \/ j \in Permanent \/ b >= m
    BY <1>1, <1>3, <2>1, StatusStep
  <2>5. CASE a = b
    BY <1>3, <2>1, <2>2, <2>3, <2>4, <2>5
  <2>6. CASE a # b
    <3>1. PICK w \in Workers : Claim(w)
      BY <2>1, <2>6, NoClaim
    <3>2. PICK i \in Jobs :
             /\ job[i].status \in Waiting /\ job'[i].status = "running"
             /\ job'[i].attempts = job[i].attempts + 1
             /\ \A k \in Jobs : k # i => job'[k] = job[k]
      BY <3>1, OneClaim
    <3>3. i = j
      BY <2>1, <2>6, <3>2
    <3>4. b = a + 1 /\ job[j].status \in Waiting
          /\ ~ job'[j].status \in Waiting /\ job'[j].status # "failed"
      BY <2>1, <3>2, <3>3 DEF Waiting
    <3>5. 0 < s
      BY <1>2, <3>1, StartsCount
    <3>6. b >= m => b - m < t
      BY <1>3, <2>2, <3>4, <3>5
    <3>. QED
      BY <2>1, <3>4, <3>6
  <2>. QED
    BY <2>5, <2>6
<1>. QED
  BY <1>1, <1>2, <1>5 DEF OverLimit, GivenUpRightly

-----------------------------------------------------------------------------
(* The inductive invariant, and what follows from it.                      *)

OutboxInv ==
    /\ Typed /\ Queued /\ Blank
    /\ ClaimsKnown /\ ClaimsDistinct /\ ReportsHonest
    /\ RunsPaid /\ OverLimit /\ GivenUpRightly

LEMMA OutboxInvInit == Init => OutboxInv
<1>. SUFFICES ASSUME Init PROVE OutboxInv
  OBVIOUS
<1>1. Typed /\ Queued
  BY TypedInit, QueuedInit
<1>2. \A w \in Workers : worker[w] = Down /\ ~ worker[w] \in Claims /\ ~ Holding(w)
  BY DEF Init, Down, Claims, Holding
<1>3. \A j \in Jobs : Busy(j) = {} /\ job[j].attempts = 0 /\ handled[j] = 0
                      /\ job[j].status = "none" /\ job[j].due = 0
  BY <1>2 DEF Busy, Init
<1>4. MaxAttempts \in Nat \ {0}
  BY OutboxAssumption
<1>5. RunsPaid
  BY <1>3, FS_EmptySet DEF RunsPaid
<1>6. OverLimit /\ GivenUpRightly /\ Blank
  BY <1>3, <1>4 DEF OverLimit, GivenUpRightly, Blank
<1>7. ClaimsKnown /\ ClaimsDistinct /\ ReportsHonest
  BY <1>2 DEF ClaimsKnown, ClaimsDistinct, ReportsHonest
<1>. QED
  BY <1>1, <1>5, <1>6, <1>7 DEF OutboxInv

LEMMA OutboxInvStep == OutboxInv /\ [Next]_vars => OutboxInv'
  BY TypedStep, QueuedStep, BlankStep, ClaimsStep, ReportsStep, RunsStep, LimitStep
     DEF OutboxInv

\* The inductive invariant holds in every state.
THEOREM OutboxInvariant == Spec => []OutboxInv
<1>1. Init => OutboxInv
  BY OutboxInvInit
<1>2. OutboxInv /\ [Next]_vars => OutboxInv'
  BY OutboxInvStep
<1>. QED
  BY <1>1, <1>2, PTL DEF Spec

\* Types; and the queue is the waiting jobs, each once, in the order of their
\* available_at, whatever CreateJob, FailJob and RecoverStaleJobs put into it.
THEOREM OutboxTypes == Spec => []OutboxTypeOK
<1>1. OutboxInv => OutboxTypeOK
  <2>. SUFFICES ASSUME OutboxInv PROVE OutboxTypeOK
    OBVIOUS
  <2>1. job \in [Jobs -> [status : JobStatus, attempts : Nat,
                          due : -Half .. MaxBackoff, age : 0 .. StaleAfter + 1]]
    BY DEF OutboxInv, Typed, Rows
  <2>2. /\ queue \in Seq(Jobs)
        /\ {queue[k] : k \in DOMAIN queue} = {j \in Jobs : job[j].status \in Waiting}
    BY DEF OutboxInv, Queued, Items
  <2>3. \A k \in DOMAIN queue : queue[k] \in Jobs
    BY <2>2
  <2>4. \A k, n \in DOMAIN queue : k < n =>
           queue[k] # queue[n] /\ job[queue[k]].due <= job[queue[n]].due
    BY <2>3 DEF OutboxInv, Queued, Distinct, Ordered, Due
  <2>5. \A w \in Workers : Holding(w) => worker[w].job \in Jobs
    BY HoldingClaim DEF OutboxInv, Claims
  <2>. QED
    BY <2>1, <2>2, <2>4, <2>5 DEF OutboxTypeOK
<1>. QED
  BY <1>1, OutboxInvariant, PTL

\* No two workers ever hold one claim (job and attempt number), also after
\* RecoverStaleJobs took a stale job from a worker that is still alive.
THEOREM NoClaimTwice == Spec => []ClaimsDistinct
<1>1. OutboxInv => ClaimsDistinct
  BY DEF OutboxInv
<1>. QED
  BY <1>1, OutboxInvariant, PTL

\* A job is given up only for good reason, is claimed beyond max_attempts at
\* most once for each start of a process but the first, and its handler never
\* ran to the end more often than the job was claimed.
THEOREM AttemptsAreAccounted == Spec => []AttemptsAccounted
<1>1. OutboxInv => AttemptsAccounted
  <2>. SUFFICES ASSUME OutboxInv PROVE AttemptsAccounted
    OBVIOUS
  <2>1. Up = {w \in Workers : worker[w] # Down}
    BY DEF Up
  <2>2. \A j \in Jobs : /\ job[j].attempts \in Nat /\ handled[j] \in Nat
                        /\ Cardinality(Busy(j)) \in Nat
    BY BusyFinite DEF OutboxInv, Typed, Rows
  <2>3. \A j \in Jobs : handled[j] <= job[j].attempts
    BY <2>2 DEF OutboxInv, RunsPaid
  <2>4. \A j \in Jobs : job[j].attempts > MaxAttempts => job[j].attempts - MaxAttempts < Starts
    BY <2>2, OutboxAssumption DEF OutboxInv, OverLimit
  <2>. QED
    BY <2>1, <2>3, <2>4 DEF OutboxInv, GivenUpRightly, AttemptsAccounted, Starts
<1>. QED
  BY <1>1, OutboxInvariant, PTL

\* FailJob is fenced by the attempt number: a failure reported about an earlier
\* claim leaves the row as it is.
THEOREM LateFailureFenced == Spec => FailureFenced
<1>1. OutboxInv /\ [Next]_vars =>
         [\A w \in Workers, j \in Jobs :
            /\ worker[w].pc \in {"failing", "refusing"} /\ worker'[w] = Idle
            /\ worker[w].job = j /\ worker[w].attempts # job[j].attempts
            => job'[j] = job[j]]_vars
  <2>. SUFFICES ASSUME OutboxInv, Next, NEW w \in Workers, NEW j \in Jobs,
                       worker[w].pc \in {"failing", "refusing"}, worker'[w] = Idle,
                       worker[w].job = j, worker[w].attempts # job[j].attempts
                PROVE  job'[j] = job[j]
    BY DEF vars
  <2>1. worker[w] \in Claims /\ worker[w] # Idle
    BY HoldingClaim DEF OutboxInv, Claims, Idle
  <2>2. worker \in [Workers -> {Down, Idle} \cup Claims] /\ Down # Idle
        /\ worker'[w] # worker[w]
    BY <2>1 DEF OutboxInv, Typed, Down, Idle
  <2>3. ASSUME NEW x \in Workers, Start(x) \/ Work(x) \/ Crash(x) \/ LoseOutcome(x)
        PROVE  x = w
    BY <2>2, <2>3 DEF Start, Work, Claim, Succeed, Err, ErrPermanently, HandlerReturns,
       Complete, Fail, Crash, LoseOutcome
  <2>4. Start(w) \/ Work(w) \/ Crash(w) \/ LoseOutcome(w)
    BY <2>2, <2>3 DEF Next, CreateJob, Tick
  <2>5. ~ Start(w) /\ ~ Claim(w)
    <3>1. worker[w] # Down
      BY <2>1 DEF Claims, Down
    <3>. QED
      BY <2>1, <3>1 DEF Start, Claim
  <2>6. ~ Succeed(w) /\ ~ Err(w) /\ ~ ErrPermanently(w) /\ ~ Complete(w)
    BY DEF Succeed, Err, ErrPermanently, HandlerReturns, Complete
  <2>7. CASE Fail(w)
    <3>1. ~ Retryable(w)
      BY DEF Retryable
    <3>. QED
      BY <2>7, <3>1 DEF Fail
  <2>8. CASE Crash(w) \/ LoseOutcome(w)
    BY <2>8 DEF Crash, LoseOutcome
  <2>. QED
    BY <2>4, <2>5, <2>6, <2>7, <2>8 DEF Work
<1>. QED
  BY <1>1, OutboxInvariant, PTL DEF Spec, FailureFenced

-----------------------------------------------------------------------------
(* The outbox implements AtLeastOnce.                                      *)

\* A row's status as the promise sees it.
Promised(status) == IF status \in Waiting \cup {"running"} THEN "open" ELSE status

State == [j \in Jobs |-> Promised(job[j].status)]

LEMMA StateOfStatus ==
  /\ Promised("none") = "none" /\ Promised("pending") = "open"
  /\ Promised("retry") = "open" /\ Promised("running") = "open"
  /\ Promised("succeeded") = "succeeded" /\ Promised("failed") = "failed"
  BY DEF Promised, Waiting

LEMMA SimInit == Init => AsPromised!Init
<1>. SUFFICES ASSUME Init PROVE AsPromised!Init
  OBVIOUS
<1>1. [j \in Jobs |-> IF job[j].status \in Waiting \cup {"running"}
                      THEN "open" ELSE job[j].status] = [j \in Jobs |-> "none"]
  BY DEF Init, Waiting
<1>. QED
  BY <1>1 DEF Init, AsPromised!Init

\* Each step as one of the promise's: a change of one job's state, one run of
\* a handler, or no change.
LEMMA SimStep ==
  OutboxInv /\ [Next]_vars => [AsPromised!Next]_<<State, handled>>
<1>. SUFFICES ASSUME OutboxInv, [Next]_vars
              PROVE  [AsPromised!Next]_<<State, handled>>
  OBVIOUS
<1>. DEFINE G == [AsPromised!Next]_<<State, handled>>
<1>1. /\ Typed /\ Queued /\ ClaimsKnown /\ ReportsHonest
      /\ job \in [Jobs -> Rows] /\ \A j \in Jobs : job[j] \in Rows
      /\ handled \in [Jobs -> Nat]
  BY DEF OutboxInv, Typed
<1>2. State = [j \in Jobs |-> IF job[j].status \in Waiting \cup {"running"}
                              THEN "open" ELSE job[j].status]
  BY DEF State, Promised
<1>3. ASSUME \A j \in Jobs : Promised(job'[j].status) = Promised(job[j].status),
             handled' = handled
      PROVE  G
  BY <1>3 DEF State
<1>4. ASSUME NEW j \in Jobs, NEW from, NEW to, State[j] = from, Promised(job'[j].status) = to,
             \A i \in Jobs : i # j => job'[i] = job[i],
             handled' = handled
      PROVE  AsPromised!Settle(j, from, to)
  <2>1. State' = [State EXCEPT ![j] = to]
    BY <1>4 DEF State
  <2>. QED
    BY <1>2, <1>4, <2>1 DEF AsPromised!Settle, State, Promised
<1>5. \A j \in Jobs, s \in JobStatus : job[j].status = s => State[j] = Promised(s)
  BY DEF State
<1>6. ASSUME NEW j \in Jobs, CreateJob(j) PROVE G
  <2>1. /\ job[j].status = "none" /\ job'[j].status = "pending"
        /\ \A i \in Jobs : i # j => job'[i] = job[i]
        /\ handled' = handled
    BY <1>1, <1>6 DEF CreateJob, Rows
  <2>2. State[j] = "none" /\ Promised(job'[j].status) = "open"
    BY <2>1, StateOfStatus DEF State
  <2>3. AsPromised!Settle(j, "none", "open")
    BY <1>4, <2>1, <2>2
  <2>. QED
    BY <2>3 DEF AsPromised!Next, AsPromised!Create
<1>7. ASSUME NEW w \in Workers, Start(w) PROVE G
  <2>1. \A j \in Jobs : IF j \in Stale THEN job'[j].status = "retry" ELSE job'[j] = job[j]
    BY <1>1, <1>7 DEF Start, Rows
  <2>2. \A j \in Jobs : Promised(job'[j].status) = Promised(job[j].status)
    BY <2>1, StateOfStatus DEF Stale
  <2>. QED
    BY <1>3, <1>7, <2>2 DEF Start
<1>8. ASSUME NEW w \in Workers, Claim(w) PROVE G
  <2>1. PICK j \in Jobs :
           /\ job[j].status \in Waiting /\ job'[j].status = "running"
           /\ \A i \in Jobs : i # j => job'[i] = job[i]
           /\ handled' = handled
    BY <1>1, <1>8, OneClaim
  <2>2. Promised(job'[j].status) = Promised(job[j].status)
    BY <2>1 DEF Promised
  <2>. QED
    BY <1>3, <2>1, <2>2
<1>9. ASSUME NEW w \in Workers, Succeed(w) PROVE G
  <2>1. PICK j \in Jobs : /\ j = worker[w].job /\ j \notin Permanent /\ worker[w] \in Claims
                          /\ handled'[j] = handled[j] + 1
                          /\ \A i \in Jobs : i # j => handled'[i] = handled[i]
                          /\ job' = job
    BY <1>1, <1>9, OneSuccess
  <2>2. State[j] # "none"
    <3>1. job[j].status \in JobStatus /\ job[j].status # "none"
      BY <1>1, <2>1 DEF ClaimsKnown, Rows
    <3>. QED
      BY <3>1, StateOfStatus DEF JobStatus, State
  <2>3. handled' = [handled EXCEPT ![j] = @ + 1]
    BY <1>1, <1>9, <2>1 DEF Succeed
  <2>4. State' = State
    BY <2>1 DEF State
  <2>5. AsPromised!Run(j)
    BY <1>2, <2>1, <2>2, <2>3, <2>4 DEF AsPromised!Run, State, Promised
  <2>. QED
    BY <2>5 DEF AsPromised!Next
<1>10. ASSUME NEW w \in Workers, Complete(w) PROVE G
  <2>1. PICK j \in Jobs : j = worker[w].job /\ handled[j] > 0
    BY <1>1, <1>10, HoldingClaim DEF Complete, Claims, ReportsHonest
  <2>2. CASE ~ Completable(w)
    BY <1>3, <1>10, <2>2 DEF Complete
  <2>3. CASE Completable(w)
    <3>1. /\ job[j].status = "running" /\ job'[j].status = "succeeded"
          /\ \A i \in Jobs : i # j => job'[i] = job[i]
          /\ handled' = handled
      BY <1>1, <1>10, <2>1, <2>3 DEF Complete, Completable, Rows
    <3>2. State[j] = "open" /\ Promised(job'[j].status) = "succeeded"
      BY <3>1, StateOfStatus DEF State
    <3>3. AsPromised!Settle(j, "open", "succeeded")
      BY <1>4, <3>1, <3>2
    <3>. QED
      BY <2>1, <3>3 DEF AsPromised!Next, AsPromised!Succeed
  <2>. QED
    BY <2>2, <2>3
<1>11. ASSUME NEW w \in Workers, Fail(w) PROVE G
  <2>1. PICK j \in Jobs : j = worker[w].job
    BY <1>1, <1>11, HoldingClaim DEF Fail, Claims
  <2>2. CASE ~ Retryable(w)
    BY <1>3, <1>11, <2>2 DEF Fail
  <2>3. CASE Retryable(w)
    <3>1. /\ job[j].status = "running" /\ job'[j].status \in {"failed", "retry"}
          /\ \A i \in Jobs : i # j => job'[i] = job[i]
          /\ handled' = handled
      BY <1>1, <1>11, <2>1, <2>3 DEF Fail, Retryable, Rows
    <3>2. CASE job'[j].status = "failed"
      <4>1. State[j] = "open" /\ Promised(job'[j].status) = "failed"
        BY <3>1, <3>2, StateOfStatus DEF State
      <4>2. AsPromised!Settle(j, "open", "failed")
        BY <1>4, <3>1, <4>1
      <4>. QED
        BY <4>2 DEF AsPromised!Next, AsPromised!GiveUp
    <3>3. CASE job'[j].status = "retry"
      BY <1>3, <3>1, <3>3, StateOfStatus
    <3>. QED
      BY <3>1, <3>2, <3>3
  <2>. QED
    BY <2>2, <2>3
<1>12. ASSUME Tick PROVE G
  <2>1. \A j \in Jobs : job'[j].status = job[j].status
    BY <1>1, <1>12, AllTick, RowTicks
  <2>. QED
    BY <1>3, <1>12, <2>1 DEF Tick
<1>13. CASE UNCHANGED <<job, handled>>
  BY <1>3, <1>13
<1>. QED
  BY <1>6, <1>7, <1>8, <1>9, <1>10, <1>11, <1>12, <1>13
     DEF Next, Work, Err, ErrPermanently, HandlerReturns, Crash, LoseOutcome, vars

\* The table, the claims, the recoveries and the late reports do what the outbox
\* promises: created once, succeeded only after its handler ran to the end,
\* finished once and for all.
THEOREM OutboxIsAtLeastOnce == Spec => ImplementsAtLeastOnce
<1>1. Init => AsPromised!Init
  BY SimInit
<1>2. OutboxInv /\ [Next]_vars => [AsPromised!Next]_<<State, handled>>
  BY SimStep
<1>. QED
  BY <1>1, <1>2, OutboxInvariant, PTL
     DEF Spec, ImplementsAtLeastOnce, AsPromised!Spec, State, Promised
===============================================================================
