------------------------ MODULE SearchRequestsProofs ------------------------
(***************************************************************************)
(* Proofs about SearchRequests, for every value of its constants.  The     *)
(* inductive invariant is TypeOK with one conjunct per property:           *)
(*   ClaimInv       claims are paid for by attempts, and beyond            *)
(*                  MaxAttempts by the verdicts other workers still owe;   *)
(*   StoredInv      a success is written after its candidates.             *)
(***************************************************************************)
EXTENDS SearchRequests, TLAPS, FiniteSetTheorems, SequenceTheorems

\* The workers whose claim of k leaves attempts: they may put k back once
\* with the attempts they claimed (Owing) and, before that, once with the
\* attempts they read (Ahead).
Owing(k) == {w \in Workers : /\ worker[w].key = k
                             /\ worker[w].attempt < MaxAttempts
                             /\ worker[w].pc \in {"read", "search", "reschedule", "again"}}
Ahead(k) == {w \in Owing(k) : worker[w].pc # "again"}
Queued(k) == IF requests[k].status = "queued" THEN 1 ELSE 0

\* In Postgres every claim is an attempt, and once the attempts are used up
\* each further claim is paid for by a verdict that was still owed.
PostgresInv(k) ==
    /\ claims[k] = requests[k].attempt
    /\ claims[k] >= MaxAttempts =>
         claims[k] + Queued(k) + Cardinality(Owing(k)) + Cardinality(Ahead(k))
            <= MaxAttempts + 2 * (Cardinality(Workers) - 1)

\* In memory nothing fails, so only the recovery puts a request back, and it
\* has counted every attempt but the current one twice.
MemoryInv(k) ==
    /\ 2 * claims[k] <= MaxAttempts + 1
    /\ requests[k].status = "queued" =>
           2 * claims[k] <= requests[k].attempt /\ requests[k].attempt < MaxAttempts
    /\ requests[k].status = "running" => 2 * claims[k] <= requests[k].attempt + 1

\* A worker remembers no more attempts than there are, and has read at least
\* those it claimed.
WorkerInv(w) ==
    /\ worker[w].pc # "idle" => worker[w].attempt <= requests[worker[w].key].attempt
    /\ worker[w].pc \in {"search", "reschedule"} => worker[w].attempt <= worker[w].seen
    /\ store = "memory" => worker[w].pc \notin {"reschedule", "again"}

ClaimInv ==
    /\ \A k \in Keys : /\ ~Exists(k) => requests[k] = AbsentRequest /\ claims[k] = 0
                       /\ store = "postgres" => PostgresInv(k)
                       /\ store = "memory" => MemoryInv(k)
    /\ \A w \in Workers : WorkerInv(w)

\* Whoever is about to write a success has stored the candidates, which
\* nothing removes.
StoredInv ==
    /\ \A k \in Keys : requests[k].status = "succeeded" => requests[k].stored
    /\ \A w \in Workers : worker[w].pc = "mark" => requests[worker[w].key].stored

-----------------------------------------------------------------------------
(* Rows, keys and workers.                                                 *)

WorkerRec == [pc : WorkerPC, key : Keys \cup {NoKey}, attempt : Nat, seen : Nat]
PutsBack == {"read", "search", "reschedule", "again"}

LEMMA Bounds ==
    /\ MaxAttempts \in Nat /\ MaxAttempts >= 1
    /\ Cadence \in Nat /\ Cadence >= 1
    /\ Cardinality(Workers) \in Nat /\ Cardinality(Workers) >= 1
  <1>1. Cardinality(Workers) \in Nat /\ Cardinality(Workers) # 0
    BY WorkersAssumption, FS_CardinalityType, FS_EmptySet
  <1>2. QED
    BY <1>1, BoundsAssumption

LEMMA RowTypes ==
    ASSUME NEW r \in Request
    PROVE  /\ Claimed(r) \in Request
           /\ Succeeded(r) \in Request
           /\ \A t \in BOOLEAN : Rescheduled(r, t) \in Request
           /\ Recovered(r) \in Request
           /\ [r EXCEPT !.stored = TRUE] \in Request
           /\ [r EXCEPT !.lease = "expired"] \in Request
           /\ [r EXCEPT !.due = TRUE] \in Request
           /\ NewRequest \in Request /\ AbsentRequest \in Request
  <1>0. r.attempt + 1 \in Nat
    BY DEF Request
  <1>1. Claimed(r) \in Request
    <2>1. \A n \in Nat : [r EXCEPT !.status = "running", !.attempt = n, !.lease = "held"]
                            \in Request
      BY DEF Request, Status
    <2>2. QED
      BY <1>0, <2>1, Zenon DEF Claimed
  <1>2. Recovered(r) \in Request
    <2>1. \A n \in Nat : [r EXCEPT !.attempt = n, !.lease = "none"] \in Request
      BY DEF Request
    <2>2. [r EXCEPT !.attempt = @ + 1, !.lease = "none"] \in Request
      BY <1>0, <2>1, Zenon
    <2>3. \A s \in Request : /\ [s EXCEPT !.status = "failed", !.due = TRUE] \in Request
                             /\ [s EXCEPT !.status = "queued", !.due = FALSE] \in Request
      BY DEF Request, Status
    <2>4. QED
      BY <2>2, <2>3, Zenon DEF Recovered
  <1>3. Succeeded(r) \in Request /\ \A t \in BOOLEAN : Rescheduled(r, t) \in Request
    BY DEF Succeeded, Rescheduled, Request, Status
  <1>4. /\ [r EXCEPT !.stored = TRUE] \in Request
        /\ [r EXCEPT !.lease = "expired"] \in Request
        /\ [r EXCEPT !.due = TRUE] \in Request
    BY DEF Request
  <1>5. NewRequest \in Request /\ AbsentRequest \in Request
    BY DEF NewRequest, AbsentRequest, Request, Status
  <1>6. QED
    BY <1>1, <1>2, <1>3, <1>4, <1>5

\* What each operation does to the fields of its row.
LEMMA RowFields ==
    ASSUME NEW r \in Request
    PROVE  /\ /\ Claimed(r).status = "running" /\ Claimed(r).attempt = r.attempt + 1
              /\ Claimed(r).stored = r.stored
           /\ /\ Succeeded(r).status = "succeeded" /\ Succeeded(r).attempt = r.attempt
              /\ Succeeded(r).stored = r.stored
           /\ \A t \in BOOLEAN :
                 /\ Rescheduled(r, t).status \in {"queued", "failed"}
                 /\ t => Rescheduled(r, t).status = "failed"
                 /\ Rescheduled(r, t).attempt = r.attempt
                 /\ Rescheduled(r, t).stored = r.stored
           /\ /\ Recovered(r).status \in {"queued", "failed"}
              /\ Recovered(r).attempt = r.attempt + 1
              /\ Recovered(r).status = "queued" => r.attempt + 1 < MaxAttempts
              /\ Recovered(r).stored = r.stored
           /\ /\ [r EXCEPT !.stored = TRUE].status = r.status
              /\ [r EXCEPT !.stored = TRUE].attempt = r.attempt
              /\ [r EXCEPT !.stored = TRUE].stored
           /\ \A v : /\ [r EXCEPT !.lease = v].status = r.status
                     /\ [r EXCEPT !.lease = v].attempt = r.attempt
                     /\ [r EXCEPT !.lease = v].stored = r.stored
                     /\ [r EXCEPT !.due = v].status = r.status
                     /\ [r EXCEPT !.due = v].attempt = r.attempt
                     /\ [r EXCEPT !.due = v].stored = r.stored
           /\ NewRequest.status = "queued" /\ NewRequest.attempt = 0
           /\ AbsentRequest.status = "absent" /\ AbsentRequest.attempt = 0
              /\ AbsentRequest.lease = "none"
  <1>1. r = [status |-> r.status, attempt |-> r.attempt, due |-> r.due,
             lease |-> r.lease, stored |-> r.stored]
    BY DEF Request
  <1>2. /\ Claimed(r).status = "running" /\ Claimed(r).attempt = r.attempt + 1
        /\ Claimed(r).stored = r.stored
    BY <1>1 DEF Claimed
  <1>3. /\ Succeeded(r).status = "succeeded" /\ Succeeded(r).attempt = r.attempt
        /\ Succeeded(r).stored = r.stored
    BY <1>1 DEF Succeeded
  <1>4. \A t \in BOOLEAN :
                 /\ Rescheduled(r, t).status \in {"queued", "failed"}
                 /\ t => Rescheduled(r, t).status = "failed"
                 /\ Rescheduled(r, t).attempt = r.attempt
                 /\ Rescheduled(r, t).stored = r.stored
    BY <1>1 DEF Rescheduled
  <1>5. /\ Recovered(r).status \in {"queued", "failed"}
        /\ Recovered(r).attempt = r.attempt + 1
        /\ Recovered(r).status = "queued" => r.attempt + 1 < MaxAttempts
        /\ Recovered(r).stored = r.stored
    <2> DEFINE taken == [r EXCEPT !.attempt = @ + 1, !.lease = "none"]
    <2>1. /\ taken \in [status : Status, attempt : {r.attempt + 1}, due : BOOLEAN,
                       lease : {"none"}, stored : {r.stored}]
      <3>1. \A n : [r EXCEPT !.attempt = n, !.lease = "none"]
                     \in [status : Status, attempt : {n}, due : BOOLEAN,
                         lease : {"none"}, stored : {r.stored}]
        BY DEF Request
      <3>2. QED
        BY <3>1, Zenon
    <2>2. Recovered(r) = IF taken.attempt >= MaxAttempts
                         THEN [taken EXCEPT !.status = "failed", !.due = TRUE]
                         ELSE [taken EXCEPT !.status = "queued", !.due = FALSE]
      BY DEF Recovered
    <2> HIDE DEF taken
    <2>3. r.attempt + 1 \in Nat
      BY DEF Request
    <2>4. QED
      BY <2>1, <2>2, <2>3, Bounds
  <1>6. /\ [r EXCEPT !.stored = TRUE].status = r.status
        /\ [r EXCEPT !.stored = TRUE].attempt = r.attempt
        /\ [r EXCEPT !.stored = TRUE].stored
    BY <1>1
  <1>7. \A v : /\ [r EXCEPT !.lease = v].status = r.status
               /\ [r EXCEPT !.lease = v].attempt = r.attempt
               /\ [r EXCEPT !.lease = v].stored = r.stored
               /\ [r EXCEPT !.due = v].status = r.status
               /\ [r EXCEPT !.due = v].attempt = r.attempt
               /\ [r EXCEPT !.due = v].stored = r.stored
    BY <1>1
  <1>8. /\ NewRequest.status = "queued" /\ NewRequest.attempt = 0
        /\ AbsentRequest.status = "absent" /\ AbsentRequest.attempt = 0
        /\ AbsentRequest.lease = "none"
    BY DEF NewRequest, AbsentRequest
  <1>9. QED
    BY <1>2, <1>3, <1>4, <1>5, <1>6, <1>7, <1>8

LEMMA RowWritten ==
    ASSUME TypeOK, NEW k \in Keys, NEW row, requests' = [requests EXCEPT ![k] = row]
    PROVE  \A j \in Keys : requests'[j] = IF j = k THEN row ELSE requests[j]
  BY DEF TypeOK

\* A busy worker's request.
LEMMA Busy ==
    ASSUME TypeOK, NEW w \in Workers
    PROVE  /\ worker[w] \in WorkerRec
           /\ worker[w].attempt \in Nat /\ worker[w].seen \in Nat
           /\ worker[w].pc # "idle" =>
                 /\ worker[w].key \in Keys /\ Exists(worker[w].key)
                 /\ requests[worker[w].key] \in Request
  <1>1. worker[w] \in WorkerRec
    BY DEF TypeOK, WorkerRec
  <1>2. QED
    BY <1>1 DEF TypeOK, WorkerRec

\* A worker that moves on keeps what it remembers.
LEMMA Moved ==
    ASSUME TypeOK, NEW w \in Workers, NEW p \in WorkerPC
    PROVE  /\ [worker[w] EXCEPT !.pc = p] \in WorkerRec
           /\ [worker[w] EXCEPT !.pc = p].pc = p
           /\ [worker[w] EXCEPT !.pc = p].key = worker[w].key
           /\ [worker[w] EXCEPT !.pc = p].attempt = worker[w].attempt
           /\ [worker[w] EXCEPT !.pc = p].seen = worker[w].seen
  <1>1. worker[w] \in WorkerRec
    BY DEF TypeOK, WorkerRec
  <1>2. QED
    BY <1>1 DEF WorkerRec

LEMMA IdleRec == /\ WorkerIdle \in WorkerRec /\ WorkerIdle.pc = "idle"
                 /\ WorkerIdle.attempt = 0
  BY DEF WorkerIdle, WorkerRec, WorkerPC

-----------------------------------------------------------------------------
(* The parts of TypeOK that a step disturbs.                               *)

TableOK ==
    /\ table \in Seq(Keys)
    /\ \A k \in Keys : Exists(k) = (\E i \in DOMAIN table : table[i] = k)
    /\ \A i, j \in DOMAIN table : table[i] = table[j] => i = j
WorkersOK ==
    /\ worker \in [Workers -> WorkerRec]
    /\ \A w \in Workers : worker[w].pc # "idle" => worker[w].key \in Keys
                                                  /\ Exists(worker[w].key)
RestOK ==
    /\ store \in {"memory", "postgres"}
    /\ wanted \in [Entities -> [state : {"absent", "on", "off"}, age : 0..Cadence]]
    /\ claims \in [Keys -> Nat]
    /\ cut \in BOOLEAN
    /\ used \in [faults : Nat, ops : Nat]

LEMMA TypeParts ==
    /\ TypeOK <=> requests \in [Keys -> Request] /\ TableOK /\ WorkersOK /\ RestOK
    /\ TypeOK' <=> /\ requests' \in [Keys -> Request]
                   /\ TableOK' /\ WorkersOK' /\ RestOK'
  BY DEF TypeOK, TableOK, WorkersOK, RestOK, WorkerRec

LEMMA UsedTypes ==
    ASSUME used \in [faults : Nat, ops : Nat]
    PROVE  /\ [used EXCEPT !.faults = @ + 1] \in [faults : Nat, ops : Nat]
           /\ [used EXCEPT !.ops = @ + 1] \in [faults : Nat, ops : Nat]
  OBVIOUS

\* No row comes or goes.
LEMMA TableKept ==
    ASSUME TypeOK, table' = table, \A k \in Keys : Exists(k)' <=> Exists(k)
    PROVE  TableOK'
  <1>1. \A k \in Keys : Exists(k)' = Exists(k)
    BY DEF Exists
  <1>2. QED
    BY <1>1 DEF TypeOK, TableOK

\* One worker changes, and is idle or has an existing request.
LEMMA WorkerKept ==
    ASSUME TypeOK, NEW w \in Workers, NEW r \in WorkerRec,
           worker' = [worker EXCEPT ![w] = r],
           r.pc # "idle" => r.key \in Keys /\ Exists(r.key),
           \A k \in Keys : Exists(k) => Exists(k)'
    PROVE  WorkersOK'
  <1>0. worker \in [Workers -> WorkerRec]
    BY TypeParts DEF WorkersOK
  <1>1. worker' \in [Workers -> WorkerRec]
    BY <1>0
  <1>2. ASSUME NEW v \in Workers, worker'[v].pc # "idle"
        PROVE  worker'[v].key \in Keys /\ Exists(worker'[v].key)
    BY <1>0, <1>2, Busy
  <1>3. ASSUME NEW v \in Workers, worker'[v].pc # "idle"
        PROVE  requests'[worker'[v].key].status # "absent"
    <2>1. PICK k \in Keys : k = worker'[v].key
      BY <1>2, <1>3
    <2>2. Exists(k)
      BY <1>2, <1>3, <2>1
    <2>3. Exists(k)'
      BY <2>2
    <2>4. QED
      BY <2>1, <2>3 DEF Exists
  <1>4. QED
    BY <1>1, <1>2, <1>3 DEF WorkersOK, Exists

LEMMA WorkersKept ==
    ASSUME TypeOK, UNCHANGED worker, \A k \in Keys : Exists(k) => Exists(k)'
    PROVE  WorkersOK'
  <1>1. ASSUME NEW v \in Workers, worker'[v].pc # "idle"
        PROVE  worker'[v].key \in Keys /\ requests'[worker'[v].key].status # "absent"
    <2>1. PICK k \in Keys : k = worker[v].key
      BY <1>1, Busy
    <2>2. Exists(k)'
      BY <1>1, <2>1, Busy
    <2>3. QED
      BY <2>1, <2>2 DEF Exists
  <1>2. QED
    BY <1>1, TypeParts DEF WorkersOK, Exists

-----------------------------------------------------------------------------
(* Enqueueing.                                                             *)

\* The keys that have no row get one each and a place in the table; the
\* others keep theirs.
LEMMA Created ==
    ASSUME TypeOK, NEW E, E \subseteq Keys, IsFiniteSet(E), CreateOrGet(E)
    PROVE  /\ requests' \in [Keys -> Request]
           /\ \A k \in Keys : requests'[k] = IF k \in E /\ ~Exists(k) THEN NewRequest
                                             ELSE requests[k]
           /\ TableOK'
  <1> DEFINE new == {k \in E : ~Exists(k)}
  <1>1. /\ new \subseteq Keys /\ IsFiniteSet(new) /\ Cardinality(new) \in Nat
        /\ \A k \in new : ~Exists(k)
        /\ \A k \in Keys : k \in new <=> k \in E /\ ~Exists(k)
    BY FS_Subset, FS_CardinalityType
  <1>2. /\ requests' = [k \in Keys |-> IF k \in new THEN NewRequest ELSE requests[k]]
        /\ \E order \in [1..Cardinality(new) -> new] :
             /\ \A i, j \in DOMAIN order :
                   i < j => order[i].entity < order[j].entity
             /\ table' = table \o order
    BY DEF CreateOrGet
  <1> HIDE DEF new
  <1>4. PICK n \in Nat : n = Cardinality(new)
    BY <1>1
  <1>3. PICK order \in [1..n -> new] :
             /\ \A i, j \in DOMAIN order :
                   i < j => order[i].entity < order[j].entity
             /\ table' = table \o order
    BY <1>2, <1>4
  <1>5. /\ DOMAIN order = 1..n
        /\ order \in Seq(Keys) /\ Len(order) = n
        /\ \A i \in 1..n : order[i] \in new
    <2>1. order \in [1..n -> Keys]
      BY <1>1, <1>3
    <2>2. order \in Seq(Keys) /\ Len(order) = n
      BY <2>1
    <2>3. QED
      BY <1>3, <2>2
  <1>6. \A i, j \in 1..n : order[i] = order[j] => i = j
    <2>1. \A k \in Keys : k.entity \in Nat
      <3>1. ASSUME NEW k \in Keys PROVE k.entity \in Nat
        <4>1. PICK e \in Entities : k \in Spelled(e)
          BY DEF Keys
        <4>2. PICK h : k = [entity |-> e, hydrated |-> h]
          BY <4>1 DEF Spelled
        <4>3. QED
          BY <4>2, EntitiesAssumption
      <3>2. QED
        BY <3>1
    <2>2. ASSUME NEW i \in 1..n, NEW j \in 1..n, order[i] = order[j], i < j PROVE FALSE
      BY <1>1, <1>3, <1>5, <2>1, <2>2
    <2>3. ASSUME NEW i \in 1..n, NEW j \in 1..n, order[i] = order[j], j < i PROVE FALSE
      BY <1>1, <1>3, <1>5, <2>1, <2>3
    <2>4. QED
      BY <2>2, <2>3
  <1>7. \A k \in new : \E i \in 1..n : order[i] = k
    <2>1. IsFiniteSet(1..n) /\ Cardinality(1..n) = n
      BY FS_Interval
    <2>2. order \in Injection(1..n, new)
      BY <1>3, <1>4, <1>6 DEF Injection, IsInjective
    <2>3. order \in Surjection(1..n, new)
      BY <1>1, <1>4, <2>1, <2>2, FS_Injection
    <2>4. QED
      BY <2>3 DEF Surjection
  <1>8. /\ table \in Seq(Keys)
        /\ \A k \in Keys : Exists(k) = (\E i \in DOMAIN table : table[i] = k)
        /\ \A i, j \in DOMAIN table : table[i] = table[j] => i = j
    BY DEF TypeOK
  <1>9. PICK m \in Nat : m = Len(table)
    BY <1>8
  <1>10. /\ table' \in Seq(Keys) /\ DOMAIN table' = 1..(m + n)
         /\ DOMAIN table = 1..m
         /\ \A i \in 1..m : table'[i] = table[i]
         /\ \A i \in 1..n : table'[m + i] = order[i]
    <2>0. /\ table \o order \in Seq(Keys)
          /\ Len(table \o order) = Len(table) + Len(order)
          /\ \A i \in 1..(Len(table) + Len(order)) :
                 (table \o order)[i] = IF i <= Len(table) THEN table[i]
                                       ELSE order[i - Len(table)]
      BY <1>5, <1>8, ConcatProperties, Zenon
    <2>1. /\ table \o order \in Seq(Keys)
          /\ Len(table \o order) = m + n
          /\ \A i \in 1..(m + n) : (table \o order)[i] = IF i <= m THEN table[i]
                                                      ELSE order[i - m]
      BY <1>5, <1>9, <2>0, Zenon
    <2>2. DOMAIN (table \o order) = 1..(m + n) /\ DOMAIN table = 1..m
      BY <1>8, <1>9, <2>1
    <2>3. ASSUME NEW i \in 1..n PROVE (table \o order)[m + i] = order[i]
      <3>1. m + i \in 1..(m + n) /\ ~(m + i <= m) /\ (m + i) - m = i
        OBVIOUS
      <3>2. QED
        BY <2>1, <3>1
    <2>4. \A i \in 1..m : i \in 1..(m + n) /\ i <= m
      OBVIOUS
    <2>5. QED
      BY <1>3, <2>1, <2>2, <2>3, <2>4
  <1>11. /\ requests' \in [Keys -> Request]
         /\ \A k \in Keys : requests'[k] = IF k \in new THEN NewRequest ELSE requests[k]
    BY <1>2, RowTypes DEF TypeOK
  <1>12. \A k \in Keys : Exists(k)' <=> Exists(k) \/ k \in new
    BY <1>11, RowFields, RowTypes DEF Exists
  <1>13. \A i \in 1..(m + n) : i \in 1..m \/ (i - m \in 1..n /\ m + (i - m) = i)
    OBVIOUS
  <1>14. ASSUME NEW k \in Keys
         PROVE  Exists(k)' <=> (\E i \in DOMAIN table' : table'[i] = k)
    <2>1. CASE k \in new
      <3>1. PICK i \in 1..n : order[i] = k
        BY <1>7, <2>1
      <3>2. m + i \in 1..(m + n) /\ table'[m + i] = k
        BY <1>10, <3>1
      <3>3. QED
        BY <1>10, <1>12, <2>1, <3>2
    <2>2. CASE k \notin new
      <3>1. ASSUME NEW i \in 1..m, table[i] = k PROVE i \in 1..(m + n) /\ table'[i] = k
        BY <1>10, <3>1
      <3>2. ASSUME NEW i \in 1..(m + n), table'[i] = k PROVE i \in 1..m /\ table[i] = k
        <4>1. CASE i \in 1..m
          BY <1>10, <3>2, <4>1
        <4>2. CASE i - m \in 1..n /\ m + (i - m) = i
          <5>1. table'[i] = order[i - m]
            BY <1>10, <4>2
          <5>2. QED
            BY <1>5, <2>2, <3>2, <4>2, <5>1
        <4>3. QED
          BY <1>13, <4>1, <4>2
      <3>3. QED
        BY <1>8, <1>10, <1>12, <2>2, <3>1, <3>2
    <2>3. QED
      BY <2>1, <2>2
  <1>15. ASSUME NEW i \in 1..(m + n), NEW j \in 1..(m + n), table'[i] = table'[j]
         PROVE  i = j
    <2>1. \A a \in 1..m, b \in 1..n : table[a] # order[b]
      BY <1>1, <1>5, <1>8, <1>10
    <2>2. CASE i \in 1..m /\ j \in 1..m
      BY <1>8, <1>10, <1>15, <2>2
    <2>3. CASE i - m \in 1..n /\ m + (i - m) = i /\ j - m \in 1..n /\ m + (j - m) = j
      <3>1. table'[i] = order[i - m] /\ table'[j] = order[j - m]
        BY <1>10, <2>3
      <3>2. i - m = j - m
        BY <1>6, <1>15, <2>3, <3>1
      <3>3. QED
        BY <3>2
    <2>4. CASE i \in 1..m /\ j - m \in 1..n /\ m + (j - m) = j
      <3>1. table'[i] = table[i] /\ table'[j] = order[j - m]
        BY <1>10, <2>4
      <3>2. QED
        BY <1>15, <2>1, <2>4, <3>1
    <2>5. CASE j \in 1..m /\ i - m \in 1..n /\ m + (i - m) = i
      <3>1. table'[j] = table[j] /\ table'[i] = order[i - m]
        BY <1>10, <2>5
      <3>2. QED
        BY <1>15, <2>1, <2>5, <3>1
    <2>6. QED
      BY <1>13, <2>2, <2>3, <2>4, <2>5
  <1>16. \A k \in Keys : Exists(k)' \in BOOLEAN
    BY DEF Exists
  <1>17. TableOK'
    BY <1>10, <1>14, <1>15, <1>16 DEF TableOK
  <1>18. QED
    BY <1>1, <1>11, <1>17

\* The keys a tick enqueues.
LEMMA PickedKeys ==
    ASSUME NEW key \in [Picked -> Keys]
    PROVE  {key[e] : e \in Picked} \subseteq Keys /\ IsFiniteSet({key[e] : e \in Picked})
  <1>1. IsFiniteSet(Picked)
    BY EntitiesAssumption, FS_Subset DEF Picked
  <1>2. key \in Surjection(Picked, {key[e] : e \in Picked})
    BY DEF Surjection
  <1>3. QED
    BY <1>1, <1>2, FS_Surjection

LEMMA EnqueueTyped ==
    ASSUME TypeOK, NEW E, E \subseteq Keys, IsFiniteSet(E), CreateOrGet(E),
           UNCHANGED worker, RestOK'
    PROVE  TypeOK'
  <1>1. /\ requests' \in [Keys -> Request] /\ TableOK'
        /\ \A k \in Keys : requests'[k] = IF k \in E /\ ~Exists(k) THEN NewRequest
                                          ELSE requests[k]
    BY Created
  <1>2. \A k \in Keys : Exists(k) => Exists(k)'
    BY <1>1 DEF Exists
  <1>3. WorkersOK'
    BY <1>2, WorkersKept
  <1>4. QED
    BY <1>1, <1>3, TypeParts

-----------------------------------------------------------------------------
(* Type correctness.                                                       *)

LEMMA InitTyped == Init => TypeOK
  <1> SUFFICES ASSUME Init PROVE TypeOK
    OBVIOUS
  <1>1. AbsentRequest \in Request /\ AbsentRequest.status = "absent"
    BY DEF AbsentRequest, Request, Status
  <1>2. requests \in [Keys -> Request] /\ \A k \in Keys : ~Exists(k)
    BY <1>1 DEF Init, Exists
  <1>3. TableOK
    <2>1. table = <<>> /\ DOMAIN table = {}
      BY DEF Init
    <2>2. \A k \in Keys : Exists(k) \in BOOLEAN
      BY DEF Exists
    <2>3. QED
      <3>1. ASSUME NEW k \in Keys PROVE Exists(k) = (\E i \in DOMAIN table : table[i] = k)
        BY <1>2, <2>1, <2>2, Zenon
      <3>2. table \in Seq(Keys)
        BY <2>1
      <3>3. QED
        BY <2>1, <3>1, <3>2 DEF TableOK
  <1>4. WorkersOK
    BY IdleRec DEF Init, WorkersOK
  <1>5. RestOK
    <2>1. store \in {"memory", "postgres"}
      BY StoresAssumption DEF Init
    <2>2. Cadence \in 0..Cadence
      BY Bounds
    <2>3. [state |-> "absent", age |-> Cadence]
              \in [state : {"absent", "on", "off"}, age : 0..Cadence]
      BY <2>2
    <2>4. used \in [faults : Nat, ops : Nat]
      BY DEF Init
    <2>5. wanted \in [Entities -> [state : {"absent", "on", "off"}, age : 0..Cadence]]
      BY <2>3, Zenon DEF Init
    <2>6. QED
      BY <2>1, <2>4, <2>5 DEF Init, RestOK
  <1>6. QED
    BY <1>2, <1>3, <1>4, <1>5, TypeParts

\* A step that writes one existing row, which goes on existing.
LEMMA RowStep ==
    ASSUME TypeOK, NEW k \in Keys, Exists(k), NEW row \in Request,
           row.status # "absent", requests' = [requests EXCEPT ![k] = row]
    PROVE  /\ requests' \in [Keys -> Request]
           /\ \A j \in Keys : Exists(j)' <=> Exists(j)
  <1>1. \A j \in Keys : requests'[j] = IF j = k THEN row ELSE requests[j]
    BY RowWritten
  <1>2. QED
    BY <1>1 DEF TypeOK, Exists

LEMMA LockTyped ==
    ASSUME TypeOK, NEW w \in Workers, NEW i \in DOMAIN table, TryLockNext(w, i)
    PROVE  TypeOK'
  <1>1. PICK k \in Keys : k = table[i]
    BY DEF TypeOK
  <1>2. /\ Exists(k) /\ requests[k] \in Request
        /\ Claimed(requests[k]) \in Request
        /\ Claimed(requests[k]).status # "absent"
    <2>1. requests[k] \in Request /\ Exists(k)
      BY <1>1 DEF TypeOK
    <2>2. Claimed(requests[k]) \in Request
      BY <2>1, RowTypes
    <2>3. Claimed(requests[k]).status = "running"
      BY <2>1, RowFields
    <2>4. QED
      BY <2>1, <2>2, <2>3
  <1>3. requests' = [requests EXCEPT ![k] = Claimed(requests[k])]
    BY <1>1 DEF TryLockNext
  <1>4. /\ requests' \in [Keys -> Request]
        /\ \A j \in Keys : Exists(j)' <=> Exists(j)
    BY <1>2, <1>3, RowStep
  <1>5. TableOK'
    BY <1>4, TableKept DEF TryLockNext
  <1>6. WorkersOK'
    <2> DEFINE r == [pc |-> "read", key |-> k, attempt |-> requests[k].attempt + 1,
                     seen |-> 0]
    <2>1. r \in WorkerRec /\ r.key = k
      BY <1>2 DEF WorkerRec, WorkerPC, Request
    <2>2. UNCHANGED worker \/ worker' = [worker EXCEPT ![w] = r]
      BY <1>1 DEF TryLockNext
    <2> HIDE DEF r
    <2>3. QED
      BY <1>2, <1>4, <2>1, <2>2, WorkerKept, WorkersKept
  <1>7. RestOK'
    <2>1. claims' \in [Keys -> Nat]
      BY <1>1 DEF TryLockNext, TypeOK
    <2>2. cut' \in BOOLEAN /\ used' \in [faults : Nat, ops : Nat]
      BY UsedTypes DEF TryLockNext, NoneLost, Lost, Fault, TypeOK
    <2>3. UNCHANGED <<store, wanted>>
      BY DEF TryLockNext
    <2>4. QED
      BY <2>1, <2>2, <2>3, TypeParts DEF RestOK
  <1>8. QED
    BY <1>4, <1>5, <1>6, <1>7, TypeParts

\* What the outcome of a worker's step is written with.
LEMMA WriteTyped ==
    ASSUME TypeOK, NEW k \in Keys, Exists(k), NEW row \in Request,
           row.status # "absent", Write(k, row)
    PROVE  /\ requests' \in [Keys -> Request]
           /\ \A j \in Keys : Exists(j)' <=> Exists(j)
           /\ cut' \in BOOLEAN /\ used' \in [faults : Nat, ops : Nat]
  <1>1. CASE requests' = [requests EXCEPT ![k] = row] /\ NoneLost
    BY <1>1, RowStep DEF NoneLost, TypeOK
  <1>2. CASE Lost /\ UNCHANGED requests
    <2>1. \A j \in Keys : Exists(j)' <=> Exists(j)
      BY <1>2 DEF Exists
    <2>2. QED
      BY <1>2, <2>1, UsedTypes DEF Lost, Fault, TypeOK
  <1>3. QED
    BY <1>1, <1>2 DEF Write

\* The rows and worker after a step of a busy worker.
LEMMA BusyStep ==
    ASSUME TypeOK, NEW w \in Workers, worker[w].pc # "idle", NEW p \in WorkerPC,
           Go(w, p) \/ Rest(w),
           requests' \in [Keys -> Request],
           \A j \in Keys : Exists(j)' <=> Exists(j),
           cut' \in BOOLEAN, used' \in [faults : Nat, ops : Nat],
           UNCHANGED <<store, table, wanted, claims>>
    PROVE  TypeOK'
  <1>1. TableOK'
    BY TableKept
  <1>2. WorkersOK'
    <2>1. CASE Go(w, p)
      <3> DEFINE r == [worker[w] EXCEPT !.pc = p]
      <3>1. worker' = [worker EXCEPT ![w] = r]
        BY <2>1 DEF Go
      <3>2. r \in WorkerRec /\ r.key = worker[w].key
        BY Moved
      <3>3. r.key \in Keys /\ Exists(r.key)
        BY <3>2, Busy
      <3> HIDE DEF r
      <3>4. QED
        BY <3>1, <3>2, <3>3, WorkerKept
    <2>2. CASE Rest(w)
      BY <2>2, IdleRec, WorkerKept DEF Rest
    <2>3. QED
      BY <2>1, <2>2
  <1>3. RestOK'
    BY TypeParts DEF RestOK
  <1>4. QED
    BY <1>1, <1>2, <1>3, TypeParts

LEMMA WorkerTyped == ASSUME TypeOK, NEW w \in Workers, WorkerStep(w) PROVE TypeOK'
  <1>0. /\ requests \in [Keys -> Request] /\ cut \in BOOLEAN
        /\ used \in [faults : Nat, ops : Nat]
    BY DEF TypeOK
  <1>f. ASSUME Fault PROVE used' \in [faults : Nat, ops : Nat]
    BY <1>0, <1>f, UsedTypes DEF Fault
  <1>x. UNCHANGED requests => \A j \in Keys : Exists(j)' <=> Exists(j)
    BY DEF Exists
  <1>s. {"search", "mark", "reschedule", "again"} \subseteq WorkerPC
    BY DEF WorkerPC
  <1>1. ASSUME NEW i \in DOMAIN table, TryLockNext(w, i) PROVE TypeOK'
    BY <1>1, LockTyped
  <1>2. CASE GetSearchRequest(w)
    <2>1. worker[w].pc = "read" /\ UNCHANGED <<store, requests, table, wanted, claims, cut>>
      BY <1>2 DEF GetSearchRequest
    <2>2. CASE Fault /\ Go(w, "again")
      BY <1>0, <1>f, <1>x, <1>s, <2>1, <2>2, BusyStep
    <2>3. CASE /\ worker' = [worker EXCEPT ![w].pc = "search",
                                      ![w].seen = requests[worker[w].key].attempt]
               /\ NoFault
      <3> DEFINE n == requests[worker[w].key].attempt
      <3>1. worker[w] \in WorkerRec /\ worker[w].key \in Keys /\ Exists(worker[w].key)
            /\ n \in Nat
        BY <2>1, Busy DEF Request
      <3> HIDE DEF n
      <3>2. /\ [worker[w] EXCEPT !.pc = "search", !.seen = n] \in WorkerRec
            /\ [worker[w] EXCEPT !.pc = "search", !.seen = n].key = worker[w].key
        BY <1>s, <3>1 DEF WorkerRec
      <3>3. worker' = [worker EXCEPT ![w] = [worker[w] EXCEPT !.pc = "search", !.seen = n]]
        BY <2>3 DEF n
      <3>4. WorkersOK'
        BY <1>x, <2>1, <3>1, <3>2, <3>3, WorkerKept
      <3>5. TableOK'
        BY <1>x, <2>1, TableKept
      <3>6. RestOK'
        BY <2>1, <2>3, TypeParts DEF NoFault, RestOK
      <3>7. QED
        BY <1>0, <2>1, <3>4, <3>5, <3>6, TypeParts
    <2>4. QED
      BY <1>2, <2>2, <2>3 DEF GetSearchRequest
  <1>3. CASE ReplaceCandidates(w)
    <2>1. worker[w].pc = "search" /\ UNCHANGED <<store, table, wanted, claims, cut>>
      BY <1>3 DEF ReplaceCandidates
    <2>2. CASE Fault /\ Go(w, "reschedule") /\ UNCHANGED requests
      BY <1>0, <1>f, <1>x, <1>s, <2>1, <2>2, BusyStep
    <2>3. CASE /\ requests' = [requests EXCEPT ![worker[w].key].stored = TRUE]
               /\ Go(w, "mark") /\ NoFault
      <3>1. PICK k \in Keys : k = worker[w].key /\ Exists(k) /\ requests[k] \in Request
        BY <2>1, Busy
      <3>2. /\ [requests[k] EXCEPT !.stored = TRUE] \in Request
            /\ [requests[k] EXCEPT !.stored = TRUE].status # "absent"
        BY <3>1, RowTypes, RowFields DEF Exists
      <3>3. requests' = [requests EXCEPT ![k] = [requests[k] EXCEPT !.stored = TRUE]]
        BY <2>3, <3>1
      <3>4. /\ requests' \in [Keys -> Request]
            /\ \A j \in Keys : Exists(j)' <=> Exists(j)
        BY <3>1, <3>2, <3>3, RowStep
      <3>5. QED
        BY <1>0, <1>s, <2>1, <2>3, <3>4, BusyStep DEF NoFault
    <2>4. QED
      BY <1>3, <2>2, <2>3 DEF ReplaceCandidates
  <1>4. ASSUME NEW p \in WorkerPC, NEW k \in Keys, k = worker[w].key,
               worker[w].pc # "idle", NEW row \in Request, row.status # "absent",
               Write(k, row), Go(w, p) \/ Rest(w),
               UNCHANGED <<store, table, wanted, claims>>
        PROVE  TypeOK'
    <2>1. Exists(k)
      BY <1>4, Busy
    <2>2. /\ requests' \in [Keys -> Request]
          /\ \A j \in Keys : Exists(j)' <=> Exists(j)
          /\ cut' \in BOOLEAN /\ used' \in [faults : Nat, ops : Nat]
      BY <1>4, <2>1, WriteTyped
    <2>3. QED
      BY <1>4, <2>2, BusyStep
  <1>5. CASE MarkSucceeded(w)
    <2>1. PICK k \in Keys : k = worker[w].key /\ requests[k] \in Request
      BY <1>5, Busy DEF MarkSucceeded
    <2>2. Succeeded(requests[k]) \in Request
          /\ Succeeded(requests[k]).status # "absent"
      BY <2>1, RowTypes, RowFields
    <2>3. QED
      BY <1>s, <1>4, <1>5, <2>1, <2>2 DEF MarkSucceeded
  <1>6. ASSUME NEW t \in BOOLEAN, NEW k \in Keys, requests[k] \in Request
        PROVE  /\ Rescheduled(requests[k], t) \in Request
               /\ Rescheduled(requests[k], t).status # "absent"
    BY <1>6, RowTypes, RowFields
  <1>7. CASE RescheduleRead(w)
    <2>1. PICK k \in Keys : k = worker[w].key /\ requests[k] \in Request
      BY <1>7, Busy DEF RescheduleRead
    <2>a. worker[w].seen \in Nat
      BY Busy
    <2>b. (worker[w].seen >= MaxAttempts) \in BOOLEAN
      BY <2>a, Bounds
    <2>2. PICK t \in BOOLEAN : t = (worker[w].seen >= MaxAttempts)
      BY <2>b
    <2>3. /\ worker[w].pc # "idle" /\ Write(k, Rescheduled(requests[k], t))
          /\ Go(w, "again") /\ UNCHANGED <<store, table, wanted, claims>>
      BY <1>7, <2>1, <2>2 DEF RescheduleRead
    <2>4. QED
      BY <1>s, <1>4, <1>6, <2>1, <2>3
  <1>8. CASE RescheduleClaimed(w)
    <2>1. PICK k \in Keys : k = worker[w].key /\ requests[k] \in Request
      BY <1>8, Busy DEF RescheduleClaimed
    <2>a. worker[w].attempt \in Nat
      BY Busy
    <2>b. (worker[w].attempt >= MaxAttempts) \in BOOLEAN
      BY <2>a, Bounds
    <2>2. PICK t \in BOOLEAN : t = (worker[w].attempt >= MaxAttempts)
      BY <2>b
    <2>3. /\ worker[w].pc # "idle" /\ Write(k, Rescheduled(requests[k], t))
          /\ Rest(w) /\ UNCHANGED <<store, table, wanted, claims>>
      BY <1>8, <2>1, <2>2 DEF RescheduleClaimed
    <2>4. QED
      BY <1>s, <1>4, <1>6, <2>1, <2>3
  <1>9. QED
    BY <1>1, <1>2, <1>3, <1>5, <1>7, <1>8 DEF WorkerStep

LEMMA StepTyped == TypeOK /\ [Next]_vars => TypeOK'
  <1> SUFFICES ASSUME TypeOK, [Next]_vars PROVE TypeOK'
    OBVIOUS
  <1>0. /\ requests \in [Keys -> Request] /\ cut \in BOOLEAN
        /\ used \in [faults : Nat, ops : Nat] /\ RestOK /\ TableOK /\ WorkersOK
    BY TypeParts DEF TypeOK
  <1>x. UNCHANGED requests => \A j \in Keys : Exists(j)' <=> Exists(j)
    BY DEF Exists
  \* The rows stay as they are, or keep to their keys; no worker moves.
  <1>r. ASSUME requests' \in [Keys -> Request],
               \A j \in Keys : Exists(j)' <=> Exists(j),
               UNCHANGED <<table, worker>>, RestOK'
        PROVE  TypeOK'
    BY <1>r, TableKept, WorkersKept, TypeParts
  <1>1. ASSUME NEW k \in Keys, EnqueueSearch(k) PROVE TypeOK'
    <2>1. IsFiniteSet({k}) /\ {k} \subseteq Keys
      BY FS_Singleton
    <2>2. RestOK'
      BY <1>0, <1>1 DEF EnqueueSearch, RestOK
    <2>3. QED
      BY <1>1, <2>1, <2>2, EnqueueTyped DEF EnqueueSearch
  <1>2. ASSUME NEW k \in Keys, LeaseExpires(k) PROVE TypeOK'
    <2>1. requests[k] \in Request /\ requests[k].lease = "held"
      BY <1>0, <1>2 DEF LeaseExpires
    <2>2. [requests[k] EXCEPT !.lease = "expired"] \in Request
          /\ [requests[k] EXCEPT !.lease = "expired"].status = requests[k].status
      <3>1. [requests[k] EXCEPT !.lease = "expired"] \in Request
        BY <2>1, RowTypes
      <3>2. [requests[k] EXCEPT !.lease = "expired"].status = requests[k].status
        BY <2>1, RowFields
      <3>3. QED
        BY <3>1, <3>2
    <2>3. requests' = [requests EXCEPT ![k] = [requests[k] EXCEPT !.lease = "expired"]]
      BY <1>2 DEF LeaseExpires
    <2>4. \A j \in Keys : requests'[j] = IF j = k THEN [requests[k] EXCEPT !.lease = "expired"]
                                         ELSE requests[j]
      BY <2>3, RowWritten
    <2>5. requests' \in [Keys -> Request] /\ \A j \in Keys : Exists(j)' <=> Exists(j)
      BY <1>0, <2>2, <2>3, <2>4 DEF Exists
    <2>6. RestOK'
      BY <1>0, <1>2 DEF LeaseExpires, RestOK
    <2>7. QED
      BY <1>2, <1>r, <2>5, <2>6 DEF LeaseExpires
  <1>3. ASSUME NEW k \in Keys, BackoffElapses(k) PROVE TypeOK'
    <2>1. requests[k] \in Request /\ Exists(k)
      BY <1>0, <1>3 DEF BackoffElapses, Exists
    <2>2. [requests[k] EXCEPT !.due = TRUE] \in Request
          /\ [requests[k] EXCEPT !.due = TRUE].status # "absent"
      <3>1. [requests[k] EXCEPT !.due = TRUE] \in Request
        BY <2>1, RowTypes
      <3>2. [requests[k] EXCEPT !.due = TRUE].status = requests[k].status
        BY <2>1, RowFields
      <3>3. QED
        BY <2>1, <3>1, <3>2 DEF Exists
    <2>3. requests' = [requests EXCEPT ![k] = [requests[k] EXCEPT !.due = TRUE]]
      BY <1>3 DEF BackoffElapses
    <2>4. requests' \in [Keys -> Request] /\ \A j \in Keys : Exists(j)' <=> Exists(j)
      BY <2>1, <2>2, <2>3, RowStep
    <2>5. RestOK'
      BY <1>0, <1>3 DEF BackoffElapses, RestOK
    <2>6. QED
      BY <1>3, <1>r, <2>4, <2>5 DEF BackoffElapses
  <1>4. ASSUME NEW e \in Entities,
               (\E s \in {"on", "off"} : SetWanted(e, s)) \/ DeleteWanted(e)
        PROVE  TypeOK'
    <2>1. wanted' \in [Entities -> [state : {"absent", "on", "off"}, age : 0..Cadence]]
      <3> DEFINE Entry == [state : {"absent", "on", "off"}, age : 0..Cadence]
      <3>1. wanted \in [Entities -> Entry]
        BY DEF TypeOK
      <3>2. ASSUME NEW s \in {"on", "off"}, SetWanted(e, s) PROVE wanted' \in [Entities -> Entry]
        <4>1. [wanted[e] EXCEPT !.state = s] \in Entry
          BY <3>1
        <4>2. wanted' = [wanted EXCEPT ![e] = [wanted[e] EXCEPT !.state = s]]
          BY <3>2 DEF SetWanted
        <4> HIDE DEF Entry
        <4>3. QED
          BY <3>1, <4>1, <4>2
      <3>3. ASSUME DeleteWanted(e) PROVE wanted' \in [Entities -> Entry]
        <4>1. [state |-> "absent", age |-> Cadence] \in Entry
          BY Bounds
        <4> HIDE DEF Entry
        <4>2. QED
          BY <3>1, <3>3, <4>1 DEF DeleteWanted
      <3>4. QED
        BY <1>4, <3>2, <3>3
    <2>2. UNCHANGED <<store, requests, table, worker, claims, cut>>
      BY <1>4 DEF SetWanted, DeleteWanted
    <2>3. used' \in [faults : Nat, ops : Nat]
      BY <1>0, <1>4, UsedTypes DEF SetWanted, DeleteWanted, OperatorAsks
    <2>4. RestOK'
      BY <1>0, <2>1, <2>2, <2>3 DEF RestOK
    <2>5. QED
      BY <1>0, <1>r, <1>x, <2>2, <2>4
  <1>5. CASE EnqueueDueWanted
    <2>1. PICK key \in [Picked -> Keys] : CreateOrGet({key[e] : e \in Picked})
      BY <1>5 DEF EnqueueDueWanted
    <2>2. {key[e] : e \in Picked} \subseteq Keys /\ IsFiniteSet({key[e] : e \in Picked})
      BY PickedKeys
    <2>3. wanted' \in [Entities -> [state : {"absent", "on", "off"}, age : 0..Cadence]]
      <3> DEFINE Entry == [state : {"absent", "on", "off"}, age : 0..Cadence]
      <3>1. \A e \in Entities : wanted[e] \in Entry
        BY DEF TypeOK
      <3>2. \A e \in Entities : AgeAfterTick(e) \in 0..Cadence
        BY <3>1, Bounds DEF AgeAfterTick
      <3>3. \A e \in Entities : [wanted[e] EXCEPT !.age = AgeAfterTick(e)] \in Entry
        BY <3>1, <3>2
      <3> HIDE DEF Entry
      <3>4. QED
        BY <1>5, <3>1, <3>3 DEF EnqueueDueWanted, Entry
    <2>4. RestOK'
      BY <1>0, <1>5, <2>3 DEF EnqueueDueWanted, RestOK
    <2>5. QED
      BY <1>5, <2>1, <2>2, <2>4, EnqueueTyped DEF EnqueueDueWanted
  <1>6. ASSUME NEW w \in Workers, WorkerStep(w) PROVE TypeOK'
    BY <1>6, WorkerTyped
  <1>7. CASE RecoverExpired
    <2>1. \A k \in Keys : requests'[k] = IF Expired(k) THEN Recovered(requests[k])
                                        ELSE requests[k]
      BY <1>7 DEF RecoverExpired
    <2>2. \A k \in Keys : /\ Recovered(requests[k]) \in Request
                          /\ Recovered(requests[k]).status # "absent"
                          /\ Expired(k) => Exists(k)
      BY <1>0, RowTypes, RowFields DEF Expired, Exists
    <2>3. requests' \in [Keys -> Request]
      BY <1>0, <1>7, <2>1, <2>2 DEF RecoverExpired
    <2>4. \A j \in Keys : Exists(j)' <=> Exists(j)
      BY <2>1, <2>2 DEF Exists
    <2>5. RestOK'
      BY <1>0, <1>7 DEF RecoverExpired, RestOK
    <2>6. QED
      BY <1>7, <1>r, <2>3, <2>4, <2>5 DEF RecoverExpired
  <1>8. CASE Restart
    <2>1. UNCHANGED <<store, requests, table, wanted, claims>>
          /\ worker' = [w \in Workers |-> WorkerIdle]
      BY <1>8 DEF Restart
    <2>2. cut' \in BOOLEAN /\ used' \in [faults : Nat, ops : Nat]
      BY <1>0, <1>8, UsedTypes DEF Restart, Lost, Fault
    <2>3. WorkersOK'
      BY <2>1, IdleRec DEF WorkersOK
    <2>4. TableOK'
      BY <1>x, <2>1, TableKept
    <2>5. RestOK'
      BY <1>0, <2>1, <2>2 DEF RestOK
    <2>6. QED
      BY <1>0, <2>1, <2>3, <2>4, <2>5, TypeParts
  <1>9. CASE UNCHANGED vars
    <2>1. RestOK'
      BY <1>0, <1>9 DEF vars, RestOK
    <2>2. QED
      BY <1>0, <1>9, <1>r, <1>x, <2>1 DEF vars
  <1>10. QED
    BY <1>1, <1>2, <1>3, <1>4, <1>5, <1>6, <1>7, <1>8, <1>9 DEF Next

\* The request table, the workers and the wanted lists keep their types, the
\* table names each row once and a busy worker's request exists, for any
\* number of wanted entities, workers and attempts.
THEOREM TypeCorrect == Spec => []TypeOK
  BY InitTyped, StepTyped, PTL DEF Spec

-----------------------------------------------------------------------------
(* Claims are bounded.                                                     *)

LEMMA OwingFinite ==
    ASSUME NEW k
    PROVE  /\ IsFiniteSet(Owing(k)) /\ Cardinality(Owing(k)) \in Nat
           /\ IsFiniteSet(Ahead(k)) /\ Cardinality(Ahead(k)) \in Nat
           /\ IsFiniteSet(Owing(k)') /\ Cardinality(Owing(k)') \in Nat
           /\ IsFiniteSet(Ahead(k)') /\ Cardinality(Ahead(k)') \in Nat
  <1>1. \A S \in SUBSET Workers : IsFiniteSet(S) /\ Cardinality(S) \in Nat
    BY WorkersAssumption, FS_Subset, FS_CardinalityType
  <1>2. /\ Owing(k) \in SUBSET Workers /\ Ahead(k) \in SUBSET Workers
        /\ Owing(k)' \in SUBSET Workers /\ Ahead(k)' \in SUBSET Workers
    BY DEF Owing, Ahead
  <1>3. QED
    BY <1>1, <1>2

\* A request that is not claimed stays within its means: no verdict is owed
\* anew, and one that puts it back is used up.
LEMMA PaidDown ==
    ASSUME TypeOK, NEW k \in Keys, PostgresInv(k),
           requests'[k].attempt = requests[k].attempt, claims'[k] = claims[k],
           Owing(k)' \subseteq Owing(k), Ahead(k)' \subseteq Ahead(k),
           \/ requests'[k].status = "queued" => requests[k].status = "queued"
           \/ \E w \in Owing(k) : w \notin Owing(k)'
           \/ \E w \in Ahead(k) : w \notin Ahead(k)'
    PROVE  PostgresInv(k)'
  <1>1. PICK o, a, o2, a2, c, q, q2, n :
           /\ o = Cardinality(Owing(k)) /\ a = Cardinality(Ahead(k))
           /\ o2 = Cardinality(Owing(k)') /\ a2 = Cardinality(Ahead(k)')
           /\ c = claims[k] /\ q = Queued(k) /\ q2 = Queued(k)'
           /\ n = Cardinality(Workers)
    OBVIOUS
  <1>2. {o, a, o2, a2, c, q, q2, n} \subseteq Nat /\ q \in {0, 1} /\ q2 \in {0, 1}
    BY <1>1, OwingFinite, Bounds DEF TypeOK, Queued
  <1>3. /\ o2 <= o /\ (o2 = o => Owing(k)' = Owing(k))
        /\ a2 <= a /\ (a2 = a => Ahead(k)' = Ahead(k))
    BY <1>1, OwingFinite, FS_Subset
  <1>4. q2 <= q \/ o2 # o \/ a2 # a
    BY <1>1, <1>3 DEF Queued
  <1>5. c >= MaxAttempts => c + q + o + a <= MaxAttempts + 2 * (n - 1)
    BY <1>1 DEF PostgresInv
  <1>6. c >= MaxAttempts => c + q2 + o2 + a2 <= MaxAttempts + 2 * (n - 1)
    BY <1>2, <1>3, <1>4, <1>5, Bounds
  <1>7. claims'[k] = requests'[k].attempt /\ claims'[k] = c
    BY <1>1 DEF PostgresInv
  <1>8. QED
    BY <1>1, <1>6, <1>7 DEF PostgresInv

\* A busy worker that moves on, or any that rests, owes no new verdict.
LEMMA Shrinks ==
    ASSUME TypeOK, NEW w \in Workers, NEW r, worker' = [worker EXCEPT ![w] = r],
           \/ r.pc \notin PutsBack
           \/ /\ worker[w].pc \in PutsBack
              /\ r.key = worker[w].key /\ r.attempt = worker[w].attempt
              /\ r.pc # "again" => worker[w].pc # "again"
    PROVE  \A k : Owing(k)' \subseteq Owing(k) /\ Ahead(k)' \subseteq Ahead(k)
  <1>1. \A v \in Workers : worker'[v] = IF v = w THEN r ELSE worker[v]
    BY DEF TypeOK
  <1>2. ASSUME NEW k, NEW v \in Owing(k)' PROVE v \in Owing(k)
    BY <1>1, <1>2 DEF Owing, PutsBack
  <1>3. ASSUME NEW k, NEW v \in Ahead(k)' PROVE v \in Ahead(k)
    <2>1. v \in Owing(k)' /\ v \in Owing(k) /\ worker'[v].pc # "again"
      BY <1>2, <1>3 DEF Ahead
    <2>2. worker[v].pc # "again"
      BY <1>1, <2>1 DEF Owing, PutsBack
    <2>3. QED
      BY <2>1, <2>2 DEF Ahead
  <1>4. QED
    BY <1>2, <1>3

LEMMA WorkerInvKept ==
    ASSUME TypeOK, NEW v \in Workers, WorkerInv(v), worker'[v] = worker[v],
           store' = store, requests' \in [Keys -> Request],
           \A k \in Keys : Exists(k) => requests'[k].attempt >= requests[k].attempt
    PROVE  WorkerInv(v)'
  <1>1. ASSUME worker[v].pc # "idle"
        PROVE  worker[v].attempt <= requests'[worker[v].key].attempt
    <2>1. PICK k \in Keys : k = worker[v].key /\ Exists(k)
      BY <1>1, Busy
    <2>2. worker[v].attempt <= requests[k].attempt
      BY <1>1, <2>1 DEF WorkerInv
    <2>3. requests'[k].attempt >= requests[k].attempt
      BY <2>1
    <2>4. /\ worker[v].attempt \in Nat /\ requests[k].attempt \in Nat
          /\ requests'[k].attempt \in Nat
      BY Busy DEF TypeOK, Request
    <2>5. QED
      BY <2>1, <2>2, <2>3, <2>4
  <1>2. QED
    BY <1>1 DEF WorkerInv

\* Steps of everyone but the workers.
LEMMA ClaimRows ==
    ASSUME TypeOK, ClaimInv, TypeOK', UNCHANGED <<store, worker, claims>>,
           \A k \in Keys :
              \/ /\ requests'[k] = requests[k]
              \/ /\ Exists(k) /\ requests'[k].status = requests[k].status
                 /\ requests'[k].attempt = requests[k].attempt
              \/ /\ ~Exists(k) /\ requests'[k] = NewRequest
              \/ /\ store = "memory" /\ requests[k].status = "running"
                 /\ requests'[k] = Recovered(requests[k])
    PROVE  ClaimInv'
  <1>1. \A k \in Keys : Owing(k)' = Owing(k) /\ Ahead(k)' = Ahead(k)
    BY DEF Owing, Ahead
  <1>2. ASSUME NEW k \in Keys
        PROVE  /\ requests[k] \in Request /\ requests[k].attempt \in Nat
               /\ claims[k] \in Nat
               /\ NewRequest.status = "queued" /\ NewRequest.attempt = 0
               /\ Recovered(requests[k]).status \in {"queued", "failed"}
               /\ Recovered(requests[k]).attempt = requests[k].attempt + 1
               /\ Recovered(requests[k]).status = "queued" =>
                       requests[k].attempt + 1 < MaxAttempts
    <2>1. requests[k] \in Request /\ claims[k] \in Nat
      BY DEF TypeOK
    <2>2. QED
      BY <2>1, RowFields DEF Request
  <1>3. ASSUME NEW k \in Keys, ~Exists(k)' PROVE requests'[k] = AbsentRequest /\ claims'[k] = 0
    <2>1. requests'[k] = requests[k]
      BY <1>2, <1>3 DEF Exists
    <2>2. QED
      BY <1>3, <2>1 DEF ClaimInv, Exists
  <1>4. ASSUME NEW k \in Keys, store = "postgres" PROVE PostgresInv(k)'
    <2>1. PostgresInv(k)
      BY <1>4 DEF ClaimInv
    <2>2. CASE /\ requests'[k].status = requests[k].status
               /\ requests'[k].attempt = requests[k].attempt
      BY <1>1, <2>1, <2>2, PaidDown
    <2>3. CASE ~Exists(k) /\ requests'[k] = NewRequest
      <3>1. claims'[k] = 0 /\ requests'[k].attempt = 0
        BY <1>2, <2>3 DEF ClaimInv
      <3>2. QED
        BY <3>1, Bounds DEF PostgresInv
    <2>4. QED
      BY <1>4, <2>2, <2>3
  <1>5. ASSUME NEW k \in Keys, store = "memory" PROVE MemoryInv(k)'
    <2>1. MemoryInv(k) /\ claims'[k] = claims[k]
      BY <1>5 DEF ClaimInv
    <2>2. CASE /\ requests'[k].status = requests[k].status
               /\ requests'[k].attempt = requests[k].attempt
      BY <2>1, <2>2 DEF MemoryInv
    <2>3. CASE ~Exists(k) /\ requests'[k] = NewRequest
      <3>1. claims'[k] = 0 /\ requests'[k].attempt = 0 /\ requests'[k].status = "queued"
        BY <1>2, <2>3 DEF ClaimInv
      <3>2. QED
        BY <3>1, Bounds DEF MemoryInv
    <2>4. CASE requests[k].status = "running" /\ requests'[k] = Recovered(requests[k])
      BY <1>2, <2>1, <2>4, Bounds DEF MemoryInv
    <2>5. QED
      BY <2>2, <2>3, <2>4
  <1>6. \A k \in Keys : Exists(k) => requests'[k].attempt >= requests[k].attempt
    BY <1>2
  <1>7. \A v \in Workers : WorkerInv(v)'
    BY <1>6, WorkerInvKept DEF ClaimInv, TypeOK
  <1>8. QED
    BY <1>3, <1>4, <1>5, <1>7 DEF ClaimInv

\* Steps of a busy worker.
LEMMA ClaimBusy ==
    ASSUME TypeOK, ClaimInv, TypeOK', NEW w \in Workers, NEW r,
           NEW k \in Keys, k = worker[w].key, worker[w].pc # "idle",
           worker' = [worker EXCEPT ![w] = r],
           r.pc \notin PutsBack \/
              /\ worker[w].pc \in PutsBack
              /\ r.key = worker[w].key /\ r.attempt = worker[w].attempt
              /\ r.pc # "again" => worker[w].pc # "again",
           UNCHANGED <<store, claims>>,
           \A j \in Keys : j # k => requests'[j] = requests[j],
           requests'[k].attempt = requests[k].attempt,
           requests'[k].status # "absent",
           \/ requests'[k].status \in {requests[k].status, "failed", "succeeded"}
           \/ /\ requests'[k].status = "queued" /\ store = "postgres"
              /\ \/ w \in Owing(k) /\ w \notin Owing(k)'
                 \/ w \in Ahead(k) /\ w \notin Ahead(k)',
           WorkerInv(w)'
    PROVE  ClaimInv'
  <1>1. \A j : Owing(j)' \subseteq Owing(j) /\ Ahead(j)' \subseteq Ahead(j)
    BY Shrinks
  <1>2. ASSUME NEW j \in Keys, ~Exists(j)' PROVE requests'[j] = AbsentRequest /\ claims'[j] = 0
    BY <1>2 DEF ClaimInv, Exists
  <1>3. ASSUME NEW j \in Keys, store = "postgres" PROVE PostgresInv(j)'
    <2>1. PostgresInv(j) /\ requests'[j].attempt = requests[j].attempt
          /\ claims'[j] = claims[j]
      BY <1>3 DEF ClaimInv
    <2>2. \/ requests'[j].status = "queued" => requests[j].status = "queued"
          \/ \E v \in Owing(j) : v \notin Owing(j)'
          \/ \E v \in Ahead(j) : v \notin Ahead(j)'
      BY <1>3
    <2>3. QED
      BY <1>1, <2>1, <2>2, PaidDown
  <1>4. ASSUME NEW j \in Keys, store = "memory" PROVE MemoryInv(j)'
    <2>1. MemoryInv(j) /\ requests'[j].attempt = requests[j].attempt
          /\ claims'[j] = claims[j]
      BY <1>4 DEF ClaimInv
    <2>2. requests'[j].status \in {requests[j].status, "failed", "succeeded"}
      BY <1>4
    <2>3. QED
      BY <2>1, <2>2 DEF MemoryInv
  <1>5. ASSUME NEW v \in Workers PROVE WorkerInv(v)'
    <2>1. \A j \in Keys : Exists(j) => requests'[j].attempt >= requests[j].attempt
      <3>1. \A j \in Keys : requests[j].attempt \in Nat
        BY DEF TypeOK, Request
      <3>2. \A j \in Keys : requests'[j].attempt = requests[j].attempt
        OBVIOUS
      <3>3. QED
        BY <3>1, <3>2
    <2>2. v # w => worker'[v] = worker[v]
      BY DEF TypeOK
    <2>3. QED
      BY <2>1, <2>2, WorkerInvKept DEF ClaimInv, TypeOK
  <1>6. QED
    BY <1>2, <1>3, <1>4, <1>5 DEF ClaimInv

\* A claim: it costs an attempt, and one beyond MaxAttempts finds the request
\* put back by a worker that owes no more verdicts on it.
LEMMA ClaimLock ==
    ASSUME TypeOK, ClaimInv, TypeOK', NEW w \in Workers, NEW i \in DOMAIN table,
           TryLockNext(w, i)
    PROVE  ClaimInv'
  <1>1. PICK k \in Keys : k = table[i]
    BY DEF TypeOK
  <1>2. /\ worker[w].pc = "idle" /\ requests[k].status = "queued"
        /\ requests' = [requests EXCEPT ![k] = Claimed(requests[k])]
        /\ claims' = [claims EXCEPT ![k] = @ + 1]
        /\ \/ worker' = [worker EXCEPT ![w] =
                 [pc |-> "read", key |-> k, attempt |-> requests[k].attempt + 1, seen |-> 0]]
           \/ store = "postgres" /\ worker' = worker
        /\ store' = store
    BY <1>1 DEF TryLockNext, Claimable, Lost, Fault
  <1>3. requests[k] \in Request /\ claims[k] \in Nat /\ requests[k].attempt \in Nat
    BY DEF TypeOK, Request
  <1>4. /\ requests'[k].status = "running"
        /\ requests'[k].attempt = requests[k].attempt + 1
        /\ claims'[k] = claims[k] + 1
        /\ \A j \in Keys : j # k => requests'[j] = requests[j] /\ claims'[j] = claims[j]
    <2>1. requests'[k] = Claimed(requests[k])
      <3>1. requests' = [requests EXCEPT ![k] = Claimed(requests[k])]
        BY <1>2
      <3>2. QED
        BY <3>1, SMTT(30) DEF TypeOK
    <2>2. QED
      BY <1>2, <1>3, <2>1, RowFields DEF TypeOK
  <1>5. /\ \A v \in Workers : v # w => worker'[v] = worker[v]
        /\ \/ worker'[w] = [pc |-> "read", key |-> k, attempt |-> requests[k].attempt + 1,
                            seen |-> 0]
           \/ store = "postgres" /\ worker'[w] = worker[w]
    BY <1>2 DEF TypeOK
  <1>6. \A j : w \notin Owing(j) /\ w \notin Ahead(j)
    BY <1>2 DEF Owing, Ahead
  <1>7. ASSUME NEW j \in Keys,
               w \notin Owing(j)'
        PROVE  Owing(j)' = Owing(j) /\ Ahead(j)' = Ahead(j)
    <2>1. \A v \in Workers : v \in Owing(j)' <=> v \in Owing(j)
      BY <1>5, <1>6, <1>7 DEF Owing
    <2>2. Owing(j)' \subseteq Workers /\ Owing(j) \subseteq Workers
      BY DEF Owing
    <2>3. Owing(j)' = Owing(j)
      BY <2>1, <2>2
    <2>4. \A v \in Workers : v \in Owing(j) => worker'[v] = worker[v]
      BY <1>5, <1>6
    <2>5. \A v \in Workers : v \in Ahead(j)' <=> v \in Ahead(j)
      BY <2>1, <2>4 DEF Ahead
    <2>6. Ahead(j)' \subseteq Workers /\ Ahead(j) \subseteq Workers
      BY DEF Ahead, Owing
    <2>7. QED
      BY <2>3, <2>5, <2>6
  <1>8. ASSUME NEW j \in Keys, ~Exists(j)' PROVE requests'[j] = AbsentRequest /\ claims'[j] = 0
    <2>1. j # k
      BY <1>4, <1>8 DEF Exists
    <2>2. requests'[j] = requests[j] /\ claims'[j] = claims[j]
      BY <1>4, <2>1
    <2>3. QED
      BY <1>8, <2>2 DEF ClaimInv, Exists
  <1>9. ASSUME NEW j \in Keys, j # k, store = "postgres" PROVE PostgresInv(j)'
    <2>1. w \notin Owing(j)'
      BY <1>2, <1>5, <1>9 DEF Owing
    <2>2. PostgresInv(j) /\ requests'[j] = requests[j] /\ claims'[j] = claims[j]
      BY <1>4, <1>9 DEF ClaimInv
    <2>3. QED
      BY <1>7, <2>1, <2>2, PaidDown
  <1>10. ASSUME store = "postgres" PROVE PostgresInv(k)'
    <2>1. PICK o, a, c, n : /\ o = Cardinality(Owing(k)) /\ a = Cardinality(Ahead(k))
                            /\ c = claims[k] /\ n = Cardinality(Workers)
      OBVIOUS
    <2>2. o \in Nat /\ a \in Nat /\ c \in Nat /\ n \in Nat /\ n >= 1
      BY <1>3, <2>1, OwingFinite, Bounds
    <2>3. /\ requests[k].attempt = c
          /\ c >= MaxAttempts => c + 1 + o + a <= MaxAttempts + 2 * (n - 1)
      BY <1>2, <1>10, <2>1 DEF ClaimInv, PostgresInv, Queued
    <2>4. a <= o /\ o <= n - 1
      <3>1. IsFiniteSet(Workers \ {w}) /\ Cardinality(Workers \ {w}) = n - 1
        BY <2>1, WorkersAssumption, FS_RemoveElement
      <3>2. Owing(k) \subseteq Workers \ {w} /\ Ahead(k) \subseteq Owing(k)
        BY <1>6 DEF Owing, Ahead
      <3>3. QED
        BY <2>1, <3>1, <3>2, OwingFinite, FS_Subset
    <2>5. ASSUME c + 1 >= MaxAttempts
          PROVE  /\ Cardinality(Owing(k)') = o /\ Cardinality(Ahead(k)') = a
      <3>1. ~(c + 1 < MaxAttempts)
        BY <2>2, <2>5, Bounds
      <3>2. w \notin Owing(k)'
        BY <1>2, <1>5, <2>3, <3>1 DEF Owing
      <3>3. QED
        BY <1>7, <2>1, <3>2
    <2>6. c + 1 >= MaxAttempts => c + 1 + 0 + o + a <= MaxAttempts + 2 * (n - 1)
      <3>1. CASE c >= MaxAttempts
        BY <2>2, <2>3, <3>1
      <3>2. CASE ~(c >= MaxAttempts)
        BY <2>2, <2>4, <3>2, Bounds
      <3>3. QED
        BY <3>1, <3>2
    <2>7. Queued(k)' = 0 /\ claims'[k] = c + 1 /\ requests'[k].attempt = c + 1
      BY <1>4, <2>1, <2>3 DEF Queued
    <2>8. QED
      BY <2>1, <2>5, <2>6, <2>7 DEF PostgresInv
  <1>11. ASSUME NEW j \in Keys, store = "memory" PROVE MemoryInv(j)'
    <2>0. MemoryInv(j)
      BY <1>11 DEF ClaimInv
    <2>1. CASE j # k
      BY <1>4, <2>0, <2>1 DEF MemoryInv
    <2>2. CASE j = k
      <3>1. 2 * claims[k] <= requests[k].attempt /\ requests[k].attempt < MaxAttempts
        BY <1>2, <2>0, <2>2 DEF MemoryInv
      <3>2. /\ 2 * (claims[k] + 1) <= MaxAttempts + 1
            /\ 2 * (claims[k] + 1) <= (requests[k].attempt + 1) + 1
        BY <1>3, <3>1, Bounds
      <3>3. QED
        BY <1>4, <2>2, <3>2 DEF MemoryInv
    <2>3. QED
      BY <2>1, <2>2
  <1>12. \A j \in Keys : Exists(j) => requests'[j].attempt >= requests[j].attempt
    <2>1. \A j \in Keys : requests[j].attempt \in Nat
      BY DEF TypeOK, Request
    <2>2. \A j \in Keys : \/ requests'[j].attempt = requests[j].attempt
                          \/ requests'[j].attempt = requests[j].attempt + 1
      BY <1>4
    <2>3. QED
      BY <2>1, <2>2
  <1>13. ASSUME NEW v \in Workers, worker'[v] = worker[v] PROVE WorkerInv(v)'
    BY <1>2, <1>12, <1>13, WorkerInvKept DEF ClaimInv, TypeOK
  <1>14. WorkerInv(w)'
    <2>1. ASSUME worker'[w] = [pc |-> "read", key |-> k,
                               attempt |-> requests[k].attempt + 1, seen |-> 0]
          PROVE  WorkerInv(w)'
      <3>1. worker'[w].key = k /\ worker'[w].attempt = requests'[k].attempt
            /\ worker'[w].pc = "read" /\ requests'[k].attempt \in Nat
        BY <1>3, <1>4, <2>1
      <3>2. QED
        BY <3>1 DEF WorkerInv
    <2>2. QED
      BY <1>5, <1>13, <2>1
  <1>15. \A v \in Workers : WorkerInv(v)'
    BY <1>5, <1>13, <1>14
  <1>16. QED
    BY <1>2, <1>8, <1>9, <1>10, <1>11, <1>15 DEF ClaimInv

LEMMA BusyInv ==
    ASSUME NEW w \in Workers, WorkerInv(w), NEW k \in Keys, k = worker[w].key,
           worker[w].pc # "idle", NEW r, worker'[w] = r,
           \/ r.pc = "idle"
           \/ /\ r.key = k /\ r.attempt = worker[w].attempt
              /\ r.pc \in {"search", "reschedule"} => worker[w].attempt <= r.seen
              /\ store = "memory" => r.pc \notin {"reschedule", "again"},
           requests'[k].attempt = requests[k].attempt, store' = store
    PROVE  WorkerInv(w)'
  BY DEF WorkerInv

\* The outcome a worker writes.
LEMMA WrittenFields ==
    ASSUME TypeOK, NEW k \in Keys, Exists(k), NEW row, row.attempt = requests[k].attempt,
           row.status # "absent", row.stored = requests[k].stored, Write(k, row)
    PROVE  /\ \A j \in Keys : j # k => requests'[j] = requests[j]
           /\ requests'[k].attempt = requests[k].attempt
           /\ requests'[k].stored = requests[k].stored
           /\ requests'[k].status # "absent"
           /\ requests'[k].status \in {requests[k].status, row.status}
           /\ UNCHANGED requests \/ requests'[k] = row
  <1>1. CASE requests' = [requests EXCEPT ![k] = row]
    <2>1. requests'[k] = row /\ \A j \in Keys : j # k => requests'[j] = requests[j]
      BY <1>1 DEF TypeOK
    <2>2. QED
      BY <2>1
  <1>2. CASE UNCHANGED requests
    BY <1>2 DEF Exists
  <1>3. QED
    BY <1>1, <1>2 DEF Write

LEMMA ClaimWorker ==
    ASSUME TypeOK, ClaimInv, TypeOK', NEW w \in Workers, WorkerStep(w)
    PROVE  ClaimInv'
  <1>1. ASSUME NEW i \in DOMAIN table, TryLockNext(w, i) PROVE ClaimInv'
    BY <1>1, ClaimLock
  <1>2. WorkerInv(w)
    BY DEF ClaimInv
  <1> DEFINE Goes(p) == [worker[w] EXCEPT !.pc = p]
  <1>3. \A p \in WorkerPC : /\ Goes(p).pc = p /\ Goes(p).key = worker[w].key
                            /\ Goes(p).attempt = worker[w].attempt
                            /\ Goes(p).seen = worker[w].seen
    BY Moved
  <1>4. worker[w] \in WorkerRec /\ worker[w].attempt \in Nat /\ worker[w].seen \in Nat
    BY Busy
  <1>5. /\ \A p : Go(w, p) => worker' = [worker EXCEPT ![w] = Goes(p)]
        /\ Rest(w) => worker' = [worker EXCEPT ![w] = WorkerIdle]
    BY DEF Go, Rest
  <1>6. \A r : worker' = [worker EXCEPT ![w] = r] => worker'[w] = r
    BY DEF TypeOK
  <1> HIDE DEF Goes
  <1>7. {"search", "mark", "reschedule", "again"} \subseteq WorkerPC
    BY DEF WorkerPC
  <1>8. Fault => store = "postgres"
    BY DEF Fault
  <1>9. "idle" \notin PutsBack /\ "mark" \notin PutsBack
        /\ {"read", "search", "reschedule", "again"} = PutsBack
    BY DEF PutsBack
  <1>10. CASE GetSearchRequest(w)
    <2>1. PICK k \in Keys : k = worker[w].key /\ Exists(k) /\ requests[k] \in Request
      BY <1>10, Busy DEF GetSearchRequest
    <2>2. /\ worker[w].pc = "read" /\ UNCHANGED <<store, requests, claims>>
      BY <1>10 DEF GetSearchRequest
    <2>3. requests'[k].status # "absent" /\ requests'[k].status = requests[k].status
          /\ requests'[k].attempt = requests[k].attempt
      BY <2>1, <2>2 DEF Exists
    <2>4. CASE Fault /\ Go(w, "again")
      <3>1. PICK r : r = Goes("again")
        OBVIOUS
      <3>2. /\ r.pc = "again" /\ r.key = worker[w].key /\ r.attempt = worker[w].attempt
            /\ worker' = [worker EXCEPT ![w] = r] /\ worker'[w] = r
        BY <1>3, <1>5, <1>6, <1>7, <2>4, <3>1
      <3>3. WorkerInv(w)'
        BY <1>2, <1>8, <2>1, <2>2, <2>4, <3>2, BusyInv
      <3>4. QED
        BY <1>9, <2>1, <2>2, <2>3, <3>2, <3>3, ClaimBusy
    <2>5. CASE worker' = [worker EXCEPT ![w].pc = "search",
                                        ![w].seen = requests[worker[w].key].attempt]
      <3>1. PICK n \in Nat : n = requests[k].attempt
        BY <2>1 DEF Request
      <3>2. PICK r : r = [worker[w] EXCEPT !.pc = "search", !.seen = n]
        OBVIOUS
      <3>3. /\ r.pc = "search" /\ r.key = worker[w].key /\ r.attempt = worker[w].attempt
            /\ r.seen = n
        BY <1>4, <3>2 DEF WorkerRec
      <3>4. worker' = [worker EXCEPT ![w] = r] /\ worker'[w] = r
        <4>1. worker' = [worker EXCEPT ![w] = [worker[w] EXCEPT
                           !.pc = "search", !.seen = requests[worker[w].key].attempt]]
          BY <2>5
        <4>2. worker' = [worker EXCEPT ![w] = r]
          BY <2>1, <3>1, <3>2, <4>1
        <4>3. QED
          BY <1>6, <4>2
      <3>5. worker[w].attempt <= n
        BY <1>2, <2>1, <2>2, <3>1 DEF WorkerInv
      <3>6. WorkerInv(w)'
        BY <1>2, <2>1, <2>2, <3>3, <3>4, <3>5, BusyInv
      <3>7. QED
        BY <1>9, <2>1, <2>2, <2>3, <3>3, <3>4, <3>6, ClaimBusy
    <2>6. QED
      BY <1>10, <2>4, <2>5 DEF GetSearchRequest
  <1>11. CASE ReplaceCandidates(w)
    <2>1. PICK k \in Keys : k = worker[w].key /\ Exists(k) /\ requests[k] \in Request
      BY <1>11, Busy DEF ReplaceCandidates
    <2>2. worker[w].pc = "search" /\ UNCHANGED <<store, claims>>
      BY <1>11 DEF ReplaceCandidates
    <2>3. CASE Fault /\ Go(w, "reschedule") /\ UNCHANGED requests
      <3>1. PICK r : r = Goes("reschedule")
        OBVIOUS
      <3>2. /\ r.pc = "reschedule" /\ r.key = worker[w].key
            /\ r.attempt = worker[w].attempt /\ r.seen = worker[w].seen
            /\ worker' = [worker EXCEPT ![w] = r] /\ worker'[w] = r
        BY <1>3, <1>5, <1>6, <1>7, <2>3, <3>1
      <3>3. worker[w].attempt <= worker[w].seen
        BY <1>2, <2>2 DEF WorkerInv
      <3>4. WorkerInv(w)'
        BY <1>2, <1>8, <2>1, <2>2, <2>3, <3>2, <3>3, BusyInv
      <3>5. requests'[k].status # "absent" /\ requests'[k].status = requests[k].status
            /\ requests'[k].attempt = requests[k].attempt
        BY <2>1, <2>3 DEF Exists
      <3>6. QED
        BY <1>9, <2>1, <2>2, <2>3, <3>2, <3>4, <3>5, ClaimBusy
    <2>4. CASE requests' = [requests EXCEPT ![worker[w].key].stored = TRUE] /\ Go(w, "mark")
      <3>1. PICK r : r = Goes("mark")
        OBVIOUS
      <3>2. /\ r.pc = "mark" /\ r.key = worker[w].key /\ r.attempt = worker[w].attempt
            /\ worker' = [worker EXCEPT ![w] = r] /\ worker'[w] = r
        BY <1>3, <1>5, <1>6, <1>7, <2>4, <3>1
      <3>3. /\ requests'[k] = [requests[k] EXCEPT !.stored = TRUE]
            /\ \A j \in Keys : j # k => requests'[j] = requests[j]
        BY <2>1, <2>4 DEF TypeOK
      <3>4. requests'[k].status # "absent" /\ requests'[k].status = requests[k].status
            /\ requests'[k].attempt = requests[k].attempt
        <4>1. [requests[k] EXCEPT !.stored = TRUE].status = requests[k].status
              /\ [requests[k] EXCEPT !.stored = TRUE].attempt = requests[k].attempt
          BY <2>1, RowFields
        <4>2. QED
          BY <2>1, <3>3, <4>1 DEF Exists
      <3>5. WorkerInv(w)'
        BY <1>2, <2>1, <2>2, <3>2, <3>4, BusyInv
      <3>6. QED
        BY <1>9, <2>1, <2>2, <3>2, <3>3, <3>4, <3>5, ClaimBusy
    <2>5. QED
      BY <1>11, <2>3, <2>4 DEF ReplaceCandidates
  <1>12. CASE MarkSucceeded(w)
    <2>1. PICK k \in Keys : k = worker[w].key /\ Exists(k) /\ requests[k] \in Request
      BY <1>12, Busy DEF MarkSucceeded
    <2>2. /\ worker[w].pc = "mark" /\ UNCHANGED <<store, claims>>
          /\ worker' = [worker EXCEPT ![w] = WorkerIdle] /\ worker'[w] = WorkerIdle
          /\ WorkerIdle.pc = "idle"
      BY <1>5, <1>6, <1>12, IdleRec DEF MarkSucceeded
    <2>3. PICK row : /\ row.status = "succeeded" /\ row.attempt = requests[k].attempt
                     /\ row.stored = requests[k].stored /\ Write(k, row)
      BY <1>12, <2>1, RowFields DEF MarkSucceeded
    <2>4. /\ \A j \in Keys : j # k => requests'[j] = requests[j]
          /\ requests'[k].attempt = requests[k].attempt
          /\ requests'[k].status # "absent"
          /\ requests'[k].status \in {requests[k].status, "succeeded"}
      BY <2>1, <2>3, WrittenFields
    <2>5. WorkerInv(w)'
      BY <1>2, <2>1, <2>2, <2>4, BusyInv
    <2>6. QED
      BY <1>9, <2>1, <2>2, <2>4, <2>5, ClaimBusy
  \* A verdict: the row is put back only by a worker that still owes that.
  <1>13. ASSUME NEW k \in Keys, k = worker[w].key, Exists(k), requests[k] \in Request,
                worker[w].pc \in {"reschedule", "again"}, UNCHANGED <<store, claims>>,
                NEW t \in BOOLEAN, Write(k, Rescheduled(requests[k], t)),
                NEW r, worker' = [worker EXCEPT ![w] = r],
                \/ r.pc = "idle"
                \/ r.pc = "again" /\ r.key = k /\ r.attempt = worker[w].attempt,
                ~t => \/ w \in Owing(k) /\ w \notin Owing(k)'
                      \/ w \in Ahead(k) /\ w \notin Ahead(k)'
         PROVE  ClaimInv'
    <2>1. PICK row : /\ row = Rescheduled(requests[k], t)
                     /\ row.status \in {"queued", "failed"}
                     /\ t => row.status = "failed"
                     /\ row.attempt = requests[k].attempt
                     /\ row.stored = requests[k].stored
      BY <1>13, RowFields
    <2>2. /\ \A j \in Keys : j # k => requests'[j] = requests[j]
          /\ requests'[k].attempt = requests[k].attempt
          /\ requests'[k].status # "absent"
          /\ requests'[k].status \in {requests[k].status, row.status}
      <3>1. Write(k, row) /\ row.status # "absent"
        <4>1. Write(k, row)
          BY <1>13, <2>1, Zenon
        <4>2. QED
          BY <2>1, <4>1
      <3>2. QED
        BY <1>13, <2>1, <3>1, WrittenFields
    <2>3. store = "postgres"
      BY <1>2, <1>13 DEF WorkerInv, TypeOK
    <2>4. worker'[w] = r /\ worker[w].pc # "idle"
      BY <1>6, <1>13
    <2>5. WorkerInv(w)'
      BY <1>2, <1>13, <2>2, <2>3, <2>4, BusyInv
    <2>6. \/ requests'[k].status \in {requests[k].status, "failed", "succeeded"}
          \/ /\ requests'[k].status = "queued" /\ store = "postgres"
             /\ \/ w \in Owing(k) /\ w \notin Owing(k)'
                \/ w \in Ahead(k) /\ w \notin Ahead(k)'
      <3>1. CASE t
        BY <2>1, <2>2, <3>1
      <3>2. CASE ~t
        <4>1. \/ w \in Owing(k) /\ w \notin Owing(k)'
              \/ w \in Ahead(k) /\ w \notin Ahead(k)'
          BY <1>13, <3>2
        <4>2. requests'[k].status \in {requests[k].status, "queued", "failed"}
          BY <2>1, <2>2
        <4>3. QED
          BY <2>3, <4>1, <4>2
      <3>3. QED
        BY <3>1, <3>2
    <2>7. r.pc \notin PutsBack \/
              /\ worker[w].pc \in PutsBack
              /\ r.key = worker[w].key /\ r.attempt = worker[w].attempt
              /\ r.pc # "again" => worker[w].pc # "again"
      BY <1>9, <1>13
    <2>8. QED
      BY <1>13, <2>2, <2>4, <2>5, <2>6, <2>7, ClaimBusy
  <1>14. CASE RescheduleRead(w)
    <2>1. PICK k \in Keys : k = worker[w].key /\ Exists(k) /\ requests[k] \in Request
      BY <1>14, Busy DEF RescheduleRead
    <2>2. (worker[w].seen >= MaxAttempts) \in BOOLEAN
      BY <1>4, Bounds
    <2>3. PICK t \in BOOLEAN : t = (worker[w].seen >= MaxAttempts)
      BY <2>2
    <2>4. PICK r : r = Goes("again")
      OBVIOUS
    <2>5. /\ r.pc = "again" /\ r.key = worker[w].key /\ r.attempt = worker[w].attempt
          /\ worker' = [worker EXCEPT ![w] = r] /\ worker'[w] = r
      BY <1>3, <1>5, <1>7, <1>14, <1>6, <2>4 DEF RescheduleRead
    <2>6. /\ worker[w].pc = "reschedule" /\ UNCHANGED <<store, claims>>
          /\ Write(k, Rescheduled(requests[k], t))
      BY <1>14, <2>1, <2>3 DEF RescheduleRead
    <2>7. worker[w].attempt <= worker[w].seen
      BY <1>2, <2>6 DEF WorkerInv
    <2>8. ASSUME ~t PROVE w \in Ahead(k) /\ w \notin Ahead(k)'
      <3>1. worker[w].attempt < MaxAttempts
        <4>1. ~(worker[w].seen >= MaxAttempts)
          BY <2>3, <2>8
        <4>2. QED
          BY <1>4, <2>7, <4>1, Bounds
      <3>2. w \in Ahead(k)
        BY <2>1, <2>6, <3>1 DEF Ahead, Owing
      <3>3. w \notin Ahead(k)'
        BY <2>5 DEF Ahead
      <3>4. QED
        BY <3>2, <3>3
    <2>9. QED
      BY <1>13, <2>1, <2>5, <2>6, <2>8
  <1>15. CASE RescheduleClaimed(w)
    <2>1. PICK k \in Keys : k = worker[w].key /\ Exists(k) /\ requests[k] \in Request
      BY <1>15, Busy DEF RescheduleClaimed
    <2>2. (worker[w].attempt >= MaxAttempts) \in BOOLEAN
      BY <1>4, Bounds
    <2>3. PICK t \in BOOLEAN : t = (worker[w].attempt >= MaxAttempts)
      BY <2>2
    <2>4. PICK r : r = WorkerIdle
      OBVIOUS
    <2>5. r.pc = "idle" /\ worker' = [worker EXCEPT ![w] = r] /\ worker'[w] = r
      BY <1>5, <1>6, <1>15, <2>4, IdleRec DEF RescheduleClaimed
    <2>6. /\ worker[w].pc = "again" /\ UNCHANGED <<store, claims>>
          /\ Write(k, Rescheduled(requests[k], t))
      BY <1>15, <2>1, <2>3 DEF RescheduleClaimed
    <2>8. ASSUME ~t PROVE w \in Owing(k) /\ w \notin Owing(k)'
      <3>1. worker[w].attempt < MaxAttempts
        <4>1. ~(worker[w].attempt >= MaxAttempts)
          BY <2>3, <2>8
        <4>2. QED
          BY <1>4, <4>1, Bounds
      <3>2. w \in Owing(k)
        BY <2>1, <2>6, <3>1 DEF Owing
      <3>3. w \notin Owing(k)'
        BY <2>5 DEF Owing
      <3>4. QED
        BY <3>2, <3>3
    <2>9. QED
      BY <1>13, <2>1, <2>5, <2>6, <2>8
  <1>16. QED
    BY <1>1, <1>10, <1>11, <1>12, <1>14, <1>15 DEF WorkerStep

LEMMA ClaimStep == TypeOK /\ TypeOK' /\ ClaimInv /\ [Next]_vars => ClaimInv'
  <1> SUFFICES ASSUME TypeOK, TypeOK', ClaimInv, [Next]_vars PROVE ClaimInv'
    OBVIOUS
  \* Rows created, and rows whose lease, backoff or nothing changes.
  <1>1. ASSUME NEW E, E \subseteq Keys, IsFiniteSet(E), CreateOrGet(E),
               UNCHANGED <<store, worker, claims>>
        PROVE  ClaimInv'
    <2>1. \A k \in Keys : \/ requests'[k] = requests[k]
                          \/ ~Exists(k) /\ requests'[k] = NewRequest
      BY <1>1, Created
    <2>2. QED
      BY <1>1, <2>1, ClaimRows
  <1>2. ASSUME NEW k \in Keys, EnqueueSearch(k) PROVE ClaimInv'
    <2>1. IsFiniteSet({k}) /\ {k} \subseteq Keys
      BY FS_Singleton
    <2>2. QED
      BY <1>1, <1>2, <2>1 DEF EnqueueSearch
  <1>3. ASSUME NEW k \in Keys, LeaseExpires(k) \/ BackoffElapses(k) PROVE ClaimInv'
    <2>1. Exists(k) /\ requests[k] \in Request
      <3>1. requests[k] \in Request /\ AbsentRequest.lease = "none"
        BY RowFields, RowTypes DEF TypeOK
      <3>2. requests[k].lease = "held" \/ requests[k].status = "queued"
        BY <1>3 DEF LeaseExpires, BackoffElapses
      <3>3. QED
        BY <3>1, <3>2 DEF ClaimInv, Exists
    <2>2. PICK row : /\ requests' = [requests EXCEPT ![k] = row]
                     /\ row.status = requests[k].status
                     /\ row.attempt = requests[k].attempt
      <3>1. CASE LeaseExpires(k)
        <4>1. requests' = [requests EXCEPT ![k] = [requests[k] EXCEPT !.lease = "expired"]]
          BY <3>1 DEF LeaseExpires
        <4>2. /\ [requests[k] EXCEPT !.lease = "expired"].status = requests[k].status
              /\ [requests[k] EXCEPT !.lease = "expired"].attempt = requests[k].attempt
          BY <2>1, RowFields
        <4>3. QED
          BY <4>1, <4>2
      <3>2. CASE BackoffElapses(k)
        <4>1. requests' = [requests EXCEPT ![k] = [requests[k] EXCEPT !.due = TRUE]]
          BY <3>2 DEF BackoffElapses
        <4>2. /\ [requests[k] EXCEPT !.due = TRUE].status = requests[k].status
              /\ [requests[k] EXCEPT !.due = TRUE].attempt = requests[k].attempt
          BY <2>1, RowFields
        <4>3. QED
          BY <4>1, <4>2
      <3>3. QED
        BY <1>3, <3>1, <3>2
    <2>3. \A j \in Keys : requests'[j] = IF j = k THEN row ELSE requests[j]
      BY <2>2, RowWritten
    <2>4. UNCHANGED <<store, worker, claims>>
      BY <1>3 DEF LeaseExpires, BackoffElapses
    <2>5. QED
      BY <2>1, <2>2, <2>3, <2>4, ClaimRows
  <1>4. ASSUME UNCHANGED <<store, requests, worker, claims>> PROVE ClaimInv'
    BY <1>4, ClaimRows
  <1>5. CASE EnqueueDueWanted
    <2>1. PICK key \in [Picked -> Keys] : CreateOrGet({key[e] : e \in Picked})
      BY <1>5 DEF EnqueueDueWanted
    <2>2. {key[e] : e \in Picked} \subseteq Keys /\ IsFiniteSet({key[e] : e \in Picked})
      BY PickedKeys
    <2>3. QED
      BY <1>1, <1>5, <2>1, <2>2 DEF EnqueueDueWanted
  <1>6. ASSUME NEW w \in Workers, WorkerStep(w) PROVE ClaimInv'
    BY <1>6, ClaimWorker
  <1>7. CASE RecoverExpired
    <2>1. /\ store = "memory" /\ UNCHANGED <<store, worker, claims>>
          /\ \A k \in Keys : requests'[k] = IF Expired(k) THEN Recovered(requests[k])
                                            ELSE requests[k]
      BY <1>7 DEF RecoverExpired
    <2>2. QED
      BY <2>1, ClaimRows DEF Expired
  <1>8. CASE Restart
    <2>1. /\ store = "postgres" /\ UNCHANGED <<store, requests, claims>>
          /\ \A w \in Workers : worker'[w] = WorkerIdle
      BY <1>8 DEF Restart, Lost, Fault
    <2>2. \A w \in Workers : worker'[w].pc = "idle"
      BY <2>1, IdleRec
    <2>3. \A w \in Workers : WorkerInv(w)'
      BY <2>1, <2>2 DEF WorkerInv
    <2>4. \A k : Owing(k)' \subseteq Owing(k) /\ Ahead(k)' \subseteq Ahead(k)
      BY <2>2 DEF Owing, Ahead
    <2>5. ASSUME NEW k \in Keys PROVE PostgresInv(k)'
      <3>1. PostgresInv(k)
        BY <2>1 DEF ClaimInv
      <3>2. QED
        BY <2>1, <2>4, <3>1, PaidDown
    <2>6. \A k \in Keys : ~Exists(k)' => requests'[k] = AbsentRequest /\ claims'[k] = 0
      BY <2>1 DEF ClaimInv, Exists
    <2>7. QED
      BY <2>1, <2>3, <2>5, <2>6 DEF ClaimInv
  <1>9. QED
    BY <1>2, <1>3, <1>4, <1>5, <1>6, <1>7, <1>8
    DEF Next, SetWanted, DeleteWanted, vars

LEMMA ClaimStart == Init => ClaimInv
  <1> SUFFICES ASSUME Init PROVE ClaimInv
    OBVIOUS
  <1>1. \A k \in Keys : requests[k] = AbsentRequest /\ claims[k] = 0
    BY DEF Init
  <1>2. AbsentRequest.status = "absent" /\ AbsentRequest.attempt = 0
    BY DEF AbsentRequest
  <1>3. \A w \in Workers : worker[w].pc = "idle"
    BY IdleRec DEF Init
  <1>4. \A k \in Keys : PostgresInv(k) /\ MemoryInv(k)
    BY <1>1, <1>2, Bounds DEF PostgresInv, MemoryInv
  <1>5. \A w \in Workers : WorkerInv(w)
    BY <1>3 DEF WorkerInv
  <1>6. QED
    BY <1>1, <1>4, <1>5 DEF ClaimInv

LEMMA ClaimBound == TypeOK /\ ClaimInv => ClaimsBounded
  <1> SUFFICES ASSUME TypeOK, ClaimInv, NEW k \in Keys
               PROVE  claims[k] <= IF store = "postgres"
                                   THEN MaxAttempts + 2 * (Cardinality(Workers) - 1)
                                   ELSE (MaxAttempts + 1) \div 2
    BY DEF ClaimsBounded
  <1>1. PICK c, n : c = claims[k] /\ n = Cardinality(Workers)
    OBVIOUS
  <1>2. c \in Nat /\ n \in Nat /\ n >= 1
    BY <1>1, Bounds DEF TypeOK
  <1>3. CASE store = "postgres"
    <2>1. PICK q, o, a : q = Queued(k) /\ o = Cardinality(Owing(k))
                         /\ a = Cardinality(Ahead(k))
      OBVIOUS
    <2>2. q \in Nat /\ o \in Nat /\ a \in Nat
      BY <2>1, OwingFinite DEF Queued
    <2>3. c >= MaxAttempts => c + q + o + a <= MaxAttempts + 2 * (n - 1)
      BY <1>1, <1>3, <2>1 DEF ClaimInv, PostgresInv
    <2>4. c <= MaxAttempts + 2 * (n - 1)
      BY <1>2, <2>2, <2>3, Bounds
    <2>5. QED
      BY <1>1, <1>3, <2>4
  <1>4. CASE store # "postgres"
    <2>1. 2 * c <= MaxAttempts + 1
      BY <1>1, <1>4 DEF ClaimInv, MemoryInv, TypeOK
    <2>2. c <= (MaxAttempts + 1) \div 2
      BY <1>2, <2>1, Bounds
    <2>3. QED
      BY <1>1, <1>4, <2>2
  <1>5. QED
    BY <1>3, <1>4

\* A request is searched a bounded number of times, however its workers,
\* lost writes, expired leases and restarts interleave: in Postgres every
\* claim beyond MaxAttempts uses up a verdict that another worker still owed,
\* and in memory every claim but the first finds two attempts counted.
THEOREM ClaimsBoundedHolds == Spec => []ClaimsBounded
  <1>1. Init => TypeOK /\ ClaimInv
    BY InitTyped, ClaimStart
  <1>2. TypeOK /\ ClaimInv /\ [Next]_vars => (TypeOK /\ ClaimInv)'
    BY StepTyped, ClaimStep
  <1>3. TypeOK /\ ClaimInv => ClaimsBounded
    BY ClaimBound
  <1>4. QED
    BY <1>1, <1>2, <1>3, PTL DEF Spec

-----------------------------------------------------------------------------
(* A success lasts.                                                        *)

\* What SuccessLasts says of one request.
SuccessKept(k) ==
    /\ requests'[k].status = "succeeded" => requests'[k].stored
    /\ requests[k].status = "succeeded" /\ requests'[k].status # "succeeded"
       => \E w \in Workers : /\ worker[w].key = k
                             /\ worker[w].pc \in {"reschedule", "again"}

\* Rows keep their candidates, and workers that come to store the outcome have
\* stored theirs.
LEMMA StoredKept ==
    ASSUME TypeOK, StoredInv,
           \A k \in Keys :
              /\ SuccessKept(k)
              /\ Exists(k) /\ requests[k].stored => requests'[k].stored,
           \A w \in Workers :
              worker'[w].pc = "mark" =>
                 \/ worker'[w] = worker[w]
                 \/ requests'[worker'[w].key].stored
    PROVE  StoredInv'
  <1>1. ASSUME NEW w \in Workers, worker'[w].pc = "mark"
        PROVE  requests'[worker'[w].key].stored
    <2>1. CASE worker'[w] = worker[w]
      <3>1. PICK k \in Keys : k = worker[w].key /\ Exists(k)
        BY <1>1, <2>1, Busy
      <3>2. requests[k].stored
        BY <1>1, <2>1, <3>1 DEF StoredInv
      <3>3. requests'[k].stored
        BY <3>1, <3>2
      <3>4. QED
        BY <2>1, <3>1, <3>3
    <2>2. QED
      BY <1>1, <2>1
  <1>2. QED
    BY <1>1 DEF StoredInv, SuccessKept

\* A row that is the same, new, or keeps its candidates without a success
\* coming or going.
LEMMA StoredRow ==
    ASSUME TypeOK, StoredInv, NEW k \in Keys,
           \/ requests'[k] = requests[k]
           \/ ~Exists(k) /\ requests'[k] = NewRequest
           \/ /\ requests'[k].stored = requests[k].stored
              /\ \/ requests'[k].status = requests[k].status
                 \/ requests[k].status # "succeeded" /\ requests'[k].status # "succeeded"
    PROVE  /\ SuccessKept(k)
           /\ Exists(k) /\ requests[k].stored => requests'[k].stored
  <1>1. NewRequest.status = "queued"
    BY DEF NewRequest, AbsentRequest
  <1>2. CASE requests'[k] = requests[k]
    BY <1>2 DEF StoredInv, SuccessKept
  <1>3. CASE ~Exists(k) /\ requests'[k] = NewRequest
    BY <1>1, <1>3 DEF Exists, SuccessKept
  <1>4. CASE /\ requests'[k].stored = requests[k].stored
             /\ \/ requests'[k].status = requests[k].status
                \/ requests[k].status # "succeeded" /\ requests'[k].status # "succeeded"
    BY <1>4 DEF StoredInv, SuccessKept
  <1>5. QED
    BY <1>2, <1>3, <1>4

LEMMA StoredWorker ==
    ASSUME TypeOK, StoredInv, NEW w \in Workers, WorkerStep(w)
    PROVE  StoredInv' /\ \A k \in Keys : SuccessKept(k)
  <1>1. \A v \in Workers : v # w => worker'[v] = worker[v]
    BY DEF WorkerStep, TryLockNext, GetSearchRequest, ReplaceCandidates, MarkSucceeded,
           RescheduleRead, RescheduleClaimed, Go, Rest, TypeOK
  <1>2. ASSUME \A k \in Keys :
                  /\ SuccessKept(k)
                  /\ Exists(k) /\ requests[k].stored => requests'[k].stored,
               worker'[w].pc = "mark" => requests'[worker'[w].key].stored
        PROVE  StoredInv' /\ \A k \in Keys : SuccessKept(k)
    <2>1. \A v \in Workers : worker'[v].pc = "mark" =>
                 \/ worker'[v] = worker[v]
                 \/ requests'[worker'[v].key].stored
      BY <1>1, <1>2
    <2>2. QED
      BY <1>2, <2>1, StoredKept
  <1>3. ASSUME NEW p \in WorkerPC, Go(w, p)
        PROVE  worker'[w].pc = p /\ worker'[w].key = worker[w].key
    <2>1. worker'[w] = [worker[w] EXCEPT !.pc = p]
      BY <1>3 DEF Go, TypeOK
    <2>2. /\ [worker[w] EXCEPT !.pc = p].pc = p
          /\ [worker[w] EXCEPT !.pc = p].key = worker[w].key
      BY Moved
    <2>3. QED
      BY <2>1, <2>2
  <1>4. Rest(w) => worker'[w].pc = "idle"
    <2>1. Rest(w) => worker'[w] = WorkerIdle
      BY DEF Rest, TypeOK
    <2>2. QED
      BY <2>1, IdleRec
  <1>5. {"search", "mark", "reschedule", "again"} \subseteq WorkerPC
    BY DEF WorkerPC
  \* The rows stay as they are, and the worker does not come to "mark".
  <1>6. ASSUME UNCHANGED requests, worker'[w].pc # "mark"
        PROVE  StoredInv' /\ \A k \in Keys : SuccessKept(k)
    <2>1. \A k \in Keys : requests'[k] = requests[k]
      BY <1>6
    <2>2. QED
      BY <1>2, <1>6, <2>1, StoredRow
  <1>7. ASSUME NEW i \in DOMAIN table, TryLockNext(w, i)
        PROVE  StoredInv' /\ \A k \in Keys : SuccessKept(k)
    <2>1. PICK k \in Keys : k = table[i]
      BY DEF TypeOK
    <2>2. /\ worker[w].pc = "idle" /\ requests[k].status = "queued"
          /\ requests' = [requests EXCEPT ![k] = Claimed(requests[k])]
      BY <1>7, <2>1 DEF TryLockNext, Claimable
    <2>3. worker'[w].pc # "mark"
      <3>1. worker'[w].pc = "read" \/ worker'[w] = worker[w]
        BY <1>7 DEF TryLockNext, TypeOK
      <3>2. QED
        BY <2>2, <3>1
    <2>4. requests[k] \in Request
      BY DEF TypeOK
    <2>5. \A j \in Keys : \/ requests'[j] = requests[j]
                          \/ /\ requests'[j].stored = requests[j].stored
                             /\ requests[j].status # "succeeded"
                             /\ requests'[j].status # "succeeded"
      <3>1. \A j \in Keys : requests'[j] = IF j = k THEN Claimed(requests[k])
                                           ELSE requests[j]
        BY <2>2 DEF TypeOK
      <3>2. Claimed(requests[k]).status = "running"
            /\ Claimed(requests[k]).stored = requests[k].stored
        BY <2>4, RowFields
      <3>3. QED
        BY <2>2, <3>1, <3>2
    <2>6. QED
      BY <1>2, <2>3, <2>5, StoredRow
  <1>8. CASE GetSearchRequest(w)
    <2>1. UNCHANGED requests
      BY <1>8 DEF GetSearchRequest
    <2>2. worker'[w].pc # "mark"
      <3>1. CASE worker' = [worker EXCEPT ![w].pc = "search",
                                          ![w].seen = requests[worker[w].key].attempt]
        <4>1. PICK n : n = requests[worker[w].key].attempt
          OBVIOUS
        <4>2. worker'[w] = [worker[w] EXCEPT !.pc = "search", !.seen = n]
          BY <3>1, <4>1 DEF TypeOK
        <4>3. worker[w] \in WorkerRec
          BY Busy
        <4>4. [worker[w] EXCEPT !.pc = "search", !.seen = n].pc = "search"
          BY <4>3 DEF WorkerRec
        <4>5. QED
          BY <4>2, <4>4
      <3>2. QED
        BY <1>3, <1>5, <1>8, <3>1 DEF GetSearchRequest
    <2>3. QED
      BY <1>6, <2>1, <2>2
  <1>9. CASE ReplaceCandidates(w)
    <2>1. PICK k \in Keys : k = worker[w].key /\ Exists(k) /\ requests[k] \in Request
      BY <1>9, Busy DEF ReplaceCandidates
    <2>2. CASE Go(w, "reschedule") /\ UNCHANGED requests
      BY <1>3, <1>5, <1>6, <2>2
    <2>3. CASE requests' = [requests EXCEPT ![worker[w].key].stored = TRUE] /\ Go(w, "mark")
      <3>1. /\ requests'[k] = [requests[k] EXCEPT !.stored = TRUE]
            /\ \A j \in Keys : j # k => requests'[j] = requests[j]
        BY <2>1, <2>3 DEF TypeOK
      <3>2. requests'[k].status = requests[k].status /\ requests'[k].stored
        BY <2>1, <3>1, RowFields
      <3>3. ASSUME NEW j \in Keys
            PROVE  /\ SuccessKept(j)
                   /\ Exists(j) /\ requests[j].stored => requests'[j].stored
        <4>1. CASE j = k
          BY <3>2, <4>1 DEF SuccessKept
        <4>2. CASE j # k
          BY <3>1, <4>2, StoredRow
        <4>3. QED
          BY <4>1, <4>2
      <3>4. requests'[worker'[w].key].stored
        BY <1>3, <1>5, <2>1, <2>3, <3>2
      <3>5. QED
        BY <1>2, <3>3, <3>4
    <2>4. QED
      BY <1>9, <2>2, <2>3 DEF ReplaceCandidates
  <1>10. ASSUME NEW k \in Keys, k = worker[w].key, Exists(k), NEW row, Write(k, row),
                row.attempt = requests[k].attempt, row.status # "absent",
                row.stored = requests[k].stored,
                row.status = "succeeded" => requests[k].stored,
                row.status # "succeeded" => worker[w].pc \in {"reschedule", "again"},
                worker'[w].pc # "mark"
         PROVE  StoredInv' /\ \A j \in Keys : SuccessKept(j)
    <2>1. /\ \A j \in Keys : j # k => requests'[j] = requests[j]
          /\ requests'[k].stored = requests[k].stored
          /\ UNCHANGED requests \/ requests'[k] = row
      BY <1>10, WrittenFields
    <2>2. CASE UNCHANGED requests
      BY <1>6, <1>10, <2>2
    <2>3. CASE requests'[k] = row
      <3>1. ASSUME NEW j \in Keys
            PROVE  /\ SuccessKept(j)
                   /\ Exists(j) /\ requests[j].stored => requests'[j].stored
        <4>1. CASE j = k
          BY <1>10, <2>1, <2>3, <4>1 DEF SuccessKept
        <4>2. CASE j # k
          BY <2>1, <4>2, StoredRow
        <4>3. QED
          BY <4>1, <4>2
      <3>2. QED
        BY <1>2, <1>10, <3>1
    <2>4. QED
      BY <2>1, <2>2, <2>3
  <1>11. CASE MarkSucceeded(w)
    <2>1. PICK k \in Keys : k = worker[w].key /\ Exists(k) /\ requests[k] \in Request
      BY <1>11, Busy DEF MarkSucceeded
    <2>2. requests[k].stored
      BY <1>11, <2>1 DEF MarkSucceeded, StoredInv
    <2>3. PICK row : /\ row.status = "succeeded" /\ row.attempt = requests[k].attempt
                     /\ row.stored = requests[k].stored /\ Write(k, row)
      BY <1>11, <2>1, RowFields DEF MarkSucceeded
    <2>4. worker'[w].pc # "mark"
      BY <1>4, <1>11 DEF MarkSucceeded
    <2>5. QED
      BY <1>10, <2>1, <2>2, <2>3, <2>4
  <1>12. CASE RescheduleRead(w) \/ RescheduleClaimed(w)
    <2>1. PICK k \in Keys : k = worker[w].key /\ Exists(k) /\ requests[k] \in Request
      BY <1>12, Busy DEF RescheduleRead, RescheduleClaimed
    <2>2. worker[w].seen \in Nat /\ worker[w].attempt \in Nat
      BY Busy
    <2>3. PICK t \in BOOLEAN : Write(k, Rescheduled(requests[k], t))
      <3>1. (worker[w].seen >= MaxAttempts) \in BOOLEAN
            /\ (worker[w].attempt >= MaxAttempts) \in BOOLEAN
        BY <2>2, Bounds
      <3>2. \/ Write(k, Rescheduled(requests[k], worker[w].seen >= MaxAttempts))
            \/ Write(k, Rescheduled(requests[k], worker[w].attempt >= MaxAttempts))
        BY <1>12, <2>1 DEF RescheduleRead, RescheduleClaimed
      <3>3. QED
        BY <3>1, <3>2, Zenon
    <2>4. PICK row : /\ row = Rescheduled(requests[k], t)
                     /\ row.status \in {"queued", "failed"}
                     /\ row.attempt = requests[k].attempt
                     /\ row.stored = requests[k].stored
      BY <2>1, RowFields
    <2>5. Write(k, row)
      BY <2>3, <2>4, Zenon
    <2>6. worker'[w].pc # "mark" /\ worker[w].pc \in {"reschedule", "again"}
      BY <1>3, <1>4, <1>5, <1>12 DEF RescheduleRead, RescheduleClaimed
    <2>7. QED
      BY <1>10, <2>1, <2>4, <2>5, <2>6
  <1>13. QED
    BY <1>7, <1>8, <1>9, <1>11, <1>12 DEF WorkerStep

LEMMA StoredStep ==
    TypeOK /\ StoredInv /\ [Next]_vars => StoredInv' /\ \A k \in Keys : SuccessKept(k)
  <1> SUFFICES ASSUME TypeOK, StoredInv, [Next]_vars
               PROVE  StoredInv' /\ \A k \in Keys : SuccessKept(k)
    OBVIOUS
  <1>1. ASSUME \A k \in Keys :
                  \/ requests'[k] = requests[k]
                  \/ ~Exists(k) /\ requests'[k] = NewRequest
                  \/ /\ requests'[k].stored = requests[k].stored
                     /\ \/ requests'[k].status = requests[k].status
                        \/ /\ requests[k].status # "succeeded"
                           /\ requests'[k].status # "succeeded",
               \A w \in Workers : worker'[w] \in {worker[w], WorkerIdle}
        PROVE  StoredInv' /\ \A k \in Keys : SuccessKept(k)
    <2>1. \A w \in Workers : worker'[w].pc = "mark" => worker'[w] = worker[w]
      BY <1>1, IdleRec
    <2>2. QED
      BY <1>1, <2>1, StoredRow, StoredKept
  <1>2. ASSUME NEW E, E \subseteq Keys, IsFiniteSet(E), CreateOrGet(E), UNCHANGED worker
        PROVE  StoredInv' /\ \A k \in Keys : SuccessKept(k)
    <2>1. \A k \in Keys : \/ requests'[k] = requests[k]
                          \/ ~Exists(k) /\ requests'[k] = NewRequest
      <3>1. \A k \in Keys : requests'[k] = IF k \in E /\ ~Exists(k) THEN NewRequest
                                           ELSE requests[k]
        BY <1>2, Created
      <3>2. QED
        BY <3>1
    <2>2. QED
      BY <1>1, <1>2, <2>1
  <1>3. ASSUME NEW k \in Keys, EnqueueSearch(k)
        PROVE  StoredInv' /\ \A j \in Keys : SuccessKept(j)
    <2>1. IsFiniteSet({k}) /\ {k} \subseteq Keys
      BY FS_Singleton
    <2>2. QED
      BY <1>2, <1>3, <2>1 DEF EnqueueSearch
  <1>4. ASSUME NEW k \in Keys, LeaseExpires(k) \/ BackoffElapses(k)
        PROVE  StoredInv' /\ \A j \in Keys : SuccessKept(j)
    <2>1. requests[k] \in Request
      BY DEF TypeOK
    <2>2. PICK row : /\ requests' = [requests EXCEPT ![k] = row]
                     /\ row.status = requests[k].status
                     /\ row.stored = requests[k].stored
      <3>1. CASE LeaseExpires(k)
        <4>1. requests' = [requests EXCEPT ![k] = [requests[k] EXCEPT !.lease = "expired"]]
          BY <3>1 DEF LeaseExpires
        <4>2. /\ [requests[k] EXCEPT !.lease = "expired"].status = requests[k].status
              /\ [requests[k] EXCEPT !.lease = "expired"].stored = requests[k].stored
          BY <2>1, RowFields
        <4>3. QED
          BY <4>1, <4>2
      <3>2. CASE BackoffElapses(k)
        <4>1. requests' = [requests EXCEPT ![k] = [requests[k] EXCEPT !.due = TRUE]]
          BY <3>2 DEF BackoffElapses
        <4>2. /\ [requests[k] EXCEPT !.due = TRUE].status = requests[k].status
              /\ [requests[k] EXCEPT !.due = TRUE].stored = requests[k].stored
          BY <2>1, RowFields
        <4>3. QED
          BY <4>1, <4>2
      <3>3. QED
        BY <1>4, <3>1, <3>2
    <2>3. \A j \in Keys : requests'[j] = IF j = k THEN row ELSE requests[j]
      BY <2>2, RowWritten
    <2>4. UNCHANGED worker
      BY <1>4 DEF LeaseExpires, BackoffElapses
    <2>5. QED
      BY <1>1, <2>2, <2>3, <2>4
  <1>5. ASSUME UNCHANGED <<requests, worker>>
        PROVE  StoredInv' /\ \A k \in Keys : SuccessKept(k)
    BY <1>1, <1>5
  <1>6. CASE EnqueueDueWanted
    <2>1. PICK key \in [Picked -> Keys] : CreateOrGet({key[e] : e \in Picked})
      BY <1>6 DEF EnqueueDueWanted
    <2>2. {key[e] : e \in Picked} \subseteq Keys /\ IsFiniteSet({key[e] : e \in Picked})
      BY PickedKeys
    <2>3. QED
      BY <1>2, <1>6, <2>1, <2>2 DEF EnqueueDueWanted
  <1>7. CASE RecoverExpired
    <2>1. \A k \in Keys : requests'[k] = IF Expired(k) THEN Recovered(requests[k])
                                         ELSE requests[k]
      BY <1>7 DEF RecoverExpired
    <2>2. \A k \in Keys : /\ Recovered(requests[k]).status \in {"queued", "failed"}
                          /\ Recovered(requests[k]).stored = requests[k].stored
      BY RowFields DEF TypeOK
    <2>3. \A k \in Keys : \/ requests'[k] = requests[k]
                          \/ /\ requests'[k].stored = requests[k].stored
                             /\ requests[k].status # "succeeded"
                             /\ requests'[k].status # "succeeded"
      BY <2>1, <2>2 DEF Expired
    <2>4. UNCHANGED worker
      BY <1>7 DEF RecoverExpired
    <2>5. QED
      BY <1>1, <2>3, <2>4
  <1>8. CASE Restart
    BY <1>1, <1>8 DEF Restart
  <1>9. QED
    BY <1>3, <1>4, <1>5, <1>6, <1>7, <1>8, StoredWorker
    DEF Next, SetWanted, DeleteWanted, vars

\* A request said to have succeeded has its candidates, whichever worker said
\* so, and only a worker that still owes it the outcome of a failed search of
\* its own takes that back.
THEOREM SuccessLastsHolds == Spec => SuccessLasts
  <1>1. Init => TypeOK /\ StoredInv
    <2>1. Init => StoredInv
      <3>1. AbsentRequest.status = "absent"
        BY DEF AbsentRequest
      <3>2. QED
        BY <3>1, IdleRec DEF Init, StoredInv
    <2>2. QED
      BY <2>1, InitTyped
  <1>2. TypeOK /\ StoredInv /\ [Next]_vars => (TypeOK /\ StoredInv)'
    BY StepTyped, StoredStep
  <1>3. TypeOK /\ StoredInv /\ [Next]_vars => [\A k \in Keys : SuccessKept(k)]_vars
    BY StoredStep
  <1>4. [\A k \in Keys : SuccessKept(k)]_vars =>
           [\A k \in Keys :
              /\ requests'[k].status = "succeeded" => requests'[k].stored
              /\ requests[k].status = "succeeded" /\ requests'[k].status # "succeeded"
                 => \E w \in Workers : /\ worker[w].key = k
                                       /\ worker[w].pc \in {"reschedule", "again"}]_vars
    BY DEF SuccessKept
  <1>5. QED
    BY <1>1, <1>2, <1>3, <1>4, PTL DEF Spec, SuccessLasts
=============================================================================
