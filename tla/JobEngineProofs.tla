------------------------- MODULE JobEngineProofs -------------------------
(***************************************************************************)
(* Proofs about the job engine.  TypeOK is inductive by itself (its part   *)
(* about the line is what makes a claim safe); HoldersBounded is inductive *)
(* with it.  AttemptsBounded needs AttemptsInv: every run that may still   *)
(* bring its job back has been paid for by a retry.  At the end, what is   *)
(* proved of the engine holds of one in a supervised backend.              *)
(***************************************************************************)
EXTENDS Supervision, TLAPS, SequenceTheorems, FiniteSetTheorems

-----------------------------------------------------------------------------
(* Sequences.                                                              *)

LEMMA RemoveOne ==
    ASSUME NEW S, NEW s \in Seq(S), NEW i \in 1 .. Len(s)
    PROVE  /\ RemoveAt(s, i) \in Seq(S)
           /\ Len(RemoveAt(s, i)) = Len(s) - 1
           /\ \A k \in 1 .. Len(s) - 1 :
                RemoveAt(s, i)[k] = IF k < i THEN s[k] ELSE s[k + 1]
  <1> DEFINE a == SubSeq(s, 1, i - 1)
             b == SubSeq(s, i + 1, Len(s))
  <1>1. /\ a \in Seq(S) /\ Len(a) = i - 1
        /\ \A k \in 1 .. i - 1 : a[k] = s[k]
    BY SubSeqProperties
  <1>2. /\ b \in Seq(S) /\ Len(b) = Len(s) - i
        /\ \A k \in 1 .. Len(s) - i : b[k] = s[i + k]
    BY SubSeqProperties
  <1> HIDE DEF a, b
  <1>3. /\ a \o b \in Seq(S) /\ Len(a \o b) = Len(s) - 1
        /\ \A k \in 1 .. Len(s) - 1 :
              (a \o b)[k] = IF k <= Len(a) THEN a[k] ELSE b[k - Len(a)]
    <2>1. Len(a) + Len(b) = Len(s) - 1
      BY <1>1, <1>2
    <2>2. /\ a \o b \in Seq(S) /\ Len(a \o b) = Len(a) + Len(b)
          /\ \A k \in 1 .. Len(a) + Len(b) :
                (a \o b)[k] = IF k <= Len(a) THEN a[k] ELSE b[k - Len(a)]
      BY <1>1, <1>2, ConcatProperties, Zenon
    <2>3. QED
      BY <2>1, <2>2, Zenon
  <1>4. ASSUME NEW k \in 1 .. Len(s) - 1
        PROVE  (a \o b)[k] = IF k < i THEN s[k] ELSE s[k + 1]
    <2>1. CASE k < i
      BY <1>1, <1>3, <2>1
    <2>2. CASE k >= i
      <3>1. k - Len(a) \in 1 .. Len(s) - i /\ i + (k - Len(a)) = k + 1
        BY <1>1, <2>2
      <3>2. (a \o b)[k] = b[k - Len(a)]
        BY <1>1, <1>3, <2>2
      <3>3. b[k - Len(a)] = s[i + (k - Len(a))]
        BY <1>2, <3>1
      <3>4. QED
        BY <2>2, <3>1, <3>2, <3>3
    <2>3. k < i \/ k >= i
      OBVIOUS
    <2>4. QED
      BY <2>1, <2>2, <2>3, Zenon
  <1>5. QED
    BY <1>3, <1>4 DEF RemoveAt, a, b

LEMMA InsertOne ==
    ASSUME NEW S, NEW s \in Seq(S), NEW i \in 1 .. Len(s) + 1, NEW e \in S
    PROVE  /\ InsertAt(s, i, e) \in Seq(S)
           /\ Len(InsertAt(s, i, e)) = Len(s) + 1
           /\ \A k \in 1 .. Len(s) + 1 :
                InsertAt(s, i, e)[k] = IF k < i THEN s[k]
                                       ELSE IF k = i THEN e ELSE s[k - 1]
  <1> DEFINE a == SubSeq(s, 1, i - 1)
             b == SubSeq(s, i, Len(s))
             c == a \o <<e>>
  <1>1. /\ a \in Seq(S) /\ Len(a) = i - 1
        /\ \A k \in 1 .. i - 1 : a[k] = s[k]
    BY SubSeqProperties
  <1>2. /\ b \in Seq(S) /\ Len(b) = Len(s) - i + 1
        /\ \A k \in 1 .. Len(s) - i + 1 : b[k] = s[i + k - 1]
    BY SubSeqProperties
  <1> HIDE DEF a, b
  <1>3. /\ c \in Seq(S) /\ Len(c) = i
        /\ \A k \in 1 .. i : c[k] = IF k < i THEN s[k] ELSE e
    BY <1>1
  <1> HIDE DEF c
  <1>4. /\ c \o b \in Seq(S) /\ Len(c \o b) = Len(s) + 1
        /\ \A k \in 1 .. Len(s) + 1 :
              (c \o b)[k] = IF k <= Len(c) THEN c[k] ELSE b[k - Len(c)]
    BY <1>2, <1>3, ConcatProperties
  <1>5. ASSUME NEW k \in 1 .. Len(s) + 1
        PROVE  (c \o b)[k] = IF k < i THEN s[k]
                             ELSE IF k = i THEN e ELSE s[k - 1]
    <2>1. CASE k <= i
      BY <1>3, <1>4, <2>1
    <2>2. CASE k > i
      <3>1. k - Len(c) \in 1 .. Len(s) - i + 1 /\ i + (k - Len(c)) - 1 = k - 1
        BY <1>3, <2>2
      <3>2. (c \o b)[k] = b[k - Len(c)]
        BY <1>3, <1>4, <2>2
      <3>3. b[k - Len(c)] = s[i + (k - Len(c)) - 1]
        BY <1>2, <3>1
      <3>4. QED
        BY <2>2, <3>1, <3>2, <3>3
    <2>3. k <= i \/ k > i
      OBVIOUS
    <2>4. QED
      BY <2>1, <2>2, <2>3, Zenon
  <1>6. QED
    BY <1>4, <1>5 DEF InsertAt, a, b, c

LEMMA SeqMono ==
    ASSUME NEW A, NEW B, NEW s \in Seq(A), \A i \in 1 .. Len(s) : s[i] \in B
    PROVE  s \in Seq(B)
  BY SeqDef, LenProperties

-----------------------------------------------------------------------------
(* Lines: sequences in which nothing stands twice.                         *)

Line(s) == \A i, k \in DOMAIN s : s[i] = s[k] => i = k

LEMMA LineAppend ==
    ASSUME NEW W, NEW s \in Seq(W), Line(s), NEW V, W \subseteq V, NEW e \in V,
           \A i \in 1 .. Len(s) : s[i] # e
    PROVE  Append(s, e) \in Seq(V) /\ Line(Append(s, e))
  <1>1. s \in Seq(V)
    BY SeqMono
  <1>2. /\ Append(s, e) \in Seq(V) /\ Len(Append(s, e)) = Len(s) + 1
        /\ DOMAIN Append(s, e) = 1 .. Len(s) + 1
        /\ Append(s, e)[Len(s) + 1] = e
        /\ \A i \in 1 .. Len(s) : Append(s, e)[i] = s[i]
    BY <1>1
  <1>3. Line(Append(s, e))
    <2>1. DOMAIN s = 1 .. Len(s)
      OBVIOUS
    <2>2. QED
      BY <1>2, <2>1 DEF Line
  <1>4. QED
    BY <1>2, <1>3

LEMMA LineInsert ==
    ASSUME NEW W, NEW s \in Seq(W), Line(s), NEW V, W \subseteq V, NEW e \in V,
           NEW p \in 1 .. Len(s) + 1, \A i \in 1 .. Len(s) : s[i] # e
    PROVE  InsertAt(s, p, e) \in Seq(V) /\ Line(InsertAt(s, p, e))
  <1>1. s \in Seq(V)
    BY SeqMono
  <1> DEFINE t == InsertAt(s, p, e)
  <1>2. /\ t \in Seq(V) /\ Len(t) = Len(s) + 1
        /\ \A k \in 1 .. Len(s) + 1 :
              t[k] = IF k < p THEN s[k] ELSE IF k = p THEN e ELSE s[k - 1]
    BY <1>1, InsertOne
  <1> HIDE DEF t
  <1>3. DOMAIN t = 1 .. Len(s) + 1 /\ DOMAIN s = 1 .. Len(s)
    BY <1>2
  <1>4. ASSUME NEW i \in DOMAIN t, NEW k \in DOMAIN t, t[i] = t[k]
        PROVE  i = k
    <2> DEFINE f(n) == IF n < p THEN n ELSE n - 1
    <2>1. i \in 1 .. Len(s) + 1 /\ k \in 1 .. Len(s) + 1
      BY <1>3
    <2>2. \A n \in 1 .. Len(s) + 1 : n # p =>
              f(n) \in DOMAIN s /\ t[n] = s[f(n)] /\ t[n] # e
      BY <1>2, <1>3
    <2>3. t[p] = e
      BY <1>2
    <2>4. CASE i = p \/ k = p
      BY <1>4, <2>1, <2>2, <2>3, <2>4
    <2>5. CASE i # p /\ k # p
      <3>1. f(i) = f(k)
        <4> HIDE DEF f
        <4>1. QED
          BY <1>4, <2>1, <2>2, <2>5 DEF Line
      <3>2. QED
        BY <2>1, <2>5, <3>1
    <2>6. QED
      BY <2>4, <2>5
  <1>5. QED
    BY <1>2, <1>4 DEF Line, t

LEMMA LineRemove ==
    ASSUME NEW W, NEW s \in Seq(W), Line(s), NEW p \in 1 .. Len(s)
    PROVE  RemoveAt(s, p) \in Seq(W \ {s[p]}) /\ Line(RemoveAt(s, p))
  <1> DEFINE t == RemoveAt(s, p)
  <1>1. /\ t \in Seq(W) /\ Len(t) = Len(s) - 1
        /\ \A k \in 1 .. Len(s) - 1 : t[k] = IF k < p THEN s[k] ELSE s[k + 1]
    BY RemoveOne
  <1> HIDE DEF t
  <1>2. DOMAIN t = 1 .. Len(s) - 1 /\ DOMAIN s = 1 .. Len(s)
    BY <1>1
  <1>3. ASSUME NEW k \in 1 .. Len(s) - 1
        PROVE  t[k] \in W \ {s[p]}
    BY <1>1, <1>2, SMTT(40) DEF Line
  <1>4. ASSUME NEW i \in DOMAIN t, NEW k \in DOMAIN t, t[i] = t[k]
        PROVE  i = k
    <2> DEFINE f(n) == IF n < p THEN n ELSE n + 1
    <2>1. i \in Int /\ k \in Int /\ f(i) \in DOMAIN s /\ f(k) \in DOMAIN s
      BY <1>2
    <2>2. t[i] = s[f(i)] /\ t[k] = s[f(k)]
      BY <1>1, <1>2
    <2>3. f(i) = f(k)
      <3> HIDE DEF f
      <3>1. QED
        BY <1>4, <2>1, <2>2 DEF Line
    <2>4. QED
      BY <2>1, <2>3
  <1>5. t \in Seq(W \ {s[p]})
    BY <1>1, <1>3, SeqMono
  <1>6. QED
    BY <1>4, <1>5 DEF Line, t

LEMMA LineTail ==
    ASSUME NEW W, NEW s \in Seq(W), Line(s), s # <<>>
    PROVE  /\ Head(s) \in W
           /\ Tail(s) \in Seq(W \ {Head(s)}) /\ Line(Tail(s))
  <1>1. /\ Len(s) \in Nat /\ Len(s) > 0 /\ Head(s) = s[1] /\ Head(s) \in W
        /\ Tail(s) \in Seq(W) /\ Len(Tail(s)) = Len(s) - 1
        /\ \A k \in 1 .. Len(s) - 1 : Tail(s)[k] = s[k + 1]
        /\ DOMAIN Tail(s) = 1 .. Len(s) - 1 /\ DOMAIN s = 1 .. Len(s)
    BY HeadTailProperties
  <1>2. ASSUME NEW k \in 1 .. Len(s) - 1
        PROVE  Tail(s)[k] \in W \ {Head(s)}
    BY <1>1 DEF Line
  <1>3. ASSUME NEW i \in DOMAIN Tail(s), NEW k \in DOMAIN Tail(s),
               Tail(s)[i] = Tail(s)[k]
        PROVE  i = k
    BY <1>1, <1>3 DEF Line
  <1>4. Tail(s) \in Seq(W \ {Head(s)})
    BY <1>1, <1>2, SeqMono
  <1>5. QED
    BY <1>1, <1>3, <1>4 DEF Line

-----------------------------------------------------------------------------
(* What the operations write.                                              *)

USE DEF engine

\* One job has changed, to the given state, attempt and history.
Wrote(j, state, attempt, retries, stopped, late) ==
    /\ jobs' \in Seq(Job) /\ Len(jobs') = Len(jobs) /\ Ids' = Ids
    /\ jobs'[j].state = state /\ jobs'[j].attempt = attempt
    /\ jobs'[j].retries = retries /\ jobs'[j].stopped = stopped
    /\ jobs'[j].late = late
    /\ jobs'[j].max = jobs[j].max
    /\ \A k \in Ids \ {j} : jobs'[k] = jobs[k]

LEMMA Bounds == MaxJobs \in Nat /\ DefaultMax \in Nat \ {0} /\ MaxOps \in Nat
                /\ Asked \subseteq Nat /\ IsFiniteSet(Workers)
  BY EngineAssumption

LEMMA IdsAre == TypeOK => Ids = 1 .. Len(jobs) /\ Len(jobs) \in Nat
  BY DEF TypeOK, Ids

LEMMA JobFields ==
    ASSUME NEW r \in Job
    PROVE  /\ r.state \in States /\ r.attempt \in Nat /\ r.max \in Nat \ {0}
           /\ r.handled \in BOOLEAN /\ r.retries \in Nat /\ r.stopped \in Nat
           /\ r.late \in Nat
  BY DEF Job

\* What the operations make of a job is one.
LEMMA Changed ==
    ASSUME NEW r \in Job, NEW state \in States, NEW n \in Nat
    PROVE  /\ [r EXCEPT !.state = state, !.attempt = n] \in Job
           /\ [r EXCEPT !.state = state, !.retries = n] \in Job
           /\ [r EXCEPT !.state = state, !.stopped = n] \in Job
           /\ [r EXCEPT !.state = state, !.late = n] \in Job
  BY DEF Job

\* A record that takes the place of a job.
LEMMA Write ==
    ASSUME TypeOK, NEW j \in Ids, NEW r \in Job, r.max = jobs[j].max,
           jobs' = [jobs EXCEPT ![j] = r]
    PROVE  Wrote(j, r.state, r.attempt, r.retries, r.stopped, r.late)
  <1>1. jobs \in Seq(Job) /\ Ids = 1 .. Len(jobs)
    BY IdsAre DEF TypeOK
  <1>2. jobs' \in Seq(Job) /\ Len(jobs') = Len(jobs) /\ DOMAIN jobs' = 1 .. Len(jobs)
    BY <1>1
  <1>3. jobs'[j] = r /\ \A k \in Ids \ {j} : jobs'[k] = jobs[k]
    BY <1>1
  <1>4. QED
    BY <1>1, <1>2, <1>3 DEF Wrote, Ids

\* The verdicts on a job, with the next, that came when it was not running.
Lates(j) == jobs[j].late + (IF jobs[j].state = "running" THEN 0 ELSE 1)

LEMMA VerdictWritten ==
    ASSUME TypeOK, NEW j \in Ids, NEW state \in States,
           NEW w \in Workers, j = held[w].job, Verdict(w, state)
    PROVE  Wrote(j, state, jobs[j].attempt, jobs[j].retries, jobs[j].stopped, Lates(j))
  <1> DEFINE r == [jobs[j] EXCEPT !.state = state, !.late = Lates(j)]
  <1>1. jobs[j] \in Job
    BY IdsAre DEF TypeOK
  <1>2. Lates(j) \in Nat
    BY <1>1, JobFields DEF Lates
  <1>3. r \in Job
    BY <1>1, <1>2, Changed
  <1>4. /\ r.max = jobs[j].max /\ r.state = state
        /\ r.attempt = jobs[j].attempt /\ r.retries = jobs[j].retries
        /\ r.stopped = jobs[j].stopped /\ r.late = Lates(j)
    BY <1>1 DEF Job
  <1>5. jobs' = [jobs EXCEPT ![j] = r]
    BY DEF Verdict, Lates
  <1> HIDE DEF r
  <1>6. QED
    BY <1>3, <1>4, <1>5, Write

LEMMA ClaimWrites ==
    ASSUME TypeOK, NEW w \in Workers, ClaimRunnable(w)
    PROVE  /\ Head(due) \in Queued
           /\ Wrote(Head(due), "running", jobs[Head(due)].attempt + 1,
                    jobs[Head(due)].retries, jobs[Head(due)].stopped,
                    jobs[Head(due)].late)
           /\ held' = [held EXCEPT ![w] = [job |-> Head(due),
                                  attempt |-> jobs[Head(due)].attempt + 1]]
           /\ due' \in Seq(Queued \ {Head(due)}) /\ Line(due')
  <1> DEFINE j == Head(due)
             r == [jobs[j] EXCEPT !.state = "running", !.attempt = @ + 1]
  <1>1. /\ j \in Queued /\ due' \in Seq(Queued \ {j}) /\ Line(due')
        /\ j \in Ids
    <2>1. due \in Seq(Queued) /\ Line(due) /\ due # <<>> /\ due' = Tail(due)
      BY DEF ClaimRunnable, TypeOK, Line
    <2>2. j \in Queued /\ due' \in Seq(Queued \ {j}) /\ Line(due')
      BY <2>1, LineTail
    <2>3. QED
      BY <2>2 DEF Queued
  <1>2. jobs[j] \in Job
    BY <1>1, IdsAre DEF TypeOK
  <1>3. /\ r \in Job /\ r.max = jobs[j].max /\ r.state = "running"
        /\ r.attempt = jobs[j].attempt + 1 /\ r.retries = jobs[j].retries
        /\ r.stopped = jobs[j].stopped /\ r.late = jobs[j].late
    <2>1. jobs[j].attempt + 1 \in Nat /\ "running" \in States
      BY <1>2, JobFields DEF States
    <2>2. r \in Job
      BY <1>2, <2>1, Changed
    <2>3. QED
      BY <1>2, <2>2 DEF Job
  <1>4. /\ jobs' = [jobs EXCEPT ![j] = r]
        /\ held' = [held EXCEPT ![w] = [job |-> j, attempt |-> jobs[j].attempt + 1]]
    BY DEF ClaimRunnable
  <1> HIDE DEF r, j
  <1>5. Wrote(j, "running", jobs[j].attempt + 1, jobs[j].retries,
              jobs[j].stopped, jobs[j].late)
    BY <1>1, <1>3, <1>4, Write
  <1>6. QED
    BY <1>1, <1>4, <1>5 DEF j

LEMMA RetryWrites ==
    ASSUME TypeOK, NEW j \in Ids, RetryJob(j)
    PROVE  /\ Wrote(j, "queued", jobs[j].attempt, jobs[j].retries + 1,
                    jobs[j].stopped, jobs[j].late)
           /\ jobs[j].state \in {"retryable_failed", "dead_letter", "canceled"}
  <1> DEFINE r == [jobs[j] EXCEPT !.state = "queued", !.retries = @ + 1]
  <1>1. jobs[j] \in Job
    BY IdsAre DEF TypeOK
  <1>2. /\ r \in Job /\ r.max = jobs[j].max /\ r.state = "queued"
        /\ r.attempt = jobs[j].attempt /\ r.retries = jobs[j].retries + 1
        /\ r.stopped = jobs[j].stopped /\ r.late = jobs[j].late
    <2>1. jobs[j].retries + 1 \in Nat /\ "queued" \in States
      BY <1>1, JobFields DEF States
    <2>2. r \in Job
      BY <1>1, <2>1, Changed
    <2>3. QED
      BY <1>1, <2>2 DEF Job
  <1>3. jobs' = [jobs EXCEPT ![j] = r]
    BY DEF RetryJob
  <1> HIDE DEF r
  <1>4. QED
    BY <1>2, <1>3, Write DEF RetryJob

LEMMA CancelWrites ==
    ASSUME TypeOK, NEW j \in Ids, CancelJob(j)
    PROVE  /\ Wrote(j, "canceled", jobs[j].attempt, jobs[j].retries,
                    IF jobs[j].state = "running" THEN jobs[j].stopped + 1
                    ELSE jobs[j].stopped, jobs[j].late)
           /\ jobs[j].state \notin {"succeeded", "dead_letter"}
  <1> DEFINE n == IF jobs[j].state = "running" THEN jobs[j].stopped + 1
                  ELSE jobs[j].stopped
             r == [jobs[j] EXCEPT !.state = "canceled", !.stopped = n]
  <1>1. jobs[j] \in Job
    BY IdsAre DEF TypeOK
  <1>2. /\ r \in Job /\ r.max = jobs[j].max /\ r.state = "canceled"
        /\ r.attempt = jobs[j].attempt /\ r.retries = jobs[j].retries
        /\ r.stopped = n /\ r.late = jobs[j].late
    <2>1. n \in Nat /\ "canceled" \in States
      BY <1>1, JobFields DEF States
    <2> HIDE DEF n
    <2>2. r \in Job
      BY <1>1, <2>1, Changed
    <2>3. QED
      BY <1>1, <2>2 DEF Job
  <1>3. jobs' = [jobs EXCEPT ![j] = r]
    BY DEF CancelJob
  <1> HIDE DEF r
  <1>4. QED
    BY <1>2, <1>3, Write DEF CancelJob

\* The line without a job.
LEMMA WithoutLine ==
    ASSUME TypeOK, NEW j \in Ids
    PROVE  Without(j) \in Seq(Queued \ {j}) /\ Line(Without(j))
  <1>1. due \in Seq(Queued) /\ Line(due)
    BY DEF TypeOK, Line
  <1>2. CASE Places(j) = {}
    <2>1. \A i \in 1 .. Len(due) : due[i] \in Queued \ {j}
      BY <1>1, <1>2 DEF Places
    <2>2. QED
      BY <1>1, <1>2, <2>1, SeqMono DEF Without
  <1>3. CASE Places(j) # {}
    <2> DEFINE p == CHOOSE i \in Places(j) : TRUE
    <2>1. p \in 1 .. Len(due) /\ due[p] = j
      BY <1>1, <1>3 DEF Places
    <2> HIDE DEF p
    <2>2. QED
      BY <1>1, <1>3, <2>1, LineRemove DEF Without, p
  <1>4. QED
    BY <1>2, <1>3

-----------------------------------------------------------------------------
(* Type correctness.                                                       *)

LEMMA QueuedAfter ==
    ASSUME TypeOK, NEW j \in Ids, NEW state, NEW a, NEW r, NEW n, NEW m,
           Wrote(j, state, a, r, n, m)
    PROVE  /\ Queued \ {j} \subseteq Queued'
           /\ state \in Waiting => Queued \subseteq Queued' /\ j \in Queued'
  BY DEF Wrote, Queued

LEMMA LineIn ==
    ASSUME NEW A, NEW B, NEW s \in Seq(A), A \subseteq B
    PROVE  s \in Seq(B)
  BY SeqMono

\* A write to a job leaves the store and the workers well typed.
LEMMA WroteType ==
    ASSUME TypeOK, NEW j \in Ids, NEW state, NEW a, NEW r, NEW n, NEW m,
           Wrote(j, state, a, r, n, m), due' \in Seq(Queued'), Line(due'),
           held' \in [Workers -> Holding \cup {Nothing}],
           \A w \in Workers : held'[w] # Nothing => held'[w].job \in Ids,
           ops' \in Nat
    PROVE  TypeOK'
  BY DEF TypeOK, Wrote, Line

LEMMA HeldType ==
    ASSUME TypeOK, NEW w \in Workers, held[w] # Nothing
    PROVE  /\ held[w].job \in Ids /\ held[w].attempt \in Nat
           /\ held[w].job \in 1 .. MaxJobs
  BY DEF TypeOK, Holding

LEMMA ReleasedType ==
    ASSUME TypeOK, NEW w \in Workers, held' = [held EXCEPT ![w] = Nothing]
    PROVE  /\ held' \in [Workers -> Holding \cup {Nothing}]
           /\ \A v \in Workers : held'[v] # Nothing => held'[v].job \in Ids
           /\ held'[w] = Nothing
           /\ \A v \in Workers \ {w} : held'[v] = held[v]
  BY DEF TypeOK

LEMMA EnqueueType ==
    ASSUME TypeOK, NEW max \in Asked, NEW handled \in BOOLEAN,
           EnqueueJob(max, handled)
    PROVE  TypeOK'
  <1> DEFINE n == Len(jobs) + 1
  <1>1. NewJob(max, handled) \in Job
    <2>1. (IF max = 0 THEN DefaultMax ELSE max) \in Nat \ {0}
      BY Bounds
    <2>2. "queued" \in States
      BY DEF States
    <2> HIDE DEF States
    <2>3. QED
      BY <2>1, <2>2 DEF NewJob, Job
  <1>2. /\ jobs' \in Seq(Job) /\ Len(jobs') = n /\ Ids' = 1 .. n
        /\ jobs'[n] = NewJob(max, handled)
        /\ \A k \in Ids : jobs'[k] = jobs[k]
    BY <1>1, IdsAre DEF EnqueueJob, TypeOK, Ids
  <1>3. n \in Queued' /\ n \notin Queued /\ Queued \subseteq Queued'
    <2>1. Ids = 1 .. Len(jobs) /\ Len(jobs) \in Nat
      BY IdsAre
    <2>2. n \in Ids' /\ jobs'[n].state \in Waiting /\ n \notin Ids
      BY <1>2, <2>1 DEF NewJob, Waiting
    <2>3. Ids \subseteq Ids'
      BY <1>2, <2>1
    <2>4. QED
      BY <1>2, <2>2, <2>3 DEF Queued
  <1>4. due \in Seq(Queued) /\ Line(due) /\ \A i \in 1 .. Len(due) : due[i] # n
    BY <1>3 DEF TypeOK, Line
  <1>5. due' \in Seq(Queued') /\ Line(due')
    <2>1. CASE UNCHANGED due
      BY <1>3, <1>4, <2>1, LineIn
    <2>2. ASSUME NEW i \in 1 .. Len(due) + 1, due' = InsertAt(due, i, n)
          PROVE  due' \in Seq(Queued') /\ Line(due')
      <3> HIDE DEF n
      <3>1. InsertAt(due, i, n) \in Seq(Queued') /\ Line(InsertAt(due, i, n))
        BY <1>3, <1>4, LineInsert
      <3>2. QED
        BY <2>2, <3>1
    <2>3. QED
      BY <2>1, <2>2 DEF EnqueueJob
  <1>6. Ids \subseteq Ids' /\ Len(jobs') <= MaxJobs /\ UNCHANGED <<held, ops>>
    BY <1>2, IdsAre, Bounds DEF EnqueueJob
  <1>7. QED
    BY <1>2, <1>5, <1>6 DEF TypeOK, Line

LEMMA RunAtType ==
    ASSUME TypeOK, NEW j \in Ids, RunAtComes(j)
    PROVE  TypeOK'
  <1>1. UNCHANGED <<jobs, held, ops>> /\ Queued' = Queued /\ Ids' = Ids
    BY DEF RunAtComes, Queued, Ids
  <1>2. /\ due \in Seq(Queued) /\ Line(due) /\ j \in Queued
        /\ \A i \in 1 .. Len(due) : due[i] # j
    BY DEF TypeOK, Line, RunAtComes, Places, Queued
  <1>3. Append(due, j) \in Seq(Queued) /\ Line(Append(due, j))
    BY <1>2, LineAppend
  <1>4. due' \in Seq(Queued') /\ Line(due')
    BY <1>1, <1>3 DEF RunAtComes
  <1>5. QED
    BY <1>1, <1>4 DEF TypeOK, Line

LEMMA ClaimType ==
    ASSUME TypeOK, NEW w \in Workers, ClaimRunnable(w)
    PROVE  TypeOK'
  <1> DEFINE j == Head(due)
             h == [job |-> j, attempt |-> jobs[j].attempt + 1]
  <1>1. /\ j \in Queued
        /\ Wrote(j, "running", jobs[j].attempt + 1, jobs[j].retries,
                 jobs[j].stopped, jobs[j].late)
        /\ held' = [held EXCEPT ![w] = h]
        /\ due' \in Seq(Queued \ {j}) /\ Line(due')
    BY ClaimWrites
  <1>2. ops' = ops
    BY DEF ClaimRunnable
  <1>3. j \in Ids /\ jobs[j].attempt \in Nat
    BY <1>1, IdsAre, JobFields DEF Queued, TypeOK
  <1>4. h \in Holding /\ h.job = j
    BY <1>3, IdsAre, Bounds DEF Holding, TypeOK
  <1> HIDE DEF h, j
  <1>5. /\ held' \in [Workers -> Holding \cup {Nothing}]
        /\ \A v \in Workers : held'[v] # Nothing => held'[v].job \in Ids
    BY <1>1, <1>3, <1>4 DEF TypeOK
  <1>6. due' \in Seq(Queued')
    BY <1>1, <1>3, QueuedAfter, LineIn
  <1>7. QED
    BY <1>1, <1>2, <1>3, <1>5, <1>6, WroteType DEF TypeOK

\* A worker's verdict, whatever it is.
LEMMA VerdictWrites ==
    ASSUME TypeOK, NEW w \in Workers, held[w] # Nothing,
           NEW state \in States, Verdict(w, state)
    PROVE  LET j == held[w].job IN
           /\ j \in Ids
           /\ Wrote(j, state, jobs[j].attempt, jobs[j].retries, jobs[j].stopped, Lates(j))
           /\ TypeOK'
  <1> DEFINE j == held[w].job
  <1>1. j \in Ids
    BY HeldType
  <1>2. Wrote(j, state, jobs[j].attempt, jobs[j].retries, jobs[j].stopped, Lates(j))
    BY <1>1, VerdictWritten
  <1>3. /\ due' = Without(j) /\ held' = [held EXCEPT ![w] = Nothing] /\ ops' = ops
    BY DEF Verdict
  <1> HIDE DEF j
  <1>4. due' \in Seq(Queued') /\ Line(due')
    BY <1>1, <1>2, <1>3, WithoutLine, QueuedAfter, LineIn
  <1>5. TypeOK'
    BY <1>1, <1>2, <1>3, <1>4, ReleasedType, WroteType DEF TypeOK
  <1>6. QED
    BY <1>1, <1>2, <1>5 DEF j

LEMMA WorkIsVerdict ==
    ASSUME TypeOK, NEW w \in Workers, Work(w)
    PROVE  /\ held[w] # Nothing
           /\ \E state \in {"succeeded", "dead_letter", "retryable_failed"} :
                /\ Verdict(w, state)
                /\ state = "retryable_failed" =>
                        held[w].attempt < jobs[held[w].job].max
  <1>1. held[w] # Nothing
    BY DEF Work, MarkSucceeded, MarkFailure
  <1>2. held[w].attempt \in Nat /\ jobs[held[w].job].max \in Nat
    BY <1>1, HeldType, IdsAre, JobFields DEF TypeOK
  <1>3. CASE MarkSucceeded(w)
    BY <1>1, <1>3 DEF MarkSucceeded
  <1>4. CASE MarkFailure(w) /\ Verdict(w, "dead_letter")
    BY <1>1, <1>4
  <1>5. CASE MarkFailure(w) /\ ~Verdict(w, "dead_letter")
    <2>1. ~(held[w].attempt >= jobs[held[w].job].max)
          /\ Verdict(w, "retryable_failed")
      BY <1>5 DEF MarkFailure, Failed
    <2>2. QED
      BY <1>1, <1>2, <2>1
  <1>6. QED
    BY <1>3, <1>4, <1>5 DEF Work

LEMMA RetryType ==
    ASSUME TypeOK, NEW j \in Ids, RetryJob(j)
    PROVE  TypeOK'
  <1>1. Wrote(j, "queued", jobs[j].attempt, jobs[j].retries + 1,
              jobs[j].stopped, jobs[j].late)
    BY RetryWrites
  <1>2. Queued \subseteq Queued' /\ j \in Queued'
    BY <1>1, QueuedAfter DEF Waiting
  <1>3. Without(j) \in Seq(Queued \ {j}) /\ Line(Without(j))
    BY WithoutLine
  <1>4. \A i \in 1 .. Len(Without(j)) : Without(j)[i] # j
    BY <1>3
  <1>5. Append(Without(j), j) \in Seq(Queued') /\ Line(Append(Without(j), j))
    BY <1>2, <1>3, <1>4, LineAppend
  <1>6. due' \in Seq(Queued') /\ Line(due') /\ UNCHANGED held /\ ops' \in Nat
    BY <1>5 DEF RetryJob, TypeOK
  <1>7. QED
    BY <1>1, <1>6, WroteType DEF TypeOK

LEMMA CancelType ==
    ASSUME TypeOK, NEW j \in Ids, CancelJob(j)
    PROVE  TypeOK'
  <1> DEFINE n == IF jobs[j].state = "running" THEN jobs[j].stopped + 1
                  ELSE jobs[j].stopped
  <1>1. Wrote(j, "canceled", jobs[j].attempt, jobs[j].retries, n, jobs[j].late)
    BY CancelWrites
  <1> HIDE DEF n
  <1>2. due' = Without(j) /\ UNCHANGED held /\ ops' \in Nat
    BY DEF CancelJob, TypeOK
  <1>3. due' \in Seq(Queued') /\ Line(due')
    BY <1>1, <1>2, WithoutLine, QueuedAfter, LineIn
  <1>4. QED
    BY <1>1, <1>2, <1>3, WroteType DEF TypeOK

LEMMA EmptyLine ==
    ASSUME NEW S
    PROVE  <<>> \in Seq(S) /\ Len(<<>>) = 0 /\ DOMAIN <<>> = {}
  OBVIOUS

LEMMA ForgetType == ASSUME TypeOK, Forget PROVE TypeOK'
  <1>1. /\ jobs' = <<>> /\ due' = <<>> /\ held' = [w \in Workers |-> Nothing]
        /\ ops' = ops
    BY DEF Forget
  <1>2. QED
    BY <1>1, EmptyLine, Bounds DEF TypeOK

LEMMA TypeInit == Init => TypeOK
  <1> SUFFICES ASSUME Init PROVE TypeOK
    OBVIOUS
  <1>1. jobs = <<>> /\ due = <<>> /\ held = [w \in Workers |-> Nothing] /\ ops = 0
    BY DEF Init
  <1>2. QED
    BY <1>1, EmptyLine, Bounds DEF TypeOK

LEMMA TypeStep == ASSUME TypeOK, [Step \/ Forget]_engine PROVE TypeOK'
  <1>1. ASSUME NEW max \in Asked, NEW handled \in BOOLEAN, EnqueueJob(max, handled)
        PROVE  TypeOK'
    BY <1>1, EnqueueType
  <1>2. ASSUME NEW j \in Ids, RunAtComes(j) \/ RetryJob(j) \/ CancelJob(j)
        PROVE  TypeOK'
    BY <1>2, RunAtType, RetryType, CancelType
  <1>3. ASSUME NEW w \in Workers, ClaimRunnable(w)
        PROVE  TypeOK'
    BY <1>3, ClaimType
  <1>4. ASSUME NEW w \in Workers, Work(w)
        PROVE  TypeOK'
    BY <1>4, WorkIsVerdict, VerdictWrites DEF States
  <1>5. CASE Forget
    BY <1>5, ForgetType
  <1>6. CASE UNCHANGED engine
    BY <1>6 DEF TypeOK, Queued, Ids
  <1>7. QED
    BY <1>1, <1>2, <1>3, <1>4, <1>5, <1>6 DEF Step

\* Every reachable state is well typed, and a job in line waits and stands
\* there once (ClaimRunnable, Retry, Cancel and the workers' verdicts).
THEOREM TypeCorrect == Spec => []TypeOK
  BY TypeInit, TypeStep, PTL DEF Spec

-----------------------------------------------------------------------------
(* Who holds a job.                                                        *)

LEMMA HoldersFinite == \A j : IsFiniteSet(Holders(j)) /\ Cardinality(Holders(j)) \in Nat
  BY Bounds, FS_Subset, FS_CardinalityType DEF Holders

LEMMA HoldersClaim ==
    ASSUME TypeOK, NEW w \in Workers, ClaimRunnable(w), NEW j \in Ids
    PROVE  /\ w \notin Holders(j)
           /\ j = Head(due) => /\ Holders(j)' = Holders(j) \cup {w}
                               /\ held'[w].attempt = jobs[j].attempt + 1
           /\ j # Head(due) => Holders(j)' = Holders(j)
           /\ \A v \in Holders(j) : held'[v] = held[v]
  <1>1. /\ held[w] = Nothing /\ 0 \notin Ids
        /\ held' = [held EXCEPT ![w] = [job |-> Head(due),
                                  attempt |-> jobs[Head(due)].attempt + 1]]
        /\ held \in [Workers -> Holding \cup {Nothing}]
    BY IdsAre DEF ClaimRunnable, TypeOK
  <1>2. w \notin Holders(j)
    BY <1>1 DEF Holders, Nothing
  <1>3. /\ held'[w].job = Head(due)
        /\ held'[w].attempt = jobs[Head(due)].attempt + 1
        /\ \A v \in Workers \ {w} : held'[v] = held[v]
    BY <1>1
  <1>4. QED
    BY <1>2, <1>3 DEF Holders

LEMMA HoldersVerdict ==
    ASSUME TypeOK, NEW w \in Workers, held[w] # Nothing, NEW state,
           Verdict(w, state), NEW j \in Ids
    PROVE  /\ j = held[w].job => w \in Holders(j) /\ Holders(j)' = Holders(j) \ {w}
           /\ j # held[w].job => Holders(j)' = Holders(j) /\ w \notin Holders(j)
           /\ \A v \in Workers \ {w} : held'[v] = held[v]
  <1>1. held' = [held EXCEPT ![w] = Nothing]
    BY DEF Verdict
  <1>2. held'[w] = Nothing /\ \A v \in Workers \ {w} : held'[v] = held[v]
    BY <1>1, ReleasedType
  <1>3. 0 \notin Ids
    BY IdsAre
  <1>4. QED
    BY <1>2, <1>3 DEF Holders, Nothing

\* A new job has no worker.
LEMMA HoldersNew ==
    ASSUME TypeOK, NEW max \in Asked, NEW handled \in BOOLEAN,
           EnqueueJob(max, handled), NEW j \in Ids'
    PROVE  /\ held' = held
           /\ j \in Ids => jobs'[j] = jobs[j]
           /\ j \notin Ids => Holders(j)' = {} /\ jobs'[j] = NewJob(max, handled)
  <1>1. /\ held' = held /\ jobs' = Append(jobs, NewJob(max, handled))
        /\ Ids = 1 .. Len(jobs) /\ Len(jobs) \in Nat /\ jobs \in Seq(Job)
    BY IdsAre DEF EnqueueJob, TypeOK
  <1>2. /\ Ids' = 1 .. Len(jobs) + 1
        /\ jobs'[Len(jobs) + 1] = NewJob(max, handled)
        /\ \A k \in Ids : jobs'[k] = jobs[k]
    BY <1>1 DEF Ids
  <1>3. j \notin Ids => Holders(j)' = {}
    <2>1. SUFFICES ASSUME j \notin Ids, NEW w \in Workers, held[w].job = j
                   PROVE  FALSE
      BY <1>1 DEF Holders
    <2>2. j # 0
      BY <1>2, <1>1
    <2>3. QED
      BY <2>1, <2>2, HeldType DEF Nothing
  <1>4. QED
    BY <1>1, <1>2, <1>3

-----------------------------------------------------------------------------
(* One worker, and one more for each run that was canceled.                *)

HoldersAt(j) ==
    Cardinality(Holders(j)) + jobs[j].late
        <= jobs[j].stopped + (IF jobs[j].state = "running" THEN 1 ELSE 0)

LEMMA StoppedType == ASSUME TypeOK, NEW j \in Ids
                     PROVE  /\ jobs[j].stopped \in Nat /\ jobs[j].late \in Nat
                            /\ jobs[j].attempt \in Nat
                            /\ jobs[j].retries \in Nat /\ jobs[j].max \in Nat \ {0}
  BY IdsAre, JobFields DEF TypeOK

LEMMA HoldersSame ==
    ASSUME NEW j, HoldersAt(j), jobs'[j] = jobs[j], Holders(j)' = Holders(j)
    PROVE  HoldersAt(j)'
  BY DEF HoldersAt

LEMMA HoldersStep ==
    ASSUME TypeOK, HoldersBounded, [Step \/ Forget]_engine
    PROVE  HoldersBounded'
  <1> SUFFICES ASSUME NEW j \in Ids' PROVE HoldersAt(j)'
    BY DEF HoldersBounded, HoldersAt
  <1>0. j \in Ids => HoldersAt(j)
    BY DEF HoldersBounded, HoldersAt
  <1> DEFINE n == Cardinality(Holders(j))
  <1>01. n \in Nat /\ IsFiniteSet(Holders(j))
    BY HoldersFinite
  <1>1. ASSUME NEW max \in Asked, NEW handled \in BOOLEAN, EnqueueJob(max, handled)
        PROVE  HoldersAt(j)'
    <2>1. /\ held' = held
          /\ j \in Ids => jobs'[j] = jobs[j]
          /\ j \notin Ids => Holders(j)' = {} /\ jobs'[j] = NewJob(max, handled)
      BY <1>1, HoldersNew
    <2>2. CASE j \in Ids
      <3>1. Holders(j)' = Holders(j)
        BY <2>1 DEF Holders
      <3>2. QED
        BY <1>0, <2>1, <2>2, <3>1, HoldersSame
    <2>3. CASE j \notin Ids
      <3>1. Cardinality({}) = 0
        BY FS_EmptySet
      <3>2. jobs'[j].stopped = 0 /\ jobs'[j].late = 0 /\ jobs'[j].state = "queued"
        BY <2>1, <2>3 DEF NewJob
      <3>3. QED
        BY <2>1, <2>3, <3>1, <3>2 DEF HoldersAt
    <2>4. QED
      BY <2>2, <2>3
  <1>2. ASSUME NEW k \in Ids, RunAtComes(k)
        PROVE  HoldersAt(j)'
    BY <1>0, <1>2 DEF RunAtComes, HoldersAt, Holders, Ids
  <1>3. ASSUME NEW k \in Ids, RetryJob(k)
        PROVE  HoldersAt(j)'
    <2>1. /\ Wrote(k, "queued", jobs[k].attempt, jobs[k].retries + 1,
                   jobs[k].stopped, jobs[k].late)
          /\ jobs[k].state # "running" /\ Holders(j)' = Holders(j)
      BY <1>3, RetryWrites DEF RetryJob, Holders
    <2>2. QED
      BY <1>0, <2>1, HoldersSame DEF Wrote, HoldersAt
  <1>4. ASSUME NEW k \in Ids, CancelJob(k)
        PROVE  HoldersAt(j)'
    <2>1. /\ Wrote(k, "canceled", jobs[k].attempt, jobs[k].retries,
                   IF jobs[k].state = "running" THEN jobs[k].stopped + 1
                   ELSE jobs[k].stopped, jobs[k].late)
          /\ Holders(j)' = Holders(j)
      BY <1>4, CancelWrites DEF CancelJob, Holders
    <2>2. CASE j = k
      BY <1>0, <1>01, <2>1, <2>2, StoppedType DEF Wrote, HoldersAt
    <2>3. CASE j # k
      BY <1>0, <2>1, <2>3, HoldersSame DEF Wrote
    <2>4. QED
      BY <2>2, <2>3
  <1>5. ASSUME NEW w \in Workers, ClaimRunnable(w)
        PROVE  HoldersAt(j)'
    <2> DEFINE h == Head(due)
    <2>1. /\ h \in Queued
          /\ Wrote(h, "running", jobs[h].attempt + 1, jobs[h].retries,
                   jobs[h].stopped, jobs[h].late)
      BY <1>5, ClaimWrites
    <2>2. j \in Ids
      BY <2>1 DEF Wrote
    <2>3. CASE j = h
      <3>1. Holders(j)' = Holders(j) \cup {w} /\ w \notin Holders(j)
        BY <1>5, <2>2, <2>3, HoldersClaim
      <3>2. Cardinality(Holders(j))' = n + 1
        BY <1>01, <3>1, FS_AddElement
      <3>3. n + jobs[j].late <= jobs[j].stopped
        <4>1. jobs[j].state # "running"
          BY <2>1, <2>3 DEF Queued, Waiting
        <4>2. QED
          BY <1>0, <1>01, <2>2, <4>1, StoppedType DEF HoldersAt
      <3>4. /\ jobs'[j].state = "running" /\ jobs'[j].stopped = jobs[j].stopped
            /\ jobs'[j].late = jobs[j].late
        BY <2>1, <2>3 DEF Wrote
      <3>5. QED
        BY <1>01, <2>2, <3>2, <3>3, <3>4, StoppedType DEF HoldersAt
    <2>4. CASE j # h
      BY <1>0, <1>5, <2>1, <2>2, <2>4, HoldersClaim, HoldersSame DEF Wrote
    <2>5. QED
      BY <2>3, <2>4
  <1>6. ASSUME NEW w \in Workers, Work(w)
        PROVE  HoldersAt(j)'
    <2>1. PICK state \in {"succeeded", "dead_letter", "retryable_failed"} :
              Verdict(w, state)
      BY <1>6, WorkIsVerdict
    <2>2. held[w] # Nothing /\ state \in States
      BY <1>6, WorkIsVerdict DEF States
    <2> DEFINE h == held[w].job
    <2>3. /\ h \in Ids
          /\ Wrote(h, state, jobs[h].attempt, jobs[h].retries, jobs[h].stopped, Lates(h))
      BY <2>1, <2>2, VerdictWrites
    <2>4. j \in Ids
      BY <2>3 DEF Wrote
    <2>5. CASE j = h
      <3>1. w \in Holders(j) /\ Holders(j)' = Holders(j) \ {w}
        BY <2>1, <2>2, <2>4, <2>5, HoldersVerdict
      <3>2. Cardinality(Holders(j))' = n - 1
        BY <1>01, <3>1, FS_RemoveElement
      <3>3. n - 1 + Lates(j) <= jobs[j].stopped
        BY <1>0, <1>01, <2>4, StoppedType DEF HoldersAt, Lates
      <3>4. /\ jobs'[j].stopped = jobs[j].stopped /\ jobs'[j].state # "running"
            /\ jobs'[j].late = Lates(j) /\ Lates(j) \in Nat
        BY <2>1, <2>3, <2>4, <2>5, StoppedType DEF Wrote, Lates
      <3>5. QED
        BY <1>01, <2>4, <3>2, <3>3, <3>4, StoppedType DEF HoldersAt
    <2>6. CASE j # h
      BY <1>0, <2>1, <2>2, <2>3, <2>4, <2>6, HoldersVerdict, HoldersSame DEF Wrote
    <2>7. QED
      BY <2>5, <2>6
  <1>7. CASE Forget
    BY <1>7, EmptyLine DEF Forget, Ids
  <1>8. CASE UNCHANGED engine
    BY <1>0, <1>8 DEF HoldersAt, Holders, Ids
  <1>9. QED
    BY <1>1, <1>2, <1>3, <1>4, <1>5, <1>6, <1>7, <1>8 DEF Step

\* However cancels, retries and late verdicts fall, each cancel in the middle of a
\* run leaves one worker too many or one late verdict, never both (ClaimRunnable,
\* Cancel and Retry against processOne).
THEOREM HoldersCounted == Spec => []HoldersBounded
  <1>1. Init => HoldersBounded
    BY EmptyLine DEF Init, HoldersBounded, Ids
  <1>2. QED
    BY <1>1, HoldersStep, TypeCorrect, PTL DEF Spec

-----------------------------------------------------------------------------
(* A bound on the runs of a job.                                           *)

\* Workers whose failure would bring the job back although it was claimed again
\* since; whether a worker holds the last attempt; the attempts above max; and
\* the one that the next claim will add without having used up an attempt.
Stale(j) == {w \in Holders(j) :
                held[w].attempt < jobs[j].attempt /\ held[w].attempt < jobs[j].max}
Newest(j) == \E w \in Holders(j) : held[w].attempt = jobs[j].attempt
Excess(j) == IF jobs[j].attempt > jobs[j].max THEN jobs[j].attempt - jobs[j].max ELSE 0
Owed(j) == IF jobs[j].state \in Waiting
              /\ (jobs[j].attempt >= jobs[j].max \/ Newest(j))
           THEN 1 ELSE 0

Numbered(j) ==
    /\ \A w \in Holders(j) : held[w].attempt \in 1 .. jobs[j].attempt
    /\ \A v, w \in Holders(j) : held[v].attempt = held[w].attempt => v = w
Paid(j) == Excess(j) + Cardinality(Stale(j)) + Owed(j) <= jobs[j].retries
AttemptsAt(j) == Numbered(j) /\ Paid(j)
AttemptsInv == \A j \in Ids : AttemptsAt(j)

LEMMA Counts ==
    ASSUME TypeOK, NEW j \in Ids
    PROVE  /\ Excess(j) \in Nat /\ Owed(j) \in {0, 1}
           /\ IsFiniteSet(Stale(j)) /\ Cardinality(Stale(j)) \in Nat
           /\ Stale(j) \subseteq Holders(j)
           /\ \A w \in Holders(j) : held[w].attempt \in Nat
  <1>1. Excess(j) \in Nat
    BY StoppedType DEF Excess
  <1>2. Owed(j) \in {0, 1}
    BY DEF Owed
  <1>3. Stale(j) \subseteq Holders(j)
    BY DEF Stale
  <1>4. IsFiniteSet(Stale(j)) /\ Cardinality(Stale(j)) \in Nat
    BY <1>3, HoldersFinite, FS_Subset, FS_CardinalityType
  <1>5. \A w \in Holders(j) : held[w].attempt \in Nat
    <2>1. SUFFICES ASSUME NEW w \in Workers, held[w].job = j
                   PROVE  held[w].attempt \in Nat
      BY DEF Holders
    <2>2. held[w] # Nothing
      BY <2>1, IdsAre DEF Nothing
    <2>3. QED
      BY <2>2, HeldType
  <1>6. QED
    BY <1>1, <1>2, <1>3, <1>4, <1>5

\* A job that is left alone, with its workers.
LEMMA AttemptsSame ==
    ASSUME NEW j, AttemptsAt(j), jobs'[j] = jobs[j], Holders(j)' = Holders(j),
           \A w \in Holders(j) : held'[w] = held[w]
    PROVE  AttemptsAt(j)'
  <1>1. Stale(j)' = Stale(j) /\ Newest(j)' = Newest(j)
    BY DEF Stale, Newest
  <1>2. Numbered(j)'
    BY DEF Numbered, AttemptsAt
  <1>3. Excess(j)' = Excess(j) /\ Owed(j)' = Owed(j)
    BY <1>1 DEF Excess, Owed
  <1>4. QED
    BY <1>1, <1>2, <1>3 DEF AttemptsAt, Paid

\* Cancel and Retry: the state and the retries change, the workers do not.
LEMMA AttemptsKept ==
    ASSUME TypeOK, NEW j \in Ids, AttemptsAt(j), held' = held,
           NEW state, NEW r \in Nat, NEW n, NEW m,
           Wrote(j, state, jobs[j].attempt, r, n, m),
           \/ state \notin Waiting /\ r = jobs[j].retries
           \/ r = jobs[j].retries + 1
    PROVE  AttemptsAt(j)'
  <1>1. /\ jobs'[j].attempt = jobs[j].attempt /\ jobs'[j].max = jobs[j].max
        /\ jobs'[j].retries = r /\ jobs'[j].state = state
        /\ Holders(j)' = Holders(j)
    BY DEF Wrote, Holders
  <1>2. Stale(j)' = Stale(j) /\ Excess(j)' = Excess(j)
    BY <1>1 DEF Stale, Excess
  <1>3. Numbered(j)'
    BY <1>1 DEF Numbered, AttemptsAt
  <1>4. Owed(j)' \in {0, 1} /\ (state \notin Waiting => Owed(j)' = 0)
    BY <1>1 DEF Owed
  <1>5. Excess(j) + Cardinality(Stale(j)) + Owed(j)' <= r
    BY <1>4, Counts, StoppedType DEF AttemptsAt, Paid
  <1>6. QED
    BY <1>1, <1>2, <1>3, <1>5 DEF AttemptsAt, Paid

LEMMA AttemptsNew ==
    ASSUME NEW j, NEW max, NEW handled, Holders(j)' = {},
           jobs'[j] = NewJob(max, handled), jobs'[j].max \in Nat \ {0}
    PROVE  AttemptsAt(j)'
  <1>1. jobs'[j].attempt = 0 /\ jobs'[j].retries = 0 /\ Cardinality({}) = 0
    BY FS_EmptySet DEF NewJob
  <1>2. Stale(j)' = {} /\ ~Newest(j)' /\ Numbered(j)'
    BY DEF Stale, Newest, Numbered
  <1>3. Excess(j)' = 0 /\ Owed(j)' = 0
    BY <1>1, <1>2 DEF Excess, Owed
  <1>4. QED
    BY <1>1, <1>2, <1>3 DEF AttemptsAt, Paid

LEMMA AttemptsClaim ==
    ASSUME TypeOK, NEW w \in Workers, ClaimRunnable(w), NEW j \in Ids,
           j = Head(due), AttemptsAt(j)
    PROVE  AttemptsAt(j)'
  <1> DEFINE a == jobs[j].attempt
             m == jobs[j].max
  <1>1. /\ jobs[j].state \in Waiting /\ jobs'[j].state = "running"
        /\ jobs'[j].attempt = a + 1 /\ jobs'[j].max = m
        /\ jobs'[j].retries = jobs[j].retries
    BY ClaimWrites DEF Wrote, Queued
  <1>2. /\ Holders(j)' = Holders(j) \cup {w} /\ w \notin Holders(j)
        /\ held'[w].attempt = a + 1
        /\ \A v \in Holders(j) : held'[v] = held[v]
    BY HoldersClaim
  <1>3. /\ a \in Nat /\ m \in Nat \ {0} /\ jobs[j].retries \in Nat
        /\ \A v \in Holders(j) : held[v].attempt \in 1 .. a
    BY StoppedType DEF AttemptsAt, Numbered
  <1>4. Numbered(j)'
    BY <1>1, <1>2, <1>3 DEF AttemptsAt, Numbered
  <1>5. Owed(j)' = 0
    BY <1>1 DEF Owed, Waiting
  <1>6. Stale(j)' = {v \in Holders(j) : held[v].attempt < m}
    BY <1>1, <1>2, <1>3 DEF Stale
  <1>7. CASE a >= m
    <2>1. Stale(j)' = Stale(j)
      BY <1>3, <1>6, <1>7 DEF Stale
    <2>2. Excess(j)' = Excess(j) + 1 /\ Owed(j) = 1
      BY <1>1, <1>3, <1>7 DEF Excess, Owed
    <2>3. QED
      BY <1>1, <1>3, <1>4, <1>5, <2>1, <2>2, Counts DEF AttemptsAt, Paid
  <1>8. CASE a < m /\ Newest(j)
    <2>1. PICK v \in Holders(j) : held[v].attempt = a
      BY <1>8 DEF Newest
    <2>2. v \notin Stale(j)
      BY <1>3, <2>1 DEF Stale
    <2>3. Stale(j)' = Stale(j) \cup {v}
      <3>1. \A u \in Holders(j) : u # v => held[u].attempt < a
        BY <1>3, <2>1 DEF AttemptsAt, Numbered
      <3>2. QED
        BY <1>3, <1>6, <1>8, <2>1, <3>1 DEF Stale
    <2>4. Cardinality(Stale(j))' = Cardinality(Stale(j)) + 1
      BY <2>2, <2>3, Counts, FS_AddElement
    <2>5. Excess(j)' = 0 /\ Excess(j) = 0 /\ Owed(j) = 1
      BY <1>1, <1>3, <1>8 DEF Excess, Owed
    <2>6. QED
      BY <1>1, <1>3, <1>4, <1>5, <2>4, <2>5, Counts DEF AttemptsAt, Paid
  <1>9. CASE a < m /\ ~Newest(j)
    <2>1. Stale(j)' = Stale(j)
      BY <1>3, <1>6, <1>9 DEF Stale, Newest
    <2>2. Excess(j)' = 0 /\ Excess(j) = 0 /\ Owed(j) = 0
      BY <1>1, <1>3, <1>9 DEF Excess, Owed
    <2>3. QED
      BY <1>1, <1>3, <1>4, <1>5, <2>1, <2>2, Counts DEF AttemptsAt, Paid
  <1>10. QED
    BY <1>3, <1>7, <1>8, <1>9

LEMMA AttemptsVerdict ==
    ASSUME TypeOK, NEW w \in Workers, held[w] # Nothing, NEW state \in States,
           Verdict(w, state), NEW j \in Ids, j = held[w].job, AttemptsAt(j),
           state \in Waiting => held[w].attempt < jobs[j].max
    PROVE  AttemptsAt(j)'
  <1> DEFINE a == jobs[j].attempt
             m == jobs[j].max
  <1>1. /\ jobs'[j].state = state /\ jobs'[j].attempt = a /\ jobs'[j].max = m
        /\ jobs'[j].retries = jobs[j].retries
    BY VerdictWrites DEF Wrote
  <1>2. /\ w \in Holders(j) /\ Holders(j)' = Holders(j) \ {w}
        /\ \A v \in Holders(j) \ {w} : held'[v] = held[v]
    BY HoldersVerdict DEF Holders
  <1>3. /\ a \in Nat /\ m \in Nat \ {0} /\ jobs[j].retries \in Nat
        /\ \A v \in Holders(j) : held[v].attempt \in 1 .. a
    BY StoppedType DEF AttemptsAt, Numbered
  <1>4. Numbered(j)'
    BY <1>1, <1>2 DEF AttemptsAt, Numbered
  <1>5. Stale(j)' = Stale(j) \ {w} /\ Excess(j)' = Excess(j)
    BY <1>1, <1>2 DEF Stale, Excess
  <1>6. Owed(j)' \in {0, 1} /\ (state \notin Waiting => Owed(j)' = 0)
    BY <1>1 DEF Owed
  <1>7. CASE w \in Stale(j)
    <2>1. Cardinality(Stale(j))' = Cardinality(Stale(j)) - 1
      BY <1>5, <1>7, Counts, FS_RemoveElement, ZenonT(60)
    <2>2. QED
      BY <1>1, <1>3, <1>4, <1>5, <1>6, <2>1, Counts DEF AttemptsAt, Paid
  <1>8. CASE w \notin Stale(j)
    <2>1. Stale(j)' = Stale(j)
      BY <1>5, <1>8
    <2>2. Owed(j)' = 0
      <3>1. SUFFICES ASSUME state \in Waiting PROVE Owed(j)' = 0
        BY <1>6
      <3>2. held[w].attempt = a /\ a < m
        BY <1>2, <1>3, <1>8, <3>1 DEF Stale
      <3>3. ~Newest(j)'
        BY <1>1, <1>2, <3>2 DEF Newest, AttemptsAt, Numbered
      <3>4. ~(a >= m)
        BY <1>3, <3>2
      <3>5. QED
        BY <1>1, <3>3, <3>4 DEF Owed
    <2>3. Excess(j) + Cardinality(Stale(j)) + Owed(j) <= jobs[j].retries
      BY DEF AttemptsAt, Paid
    <2>4. Excess(j) + Cardinality(Stale(j)) + 0 <= jobs[j].retries
      BY <1>3, <2>3, Counts
    <2>5. Paid(j)'
      BY <1>1, <1>5, <2>1, <2>2, <2>4 DEF Paid
    <2>6. QED
      BY <1>4, <2>5 DEF AttemptsAt
  <1>9. QED
    BY <1>7, <1>8

LEMMA AttemptsStep ==
    ASSUME TypeOK, AttemptsInv, [Step \/ Forget]_engine
    PROVE  AttemptsInv'
  <1> SUFFICES ASSUME NEW j \in Ids' PROVE AttemptsAt(j)'
    BY DEF AttemptsInv
  <1>0. j \in Ids => AttemptsAt(j)
    BY DEF AttemptsInv
  <1>1. ASSUME NEW max \in Asked, NEW handled \in BOOLEAN, EnqueueJob(max, handled)
        PROVE  AttemptsAt(j)'
    <2>1. /\ held' = held
          /\ j \in Ids => jobs'[j] = jobs[j]
          /\ j \notin Ids => Holders(j)' = {} /\ jobs'[j] = NewJob(max, handled)
      BY <1>1, HoldersNew
    <2>2. CASE j \in Ids
      <3>1. Holders(j)' = Holders(j)
        BY <2>1 DEF Holders
      <3>2. QED
        BY <1>0, <2>1, <2>2, <3>1, AttemptsSame
    <2>3. CASE j \notin Ids
      <3>1. NewJob(max, handled).max \in Nat \ {0}
        BY Bounds DEF NewJob
      <3>2. QED
        BY <2>1, <2>3, <3>1, AttemptsNew
    <2>4. QED
      BY <2>2, <2>3
  <1>2. ASSUME NEW k \in Ids, RunAtComes(k)
        PROVE  AttemptsAt(j)'
    <2>1. jobs' = jobs /\ held' = held
      BY <1>2 DEF RunAtComes
    <2>2. j \in Ids /\ Holders(j)' = Holders(j)
      BY <2>1 DEF Ids, Holders
    <2>3. QED
      BY <1>0, <2>1, <2>2, AttemptsSame
  <1>3. ASSUME NEW k \in Ids, RetryJob(k)
        PROVE  AttemptsAt(j)'
    <2>1. Wrote(k, "queued", jobs[k].attempt, jobs[k].retries + 1,
                jobs[k].stopped, jobs[k].late)
      BY <1>3, RetryWrites
    <2>2. held' = held /\ jobs[k].retries + 1 \in Nat /\ Holders(j)' = Holders(j)
      BY <1>3, StoppedType DEF RetryJob, Holders
    <2>3. j \in Ids
      BY <2>1 DEF Wrote
    <2>4. CASE j = k
      BY <1>0, <2>1, <2>2, <2>3, <2>4, AttemptsKept
    <2>5. CASE j # k
      BY <1>0, <2>1, <2>2, <2>3, <2>5, AttemptsSame DEF Wrote
    <2>6. QED
      BY <2>4, <2>5
  <1>4. ASSUME NEW k \in Ids, CancelJob(k)
        PROVE  AttemptsAt(j)'
    <2> DEFINE n == IF jobs[k].state = "running" THEN jobs[k].stopped + 1
                    ELSE jobs[k].stopped
    <2>1. Wrote(k, "canceled", jobs[k].attempt, jobs[k].retries, n, jobs[k].late)
      BY <1>4, CancelWrites
    <2> HIDE DEF n
    <2>2. held' = held /\ jobs[k].retries \in Nat /\ Holders(j)' = Holders(j)
      BY <1>4, StoppedType DEF CancelJob, Holders
    <2>3. j \in Ids /\ "canceled" \notin Waiting
      BY <2>1 DEF Wrote, Waiting
    <2>4. CASE j = k
      BY <1>0, <2>1, <2>2, <2>3, <2>4, AttemptsKept
    <2>5. CASE j # k
      BY <1>0, <2>1, <2>2, <2>3, <2>5, AttemptsSame DEF Wrote
    <2>6. QED
      BY <2>4, <2>5
  <1>5. ASSUME NEW w \in Workers, ClaimRunnable(w)
        PROVE  AttemptsAt(j)'
    <2>1. Wrote(Head(due), "running", jobs[Head(due)].attempt + 1,
                jobs[Head(due)].retries, jobs[Head(due)].stopped,
                jobs[Head(due)].late)
      BY <1>5, ClaimWrites
    <2>2. j \in Ids
      BY <2>1 DEF Wrote
    <2>3. CASE j = Head(due)
      BY <1>0, <1>5, <2>2, <2>3, AttemptsClaim
    <2>4. CASE j # Head(due)
      <3>1. Holders(j)' = Holders(j) /\ \A v \in Holders(j) : held'[v] = held[v]
        BY <1>5, <2>2, <2>4, HoldersClaim
      <3>2. QED
        BY <1>0, <2>1, <2>2, <2>4, <3>1, AttemptsSame DEF Wrote
    <2>5. QED
      BY <2>3, <2>4
  <1>6. ASSUME NEW w \in Workers, Work(w)
        PROVE  AttemptsAt(j)'
    <2>1. PICK state \in {"succeeded", "dead_letter", "retryable_failed"} :
              /\ Verdict(w, state)
              /\ state = "retryable_failed" =>
                      held[w].attempt < jobs[held[w].job].max
      BY <1>6, WorkIsVerdict
    <2>2. /\ held[w] # Nothing /\ state \in States
          /\ state \in Waiting => state = "retryable_failed"
      BY <1>6, WorkIsVerdict DEF States, Waiting
    <2> DEFINE h == held[w].job
    <2>3. Wrote(h, state, jobs[h].attempt, jobs[h].retries, jobs[h].stopped, Lates(h))
      BY <2>1, <2>2, VerdictWrites
    <2>4. j \in Ids
      BY <2>3 DEF Wrote
    <2>5. CASE j = h
      BY <1>0, <2>1, <2>2, <2>4, <2>5, AttemptsVerdict
    <2>6. CASE j # h
      <3>1. /\ Holders(j)' = Holders(j) /\ w \notin Holders(j)
            /\ \A v \in Workers \ {w} : held'[v] = held[v]
        BY <2>1, <2>2, <2>4, <2>6, HoldersVerdict
      <3>2. \A v \in Holders(j) : held'[v] = held[v]
        BY <3>1 DEF Holders
      <3>3. QED
        BY <1>0, <2>3, <2>4, <2>6, <3>1, <3>2, AttemptsSame DEF Wrote
    <2>7. QED
      BY <2>5, <2>6
  <1>7. CASE Forget
    BY <1>7, EmptyLine DEF Forget, Ids
  <1>8. CASE UNCHANGED engine
    BY <1>0, <1>8, AttemptsSame DEF Holders, Ids
  <1>9. QED
    BY <1>1, <1>2, <1>3, <1>4, <1>5, <1>6, <1>7, <1>8 DEF Step

LEMMA AttemptsImplied ==
    ASSUME TypeOK, AttemptsInv
    PROVE  AttemptsBounded
  <1> SUFFICES ASSUME NEW j \in Ids
               PROVE  jobs[j].attempt <= jobs[j].max + jobs[j].retries
    BY DEF AttemptsBounded
  <1>1. Excess(j) <= jobs[j].retries
    BY Counts, StoppedType DEF AttemptsInv, AttemptsAt, Paid
  <1>2. QED
    BY <1>1, StoppedType DEF Excess

\* A job runs at most max_attempts times and once more for each retry, whatever
\* a cancel in the middle of a run and late verdicts do to its count
\* (ClaimRunnable, MarkFailure, Cancel and Retry).
THEOREM AttemptsCounted == Spec => []AttemptsBounded
  <1>1. Init => AttemptsInv
    BY EmptyLine DEF Init, AttemptsInv, Ids
  <1>2. TypeOK /\ AttemptsInv => AttemptsBounded
    BY AttemptsImplied
  <1>3. QED
    BY <1>1, <1>2, AttemptsStep, TypeCorrect, PTL DEF Spec

-----------------------------------------------------------------------------
(* What is settled stands.                                                 *)

Stands(j) ==
    jobs[j].state \in Settled /\ jobs'[j].state # jobs[j].state
        => \/ jobs'[j].retries = jobs[j].retries + 1
           \/ /\ \E w \in Holders(j) : held'[w] = Nothing
              /\ jobs'[j].late = jobs[j].late + 1
              /\ jobs'[j].late <= jobs[j].stopped

LEMMA StandsStep ==
    ASSUME TypeOK, HoldersBounded, [Step \/ Forget]_engine,
           NEW j \in Ids \cap Ids'
    PROVE  Stands(j)
  <1>1. ASSUME NEW max \in Asked, NEW handled \in BOOLEAN, EnqueueJob(max, handled)
        PROVE  Stands(j)
    BY <1>1, HoldersNew DEF Stands
  <1>2. ASSUME NEW k \in Ids, RunAtComes(k)
        PROVE  Stands(j)
    BY <1>2 DEF RunAtComes, Stands
  <1>3. ASSUME NEW k \in Ids, RetryJob(k)
        PROVE  Stands(j)
    BY <1>3, RetryWrites DEF Wrote, Stands
  <1>4. ASSUME NEW k \in Ids, CancelJob(k)
        PROVE  Stands(j)
    BY <1>4, CancelWrites DEF Wrote, Stands, Settled
  <1>5. ASSUME NEW w \in Workers, ClaimRunnable(w)
        PROVE  Stands(j)
    BY <1>5, ClaimWrites DEF Wrote, Stands, Settled, Queued, Waiting
  <1>6. ASSUME NEW w \in Workers, Work(w)
        PROVE  Stands(j)
    <2>1. PICK state \in {"succeeded", "dead_letter", "retryable_failed"} :
              Verdict(w, state)
      BY <1>6, WorkIsVerdict
    <2>2. held[w] # Nothing /\ state \in States
      BY <1>6, WorkIsVerdict DEF States
    <2> DEFINE h == held[w].job
    <2>3. Wrote(h, state, jobs[h].attempt, jobs[h].retries, jobs[h].stopped, Lates(h))
      BY <2>1, <2>2, VerdictWrites
    <2>4. CASE j # h
      BY <2>3, <2>4 DEF Wrote, Stands
    <2>5. CASE j = h
      <3>1. w \in Holders(j) /\ Holders(j)' = Holders(j) \ {w}
        BY <2>1, <2>2, <2>5, HoldersVerdict
      <3>2. SUFFICES ASSUME jobs[j].state \in Settled
                     PROVE  /\ held'[w] = Nothing
                            /\ jobs'[j].late = jobs[j].late + 1
                            /\ jobs'[j].late <= jobs[j].stopped
        BY <3>1 DEF Stands
      <3>3. held'[w] = Nothing
        BY <2>1, ReleasedType DEF Verdict
      <3>4. jobs'[j].late = jobs[j].late + 1
        BY <2>3, <2>5, <3>2 DEF Wrote, Lates, Settled
      <3>5. Cardinality(Holders(j)) + jobs[j].late <= jobs[j].stopped
        BY <3>2, HoldersFinite, StoppedType DEF HoldersBounded, Settled
      <3>6. Cardinality(Holders(j)) # 0
        BY <3>1, HoldersFinite, FS_EmptySet
      <3>7. QED
        BY <3>3, <3>4, <3>5, <3>6, HoldersFinite, StoppedType
    <2>6. QED
      BY <2>4, <2>5
  <1>7. CASE Forget
    BY <1>7, EmptyLine DEF Forget, Ids
  <1>8. CASE UNCHANGED engine
    BY <1>8 DEF Stands
  <1>9. QED
    BY <1>1, <1>2, <1>3, <1>4, <1>5, <1>6, <1>7, <1>8 DEF Step

\* A settled job changes only by a retry, or by a worker that still held it, and
\* that no more often than the job was canceled in the middle of a run
\* (MarkSucceeded and MarkFailure do not look at the state they overwrite).
THEOREM SettledStands == Spec => VerdictsStand
  <1>1. ASSUME TypeOK, HoldersBounded, [Step \/ Forget]_engine
        PROVE  [\A j \in Ids \cap Ids' :
                  jobs[j].state \in Settled /\ jobs'[j].state # jobs[j].state
                      => \/ jobs'[j].retries = jobs[j].retries + 1
                         \/ /\ \E w \in Holders(j) : held'[w] = Nothing
                            /\ jobs'[j].late = jobs[j].late + 1
                            /\ jobs'[j].late <= jobs[j].stopped]_engine
    BY <1>1, StandsStep DEF Stands
  <1>2. QED
    BY <1>1, TypeCorrect, HoldersCounted, PTL DEF Spec, VerdictsStand

-----------------------------------------------------------------------------
(* The engine inside a supervised backend.                                  *)

\* Whatever the launcher does to the process of the backend, the engine takes
\* its own steps, forgets everything, or stands still.
LEMMA HostedStep ==
    ASSUME [SupervisionNext]_vars
    PROVE  [Step \/ Forget]_engine /\ [LauncherNext]_launcher
  <1>1. CASE Engine(Step)
    BY <1>1 DEF Engine
  <1>2. CASE Manager(LauncherNext)
    BY <1>2 DEF Manager
  <1>3. CASE UNCHANGED vars
    BY <1>3 DEF vars
  <1>4. QED
    BY <1>1, <1>2, <1>3 DEF SupervisionNext

\* On a host whose launcher starts, kills and restarts the backend at any moment
\* (Manager.runServiceLoop), the engine is still the engine the theorems above
\* are about, and the launcher the one of LauncherProofs.
THEOREM Hosted == SupervisionSpec => Spec /\ LauncherSpec
  <1>1. SupervisionInit => Init /\ LauncherInit
    BY DEF SupervisionInit
  <1>2. [SupervisionNext]_vars => [Step \/ Forget]_engine /\ [LauncherNext]_launcher
    BY HostedStep
  <1>3. QED
    BY <1>1, <1>2, PTL DEF SupervisionSpec, Spec, LauncherSpec

\* So a supervised backend has its jobs run by one worker at a time, a bounded
\* number of times, and their verdicts stand, but for what an operator's cancels
\* and retries are charged with.
THEOREM HostedJobs ==
    SupervisionSpec => /\ [](TypeOK /\ HoldersBounded /\ AttemptsBounded)
                       /\ VerdictsStand
  BY Hosted, TypeCorrect, HoldersCounted, AttemptsCounted, SettledStands, PTL

=============================================================================
