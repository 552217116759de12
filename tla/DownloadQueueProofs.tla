------------------------ MODULE DownloadQueueProofs ------------------------
(***************************************************************************)
(* Proofs about DownloadQueue, for every value of its constants.  The      *)
(* inductive invariant is TypeOK with one conjunct per property:           *)
(*   PollInv, InReach           what the poll worker holds has an id;      *)
(*   BudgetInv                  claims are paid for by attempts;           *)
(*   AckInv                     what the client acknowledged stays put.    *)
(*   FreshInv                   replacements never repeat a candidate;     *)
(*   RealInv                    what names a download fits its job.        *)
(***************************************************************************)
EXTENDS DownloadQueue, TLAPS, SequenceTheorems

\* The worker's id is real once accepted, and every job the poll worker
\* remembers has a download id, which no operation clears.
PollInv ==
    /\ submit.pc = "accepted" => submit.did # 0
    /\ \A e \in poll.todo : jobs[e.job].downloadID # 0
    /\ poll.answer # NoAnswer => jobs[poll.answer.job].downloadID # 0

\* Each claim is matched by an attempt, a queued job has one to spare, and
\* the worker's snapshot of the count covers the claims of its job.
BudgetInv ==
    /\ \A j \in JobIds : /\ claims[j] <= jobs[j].attempt
                         /\ claims[j] <= MaxAttempts + retries[j]
                         /\ jobs[j].status = "queued" =>
                                claims[j] < MaxAttempts + retries[j]
    /\ submit.pc # "idle" => claims[submit.job] <= submit.attempt

\* The worker never holds a job that was acknowledged and not retried.
AckInv ==
    /\ AckedNotResubmitted
    /\ \A j \in JobIds : ~Exists(j) => acks[j] = 0
    /\ submit.pc # "idle" => acks[submit.job] = 0 \/ retries[submit.job] > 0

-----------------------------------------------------------------------------
(* Each store operation writes a row of the right type.                    *)

LEMMA RowTypes ==
    ASSUME NEW job \in Job
    PROVE  /\ Claimed(job) \in Job
           /\ \A did \in Nat : Submitted(job, did) \in Job
           /\ \A s \in Status, o \in Nat : Progressed(job, s, o) \in Job
           /\ \A t \in BOOLEAN : Rescheduled(job, t) \in Job
           /\ Recovered(job) \in Job
           /\ Retried(job) \in Job
  <1>0. job.attempt + 1 \in Nat
    BY DEF Job
  <1>1. Claimed(job) \in Job
    <2>1. \A n \in Nat : [job EXCEPT !.status = "submitted", !.attempt = n,
                                     !.lease = "held"] \in Job
      BY DEF Job, Status, Active, Terminal
    <2>2. QED
      BY <1>0, <2>1, Zenon DEF Claimed
  <1>2. \A did \in Nat : Submitted(job, did) \in Job
    BY DEF Submitted, Job, Status, Active, Terminal
  <1>3. \A s \in Status, o \in Nat : Progressed(job, s, o) \in Job
    BY DEF Progressed, Job
  <1>4. \A t \in BOOLEAN : Rescheduled(job, t) \in Job
    BY DEF Rescheduled, Job, Status, Active, Terminal
  <1>5. Recovered(job) \in Job
    <2>1. \A n \in Nat : [job EXCEPT !.attempt = n, !.lease = "none"] \in Job
      BY DEF Job
    <2>2. [job EXCEPT !.attempt = @ + 1, !.lease = "none"] \in Job
      BY <1>0, <2>1, Zenon
    <2>3. \A r \in Job : /\ [r EXCEPT !.status = "failed", !.due = TRUE] \in Job
                         /\ [r EXCEPT !.status = "queued", !.due = FALSE] \in Job
      BY DEF Job, Status, Terminal
    <2>4. QED
      BY <2>2, <2>3, Zenon DEF Recovered
  <1>6. Retried(job) \in Job
    BY DEF Retried, Job, Status, Active, Terminal
  <1>7. QED
    BY <1>1, <1>2, <1>3, <1>4, <1>5, <1>6

LEMMA NewJobType ==
    ASSUME NEW g \in Candidates, NEW c \in Candidates, NEW A \in SUBSET Candidates
    PROVE  NewJob(g, c, A) \in Job /\ AbsentJob \in Job
  BY DEF NewJob, AbsentJob, Job, Status, Active, Terminal

-----------------------------------------------------------------------------
(* Type correctness.                                                       *)

\* An operation that writes one existing row, keeping its candidate, keeps
\* the table typed if the new row is typed and names a known download.
LEMMA WriteRow ==
    ASSUME TypeOK, NEW j \in JobIds, j < nextJob, NEW row \in Job,
           row.cand = jobs[j].cand /\ row.uri = jobs[j].uri, row.status # "absent",
           row.downloadID <= Len(client),
           jobs' = [jobs EXCEPT ![j] = row],
           UNCHANGED <<nextJob, client>>
    PROVE  JobsTyped'
  BY DEF TypeOK, JobsTyped, Exists, Work

LEMMA InitTyped == Init => TypeOK
  <1> SUFFICES ASSUME Init PROVE TypeOK
    OBVIOUS
  <1>1. AbsentJob \in Job
    BY DEF AbsentJob, Job, Status
  <1>2. JobsTyped
    BY <1>1, BoundsAssumption DEF Init, JobsTyped, JobIds, AbsentJob
  <1>3. SubmitTyped
    BY DEF Init, SubmitTyped, SubmitIdle, SubmitPC
  <1>4. PollTyped
    BY DEF Init, PollTyped, PollIdle
  <1>5. client \in Seq(Download)
    BY DEF Init
  <1>6. HistoryTyped
    BY DEF Init, HistoryTyped
  <1>7. QED
    BY <1>2, <1>3, <1>4, <1>5, <1>6 DEF TypeOK

\* Every row an operation writes is typed, exists and keeps its candidate.
LEMMA RowFields ==
    ASSUME NEW job \in Job
    PROVE  /\ /\ Claimed(job).cand = job.cand /\ Claimed(job).uri = job.uri
              /\ Claimed(job).status # "absent"
              /\ Claimed(job).downloadID = job.downloadID
           /\ \A did \in Nat : /\ Submitted(job, did).cand = job.cand
                               /\ Submitted(job, did).uri = job.uri
                               /\ Submitted(job, did).status # "absent"
                               /\ Submitted(job, did).downloadID = did
           /\ \A s \in Status, o \in Nat :
                 /\ Progressed(job, s, o).cand = job.cand
                 /\ Progressed(job, s, o).uri = job.uri
                 /\ Progressed(job, s, o).status = s
                 /\ Progressed(job, s, o).downloadID = job.downloadID
           /\ \A t \in BOOLEAN : /\ Rescheduled(job, t).cand = job.cand
                                 /\ Rescheduled(job, t).uri = job.uri
                                 /\ Rescheduled(job, t).status # "absent"
                                 /\ Rescheduled(job, t).downloadID = job.downloadID
           /\ /\ Recovered(job).cand = job.cand /\ Recovered(job).uri = job.uri
              /\ Recovered(job).status # "absent"
              /\ Recovered(job).downloadID = job.downloadID
           /\ /\ Retried(job).cand = job.cand /\ Retried(job).uri = job.uri
              /\ Retried(job).status # "absent"
              /\ Retried(job).downloadID = job.downloadID
  BY DEF Claimed, Submitted, Progressed, Rescheduled, Recovered, Retried, Job

LEMMA Existing ==
    ASSUME TypeOK
    PROVE  /\ \A j \in JobIds : jobs[j].status # "absent" => j < nextJob
           /\ \A j \in 1..(nextJob - 1) : j \in JobIds /\ j < nextJob
           /\ \A j \in JobIds : jobs[j] \in Job
  BY BoundsAssumption DEF TypeOK, JobsTyped, Exists, AbsentJob, JobIds

LEMMA ProgressedRow ==
    ASSUME TypeOK, NEW j \in JobIds, NEW s \in Active \cup Terminal, NEW o \in Nat
    PROVE  /\ Progressed(jobs[j], s, o) \in Job
           /\ Progressed(jobs[j], s, o).cand = jobs[j].cand
           /\ Progressed(jobs[j], s, o).uri = jobs[j].uri
           /\ Progressed(jobs[j], s, o).status # "absent"
           /\ Progressed(jobs[j], s, o).downloadID <= Len(client)
  <1>1. s \in Status /\ s # "absent"
    BY DEF Status, Active, Terminal
  <1>2. jobs[j] \in Job /\ jobs[j].downloadID <= Len(client)
    BY Existing DEF TypeOK, JobsTyped
  <1>3. Progressed(jobs[j], s, o) \in Job
    BY <1>1, <1>2, RowTypes
  <1>4. /\ Progressed(jobs[j], s, o).cand = jobs[j].cand
        /\ Progressed(jobs[j], s, o).uri = jobs[j].uri
        /\ Progressed(jobs[j], s, o).status = s
        /\ Progressed(jobs[j], s, o).downloadID = jobs[j].downloadID
    BY <1>1, <1>2, RowFields
  <1>5. QED
    BY <1>1, <1>2, <1>3, <1>4

\* With the table, the workers' memories and the client's length unchanged or
\* grown, what the workers remember stays typed.
LEMMA CreateTyped ==
    ASSUME TypeOK, NEW g \in Candidates, NEW c \in Candidates,
           NEW A \in SUBSET Candidates, NEW p \in Nat, GrabOf(c, g),
           CreateJob(g, c, A, p), UNCHANGED client
    PROVE  JobsTyped' /\ parent' \in [JobIds -> Nat] /\ nextJob < nextJob'
  <1>1. NewJob(g, c, A) \in Job
    BY NewJobType
  <1>2. /\ NewJob(g, c, A).cand = g /\ NewJob(g, c, A).uri = c
        /\ WorkOf[g] = WorkOf[c]
        /\ NewJob(g, c, A).status = "queued"
        /\ NewJob(g, c, A).downloadID = 0
    BY DEF NewJob, AbsentJob, GrabOf
  <1>3. nextJob \in JobIds /\ nextJob' = nextJob + 1 /\ nextJob' \in 1..(MaxJobs + 1)
    BY BoundsAssumption DEF CreateJob, JobIds, TypeOK, JobsTyped
  <1>4. jobs' \in [JobIds -> Job]
    BY <1>1, <1>3 DEF CreateJob, TypeOK, JobsTyped
  <1>5. \A j \in JobIds : jobs'[j] = IF j = nextJob THEN NewJob(g, c, A) ELSE jobs[j]
    BY DEF CreateJob, TypeOK, JobsTyped
  <1>6. ASSUME NEW j \in JobIds
        PROVE  IF j < nextJob'
               THEN /\ jobs'[j].status # "absent"
                    /\ {jobs'[j].cand, jobs'[j].uri} \subseteq Candidates
                    /\ WorkOf[jobs'[j].uri] = WorkOf[jobs'[j].cand]
               ELSE jobs'[j] = AbsentJob
    BY <1>2, <1>3, <1>5 DEF TypeOK, JobsTyped, Exists, JobIds, Work
  <1>7. ASSUME NEW j \in JobIds PROVE jobs'[j].downloadID <= Len(client')
    BY <1>2, <1>5 DEF TypeOK, JobsTyped
  <1>8. JobsTyped'
    BY <1>3, <1>4, <1>6, <1>7 DEF JobsTyped, Exists, Work
  <1>9. parent' \in [JobIds -> Nat]
    BY DEF CreateJob, TypeOK, HistoryTyped
  <1>10. QED
    BY <1>3, <1>8, <1>9 DEF TypeOK, JobsTyped

LEMMA PollGrows ==
    ASSUME TypeOK, UNCHANGED poll, nextJob <= nextJob', nextJob' \in Nat,
           Len(client) <= Len(client'), Len(client') \in Nat
    PROVE  PollTyped'
  BY DEF TypeOK, PollTyped, JobsTyped, Answer

LEMMA SubmitGrows ==
    ASSUME TypeOK, UNCHANGED <<submit, client>>, nextJob <= nextJob', nextJob' \in Nat
    PROVE  SubmitTyped'
  BY DEF TypeOK, SubmitTyped, JobsTyped

LEMMA Lengths ==
    ASSUME TypeOK
    PROVE  Len(client) \in Nat /\ nextJob \in Nat
  BY BoundsAssumption DEF TypeOK, JobsTyped

\* A step that writes the row of one existing job and nothing the other
\* parts of TypeOK look at, apart from the worker that made it.
LEMMA RowStep ==
    ASSUME TypeOK, NEW j \in 1..(nextJob - 1), NEW row \in Job,
           row.cand = jobs[j].cand /\ row.uri = jobs[j].uri, row.status # "absent",
           row.downloadID <= Len(client),
           jobs' = [jobs EXCEPT ![j] = row],
           UNCHANGED <<nextJob, client, crashes, parent>>,
           SubmitTyped', PollTyped',
           claims' \in [JobIds -> Nat], acks' \in [JobIds -> Nat],
           retries' \in [JobIds -> Nat]
    PROVE  TypeOK'
  <1>1. JobsTyped'
    BY Existing, WriteRow
  <1>2. HistoryTyped' /\ (client \in Seq(Download))'
    BY DEF TypeOK, HistoryTyped
  <1>3. QED
    BY <1>1, <1>2 DEF TypeOK

LEMMA OperatorTyped == TypeOK /\ Operator => TypeOK'
  <1> SUFFICES ASSUME TypeOK, Operator PROVE TypeOK'
    OBVIOUS
  <1> USE Lengths
  <1>1. ASSUME NEW c \in Grabs, EnqueueFromGrab(c) PROVE TypeOK'
    <2>1. /\ c \in Candidates /\ {c} \in SUBSET Candidates
          /\ GrabOf(c, c) /\ CreateJob(c, c, {c}, 0) /\ UNCHANGED client
      BY <1>1, GrabsAssumption DEF EnqueueFromGrab
    <2>2. JobsTyped' /\ parent' \in [JobIds -> Nat] /\ nextJob < nextJob'
      BY <2>1, CreateTyped
    <2>3. SubmitTyped' /\ PollTyped'
      BY <1>1, <2>2, PollGrows, SubmitGrows DEF EnqueueFromGrab, JobsTyped
    <2>4. QED
      BY <1>1, <2>2, <2>3 DEF EnqueueFromGrab, TypeOK, HistoryTyped
  <1>2. ASSUME NEW j \in JobIds, CancelJob(j) PROVE TypeOK'
    <2>1. j \in 1..(nextJob - 1) /\ jobs[j] \in Job
      BY <1>2, Existing DEF CancelJob, Exists, JobIds
    <2>2. SubmitTyped' /\ PollTyped'
      BY <1>2, PollGrows, SubmitGrows DEF CancelJob
    <2>3. /\ Progressed(jobs[j], "canceled", 0) \in Job
          /\ Progressed(jobs[j], "canceled", 0).cand = jobs[j].cand
          /\ Progressed(jobs[j], "canceled", 0).uri = jobs[j].uri
          /\ Progressed(jobs[j], "canceled", 0).status # "absent"
          /\ Progressed(jobs[j], "canceled", 0).downloadID <= Len(client)
      <3>1. "canceled" \in Active \cup Terminal
        BY DEF Terminal
      <3>2. QED
        BY <1>2, <3>1, ProgressedRow
    <2>4. QED
      BY <1>2, <2>1, <2>2, <2>3, RowStep DEF CancelJob, history, TypeOK, HistoryTyped
  <1>3. ASSUME NEW j \in JobIds, RetryJob(j) PROVE TypeOK'
    <2>1. j \in 1..(nextJob - 1) /\ jobs[j] \in Job
      BY <1>3, Existing DEF RetryJob, Exists, JobIds
    <2>2. SubmitTyped' /\ PollTyped'
      BY <1>3, PollGrows, SubmitGrows DEF RetryJob
    <2>3. /\ Retried(jobs[j]) \in Job
          /\ Retried(jobs[j]).cand = jobs[j].cand /\ Retried(jobs[j]).uri = jobs[j].uri
          /\ Retried(jobs[j]).status # "absent"
          /\ Retried(jobs[j]).downloadID <= Len(client)
      BY <1>3, <2>1, RowTypes, RowFields DEF TypeOK, JobsTyped
    <2>4. /\ retries' \in [JobIds -> Nat]
          /\ claims' \in [JobIds -> Nat] /\ acks' \in [JobIds -> Nat]
      BY <1>3 DEF RetryJob, TypeOK, HistoryTyped
    <2>5. QED
      BY <1>3, <2>1, <2>2, <2>3, <2>4, RowStep DEF RetryJob
  <1>4. QED
    BY <1>1, <1>2, <1>3 DEF Operator

LEMMA SubmitStepTyped == TypeOK /\ SubmitStep => TypeOK'
  <1> SUFFICES ASSUME TypeOK, SubmitStep PROVE TypeOK'
    OBVIOUS
  <1> USE Lengths
  <1> DEFINE j == submit.job
  \* The worker's own job exists.
  <1>a. submit.pc # "idle" =>
           /\ j \in 1..(nextJob - 1) /\ j \in JobIds /\ jobs[j] \in Job
           /\ jobs[j].cand \in Candidates
           /\ jobs[j].downloadID <= Len(client)
           /\ jobs[j].attempted \in SUBSET Candidates
    <2>1. submit.pc # "idle" => j \in 1..(nextJob - 1)
      BY DEF TypeOK, SubmitTyped
    <2>2. QED
      BY <2>1, Existing DEF TypeOK, JobsTyped, Job
  <1>b. SubmitIdle \in [pc : SubmitPC, job : Nat, attempt : Nat,
                        did : Nat, todo : SUBSET Candidates]
    BY DEF SubmitIdle, SubmitPC
  <1>1. ASSUME NEW k \in JobIds, ClaimNextQueued(k) PROVE TypeOK'
    <2>1. k \in 1..(nextJob - 1) /\ jobs[k] \in Job
      BY <1>1, Existing DEF ClaimNextQueued, Claimable, JobIds
    <2>2. jobs[k].attempt + 1 \in Nat
      BY <2>1 DEF Job
    <2>3. submit' = [pc |-> "adding", job |-> k, attempt |-> jobs[k].attempt + 1,
                     did |-> 0, todo |-> {}]
      BY <1>1 DEF ClaimNextQueued, SubmitIdle
    <2>4. SubmitTyped'
      <3>1. UNCHANGED <<nextJob, client>> /\ k \in Nat
        BY <1>1 DEF ClaimNextQueued, JobIds
      <3>2. QED
        BY <2>1, <2>2, <2>3, <3>1 DEF SubmitTyped, SubmitPC
    <2>5. PollTyped'
      BY <1>1, PollGrows DEF ClaimNextQueued
    <2>6. /\ claims' \in [JobIds -> Nat]
          /\ retries' \in [JobIds -> Nat] /\ acks' \in [JobIds -> Nat]
      BY <1>1 DEF ClaimNextQueued, TypeOK, HistoryTyped
    <2>7. /\ Claimed(jobs[k]) \in Job
          /\ Claimed(jobs[k]).cand = jobs[k].cand /\ Claimed(jobs[k]).uri = jobs[k].uri
          /\ Claimed(jobs[k]).status # "absent"
          /\ Claimed(jobs[k]).downloadID <= Len(client)
      BY <2>1, RowTypes, RowFields DEF TypeOK, JobsTyped
    <2>8. QED
      BY <1>1, <2>1, <2>4, <2>5, <2>6, <2>7, RowStep DEF ClaimNextQueued
  <1>2. CASE AddDownloadTaken
    <2> DEFINE d == [cand |-> jobs[j].cand, state |-> "queued", done |-> FALSE]
    <2>1. d \in Download
      BY <1>2, <1>a DEF AddDownloadTaken, Download, ClientState
    <2>2. /\ client' = Append(client, d)
          /\ client' \in Seq(Download)
          /\ Len(client') = Len(client) + 1
      BY <1>2, <2>1, AppendProperties DEF AddDownloadTaken, TypeOK
    <2>3. JobsTyped'
      <3>1. \A k \in JobIds : jobs[k].downloadID \in Nat
        BY Existing DEF Job
      <3>2. QED
        BY <1>2, <2>2, <3>1 DEF AddDownloadTaken, TypeOK, JobsTyped, Exists, Work
    <2>4. SubmitTyped'
      <3>1. \A n \in Nat : [submit EXCEPT !.pc = "accepted", !.did = n]
                \in [pc : SubmitPC, job : Nat, attempt : Nat,
                     did : Nat, todo : SUBSET Candidates]
        BY DEF TypeOK, SubmitTyped, SubmitPC
      <3>2. Len(client) + 1 \in Nat /\ nextJob' = nextJob /\ submit.pc = "adding"
        BY <1>2 DEF AddDownloadTaken
      <3>3. submit.job \in 1..(nextJob' - 1)
        BY <1>2, <1>a DEF AddDownloadTaken
      <3>4. CASE submit' = [submit EXCEPT !.pc = "accepted", !.did = Len(client) + 1]
        <4>1. submit' \in [pc : SubmitPC, job : Nat, attempt : Nat,
                           did : Nat, todo : SUBSET Candidates]
          BY <3>1, <3>2, <3>4, Zenon
        <4>2. submit'.job = submit.job /\ submit'.did = Len(client) + 1
          BY <3>4 DEF TypeOK, SubmitTyped
        <4>3. QED
          BY <2>2, <3>2, <3>3, <4>1, <4>2 DEF SubmitTyped
      <3>5. CASE submit' = [submit EXCEPT !.pc = "refused"]
        <4>1. submit' \in [pc : SubmitPC, job : Nat, attempt : Nat,
                           did : Nat, todo : SUBSET Candidates]
          BY <3>5 DEF TypeOK, SubmitTyped, SubmitPC
        <4>2. /\ submit'.job = submit.job /\ submit'.did = submit.did
              /\ submit.did \in Nat /\ submit.did <= Len(client)
          BY <3>5 DEF TypeOK, SubmitTyped
        <4>3. submit'.did <= Len(client')
          BY <2>2, <4>2
        <4>4. QED
          BY <3>3, <4>1, <4>2, <4>3 DEF SubmitTyped
      <3>6. QED
        BY <1>2, <3>4, <3>5 DEF AddDownloadTaken
    <2>5. PollTyped'
      BY <1>2, <2>2, PollGrows DEF AddDownloadTaken
    <2>6. QED
      BY <1>2, <2>2, <2>3, <2>4, <2>5 DEF AddDownloadTaken, TypeOK, HistoryTyped, history
  <1>3. CASE AddDownloadRefused
    <2>1. SubmitTyped'
      BY <1>3 DEF AddDownloadRefused, TypeOK, SubmitTyped, SubmitPC
    <2>2. PollTyped'
      BY <1>3, PollGrows DEF AddDownloadRefused
    <2>3. QED
      BY <1>3, <2>1, <2>2 DEF AddDownloadRefused, TypeOK, JobsTyped, Exists, Work, HistoryTyped, history
  <1>4. CASE MarkSubmitted
    <2>1. submit.did \in Nat /\ submit.did <= Len(client)
      BY DEF TypeOK, SubmitTyped
    <2>2. SubmitTyped'
      BY <1>4, <1>b DEF MarkSubmitted, SubmitTyped, SubmitIdle
    <2>3. PollTyped'
      BY <1>4, PollGrows DEF MarkSubmitted
    <2>4. /\ acks' \in [JobIds -> Nat]
          /\ claims' \in [JobIds -> Nat] /\ retries' \in [JobIds -> Nat]
      <3>1. acks[j] + 1 \in Nat
        BY <1>4, <1>a DEF MarkSubmitted, TypeOK, HistoryTyped
      <3>2. acks' = [acks EXCEPT ![j] = acks[j] + 1] /\ UNCHANGED <<claims, retries>>
        BY <1>4 DEF MarkSubmitted
      <3>3. QED
        BY <3>1, <3>2 DEF TypeOK, HistoryTyped
    <2>5. /\ Submitted(jobs[j], submit.did) \in Job
          /\ Submitted(jobs[j], submit.did).cand = jobs[j].cand
          /\ Submitted(jobs[j], submit.did).uri = jobs[j].uri
          /\ Submitted(jobs[j], submit.did).status # "absent"
          /\ Submitted(jobs[j], submit.did).downloadID <= Len(client)
      BY <1>4, <1>a, <2>1, RowTypes, RowFields DEF MarkSubmitted
    <2>6. QED
      BY <1>4, <1>a, <2>2, <2>3, <2>4, <2>5, RowStep DEF MarkSubmitted
  <1>5. CASE ListFallbacks
    <2>1. SubmitTyped'
      BY <1>5 DEF ListFallbacks, Eligible, FoundWith, TypeOK, SubmitTyped, SubmitPC
    <2>2. PollTyped'
      BY <1>5, PollGrows DEF ListFallbacks
    <2>3. QED
      BY <1>5, <2>1, <2>2 DEF ListFallbacks, TypeOK, JobsTyped, Exists, Work, HistoryTyped, history
  <1>6. ASSUME NEW c \in Candidates, GrabFallback(c) PROVE TypeOK'
    <2> DEFINE A == jobs[j].attempted \cup {jobs[j].cand, c}
    <2>0. PICK g \in Candidates : GrabOf(c, g) /\ CreateJob(g, c, A, j)
      BY <1>6 DEF GrabFallback
    <2>1. A \in SUBSET Candidates /\ j \in Nat /\ UNCHANGED client
      BY <1>6, <1>a DEF GrabFallback
    <2>2. JobsTyped' /\ parent' \in [JobIds -> Nat] /\ nextJob < nextJob'
      BY <2>0, <2>1, CreateTyped
    <2>3. nextJob' \in Nat
      BY <2>2, BoundsAssumption DEF JobsTyped
    <2>4. SubmitTyped' /\ PollTyped'
      <3>1. /\ submit' = [submit EXCEPT !.pc = "swapped"] /\ UNCHANGED <<client, poll>>
            /\ submit.pc # "idle"
        BY <1>6 DEF GrabFallback
      <3>2. /\ submit' \in [pc : SubmitPC, job : Nat, attempt : Nat,
                             did : Nat, todo : SUBSET Candidates]
            /\ submit'.job = submit.job /\ submit'.did = submit.did
        BY <3>1 DEF TypeOK, SubmitTyped, SubmitPC
      <3>3. submit'.job \in 1..(nextJob' - 1)
        BY <1>a, <2>2, <2>3, <3>1, <3>2
      <3>4. SubmitTyped'
        BY <3>1, <3>2, <3>3 DEF TypeOK, SubmitTyped
      <3>5. QED
        BY <2>2, <2>3, <3>1, <3>4, PollGrows
    <2>5. QED
      BY <1>6, <2>2, <2>4 DEF GrabFallback, TypeOK, HistoryTyped
  <1>7. ASSUME NEW c \in Candidates, SkipFallback(c) PROVE TypeOK'
    <2>1. SubmitTyped'
      BY <1>7 DEF SkipFallback, TypeOK, SubmitTyped, SubmitPC
    <2>2. PollTyped'
      BY <1>7, PollGrows DEF SkipFallback
    <2>3. QED
      BY <1>7, <2>1, <2>2 DEF SkipFallback, TypeOK, JobsTyped, Exists, Work, HistoryTyped, history
  <1>8. CASE NoFallbackLeft
    <2>1. SubmitTyped'
      BY <1>8 DEF NoFallbackLeft, TypeOK, SubmitTyped, SubmitPC
    <2>2. PollTyped'
      BY <1>8, PollGrows DEF NoFallbackLeft
    <2>3. QED
      BY <1>8, <2>1, <2>2 DEF NoFallbackLeft, TypeOK, JobsTyped, Exists, Work, HistoryTyped, history
  <1>9. CASE CloseReplaced
    <2>1. SubmitTyped'
      BY <1>9, <1>b DEF CloseReplaced, SubmitTyped, SubmitIdle
    <2>2. PollTyped'
      BY <1>9, PollGrows DEF CloseReplaced
    <2>3. "failed" \in Active \cup Terminal
      BY DEF Terminal
    <2>4. /\ Progressed(jobs[j], "failed", 0) \in Job
          /\ Progressed(jobs[j], "failed", 0).cand = jobs[j].cand
          /\ Progressed(jobs[j], "failed", 0).uri = jobs[j].uri
          /\ Progressed(jobs[j], "failed", 0).status # "absent"
          /\ Progressed(jobs[j], "failed", 0).downloadID <= Len(client)
      BY <1>9, <1>a, <2>3, ProgressedRow DEF CloseReplaced
    <2>5. QED
      BY <1>9, <1>a, <2>1, <2>2, <2>4, RowStep
         DEF CloseReplaced, history, TypeOK, HistoryTyped
  <1>10. CASE Reschedule
    <2>1. SubmitTyped'
      BY <1>10, <1>b DEF Reschedule, SubmitTyped, SubmitIdle
    <2>2. PollTyped'
      BY <1>10, PollGrows DEF Reschedule
    <2> DEFINE row == Rescheduled(jobs[j], submit.attempt >= MaxAttempts)
    <2>3. (submit.attempt >= MaxAttempts) \in BOOLEAN
      BY BoundsAssumption DEF TypeOK, SubmitTyped
    <2>4. /\ row \in Job
          /\ row.cand = jobs[j].cand /\ row.uri = jobs[j].uri
          /\ row.status # "absent"
          /\ row.downloadID <= Len(client)
      BY <1>10, <1>a, <2>3, RowTypes, RowFields DEF Reschedule
    <2>5. QED
      BY <1>10, <1>a, <2>1, <2>2, <2>4, RowStep
         DEF Reschedule, history, TypeOK, HistoryTyped
  <1>11. QED
    BY <1>1, <1>2, <1>3, <1>4, <1>5, <1>6, <1>7, <1>8, <1>9, <1>10 DEF SubmitStep

LEMMA PollStepTyped == TypeOK /\ PollStep => TypeOK'
  <1> SUFFICES ASSUME TypeOK, PollStep PROVE TypeOK'
    OBVIOUS
  <1> USE Lengths
  <1>1. CASE ListActiveJobs
    <2>1. PollSnapshot \subseteq [job : 1..(nextJob - 1), did : 1..Len(client)]
      <3>1. ASSUME NEW k \in JobIds, jobs[k].status \in Active, jobs[k].downloadID # 0
            PROVE  k \in 1..(nextJob - 1) /\ jobs[k].downloadID \in 1..Len(client)
        BY <3>1, Existing DEF Active, TypeOK, JobsTyped, Job, JobIds
      <3>2. QED
        BY <3>1 DEF PollSnapshot
    <2>2. poll' = [todo |-> PollSnapshot, answer |-> NoAnswer]
      BY <1>1 DEF ListActiveJobs, PollIdle
    <2>3. PollTyped'
      <3>1. /\ poll'.todo = PollSnapshot /\ poll'.answer = NoAnswer
            /\ poll' = [todo |-> poll'.todo, answer |-> poll'.answer]
        BY <2>2
      <3>2. UNCHANGED <<nextJob, client>>
        BY <1>1 DEF ListActiveJobs
      <3>3. QED
        BY <2>1, <3>1, <3>2 DEF PollTyped
    <2>4. QED
      BY <1>1, <2>3 DEF ListActiveJobs, TypeOK, JobsTyped, Exists, Work, SubmitTyped,
                        HistoryTyped, history
  <1>2. ASSUME NEW e \in poll.todo, GetStatus(e) PROVE TypeOK'
    <2>1. e.job \in 1..(nextJob - 1) /\ e.did \in 1..Len(client)
      BY DEF TypeOK, PollTyped
    <2>2. ASSUME NEW d \in Resolved(e)
          PROVE  PollAnswer(e.job, d) \in Answer
      <3>1. d \in 1..Len(client)
        BY <2>1, <2>2 DEF Resolved, TypeOK
      <3>2. normalizeState(client[d].state) \in Active \cup Terminal
        BY DEF normalizeState, Status, Active, Terminal
      <3>3. d \in Nat
        BY <3>1
      <3>4. QED
        BY <2>1, <3>2, <3>3 DEF PollAnswer, Answer
    <2>3. [job |-> e.job, status |-> "failed", output |-> 0] \in Answer
      BY <2>1 DEF Answer, Terminal
    <2>4. /\ poll'.todo = poll.todo \ {e}
          /\ poll' = [todo |-> poll'.todo, answer |-> poll'.answer]
          /\ poll'.answer \in Answer
      BY <1>2, <2>2, <2>3 DEF GetStatus
    <2>5. UNCHANGED <<nextJob, client>>
      BY <1>2 DEF GetStatus
    <2>6. PollTyped'
      <3>1. poll'.todo \subseteq [job : 1..(nextJob - 1), did : 1..Len(client)]
        BY <2>4 DEF TypeOK, PollTyped
      <3>2. Answer' = Answer
        BY <2>5 DEF Answer
      <3>3. QED
        BY <2>4, <2>5, <3>1, <3>2 DEF PollTyped
    <2>7. QED
      BY <1>2, <2>6 DEF GetStatus, TypeOK, JobsTyped, Exists, Work, SubmitTyped,
                        HistoryTyped, history
  <1>3. CASE UpdateProgress
    <2> DEFINE a == poll.answer
    <2>1. a \in Answer
      BY <1>3 DEF UpdateProgress, TypeOK, PollTyped
    <2>2. /\ a.job \in 1..(nextJob - 1) /\ a.job \in JobIds
          /\ a.status \in Active \cup Terminal /\ a.output \in Nat
      BY <2>1, Existing DEF Answer
    <2>3. poll' = [todo |-> poll.todo, answer |-> NoAnswer]
      BY <1>3 DEF UpdateProgress, TypeOK, PollTyped
    <2>4. SubmitTyped' /\ PollTyped'
      BY <1>3, <2>3, SubmitGrows DEF UpdateProgress, TypeOK, PollTyped
    <2>5. /\ Progressed(jobs[a.job], a.status, a.output) \in Job
          /\ Progressed(jobs[a.job], a.status, a.output).cand = jobs[a.job].cand
          /\ Progressed(jobs[a.job], a.status, a.output).uri = jobs[a.job].uri
          /\ Progressed(jobs[a.job], a.status, a.output).status # "absent"
          /\ Progressed(jobs[a.job], a.status, a.output).downloadID <= Len(client)
      BY <2>2, ProgressedRow
    <2>6. QED
      BY <1>3, <2>2, <2>4, <2>5, RowStep DEF UpdateProgress, history, TypeOK, HistoryTyped
  <1>4. QED
    BY <1>1, <1>2, <1>3 DEF PollStep

\* The remaining steps: recovery, time, restarts and the client.
LEMMA OtherTyped ==
    ASSUME TypeOK,
           \/ RecoverExpiredLeases
           \/ Time
           \/ Restart
           \/ WorkerRestarts
           \/ \E d \in 1..MaxDownloads : ClientAdvance(d) \/ ClientForget(d)
    PROVE  TypeOK'
  <1> USE Lengths
  <1>1. CASE RecoverExpiredLeases
    <2>1. ASSUME NEW k \in JobIds, Expired(k)
          PROVE  /\ k < nextJob /\ jobs'[k] \in Job
                 /\ jobs'[k].cand = jobs[k].cand
                 /\ jobs'[k].uri = jobs[k].uri /\ jobs'[k].status # "absent"
                 /\ jobs'[k].downloadID = jobs[k].downloadID
      BY <1>1, <2>1, Existing, RowTypes, RowFields DEF RecoverExpiredLeases, Expired
    <2>2. ASSUME NEW k \in JobIds, ~Expired(k) PROVE jobs'[k] = jobs[k]
      BY <1>1, <2>2 DEF RecoverExpiredLeases
    <2>3. jobs' \in [JobIds -> Job]
      BY <1>1, <2>1, <2>2, Existing DEF RecoverExpiredLeases
    <2>4. JobsTyped'
      BY <1>1, <2>1, <2>2, <2>3 DEF RecoverExpiredLeases, TypeOK, JobsTyped, Exists, Work
    <2>5. SubmitTyped' /\ PollTyped'
      BY <1>1, PollGrows, SubmitGrows DEF RecoverExpiredLeases
    <2>6. QED
      BY <1>1, <2>4, <2>5 DEF RecoverExpiredLeases, TypeOK, HistoryTyped, history
  <1>2. ASSUME NEW k \in JobIds, LeaseExpires(k) PROVE TypeOK'
    <2> DEFINE row == [jobs[k] EXCEPT !.lease = "expired"]
    <2>1. jobs[k].status # "absent" /\ k \in 1..(nextJob - 1)
      BY <1>2, Existing DEF LeaseExpires, TypeOK, JobsTyped, Exists, AbsentJob, JobIds
    <2>2. /\ row \in Job /\ row.cand = jobs[k].cand
                         /\ row.uri = jobs[k].uri /\ row.status # "absent"
          /\ row.downloadID <= Len(client)
      BY <2>1, Existing DEF Job, TypeOK, JobsTyped
    <2>3. SubmitTyped' /\ PollTyped'
      BY <1>2, PollGrows, SubmitGrows DEF LeaseExpires
    <2>4. QED
      BY <1>2, <2>1, <2>2, <2>3, RowStep DEF LeaseExpires, history, TypeOK, HistoryTyped
  <1>3. ASSUME NEW k \in JobIds, BackoffElapses(k) PROVE TypeOK'
    <2> DEFINE row == [jobs[k] EXCEPT !.due = TRUE]
    <2>1. jobs[k].status # "absent" /\ k \in 1..(nextJob - 1)
      BY <1>3, Existing DEF BackoffElapses, JobIds
    <2>2. /\ row \in Job /\ row.cand = jobs[k].cand
                         /\ row.uri = jobs[k].uri /\ row.status # "absent"
          /\ row.downloadID <= Len(client)
      BY <2>1, Existing DEF Job, TypeOK, JobsTyped
    <2>3. SubmitTyped' /\ PollTyped'
      BY <1>3, PollGrows, SubmitGrows DEF BackoffElapses
    <2>4. QED
      BY <1>3, <2>1, <2>2, <2>3, RowStep DEF BackoffElapses, history, TypeOK, HistoryTyped
  <1>4. CASE Restart
    <2>1. SubmitTyped' /\ PollTyped'
      BY <1>4 DEF Restart, SubmitTyped, SubmitIdle, SubmitPC, PollTyped, PollIdle, TypeOK
    <2>2. QED
      BY <1>4, <2>1 DEF Restart, TypeOK, JobsTyped, Exists, Work, HistoryTyped, history
  <1>5. ASSUME NEW d \in DOMAIN client, NEW new \in Download,
               client' = [client EXCEPT ![d] = new],
               UNCHANGED <<jobs, nextJob, submit, poll, history, crashes>>
        PROVE  TypeOK'
    <2>1. client' \in Seq(Download) /\ Len(client') = Len(client)
      BY <1>5, ExceptSeq DEF TypeOK
    <2>2. QED
      BY <1>5, <2>1, PollGrows, SMTT(40) DEF TypeOK, JobsTyped, Exists, Work, SubmitTyped,
                                   HistoryTyped, history
  <1>6. \A d \in DOMAIN client : client[d] \in Download
    BY DEF TypeOK
  <1>7. ASSUME NEW d \in 1..MaxDownloads, ClientAdvance(d) PROVE TypeOK'
    <2>1. d \in DOMAIN client
      BY <1>7 DEF ClientAdvance
    <2>2. PICK s \in ClientNext(client[d].state) \cap Reports :
             client' = [client EXCEPT ![d].state = s, ![d].done = (s = "completed")]
      BY <1>7 DEF ClientAdvance
    <2>3. s \in ClientState
      BY DEF ClientNext, ClientState
    <2> DEFINE new == [client[d] EXCEPT !.state = s, !.done = (s = "completed")]
    <2>4. new \in Download
      BY <1>6, <2>1, <2>3 DEF Download
    <2>5. client' = [client EXCEPT ![d] = new]
      BY <2>1, <2>2 DEF TypeOK
    <2>6. QED
      BY <1>5, <1>7, <2>1, <2>4, <2>5 DEF ClientAdvance
  <1>8. ASSUME NEW d \in 1..MaxDownloads, ClientForget(d) PROVE TypeOK'
    <2> DEFINE new == [client[d] EXCEPT !.state = "gone"]
    <2>1. d \in DOMAIN client /\ new \in Download
      BY <1>6, <1>8 DEF ClientForget, Download, ClientState
    <2>2. client' = [client EXCEPT ![d] = new]
      BY <1>8 DEF ClientForget, TypeOK
    <2>3. QED
      BY <1>5, <1>8, <2>1, <2>2 DEF ClientForget
  <1>9. CASE WorkerRestarts
    <2>1. UNCHANGED <<jobs, nextJob, client, history>> /\ crashes' \in Nat
      BY <1>9 DEF WorkerRestarts, TypeOK, HistoryTyped
    <2>2. CASE DropSubmit
      <3>1. SubmitTyped' /\ PollTyped'
        BY <2>1, <2>2, PollGrows DEF DropSubmit, SubmitTyped, SubmitIdle, SubmitPC
      <3>2. QED
        BY <2>1, <3>1 DEF TypeOK, JobsTyped, Exists, Work, HistoryTyped, history
    <2>3. CASE DropPoll
      <3>1. /\ poll' = [todo |-> poll'.todo, answer |-> NoAnswer]
            /\ poll'.answer = NoAnswer /\ poll'.todo \subseteq poll.todo
        BY <2>3 DEF DropPoll, PollIdle, TypeOK, PollTyped
      <3>2. poll.todo \subseteq [job : 1..(nextJob - 1), did : 1..Len(client)]
        BY DEF TypeOK, PollTyped
      <3>3. PollTyped'
        BY <2>1, <3>1, <3>2 DEF PollTyped
      <3>4. SubmitTyped'
        BY <2>1, <2>3, SubmitGrows DEF DropPoll
      <3>5. QED
        BY <2>1, <3>3, <3>4 DEF TypeOK, JobsTyped, Exists, Work, HistoryTyped, history
    <2>4. QED
      BY <1>9, <2>2, <2>3 DEF WorkerRestarts
  <1>10. QED
    BY <1>1, <1>2, <1>3, <1>4, <1>7, <1>8, <1>9 DEF Time

LEMMA StepTyped == TypeOK /\ [Next]_vars => TypeOK'
  <1> SUFFICES ASSUME TypeOK, [Next]_vars PROVE TypeOK'
    OBVIOUS
  <1>1. CASE UNCHANGED vars
    BY <1>1 DEF vars, TypeOK, JobsTyped, Exists, Work, SubmitTyped, PollTyped, Answer,
                HistoryTyped
  <1>2. CASE Next
    BY <1>2, OperatorTyped, SubmitStepTyped, PollStepTyped, OtherTyped DEF Next
  <1>3. QED
    BY <1>1, <1>2

\* The types hold in every state: in particular the workers only remember
\* jobs that exist and ids the client gave, whatever is written, retried,
\* recovered or interrupted in between.
THEOREM TypeCorrect == Spec => []TypeOK
  <1>1. QED
    BY InitTyped, StepTyped, PTL DEF Spec

-----------------------------------------------------------------------------
(* What the steps do to the rows, for the invariants below.                *)

LEMMA RowEffects ==
    ASSUME NEW job \in Job
    PROVE  /\ /\ Claimed(job).status = "submitted"
              /\ Claimed(job).lease = "held"
              /\ Claimed(job).attempt = job.attempt + 1
           /\ \A did \in Nat : /\ Submitted(job, did).status = "downloading"
                               /\ Submitted(job, did).lease = "none"
                               /\ Submitted(job, did).attempt = job.attempt
           /\ \A s \in Status, o \in Nat :
                 /\ Progressed(job, s, o).lease = "none"
                 /\ Progressed(job, s, o).attempt = job.attempt
           /\ \A t \in BOOLEAN :
                 /\ Rescheduled(job, t).status \in {"queued", "failed"}
                 /\ Rescheduled(job, t).status = "queued" => ~t
                 /\ Rescheduled(job, t).lease = "none"
                 /\ Rescheduled(job, t).attempt = job.attempt
           /\ /\ Recovered(job).status \in {"queued", "failed"}
              /\ Recovered(job).status = "queued" => ~(job.attempt + 1 >= MaxAttempts)
              /\ Recovered(job).lease = "none"
              /\ Recovered(job).attempt = job.attempt + 1
           /\ /\ Retried(job).status = "queued"
              /\ Retried(job).lease = "none"
              /\ Retried(job).attempt = job.attempt
  <1>1. job = [status |-> job.status, attempt |-> job.attempt, due |-> job.due,
               lease |-> job.lease, downloadID |-> job.downloadID,
               output |-> job.output, cand |-> job.cand, uri |-> job.uri,
               attempted |-> job.attempted]
    BY DEF Job
  <1>2. /\ Claimed(job).status = "submitted"
        /\ Claimed(job).lease = "held"
        /\ Claimed(job).attempt = job.attempt + 1
    BY <1>1 DEF Claimed
  <1>3. \A did \in Nat : /\ Submitted(job, did).status = "downloading"
                        /\ Submitted(job, did).lease = "none"
                        /\ Submitted(job, did).attempt = job.attempt
    BY <1>1 DEF Submitted
  <1>4. \A s \in Status, o \in Nat : /\ Progressed(job, s, o).lease = "none"
                                   /\ Progressed(job, s, o).attempt = job.attempt
    BY <1>1 DEF Progressed
  <1>5. \A t \in BOOLEAN :
           /\ Rescheduled(job, t).status \in {"queued", "failed"}
           /\ Rescheduled(job, t).status = "queued" => ~t
           /\ Rescheduled(job, t).lease = "none"
           /\ Rescheduled(job, t).attempt = job.attempt
    BY <1>1 DEF Rescheduled
  <1>6. /\ Recovered(job).status \in {"queued", "failed"}
        /\ Recovered(job).status = "queued" => ~(job.attempt + 1 >= MaxAttempts)
        /\ Recovered(job).lease = "none"
        /\ Recovered(job).attempt = job.attempt + 1
    BY <1>1 DEF Recovered
  <1>7. /\ Retried(job).status = "queued"
        /\ Retried(job).lease = "none"
        /\ Retried(job).attempt = job.attempt
    BY <1>1 DEF Retried
  <1>8. QED
    BY <1>2, <1>3, <1>4, <1>5, <1>6, <1>7

\* The busy submit worker's job exists.
LEMMA SubmitJob ==
    ASSUME TypeOK, submit.pc # "idle"
    PROVE  /\ submit.job \in JobIds /\ submit.job < nextJob
           /\ Exists(submit.job) /\ jobs[submit.job] \in Job
  BY Existing DEF TypeOK, SubmitTyped, JobsTyped

\* So does the job of the answer the poll worker is about to write.
LEMMA AnswerJob ==
    ASSUME TypeOK, poll.answer # NoAnswer
    PROVE  /\ poll.answer.job \in JobIds /\ poll.answer.job < nextJob
           /\ Exists(poll.answer.job) /\ jobs[poll.answer.job] \in Job
           /\ poll.answer.status \in Active \cup Terminal
           /\ poll.answer.status \in Status /\ poll.answer.output \in Nat
  <1>1. poll.answer \in Answer
    BY DEF TypeOK, PollTyped
  <1>2. poll.answer.job \in 1..(nextJob - 1) /\ poll.answer.status \in Active \cup Terminal
        /\ poll.answer.output \in Nat
    BY <1>1 DEF Answer
  <1>3. QED
    BY <1>2, Existing DEF TypeOK, JobsTyped, Status

LEMMA RowWritten ==
    ASSUME TypeOK, NEW j \in JobIds, NEW row, jobs' = [jobs EXCEPT ![j] = row]
    PROVE  \A k \in JobIds : jobs'[k] = IF k = j THEN row ELSE jobs[k]
  BY DEF TypeOK, JobsTyped

\* CreateJob fills the row at nextJob, which no job had.
LEMMA RowCreated ==
    ASSUME TypeOK, NEW g, NEW c, NEW A, NEW p, CreateJob(g, c, A, p)
    PROVE  /\ nextJob \in JobIds /\ ~Exists(nextJob) /\ jobs[nextJob] = AbsentJob
           /\ \A k \in JobIds : k # nextJob => jobs'[k] = jobs[k]
           /\ jobs'[nextJob].status = "queued" /\ jobs'[nextJob].attempt = 0
           /\ jobs'[nextJob].lease = "none" /\ jobs'[nextJob].downloadID = 0
  <1>1. nextJob \in JobIds /\ ~Exists(nextJob) /\ jobs[nextJob] = AbsentJob
    BY BoundsAssumption DEF CreateJob, TypeOK, JobsTyped, JobIds, Exists, AbsentJob
  <1>2. jobs' = [jobs EXCEPT ![nextJob] = NewJob(g, c, A)]
    BY DEF CreateJob
  <1>3. /\ NewJob(g, c, A).status = "queued" /\ NewJob(g, c, A).attempt = 0
        /\ NewJob(g, c, A).lease = "none" /\ NewJob(g, c, A).downloadID = 0
    BY DEF NewJob, AbsentJob
  <1>4. \A k \in JobIds : jobs'[k] = IF k = nextJob THEN NewJob(g, c, A) ELSE jobs[k]
    BY <1>1, <1>2, RowWritten
  <1>5. QED
    BY <1>1, <1>3, <1>4

LEMMA RowsRecovered ==
    ASSUME TypeOK, RecoverExpiredLeases, NEW k \in JobIds
    PROVE  jobs'[k] = IF Expired(k) THEN Recovered(jobs[k]) ELSE jobs[k]
  BY DEF RecoverExpiredLeases

-----------------------------------------------------------------------------
(* No job is stranded.                                                     *)

LEMMA StrandedStep == TypeOK /\ PollInv /\ InReach /\ [Next]_vars
                         => PollInv' /\ InReach'
  <1> SUFFICES ASSUME TypeOK, PollInv, InReach, [Next]_vars
               PROVE  PollInv' /\ InReach'
    OBVIOUS
  \* Only rows matter: it is enough that each one still reachable and no id lost.
  <1> DEFINE Settled(k) == jobs[k].status \in Terminal \cup {"absent"} \/ Reachable(k)
             IdKept(k) == jobs[k].downloadID # 0 => jobs'[k].downloadID # 0
             Rows == \A k \in JobIds : Settled(k)' /\ IdKept(k)
  <1>0. \A k \in JobIds : Settled(k)
    BY DEF InReach, Exists
  <1>a. ASSUME Rows, UNCHANGED <<submit, poll>> PROVE PollInv' /\ InReach'
    <2>1. \A e \in poll.todo : e.job \in JobIds
      BY Existing DEF TypeOK, PollTyped
    <2>2. QED
      BY <1>a, <2>1, AnswerJob DEF PollInv, InReach, Exists
  <1>b. ASSUME Rows, poll' = poll, submit'.pc # "accepted" PROVE PollInv' /\ InReach'
    <2>1. \A e \in poll.todo : e.job \in JobIds
      BY Existing DEF TypeOK, PollTyped
    <2>2. QED
      BY <1>b, <2>1, AnswerJob DEF PollInv, InReach, Exists
  <1>c. ASSUME UNCHANGED jobs PROVE Rows
    BY <1>0, <1>c DEF Reachable
  <1>d. ASSUME NEW g, NEW c, NEW A, NEW p, CreateJob(g, c, A, p) PROVE Rows
    <2>1. /\ \A k \in JobIds : k # nextJob => jobs'[k] = jobs[k]
          /\ jobs'[nextJob].status = "queued" /\ jobs[nextJob].downloadID = 0
      BY <1>d, RowCreated DEF AbsentJob
    <2>2. ASSUME NEW k \in JobIds PROVE Settled(k)' /\ IdKept(k)
      <3>1. CASE k = nextJob
        BY <2>1, <3>1 DEF Reachable
      <3>2. CASE k # nextJob
        BY <1>0, <2>1, <3>2 DEF Reachable
      <3>3. QED
        BY <3>1, <3>2
    <2>3. QED
      BY <2>2
  \* One row is written.
  <1>e. ASSUME NEW j \in JobIds, NEW row, jobs' = [jobs EXCEPT ![j] = row],
               \/ row.status \in Terminal \cup {"queued"}
               \/ row.status = "submitted" /\ row.lease # "none"
               \/ row.downloadID # 0,
               row.downloadID = jobs[j].downloadID \/ row.downloadID # 0
        PROVE  Rows
    BY <1>0, <1>e, RowWritten DEF Reachable
  <1>1. ASSUME NEW c \in Grabs, EnqueueFromGrab(c) PROVE PollInv' /\ InReach'
    BY <1>1, <1>a, <1>d DEF EnqueueFromGrab
  <1>2. ASSUME NEW j \in JobIds, CancelJob(j) PROVE PollInv' /\ InReach'
    <2>1. /\ Progressed(jobs[j], "canceled", 0).status = "canceled"
          /\ Progressed(jobs[j], "canceled", 0).downloadID = jobs[j].downloadID
      <3>1. "canceled" \in Status /\ 0 \in Nat
        BY DEF Status, Terminal
      <3>2. QED
        BY <3>1, Existing, RowFields
    <2>2. Rows
      BY <1>2, <1>e, <2>1 DEF CancelJob, Terminal
    <2>3. QED
      BY <1>2, <1>a, <2>2 DEF CancelJob
  <1>3. ASSUME NEW j \in JobIds, RetryJob(j) PROVE PollInv' /\ InReach'
    <2>1. /\ Retried(jobs[j]).status = "queued"
          /\ Retried(jobs[j]).downloadID = jobs[j].downloadID
      BY Existing, RowFields, RowEffects
    <2>2. Rows
      BY <1>3, <1>e, <2>1 DEF RetryJob
    <2>3. QED
      BY <1>3, <1>a, <2>2 DEF RetryJob
  <1>4. ASSUME NEW j \in JobIds, ClaimNextQueued(j) PROVE PollInv' /\ InReach'
    <2>1. /\ Claimed(jobs[j]).status = "submitted" /\ Claimed(jobs[j]).lease = "held"
          /\ Claimed(jobs[j]).downloadID = jobs[j].downloadID
      BY Existing, RowFields, RowEffects
    <2>2. Rows
      BY <1>4, <1>e, <2>1 DEF ClaimNextQueued
    <2>3. QED
      BY <1>4, <1>b, <2>2 DEF ClaimNextQueued, SubmitIdle
  <1>5. CASE AddDownloadTaken
    <2>1. Rows /\ UNCHANGED <<jobs, poll>>
      BY <1>5, <1>c DEF AddDownloadTaken
    <2>2. submit' = [submit EXCEPT !.pc = "refused"] => submit'.pc # "accepted"
      BY DEF TypeOK, SubmitTyped
    <2>3. Len(client) + 1 # 0
      BY Lengths
    <2>4. submit' = [submit EXCEPT !.pc = "accepted", !.did = Len(client) + 1]
              => submit'.did # 0
      BY <2>3 DEF TypeOK, SubmitTyped
    <2>5. PollInv'
      BY <1>5, <2>1, <2>2, <2>4 DEF AddDownloadTaken, PollInv
    <2>6. InReach'
      BY <2>1 DEF InReach, Exists, Reachable
    <2>7. QED
      BY <2>5, <2>6
  <1>6. CASE MarkSubmitted
    <2>1. submit.job \in JobIds /\ jobs[submit.job] \in Job
          /\ submit.did \in Nat /\ submit.did # 0
      BY <1>6, SubmitJob DEF MarkSubmitted, PollInv, TypeOK, SubmitTyped
    <2>2. Submitted(jobs[submit.job], submit.did).downloadID = submit.did
      BY <2>1, RowFields
    <2>3. Rows
      BY <1>6, <1>e, <2>1, <2>2 DEF MarkSubmitted
    <2>4. QED
      BY <1>6, <1>b, <2>3 DEF MarkSubmitted, SubmitIdle
  <1>7. CASE AddDownloadRefused \/ ListFallbacks \/ NoFallbackLeft
             \/ \E c \in Candidates : SkipFallback(c)
    <2>1. UNCHANGED <<jobs, poll>> /\ submit'.pc # "accepted"
      BY <1>7 DEF AddDownloadRefused, ListFallbacks, NoFallbackLeft, SkipFallback,
                  TypeOK, SubmitTyped
    <2>2. QED
      BY <1>b, <1>c, <2>1
  <1>8. ASSUME NEW c \in Candidates, GrabFallback(c) PROVE PollInv' /\ InReach'
    <2>1. Rows
      BY <1>8, <1>d DEF GrabFallback
    <2>2. poll' = poll /\ submit'.pc # "accepted"
      BY <1>8 DEF GrabFallback, TypeOK, SubmitTyped
    <2>3. QED
      BY <1>b, <2>1, <2>2
  <1>9. CASE CloseReplaced
    <2>1. submit.job \in JobIds /\ jobs[submit.job] \in Job
      BY <1>9, SubmitJob DEF CloseReplaced
    <2>2. /\ Progressed(jobs[submit.job], "failed", 0).status = "failed"
          /\ Progressed(jobs[submit.job], "failed", 0).downloadID
                = jobs[submit.job].downloadID
      <3>1. "failed" \in Status /\ 0 \in Nat
        BY DEF Status, Terminal
      <3>2. QED
        BY <2>1, <3>1, RowFields
    <2>3. Rows
      BY <1>9, <1>e, <2>1, <2>2 DEF CloseReplaced, Terminal
    <2>4. QED
      BY <1>9, <1>b, <2>3 DEF CloseReplaced, SubmitIdle
  <1>10. CASE Reschedule
    <2> DEFINE row == Rescheduled(jobs[submit.job], submit.attempt >= MaxAttempts)
    <2>1. submit.job \in JobIds /\ jobs[submit.job] \in Job
          /\ (submit.attempt >= MaxAttempts) \in BOOLEAN
      BY <1>10, SubmitJob, BoundsAssumption DEF Reschedule, TypeOK, SubmitTyped
    <2>2. row.status \in {"queued", "failed"}
          /\ row.downloadID = jobs[submit.job].downloadID
      BY <2>1, RowFields, RowEffects
    <2>3. Rows
      BY <1>10, <1>e, <2>1, <2>2 DEF Reschedule, Terminal
    <2>4. QED
      BY <1>10, <1>b, <2>3 DEF Reschedule, SubmitIdle
  <1>11. CASE ListActiveJobs
    <2>1. poll'.todo = PollSnapshot /\ poll'.answer = NoAnswer
          /\ UNCHANGED <<jobs, submit>>
      BY <1>11 DEF ListActiveJobs, PollIdle
    <2>2. \A e \in PollSnapshot : jobs[e.job].downloadID # 0
      BY DEF PollSnapshot
    <2>3. PollInv'
      BY <2>1, <2>2 DEF PollInv
    <2>4. InReach'
      BY <2>1 DEF InReach, Exists, Reachable
    <2>5. QED
      BY <2>3, <2>4
  <1>12. ASSUME NEW e \in poll.todo, GetStatus(e) PROVE PollInv' /\ InReach'
    <2>1. UNCHANGED <<jobs, submit>> /\ poll'.todo \subseteq poll.todo
          /\ poll'.answer.job = e.job
      BY <1>12 DEF GetStatus, PollAnswer
    <2>2. PollInv'
      BY <2>1 DEF PollInv
    <2>3. InReach'
      BY <2>1 DEF InReach, Exists, Reachable
    <2>4. QED
      BY <2>2, <2>3
  <1>13. CASE UpdateProgress
    <2> DEFINE a == poll.answer
               row == Progressed(jobs[a.job], a.status, a.output)
    <2>1. a.job \in JobIds /\ jobs[a.job].downloadID # 0
      BY <1>13, AnswerJob DEF UpdateProgress, PollInv
    <2>2. row.downloadID = jobs[a.job].downloadID
      BY <1>13, AnswerJob, RowFields DEF UpdateProgress
    <2>3. Rows
      BY <1>13, <1>e, <2>1, <2>2 DEF UpdateProgress
    <2>4. submit' = submit /\ poll'.todo = poll.todo /\ poll'.answer = NoAnswer
      BY <1>13 DEF UpdateProgress, TypeOK, PollTyped
    <2>5. \A e \in poll.todo : e.job \in JobIds
      BY Existing DEF TypeOK, PollTyped
    <2>6. QED
      BY <2>3, <2>4, <2>5 DEF PollInv, InReach, Exists
  <1>14. CASE RecoverExpiredLeases
    <2>1. ASSUME NEW k \in JobIds PROVE Settled(k)' /\ IdKept(k)
      <3>1. jobs'[k] = jobs[k] \/ jobs'[k] = Recovered(jobs[k])
        BY <1>14, RowsRecovered
      <3>2. /\ Recovered(jobs[k]).status \in {"queued", "failed"}
            /\ Recovered(jobs[k]).downloadID = jobs[k].downloadID
        BY Existing, RowFields, RowEffects
      <3>3. QED
        BY <1>0, <3>1, <3>2 DEF Reachable, Terminal
    <2>2. Rows
      BY <2>1
    <2>3. QED
      BY <1>14, <1>a, <2>2 DEF RecoverExpiredLeases
  <1>15. ASSUME NEW j \in JobIds, LeaseExpires(j) \/ BackoffElapses(j)
         PROVE  PollInv' /\ InReach'
    <2>1. ASSUME NEW k \in JobIds
          PROVE  /\ jobs'[k].status = jobs[k].status
                 /\ jobs'[k].downloadID = jobs[k].downloadID
                 /\ jobs[k].lease # "none" => jobs'[k].lease # "none"
      <3>1. jobs[j] \in Job
        BY Existing
      <3>2. CASE LeaseExpires(j)
        BY <3>1, <3>2, RowWritten DEF LeaseExpires, Job
      <3>3. CASE BackoffElapses(j)
        BY <3>1, <3>3, RowWritten DEF BackoffElapses, Job
      <3>4. QED
        BY <1>15, <3>2, <3>3
    <2>2. Rows
      BY <1>0, <2>1 DEF Reachable
    <2>3. QED
      BY <1>15, <1>a, <2>2 DEF LeaseExpires, BackoffElapses
  <1>16. CASE Restart
    BY <1>16 DEF Restart, PollInv, PollIdle, SubmitIdle, InReach, Reachable, Exists
  <1>17. CASE UNCHANGED <<jobs, submit, poll>>
    BY <1>17, <1>a, <1>c
  <1>18. ASSUME NEW d \in 1..MaxDownloads, ClientAdvance(d) \/ ClientForget(d)
         PROVE  PollInv' /\ InReach'
    BY <1>17, <1>18 DEF ClientAdvance, ClientForget
  <1>19. CASE UNCHANGED vars
    BY <1>17, <1>19 DEF vars
  <1>20. CASE WorkerRestarts
    <2>1. UNCHANGED jobs
      BY <1>20 DEF WorkerRestarts
    <2>2. CASE DropSubmit
      BY <1>b, <1>c, <2>1, <2>2 DEF DropSubmit, SubmitIdle
    <2>3. CASE DropPoll
      <3>1. submit' = submit /\ poll'.todo \subseteq poll.todo /\ poll'.answer = NoAnswer
        BY <2>3 DEF DropPoll, PollIdle, TypeOK, PollTyped
      <3>2. QED
        BY <2>1, <3>1 DEF PollInv, InReach, Exists, Reachable
    <2>4. QED
      BY <1>20, <2>2, <2>3 DEF WorkerRestarts
  <1>21. QED
    BY <1>1, <1>2, <1>3, <1>4, <1>5, <1>6, <1>7, <1>8, <1>9, <1>10, <1>11, <1>12,
       <1>13, <1>14, <1>15, <1>16, <1>18, <1>19, <1>20
       DEF Next, Operator, SubmitStep, PollStep, Time

\* No job is ever out of every worker's reach (NeverStranded), for any
\* number of jobs, attempts, retries and restarts.
THEOREM NeverStrandedHolds == Spec => []NeverStranded
  <1>1. Init => PollInv /\ InReach
    BY DEF Init, PollInv, PollIdle, SubmitIdle, InReach, Exists, AbsentJob
  <1>2. InReach => NeverStranded
    BY DEF NeverStranded
  <1>3. QED
    BY <1>1, <1>2, StrandedStep, TypeCorrect, PTL DEF Spec

-----------------------------------------------------------------------------
(* Submissions are bounded.                                                *)

LEMMA BudgetStep == TypeOK /\ BudgetInv /\ [Next]_vars => BudgetInv'
  <1> SUFFICES ASSUME TypeOK, BudgetInv, [Next]_vars PROVE BudgetInv'
    OBVIOUS
  <1>m. MaxAttempts \in Nat \ {0}
    BY BoundsAssumption
  <1> USE <1>m
  <1> DEFINE Paid(k) == /\ claims[k] <= jobs[k].attempt
                        /\ claims[k] <= MaxAttempts + retries[k]
                        /\ jobs[k].status = "queued" =>
                               claims[k] < MaxAttempts + retries[k]
  <1>0. /\ \A k \in JobIds : Paid(k)
        /\ \A k \in JobIds : claims[k] \in Nat /\ retries[k] \in Nat
        /\ \A k \in JobIds : jobs[k].attempt \in Nat /\ jobs[k].attempt + 1 \in Nat
        /\ submit.pc # "idle" => claims[submit.job] <= submit.attempt
        /\ submit.attempt \in Nat
    <2>1. \A k \in JobIds : jobs[k].attempt \in Nat /\ jobs[k].attempt + 1 \in Nat
      BY Existing DEF Job
    <2>2. /\ \A k \in JobIds : claims[k] \in Nat /\ retries[k] \in Nat
          /\ submit.attempt \in Nat
      BY DEF TypeOK, HistoryTyped, SubmitTyped
    <2>3. QED
      BY <2>1, <2>2, Zenon DEF BudgetInv
  \* The counters stand; the worker keeps its job or lets go of it.
  <1>a. ASSUME \A k \in JobIds : Paid(k)', UNCHANGED <<claims, retries>>,
               \/ submit'.pc = "idle"
               \/ /\ submit.pc # "idle" /\ submit'.job = submit.job
                  /\ submit'.attempt = submit.attempt
        PROVE  BudgetInv'
    BY <1>0, <1>a DEF BudgetInv
  <1>f. ASSUME \A k \in JobIds : Paid(k)', UNCHANGED <<claims, retries>>,
               submit' = SubmitIdle
        PROVE  BudgetInv'
    <2>1. submit'.pc = "idle"
      BY <1>f DEF SubmitIdle
    <2>2. QED
      BY <1>f, <2>1 DEF BudgetInv
  <1>b. ASSUME UNCHANGED <<jobs, claims, retries>> PROVE \A k \in JobIds : Paid(k)'
    BY <1>0, <1>b
  <1>c. ASSUME NEW g, NEW c, NEW A, NEW p, CreateJob(g, c, A, p), UNCHANGED <<claims, retries>>
        PROVE  \A k \in JobIds : Paid(k)'
    <2>1. claims[nextJob] = 0 /\ nextJob \in JobIds
      BY <1>0, <1>c, RowCreated DEF AbsentJob
    <2>2. ASSUME NEW k \in JobIds PROVE Paid(k)'
      <3>1. CASE k = nextJob
        BY <1>0, <1>c, <2>1, <3>1, RowCreated
      <3>2. CASE k # nextJob
        BY <1>0, <1>c, <3>2, RowCreated
      <3>3. QED
        BY <3>1, <3>2
    <2>3. QED
      BY <2>2
  \* A row is written that is not queued, or that has an attempt to spare.
  <1>d. ASSUME NEW j \in JobIds, NEW row, jobs' = [jobs EXCEPT ![j] = row],
               row.attempt = jobs[j].attempt,
               row.status = "queued" => claims[j] < MaxAttempts + retries[j],
               UNCHANGED <<claims, retries>>
        PROVE  \A k \in JobIds : Paid(k)'
    BY <1>0, <1>d, RowWritten
  <1>e. ASSUME UNCHANGED submit
        PROVE  \/ submit'.pc = "idle"
               \/ /\ submit.pc # "idle" /\ submit'.job = submit.job
                  /\ submit'.attempt = submit.attempt
    BY <1>e
  <1>1. ASSUME NEW c \in Grabs, EnqueueFromGrab(c) PROVE BudgetInv'
    BY <1>1, <1>a, <1>c, <1>e DEF EnqueueFromGrab
  <1>2. ASSUME NEW j \in JobIds, CancelJob(j) PROVE BudgetInv'
    <2>1. /\ Progressed(jobs[j], "canceled", 0).status = "canceled"
          /\ Progressed(jobs[j], "canceled", 0).attempt = jobs[j].attempt
      <3>1. "canceled" \in Status /\ 0 \in Nat
        BY DEF Status, Terminal
      <3>2. QED
        BY <3>1, Existing, RowFields, RowEffects
    <2>2. \A k \in JobIds : Paid(k)'
      BY <1>2, <1>d, <2>1 DEF CancelJob, history
    <2>3. QED
      BY <1>2, <1>a, <1>e, <2>2 DEF CancelJob, history
  \* The operator's retry adds to the budget what it lets out.
  <1>3. ASSUME NEW j \in JobIds, RetryJob(j) PROVE BudgetInv'
    <2>1. Retried(jobs[j]).attempt = jobs[j].attempt
      BY Existing, RowEffects
    <2>2. \A k \in JobIds : /\ retries'[k] = IF k = j THEN retries[k] + 1 ELSE retries[k]
                            /\ claims'[k] = claims[k]
                            /\ jobs'[k] = IF k = j THEN Retried(jobs[j]) ELSE jobs[k]
      BY <1>3, RowWritten DEF RetryJob, TypeOK, HistoryTyped
    <2>3. \A k \in JobIds : Paid(k)'
      BY <1>0, <2>1, <2>2
    <2>4. QED
      BY <1>0, <1>3, <2>3 DEF RetryJob, BudgetInv
  <1>4. ASSUME NEW j \in JobIds, ClaimNextQueued(j) PROVE BudgetInv'
    <2>1. /\ Claimed(jobs[j]).status = "submitted"
          /\ Claimed(jobs[j]).attempt = jobs[j].attempt + 1
      BY Existing, RowEffects
    <2>2. \A k \in JobIds : /\ claims'[k] = IF k = j THEN claims[k] + 1 ELSE claims[k]
                            /\ retries'[k] = retries[k]
                            /\ jobs'[k] = IF k = j THEN Claimed(jobs[j]) ELSE jobs[k]
      BY <1>4, RowWritten DEF ClaimNextQueued, TypeOK, HistoryTyped
    <2>3. claims[j] < MaxAttempts + retries[j]
      BY <1>0, <1>4 DEF ClaimNextQueued, Claimable
    <2>4. \A k \in JobIds : Paid(k)'
      BY <1>0, <2>1, <2>2, <2>3
    <2>5. submit'.job = j /\ submit'.attempt = jobs[j].attempt + 1
      BY <1>4 DEF ClaimNextQueued, SubmitIdle
    <2>6. claims'[j] <= jobs[j].attempt + 1
      BY <1>0, <2>2
    <2>7. QED
      BY <2>4, <2>5, <2>6 DEF BudgetInv
  <1>5. CASE AddDownloadTaken \/ AddDownloadRefused \/ ListFallbacks \/ NoFallbackLeft
             \/ \E c \in Candidates : SkipFallback(c)
    <2>1. /\ UNCHANGED <<jobs, claims, retries>>
          /\ submit.pc # "idle" /\ submit'.job = submit.job
          /\ submit'.attempt = submit.attempt
      BY <1>5 DEF AddDownloadTaken, AddDownloadRefused, ListFallbacks, NoFallbackLeft,
                  SkipFallback, history, TypeOK, SubmitTyped
    <2>2. QED
      BY <1>a, <1>b, <2>1
  <1>6. CASE MarkSubmitted
    <2>1. submit.job \in JobIds /\ jobs[submit.job] \in Job /\ submit.did \in Nat
      BY <1>6, SubmitJob DEF MarkSubmitted, TypeOK, SubmitTyped
    <2>2. /\ Submitted(jobs[submit.job], submit.did).status = "downloading"
          /\ Submitted(jobs[submit.job], submit.did).attempt = jobs[submit.job].attempt
      BY <2>1, RowEffects
    <2>3. \A k \in JobIds : Paid(k)'
      BY <1>6, <1>d, <2>1, <2>2 DEF MarkSubmitted
    <2>4. QED
      BY <1>6, <1>f, <2>3 DEF MarkSubmitted
  <1>7. ASSUME NEW c \in Candidates, GrabFallback(c) PROVE BudgetInv'
    <2>1. /\ submit.pc # "idle" /\ submit'.job = submit.job
          /\ submit'.attempt = submit.attempt
      BY <1>7 DEF GrabFallback, TypeOK, SubmitTyped
    <2>2. \A k \in JobIds : Paid(k)'
      BY <1>7, <1>c DEF GrabFallback
    <2>3. QED
      BY <1>7, <1>a, <2>1, <2>2 DEF GrabFallback
  <1>8. CASE CloseReplaced
    <2>1. submit.job \in JobIds /\ jobs[submit.job] \in Job
      BY <1>8, SubmitJob DEF CloseReplaced
    <2>2. /\ Progressed(jobs[submit.job], "failed", 0).status = "failed"
          /\ Progressed(jobs[submit.job], "failed", 0).attempt = jobs[submit.job].attempt
      <3>1. "failed" \in Status /\ 0 \in Nat
        BY DEF Status, Terminal
      <3>2. QED
        BY <2>1, <3>1, RowFields, RowEffects
    <2>3. \A k \in JobIds : Paid(k)'
      BY <1>8, <1>d, <2>1, <2>2 DEF CloseReplaced, history
    <2>4. QED
      BY <1>8, <1>f, <2>3 DEF CloseReplaced, history
  \* Not terminal: the worker's snapshot, which covers the claims, is below the cap.
  <1>9. CASE Reschedule
    <2> DEFINE row == Rescheduled(jobs[submit.job], submit.attempt >= MaxAttempts)
    <2>1. submit.job \in JobIds /\ jobs[submit.job] \in Job
          /\ (submit.attempt >= MaxAttempts) \in BOOLEAN
      BY <1>9, SubmitJob DEF Reschedule, TypeOK, SubmitTyped
    <2>2. /\ row.status = "queued" => ~(submit.attempt >= MaxAttempts)
          /\ row.attempt = jobs[submit.job].attempt
      BY <2>1, RowEffects, ZenonT(60)
    <2>3. row.status = "queued" =>
             claims[submit.job] < MaxAttempts + retries[submit.job]
      BY <1>0, <1>9, <2>1, <2>2 DEF Reschedule
    <2>4. \A k \in JobIds : Paid(k)'
      BY <1>9, <1>d, <2>1, <2>2, <2>3 DEF Reschedule, history
    <2>5. QED
      BY <1>9, <1>f, <2>4 DEF Reschedule, history
  <1>10. CASE ListActiveJobs \/ \E e \in poll.todo : GetStatus(e)
    BY <1>10, <1>a, <1>b, <1>e DEF ListActiveJobs, GetStatus, history
  <1>11. CASE UpdateProgress
    <2> DEFINE a == poll.answer
               row == Progressed(jobs[a.job], a.status, a.output)
    <2>1. a.job \in JobIds /\ row.attempt = jobs[a.job].attempt /\ row.status # "queued"
      BY <1>11, AnswerJob, RowFields, RowEffects DEF UpdateProgress, Active, Terminal
    <2>2. \A k \in JobIds : Paid(k)'
      BY <1>11, <1>d, <2>1 DEF UpdateProgress, history
    <2>3. QED
      BY <1>11, <1>a, <1>e, <2>2 DEF UpdateProgress, history
  <1>12. CASE RecoverExpiredLeases
    <2>1. ASSUME NEW k \in JobIds PROVE Paid(k)'
      <3>1. /\ Recovered(jobs[k]).status = "queued" => ~(jobs[k].attempt + 1 >= MaxAttempts)
            /\ Recovered(jobs[k]).attempt = jobs[k].attempt + 1
        BY Existing, RowEffects
      <3>2. UNCHANGED <<claims, retries>>
        BY <1>12 DEF RecoverExpiredLeases, history
      <3>3. jobs'[k] = jobs[k] \/ jobs'[k] = Recovered(jobs[k])
        BY <1>12, RowsRecovered
      <3>4. QED
        BY <1>0, <3>1, <3>2, <3>3
    <2>2. QED
      BY <1>12, <1>a, <1>e, <2>1 DEF RecoverExpiredLeases, history
  <1>13. ASSUME NEW j \in JobIds, LeaseExpires(j) \/ BackoffElapses(j) PROVE BudgetInv'
    <2>1. UNCHANGED <<claims, retries, submit>>
      BY <1>13 DEF LeaseExpires, BackoffElapses, history
    <2>2. ASSUME NEW k \in JobIds
          PROVE  jobs'[k].status = jobs[k].status /\ jobs'[k].attempt = jobs[k].attempt
      <3>1. jobs[j] \in Job
        BY Existing
      <3>2. CASE LeaseExpires(j)
        BY <3>1, <3>2, RowWritten DEF LeaseExpires, Job
      <3>3. CASE BackoffElapses(j)
        BY <3>1, <3>3, RowWritten DEF BackoffElapses, Job
      <3>4. QED
        BY <1>13, <3>2, <3>3
    <2>3. QED
      BY <1>0, <1>a, <1>e, <2>1, <2>2
  <1>14. CASE Restart
    BY <1>14, <1>b, <1>f DEF Restart, history
  <1>15. CASE \/ UNCHANGED vars
              \/ \E d \in 1..MaxDownloads : ClientAdvance(d) \/ ClientForget(d)
    <2>1. UNCHANGED <<jobs, claims, retries, submit>>
      BY <1>15 DEF vars, ClientAdvance, ClientForget, history
    <2>2. QED
      BY <1>a, <1>b, <1>e, <2>1
  <1>16. CASE WorkerRestarts
    <2>1. UNCHANGED <<jobs, claims, retries>> /\ submit' \in {submit, SubmitIdle}
      BY <1>16 DEF WorkerRestarts, DropSubmit, DropPoll, history
    <2>2. QED
      BY <1>a, <1>b, <1>e, <1>f, <2>1
  <1>17. QED
    BY <1>1, <1>2, <1>3, <1>4, <1>5, <1>6, <1>7, <1>8, <1>9, <1>10, <1>11, <1>12,
       <1>13, <1>14, <1>15, <1>16
       DEF Next, Operator, SubmitStep, PollStep, Time

\* Retries are bounded (SubmissionsBounded): a job is handed to the client at
\* most MaxAttempts times plus once per operator retry, however claims,
\* recoveries of lapsed leases, late verdicts and restarts interleave.
THEOREM SubmissionsBoundedHolds == Spec => []SubmissionsBounded
  <1>1. Init => BudgetInv
    BY BoundsAssumption DEF Init, BudgetInv, SubmitIdle, AbsentJob
  <1>2. BudgetInv => SubmissionsBounded
    BY DEF BudgetInv, SubmissionsBounded
  <1>3. QED
    BY <1>1, <1>2, BudgetStep, TypeCorrect, PTL DEF Spec

-----------------------------------------------------------------------------
(* What the client acknowledged is not submitted again.                    *)

LEMMA AckStep == TypeOK /\ AckInv /\ [Next]_vars => AckInv'
  <1> SUFFICES ASSUME TypeOK, AckInv, [Next]_vars PROVE AckInv'
    OBVIOUS
  <1> DEFINE Put(k) == /\ acks[k] > 0 /\ retries[k] = 0 =>
                             /\ acks[k] = 1
                             /\ jobs[k].status # "queued"
                             /\ jobs[k].lease = "none"
                       /\ ~Exists(k) => acks[k] = 0
             Loose(k) == acks[k] = 0 \/ retries[k] > 0
  <1>0. /\ \A k \in JobIds : Put(k)
        /\ submit.pc # "idle" => Loose(submit.job)
    BY DEF AckInv, AckedNotResubmitted
  <1>1. \A k \in JobIds : acks[k] \in Nat /\ retries[k] \in Nat
    BY DEF TypeOK, HistoryTyped
  <1>a. ASSUME \A k \in JobIds : Put(k)', UNCHANGED <<acks, retries>>,
               submit'.pc = "idle" \/ (submit.pc # "idle" /\ submit'.job = submit.job)
        PROVE  AckInv'
    BY <1>0, <1>a DEF AckInv, AckedNotResubmitted
  <1>b. ASSUME \A k \in JobIds : Put(k)', UNCHANGED <<acks, retries, submit>>
        PROVE  AckInv'
    BY <1>0, <1>b DEF AckInv, AckedNotResubmitted
  <1>i. ASSUME submit' = SubmitIdle PROVE submit'.pc = "idle"
    BY <1>i DEF SubmitIdle
  <1>f. ASSUME \A k \in JobIds : Put(k)', UNCHANGED <<acks, retries>>,
               submit' = SubmitIdle
        PROVE  AckInv'
    BY <1>f, <1>i DEF AckInv, AckedNotResubmitted
  <1>c. ASSUME UNCHANGED <<jobs, acks, retries>> PROVE \A k \in JobIds : Put(k)'
    BY <1>0, <1>c DEF Exists
  <1>d. ASSUME NEW g, NEW c, NEW A, NEW p, CreateJob(g, c, A, p), UNCHANGED <<acks, retries>>
        PROVE  \A k \in JobIds : Put(k)'
    <2>1. ASSUME NEW k \in JobIds PROVE Put(k)'
      <3>1. CASE k = nextJob
        BY <1>0, <1>d, <3>1, RowCreated DEF Exists
      <3>2. CASE k # nextJob
        BY <1>0, <1>d, <3>2, RowCreated DEF Exists
      <3>3. QED
        BY <3>1, <3>2
    <2>2. QED
      BY <2>1
  \* One row is written, that of a job that may move or one that stays put.
  <1>e. ASSUME NEW j \in JobIds, NEW row, jobs' = [jobs EXCEPT ![j] = row],
               row.status # "absent", Exists(j),
               Loose(j) \/ (row.status # "queued" /\ row.lease = "none"),
               UNCHANGED <<acks, retries>>
        PROVE  \A k \in JobIds : Put(k)'
    BY <1>0, <1>1, <1>e, RowWritten DEF Exists
  <1>2. ASSUME NEW c \in Grabs, EnqueueFromGrab(c) PROVE AckInv'
    BY <1>2, <1>b, <1>d DEF EnqueueFromGrab
  <1>3. ASSUME NEW j \in JobIds, CancelJob(j) PROVE AckInv'
    <2>1. "canceled" \in Status /\ 0 \in Nat
      BY DEF Status, Terminal
    <2>2. /\ Progressed(jobs[j], "canceled", 0).status = "canceled"
          /\ Progressed(jobs[j], "canceled", 0).lease = "none"
      BY <2>1, Existing, RowFields, RowEffects
    <2>3. \A k \in JobIds : Put(k)'
      BY <1>3, <1>e, <2>2 DEF CancelJob, history
    <2>4. QED
      BY <1>3, <1>b, <2>3 DEF CancelJob, history
  <1>4. ASSUME NEW j \in JobIds, RetryJob(j) PROVE AckInv'
    <2>1. Retried(jobs[j]).status = "queued"
      BY Existing, RowEffects
    <2>2. \A k \in JobIds : /\ retries'[k] = IF k = j THEN retries[k] + 1 ELSE retries[k]
                            /\ acks'[k] = acks[k]
                            /\ jobs'[k] = IF k = j THEN Retried(jobs[j]) ELSE jobs[k]
      BY <1>4, RowWritten DEF RetryJob, TypeOK, HistoryTyped
    <2>3. \A k \in JobIds : Put(k)'
      BY <1>0, <1>1, <1>4, <2>1, <2>2 DEF RetryJob, Exists
    <2>4. submit'.pc # "idle" => Loose(submit.job)'
      BY <1>0, <1>1, <1>4, <2>2, SubmitJob DEF RetryJob
    <2>5. QED
      BY <1>4, <2>3, <2>4 DEF RetryJob, AckInv, AckedNotResubmitted
  \* A claim takes a queued job, and no job that stays put is queued.
  <1>5. ASSUME NEW j \in JobIds, ClaimNextQueued(j) PROVE AckInv'
    <2>1. jobs[j].status = "queued" /\ Exists(j) /\ Loose(j)
      BY <1>0, <1>1, <1>5 DEF ClaimNextQueued, Claimable, Exists
    <2>2. Claimed(jobs[j]).status = "submitted"
      BY Existing, RowEffects
    <2>3. UNCHANGED <<acks, retries>> /\ submit'.job = j
      BY <1>5 DEF ClaimNextQueued, SubmitIdle
    <2>4. \A k \in JobIds : Put(k)'
      BY <1>5, <1>e, <2>1, <2>2, <2>3 DEF ClaimNextQueued
    <2>5. QED
      BY <2>1, <2>3, <2>4 DEF AckInv, AckedNotResubmitted
  <1>6. CASE AddDownloadTaken \/ AddDownloadRefused \/ ListFallbacks \/ NoFallbackLeft
             \/ \E c \in Candidates : SkipFallback(c)
    <2>1. /\ UNCHANGED <<jobs, acks, retries>>
          /\ submit.pc # "idle" /\ submit'.job = submit.job
      BY <1>6 DEF AddDownloadTaken, AddDownloadRefused, ListFallbacks, NoFallbackLeft,
                  SkipFallback, history, TypeOK, SubmitTyped
    <2>2. QED
      BY <1>a, <1>c, <2>1
  \* The worker's job is loose, so the acknowledgement is its first or the
  \* operator asked for another; either way the lease is released.
  <1>7. CASE MarkSubmitted
    <2>1. submit.job \in JobIds /\ jobs[submit.job] \in Job /\ submit.did \in Nat
          /\ Loose(submit.job)
      BY <1>0, <1>7, SubmitJob DEF MarkSubmitted, TypeOK, SubmitTyped
    <2>2. /\ Submitted(jobs[submit.job], submit.did).status = "downloading"
          /\ Submitted(jobs[submit.job], submit.did).lease = "none"
      BY <2>1, RowEffects
    <2>3. /\ \A k \in JobIds :
                /\ acks'[k] = IF k = submit.job THEN acks[k] + 1 ELSE acks[k]
                /\ retries'[k] = retries[k]
                /\ jobs'[k] = IF k = submit.job
                              THEN Submitted(jobs[submit.job], submit.did) ELSE jobs[k]
          /\ submit'.pc = "idle"
      BY <1>7, <1>i, <2>1, RowWritten, ZenonT(60) DEF MarkSubmitted, TypeOK, HistoryTyped
    <2>4. ASSUME NEW k \in JobIds PROVE Put(k)'
      <3>1. CASE k = submit.job
        BY <1>1, <2>1, <2>2, <2>3, <3>1 DEF Exists
      <3>2. CASE k # submit.job
        BY <1>0, <2>3, <3>2 DEF Exists
      <3>3. QED
        BY <3>1, <3>2
    <2>5. QED
      BY <2>3, <2>4 DEF AckInv, AckedNotResubmitted
  <1>8. ASSUME NEW c \in Candidates, GrabFallback(c) PROVE AckInv'
    <2>1. submit.pc # "idle" /\ submit'.job = submit.job
      BY <1>8 DEF GrabFallback, TypeOK, SubmitTyped
    <2>2. QED
      BY <1>8, <1>a, <1>d, <2>1 DEF GrabFallback
  <1>9. CASE CloseReplaced
    <2>1. submit.job \in JobIds /\ jobs[submit.job] \in Job /\ Exists(submit.job)
          /\ "failed" \in Status /\ 0 \in Nat
      BY <1>9, SubmitJob DEF CloseReplaced, Status, Terminal
    <2>2. /\ Progressed(jobs[submit.job], "failed", 0).status = "failed"
          /\ Progressed(jobs[submit.job], "failed", 0).lease = "none"
      BY <2>1, RowFields, RowEffects
    <2>3. \A k \in JobIds : Put(k)'
      BY <1>9, <1>e, <2>1, <2>2 DEF CloseReplaced, history
    <2>4. QED
      BY <1>9, <1>f, <2>3 DEF CloseReplaced, history
  <1>10. CASE Reschedule
    <2> DEFINE row == Rescheduled(jobs[submit.job], submit.attempt >= MaxAttempts)
    <2>1. submit.job \in JobIds /\ jobs[submit.job] \in Job /\ Exists(submit.job)
          /\ (submit.attempt >= MaxAttempts) \in BOOLEAN /\ Loose(submit.job)
      BY <1>0, <1>10, SubmitJob, BoundsAssumption DEF Reschedule, TypeOK, SubmitTyped
    <2>2. row.status # "absent"
      BY <2>1, RowFields
    <2>3. \A k \in JobIds : Put(k)'
      BY <1>10, <1>e, <2>1, <2>2 DEF Reschedule, history
    <2>4. QED
      BY <1>10, <1>f, <2>3 DEF Reschedule, history
  <1>11. CASE ListActiveJobs \/ \E e \in poll.todo : GetStatus(e)
    BY <1>11, <1>b, <1>c DEF ListActiveJobs, GetStatus, history
  \* An answer never queues a job and releases the lease.
  <1>12. CASE UpdateProgress
    <2> DEFINE a == poll.answer
               row == Progressed(jobs[a.job], a.status, a.output)
    <2>1. /\ a.job \in JobIds /\ Exists(a.job)
          /\ row.status \notin {"queued", "absent"} /\ row.lease = "none"
      BY <1>12, AnswerJob, RowFields, RowEffects DEF UpdateProgress, Active, Terminal
    <2>2. \A k \in JobIds : Put(k)'
      BY <1>12, <1>e, <2>1 DEF UpdateProgress, history
    <2>3. QED
      BY <1>12, <1>b, <2>2 DEF UpdateProgress, history
  <1>13. CASE RecoverExpiredLeases
    <2>1. ASSUME NEW k \in JobIds PROVE Put(k)'
      <3>1. Recovered(jobs[k]).status # "absent"
        BY Existing, RowFields
      <3>2. UNCHANGED <<acks, retries>>
        BY <1>13 DEF RecoverExpiredLeases, history
      <3>3. CASE Expired(k)
        BY <1>0, <1>1, <1>13, <3>1, <3>2, <3>3, RowsRecovered DEF Expired, Exists
      <3>4. CASE ~Expired(k)
        BY <1>0, <1>13, <3>2, <3>4, RowsRecovered DEF Exists
      <3>5. QED
        BY <3>3, <3>4
    <2>2. QED
      BY <1>13, <1>b, <2>1 DEF RecoverExpiredLeases, history
  <1>14. ASSUME NEW j \in JobIds, LeaseExpires(j) \/ BackoffElapses(j) PROVE AckInv'
    <2>1. UNCHANGED <<acks, retries, submit>>
      BY <1>14 DEF LeaseExpires, BackoffElapses, history
    <2>2. ASSUME NEW k \in JobIds
          PROVE  /\ jobs'[k].status = jobs[k].status
                 /\ jobs[k].lease = "none" => jobs'[k].lease = "none"
      <3>1. jobs[j] \in Job
        BY Existing
      <3>2. CASE LeaseExpires(j)
        BY <3>1, <3>2, RowWritten DEF LeaseExpires, Job
      <3>3. CASE BackoffElapses(j)
        BY <3>1, <3>3, RowWritten DEF BackoffElapses, Job
      <3>4. QED
        BY <1>14, <3>2, <3>3
    <2>3. \A k \in JobIds : Put(k)'
      BY <1>0, <2>1, <2>2 DEF Exists
    <2>4. QED
      BY <1>b, <2>1, <2>3
  <1>15. CASE Restart
    BY <1>15, <1>c, <1>f DEF Restart, history
  <1>16. CASE \/ UNCHANGED vars
              \/ \E d \in 1..MaxDownloads : ClientAdvance(d) \/ ClientForget(d)
    <2>1. UNCHANGED <<jobs, acks, retries, submit>>
      BY <1>16 DEF vars, ClientAdvance, ClientForget, history
    <2>2. QED
      BY <1>b, <1>c, <2>1
  <1>17. CASE WorkerRestarts
    <2>1. UNCHANGED <<jobs, acks, retries>> /\ submit' \in {submit, SubmitIdle}
      BY <1>17 DEF WorkerRestarts, DropSubmit, DropPoll, history
    <2>2. QED
      BY <1>b, <1>c, <1>f, <2>1
  <1>18. QED
    BY <1>2, <1>3, <1>4, <1>5, <1>6, <1>7, <1>8, <1>9, <1>10, <1>11, <1>12,
       <1>13, <1>14, <1>15, <1>16, <1>17
       DEF Next, Operator, SubmitStep, PollStep, Time

\* A download the client acknowledged is not submitted again unless the
\* operator asks (AckedNotResubmitted): neither the claim, nor the recovery
\* of leases, nor any late write, puts the job back.
THEOREM AckedNotResubmittedHolds == Spec => []AckedNotResubmitted
  <1>1. Init => AckInv
    BY DEF Init, AckInv, AckedNotResubmitted, SubmitIdle
  <1>2. AckInv => AckedNotResubmitted
    BY DEF AckInv
  <1>3. QED
    BY <1>1, <1>2, AckStep, TypeCorrect, PTL DEF Spec

-----------------------------------------------------------------------------
(* Cancelling holds against everything but a call already in flight.       *)

LEMMA CancelStep ==
    ASSUME TypeOK, [Next]_vars, NEW j \in JobIds,
           jobs[j].status = "canceled", ~InFlight(j)
    PROVE  /\ ~InFlight(j)'
           /\ jobs'[j].status = "canceled" \/ retries'[j] > retries[j]
  <1>0. j # 0 /\ retries[j] \in Nat
    BY DEF JobIds, TypeOK, HistoryTyped
  <1>1. /\ submit.pc # "idle" => submit.job # j
        /\ \A e \in poll.todo : e.job # j
        /\ poll.answer.job # j
    BY DEF InFlight
  <1>2. SubmitIdle.pc = "idle" /\ PollIdle.todo = {} /\ NoAnswer.job # j
        /\ PollIdle.answer = NoAnswer
    BY <1>0 DEF SubmitIdle, PollIdle, NoAnswer
  \* The row stands and nobody takes the job up.
  <1>a. ASSUME jobs'[j] = jobs[j],
               \/ submit'.pc = "idle"
               \/ submit.pc # "idle" /\ submit'.job = submit.job,
               poll' = poll
        PROVE  /\ ~InFlight(j)'
               /\ jobs'[j].status = "canceled" \/ retries'[j] > retries[j]
    BY <1>1, <1>a DEF InFlight
  <1>b. ASSUME jobs'[j].status = "canceled" \/ retries'[j] > retries[j],
               UNCHANGED <<submit, poll>>
        PROVE  /\ ~InFlight(j)'
               /\ jobs'[j].status = "canceled" \/ retries'[j] > retries[j]
    BY <1>1, <1>b DEF InFlight
  <1>c. ASSUME NEW k, NEW row, jobs' = [jobs EXCEPT ![k] = row], k # j
        PROVE  jobs'[j] = jobs[j]
    BY <1>c DEF TypeOK, JobsTyped
  <1>d. ASSUME NEW g, NEW c, NEW A, NEW p, CreateJob(g, c, A, p) PROVE jobs'[j] = jobs[j]
    BY <1>d, RowCreated DEF Exists
  <1>3. ASSUME NEW c \in Grabs, EnqueueFromGrab(c)
        PROVE  /\ ~InFlight(j)'
               /\ jobs'[j].status = "canceled" \/ retries'[j] > retries[j]
    BY <1>3, <1>b, <1>d DEF EnqueueFromGrab
  <1>4. ASSUME NEW k \in JobIds, CancelJob(k)
        PROVE  /\ ~InFlight(j)'
               /\ jobs'[j].status = "canceled" \/ retries'[j] > retries[j]
    <2>1. "canceled" \in Status /\ 0 \in Nat
      BY DEF Status, Terminal
    <2>2. Progressed(jobs[k], "canceled", 0).status = "canceled"
      BY <2>1, Existing, RowFields
    <2>3. jobs'[j].status = "canceled"
      BY <1>4, <2>2, RowWritten DEF CancelJob
    <2>4. QED
      BY <1>4, <1>b, <2>3 DEF CancelJob
  <1>5. ASSUME NEW k \in JobIds, RetryJob(k)
        PROVE  /\ ~InFlight(j)'
               /\ jobs'[j].status = "canceled" \/ retries'[j] > retries[j]
    <2>1. CASE k = j
      BY <1>0, <1>5, <1>b, <2>1 DEF RetryJob, TypeOK, HistoryTyped
    <2>2. CASE k # j
      BY <1>5, <1>b, <1>c, <2>2 DEF RetryJob
    <2>3. QED
      BY <2>1, <2>2
  <1>6. ASSUME NEW k \in JobIds, ClaimNextQueued(k)
        PROVE  /\ ~InFlight(j)'
               /\ jobs'[j].status = "canceled" \/ retries'[j] > retries[j]
    <2>1. k # j /\ submit'.job = k /\ poll' = poll
      BY <1>6 DEF ClaimNextQueued, Claimable, SubmitIdle
    <2>2. jobs'[j] = jobs[j]
      BY <1>6, <1>c, <2>1 DEF ClaimNextQueued
    <2>3. QED
      BY <1>1, <2>1, <2>2 DEF InFlight
  <1>7. CASE AddDownloadTaken \/ AddDownloadRefused \/ ListFallbacks \/ NoFallbackLeft
             \/ \E c \in Candidates : SkipFallback(c)
    <2>1. UNCHANGED <<jobs, poll>> /\ submit.pc # "idle" /\ submit'.job = submit.job
      BY <1>7 DEF AddDownloadTaken, AddDownloadRefused, ListFallbacks, NoFallbackLeft,
                  SkipFallback, TypeOK, SubmitTyped
    <2>2. QED
      BY <1>a, <2>1
  <1>8. ASSUME NEW c \in Candidates, GrabFallback(c)
        PROVE  /\ ~InFlight(j)'
               /\ jobs'[j].status = "canceled" \/ retries'[j] > retries[j]
    <2>1. poll' = poll /\ submit.pc # "idle" /\ submit'.job = submit.job
      BY <1>8 DEF GrabFallback, TypeOK, SubmitTyped
    <2>2. jobs'[j] = jobs[j]
      BY <1>8, <1>d DEF GrabFallback
    <2>3. QED
      BY <1>a, <2>1, <2>2
  <1>9. CASE MarkSubmitted \/ CloseReplaced \/ Reschedule
    <2>1. submit.job # j /\ submit' = SubmitIdle /\ poll' = poll
      BY <1>1, <1>9 DEF MarkSubmitted, CloseReplaced, Reschedule
    <2>2. jobs'[j] = jobs[j]
      BY <1>9, <1>c, <2>1 DEF MarkSubmitted, CloseReplaced, Reschedule
    <2>3. QED
      BY <1>2, <1>a, <2>1, <2>2
  <1>10. CASE ListActiveJobs
    <2>1. \A e \in PollSnapshot : e.job # j
      BY DEF PollSnapshot, Active
    <2>2. UNCHANGED <<jobs, submit>> /\ poll'.todo = PollSnapshot
          /\ poll'.answer = NoAnswer
      BY <1>10 DEF ListActiveJobs, PollIdle
    <2>3. QED
      BY <1>1, <1>2, <2>1, <2>2 DEF InFlight
  <1>11. ASSUME NEW e \in poll.todo, GetStatus(e)
         PROVE  /\ ~InFlight(j)'
                /\ jobs'[j].status = "canceled" \/ retries'[j] > retries[j]
    <2>1. UNCHANGED <<jobs, submit>> /\ poll'.todo \subseteq poll.todo
          /\ poll'.answer.job = e.job
      BY <1>11 DEF GetStatus, PollAnswer
    <2>2. QED
      BY <1>1, <2>1 DEF InFlight
  <1>12. CASE UpdateProgress
    <2>1. poll'.todo = poll.todo /\ poll'.answer = NoAnswer /\ submit' = submit
      BY <1>12 DEF UpdateProgress, TypeOK, PollTyped
    <2>2. jobs'[j] = jobs[j]
      BY <1>1, <1>12, <1>c DEF UpdateProgress
    <2>3. QED
      BY <1>1, <1>2, <2>1, <2>2 DEF InFlight
  <1>13. CASE RecoverExpiredLeases
    <2>1. ~Expired(j)
      BY DEF Expired
    <2>2. jobs'[j] = jobs[j]
      BY <1>13, <2>1, RowsRecovered
    <2>3. QED
      BY <1>13, <1>b, <2>2 DEF RecoverExpiredLeases
  <1>14. ASSUME NEW k \in JobIds, LeaseExpires(k) \/ BackoffElapses(k)
         PROVE  /\ ~InFlight(j)'
                /\ jobs'[j].status = "canceled" \/ retries'[j] > retries[j]
    <2>1. jobs[k] \in Job
      BY Existing
    <2>2. jobs'[j].status = jobs[j].status
      <3>1. CASE LeaseExpires(k)
        BY <2>1, <3>1, RowWritten DEF LeaseExpires, Job
      <3>2. CASE BackoffElapses(k)
        BY <2>1, <3>2, RowWritten DEF BackoffElapses, Job
      <3>3. QED
        BY <1>14, <3>1, <3>2
    <2>3. QED
      BY <1>14, <1>b, <2>2 DEF LeaseExpires, BackoffElapses
  <1>15. CASE Restart
    BY <1>2, <1>15 DEF Restart, InFlight
  <1>16. CASE \/ UNCHANGED vars
              \/ \E d \in 1..MaxDownloads : ClientAdvance(d) \/ ClientForget(d)
    <2>1. UNCHANGED <<jobs, submit, poll>>
      BY <1>16 DEF vars, ClientAdvance, ClientForget
    <2>2. QED
      BY <1>b, <2>1
  <1>17. CASE WorkerRestarts
    <2>1. /\ UNCHANGED jobs
          /\ submit'.pc # "idle" => submit' = submit
          /\ poll'.todo \subseteq poll.todo
          /\ poll'.answer \in {poll.answer, NoAnswer}
      BY <1>2, <1>17 DEF WorkerRestarts, DropSubmit, DropPoll, TypeOK, PollTyped
    <2>2. QED
      BY <1>1, <1>2, <2>1 DEF InFlight
  <1>18. QED
    BY <1>3, <1>4, <1>5, <1>6, <1>7, <1>8, <1>9, <1>10, <1>11, <1>12, <1>13, <1>14,
       <1>15, <1>16, <1>17
       DEF Next, Operator, SubmitStep, PollStep, Time

\* A cancelled job that no worker holds stays cancelled and is not taken up
\* again until the operator retries it (CancelHolds).
THEOREM CancellingHolds == Spec => CancelHolds
  <1>1. TypeOK /\ [Next]_vars =>
          [\A j \in JobIds :
              jobs[j].status = "canceled" /\ ~InFlight(j) =>
                  /\ ~InFlight(j)'
                  /\ jobs'[j].status = "canceled" \/ retries'[j] > retries[j]]_vars
    BY CancelStep
  <1>2. QED
    BY <1>1, TypeCorrect, PTL DEF Spec, CancelHolds
-----------------------------------------------------------------------------
(* The fallback never fetches a candidate twice.                           *)

\* A replacement is younger than what it replaces, what a job fetches is among
\* what its chain has tried, and what the worker has left to try, no replacement
\* and no job of its own chain has tried.
FreshInv ==
    /\ FallbackFresh
    /\ \A j \in JobIds : parent[j] = 0 \/ (parent[j] < nextJob /\ Exists(j))
    /\ \A j \in JobIds : Exists(j) => jobs[j].uri \in jobs[j].attempted
    /\ submit.pc = "grabbing" =>
          /\ \A k \in JobIds : parent[k] # 0 => jobs[k].uri \notin submit.todo
          /\ jobs[submit.job].cand \notin submit.todo
          /\ submit.todo \cap jobs[submit.job].attempted = {}

\* No operation on an existing row changes its candidate or its history.
LEMMA RowOrigins ==
    ASSUME NEW job \in Job
    PROVE  /\ Claimed(job).cand = job.cand
           /\ Claimed(job).uri = job.uri /\ Claimed(job).attempted = job.attempted
           /\ \A did \in Nat : /\ Submitted(job, did).cand = job.cand
                               /\ Submitted(job, did).uri = job.uri
                               /\ Submitted(job, did).attempted = job.attempted
           /\ \A s \in Status, o \in Nat :
                 /\ Progressed(job, s, o).cand = job.cand
                 /\ Progressed(job, s, o).uri = job.uri
                 /\ Progressed(job, s, o).attempted = job.attempted
           /\ \A t \in BOOLEAN : /\ Rescheduled(job, t).cand = job.cand
                                 /\ Rescheduled(job, t).uri = job.uri
                                 /\ Rescheduled(job, t).attempted = job.attempted
           /\ Recovered(job).cand = job.cand
           /\ Recovered(job).uri = job.uri /\ Recovered(job).attempted = job.attempted
           /\ Retried(job).cand = job.cand
           /\ Retried(job).uri = job.uri /\ Retried(job).attempted = job.attempted
  <1>1. job = [status |-> job.status, attempt |-> job.attempt, due |-> job.due,
               lease |-> job.lease, downloadID |-> job.downloadID,
               output |-> job.output, cand |-> job.cand, uri |-> job.uri,
               attempted |-> job.attempted]
    BY DEF Job
  <1>2. /\ Claimed(job).cand = job.cand
        /\ Claimed(job).uri = job.uri /\ Claimed(job).attempted = job.attempted
    BY <1>1 DEF Claimed
  <1>3. \A did \in Nat : /\ Submitted(job, did).cand = job.cand
                         /\ Submitted(job, did).uri = job.uri
                        /\ Submitted(job, did).attempted = job.attempted
    BY <1>1 DEF Submitted
  <1>4. \A s \in Status, o \in Nat : /\ Progressed(job, s, o).cand = job.cand
                                     /\ Progressed(job, s, o).uri = job.uri
                                   /\ Progressed(job, s, o).attempted = job.attempted
    BY <1>1 DEF Progressed
  <1>5. \A t \in BOOLEAN : /\ Rescheduled(job, t).cand = job.cand
                           /\ Rescheduled(job, t).uri = job.uri
                          /\ Rescheduled(job, t).attempted = job.attempted
    BY <1>1 DEF Rescheduled
  <1>6. /\ Recovered(job).cand = job.cand
        /\ Recovered(job).uri = job.uri /\ Recovered(job).attempted = job.attempted
    BY <1>1 DEF Recovered
  <1>7. /\ Retried(job).cand = job.cand
        /\ Retried(job).uri = job.uri /\ Retried(job).attempted = job.attempted
    BY <1>1 DEF Retried
  <1>8. QED
    BY <1>2, <1>3, <1>4, <1>5, <1>6, <1>7

\* What every step but a creation leaves alone.
SameOrigins ==
    /\ parent' = parent /\ nextJob' = nextJob
    /\ \A k \in JobIds : /\ jobs'[k].cand = jobs[k].cand /\ jobs'[k].uri = jobs[k].uri
                         /\ jobs'[k].attempted = jobs[k].attempted

LEMMA Writes ==
    ASSUME TypeOK, NEW j \in JobIds, NEW row,
           jobs' = [jobs EXCEPT ![j] = row],
           row.cand = jobs[j].cand /\ row.uri = jobs[j].uri,
           row.attempted = jobs[j].attempted,
           parent' = parent, nextJob' = nextJob
    PROVE  SameOrigins
  BY RowWritten DEF SameOrigins

LEMMA Originless ==
    ASSUME TypeOK, [Next]_vars,
           ~ \E c \in Grabs : EnqueueFromGrab(c),
           ~ \E c \in Candidates : GrabFallback(c)
    PROVE  SameOrigins
  <1>0. \A k \in JobIds : jobs[k] \in Job
    BY DEF TypeOK, JobsTyped
  <1>u. ASSUME UNCHANGED <<jobs, parent, nextJob>> PROVE SameOrigins
    BY <1>u DEF SameOrigins
  <1>p. ASSUME NEW j \in JobIds, NEW s \in Status,
               jobs' = [jobs EXCEPT ![j] = Progressed(@, s, 0)],
               parent' = parent, nextJob' = nextJob
        PROVE  SameOrigins
    <2>1. /\ Progressed(jobs[j], s, 0).cand = jobs[j].cand
          /\ Progressed(jobs[j], s, 0).uri = jobs[j].uri
          /\ Progressed(jobs[j], s, 0).attempted = jobs[j].attempted
      BY <1>0, RowOrigins
    <2>2. jobs' = [jobs EXCEPT ![j] = Progressed(jobs[j], s, 0)]
      BY <1>p
    <2>3. QED
      BY <1>p, <2>1, <2>2, Writes
  <1>s. "canceled" \in Status /\ "failed" \in Status
    BY DEF Status, Terminal
  <1>1. ASSUME NEW j \in JobIds, CancelJob(j) PROVE SameOrigins
    BY <1>1, <1>p, <1>s DEF CancelJob, history
  <1>2. ASSUME NEW j \in JobIds, RetryJob(j) PROVE SameOrigins
    BY <1>0, <1>2, RowOrigins, Writes DEF RetryJob
  <1>3. ASSUME NEW j \in JobIds, ClaimNextQueued(j) PROVE SameOrigins
    BY <1>0, <1>3, RowOrigins, Writes DEF ClaimNextQueued
  <1>4. ASSUME MarkSubmitted PROVE SameOrigins
    <2>1. submit.job \in JobIds /\ submit.did \in Nat
      BY <1>4, SubmitJob DEF MarkSubmitted, TypeOK, SubmitTyped
    <2>2. QED
      BY <1>0, <1>4, <2>1, RowOrigins, Writes DEF MarkSubmitted
  <1>5. ASSUME CloseReplaced PROVE SameOrigins
    <2>1. submit.job \in JobIds
      BY <1>5, SubmitJob DEF CloseReplaced
    <2>2. QED
      BY <1>5, <1>p, <1>s, <2>1 DEF CloseReplaced, history
  <1>6. ASSUME Reschedule PROVE SameOrigins
    <2>1. submit.job \in JobIds
      BY <1>6, SubmitJob DEF Reschedule
    <2>2. (submit.attempt >= MaxAttempts) \in BOOLEAN
      BY BoundsAssumption DEF TypeOK, SubmitTyped
    <2>3. QED
      BY <1>0, <1>6, <2>1, <2>2, RowOrigins, Writes DEF Reschedule, history
  <1>7. ASSUME UpdateProgress PROVE SameOrigins
    <2>1. poll.answer # NoAnswer
      BY <1>7 DEF UpdateProgress
    <2>2. QED
      BY <1>0, <1>7, <2>1, AnswerJob, RowOrigins, Writes DEF UpdateProgress, history
  <1>8. ASSUME RecoverExpiredLeases PROVE SameOrigins
    BY <1>0, <1>8, RowOrigins, RowsRecovered
       DEF RecoverExpiredLeases, SameOrigins, history
  <1>9. ASSUME NEW j \in JobIds, LeaseExpires(j) \/ BackoffElapses(j) PROVE SameOrigins
    <2>1. ASSUME NEW v PROVE /\ [jobs[j] EXCEPT !.lease = v].cand = jobs[j].cand
                             /\ [jobs[j] EXCEPT !.lease = v].uri = jobs[j].uri
                             /\ [jobs[j] EXCEPT !.lease = v].attempted = jobs[j].attempted
                             /\ [jobs[j] EXCEPT !.due = v].cand = jobs[j].cand
                             /\ [jobs[j] EXCEPT !.due = v].uri = jobs[j].uri
                             /\ [jobs[j] EXCEPT !.due = v].attempted = jobs[j].attempted
      BY <1>0 DEF Job
    <2>2. CASE LeaseExpires(j)
      <3>1. jobs' = [jobs EXCEPT ![j] = [jobs[j] EXCEPT !.lease = "expired"]]
        BY <2>2 DEF LeaseExpires
      <3>2. QED
        BY <2>1, <2>2, <3>1, Writes DEF LeaseExpires, history
    <2>3. CASE BackoffElapses(j)
      <3>1. jobs' = [jobs EXCEPT ![j] = [jobs[j] EXCEPT !.due = TRUE]]
        BY <2>3 DEF BackoffElapses
      <3>2. QED
        BY <2>1, <2>3, <3>1, Writes DEF BackoffElapses, history
    <2>4. QED
      BY <1>9, <2>2, <2>3
  <1>10. CASE Operator
    BY <1>1, <1>2, <1>10 DEF Operator
  <1>11. CASE SubmitStep
    <2>1. CASE AddDownloadTaken \/ AddDownloadRefused \/ ListFallbacks \/ NoFallbackLeft
      BY <1>u, <2>1 DEF AddDownloadTaken, AddDownloadRefused, ListFallbacks,
                       NoFallbackLeft, history
    <2>2. ASSUME NEW c \in Candidates, SkipFallback(c) PROVE SameOrigins
      BY <1>u, <2>2 DEF SkipFallback, history
    <2>3. QED
      BY <1>3, <1>4, <1>5, <1>6, <1>11, <2>1, <2>2 DEF SubmitStep
  <1>12. CASE PollStep
    BY <1>u, <1>7, <1>12 DEF PollStep, ListActiveJobs, GetStatus, history
  <1>13. CASE Time
    BY <1>9, <1>13 DEF Time
  <1>14. CASE Restart \/ WorkerRestarts
    BY <1>u, <1>14 DEF Restart, WorkerRestarts, history
  <1>15. ASSUME NEW d \in 1..MaxDownloads, ClientAdvance(d) \/ ClientForget(d)
         PROVE SameOrigins
    BY <1>u, <1>15 DEF ClientAdvance, ClientForget, history
  <1>16. CASE UNCHANGED vars
    BY <1>u, <1>16 DEF vars
  <1>17. QED
    BY <1>8, <1>10, <1>11, <1>12, <1>13, <1>14, <1>15, <1>16 DEF Next

\* The worker's list of releases left to try only comes from Eligible.
LEMMA TodoSteps ==
    ASSUME TypeOK, [Next]_vars, submit'.pc = "grabbing",
           ~(ListFallbacks /\ submit'.todo = Eligible(submit.job))
    PROVE  /\ submit.pc = "grabbing" /\ submit'.job = submit.job
           /\ submit'.todo \subseteq submit.todo
  <1>0. submit \in [pc : SubmitPC, job : Nat, attempt : Nat,
                    did : Nat, todo : SUBSET Candidates]
    BY DEF TypeOK, SubmitTyped
  <1>i. SubmitIdle.pc = "idle"
    BY DEF SubmitIdle
  <1>u. ASSUME submit' = submit
        PROVE  /\ submit.pc = "grabbing" /\ submit'.job = submit.job
               /\ submit'.todo \subseteq submit.todo
    BY <1>u
  <1>1. CASE Operator
    BY <1>u, <1>1 DEF Operator, EnqueueFromGrab, CancelJob, RetryJob
  <1>2. CASE SubmitStep
    <2>1. ASSUME NEW j \in JobIds, ClaimNextQueued(j) PROVE FALSE
      BY <2>1 DEF ClaimNextQueued, SubmitIdle
    <2>2. CASE AddDownloadTaken \/ AddDownloadRefused
      BY <1>0, <2>2 DEF AddDownloadTaken, AddDownloadRefused
    <2>3. CASE MarkSubmitted \/ CloseReplaced \/ Reschedule
      BY <1>i, <2>3 DEF MarkSubmitted, CloseReplaced, Reschedule
    <2>4. CASE ListFallbacks
      BY <1>0, <2>4 DEF ListFallbacks
    <2>5. ASSUME NEW c \in Candidates, GrabFallback(c) PROVE FALSE
      BY <1>0, <2>5 DEF GrabFallback
    <2>6. ASSUME NEW c \in Candidates, SkipFallback(c)
          PROVE  /\ submit.pc = "grabbing" /\ submit'.job = submit.job
                 /\ submit'.todo \subseteq submit.todo
      BY <1>0, <2>6 DEF SkipFallback
    <2>7. CASE NoFallbackLeft
      BY <1>0, <2>7 DEF NoFallbackLeft
    <2>8. QED
      BY <1>2, <2>1, <2>2, <2>3, <2>4, <2>5, <2>6, <2>7 DEF SubmitStep
  <1>3. CASE PollStep
    BY <1>u, <1>3 DEF PollStep, ListActiveJobs, GetStatus, UpdateProgress
  <1>4. CASE RecoverExpiredLeases \/ Time
    BY <1>u, <1>4 DEF RecoverExpiredLeases, Time, LeaseExpires, BackoffElapses
  <1>5. CASE Restart
    BY <1>i, <1>5 DEF Restart
  <1>6. CASE WorkerRestarts
    BY <1>i, <1>u, <1>6 DEF WorkerRestarts, DropSubmit, DropPoll
  <1>7. ASSUME NEW d \in 1..MaxDownloads, ClientAdvance(d) \/ ClientForget(d)
        PROVE  submit' = submit
    BY <1>7 DEF ClientAdvance, ClientForget
  <1>8. CASE UNCHANGED vars
    BY <1>u, <1>8 DEF vars
  <1>9. QED
    BY <1>u, <1>1, <1>2, <1>3, <1>4, <1>5, <1>6, <1>7, <1>8 DEF Next

\* A new job that fetches candidate c in the place of p, whose chain has not
\* tried c, or in nobody's place.
LEMMA CreateFresh ==
    ASSUME TypeOK, FreshInv, NEW g \in Candidates, NEW c \in Candidates, NEW A,
           c \in A, NEW p, CreateJob(g, c, A, p),
           p # 0 => /\ p \in JobIds /\ Exists(p)
                    /\ \A k \in JobIds : parent[k] # 0 => jobs[k].uri # c
                    /\ jobs[p].cand # c /\ c \notin jobs[p].attempted
    PROVE  /\ FallbackFresh'
           /\ \A j \in JobIds : parent'[j] = 0 \/ (parent'[j] < nextJob' /\ Exists(j)')
           /\ \A j \in JobIds : Exists(j)' => jobs'[j].uri \in jobs'[j].attempted
           /\ \A k \in JobIds : Exists(k) => jobs'[k] = jobs[k]
  <1>1. /\ nextJob \in JobIds /\ ~Exists(nextJob) /\ nextJob' = nextJob + 1
        /\ \A k \in JobIds : k # nextJob => jobs'[k] = jobs[k]
        /\ jobs'[nextJob].status = "queued"
    BY RowCreated DEF CreateJob
  <1>2. jobs'[nextJob].uri = c /\ jobs'[nextJob].attempted = A
    <2>1. jobs' = [jobs EXCEPT ![nextJob] = NewJob(g, c, A)] /\ jobs \in [JobIds -> Job]
      BY DEF CreateJob, TypeOK, JobsTyped
    <2>2. NewJob(g, c, A).uri = c /\ NewJob(g, c, A).attempted = A
      BY DEF NewJob, AbsentJob
    <2>3. QED
      BY <1>1, <2>1, <2>2
  <1>3. \A k \in JobIds : parent'[k] = IF k = nextJob THEN p ELSE parent[k]
    BY DEF CreateJob, TypeOK, HistoryTyped
  <1>4. \A k \in JobIds : Exists(k) => k < nextJob
    BY DEF TypeOK, JobsTyped, JobIds, Exists, AbsentJob
  <1>5. nextJob \in Nat /\ \A k \in JobIds : k \in Nat /\ parent[k] \in Nat
    BY <1>1 DEF JobIds, TypeOK, HistoryTyped
  <1>6. \A j \in JobIds : parent[j] # 0 => parent[j] < nextJob /\ Exists(j)
    BY DEF FreshInv
  <1>7. p # 0 => p < nextJob
    BY <1>4
  <1>8. FallbackFresh'
    <2>1. ASSUME NEW j \in JobIds, NEW k \in JobIds, parent'[j] # 0, j # k, parent'[k] # 0
          PROVE  jobs'[j].uri # jobs'[k].uri
      BY <1>1, <1>2, <1>3, <1>6, <2>1 DEF FreshInv, FallbackFresh
    <2>2. ASSUME NEW j \in JobIds, NEW k \in JobIds, parent'[j] # 0, k = parent'[j]
          PROVE  /\ jobs'[j].uri \notin {jobs'[k].uri, jobs'[k].cand}
                 /\ jobs'[j].uri \notin jobs'[k].attempted
      <3>1. k # nextJob
        BY <1>3, <1>5, <1>6, <1>7, <2>2
      <3>2. p # 0 => jobs[p].uri # c
        BY DEF FreshInv
      <3>3. QED
        BY <1>1, <1>2, <1>3, <2>2, <3>1, <3>2 DEF FreshInv, FallbackFresh
    <2>3. QED
      BY <2>1, <2>2 DEF FallbackFresh
  <1>9. ASSUME NEW j \in JobIds
        PROVE  parent'[j] = 0 \/ (parent'[j] < nextJob' /\ Exists(j)')
    <2>1. CASE j = nextJob
      <3>1. parent'[j] = p /\ Exists(j)'
        BY <1>1, <1>3, <2>1 DEF Exists
      <3>2. p # 0 => p < nextJob'
        <4>1. ASSUME p # 0 PROVE p \in Nat /\ p < nextJob
          BY <1>5, <1>7, <4>1
        <4>2. ASSUME p # 0 PROVE p < nextJob + 1
          BY <1>5, <4>1, <4>2
        <4>3. QED
          BY <1>1, <4>2
      <3>3. QED
        BY <3>1, <3>2
    <2>2. CASE j # nextJob
      <3>1. parent'[j] = parent[j] /\ (Exists(j) => Exists(j)')
        BY <1>1, <1>3, <2>2 DEF Exists
      <3>2. QED
        BY <1>1, <1>5, <1>6, <3>1
    <2>3. QED
      BY <2>1, <2>2
  <1>10. ASSUME NEW j \in JobIds, Exists(j)' PROVE jobs'[j].uri \in jobs'[j].attempted
    BY <1>1, <1>2, <1>10 DEF FreshInv, Exists
  <1>11. QED
    BY <1>1, <1>8, <1>9, <1>10

LEMMA FreshStep == TypeOK /\ FreshInv /\ [Next]_vars => FreshInv'
  <1> SUFFICES ASSUME TypeOK, FreshInv, [Next]_vars PROVE FreshInv'
    OBVIOUS
  <1>t. \A k \in JobIds : jobs[k] \in Job
    BY DEF TypeOK, JobsTyped
  <1>1. CASE \E c \in Grabs : EnqueueFromGrab(c)
    <2> PICK c \in Grabs : EnqueueFromGrab(c)
      BY <1>1
    <2>1. CreateJob(c, c, {c}, 0) /\ c \in Candidates /\ submit' = submit
      BY GrabsAssumption DEF EnqueueFromGrab
    <2>2. /\ FallbackFresh'
          /\ \A j \in JobIds : parent'[j] = 0 \/ (parent'[j] < nextJob' /\ Exists(j)')
          /\ \A j \in JobIds : Exists(j)' => jobs'[j].uri \in jobs'[j].attempted
          /\ \A k \in JobIds : Exists(k) => jobs'[k] = jobs[k]
      BY <2>1, CreateFresh
    <2>3. \A k \in JobIds : parent'[k] # 0 => parent[k] # 0 /\ Exists(k)
      BY <2>1 DEF CreateJob, TypeOK, HistoryTyped, FreshInv
    <2>4. submit.pc = "grabbing" => submit.job \in JobIds /\ Exists(submit.job)
      BY SubmitJob
    <2>5. QED
      BY <2>1, <2>2, <2>3, <2>4 DEF FreshInv
  <1>2. CASE \E c \in Candidates : GrabFallback(c)
    <2> PICK c \in Candidates : GrabFallback(c)
      BY <1>2
    <2> DEFINE j == submit.job
               A == jobs[j].attempted \cup {jobs[j].cand, c}
    <2>0. PICK g \in Candidates : CreateJob(g, c, A, j)
      BY DEF GrabFallback
    <2>1. /\ submit.pc = "grabbing" /\ c \in submit.todo /\ c \in A
          /\ submit'.pc = "swapped"
      BY DEF GrabFallback, BestOf, TypeOK, SubmitTyped
    <2>2. j \in JobIds /\ Exists(j)
      BY <2>1, SubmitJob
    <2>3. /\ \A k \in JobIds : parent[k] # 0 => jobs[k].uri # c
          /\ jobs[j].cand # c /\ c \notin jobs[j].attempted
      BY <2>1 DEF FreshInv
    <2>4. /\ FallbackFresh'
          /\ \A k \in JobIds : parent'[k] = 0 \/ (parent'[k] < nextJob' /\ Exists(k)')
          /\ \A k \in JobIds : Exists(k)' => jobs'[k].uri \in jobs'[k].attempted
      BY <2>0, <2>1, <2>2, <2>3, CreateFresh
    <2>5. QED
      BY <2>1, <2>4 DEF FreshInv
  <1>3. CASE ~(\E c \in Grabs : EnqueueFromGrab(c)) /\ ~(\E c \in Candidates : GrabFallback(c))
    <2>1. SameOrigins
      BY <1>3, Originless
    <2>2. \A k \in JobIds : Exists(k) <=> Exists(k)'
      <3>1. TypeOK'
        BY StepTyped
      <3>2. QED
        BY <2>1, <3>1 DEF SameOrigins, TypeOK, JobsTyped, JobIds, Exists, AbsentJob
    <2>3. FallbackFresh'
      <3>1. ASSUME NEW j \in JobIds, NEW k \in JobIds, parent'[j] # 0
            PROVE  /\ j # k /\ parent'[k] # 0 => jobs'[j].uri # jobs'[k].uri
                   /\ k = parent'[j] => /\ jobs'[j].uri \notin {jobs'[k].uri, jobs'[k].cand}
                                        /\ jobs'[j].uri \notin jobs'[k].attempted
        BY <2>1, <3>1 DEF SameOrigins, FreshInv, FallbackFresh
      <3>2. QED
        BY <3>1 DEF FallbackFresh
    <2>4. \A j \in JobIds : parent'[j] = 0 \/ (parent'[j] < nextJob' /\ Exists(j)')
      BY <2>1, <2>2 DEF SameOrigins, FreshInv
    <2>u. \A j \in JobIds : Exists(j)' => jobs'[j].uri \in jobs'[j].attempted
      BY <2>1, <2>2 DEF SameOrigins, FreshInv
    <2>5. ASSUME submit'.pc = "grabbing"
          PROVE  /\ \A k \in JobIds : parent'[k] # 0 => jobs'[k].uri \notin submit'.todo
                 /\ jobs'[submit'.job].cand \notin submit'.todo
                 /\ submit'.todo \cap jobs'[submit'.job].attempted = {}
      <3>1. CASE ListFallbacks /\ submit'.todo = Eligible(submit.job)
        <4>1. submit'.job = submit.job /\ submit.job \in JobIds
          BY <3>1, SubmitJob DEF ListFallbacks, TypeOK, SubmitTyped
        <4>2. ASSUME NEW k \in JobIds, parent[k] # 0
              PROVE  jobs[k].uri \notin Eligible(submit.job)
          <5>1. Exists(k) /\ jobs[k].uri \in jobs[k].attempted
            BY <4>2 DEF FreshInv
          <5>2. WorkOf[jobs[k].uri] = Work(k)
            BY <5>1 DEF TypeOK, JobsTyped, JobIds, Exists, AbsentJob
          <5>3. ASSUME Work(k) = Work(submit.job)
                PROVE  jobs[k].uri \in UsedForWork(Work(submit.job))
            BY <5>1, <5>3 DEF UsedForWork
          <5>4. ASSUME jobs[k].uri \in FoundWith(submit.job)
                PROVE  Work(k) = Work(submit.job)
            <6>1. /\ submit.job < nextJob
                  /\ {jobs[k].uri, jobs[submit.job].uri} \subseteq Candidates
                  /\ WorkOf[jobs[submit.job].uri] = Work(submit.job)
              BY <3>1, <4>1, <5>1, SubmitJob
                 DEF ListFallbacks, TypeOK, JobsTyped, JobIds, Exists, AbsentJob
            <6>2. SearchOf[jobs[k].uri] = SearchOf[jobs[submit.job].uri]
              BY <5>4 DEF FoundWith
            <6>3. WorkOf[jobs[k].uri] = WorkOf[jobs[submit.job].uri]
              BY <6>1, <6>2, FoundAssumption
            <6>4. QED
              BY <5>2, <6>1, <6>3
          <5>5. QED
            BY <5>3, <5>4 DEF Eligible
        <4>3. /\ jobs[submit.job].cand \notin Eligible(submit.job)
              /\ Eligible(submit.job) \cap jobs[submit.job].attempted = {}
          BY DEF Eligible
        <4>4. QED
          BY <2>1, <3>1, <4>1, <4>2, <4>3 DEF SameOrigins
      <3>2. CASE ~(ListFallbacks /\ submit'.todo = Eligible(submit.job))
        <4>1. /\ submit.pc = "grabbing" /\ submit'.job = submit.job
              /\ submit'.todo \subseteq submit.todo
          BY <2>5, <3>2, TodoSteps
        <4>2. submit.job \in JobIds
          BY <4>1, SubmitJob
        <4>3. QED
          BY <2>1, <4>1, <4>2 DEF SameOrigins, FreshInv
      <3>3. QED
        BY <3>1, <3>2
    <2>6. QED
      BY <2>3, <2>4, <2>5, <2>u DEF FreshInv
  <1>4. QED
    BY <1>1, <1>2, <1>3

\* tryFallbackCandidate never fetches a candidate that another replacement or
\* its own chain has tried, whatever grabs the indexer answers with, for any
\* number of jobs and any interruption.
THEOREM FallbackFreshHolds == Spec => []FallbackFresh
  <1>1. Init => FreshInv
    BY DEF Init, FreshInv, FallbackFresh, SubmitIdle, Exists, AbsentJob
  <1>2. FreshInv => FallbackFresh
    BY DEF FreshInv
  <1>3. QED
    BY <1>1, <1>2, FreshStep, TypeCorrect, PTL DEF Spec

-----------------------------------------------------------------------------
(* A completed job has a real output.                                      *)

\* d is a download of the job's work, and one the client completed.
Fits(j, d) == d \in DOMAIN client /\ WorkOf[client[d].cand] = Work(j)
Finished(j, d) == Fits(j, d) /\ client[d].done

\* The client never takes back that a download completed.
ClientInv ==
    \A d \in DOMAIN client :
        /\ client[d].state = "completed" => client[d].done
        /\ client[d].done => client[d].state \in {"completed", "gone"}

\* Whatever names a download, in a row or in a worker's hands, names one of
\* its own job's work; a "completed" answer names one that is finished.
RealInv ==
    /\ ClientInv
    /\ \A j \in JobIds : jobs[j].downloadID # 0 => Fits(j, jobs[j].downloadID)
    /\ submit.pc = "accepted" => Fits(submit.job, submit.did)
    /\ \A e \in poll.todo : Fits(e.job, e.did)
    /\ poll.answer.status = "completed" =>
           Finished(poll.answer.job, poll.answer.output)
    /\ CompletedIsReal

\* What the client was given stays: a download keeps its release, and one
\* that completed has completed for good.
LEMMA ClientLasts ==
    ASSUME TypeOK, ClientInv, [Next]_vars
    PROVE  /\ ClientInv'
           /\ \A d \in DOMAIN client : /\ d \in DOMAIN client'
                                       /\ client'[d].cand = client[d].cand
                                       /\ client[d].done => client'[d].done
  <1> DEFINE Lasts == /\ ClientInv'
                      /\ \A d \in DOMAIN client : /\ d \in DOMAIN client'
                                                  /\ client'[d].cand = client[d].cand
                                                  /\ client[d].done => client'[d].done
  <1> SUFFICES Lasts
    OBVIOUS
  <1>0. /\ client \in Seq(Download)
        /\ DOMAIN client = 1..Len(client) /\ Len(client) \in Nat
        /\ \A d \in DOMAIN client : client[d] \in Download
    BY DEF TypeOK
  <1>u. ASSUME client' = client PROVE Lasts
    BY <1>u DEF ClientInv
  <1>1. CASE AddDownloadTaken
    <2> DEFINE new == [cand |-> jobs[submit.job].cand, state |-> "queued", done |-> FALSE]
    <2>1. client' = Append(client, new)
      BY <1>1 DEF AddDownloadTaken
    <2>2. new.done = FALSE /\ new.state = "queued"
      OBVIOUS
    <2> HIDE DEF new
    <2>3. /\ DOMAIN client' = 1..(Len(client) + 1)
          /\ \A d \in DOMAIN client : client'[d] = client[d]
          /\ client'[Len(client) + 1] = new
      BY <1>0, <2>1
    <2>4. \A d \in DOMAIN client' : d \in DOMAIN client \/ client'[d] = new
      BY <1>0, <2>3
    <2>5. QED
      BY <1>0, <2>2, <2>3, <2>4 DEF ClientInv
  <1>2. ASSUME NEW d \in 1..MaxDownloads, ClientAdvance(d) PROVE Lasts
    <2>1. PICK s \in ClientNext(client[d].state) \cap Reports :
              client' = [client EXCEPT ![d].state = s, ![d].done = (s = "completed")]
      BY <1>2 DEF ClientAdvance
    <2>2. d \in DOMAIN client
      BY <1>2 DEF ClientAdvance
    <2>3. /\ ~client[d].done
          /\ s # "gone"
      <3>1. client[d].state \notin {"completed", "gone"} /\ s # "gone"
        BY <2>1 DEF ClientNext
      <3>2. QED
        BY <2>2, <3>1 DEF ClientInv
    <2>4. client'[d] = [client[d] EXCEPT !.state = s, !.done = (s = "completed")]
      BY <1>0, <2>1, <2>2
    <2>5. /\ client'[d].cand = client[d].cand
          /\ client'[d].state = s /\ client'[d].done = (s = "completed")
      BY <1>0, <2>2, <2>4 DEF Download
    <2>6. /\ DOMAIN client' = DOMAIN client
          /\ \A n \in DOMAIN client : n # d => client'[n] = client[n]
      BY <1>0, <2>1
    <2>7. QED
      BY <2>3, <2>5, <2>6 DEF ClientInv
  <1>3. ASSUME NEW d \in 1..MaxDownloads, ClientForget(d) PROVE Lasts
    <2>1. /\ d \in DOMAIN client
          /\ client' = [client EXCEPT ![d].state = "gone"]
      BY <1>3 DEF ClientForget
    <2>2. client'[d] = [client[d] EXCEPT !.state = "gone"]
      BY <1>0, <2>1
    <2>3. /\ client'[d].cand = client[d].cand
          /\ client'[d].state = "gone" /\ client'[d].done = client[d].done
      BY <1>0, <2>1, <2>2 DEF Download
    <2>4. /\ DOMAIN client' = DOMAIN client
          /\ \A n \in DOMAIN client : n # d => client'[n] = client[n]
      BY <1>0, <2>1
    <2>5. QED
      BY <2>3, <2>4 DEF ClientInv
  <1>4. CASE Operator
    BY <1>u, <1>4 DEF Operator, EnqueueFromGrab, CancelJob, RetryJob
  <1>5. CASE SubmitStep
    BY <1>u, <1>1, <1>5 DEF SubmitStep, ClaimNextQueued, AddDownloadRefused,
       MarkSubmitted, ListFallbacks, GrabFallback, SkipFallback, NoFallbackLeft,
       CloseReplaced, Reschedule
  <1>6. CASE PollStep
    BY <1>u, <1>6 DEF PollStep, ListActiveJobs, GetStatus, UpdateProgress
  <1>7. CASE RecoverExpiredLeases \/ Time \/ Restart \/ WorkerRestarts
    BY <1>u, <1>7 DEF RecoverExpiredLeases, Time, LeaseExpires, BackoffElapses,
       Restart, WorkerRestarts
  <1>8. CASE UNCHANGED vars
    BY <1>u, <1>8 DEF vars
  <1>9. QED
    BY <1>2, <1>3, <1>4, <1>5, <1>6, <1>7, <1>8 DEF Next

\* A job keeps its release.
LEMMA CandsKept ==
    ASSUME TypeOK, [Next]_vars
    PROVE  \A k \in JobIds : Exists(k) => jobs'[k].cand = jobs[k].cand
  <1>1. ASSUME NEW g, NEW c, NEW A, NEW p, CreateJob(g, c, A, p)
        PROVE  \A k \in JobIds : Exists(k) => jobs'[k].cand = jobs[k].cand
    BY <1>1, RowCreated
  <1>2. CASE \E c \in Grabs : EnqueueFromGrab(c)
    BY <1>1, <1>2 DEF EnqueueFromGrab
  <1>3. CASE \E c \in Candidates : GrabFallback(c)
    BY <1>1, <1>3 DEF GrabFallback
  <1>4. QED
    BY <1>2, <1>3, Originless DEF SameOrigins

\* So what fits a job goes on fitting it.
LEMMA FitsLasts ==
    ASSUME TypeOK, ClientInv, [Next]_vars
    PROVE  \A k \in JobIds : \A d : Exists(k) =>
               /\ Fits(k, d) => Fits(k, d)'
               /\ Finished(k, d) => Finished(k, d)'
  <1>1. /\ \A k \in JobIds : Exists(k) => jobs'[k].cand = jobs[k].cand
        /\ \A d \in DOMAIN client : /\ d \in DOMAIN client'
                                    /\ client'[d].cand = client[d].cand
                                    /\ client[d].done => client'[d].done
    BY CandsKept, ClientLasts
  <1>2. ASSUME NEW k \in JobIds, NEW d, Exists(k), Fits(k, d) PROVE Fits(k, d)'
    BY <1>1, <1>2 DEF Fits, Work
  <1>3. ASSUME NEW k \in JobIds, NEW d, Exists(k), Finished(k, d) PROVE Finished(k, d)'
    BY <1>1, <1>2, <1>3 DEF Finished, Fits
  <1>4. QED
    BY <1>2, <1>3

\* The row fields the invariant is about.
LEMMA RowOutputs ==
    ASSUME NEW job \in Job
    PROVE  /\ \A s \in Status, o \in Nat :
                 /\ Progressed(job, s, o).status = s
                 /\ o # 0 => Progressed(job, s, o).output = o
           /\ \A v : /\ [job EXCEPT !.lease = v].status = job.status
                     /\ [job EXCEPT !.lease = v].output = job.output
                     /\ [job EXCEPT !.lease = v].downloadID = job.downloadID
                     /\ [job EXCEPT !.due = v].status = job.status
                     /\ [job EXCEPT !.due = v].output = job.output
                     /\ [job EXCEPT !.due = v].downloadID = job.downloadID
  <1>1. job = [status |-> job.status, attempt |-> job.attempt, due |-> job.due,
               lease |-> job.lease, downloadID |-> job.downloadID,
               output |-> job.output, cand |-> job.cand, uri |-> job.uri,
               attempted |-> job.attempted]
    BY DEF Job
  <1>2. QED
    BY <1>1 DEF Progressed

\* A row gets its download id from MarkSubmitted and its "completed" status,
\* with the output, from UpdateProgress.
LEMMA RealRows ==
    ASSUME TypeOK, [Next]_vars, NEW k \in JobIds
    PROVE  /\ \/ jobs'[k].downloadID \in {0, jobs[k].downloadID}
              \/ /\ MarkSubmitted /\ k = submit.job
                 /\ jobs'[k].downloadID = submit.did
           /\ jobs'[k].status = "completed" =>
                 \/ jobs[k].status = "completed" /\ jobs'[k].output = jobs[k].output
                 \/ /\ UpdateProgress /\ k = poll.answer.job
                    /\ poll.answer.status = "completed"
                    /\ poll.answer.output # 0 => jobs'[k].output = poll.answer.output
  <1> DEFINE Id == \/ jobs'[k].downloadID \in {0, jobs[k].downloadID}
                   \/ /\ MarkSubmitted /\ k = submit.job
                      /\ jobs'[k].downloadID = submit.did
             Out == jobs'[k].status = "completed" =>
                 \/ jobs[k].status = "completed" /\ jobs'[k].output = jobs[k].output
                 \/ /\ UpdateProgress /\ k = poll.answer.job
                    /\ poll.answer.status = "completed"
                    /\ poll.answer.output # 0 => jobs'[k].output = poll.answer.output
  <1> SUFFICES Id /\ Out
    OBVIOUS
  <1>t. \A j \in JobIds : jobs[j] \in Job
    BY DEF TypeOK, JobsTyped
  <1>s. {"canceled", "failed", "completed"} \subseteq Status
    BY DEF Status, Terminal
  <1>u. ASSUME jobs' = jobs PROVE Id /\ Out
    BY <1>u
  <1>c. ASSUME NEW g, NEW c, NEW A, NEW p, CreateJob(g, c, A, p) PROVE Id /\ Out
    <2>1. k # nextJob => jobs'[k] = jobs[k]
      BY <1>c, RowCreated
    <2>2. k = nextJob => jobs'[k].status = "queued" /\ jobs'[k].downloadID = 0
      BY <1>c, RowCreated
    <2>3. QED
      BY <2>1, <2>2
  \* A row written by anyone else keeps its id and is not "completed".
  <1>w. ASSUME NEW j \in JobIds, NEW row, jobs' = [jobs EXCEPT ![j] = row],
               row.downloadID = jobs[j].downloadID,
               row.status # "completed"
        PROVE  Id /\ Out
    <2>1. jobs'[k] = IF k = j THEN row ELSE jobs[k]
      BY <1>w, RowWritten
    <2>2. QED
      BY <1>w, <2>1
  <1>p. ASSUME NEW j \in JobIds, NEW s \in Status, s # "completed",
               jobs' = [jobs EXCEPT ![j] = Progressed(@, s, 0)]
        PROVE  Id /\ Out
    <2>1. /\ Progressed(jobs[j], s, 0).downloadID = jobs[j].downloadID
          /\ Progressed(jobs[j], s, 0).status = s
      BY <1>t, RowFields
    <2>2. jobs' = [jobs EXCEPT ![j] = Progressed(jobs[j], s, 0)]
      BY <1>p
    <2>3. QED
      BY <1>p, <1>w, <2>1, <2>2
  <1>1. ASSUME NEW j \in JobIds, CancelJob(j) PROVE Id /\ Out
    BY <1>1, <1>p, <1>s DEF CancelJob
  <1>2. ASSUME NEW j \in JobIds, RetryJob(j) PROVE Id /\ Out
    BY <1>t, <1>2, <1>w, RowFields, RowEffects DEF RetryJob
  <1>3. ASSUME NEW j \in JobIds, ClaimNextQueued(j) PROVE Id /\ Out
    BY <1>t, <1>3, <1>w, RowFields, RowEffects DEF ClaimNextQueued
  <1>4. ASSUME MarkSubmitted PROVE Id /\ Out
    <2>1. submit.job \in JobIds /\ submit.did \in Nat
      BY <1>4, SubmitJob DEF MarkSubmitted, TypeOK, SubmitTyped
    <2>2. /\ Submitted(jobs[submit.job], submit.did).downloadID = submit.did
          /\ Submitted(jobs[submit.job], submit.did).status = "downloading"
      BY <1>t, <2>1, RowFields, RowEffects
    <2>3. jobs'[k] = IF k = submit.job THEN Submitted(jobs[submit.job], submit.did)
                                       ELSE jobs[k]
      BY <1>4, <2>1, RowWritten DEF MarkSubmitted
    <2>4. QED
      BY <1>4, <2>2, <2>3
  <1>5. ASSUME CloseReplaced PROVE Id /\ Out
    <2>1. submit.job \in JobIds
      BY <1>5, SubmitJob DEF CloseReplaced
    <2>2. QED
      BY <1>5, <1>p, <1>s, <2>1 DEF CloseReplaced
  <1>6. ASSUME Reschedule PROVE Id /\ Out
    <2>1. submit.job \in JobIds
      BY <1>6, SubmitJob DEF Reschedule
    <2>2. (submit.attempt >= MaxAttempts) \in BOOLEAN
      BY BoundsAssumption DEF TypeOK, SubmitTyped
    <2>3. LET row == Rescheduled(jobs[submit.job], submit.attempt >= MaxAttempts)
          IN  row.downloadID = jobs[submit.job].downloadID /\ row.status # "completed"
      BY <1>t, <2>1, <2>2, RowFields, RowEffects
    <2>4. QED
      BY <1>6, <1>w, <2>1, <2>3 DEF Reschedule
  <1>7. ASSUME UpdateProgress PROVE Id /\ Out
    <2> DEFINE a == poll.answer
    <2>1. /\ a.job \in JobIds /\ jobs[a.job] \in Job
          /\ a.status \in Status /\ a.output \in Nat
      BY <1>7, AnswerJob DEF UpdateProgress
    <2>2. /\ Progressed(jobs[a.job], a.status, a.output).status = a.status
          /\ Progressed(jobs[a.job], a.status, a.output).downloadID
                = jobs[a.job].downloadID
          /\ a.output # 0 =>
                Progressed(jobs[a.job], a.status, a.output).output = a.output
      BY <2>1, RowFields, RowOutputs
    <2>3. jobs'[k] = IF k = a.job THEN Progressed(jobs[a.job], a.status, a.output)
                                  ELSE jobs[k]
      BY <1>7, <2>1, RowWritten DEF UpdateProgress
    <2>4. QED
      BY <1>7, <2>2, <2>3
  <1>8. ASSUME RecoverExpiredLeases PROVE Id /\ Out
    BY <1>t, <1>8, RowsRecovered, RowFields, RowEffects
  <1>9. ASSUME NEW j \in JobIds, LeaseExpires(j) PROVE Id /\ Out
    <2>1. jobs' = [jobs EXCEPT ![j] = [jobs[j] EXCEPT !.lease = "expired"]]
      BY <1>9 DEF LeaseExpires
    <2>2. jobs'[k] = IF k = j THEN [jobs[j] EXCEPT !.lease = "expired"] ELSE jobs[k]
      BY <2>1, RowWritten
    <2>3. QED
      BY <1>t, <2>2, RowOutputs
  <1>10. ASSUME NEW j \in JobIds, BackoffElapses(j) PROVE Id /\ Out
    <2>1. jobs' = [jobs EXCEPT ![j] = [jobs[j] EXCEPT !.due = TRUE]]
      BY <1>10 DEF BackoffElapses
    <2>2. jobs'[k] = IF k = j THEN [jobs[j] EXCEPT !.due = TRUE] ELSE jobs[k]
      BY <2>1, RowWritten
    <2>3. QED
      BY <1>t, <2>2, RowOutputs
  <1> HIDE DEF Id, Out
  <1>11. CASE Operator
    BY <1>c, <1>1, <1>2, <1>11 DEF Operator, EnqueueFromGrab
  <1>12. CASE SubmitStep
    <2>1. CASE AddDownloadTaken \/ AddDownloadRefused \/ ListFallbacks \/ NoFallbackLeft
      BY <1>u, <2>1 DEF AddDownloadTaken, AddDownloadRefused, ListFallbacks,
                       NoFallbackLeft
    <2>2. ASSUME NEW c \in Candidates, GrabFallback(c) \/ SkipFallback(c) PROVE Id /\ Out
      BY <1>c, <1>u, <2>2 DEF GrabFallback, SkipFallback
    <2>3. QED
      BY <1>3, <1>4, <1>5, <1>6, <1>12, <2>1, <2>2 DEF SubmitStep
  <1>13. CASE PollStep
    BY <1>u, <1>7, <1>13 DEF PollStep, ListActiveJobs, GetStatus
  <1>14. CASE Time
    BY <1>9, <1>10, <1>14 DEF Time
  <1>15. CASE Restart \/ WorkerRestarts
    BY <1>u, <1>15 DEF Restart, WorkerRestarts
  <1>16. ASSUME NEW d \in 1..MaxDownloads, ClientAdvance(d) \/ ClientForget(d)
         PROVE Id /\ Out
    BY <1>u, <1>16 DEF ClientAdvance, ClientForget
  <1>17. CASE UNCHANGED vars
    BY <1>u, <1>17 DEF vars
  <1>18. QED
    BY <1>8, <1>11, <1>12, <1>13, <1>14, <1>15, <1>16, <1>17 DEF Next

\* The worker comes by an accepted download through AddDownload alone.
LEMMA AcceptedSteps ==
    ASSUME TypeOK, [Next]_vars, submit'.pc = "accepted"
    PROVE  \/ submit.pc = "accepted" /\ submit' = submit
           \/ AddDownloadTaken /\ submit' = [submit EXCEPT !.pc = "accepted",
                                                           !.did = Len(client) + 1]
  <1>0. submit \in [pc : SubmitPC, job : Nat, attempt : Nat,
                    did : Nat, todo : SUBSET Candidates]
    BY DEF TypeOK, SubmitTyped
  <1>i. SubmitIdle.pc = "idle"
    BY DEF SubmitIdle
  <1>1. CASE Operator
    BY <1>1 DEF Operator, EnqueueFromGrab, CancelJob, RetryJob
  <1>2. CASE SubmitStep
    <2>1. ASSUME NEW j \in JobIds, ClaimNextQueued(j) PROVE FALSE
      BY <2>1 DEF ClaimNextQueued, SubmitIdle
    <2>2. CASE AddDownloadTaken
      BY <1>0, <2>2 DEF AddDownloadTaken
    <2>3. CASE MarkSubmitted \/ CloseReplaced \/ Reschedule
      BY <1>i, <2>3 DEF MarkSubmitted, CloseReplaced, Reschedule
    <2>4. CASE AddDownloadRefused \/ ListFallbacks \/ NoFallbackLeft
      BY <1>0, <2>4 DEF AddDownloadRefused, ListFallbacks, NoFallbackLeft
    <2>5. ASSUME NEW c \in Candidates, GrabFallback(c) \/ SkipFallback(c) PROVE FALSE
      BY <1>0, <2>5 DEF GrabFallback, SkipFallback
    <2>6. QED
      BY <1>2, <2>1, <2>2, <2>3, <2>4, <2>5 DEF SubmitStep
  <1>3. CASE PollStep
    BY <1>3 DEF PollStep, ListActiveJobs, GetStatus, UpdateProgress
  <1>4. CASE RecoverExpiredLeases \/ Time
    BY <1>4 DEF RecoverExpiredLeases, Time, LeaseExpires, BackoffElapses
  <1>5. CASE Restart
    BY <1>i, <1>5 DEF Restart
  <1>6. CASE WorkerRestarts
    BY <1>i, <1>6 DEF WorkerRestarts, DropSubmit, DropPoll
  <1>7. ASSUME NEW d \in 1..MaxDownloads, ClientAdvance(d) \/ ClientForget(d)
        PROVE  submit' = submit
    BY <1>7 DEF ClientAdvance, ClientForget
  <1>8. CASE UNCHANGED vars
    BY <1>8 DEF vars
  <1>9. QED
    BY <1>1, <1>2, <1>3, <1>4, <1>5, <1>6, <1>7, <1>8 DEF Next

\* The poll worker's list only comes from a snapshot, a "completed" answer
\* only from a download GetStatus resolved to.
LEMMA PollSteps ==
    ASSUME TypeOK, [Next]_vars
    PROVE  /\ poll'.todo \subseteq poll.todo \/ poll'.todo = PollSnapshot
           /\ poll'.answer.status = "completed" =>
                 \/ poll'.answer = poll.answer
                 \/ \E e \in poll.todo : \E d \in Resolved(e) :
                       /\ poll'.answer = PollAnswer(e.job, d)
  <1> DEFINE Todo == poll'.todo \subseteq poll.todo \/ poll'.todo = PollSnapshot
             Ans == poll'.answer.status = "completed" =>
                 \/ poll'.answer = poll.answer
                 \/ \E e \in poll.todo : \E d \in Resolved(e) :
                       /\ poll'.answer = PollAnswer(e.job, d)
  <1> SUFFICES Todo /\ Ans
    OBVIOUS
  <1>0. poll = [todo |-> poll.todo, answer |-> poll.answer]
    BY DEF TypeOK, PollTyped
  <1>i. PollIdle.todo = {} /\ PollIdle.answer = NoAnswer /\ NoAnswer.status = "absent"
    BY DEF PollIdle, NoAnswer
  <1>u. ASSUME poll' = poll PROVE Todo /\ Ans
    BY <1>u
  <1>d. ASSUME poll' = [poll EXCEPT !.answer = NoAnswer] PROVE Todo /\ Ans
    <2>1. poll'.todo = poll.todo /\ poll'.answer = NoAnswer
      BY <1>0, <1>d
    <2>2. QED
      BY <1>i, <2>1
  <1>1. CASE ListActiveJobs
    <2>1. poll' = [poll EXCEPT !.todo = PollSnapshot]
      BY <1>1 DEF ListActiveJobs
    <2>2. poll'.todo = PollSnapshot /\ poll'.answer = poll.answer
      BY <1>0, <2>1
    <2>3. QED
      BY <2>2
  <1>2. ASSUME NEW e \in poll.todo, GetStatus(e) PROVE Todo /\ Ans
    <2>1. poll'.todo = poll.todo \ {e}
      BY <1>2 DEF GetStatus
    <2>2. \/ \E d \in Resolved(e) : poll'.answer = PollAnswer(e.job, d)
          \/ poll'.answer.status = "failed"
      BY <1>2 DEF GetStatus
    <2>3. QED
      BY <2>1, <2>2
  <1> HIDE DEF Todo, Ans
  <1>3. CASE PollStep
    BY <1>d, <1>1, <1>2, <1>3 DEF PollStep, UpdateProgress
  <1>4. CASE Operator
    BY <1>u, <1>4 DEF Operator, EnqueueFromGrab, CancelJob, RetryJob
  <1>5. CASE SubmitStep
    BY <1>u, <1>5 DEF SubmitStep, ClaimNextQueued, AddDownloadTaken,
       AddDownloadRefused, MarkSubmitted, ListFallbacks, GrabFallback,
       SkipFallback, NoFallbackLeft, CloseReplaced, Reschedule
  <1>6. CASE RecoverExpiredLeases \/ Time
    BY <1>u, <1>6 DEF RecoverExpiredLeases, Time, LeaseExpires, BackoffElapses
  <1>7. ASSUME poll' = PollIdle PROVE Todo /\ Ans
    BY <1>i, <1>7 DEF Todo, Ans
  <1>8. CASE Restart \/ WorkerRestarts
    BY <1>u, <1>d, <1>7, <1>8 DEF Restart, WorkerRestarts, DropSubmit, DropPoll
  <1>9. ASSUME NEW d \in 1..MaxDownloads, ClientAdvance(d) \/ ClientForget(d)
        PROVE  Todo /\ Ans
    BY <1>u, <1>9 DEF ClientAdvance, ClientForget
  <1>10. CASE UNCHANGED vars
    BY <1>u, <1>10 DEF vars
  <1>11. QED
    BY <1>3, <1>4, <1>5, <1>6, <1>8, <1>9, <1>10 DEF Next

\* An answer for a job is about a download of its work, and says
\* "completed" only of one that is.
LEMMA AnswerFits ==
    ASSUME TypeOK, RealInv, NEW e \in poll.todo, NEW d \in Resolved(e)
    PROVE  /\ PollAnswer(e.job, d).job = e.job
           /\ Fits(e.job, d)
           /\ PollAnswer(e.job, d).status = "completed" =>
                 PollAnswer(e.job, d).output = d /\ Finished(e.job, d)
  <1>1. Fits(e.job, e.did)
    BY DEF RealInv
  <1>2. Fits(e.job, d)
    <2>1. CASE d = e.did
      BY <1>1, <2>1
    <2>2. CASE d \in {n \in DOMAIN client : Known(n) /\ client[n].cand = jobs[e.job].cand}
      BY <2>2 DEF Fits, Work
    <2>3. CASE d \in {n \in DOMAIN client :
                         Known(n) /\ WorkOf[client[n].cand] = Work(e.job)}
      BY <2>3 DEF Fits
    <2>4. QED
      BY <2>1, <2>2, <2>3 DEF Resolved
  <1>3. /\ PollAnswer(e.job, d).job = e.job
        /\ PollAnswer(e.job, d).status = normalizeState(client[d].state)
        /\ PollAnswer(e.job, d).status = "completed" => PollAnswer(e.job, d).output = d
    BY DEF PollAnswer
  <1>4. ASSUME normalizeState(client[d].state) = "completed"
        PROVE  client[d].state = "completed"
    BY <1>4 DEF normalizeState, Status, Active, Terminal
  <1>5. client[d].state = "completed" => client[d].done
    BY <1>2 DEF RealInv, ClientInv, Fits
  <1>6. QED
    BY <1>2, <1>3, <1>4, <1>5 DEF Finished

LEMMA RealStep == TypeOK /\ RealInv /\ [Next]_vars => RealInv'
  <1> SUFFICES ASSUME TypeOK, RealInv, [Next]_vars PROVE RealInv'
    OBVIOUS
  <1>0. ClientInv
    BY DEF RealInv
  <1>l. \A k \in JobIds : \A d : Exists(k) =>
               /\ Fits(k, d) => Fits(k, d)'
               /\ Finished(k, d) => Finished(k, d)'
    BY <1>0, FitsLasts
  <1>e. /\ \A k \in JobIds : jobs[k].status = "completed" => Exists(k)
        /\ \A k \in JobIds : jobs[k].downloadID # 0 => Exists(k)
        /\ \A e \in poll.todo : e.job \in JobIds /\ Exists(e.job)
    <2>1. \A k \in JobIds : k < nextJob \/ jobs[k] = AbsentJob
      BY DEF TypeOK, JobsTyped
    <2>2. \A k \in JobIds : k < nextJob => Exists(k)
      BY DEF TypeOK, JobsTyped
    <2>3. AbsentJob.status = "absent" /\ AbsentJob.downloadID = 0
      BY DEF AbsentJob
    <2>4. \A e \in poll.todo : e.job \in 1..(nextJob - 1)
      BY DEF TypeOK, PollTyped
    <2>5. QED
      BY <2>1, <2>2, <2>3, <2>4, Existing
  <1>1. ClientInv'
    BY <1>0, ClientLasts
  <1>2. ASSUME NEW k \in JobIds, jobs'[k].downloadID # 0
        PROVE  Fits(k, jobs[k].downloadID)'
    <2>1. PICK d : d = jobs'[k].downloadID
      OBVIOUS
    <2>2. Exists(k) /\ Fits(k, d)
      <3>1. CASE d = jobs[k].downloadID
        BY <1>2, <1>e, <2>1, <3>1 DEF RealInv
      <3>2. CASE MarkSubmitted /\ k = submit.job /\ d = submit.did
        BY <3>2, SubmitJob DEF MarkSubmitted, RealInv
      <3>3. QED
        BY <1>2, <2>1, <3>1, <3>2, RealRows
    <2>3. Fits(k, d)'
      BY <1>l, <2>2
    <2>4. QED
      BY <2>1, <2>3 DEF Fits, Work
  <1>3. ASSUME submit'.pc = "accepted" PROVE Fits(submit.job, submit.did)'
    <2>1. CASE submit.pc = "accepted" /\ submit' = submit
      <3>1. PICK j, d : j \in JobIds /\ j = submit.job /\ d = submit.did
        BY <2>1, SubmitJob
      <3>2. Fits(j, d)'
        BY <1>l, <2>1, <3>1, SubmitJob DEF RealInv
      <3>3. QED
        BY <2>1, <3>1, <3>2 DEF Fits, Work
    <2>2. CASE AddDownloadTaken /\ submit' = [submit EXCEPT !.pc = "accepted",
                                                           !.did = Len(client) + 1]
      <3> DEFINE new == [cand |-> jobs[submit.job].cand, state |-> "queued",
                         done |-> FALSE]
      <3>1. /\ client' = Append(client, new) /\ jobs' = jobs
            /\ submit'.job = submit.job /\ submit'.did = Len(client) + 1
        BY <2>2 DEF AddDownloadTaken, TypeOK, SubmitTyped
      <3>2. new.cand = jobs[submit.job].cand
        OBVIOUS
      <3> HIDE DEF new
      <3>3. /\ Len(client) + 1 \in DOMAIN client'
            /\ client'[Len(client) + 1] = new
        BY <3>1 DEF TypeOK
      <3>4. QED
        BY <3>1, <3>2, <3>3 DEF Fits, Work
    <2>3. QED
      BY <1>3, <2>1, <2>2, AcceptedSteps
  <1>4. ASSUME NEW e \in poll'.todo PROVE Fits(e.job, e.did)'
    <2>1. e.job \in JobIds /\ Exists(e.job) /\ Fits(e.job, e.did)
      <3>1. CASE e \in poll.todo
        BY <1>e, <3>1 DEF RealInv
      <3>2. CASE e \in PollSnapshot
        BY <1>e, <3>2 DEF PollSnapshot, RealInv
      <3>3. QED
        BY <3>1, <3>2, PollSteps
    <2>2. QED
      BY <1>l, <2>1
  <1>5. ASSUME poll'.answer.status = "completed"
        PROVE  Finished(poll.answer.job, poll.answer.output)'
    <2>1. PICK j, d : j = poll'.answer.job /\ d = poll'.answer.output
      OBVIOUS
    <2>2. j \in JobIds /\ Exists(j) /\ Finished(j, d)
      <3>1. CASE poll'.answer = poll.answer
        <4>1. poll.answer # NoAnswer
          BY <1>5, <3>1 DEF NoAnswer
        <4>2. QED
          BY <1>5, <2>1, <3>1, <4>1, AnswerJob DEF RealInv
      <3>2. ASSUME NEW e \in poll.todo, NEW n \in Resolved(e),
                   poll'.answer = PollAnswer(e.job, n)
            PROVE  j \in JobIds /\ Exists(j) /\ Finished(j, d)
        BY <1>5, <1>e, <2>1, <3>2, AnswerFits
      <3>3. QED
        BY <1>5, <3>1, <3>2, PollSteps
    <2>3. Finished(j, d)'
      BY <1>l, <2>2
    <2>4. QED
      BY <2>1, <2>3 DEF Finished, Fits, Work
  <1>6. ASSUME NEW k \in JobIds, jobs'[k].status = "completed"
        PROVE  Finished(k, jobs[k].output)'
    <2>1. PICK d : d = jobs'[k].output
      OBVIOUS
    <2>2. Exists(k) /\ Finished(k, d)
      <3>1. CASE jobs[k].status = "completed" /\ d = jobs[k].output
        BY <1>e, <3>1 DEF RealInv, CompletedIsReal, Finished, Fits
      <3>2. CASE /\ UpdateProgress /\ k = poll.answer.job
                 /\ poll.answer.status = "completed"
                 /\ poll.answer.output # 0 => d = poll.answer.output
        <4>1. Finished(k, poll.answer.output)
          BY <3>2 DEF RealInv
        <4>2. poll.answer.output # 0
          BY <4>1 DEF Finished, Fits, TypeOK
        <4>3. QED
          BY <3>2, <4>1, <4>2, AnswerJob DEF UpdateProgress
      <3>3. QED
        BY <1>6, <2>1, <3>1, <3>2, RealRows
    <2>3. Finished(k, d)'
      BY <1>l, <2>2
    <2>4. QED
      BY <2>1, <2>3 DEF Finished, Fits, Work
  <1>7. CompletedIsReal'
    BY <1>6 DEF CompletedIsReal, Finished, Fits
  <1>8. QED
    BY <1>1, <1>2, <1>3, <1>4, <1>5, <1>7 DEF RealInv

\* A completed job's output is that of a completed download of its own work,
\* for any number of jobs, downloads, retries and restarts, with or without
\* the lookup by tag.
THEOREM CompletedIsRealHolds == Spec => []CompletedIsReal
  <1>1. Init => RealInv
    BY DEF Init, RealInv, ClientInv, CompletedIsReal, PollIdle, NoAnswer,
           SubmitIdle, AbsentJob
  <1>2. RealInv => CompletedIsReal
    BY DEF RealInv
  <1>3. QED
    BY <1>1, <1>2, RealStep, TypeCorrect, PTL DEF Spec
=============================================================================
