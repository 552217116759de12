-------------------------- MODULE EnrichmentQueue --------------------------
(***************************************************************************)
(* The enrichment queue of metadata-service: the table enrichment_jobs     *)
(* (internal/store/enrichment_jobs.go), the workers that lock its rows     *)
(* (internal/enrichment/worker.go), the three handlers they run            *)
(* (internal/enrichment/handlers) and everyone who enqueues: searches, an  *)
(* identifier lookup, the API and author_expand itself.                    *)
(*                                                                         *)
(* A row is locked by being 'running': there is no lease and nobody resets *)
(* a running row, so a row whose worker stopped, or whose outcome was not  *)
(* written, stays running and keeps its key (Stranded).                    *)
(*                                                                         *)
(* Abstracted: what providers return (any outcome a handler may see), the  *)
(* length of the one-second backoff, and run rows, counted per job.        *)
(***************************************************************************)
EXTENDS Integers, Sequences, FiniteSets

CONSTANTS
    Works,          \* works the providers know
    Authors,        \* authors a user may ask to expand
    Workers,
    Callers,        \* requests of the resolver and of the API
    MaxAttempts,    \* max_attempts of a row: 5 in the code
    MaxPerExpand,   \* maxJobsPerExpand: 5 in the code
    MaxPerSearch,   \* maxJobs of scheduleSearchEnrichment: 3 in the code
    Searched,       \* the works searches and lookups find
    Posted,         \* the keys users ask for through the API
    MaxRows,        \* bound: rows that the requests can add
    MaxTroubles     \* bound: statements that fail or lose their reply, and
                    \*   stops of the service

ASSUME BoundsAssumption ==
    /\ {MaxAttempts, MaxPerExpand, MaxPerSearch} \subseteq Nat \ {0}
    /\ {MaxRows, MaxTroubles} \subseteq Nat
ASSUME WorksAssumption == IsFiniteSet(Works) /\ Searched \subseteq Works
ASSUME ClientsAssumption == IsFiniteSet(Workers) /\ Workers \cap Callers = {}

VARIABLES
    jobs,       \* enrichment_jobs, by id
    runs,       \* enrichment_job_runs: rows started and finished, per job
    at,         \* Worker.Run: where each worker is
    job,        \* the id each worker holds
    ask,        \* the EnqueueJob calls each client has left, and its quotas
    works,      \* the table works, by id
    used        \* bound: requests, faults and restarts so far

vars == <<jobs, runs, at, job, ask, works, used>>

-----------------------------------------------------------------------------
Editions(w) == <<"work_editions", w>>
Graph(w)    == <<"graph_update_work", w>>
Expand(a)   == <<"author_expand", a>>

Types == {"work_editions", "graph_update_work", "author_expand"}
Keys  == {Editions(w) : w \in Works} \cup {Graph(w) : w \in Works}
            \cup {Expand(a) : a \in Authors}
ASSUME PostedAssumption == Posted \subseteq Keys
Priorities == {50, 52, 55, 100}
Status  == {"queued", "running", "succeeded", "dead"}
Clients == Workers \cup Callers
Places  == {"idle", "locked", "handling", "expanding", "done", "failed",
            "markDone", "markFailed"}

Row  == [key : Keys, priority : Priorities, status : Status,
         attempts : 0..MaxAttempts, waiting : BOOLEAN]
Runs == [started : Nat, finished : Nat]
Call == [key : Keys, priority : Priorities]
Ask  == [todo : Seq(Call), dup : BOOLEAN, left : [Types -> Int],
         ends : BOOLEAN]
Used == [rows : Nat, faults : Nat, restarts : Nat]

NoAsk == [todo |-> <<>>, dup |-> FALSE, left |-> [t \in Types |-> 0],
          ends |-> FALSE]

Rows == 1..Len(jobs)
JobIds == 1..(MaxRows + MaxTroubles)    \* a lost reply may add a row
Live(i) == jobs[i].status \in {"queued", "running"}
Settled(i) == jobs[i].status \in {"succeeded", "dead"}
LiveOf(k) == {i \in Rows : Live(i) /\ jobs[i].key = k}
Running(i) == i \in Rows /\ jobs[i].status = "running"
Held(i) == \E w \in Workers : at[w] # "idle" /\ job[w] = i
Stranded(i) == Running(i) /\ ~Held(i)

-----------------------------------------------------------------------------
Init ==
    /\ jobs = <<>>
    /\ runs = <<>>
    /\ at = [w \in Workers |-> "idle"]
    /\ job = [w \in Workers |-> 0]
    /\ ask = [c \in Clients |-> NoAsk]
    /\ works = {}
    /\ used = [rows |-> 0, faults |-> 0, restarts |-> 0]

CanFault == used.faults + used.restarts < MaxTroubles
CountFault == used' = [used EXCEPT !.faults = @ + 1]

-----------------------------------------------------------------------------
(* EnqueueJob: the INSERT, and after a unique violation the SELECT of the  *)
(* row that has the key.  The callers drop its errors.                     *)

WantEditions(w, p) == [key |-> Editions(w), priority |-> p]
WantGraph(w, p)    == [key |-> Graph(w), priority |-> p]

\* The rest of the calls: a loop stops once it has enqueued its quota of
\* work_editions, and passes over graph_update_work beyond that quota.
Rest(todo, left) ==
    LET barred(cs, t) == cs # <<>> /\ Head(cs).key[1] = t /\ left[t] <= 0
        passed == IF barred(todo, "graph_update_work") THEN Tail(todo) ELSE todo
    IN  IF barred(passed, "work_editions") THEN <<>> ELSE passed

\* The call at the head returned, and counts if it returned an id.
Returned(a, ok) ==
    LET t    == Head(a.todo).key[1]
        left == IF ok THEN [a.left EXCEPT ![t] = @ - 1] ELSE a.left
    IN  [a EXCEPT !.todo = Rest(Tail(a.todo), left), !.dup = FALSE,
                  !.left = left]

NewRow(call) ==
    [key |-> call.key, priority |-> call.priority, status |-> "queued",
     attempts |-> 0, waiting |-> FALSE]

\* Mutant: an index over the queued rows only.
DedupedQueued(k) == \E i \in LiveOf(k) : jobs[i].status = "queued"

\* uq_enrichment_jobs_dedupe: unique over the queued and running rows.
Deduped(k) == LiveOf(k) # {}

\* Mutant: a run row is counted from the start.
InsertRowStarted(call) ==
    /\ jobs' = Append(jobs, NewRow(call))
    /\ runs' = Append(runs, [started |-> 0])

InsertRow(call) ==
    /\ jobs' = Append(jobs, NewRow(call))
    /\ runs' = Append(runs, [started |-> 0, finished |-> 0])

InsertJob(c) ==
    LET call == Head(ask[c].todo) IN
    /\ ask[c].todo # <<>>
    /\ ~ask[c].dup
    /\ IF Deduped(call.key)
       THEN /\ ask' = [ask EXCEPT ![c].dup = TRUE]
            /\ UNCHANGED <<jobs, runs>>
       ELSE /\ InsertRow(call)
            /\ ask' = [ask EXCEPT ![c] = Returned(@, TRUE)]
    /\ UNCHANGED <<at, job, works, used>>

\* The INSERT or its reply is lost; the caller sees an error.
InsertFails(c) ==
    /\ ask[c].todo # <<>>
    /\ ~ask[c].dup
    /\ CanFault
    /\ \/ UNCHANGED <<jobs, runs>>
       \/ ~Deduped(Head(ask[c].todo).key) /\ InsertRow(Head(ask[c].todo))
    /\ ask' = [ask EXCEPT ![c] = Returned(@, FALSE)]
    /\ CountFault
    /\ UNCHANGED <<at, job, works>>

\* No row left with the key means no id: the job ended between the two
\* statements and the caller is told of an error.
SelectJob(c) ==
    /\ ask[c].todo # <<>>
    /\ ask[c].dup
    /\ ask' = [ask EXCEPT ![c] = Returned(@, LiveOf(Head(ask[c].todo).key) # {})]
    /\ UNCHANGED <<jobs, runs, at, job, works, used>>

-----------------------------------------------------------------------------
(* Who asks.                                                               *)

Cost(call) ==
    IF call.key[1] = "author_expand" THEN 1 + 2 * MaxPerExpand ELSE 1

\* ends: the calls run in the context of the HTTP request.
Calls(todo, n, ends) ==
    [todo |-> todo, dup |-> FALSE, left |-> [t \in Types |-> n],
     ends |-> ends]

Asking(c, todo, n, ends) ==
    LET cost == IF Len(todo) = 1 THEN Cost(Head(todo)) ELSE Len(todo) IN
    /\ ask[c].todo = <<>>
    /\ used.rows + cost <= MaxRows
    /\ ask' = [ask EXCEPT ![c] = Calls(todo, n, ends)]
    /\ used' = [used EXCEPT !.rows = @ + cost]
    /\ UNCHANGED <<jobs, runs, at, job>>

\* A search persists a work, or fails to, and asks for its editions anyway.
SearchWorks(c) ==
    /\ \E w \in Searched, persisted \in BOOLEAN :
        /\ works' = IF persisted THEN works \cup {w} ELSE works
        /\ Asking(c, <<WantEditions(w, 50)>>, MaxPerSearch, FALSE)

\* scheduleGraphUpdate, once a work is persisted.
ScheduleGraphUpdate(c) ==
    /\ \E w \in works \cap Searched : Asking(c, <<WantGraph(w, 52)>>, 1, TRUE)
    /\ UNCHANGED works

\* An identifier found at a provider is never persisted.
ResolveIdentifier(c) ==
    /\ \E w \in Searched :
        Asking(c, <<WantEditions(w, 50), WantGraph(w, 52)>>, 1, FALSE)
    /\ UNCHANGED works

\* POST /v1/enrichment/jobs, with the default priority.
EnqueueEnrichmentJob(c) ==
    /\ \E k \in Posted : Asking(c, <<[key |-> k, priority |-> 100]>>, 1, TRUE)
    /\ UNCHANGED works

\* The request is over, and its context with it: scheduleGraphUpdate runs
\* beside the response, and a user may hang up on the API.
RequestEnds(c) ==
    /\ ask[c].todo # <<>>
    /\ ask[c].ends
    /\ ask' = [ask EXCEPT ![c] = NoAsk]
    /\ UNCHANGED <<jobs, runs, at, job, works, used>>

-----------------------------------------------------------------------------
(* Worker.Run.                                                             *)

\* Mutant: only rows without not_before are taken.
RunnableUnset(i) == jobs[i].status = "queued" /\ jobs[i].attempts = 0

\* ORDER BY priority, created_at: the row LockNextQueuedQuery takes.
Runnable(i) == jobs[i].status = "queued" /\ ~jobs[i].waiting
Before(i, j) ==
    \/ jobs[i].priority < jobs[j].priority
    \/ jobs[i].priority = jobs[j].priority /\ i <= j
IsNext(i) == Runnable(i) /\ \A j \in Rows : Runnable(j) => Before(i, j)

TryLockNextJob(w) ==
    /\ at[w] = "idle"
    /\ \E i \in Rows :
        /\ IsNext(i)
        /\ jobs' = [jobs EXCEPT ![i].status = "running"]
        /\ \/ /\ at' = [at EXCEPT ![w] = "locked"]
              /\ job' = [job EXCEPT ![w] = i]
              /\ UNCHANGED used
           \/ \* the reply is lost, the row stays locked
              CanFault /\ CountFault /\ UNCHANGED <<at, job>>
    /\ UNCHANGED <<runs, ask, works>>

StartRun(i) == runs' = [runs EXCEPT ![i].started = @ + 1]
FinishRun(i) == runs' = [runs EXCEPT ![i].finished = @ + 1]

RecordRunStart(w) ==
    /\ at[w] = "locked"
    /\ \/ /\ StartRun(job[w])
          /\ at' = [at EXCEPT ![w] = "handling"]
          /\ UNCHANGED used
       \/ /\ CanFault
          /\ CountFault
          /\ UNCHANGED runs \/ StartRun(job[w])
          /\ at' = [at EXCEPT ![w] = "markFailed"]
    /\ UNCHANGED <<jobs, job, ask, works>>

Goto(w, place) == at' = [at EXCEPT ![w] = place]

\* work_editions and graph_update_work fail without the work; with it, the
\* providers or the database decide.
HandleWork(w) ==
    LET key == jobs[job[w]].key IN
    /\ at[w] = "handling"
    /\ key[1] # "author_expand"
    /\ \/ key[2] \in works /\ Goto(w, "done")
       \/ Goto(w, "failed")
    /\ UNCHANGED <<jobs, runs, job, ask, works, used>>

\* author_expand inserts the works it discovers, best first, and asks for
\* the editions and the graph of each; finding none is a failure.
ExpandCalls(s) ==
    [n \in 1..(2 * Len(s)) |->
        IF n % 2 = 1 THEN WantEditions(s[(n + 1) \div 2], 55)
                     ELSE WantGraph(s[n \div 2], 52)]

Discoveries ==
    {s \in UNION {[1..n -> Works] : n \in 1..Cardinality(Works)} :
        \A m, n \in DOMAIN s : s[m] = s[n] => m = n}

HandleAuthor(w) ==
    /\ at[w] = "handling"
    /\ jobs[job[w]].key[1] = "author_expand"
    /\ \/ /\ \E s \in Discoveries :
              /\ works' = works \cup {s[n] : n \in DOMAIN s}
              /\ ask' = [ask EXCEPT ![w] =
                            Calls(ExpandCalls(s), MaxPerExpand, FALSE)]
          /\ Goto(w, "expanding")
       \/ Goto(w, "failed") /\ UNCHANGED <<ask, works>>
    /\ UNCHANGED <<jobs, runs, job, used>>

Expanded(w) ==
    /\ at[w] = "expanding"
    /\ ask[w].todo = <<>>
    /\ Goto(w, "done")
    /\ UNCHANGED <<jobs, runs, job, ask, works, used>>

\* RecordRunFinish; an error is dropped.
RecordRunFinish(w) ==
    /\ \/ at[w] = "done" /\ Goto(w, "markDone")
       \/ at[w] = "failed" /\ Goto(w, "markFailed")
    /\ \/ FinishRun(job[w]) /\ UNCHANGED used
       \/ CanFault /\ CountFault /\ UNCHANGED runs
    /\ UNCHANGED <<jobs, job, ask, works>>

Release(w) == Goto(w, "idle") /\ job' = [job EXCEPT ![w] = 0]

\* MarkSucceeded and MarkFailed; an error is dropped here too, and the row
\* stays running.
Mark(w, place, row) ==
    /\ at[w] = place
    /\ \/ jobs' = [jobs EXCEPT ![job[w]] = row] /\ UNCHANGED used
       \/ CanFault /\ CountFault /\ UNCHANGED jobs
    /\ Release(w)
    /\ UNCHANGED <<runs, ask, works>>

MarkSucceeded(w) ==
    Mark(w, "markDone", [jobs[job[w]] EXCEPT !.status = "succeeded"])

\* Mutants: one attempt too many; the status is left; a job is never dead.
FailedLate(row) ==
    IF row.attempts >= MaxAttempts
    THEN [row EXCEPT !.status = "dead"]
    ELSE [row EXCEPT !.attempts = @ + 1, !.status = "queued", !.waiting = TRUE]
FailedRunning(row) ==
    IF row.attempts + 1 >= MaxAttempts
    THEN [row EXCEPT !.attempts = @ + 1, !.waiting = FALSE]
    ELSE [row EXCEPT !.attempts = @ + 1, !.waiting = TRUE]
FailedUncounted(row) == [row EXCEPT !.status = "queued", !.waiting = TRUE]

Failed(row) ==
    IF row.attempts + 1 >= MaxAttempts
    THEN [row EXCEPT !.attempts = @ + 1, !.status = "dead", !.waiting = FALSE]
    ELSE [row EXCEPT !.attempts = @ + 1, !.status = "queued", !.waiting = TRUE]

MarkFailed(w) == Mark(w, "markFailed", Failed(jobs[job[w]]))

\* not_before comes.
BackoffEnds(i) ==
    /\ jobs[i].waiting
    /\ jobs' = [jobs EXCEPT ![i].waiting = FALSE]
    /\ UNCHANGED <<runs, at, job, ask, works, used>>

\* The service stops, orderly or not: with its context cancelled no
\* statement of a worker succeeds, and the loops end.
Restart ==
    /\ CanFault
    /\ used' = [used EXCEPT !.restarts = @ + 1]
    /\ at' = [w \in Workers |-> "idle"]
    /\ job' = [w \in Workers |-> 0]
    /\ ask' = [c \in Clients |-> NoAsk]
    /\ UNCHANGED <<jobs, runs, works>>

-----------------------------------------------------------------------------
Work(w) ==
    \/ TryLockNextJob(w) \/ RecordRunStart(w) \/ HandleWork(w)
    \/ HandleAuthor(w) \/ Expanded(w) \/ RecordRunFinish(w)
    \/ MarkSucceeded(w) \/ MarkFailed(w)

Enqueue(c) == InsertJob(c) \/ SelectJob(c)

Request(c) ==
    \/ SearchWorks(c) \/ ScheduleGraphUpdate(c) \/ ResolveIdentifier(c)
    \/ EnqueueEnrichmentJob(c) \/ RequestEnds(c)

Next ==
    \/ \E w \in Workers : Work(w)
    \/ \E c \in Clients : Enqueue(c) \/ InsertFails(c)
    \/ \E c \in Callers : Request(c)
    \/ \E i \in Rows : BackoffEnds(i)
    \/ Restart

Spec == Init /\ [][Next]_vars

\* Workers poll for ever, a call that was made goes on, and time passes.
Fairness ==
    /\ \A w \in Workers : WF_vars(Work(w))
    /\ \A c \in Clients : WF_vars(Enqueue(c))
    /\ \A i \in JobIds : WF_vars(i \in Rows /\ BackoffEnds(i))

FairSpec == Spec /\ Fairness

-----------------------------------------------------------------------------
(* Properties.                                                             *)

\* The state has the shape of the tables and of the workers' variables, and
\* a worker past its lock holds an existing row.
TypeOK ==
    /\ jobs \in Seq(Row)
    /\ runs \in Seq(Runs)
    /\ Len(runs) = Len(jobs)
    /\ at \in [Workers -> Places]
    /\ job \in [Workers -> Nat]
    /\ \A w \in Workers : at[w] = "idle" \/ job[w] \in Rows
    /\ ask \in [Clients -> Ask]
    /\ works \subseteq Works
    /\ used \in Used

\* Of the rows with one key at most one is queued or running, whoever asks
\* again while it fails, is retried or ends: MarkFailed puts a row back
\* without looking at its status or at the other rows.
OneLivePerKey ==
    \A i, j \in Rows : Live(i) /\ Live(j) /\ jobs[i].key = jobs[j].key => i = j

\* A row is in the hands of one worker, and running as long as it is: so no
\* two workers enrich the same work in the same way at the same time.
HeldOnce ==
    \A v, w \in Workers :
        at[w] # "idle" =>
            /\ jobs[job[w]].status = "running"
            /\ at[v] # "idle" /\ job[v] = job[w] => v = w

\* A job is run at most max_attempts times over all its failures, and no
\* more often than it has failed or is being run.
RunsBounded ==
    \A i \in Rows :
        /\ runs[i].finished <= runs[i].started
        /\ runs[i].started <= MaxAttempts
        /\ Live(i) => jobs[i].attempts < MaxAttempts
        /\ jobs[i].status \in {"queued", "dead"} =>
                runs[i].started <= jobs[i].attempts

\* Rows are left running by nobody only through a statement that failed, one
\* row each, or a stop of the service, one row for each worker.
StrandedCounted ==
    Cardinality({i \in Rows : Stranded(i)})
        <= used.faults + used.restarts * Cardinality(Workers)

\* Every accepted job ends, succeeded or dead, unless it was stranded.
EveryJobSettles ==
    \A i \in JobIds :
        i \in Rows ~> i \in Rows /\ (Settled(i) \/ Stranded(i))

\* The promise of JobLedger: what is live, who is at it and its failures.
LedgerLive == {jobs[i].key : i \in {n \in Rows : Live(n)}}
LedgerBusy == {jobs[i].key : i \in {n \in Rows : Running(n)}}
LedgerFailures ==
    [k \in Keys |-> IF LiveOf(k) = {} THEN 0
                    ELSE jobs[CHOOSE i \in LiveOf(k) : TRUE].attempts]

Ledger == INSTANCE JobLedger WITH
    live <- LedgerLive, busy <- LedgerBusy, failures <- LedgerFailures

\* Every step of the tables, the workers and those who ask is a step of the
\* ledger or changes nothing in it.
LedgerSpec == Ledger!Spec

\* docs/alpha-validation.md:207 of a host that stops half way: no permanent
\* "running forever" state.  The code does not keep it (README, section 7), and
\* no run checks it.
NoRunningForever == \A i \in JobIds : Running(i) ~> ~Running(i)

=============================================================================
