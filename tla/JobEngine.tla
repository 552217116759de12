----------------------------- MODULE JobEngine -----------------------------
(***************************************************************************)
(* The backend's job engine: the in-memory store (internal/store/jobs.go), *)
(* two workers that claim, run and settle its jobs (internal/jobs/         *)
(* engine.go) and the API that enqueues, cancels and retries them.         *)
(*                                                                         *)
(* Nothing ties a worker to the job it runs: Cancel and Retry change the   *)
(* job's state under it, and its verdict overwrites whatever it finds.     *)
(*                                                                         *)
(* Abstracted: payloads and outputs; what a handler does, which may end    *)
(* either way; times, except the order of run_at.                          *)
(***************************************************************************)
EXTENDS Integers, Sequences, FiniteSets, SequencesExt

CONSTANTS
    Workers,
    DefaultMax,     \* attempts of a job that does not say: 5 in the code
    Asked,          \* the max_attempts that clients ask for, 0 for none
    MaxJobs,        \* bound: jobs in one life of the process
    MaxOps          \* bound: cancels and retries

ASSUME EngineAssumption ==
    /\ IsFiniteSet(Workers)
    /\ DefaultMax \in Nat \ {0}
    /\ Asked \subseteq Nat
    /\ {MaxJobs, MaxOps} \subseteq Nat

VARIABLES
    jobs,       \* the store: jobs by id
    due,        \* ids whose run_at has come and that await a worker, by run_at
    held,       \* what each worker has claimed
    ops         \* bound: cancels and retries so far

engine == <<jobs, due, held, ops>>

-----------------------------------------------------------------------------
States  == {"queued", "running", "succeeded", "retryable_failed",
            "dead_letter", "canceled"}
Waiting == {"queued", "retryable_failed"}
Settled == {"succeeded", "dead_letter", "canceled"}

\* A history: times retried, times canceled in the middle of a run, and verdicts
\* that came when the job was not running.
Job == [state : States, attempt : Nat, max : Nat \ {0}, handled : BOOLEAN,
        retries : Nat, stopped : Nat, late : Nat]
NewJob(max, handled) ==
    [state |-> "queued", attempt |-> 0,
     max |-> IF max = 0 THEN DefaultMax ELSE max,
     handled |-> handled, retries |-> 0, stopped |-> 0, late |-> 0]

Ids == DOMAIN jobs
Queued == {j \in Ids : jobs[j].state \in Waiting}
Holding == [job : 1 .. MaxJobs, attempt : Nat]
Nothing == [job |-> 0, attempt |-> 0]
Holders(j) == {w \in Workers : held[w].job = j}

TypeOK ==
    /\ jobs \in Seq(Job) /\ Len(jobs) <= MaxJobs
    \* A job in line waits, and stands there once.
    /\ due \in Seq(Queued)
    /\ \A i, k \in DOMAIN due : due[i] = due[k] => i = k
    /\ held \in [Workers -> Holding \cup {Nothing}]
    /\ \A w \in Workers : held[w] # Nothing => held[w].job \in Ids
    /\ ops \in Nat

Init ==
    /\ jobs = <<>>
    /\ due = <<>>
    /\ held = [w \in Workers |-> Nothing]
    /\ ops = 0

-----------------------------------------------------------------------------
Places(j) == {i \in DOMAIN due : due[i] = j}
Without(j) == IF Places(j) = {} THEN due
              ELSE RemoveAt(due, CHOOSE i \in Places(j) : TRUE)

\* A client may give a run_at that has passed, or that is still to come.
EnqueueJob(max, handled) ==
    /\ Len(jobs) < MaxJobs
    /\ jobs' = Append(jobs, NewJob(max, handled))
    /\ \/ \E i \in 1 .. Len(due) + 1 : due' = InsertAt(due, i, Len(jobs) + 1)
       \/ UNCHANGED due
    /\ UNCHANGED <<held, ops>>

\* The time a client or backoffForAttempt gave.
RunAtComes(j) ==
    /\ jobs[j].state \in Waiting
    /\ Places(j) = {}
    /\ due' = Append(due, j)
    /\ UNCHANGED <<jobs, held, ops>>

\* Mutant: the copy that was changed is not written back.
ClaimUnstored(w) ==
    /\ held[w] = Nothing
    /\ due # <<>>
    /\ held' = [held EXCEPT ![w] = [job |-> Head(due),
                                    attempt |-> jobs[Head(due)].attempt + 1]]
    /\ UNCHANGED <<jobs, due, ops>>

ClaimRunnable(w) ==
    /\ held[w] = Nothing
    /\ due # <<>>
    /\ LET j == Head(due) IN
        /\ jobs' = [jobs EXCEPT ![j].state = "running", ![j].attempt = @ + 1]
        /\ held' = [held EXCEPT ![w] = [job |-> j, attempt |-> jobs[j].attempt + 1]]
        /\ due' = Tail(due)
    /\ UNCHANGED ops

\* A verdict takes the job out of the line, where a retry may have put it.
Verdict(w, state) ==
    /\ LET j == held[w].job
           late == IF jobs[j].state = "running" THEN 0 ELSE 1
       IN jobs' = [jobs EXCEPT ![j].state = state, ![j].late = @ + late]
    /\ due' = Without(held[w].job)
    /\ held' = [held EXCEPT ![w] = Nothing]
    /\ UNCHANGED ops

\* A handler that answered, when the type has one.
MarkSucceeded(w) ==
    /\ held[w] # Nothing
    /\ jobs[held[w].job].handled
    /\ Verdict(w, "succeeded")

\* Mutants: off by one; the state left as it is.
FailedOnceMore(w) ==
    IF held[w].attempt > jobs[held[w].job].max THEN "dead_letter" ELSE "retryable_failed"
FailedRunning(w) ==
    IF held[w].attempt >= jobs[held[w].job].max THEN "dead_letter" ELSE "running"

\* By the attempt the worker claimed, whatever the job's is by now.
Failed(w) ==
    IF held[w].attempt >= jobs[held[w].job].max THEN "dead_letter" ELSE "retryable_failed"

MarkFailure(w) ==
    /\ held[w] # Nothing
    /\ Verdict(w, IF jobs[held[w].job].handled THEN Failed(w) ELSE "dead_letter")

RetryJob(j) ==
    /\ ops < MaxOps
    /\ jobs[j].state \in {"retryable_failed", "dead_letter", "canceled"}
    /\ jobs' = [jobs EXCEPT ![j].state = "queued", ![j].retries = @ + 1]
    /\ due' = Append(Without(j), j)
    /\ ops' = ops + 1
    /\ UNCHANGED held

\* Mutants: any state may be canceled; a canceled job is still a candidate.
CancelAny(j) ==
    /\ ops < MaxOps
    /\ jobs' = [jobs EXCEPT ![j].state = "canceled",
                            ![j].stopped = IF jobs[j].state = "running" THEN @ + 1 ELSE @]
    /\ due' = Without(j)
    /\ ops' = ops + 1
    /\ UNCHANGED held
CancelInLine(j) ==
    /\ ops < MaxOps
    /\ jobs[j].state \notin {"succeeded", "dead_letter"}
    /\ jobs' = [jobs EXCEPT ![j].state = "canceled"]
    /\ ops' = ops + 1
    /\ UNCHANGED <<due, held>>

CancelJob(j) ==
    /\ ops < MaxOps
    /\ jobs[j].state \notin {"succeeded", "dead_letter"}
    /\ jobs' = [jobs EXCEPT ![j].state = "canceled",
                            ![j].stopped = IF jobs[j].state = "running" THEN @ + 1 ELSE @]
    /\ due' = Without(j)
    /\ ops' = ops + 1
    /\ UNCHANGED held

\* The process ends and its memory with it; ids start again from 1.
Forget ==
    /\ jobs' = <<>>
    /\ due' = <<>>
    /\ held' = [w \in Workers |-> Nothing]
    /\ UNCHANGED ops

Work(w) == MarkSucceeded(w) \/ MarkFailure(w)

Step ==
    \/ \E max \in Asked, handled \in BOOLEAN : EnqueueJob(max, handled)
    \/ \E j \in Ids : RunAtComes(j) \/ RetryJob(j) \/ CancelJob(j)
    \/ \E w \in Workers : ClaimRunnable(w) \/ Work(w)

Spec == Init /\ [][Step \/ Forget]_engine

-----------------------------------------------------------------------------
(* Properties.                                                             *)

\* ClaimRunnable gives a job to one worker, and nothing else keeps it to one.
\* Each cancel in the middle of a run (processOne is not told and runs on) leaves
\* one worker too many, or one verdict on a job that is not running, never both.
HoldersBounded ==
    \A j \in Ids :
        Cardinality(Holders(j)) + jobs[j].late
            <= jobs[j].stopped + (IF jobs[j].state = "running" THEN 1 ELSE 0)

\* A job runs at most max_attempts times and once more for each retry, although
\* a retry does not reset the count, a worker decides by the attempt it claimed,
\* and a late failure may bring back a job that is settled.
AttemptsBounded == \A j \in Ids : jobs[j].attempt <= jobs[j].max + jobs[j].retries

\* What is settled changes only by a retry, with the process, or by a worker that
\* still held the job, and that no more often than the job was canceled in the
\* middle of a run.  (The worker need not be one of those canceled: after a cancel
\* and a retry two workers run the job, and whichever ends last overwrites.)
VerdictsStand ==
    [][\A j \in Ids \cap Ids' :
        jobs[j].state \in Settled /\ jobs'[j].state # jobs[j].state
            => \/ jobs'[j].retries = jobs[j].retries + 1
               \/ /\ \E w \in Holders(j) : held'[w] = Nothing
                  /\ jobs'[j].late = jobs[j].late + 1
                  /\ jobs'[j].late <= jobs[j].stopped]_engine

\* Every job ends and every worker leaves it, unless the process ends first.
Left(j) == j \in Ids => jobs[j].state \in Settled /\ Holders(j) = {}
EveryJobSettles == \A j \in 1 .. MaxJobs : []<>Left(j)

=============================================================================
