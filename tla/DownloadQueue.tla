--------------------------- MODULE DownloadQueue ---------------------------
(***************************************************************************)
(* The download queue of app/backend: the job store                        *)
(* (internal/downloadqueue/store.go and pgstore.go), the manager's workers *)
(* (manager.go) and the operator's requests on it.  Four actors interleave *)
(* at every point where the code holds no lock:                            *)
(*   - the submit worker: claims a job, calls the download client, falls   *)
(*     back to another candidate, writes the outcome;                      *)
(*   - the poll worker: snapshots the active jobs, asks the client about   *)
(*     each, writes each answer;                                           *)
(*   - the recovery worker: takes back jobs whose lease ran out;           *)
(*   - the operator: enqueues, cancels and retries.                        *)
(* The download client is external: a sequence of downloads that advance   *)
(* on their own and can be forgotten.                                      *)
(*                                                                         *)
(* Left out: the event rows (no code reads them back to decide anything),  *)
(* the client metrics and tiers, the locked_at/locked_by columns (written, *)
(* never read), the LIMITs of the listings (100 and 500 rows, above        *)
(* MaxJobs), and the empty-uri branch of the submit worker, which          *)
(* enqueueGrabCandidate makes unreachable.                                 *)
(***************************************************************************)
EXTENDS Naturals, Sequences, FiniteSets

CONSTANTS
    Candidates,     \* the indexer's candidates; a smaller number ranks higher
    Grabs,          \* bound: those a user or the auto-grab worker picks
    WorkOf,         \* the work each candidate is for
    SearchOf,       \* the search request that found it
    ReleaseOf,      \* its fingerprint: two searches may find one release
    LinkOf,         \* what the client may find at its uri: "alive", "dead"
    MaxAttempts,    \* Job.MaxAttempts: 3 in the code
    Durable,        \* TRUE: PGStore; FALSE: the in-memory Store
    TagLookup,      \* TRUE: the client resolves "tag:..." ids (qBittorrent)
    Reports,        \* the states the client reports, of those below
    MaxPicks,       \* bound: times they pick one of them
    MaxJobs,        \* bound: jobs ever created
    MaxDownloads,   \* bound: downloads the client ever accepts
    MaxRetries,     \* bound: operator retries of each job
    MaxCrashes      \* bound: restarts of the backend or of one worker

ASSUME CandidatesAssumption == Candidates \subseteq Nat \ {0}
ASSUME GrabsAssumption == Grabs \subseteq Candidates
ASSUME FoundAssumption ==
    /\ DOMAIN WorkOf = Candidates
    /\ \A c, d \in Candidates : SearchOf[c] = SearchOf[d] => WorkOf[c] = WorkOf[d]
ASSUME BoundsAssumption ==
    /\ MaxAttempts \in Nat \ {0}
    /\ MaxPicks \in Nat
    /\ MaxJobs \in Nat
    /\ MaxDownloads \in Nat
    /\ MaxRetries \in [1..MaxJobs -> Nat]
    /\ MaxCrashes \in Nat
ASSUME ModeAssumption == Durable \in BOOLEAN /\ TagLookup \in BOOLEAN

VARIABLES
    jobs,       \* the download_jobs table
    nextJob,    \* the next job id
    submit,     \* the submit worker: where it is and what it remembers
    poll,       \* the poll worker: its snapshot and the answer in hand
    client,     \* external: the downloads the client was given, in order;
                \*   done remembers that one completed
    claims,     \* history: times each job was claimed
    acks,       \* history: times MarkSubmitted ran for each job
    retries,    \* history and bound: operator retries of each job
    parent,     \* history: the job a fallback job replaces, or 0
    crashes     \* bound: restarts so far

vars == <<jobs, nextJob, submit, poll, client,
          claims, acks, retries, parent, crashes>>
history == <<claims, acks, retries, parent>>

-----------------------------------------------------------------------------
JobIds == 1..MaxJobs

Active == {"submitted", "downloading", "repairing", "unpacking"}
Terminal == {"completed", "failed", "canceled"}
Status == {"absent", "queued"} \cup Active \cup Terminal

\* A row: due is not_before <= now, lease is lease_expires_at against the
\* clock, downloadID and output are positions in client (0: empty string).
\* cand is the candidate the job's grab was made for, and stands for the grab;
\* uri is the one whose uri is fetched, a candidate of the same release.
Job == [status     : Status,
        attempt    : Nat,
        due        : BOOLEAN,
        lease      : {"none", "held", "expired"},
        downloadID : Nat,
        output     : Nat,
        cand       : Candidates \cup {0},
        uri        : Candidates \cup {0},
        attempted  : SUBSET Candidates]

AbsentJob == [status |-> "absent", attempt |-> 0, due |-> FALSE,
              lease |-> "none", downloadID |-> 0, output |-> 0,
              cand |-> 0, uri |-> 0, attempted |-> {}]

SubmitPC == {"idle", "adding", "accepted", "dead", "grabbing",
             "swapped", "refused"}
SubmitIdle == [pc |-> "idle", job |-> 0, attempt |-> 0, did |-> 0, todo |-> {}]

NoAnswer == [job |-> 0, status |-> "absent", output |-> 0]
PollIdle == [todo |-> {}, answer |-> NoAnswer]

Work(j) == WorkOf[jobs[j].cand]
Exists(j) == jobs[j].status # "absent"

-----------------------------------------------------------------------------
(* Store operations: the new row each one writes.  None of them looks at    *)
(* the status it overwrites.                                               *)

NewJob(grab, c, attempted) ==
    [AbsentJob EXCEPT !.status = "queued", !.due = TRUE,
                      !.cand = grab, !.uri = c, !.attempted = attempted]

\* Mutant: a claim that takes no lease.
ClaimedUnleased(job) == [job EXCEPT !.status = "submitted", !.attempt = @ + 1]

Claimed(job) == [job EXCEPT !.status = "submitted", !.attempt = @ + 1,
                            !.lease = "held"]

Submitted(job, did) == [job EXCEPT !.status = "downloading",
                                   !.downloadID = did, !.lease = "none"]

Progressed(job, status, output) ==
    [job EXCEPT !.status = status, !.lease = "none",
                !.output = IF output # 0 THEN output ELSE @]

\* PGStore trusts the caller's verdict; the memory store also looks at the
\* attempt count the row has now.
Rescheduled(job, terminal) ==
    [job EXCEPT !.status = IF \/ terminal
                              \/ ~Durable /\ job.attempt >= MaxAttempts
                           THEN "failed" ELSE "queued",
                !.due = FALSE, !.lease = "none"]

\* Mutant: recovery never gives up.
RecoveredForever(job) ==
    [job EXCEPT !.status = "queued", !.attempt = @ + 1, !.due = FALSE,
                !.lease = "none"]

Recovered(job) ==
    LET taken == [job EXCEPT !.attempt = @ + 1, !.lease = "none"] IN
    IF job.attempt + 1 >= MaxAttempts
    THEN [taken EXCEPT !.status = "failed", !.due = TRUE]
    ELSE [taken EXCEPT !.status = "queued", !.due = FALSE]

Retried(job) == [job EXCEPT !.status = "queued", !.due = TRUE, !.lease = "none"]

-----------------------------------------------------------------------------
(* The operator.                                                           *)

\* enqueueGrabCandidate: a job that fetches candidate c under a grab; p is the
\* job it replaces, or 0.
CreateJob(grab, c, attempted, p) ==
    /\ nextJob <= MaxJobs
    /\ jobs' = [jobs EXCEPT ![nextJob] = NewJob(grab, c, attempted)]
    /\ parent' = [parent EXCEPT ![nextJob] = p]
    /\ nextJob' = nextJob + 1

\* The indexer's CreateGrab for candidate c answers with the grab that
\* the release has for the work, which may be that of an older candidate.
GrabOf(c, grab) ==
    LET same(d) == ReleaseOf[d] = ReleaseOf[c] /\ WorkOf[d] = WorkOf[c] IN
    /\ same(grab)
    /\ \A k \in JobIds : Exists(k) /\ same(jobs[k].cand) => jobs[k].cand = grab

\* POST /download/from-grab/{id} and the auto-grab worker.
EnqueueFromGrab(c) ==
    /\ GrabOf(c, c)
    /\ Cardinality({k \in JobIds : parent[k] = 0 /\ jobs[k].cand = c}) < MaxPicks
    /\ CreateJob(c, c, {c}, 0)
    /\ UNCHANGED <<submit, poll, client, claims, acks, retries, crashes>>

CancelJob(j) ==
    /\ Exists(j)
    /\ jobs' = [jobs EXCEPT ![j] = Progressed(@, "canceled", 0)]
    /\ UNCHANGED <<nextJob, submit, poll, client, history, crashes>>

RetryJob(j) ==
    /\ Exists(j)
    /\ retries[j] < MaxRetries[j]
    /\ jobs' = [jobs EXCEPT ![j] = Retried(@)]
    /\ retries' = [retries EXCEPT ![j] = @ + 1]
    /\ UNCHANGED <<nextJob, submit, poll, client, claims, acks, parent, crashes>>

-----------------------------------------------------------------------------
(* The submit worker.                                                      *)

Claimable(j) == jobs[j].status = "queued" /\ jobs[j].due

\* The oldest job that is due; ids are given in the order of created_at.
ClaimNextQueued(j) ==
    /\ submit.pc = "idle"
    /\ Claimable(j)
    /\ \A k \in JobIds : k < j => ~Claimable(k)
    /\ jobs' = [jobs EXCEPT ![j] = Claimed(@)]
    /\ submit' = [SubmitIdle EXCEPT !.pc = "adding", !.job = j,
                                    !.attempt = jobs[j].attempt + 1]
    /\ claims' = [claims EXCEPT ![j] = @ + 1]
    /\ UNCHANGED <<nextJob, poll, client, acks, retries, parent, crashes>>

\* The client takes the download; the answer is an id, or it is lost (a
\* timeout after the client accepted) and the worker sees an error.
AddDownloadTaken ==
    /\ submit.pc = "adding"
    /\ "alive" \in LinkOf[jobs[submit.job].uri]
    /\ Len(client) < MaxDownloads
    /\ client' = Append(client, [cand  |-> jobs[submit.job].cand,
                                 state |-> "queued", done |-> FALSE])
    /\ \/ submit' = [submit EXCEPT !.pc = "accepted", !.did = Len(client) + 1]
       \/ submit' = [submit EXCEPT !.pc = "refused"]
    /\ UNCHANGED <<jobs, nextJob, poll, history, crashes>>

\* The client refuses; "dead" is an "nzb fetch status 401/403/404/410".
AddDownloadRefused ==
    /\ submit.pc = "adding"
    /\ \/ submit' = [submit EXCEPT !.pc = "refused"]
       \/ /\ "dead" \in LinkOf[jobs[submit.job].uri]
          /\ submit' = [submit EXCEPT !.pc = "dead"]
    /\ UNCHANGED <<jobs, nextJob, poll, client, history, crashes>>

MarkSubmitted ==
    LET j == submit.job IN
    /\ submit.pc = "accepted"
    /\ jobs' = [jobs EXCEPT ![j] = Submitted(@, submit.did)]
    /\ acks' = [acks EXCEPT ![j] = @ + 1]
    /\ submit' = SubmitIdle
    /\ UNCHANGED <<nextJob, poll, client, claims, retries, parent, crashes>>

UsedForWork(w) ==
    UNION {jobs[k].attempted \cup {jobs[k].cand} :
              k \in {k \in JobIds : Exists(k) /\ Work(k) = w}}

\* The candidates of the search request that found what the job fetches.
FoundWith(j) == {c \in Candidates : SearchOf[c] = SearchOf[jobs[j].uri]}

\* Mutant: only the candidates of the jobs' grabs are excluded.
EligibleByGrab(j) ==
    FoundWith(j) \ {jobs[k].cand : k \in {k \in JobIds : Exists(k) /\ Work(k) = Work(j)}}

\* Those of them that neither the job's chain nor any job of the work has used.
Eligible(j) ==
    FoundWith(j) \ (jobs[j].attempted \cup {jobs[j].cand} \cup UsedForWork(Work(j)))

\* The list may also fail to load.
ListFallbacks ==
    /\ submit.pc = "dead"
    /\ \/ submit' = [submit EXCEPT !.pc = "grabbing", !.todo = Eligible(submit.job)]
       \/ submit' = [submit EXCEPT !.pc = "refused"]
    /\ UNCHANGED <<jobs, nextJob, poll, client, history, crashes>>

BestOf(S, c) == c \in S /\ \A d \in S : c <= d

GrabFallback(c) ==
    LET j == submit.job IN
    /\ submit.pc = "grabbing"
    /\ BestOf(submit.todo, c)
    /\ \E grab \in Candidates :
         /\ GrabOf(c, grab)
         /\ CreateJob(grab, c, jobs[j].attempted \cup {jobs[j].cand, c}, j)
    /\ submit' = [submit EXCEPT !.pc = "swapped"]
    /\ UNCHANGED <<poll, client, claims, acks, retries, crashes>>

\* The grab or the insert fails: on to the next candidate.
SkipFallback(c) ==
    /\ submit.pc = "grabbing"
    /\ BestOf(submit.todo, c)
    /\ submit' = [submit EXCEPT !.todo = @ \ {c}]
    /\ UNCHANGED <<jobs, nextJob, poll, client, history, crashes>>

NoFallbackLeft ==
    /\ submit.pc = "grabbing"
    /\ submit.todo = {}
    /\ submit' = [submit EXCEPT !.pc = "refused"]
    /\ UNCHANGED <<jobs, nextJob, poll, client, history, crashes>>

\* The replacement is queued: the original job is closed.
CloseReplaced ==
    /\ submit.pc = "swapped"
    /\ jobs' = [jobs EXCEPT ![submit.job] = Progressed(@, "failed", 0)]
    /\ submit' = SubmitIdle
    /\ UNCHANGED <<nextJob, poll, client, history, crashes>>

Reschedule ==
    /\ submit.pc = "refused"
    /\ jobs' = [jobs EXCEPT ![submit.job] =
                    Rescheduled(@, submit.attempt >= MaxAttempts)]
    /\ submit' = SubmitIdle
    /\ UNCHANGED <<nextJob, poll, client, history, crashes>>

SubmitStep ==
    \/ \E j \in JobIds : ClaimNextQueued(j)
    \/ AddDownloadTaken
    \/ AddDownloadRefused
    \/ MarkSubmitted
    \/ ListFallbacks
    \/ \E c \in Candidates : GrabFallback(c) \/ SkipFallback(c)
    \/ NoFallbackLeft
    \/ CloseReplaced
    \/ Reschedule

-----------------------------------------------------------------------------
(* The poll worker.                                                        *)

\* Mutants: jobs without a download id, canceled jobs.
SnapshotAnyId ==
    {[job |-> j, did |-> jobs[j].downloadID] :
        j \in {k \in JobIds : jobs[k].status \in Active}}
SnapshotCanceled ==
    {[job |-> j, did |-> jobs[j].downloadID] :
        j \in {k \in JobIds : /\ jobs[k].status \in Active \cup {"canceled"}
                              /\ jobs[k].downloadID # 0}}

\* One entry per active job that has a download id, as the job is now.
PollSnapshot ==
    {[job |-> j, did |-> jobs[j].downloadID] :
        j \in {k \in JobIds : jobs[k].status \in Active /\ jobs[k].downloadID # 0}}

ListActiveJobs ==
    /\ poll = PollIdle
    /\ PollSnapshot # {}
    /\ poll' = [poll EXCEPT !.todo = PollSnapshot]
    /\ UNCHANGED <<jobs, nextJob, submit, client, history, crashes>>

normalizeState(state) ==
    CASE state = "queued" -> "submitted"
      [] state \in Status \ {"absent", "queued"} -> state
      [] OTHER -> "downloading"

Known(d) == client[d].state # "gone"

\* Mutant: an unknown id is looked up in the whole category.
ResolvedInCategory(e) ==
    IF Known(e.did) THEN {e.did} ELSE {d \in DOMAIN client : Known(d)}

\* The downloads GetStatus may answer for: the id itself (which is the grab's
\* tag when the client gave no hash), else one carrying the grab's tag, else
\* one carrying the work's.  A candidate stands for its grab here.
Resolved(e) ==
    LET sameGrab == {d \in DOMAIN client : Known(d) /\ client[d].cand = jobs[e.job].cand}
        sameWork == {d \in DOMAIN client : Known(d) /\ WorkOf[client[d].cand] = Work(e.job)}
        itself   == {e.did} \cap {d \in DOMAIN client : Known(d)}
    IN  IF ~TagLookup THEN itself
        ELSE IF sameGrab # {} THEN itself \cup sameGrab
        ELSE sameWork

\* Only a completed answer's path matters: earlier ones are overwritten.
PollAnswer(j, d) ==
    LET status == normalizeState(client[d].state) IN
    [job |-> j, status |-> status,
     output |-> IF status = "completed" THEN d ELSE 0]

\* getStatusWithFallback: an answer, or an error.  Not-found and every other
\* error end the same way.
GetStatus(e) ==
    /\ e \in poll.todo
    /\ poll.answer = NoAnswer
    /\ \/ \E d \in Resolved(e) :
            poll' = [todo |-> poll.todo \ {e}, answer |-> PollAnswer(e.job, d)]
       \/ poll' = [todo |-> poll.todo \ {e},
                   answer |-> [job |-> e.job, status |-> "failed", output |-> 0]]
    /\ UNCHANGED <<jobs, nextJob, submit, client, history, crashes>>

UpdateProgress ==
    LET a == poll.answer IN
    /\ a # NoAnswer
    /\ jobs' = [jobs EXCEPT ![a.job] = Progressed(@, a.status, a.output)]
    /\ poll' = [poll EXCEPT !.answer = NoAnswer]
    /\ UNCHANGED <<nextJob, submit, client, history, crashes>>

PollStep ==
    \/ ListActiveJobs
    \/ \E e \in poll.todo : GetStatus(e)
    \/ UpdateProgress

-----------------------------------------------------------------------------
(* The recovery worker, time, and restarts.                                *)

\* Mutant: only jobs that had a download are recovered.
ExpiredDownloads(j) ==
    jobs[j].status = "submitted" /\ jobs[j].lease = "expired" /\ jobs[j].downloadID # 0

Expired(j) == jobs[j].status = "submitted" /\ jobs[j].lease = "expired"

\* PGStore's recovery never commits.  It sends its UPDATE while the rows of
\* its SELECT are still open on the transaction's one connection, which
\* lib/pq refuses, and its event hands jsonb_build_object parameters that
\* have no type, which Postgres refuses: either error rolls it back.
RecoveryCommits == ~Durable

RecoverExpiredLeases ==
    /\ RecoveryCommits
    /\ \E j \in JobIds : Expired(j)
    /\ jobs' = [j \in JobIds |-> IF Expired(j) THEN Recovered(jobs[j]) ELSE jobs[j]]
    /\ UNCHANGED <<nextJob, submit, poll, client, history, crashes>>

\* Two minutes pass since the claim.  This may happen under a live worker:
\* the fallback loop alone makes up to 26 calls of up to 10 s each.  Only a
\* recovery that commits can tell.
LeaseExpires(j) ==
    /\ RecoveryCommits
    /\ jobs[j].lease = "held"
    /\ jobs' = [jobs EXCEPT ![j].lease = "expired"]
    /\ UNCHANGED <<nextJob, submit, poll, client, history, crashes>>

BackoffElapses(j) ==
    /\ jobs[j].status = "queued" /\ ~jobs[j].due
    /\ jobs' = [jobs EXCEPT ![j].due = TRUE]
    /\ UNCHANGED <<nextJob, submit, poll, client, history, crashes>>

\* The backend dies and starts again.  Only the database survives, so the
\* memory store's restart is a new behaviour and not an action of this one.
Restart ==
    /\ Durable
    /\ crashes < MaxCrashes
    /\ submit' = SubmitIdle
    /\ poll' = PollIdle
    /\ crashes' = crashes + 1
    /\ UNCHANGED <<jobs, nextJob, client, history>>

\* A worker loses the call it was in: it panics and startWorker starts it
\* over, or the store fails and the worker drops the error.
DropSubmit == submit.pc # "idle" /\ submit' = SubmitIdle /\ UNCHANGED poll
DropPoll == /\ poll # PollIdle
            /\ poll' \in {PollIdle, [poll EXCEPT !.answer = NoAnswer]}
            /\ UNCHANGED submit
WorkerRestarts ==
    /\ crashes < MaxCrashes
    /\ DropSubmit \/ DropPoll
    /\ crashes' = crashes + 1
    /\ UNCHANGED <<jobs, nextJob, client, history>>

-----------------------------------------------------------------------------
(* The download client, external.                                          *)

ClientNext(state) ==
    CASE state = "queued"      -> {"downloading", "completed", "failed", "canceled"}
      [] state = "downloading" -> {"repairing", "completed", "failed", "canceled"}
      [] state = "repairing"   -> {"unpacking", "failed"}
      [] state = "unpacking"   -> {"completed", "failed"}
      [] OTHER                 -> {}

\* A download advances towards its end.
ClientAdvance(d) ==
    /\ d \in DOMAIN client
    /\ \E s \in ClientNext(client[d].state) \cap Reports :
          client' = [client EXCEPT ![d].state = s, ![d].done = (s = "completed")]
    /\ UNCHANGED <<jobs, nextJob, submit, poll, history, crashes>>

\* Its record leaves the client: removed by a user, or aged out of history.
ClientForget(d) ==
    /\ d \in DOMAIN client
    /\ Known(d)
    /\ client' = [client EXCEPT ![d].state = "gone"]
    /\ UNCHANGED <<jobs, nextJob, submit, poll, history, crashes>>

-----------------------------------------------------------------------------
Init ==
    /\ jobs = [j \in JobIds |-> AbsentJob]
    /\ nextJob = 1
    /\ submit = SubmitIdle
    /\ poll = PollIdle
    /\ client = <<>>
    /\ claims = [j \in JobIds |-> 0]
    /\ acks = [j \in JobIds |-> 0]
    /\ retries = [j \in JobIds |-> 0]
    /\ parent = [j \in JobIds |-> 0]
    /\ crashes = 0

Operator ==
    \/ \E c \in Grabs : EnqueueFromGrab(c)
    \/ \E j \in JobIds : CancelJob(j) \/ RetryJob(j)

Time == \E j \in JobIds : LeaseExpires(j) \/ BackoffElapses(j)

Next ==
    \/ Operator
    \/ SubmitStep
    \/ PollStep
    \/ RecoverExpiredLeases
    \/ Time
    \/ Restart
    \/ WorkerRestarts
    \/ \E d \in 1..MaxDownloads : ClientAdvance(d) \/ ClientForget(d)

Spec == Init /\ [][Next]_vars

\* Every worker is a loop on a ticker, restarted if it panics; time passes;
\* the client (external) brings each download to an end.  Nothing is asked
\* of the operator or of restarts.
Fairness ==
    /\ WF_vars(SubmitStep)
    /\ WF_vars(PollStep)
    /\ WF_vars(RecoverExpiredLeases)
    /\ \A j \in JobIds : WF_vars(LeaseExpires(j)) /\ WF_vars(BackoffElapses(j))
    /\ \A d \in 1..MaxDownloads : WF_vars(ClientAdvance(d))

FairSpec == Spec /\ Fairness
-----------------------------------------------------------------------------
(* Properties.                                                             *)

ClientState == {"queued", "downloading", "repairing", "unpacking", "completed",
                "failed", "canceled", "gone"}
Download == [cand : Candidates, state : ClientState, done : BOOLEAN]
Answer == [job : 1..(nextJob - 1), status : Active \cup Terminal, output : Nat]

\* The variables keep to their types; a worker only ever remembers jobs
\* that exist, and every download id names a download the client was given.
JobsTyped ==
    /\ jobs \in [JobIds -> Job]
    /\ nextJob \in 1..(MaxJobs + 1)
    /\ \A j \in JobIds : IF j < nextJob
                         THEN /\ Exists(j) /\ {jobs[j].cand, jobs[j].uri} \subseteq Candidates
                              /\ WorkOf[jobs[j].uri] = Work(j)
                         ELSE jobs[j] = AbsentJob
    /\ \A j \in JobIds : jobs[j].downloadID <= Len(client)
SubmitTyped ==
    /\ submit \in [pc : SubmitPC, job : Nat, attempt : Nat,
                   did : Nat, todo : SUBSET Candidates]
    /\ submit.pc # "idle" => submit.job \in 1..(nextJob - 1)
    /\ submit.did <= Len(client)
PollTyped ==
    /\ poll.todo \subseteq [job : 1..(nextJob - 1), did : 1..Len(client)]
    /\ poll = [todo |-> poll.todo, answer |-> poll.answer]
    /\ poll.answer = NoAnswer \/ poll.answer \in Answer
HistoryTyped ==
    /\ claims \in [JobIds -> Nat]
    /\ acks \in [JobIds -> Nat]
    /\ retries \in [JobIds -> Nat]
    /\ parent \in [JobIds -> Nat]
    /\ crashes \in Nat
TypeOK ==
    /\ JobsTyped
    /\ SubmitTyped
    /\ PollTyped
    /\ client \in Seq(Download)
    /\ HistoryTyped

\* Where recovery works, no job is out of every worker's reach, whatever was
\* interrupted: a job that is not settled is queued (the submit worker
\* claims it), or leased (the recovery worker takes it back), or has a
\* download id (the poll worker follows it).  store.go:150-304.
Reachable(j) ==
    \/ jobs[j].status = "queued"
    \/ jobs[j].status = "submitted" /\ jobs[j].lease # "none"
    \/ jobs[j].downloadID # 0
InReach ==
    \A j \in JobIds : Exists(j) /\ jobs[j].status \notin Terminal => Reachable(j)
NeverStranded == RecoveryCommits => InReach

\* Bounded retries (phase15_todo.md:76): a job is handed to the client at
\* most MaxAttempts times plus once per operator retry, although attempts
\* are counted in two places, by the claim and by the recovery, and the
\* terminal verdict is taken from a snapshot that may be out of date.
SubmissionsBounded ==
    \A j \in JobIds : claims[j] <= MaxAttempts + retries[j]

\* A download the client acknowledged is not submitted again behind the
\* operator's back: from MarkSubmitted on, unless the operator retries, the
\* job is neither queued nor leased, so neither a claim nor a recovery can
\* take it, even when the poll puts it back into "submitted".
AckedNotResubmitted ==
    \A j \in JobIds :
        acks[j] > 0 /\ retries[j] = 0 =>
            /\ acks[j] = 1
            /\ jobs[j].status # "queued"
            /\ jobs[j].lease = "none"

\* A "completed" job has the output of a download of the same work that the
\* client did complete, never the path of an unfinished one or of another
\* work, although answers are applied after the job may have been retried
\* and resubmitted, and tags may resolve to another job's download.
CompletedIsReal ==
    \A j \in JobIds : jobs[j].status = "completed" =>
        /\ jobs[j].output \in DOMAIN client
        /\ client[jobs[j].output].done
        /\ WorkOf[client[jobs[j].output].cand] = Work(j)

\* The replacements of a work's jobs use up the candidates of its searches: no
\* two fetch the same candidate, and none fetches one its chain has tried, although
\* a job's grab may be an older one, made for a candidate of another search, and
\* the job is then known under that one (manager.go:449-503).
FallbackFresh ==
    \A j, k \in JobIds : parent[j] # 0 =>
        /\ j # k /\ parent[k] # 0 => jobs[j].uri # jobs[k].uri
        /\ k = parent[j] => /\ jobs[j].uri \notin {jobs[k].uri, jobs[k].cand}
                            /\ jobs[j].uri \notin jobs[k].attempted

\* Cancelling holds except against a call that was already in flight: once a
\* job is canceled, no worker picks it up any more, and if no worker held it
\* then only the operator's retry can move it.
InFlight(j) ==
    \/ submit.pc # "idle" /\ submit.job = j
    \/ \E e \in poll.todo : e.job = j
    \/ poll.answer.job = j
CancelHolds ==
    [][\A j \in JobIds :
          jobs[j].status = "canceled" /\ ~InFlight(j) =>
              /\ ~InFlight(j)'
              /\ jobs'[j].status = "canceled" \/ retries'[j] > retries[j]]_vars

\* Nothing stays stuck (phase15_todo.md:75-76): with finitely many operator
\* requests and restarts, every job ends in a terminal status for good.
\* The memory store keeps this; PGStore does not, for want of a recovery.
EventuallySettled ==
    <>[](\A j \in JobIds : jobs[j].status \in Terminal \cup {"absent"})
=============================================================================
