--------------------------- MODULE ImportPipeline ---------------------------
(***************************************************************************)
(* The importer of app/backend (internal/importer): import jobs, and the   *)
(* files they move from a finished download through library/_incoming/<id> *)
(* to their place in the library.  The actors, which share no lock:        *)
(*   - the creation loop: an import job for each completed download;       *)
(*   - the import worker: one job at a time, one file at a time;           *)
(*   - the recovery loop: takes back running jobs whose lease ran out;     *)
(*   - the reconcile loop: staged directories that no job owns;            *)
(*   - handlers of POST /import/jobs/{id}/decide, each in its goroutine;   *)
(*   - the operator: approve, retry, skip.                                 *)
(* The worker and the handlers move files the same way, by a look at the   *)
(* target (os.Stat) and then a rename that overwrites what is there: each  *)
(* is a step, and so is every read or write of a table.                    *)
(*                                                                         *)
(* Two files are "the same" when target and size agree: the only test the  *)
(* code makes.  Left out: event rows, metrics, the naming templates (a     *)
(* file's target path is a constant), truncated copies of a cross-device   *)
(* move, the 14 and 30 day cleanups of _incoming and _trash, and a second  *)
(* reconcile started by hand (RunMaintenance).                             *)
(***************************************************************************)
EXTENDS Naturals, FiniteSets

CONSTANTS
    Downloads,      \* ids a download job can have: 1..n
    Files,          \* media files, numbered in the order a scan finds them
    ReleaseOf,      \* the release each file belongs to
    Target,         \* the library path its naming plan gives each file
    Size,           \* its size
    Misnamed,       \* releases whose file names do not resemble their title
    Flat,           \* releases that are one file, not a directory
    UpgradeOf,      \* the upgrade action the grab of each release asks for
    Worker,         \* the import worker
    Handlers,       \* bound: decide requests in flight at once
    MaxDecides,     \* bound: decide requests
    MaxAttempts,    \* import_jobs.max_attempts: 3 in the code
    Stores,         \* the stores to look at: PGStore, MemoryStore or either
    KeepIncoming,   \* IMPORT_KEEP_INCOMING
    MaxOps,         \* bound: approvals, retries and skips
    MaxTroubles     \* bound: failing file operations and store calls, and
                    \* restarts of the backend

Releases == {ReleaseOf[f] : f \in Files}

ASSUME DownloadsAssumption == Downloads \subseteq Nat \ {0}
ASSUME FilesAssumption == /\ Files \subseteq Nat \ {0} /\ IsFiniteSet(Files)
                          /\ ReleaseOf \in [Files -> Nat \ {0}]
                          /\ Target \in [Files -> Nat \ {0}]
                          /\ Size \in [Files -> Nat]
ASSUME FlatAssumption ==
    \A f, g \in Files : ReleaseOf[f] \in Flat /\ ReleaseOf[g] = ReleaseOf[f]
                        => f = g
ASSUME ActorsAssumption == Worker \notin Handlers /\ IsFiniteSet(Handlers)
ASSUME UpgradeAssumption ==
    UpgradeOf \in [Releases -> {"ask", "replace", "keep_both"}]
ASSUME ModeAssumption == /\ Stores \subseteq {"postgres", "memory"}
                         /\ KeepIncoming \in BOOLEAN
ASSUME BoundsAssumption == /\ MaxAttempts \in Nat \ {0}
                           /\ MaxDecides \in Nat
                           /\ MaxOps \in Nat
                           /\ MaxTroubles \in Nat


Actors == Handlers \cup {Worker}

VARIABLES
    store,      \* which import and download stores this deployment uses
    dl,         \* what the download store says of each download job
    jobs,       \* the import job of each download: import_jobs is unique by it
    nextJob,    \* the id the next import job gets, in order of created_at
    at,         \* where each file is
    dirs,       \* the directories _incoming/<id> that exist
    items,      \* the paths library_items has rows for
    pc,         \* what each actor does next
    task,       \* the download whose files it moves, or 0
    todo,       \* the files it has still to move
    aim,        \* the place it is about to move the next one to
    order,      \* the action the decide request asks for
    row,        \* the job as the worker claimed it: it never reads it again
    staged,     \* the files the worker has found in _incoming/<id>
    orphan,     \* what the reconcile loop is about to do, and for which download
    raced,      \* history: downloads whose review a decide cannot rely on
    exposed,    \* history: files put where another actor was about to put one
    clashed,    \* history: downloads of which a move failed
    passed,     \* history: orphans the worker got before, or instead of, review
    used        \* bounds: requests, faults and crashes so far

tables == <<dl, jobs, nextJob>>
disk == <<at, dirs>>
moves == <<pc, task, todo, aim, order, row, staged>>
history == <<exposed, clashed, passed>>

vars == <<store, tables, disk, items, moves, orphan, raced, history, used>>

-----------------------------------------------------------------------------
Place == [dir : {"none", "src", "incoming", "library", "trash", "deleted",
                 "overwritten"},
          id : Nat, copy : Nat]
NoWhere == [dir |-> "none", id |-> 0, copy |-> 0]
Source(r) == [dir |-> "src", id |-> r, copy |-> 0]
Incoming(d) == [dir |-> "incoming", id |-> d, copy |-> 0]
Library(p, n) == [dir |-> "library", id |-> p, copy |-> n]
Trash == [dir |-> "trash", id |-> 0, copy |-> 0]
Deleted == [dir |-> "deleted", id |-> 0, copy |-> 0]
Overwritten == [dir |-> "overwritten", id |-> 0, copy |-> 0]

Status == {"absent", "queued", "running", "needs_review", "imported",
           "failed", "skipped"}
Action == {"keep_both", "replace_existing", "skip"}

Download == [release : Releases \cup {0}, imported : BOOLEAN,
             upgrade : {"ask", "replace", "keep_both"}]
\* claims is history: how often the worker has claimed the job.
Job == [status : Status, id : Nat, attempt : Nat, source : Place,
        work : {"none", "download", "operator"},
        lease : {"none", "held", "expired"}, claims : Nat]

AbsentDownload == [release |-> 0, imported |-> FALSE, upgrade |-> "ask"]
AbsentJob == [status |-> "absent", id |-> 0, attempt |-> 0, source |-> NoWhere,
              work |-> "none", lease |-> "none", claims |-> 0]
NoOrphan == [pc |-> "idle", job |-> 0]

WorkerPc == {"stage", "check", "dup", "review", "fail"}
HandlerPc == {"skip"}
MovingPc == {"idle", "scan", "place", "trash", "bin", "move", "rename", "drop",
             "record", "mark", "close"}

TypeOK ==
    /\ store \in Stores
    /\ dl \in [Downloads -> Download]
    /\ jobs \in [Downloads -> Job]
    /\ nextJob \in Nat
    /\ at \in [Files -> Place]
    /\ dirs \subseteq Downloads
    /\ items \subseteq Place
    /\ pc \in [Actors -> WorkerPc \cup HandlerPc \cup MovingPc]
    /\ task \in [Actors -> Downloads \cup {0}]
    /\ todo \in [Actors -> SUBSET Files]
    /\ aim \in [Actors -> Place]
    /\ order \in [Actors -> Action \cup {"none"}]
    /\ row \in Job
    /\ staged \subseteq Files
    /\ orphan \in [pc : {"idle", "seen", "made"}, job : Downloads \cup {0}]
    /\ raced \subseteq Downloads
    /\ exposed \subseteq Files
    /\ clashed \subseteq Downloads
    /\ passed \subseteq Downloads
    /\ used \in [decides : Nat, ops : Nat, faults : Nat, crashes : Nat]

Init ==
    /\ store \in Stores
    /\ dl = [d \in Downloads |-> AbsentDownload]
    /\ jobs = [d \in Downloads |-> AbsentJob]
    /\ nextJob = 1
    /\ at = [f \in Files |-> NoWhere]
    /\ dirs = {}
    /\ items = {}
    /\ pc = [a \in Actors |-> "idle"]
    /\ task = [a \in Actors |-> 0]
    /\ todo = [a \in Actors |-> {}]
    /\ aim = [a \in Actors |-> NoWhere]
    /\ order = [a \in Actors |-> "none"]
    /\ row = AbsentJob
    /\ staged = {}
    /\ orphan = NoOrphan
    /\ raced = {}
    /\ exposed = {}
    /\ clashed = {}
    /\ passed = {}
    /\ used = [decides |-> 0, ops |-> 0, faults |-> 0, crashes |-> 0]

Durable == store = "postgres"

-----------------------------------------------------------------------------
First(S) == CHOOSE f \in S : \A g \in S : f <= g
FilesAt(p) == {f \in Files : at[f] = p}
FilesOf(d) == {f \in Files : ReleaseOf[f] = dl[d].release}
Same(f, g) == Target[f] = Target[g] /\ Size[f] = Size[g]
Exists(d) == jobs[d].status # "absent"

\* What a file meets at its place in the library.
Home(f) == Library(Target[f], 0)
Occupants(f) == FilesAt(Home(f))

\* nextKeepBothPath: "name (copy)", "name (copy 2)", ...
FreeCopy(p) ==
    LET free == {n \in 1..Cardinality(Files) + 1 : FilesAt(Library(p, n)) = {}}
    IN Library(p, First(free))

\* A file operation or a store call that fails.
Trouble == /\ used.faults + used.crashes < MaxTroubles
           /\ used' = [used EXCEPT !.faults = @ + 1]

\* An actor with no more files to move.
Leave(a, next) ==
    /\ pc' = [pc EXCEPT ![a] = next]
    /\ task' = [task EXCEPT ![a] = IF next = "idle" THEN 0 ELSE @]
    /\ todo' = [todo EXCEPT ![a] = {}]
    /\ aim' = [aim EXCEPT ![a] = NoWhere]
    /\ order' = [order EXCEPT ![a] = "none"]
    /\ row' = IF a = Worker /\ next = "idle" THEN AbsentJob ELSE row
    /\ staged' = IF a = Worker THEN {} ELSE staged

\* An error: the worker marks its job failed, a handler answers with it.
GiveUp(a) == Leave(a, IF a = Worker THEN "fail" ELSE "idle")
Clash(a) == GiveUp(a) /\ clashed' = clashed \cup {task[a]}

Go(a, next) ==
    /\ pc' = [pc EXCEPT ![a] = next]
    /\ UNCHANGED <<task, todo, aim, order, row, staged>>
Toward(a, place, next) ==
    /\ pc' = [pc EXCEPT ![a] = next]
    /\ aim' = [aim EXCEPT ![a] = place]
    /\ UNCHANGED <<task, todo, order, row, staged>>

-----------------------------------------------------------------------------
(* Store operations: the new row each one writes.                           *)

NewJob(id, source, work) ==
    [AbsentJob EXCEPT !.status = "queued", !.id = id, !.source = source,
                      !.work = work]
Claimed(job) == [job EXCEPT !.status = "running", !.attempt = @ + 1,
                            !.lease = "held", !.claims = @ + 1]
Written(job, status) == [job EXCEPT !.status = status, !.lease = "none"]

\* Mutant: the work id is written where the status goes.
ApprovedSwapped(job) == [Written(job, "operator") EXCEPT !.work = "queued"]

Approved(job) == [Written(job, "queued") EXCEPT !.work = "operator"]

\* Mutant: every failure is tried again.
FailedForever(job, terminal) == Written(job, "queued")

\* PGStore trusts the caller's verdict; MemoryStore also looks at the row.
Failed(job, terminal) ==
    Written(job, IF \/ terminal
                    \/ ~Durable /\ job.attempt >= MaxAttempts
                 THEN "failed" ELSE "queued")

Recovered(job) ==
    [Written(job, IF job.attempt + 1 >= MaxAttempts THEN "failed" ELSE "queued")
        EXCEPT !.attempt = @ + 1]

\* CreateOrGetFromDownload: an existing row is returned as it is.
CreateOrGet(d, source, work) ==
    IF Exists(d) THEN UNCHANGED <<jobs, nextJob>>
    ELSE /\ jobs' = [jobs EXCEPT ![d] = NewJob(nextJob, source, work)]
         /\ nextJob' = nextJob + 1

\* A write whose error nobody looks at.
Discarded(d, new) ==
    \/ jobs' = [jobs EXCEPT ![d] = new] /\ UNCHANGED used
    \/ UNCHANGED jobs /\ Trouble

-----------------------------------------------------------------------------
(* The download side: a job completes, its files under its output path.     *)
(* Ids are given in order, and releases are numbered in the order in which  *)
(* they complete; the memory store starts again from id 1 after a restart,  *)
(* and PGStore does not keep the upgrade action.                            *)
DownloadCompletes(d, r) ==
    /\ dl[d].release = 0
    /\ \A e \in Downloads : e < d => dl[e].release # 0
    /\ \A f \in Files : /\ ReleaseOf[f] = r => at[f] = NoWhere
                        /\ ReleaseOf[f] < r => at[f] # NoWhere
    /\ dl' = [dl EXCEPT ![d] = [release |-> r, imported |-> FALSE,
                                upgrade |-> IF Durable THEN "ask" ELSE UpgradeOf[r]]]
    /\ at' = [f \in Files |-> IF ReleaseOf[f] = r THEN Source(r) ELSE at[f]]
    /\ UNCHANGED <<jobs, nextJob, dirs, items, moves, orphan, history, used>>

\* One entry of creationLoop.
CreateImport(d) ==
    /\ dl[d].release # 0
    /\ ~dl[d].imported
    /\ CreateOrGet(d, Source(dl[d].release), "download")
    /\ UNCHANGED <<dl, disk, items, moves, orphan, history, used>>

-----------------------------------------------------------------------------
(* The import worker: claim, scan, match, stage.                            *)

ClaimNextQueued(d) ==
    /\ pc[Worker] = "idle"
    /\ jobs[d].status = "queued"
    /\ \A e \in Downloads : jobs[e].status = "queued" => jobs[d].id <= jobs[e].id
    /\ jobs' = [jobs EXCEPT ![d] = Claimed(@)]
    /\ pc' = [pc EXCEPT ![Worker] = "scan"]
    /\ task' = [task EXCEPT ![Worker] = d]
    /\ row' = Claimed(jobs[d])
    /\ passed' = IF orphan = [pc |-> "made", job |-> d] THEN passed \cup {d}
                 ELSE passed
    /\ UNCHANGED <<dl, nextJob, disk, items, todo, aim, order, staged, orphan,
                   exposed, clashed, used>>

\* External: whether matchJob reaches the 0.85 threshold.  With a work id it
\* does unless the metadata service is up and the title disagrees; without
\* one it depends on what the search returns.
MatchVerdicts(files) ==
    IF row.work = "none" THEN BOOLEAN
    ELSE IF ReleaseOf[First(files)] \in Misnamed THEN BOOLEAN ELSE {TRUE}

\* Scan the source path and match what is there against the work; when sure,
\* make _incoming/<id>.
ScanSource ==
    LET files == FilesAt(row.source) IN
    /\ pc[Worker] = "scan"
    /\ \/ files = {} /\ GiveUp(Worker) /\ UNCHANGED dirs
       \/ /\ files # {}
          /\ FALSE \in MatchVerdicts(files)
          /\ Leave(Worker, "review")
          /\ UNCHANGED dirs
       \/ /\ files # {}
          /\ TRUE \in MatchVerdicts(files)
          /\ dirs' = dirs \cup {task[Worker]}
          /\ pc' = [pc EXCEPT ![Worker] = "stage"]
          /\ todo' = [todo EXCEPT ![Worker] = files]
          /\ UNCHANGED <<task, aim, order, row, staged>>
    /\ UNCHANGED <<tables, at, items, orphan, history, used>>

\* One file into _incoming/<id>, which is made again if need be.  A staged
\* file is its own target.  A source that is the file itself has the relative
\* path ".", which is the directory just made: the target exists already.
StageFile ==
    LET f == First(todo[Worker])
        d == task[Worker]
    IN /\ pc[Worker] = "stage"
       /\ todo[Worker] # {}
       /\ dirs' = dirs \cup {d}
       /\ \/ row.source = Incoming(d) /\ Go(Worker, "check") /\ UNCHANGED at
          \/ /\ row.source # Incoming(d)
             /\ IF at[f] # row.source \/ ReleaseOf[f] \in Flat
                THEN GiveUp(Worker) /\ UNCHANGED at
                ELSE Go(Worker, "check") /\ at' = [at EXCEPT ![f] = Incoming(d)]
       /\ UNCHANGED <<tables, items, orphan, history, used>>

\* os.Stat of the file in its staging directory: one that is gone is not
\* among the staged ones.
CheckStaged ==
    LET f == First(todo[Worker]) IN
    /\ pc[Worker] = "check"
    /\ pc' = [pc EXCEPT ![Worker] = "stage"]
    /\ todo' = [todo EXCEPT ![Worker] = @ \ {f}]
    /\ staged' = IF at[f] = Incoming(task[Worker]) THEN staged \cup {f} ELSE staged
    /\ UNCHANGED <<tables, disk, items, task, aim, order, row, orphan, history, used>>

AllStaged ==
    /\ pc[Worker] = "stage"
    /\ todo[Worker] = {}
    /\ IF staged = {} THEN GiveUp(Worker)
       ELSE /\ pc' = [pc EXCEPT ![Worker] = "place"]
            /\ todo' = [todo EXCEPT ![Worker] = staged]
            /\ staged' = {}
            /\ UNCHANGED <<task, aim, order, row>>
    /\ UNCHANGED <<tables, disk, items, orphan, history, used>>

-----------------------------------------------------------------------------
(* POST /import/jobs/{id}/decide: the status is read once, and the staging  *)
(* directory scanned after it.                                              *)

\* Mutant: the status of the job is not looked at.
DecideAnyStatus(h, d, action) ==
    /\ pc[h] = "idle"
    /\ used.decides < MaxDecides
    /\ used' = [used EXCEPT !.decides = @ + 1]
    /\ Exists(d)
    /\ pc' = [pc EXCEPT ![h] = IF action = "skip" THEN "skip" ELSE "scan"]
    /\ task' = [task EXCEPT ![h] = d]
    /\ order' = [order EXCEPT ![h] = action]
    /\ UNCHANGED <<tables, disk, items, todo, aim, row, staged, orphan, history>>

Decide(h, d, action) ==
    /\ pc[h] = "idle"
    /\ used.decides < MaxDecides
    /\ used' = [used EXCEPT !.decides = @ + 1]
    /\ jobs[d].status = "needs_review"
    /\ pc' = [pc EXCEPT ![h] = IF action = "skip" THEN "skip" ELSE "scan"]
    /\ task' = [task EXCEPT ![h] = d]
    /\ order' = [order EXCEPT ![h] = action]
    /\ UNCHANGED <<tables, disk, items, todo, aim, row, staged, orphan, history>>

DecideSkip(h) ==
    /\ pc[h] = "skip"
    /\ jobs' = [jobs EXCEPT ![task[h]] = Written(@, "skipped")]
    /\ Leave(h, "idle")
    /\ UNCHANGED <<dl, nextJob, disk, items, orphan, history, used>>

DecideScan(h) ==
    LET files == FilesAt(Incoming(task[h])) IN
    /\ pc[h] = "scan"
    /\ IF files = {} THEN Leave(h, "idle")
       ELSE /\ pc' = [pc EXCEPT ![h] = "place"]
            /\ todo' = [todo EXCEPT ![h] = files]
            /\ UNCHANGED <<task, aim, order, row, staged>>
    /\ UNCHANGED <<tables, disk, items, orphan, history, used>>

\* Where the next file goes: a new name, or the place that is to be cleared.
DecidePlace(h) ==
    LET f == First(todo[h]) IN
    /\ pc[h] = "place"
    /\ todo[h] # {}
    /\ IF order[h] = "keep_both" THEN Toward(h, FreeCopy(Target[f]), "move")
       ELSE Toward(h, Home(f), "trash")
    /\ UNCHANGED <<tables, disk, items, orphan, history, used>>

-----------------------------------------------------------------------------
(* The worker's next staged file: os.Stat of it and of its place.           *)

\* Nothing is there, or the same file, which makes this one a duplicate.
PlaceFile ==
    LET f == First(todo[Worker]) IN
    /\ pc[Worker] = "place"
    /\ todo[Worker] # {}
    /\ at[f] = Incoming(task[Worker])
    /\ \A g \in Occupants(f) : Same(f, g)
    /\ IF Occupants(f) = {} THEN Toward(Worker, Home(f), "move")
       ELSE Go(Worker, "dup")
    /\ UNCHANGED <<tables, disk, items, orphan, history, used>>

\* A different file is there: the upgrade action of the download job decides,
\* and "ask" when that job is not found.
ResolveCollision ==
    LET f == First(todo[Worker])
        upgrade == dl[task[Worker]].upgrade
    IN /\ pc[Worker] = "place"
       /\ todo[Worker] # {}
       /\ at[f] = Incoming(task[Worker])
       /\ \E g \in Occupants(f) : ~Same(f, g)
       /\ \/ upgrade = "replace" /\ Toward(Worker, Home(f), "trash")
          \/ upgrade = "keep_both" /\ Toward(Worker, FreeCopy(Target[f]), "move")
          \/ upgrade = "ask" /\ Leave(Worker, "review")
       /\ UNCHANGED <<tables, disk, items, orphan, history, used>>

PlaceMissing ==
    /\ pc[Worker] = "place"
    /\ todo[Worker] # {}
    /\ at[First(todo[Worker])] # Incoming(task[Worker])
    /\ Clash(Worker)
    /\ UNCHANGED <<tables, disk, items, orphan, exposed, passed, used>>

-----------------------------------------------------------------------------
(* How the worker and the handlers move a file.                             *)

\* moveExistingToTrash looks at the place, and renames what is there then.
LookAtPlace(a) ==
    /\ pc[a] = "trash"
    /\ Go(a, IF FilesAt(aim[a]) = {} THEN "move" ELSE "bin")
    /\ UNCHANGED <<tables, disk, items, orphan, history, used>>

MoveToTrash(a) ==
    LET there == FilesAt(aim[a]) IN
    /\ pc[a] = "bin"
    /\ IF there = {} THEN Clash(a) /\ UNCHANGED at
       ELSE /\ at' = [g \in Files |-> IF g \in there THEN Trash ELSE at[g]]
            /\ Go(a, "move")
            /\ UNCHANGED clashed
    /\ UNCHANGED <<tables, dirs, items, orphan, exposed, passed, used>>

\* moveOrCopy looks at the place: a different file there is an error, and so
\* is the same one when this one is gone from the staging directory.
LookBeforeMove(a) ==
    LET f == First(todo[a])
        there == FilesAt(aim[a])
    IN /\ pc[a] = "move"
       /\ \/ there = {} /\ Go(a, "rename") /\ UNCHANGED clashed
          \/ /\ there # {}
             /\ at[f] = Incoming(task[a]) /\ \A g \in there : Same(f, g)
             /\ Go(a, "drop")
             /\ UNCHANGED clashed
          \/ /\ there # {}
             /\ at[f] # Incoming(task[a]) \/ \E g \in there : ~Same(f, g)
             /\ Clash(a)
       /\ UNCHANGED <<tables, disk, items, orphan, exposed, passed, used>>

\* os.Rename, over whatever has come there in the meantime.
RenameFile(a) ==
    LET f == First(todo[a])
        others == {b \in Actors \ {a} : pc[b] = "rename" /\ aim[b] = aim[a]}
    IN /\ pc[a] = "rename"
       /\ IF at[f] # Incoming(task[a])
          THEN Clash(a) /\ UNCHANGED <<at, exposed>>
          ELSE /\ at' = [g \in Files |-> IF g = f THEN aim[a]
                                         ELSE IF at[g] = aim[a] THEN Overwritten
                                         ELSE at[g]]
               /\ exposed' = IF others = {} THEN exposed ELSE exposed \cup {f}
               /\ pc' = [pc EXCEPT ![a] = "record"]
               /\ todo' = [todo EXCEPT ![a] = @ \ {f}]
               /\ UNCHANGED <<task, aim, order, row, staged, clashed>>
       /\ UNCHANGED <<tables, dirs, items, orphan, passed, used>>

\* os.Remove of a duplicate, its error discarded.  Only moveOrCopy's caller
\* goes on to the library row.
DropDuplicate(a) ==
    LET f == First(todo[a]) IN
    /\ pc[a] \in {"drop", "dup"}
    /\ at' = IF at[f] = Incoming(task[a]) THEN [at EXCEPT ![f] = Deleted] ELSE at
    /\ pc' = [pc EXCEPT ![a] = IF @ = "drop" THEN "record" ELSE "place"]
    /\ todo' = [todo EXCEPT ![a] = @ \ {f}]
    /\ UNCHANGED <<tables, dirs, items, task, aim, order, row, staged, orphan,
                   history, used>>

\* Mutant: no row for the file just placed.
Unrecorded(a) ==
    /\ pc[a] = "record"
    /\ Toward(a, NoWhere, "place")
    /\ UNCHANGED <<tables, disk, items, orphan, history, used>>

\* os.Stat of the place, then UpsertLibraryItem, whose error is discarded.
RecordItem(a) ==
    /\ pc[a] = "record"
    /\ Toward(a, NoWhere, "place")
    /\ IF FilesAt(aim[a]) = {} THEN UNCHANGED <<items, used>>
       ELSE \/ items' = items \cup {aim[a]} /\ UNCHANGED used
            \/ UNCHANGED items /\ Trouble
    /\ UNCHANGED <<tables, disk, orphan, history>>

\* Mutant: the configuration is not read.
RemoveIncomingAlways(d) ==
    /\ at' = [f \in Files |-> IF at[f] = Incoming(d) THEN Deleted ELSE at[f]]
    /\ dirs' = dirs \ {d}

\* RemoveAll of _incoming/<id>, unless it is kept.
RemoveIncoming(d) ==
    IF KeepIncoming THEN UNCHANGED disk
    ELSE /\ at' = [f \in Files |-> IF at[f] = Incoming(d) THEN Deleted ELSE at[f]]
         /\ dirs' = dirs \ {d}

\* Mutant: files still to be placed are not waited for.
CleanIncomingEarly(a) ==
    /\ pc[a] = "place"
    /\ RemoveIncoming(task[a])
    /\ Leave(a, "mark")
    /\ UNCHANGED <<tables, items, orphan, history, used>>

CleanIncoming(a) ==
    /\ pc[a] = "place"
    /\ todo[a] = {}
    /\ RemoveIncoming(task[a])
    /\ Leave(a, "mark")
    /\ UNCHANGED <<tables, items, orphan, history, used>>

MarkImported(a) ==
    /\ pc[a] = "mark"
    /\ jobs' = [jobs EXCEPT ![task[a]] = Written(@, "imported")]
    /\ Go(a, "close")
    /\ UNCHANGED <<dl, nextJob, disk, items, orphan, history, used>>

\* Mutant: the download keeps its flag.
CloseDownloadForgets(a) ==
    /\ pc[a] = "close"
    /\ Leave(a, "idle")
    /\ UNCHANGED <<tables, disk, items, orphan, history, used>>

\* downloadStore.MarkImported: ErrNotFound when the download is unknown.
CloseDownload(a) ==
    /\ pc[a] = "close"
    /\ IF dl[task[a]].release = 0 THEN GiveUp(a) /\ UNCHANGED dl
       ELSE /\ dl' = [dl EXCEPT ![task[a]].imported = TRUE]
            /\ Leave(a, "idle")
    /\ UNCHANGED <<jobs, nextJob, disk, items, orphan, history, used>>

\* Any other failing call: MkdirAll, a rename, a remove of the trash move, a
\* scan, a store write whose error is returned.
ActorFault(a) ==
    /\ pc[a] \notin {"idle", "check", "dup", "drop", "record", "review", "fail"}
    /\ Trouble
    /\ GiveUp(a)
    /\ UNCHANGED <<tables, disk, items, orphan, history>>

-----------------------------------------------------------------------------
(* The verdicts of the worker: the errors of both writes are discarded.     *)

MarkNeedsReview ==
    LET d == task[Worker] IN
    /\ pc[Worker] = "review"
    /\ Discarded(d, Written(jobs[d], "needs_review"))
    /\ Leave(Worker, "idle")
    /\ UNCHANGED <<dl, nextJob, disk, items, orphan, history>>

MarkFailed ==
    LET d == task[Worker] IN
    /\ pc[Worker] = "fail"
    /\ Discarded(d, Failed(jobs[d], row.attempt >= MaxAttempts))
    /\ Leave(Worker, "idle")
    /\ UNCHANGED <<dl, nextJob, disk, items, orphan, history>>

-----------------------------------------------------------------------------
(* The recovery loop, and the clock.                                        *)

LeaseExpires(d) ==
    /\ jobs[d].status = "running"
    /\ jobs[d].lease = "held"
    /\ jobs' = [jobs EXCEPT ![d].lease = "expired"]
    /\ UNCHANGED <<dl, nextJob, disk, items, moves, orphan, history, used>>

\* PGStore's recovery never commits.  It sends its UPDATE while the rows of
\* its SELECT are still open on the transaction's one connection, which
\* lib/pq refuses, and its event hands jsonb_build_object parameters that
\* have no type, which Postgres refuses: either error rolls it back.
RecoveryCommits == ~Durable

RecoverExpiredLease(d) ==
    /\ RecoveryCommits
    /\ jobs[d].status = "running"
    /\ jobs[d].lease = "expired"
    /\ jobs' = [jobs EXCEPT ![d] = Recovered(@)]
    /\ UNCHANGED <<dl, nextJob, disk, items, moves, orphan, history, used>>

-----------------------------------------------------------------------------
(* The reconcile loop: a staged directory with no import job gets one, and  *)
(* the job goes to review.                                                  *)

\* PGStore answers "no such job" when its query fails.
ReconcileSees(d) ==
    /\ orphan.pc = "idle"
    /\ d \in dirs
    /\ \/ ~Exists(d) /\ UNCHANGED used
       \/ Durable /\ Exists(d) /\ Trouble
    /\ orphan' = [pc |-> "seen", job |-> d]
    /\ UNCHANGED <<tables, disk, items, moves, history>>

\* Mutant: a directory whose download is unknown is passed over.
ReconcileKnown ==
    LET d == orphan.job IN
    /\ orphan.pc = "seen"
    /\ IF dl[d].release = 0 THEN orphan' = NoOrphan /\ UNCHANGED <<jobs, nextJob>>
       ELSE /\ CreateOrGet(d, Incoming(d), "download")
            /\ orphan' = [orphan EXCEPT !.pc = "made"]
    /\ UNCHANGED <<dl, disk, items, moves, history, used>>

\* The job's work id is the download's, or none when that is not found.  The
\* creation loop may have made the job in between.
ReconcileCreate ==
    LET d == orphan.job IN
    /\ orphan.pc = "seen"
    /\ \/ /\ CreateOrGet(d, Incoming(d),
                          IF dl[d].release = 0 THEN "none" ELSE "download")
          /\ orphan' = [orphan EXCEPT !.pc = "made"]
          /\ UNCHANGED used
       \/ /\ CreateOrGet(d, Incoming(d), "none")
          /\ orphan' = [orphan EXCEPT !.pc = "made"]
          /\ Trouble
       \/ /\ UNCHANGED <<jobs, nextJob>>
          /\ orphan' = NoOrphan
          /\ Trouble
    /\ UNCHANGED <<dl, disk, items, moves, history>>

\* MarkNeedsReview, whatever has become of the job, and its error discarded.
ReconcileReview ==
    LET d == orphan.job IN
    /\ orphan.pc = "made"
    /\ \/ /\ jobs' = [jobs EXCEPT ![d] = Written(@, "needs_review")]
          /\ UNCHANGED <<used, passed>>
       \/ UNCHANGED jobs /\ Trouble /\ passed' = passed \cup {d}
    /\ orphan' = NoOrphan
    /\ UNCHANGED <<dl, nextJob, disk, items, moves, exposed, clashed>>

-----------------------------------------------------------------------------
(* The operator.                                                           *)

Operator == /\ used.ops < MaxOps
            /\ used' = [used EXCEPT !.ops = @ + 1]

Approve(d) ==
    /\ Exists(d)
    /\ Operator
    /\ jobs' = [jobs EXCEPT ![d] = Approved(@)]
    /\ UNCHANGED <<dl, nextJob, disk, items, moves, orphan, history>>

Retry(d) ==
    /\ Exists(d)
    /\ Operator
    /\ jobs' = [jobs EXCEPT ![d] = Written(@, "queued")]
    /\ UNCHANGED <<dl, nextJob, disk, items, moves, orphan, history>>

Skip(d) ==
    /\ Exists(d)
    /\ Operator
    /\ jobs' = [jobs EXCEPT ![d] = Written(@, "skipped")]
    /\ UNCHANGED <<dl, nextJob, disk, items, moves, orphan, history>>

-----------------------------------------------------------------------------
(* A restart of the backend: the disk stays, and with PGStore the tables.   *)
Crash ==
    /\ used.faults + used.crashes < MaxTroubles
    /\ used' = [used EXCEPT !.crashes = @ + 1]
    /\ pc' = [a \in Actors |-> "idle"]
    /\ task' = [a \in Actors |-> 0]
    /\ todo' = [a \in Actors |-> {}]
    /\ aim' = [a \in Actors |-> NoWhere]
    /\ order' = [a \in Actors |-> "none"]
    /\ row' = AbsentJob
    /\ staged' = {}
    /\ orphan' = NoOrphan
    /\ passed' = {}
    /\ IF Durable THEN UNCHANGED <<tables, items>>
       ELSE /\ dl' = [d \in Downloads |-> AbsentDownload]
            /\ jobs' = [d \in Downloads |-> AbsentJob]
            /\ nextJob' = 1
            /\ items' = {}
    /\ UNCHANGED <<disk, exposed, clashed>>

-----------------------------------------------------------------------------
MoveStep(a) == \/ LookAtPlace(a) \/ MoveToTrash(a) \/ LookBeforeMove(a)
               \/ RenameFile(a) \/ DropDuplicate(a) \/ RecordItem(a)
               \/ CleanIncoming(a) \/ MarkImported(a) \/ CloseDownload(a)

WorkerStep == \/ \E d \in Downloads : ClaimNextQueued(d)
              \/ ScanSource \/ StageFile \/ CheckStaged \/ AllStaged
              \/ PlaceFile \/ ResolveCollision \/ PlaceMissing
              \/ MarkNeedsReview \/ MarkFailed
              \/ MoveStep(Worker)

CreationStep == \E d \in Downloads : CreateImport(d)

ReconcileStep == \/ \E d \in Downloads : ReconcileSees(d)
                 \/ ReconcileCreate
                 \/ ReconcileReview

DecideStep(h) == DecideSkip(h) \/ DecideScan(h) \/ DecidePlace(h) \/ MoveStep(h)

Step ==
    \/ \E d \in Downloads, r \in Releases : DownloadCompletes(d, r)
    \/ CreationStep
    \/ ReconcileStep
    \/ \E d \in Downloads : \/ LeaseExpires(d)
                            \/ RecoverExpiredLease(d)
                            \/ Approve(d)
                            \/ Retry(d)
                            \/ Skip(d)
    \/ WorkerStep
    \/ \E h \in Handlers, d \in Downloads, action \in Action : Decide(h, d, action)
    \/ \E h \in Handlers : DecideStep(h)
    \/ \E a \in Actors : ActorFault(a)
    \/ Crash

\* A review a decide request cannot rely on: the job leaves it when a request
\* has read its status but not yet scanned its files, or enters it with the
\* worker still at its files.
Watch ==
    /\ raced' = raced \cup
         {d \in Downloads :
            \/ /\ jobs[d].status = "needs_review"
               /\ jobs'[d].status # "needs_review"
               /\ \E h \in Handlers : task[h] = d /\ pc[h] = "scan"
            \/ /\ jobs[d].status # "needs_review"
               /\ jobs'[d].status = "needs_review"
               /\ task'[Worker] = d}
    /\ UNCHANGED store

Next == Step /\ Watch

Spec == Init /\ [][Next]_vars

\* The loops run as long as the process does, each a goroutine with its own
\* ticker, and a decide request that has begun goes on.  Leases need not lapse,
\* and downloads and requests need never come.
Fairness ==
    /\ WF_vars(WorkerStep /\ Watch)
    /\ WF_vars(CreationStep /\ Watch)
    /\ WF_vars(ReconcileStep /\ Watch)
    /\ \A h \in Handlers : WF_vars(DecideStep(h) /\ Watch)

LiveSpec == Spec /\ Fairness

-----------------------------------------------------------------------------
(* Properties.                                                             *)

\* No file disappears, when staging directories are kept: one that was removed
\* as a duplicate or overwritten by a rename has the same file in some other
\* place, but for files that were put in a place another actor had already
\* found free, which that actor's rename then overwrites.
Gone == {NoWhere, Deleted, Overwritten}
NoMediaLost ==
    \A f \in Files : at[f] \in {Deleted, Overwritten} =>
        \E g \in Files : Same(f, g) /\ (at[g] \notin Gone \/ g \in exposed)

\* A download marked imported has each of its files, or the same file of
\* another release, in the library or put aside in the trash; but for files
\* overwritten as above, and downloads whose job left review when a decide
\* request had read its status but not yet scanned its files, or was sent to
\* review under its worker.
ImportedIsComplete ==
    \A d \in Downloads \ raced, f \in Files :
        dl[d].imported /\ ReleaseOf[f] = dl[d].release =>
            \E g \in Files :
                Same(f, g) /\ (at[g].dir \in {"library", "trash"} \/ g \in exposed)

\* The same without the excuses.  The code does not promise it.
ImportedWhole ==
    \A d \in Downloads, f \in Files :
        dl[d].imported /\ ReleaseOf[f] = dl[d].release =>
            \E g \in Files : Same(f, g) /\ at[g].dir \in {"library", "trash"}

\* Every file in the library has its row in library_items, but for those that
\* an actor has just placed and is about to record, one for each failed write,
\* and one for each actor a restart caught between the move and the row.
LibraryRecorded ==
    LET without == {f \in Files : /\ at[f].dir = "library"
                                  /\ at[f] \notin items
                                  /\ \A a \in Actors :
                                       ~(pc[a] = "record" /\ aim[a] = at[f])}
    IN Durable \/ used.crashes = 0 =>
         Cardinality(without) <=
             used.faults + used.crashes * Cardinality(Actors)

\* Retries are bounded: the worker claims a job at most MaxAttempts times,
\* and once more for each request of the operator, although a worker that
\* outlives its lease may queue again a job that recovery has given up.
ClaimsBounded ==
    \A d \in Downloads : jobs[d].claims <= MaxAttempts + used.ops

\* With PGStore, a file leaves the library for the trash only to make room for
\* a file of another release, if one decide request runs at a time and the
\* staged files are kept; but for the two kinds of review just named.  (Of two
\* requests at once the second trashes what the first has placed.)
TrashedForAnother ==
    [][Durable => \A f \in Files : at[f] # Trash /\ at'[f] = Trash =>
         \/ \E g \in Files : /\ ReleaseOf[g] # ReleaseOf[f]
                            /\ Target[g] = Target[f]
                            /\ at[g].dir = "incoming"
         \/ \E a \in Actors : pc[a] = "bin" /\ task[a] \in raced]_vars

Disturbed == used.crashes > 0 \/ used.faults > 0

\* A completed download that is a directory ends in the library or in front of
\* the operator, unless a restart, a failed file operation or a failed store
\* call comes in between, or a move of one of its files meets a file another
\* actor has just put there.
CompletedIsSettled ==
    \A d \in Downloads :
        dl[d].release \notin Flat \cup {0} /\ ~Disturbed ~>
            \/ dl[d].imported
            \/ jobs[d].status \in {"needs_review", "skipped"}
            \/ Disturbed
            \/ d \in clashed

\* A staged directory with no import job gets one that waits in review for the
\* operator, with no worker at its files; unless the creation loop makes the
\* job of a new download with that id, the write that sends it to review fails,
\* or the worker takes the new job before that write.
OrphansAdopted ==
    \A d \in Downloads :
        d \in dirs /\ ~Exists(d) ~>
            \/ jobs[d].status = "needs_review" /\ task[Worker] # d
            \/ jobs[d].source.dir = "src"
            \/ d \in passed
            \/ d \notin dirs

=============================================================================
