------------------------ MODULE ImportPipelineProofs ------------------------
(***************************************************************************)
(* Proofs about ImportPipeline, for every value of its constants.  The     *)
(* inductive invariant is TypeInv, TypeOK with what an actor that is busy  *)
(* has in hand, and one strengthening for each property.                   *)
(***************************************************************************)
EXTENDS ImportPipeline, TLAPS, FiniteSetTheorems, WellFoundedInduction

ActorPc == WorkerPc \cup HandlerPc \cup MovingPc
\* Where an actor has a file in hand, and where it is aiming at the library.
Holding == {"check", "trash", "bin", "move", "rename", "drop", "dup"}
Aiming == {"trash", "bin", "move", "rename", "drop", "record"}

TablesOK == /\ dl \in [Downloads -> Download]
            /\ jobs \in [Downloads -> Job]
            /\ nextJob \in Nat
DiskOK == /\ at \in [Files -> Place]
          /\ dirs \subseteq Downloads
          /\ items \subseteq Place
MovesOK == /\ pc \in [Actors -> ActorPc]
           /\ task \in [Actors -> Downloads \cup {0}]
           /\ todo \in [Actors -> SUBSET Files]
           /\ aim \in [Actors -> Place]
           /\ order \in [Actors -> Action \cup {"none"}]
           /\ row \in Job
           /\ staged \subseteq Files
OrphanOK == /\ orphan \in [pc : {"idle", "seen", "made"}, job : Downloads \cup {0}]
            /\ orphan.pc # "idle" => orphan.job \in Downloads
HistoryOK == /\ raced \subseteq Downloads /\ exposed \subseteq Files
             /\ clashed \subseteq Downloads /\ passed \subseteq Downloads
UsedRec == [decides : Nat, ops : Nat, faults : Nat, crashes : Nat]

\* What is true of a busy actor: it has a download, and where it holds a file
\* or aims at a place, it has that too.
Knows(a) == /\ pc[a] # "idle" => task[a] \in Downloads
            /\ pc[a] \in Holding => todo[a] # {}
            /\ pc[a] \in Aiming => aim[a].dir = "library"
KnownInv == \A a \in Actors : Knows(a)
TypeInv == /\ store \in Stores /\ TablesOK /\ DiskOK /\ MovesOK /\ OrphanOK
           /\ HistoryOK /\ used \in UsedRec /\ KnownInv

LEMMA TypeInvTypes == TypeInv => TypeOK
  BY DEF TypeInv, TypeOK, TablesOK, DiskOK, MovesOK, OrphanOK, HistoryOK, UsedRec, ActorPc

(* Files in the order of a scan, and free names.                            *)

LEMMA NatMin ==
    ASSUME NEW T, T \subseteq Nat, T # {}
    PROVE  \E x \in T : \A y \in T : x <= y
  <1> DEFINE R == OpToRel(<, Nat)
  <1>1. IsWellFoundedOn(R, Nat)
    BY NatLessThanWellFounded
  <1>2. PICK x \in T : \A y \in T : ~(<<y, x>> \in R)
    <2> HIDE DEF R
    <2> QED
      BY <1>1, WFMin
  <1>3. \A y \in T : y < x => <<y, x>> \in R
    BY DEF OpToRel
  <1>4. \A y \in T : ~(y < x)
    BY <1>2, <1>3
  <1>5. QED
    BY <1>4

LEMMA FirstIn ==
    ASSUME NEW S, S \subseteq Nat, S # {}
    PROVE  First(S) \in S
  <1>1. \E x \in S : \A y \in S : x <= y
    BY NatMin
  <1>2. QED
    BY <1>1, Zenon DEF First

LEMMA FirstFile == \A S \in SUBSET Files : S # {} => First(S) \in S /\ First(S) \in Files
  BY FilesAssumption, FirstIn

\* With one more name than there are files, one is free.
LEMMA FreeCopyFree ==
    ASSUME NEW p
    PROVE  /\ \E n \in Nat : FreeCopy(p) = Library(p, n)
           /\ FilesAt(FreeCopy(p)) = {}
  <1>1. PICK m \in Nat : m = Cardinality(Files)
    BY FilesAssumption, FS_CardinalityType
  <1> DEFINE free == {n \in 1..(m + 1) : FilesAt(Library(p, n)) = {}}
  <1>2. free # {}
    <2> SUFFICES ASSUME free = {} PROVE FALSE
      OBVIOUS
    <2>1. \A n \in 1..(m + 1) : \E f \in Files : at[f] = Library(p, n)
      BY DEF FilesAt
    <2> DEFINE name == [n \in 1..(m + 1) |-> CHOOSE f \in Files : at[f] = Library(p, n)]
    <2>2. \A n \in 1..(m + 1) : name[n] \in Files /\ at[name[n]] = Library(p, n)
      BY <2>1, Zenon
    <2>3. name \in [1..(m + 1) -> Files]
      BY <2>2, Zenon
    <2> HIDE DEF name
    <2>4. ASSUME NEW i \in 1..(m + 1), NEW j \in 1..(m + 1), name[i] = name[j] PROVE i = j
      <3>1. Library(p, i).copy = Library(p, j).copy
        BY <2>2, <2>4, Zenon
      <3>2. QED
        BY <3>1 DEF Library
    <2>5. name \in Injection(1..(m + 1), Files)
      BY <2>3, <2>4 DEF Injection, IsInjective
    <2>6. IsFiniteSet(1..(m + 1)) /\ Cardinality(1..(m + 1)) = m + 1
      BY FS_Interval
    <2>7. m + 1 <= m
      BY <1>1, <2>5, <2>6, FilesAssumption, FS_Injection
    <2>8. QED
      BY <2>7
  <1>3. First(free) \in free
    BY <1>2, FirstIn
  <1>4. FreeCopy(p) = Library(p, First(free))
    BY <1>1 DEF FreeCopy
  <1> HIDE DEF free
  <1>5. PICK n \in free : n = First(free)
    BY <1>3
  <1>6. n \in Nat /\ FilesAt(Library(p, n)) = {}
    BY <1>5 DEF free
  <1>7. QED
    BY <1>4, <1>5, <1>6

-----------------------------------------------------------------------------

-----------------------------------------------------------------------------
(* Places, rows and bounds.                                                 *)

LEMMA PlaceTypes ==
    /\ NoWhere \in Place /\ Trash \in Place /\ Deleted \in Place /\ Overwritten \in Place
    /\ \A r \in Nat : Source(r) \in Place /\ Incoming(r) \in Place
    /\ \A p \in Nat, n \in Nat : Library(p, n) \in Place
  BY DEF NoWhere, Trash, Deleted, Overwritten, Source, Incoming, Library, Place

LEMMA PlaceDirs ==
    /\ NoWhere.dir = "none" /\ Trash.dir = "trash" /\ Deleted.dir = "deleted"
    /\ Overwritten.dir = "overwritten"
    /\ \A r : /\ Source(r).dir = "src" /\ Source(r).id = r
              /\ Incoming(r).dir = "incoming" /\ Incoming(r).id = r
    /\ \A p, n : Library(p, n).dir = "library"
  BY DEF NoWhere, Trash, Deleted, Overwritten, Source, Incoming, Library

LEMMA HomeTypes ==
    ASSUME NEW f \in Files
    PROVE  /\ Home(f) \in Place /\ Home(f).dir = "library"
           /\ FreeCopy(Target[f]) \in Place /\ FreeCopy(Target[f]).dir = "library"
  <1>1. Target[f] \in Nat
    BY FilesAssumption
  <1>2. PICK n \in Nat : FreeCopy(Target[f]) = Library(Target[f], n)
    BY FreeCopyFree
  <1>3. QED
    BY <1>1, <1>2, PlaceTypes, PlaceDirs DEF Home

LEMMA JobTypes ==
    ASSUME NEW job \in Job
    PROVE  /\ Claimed(job) \in Job
           /\ \A s \in Status : Written(job, s) \in Job
           /\ Approved(job) \in Job
           /\ \A t : Failed(job, t) \in Job
           /\ Recovered(job) \in Job
           /\ [job EXCEPT !.lease = "expired"] \in Job
  <1>1. job.attempt + 1 \in Nat /\ job.claims + 1 \in Nat
    BY DEF Job
  <1>2. Claimed(job) \in Job
    <2>1. \A n, c \in Nat : [job EXCEPT !.status = "running", !.attempt = n,
                                        !.lease = "held", !.claims = c] \in Job
      BY DEF Job, Status
    <2>2. QED
      BY <1>1, <2>1, Zenon DEF Claimed
  <1>3. \A s \in Status : Written(job, s) \in Job
    BY DEF Written, Job
  <1>5. {"queued", "failed"} \subseteq Status
    BY DEF Status
  <1>7. Approved(job) \in Job
    <2>1. \A j \in Job : [j EXCEPT !.work = "operator"] \in Job
      BY DEF Job
    <2>2. QED
      BY <1>3, <1>5, <2>1, Zenon DEF Approved
  <1>8. \A t : Failed(job, t) \in Job
    BY <1>3, <1>5 DEF Failed
  <1>9. Recovered(job) \in Job
    <2>1. \A j \in Job : [j EXCEPT !.attempt = @ + 1] \in Job
      <3>1. \A j \in Job : \A n \in Nat : [j EXCEPT !.attempt = n] \in Job
        BY DEF Job
      <3>2. \A j \in Job : j.attempt + 1 \in Nat
        BY DEF Job
      <3>3. QED
        BY <3>1, <3>2, Zenon
    <2>2. PICK s \in Status : Recovered(job) = [Written(job, s) EXCEPT !.attempt = @ + 1]
      BY <1>5 DEF Recovered
    <2>3. QED
      BY <1>3, <2>1, <2>2, Zenon
  <1>10. [job EXCEPT !.lease = "expired"] \in Job
    BY DEF Job
  <1>11. QED
    BY <1>2, <1>3, <1>7, <1>8, <1>9, <1>10

LEMMA JobFields ==
    ASSUME NEW job \in Job
    PROVE  /\ /\ Claimed(job).status = "running" /\ Claimed(job).attempt = job.attempt + 1
              /\ Claimed(job).claims = job.claims + 1 /\ Claimed(job).source = job.source
           /\ \A s : /\ Written(job, s).status = s /\ Written(job, s).attempt = job.attempt
                     /\ Written(job, s).claims = job.claims
                     /\ Written(job, s).source = job.source
           /\ /\ Approved(job).status = "queued" /\ Approved(job).attempt = job.attempt
              /\ Approved(job).claims = job.claims /\ Approved(job).source = job.source
           /\ \A t \in BOOLEAN :
                 /\ Failed(job, t).status \in {"queued", "failed"}
                 /\ Failed(job, t).status = "queued" => ~t
                 /\ Failed(job, t).attempt = job.attempt
                 /\ Failed(job, t).claims = job.claims /\ Failed(job, t).source = job.source
           /\ /\ Recovered(job).status \in {"queued", "failed"}
              /\ Recovered(job).status = "queued" => job.attempt + 1 < MaxAttempts
              /\ Recovered(job).attempt = job.attempt + 1
              /\ Recovered(job).claims = job.claims /\ Recovered(job).source = job.source
           /\ \A v : LET e == [job EXCEPT !.lease = v] IN
                     /\ e.status = job.status /\ e.attempt = job.attempt
                     /\ e.claims = job.claims /\ e.source = job.source
  <1>1. job.attempt \in Nat /\ job.claims \in Nat /\ MaxAttempts \in Nat
    BY BoundsAssumption DEF Job
  <1>2. /\ Claimed(job).status = "running" /\ Claimed(job).attempt = job.attempt + 1
        /\ Claimed(job).claims = job.claims + 1 /\ Claimed(job).source = job.source
    BY DEF Claimed, Job
  <1>3. \A s : /\ Written(job, s).status = s /\ Written(job, s).attempt = job.attempt
               /\ Written(job, s).claims = job.claims /\ Written(job, s).source = job.source
    BY DEF Written, Job
  <1>5. /\ Approved(job).status = "queued" /\ Approved(job).attempt = job.attempt
        /\ Approved(job).claims = job.claims /\ Approved(job).source = job.source
    BY DEF Approved, Written, Job
  <1>6. ASSUME NEW t \in BOOLEAN
        PROVE  /\ Failed(job, t).status \in {"queued", "failed"}
               /\ Failed(job, t).status = "queued" => ~t
               /\ Failed(job, t).attempt = job.attempt
               /\ Failed(job, t).claims = job.claims /\ Failed(job, t).source = job.source
    <2>1. PICK s \in {"queued", "failed"} :
             Failed(job, t) = Written(job, s) /\ (s = "queued" => ~t)
      BY DEF Failed
    <2>2. QED
      BY <1>3, <2>1
  <1>7. /\ Recovered(job).status \in {"queued", "failed"}
        /\ Recovered(job).status = "queued" => job.attempt + 1 < MaxAttempts
        /\ Recovered(job).attempt = job.attempt + 1
        /\ Recovered(job).claims = job.claims /\ Recovered(job).source = job.source
    <2>1. PICK s \in {"queued", "failed"} :
             /\ Recovered(job) = [Written(job, s) EXCEPT !.attempt = @ + 1]
             /\ s = "queued" => ~(job.attempt + 1 >= MaxAttempts)
      BY DEF Recovered
    <2>2. Written(job, s) \in Job
      BY JobTypes DEF Status
    <2>3. \A j \in Job : LET e == [j EXCEPT !.attempt = @ + 1] IN
             /\ e.status = j.status /\ e.attempt = j.attempt + 1
             /\ e.claims = j.claims /\ e.source = j.source
      BY DEF Job
    <2>4. /\ Recovered(job).status = s /\ Recovered(job).attempt = job.attempt + 1
          /\ Recovered(job).claims = job.claims /\ Recovered(job).source = job.source
      BY <1>3, <2>1, <2>2, <2>3
    <2>5. s = "queued" => job.attempt + 1 < MaxAttempts
      BY <1>1, <2>1
    <2>6. QED
      BY <2>4, <2>5
  <1>8. \A v : LET e == [job EXCEPT !.lease = v] IN
               /\ e.status = job.status /\ e.attempt = job.attempt
               /\ e.claims = job.claims /\ e.source = job.source
    BY DEF Job
  <1>9. QED
    BY <1>2, <1>3, <1>5, <1>6, <1>7, <1>8

LEMMA NewJobTypes ==
    ASSUME NEW id \in Nat, NEW source \in Place, NEW work \in {"none", "download"}
    PROVE  /\ NewJob(id, source, work) \in Job
           /\ NewJob(id, source, work).status = "queued"
           /\ NewJob(id, source, work).claims = 0
           /\ NewJob(id, source, work).attempt = 0
           /\ NewJob(id, source, work).source = source
  BY DEF NewJob, AbsentJob, Job, Status

LEMMA AbsentTypes ==
    /\ AbsentJob \in Job /\ AbsentJob.status = "absent" /\ AbsentJob.claims = 0
    /\ AbsentJob.attempt = 0
    /\ AbsentDownload \in Download /\ AbsentDownload.release = 0
    /\ ~AbsentDownload.imported
  BY PlaceTypes DEF AbsentJob, Job, Status, AbsentDownload, Download

LEMMA UsedTypes ==
    ASSUME used \in UsedRec
    PROVE  /\ LET u == [used EXCEPT !.decides = @ + 1]
              IN u \in UsedRec /\ u.ops = used.ops /\ u.faults = used.faults
                 /\ u.crashes = used.crashes
           /\ LET u == [used EXCEPT !.ops = @ + 1]
              IN u \in UsedRec /\ u.ops = used.ops + 1 /\ u.faults = used.faults
                 /\ u.crashes = used.crashes
           /\ LET u == [used EXCEPT !.faults = @ + 1]
              IN u \in UsedRec /\ u.ops = used.ops /\ u.faults = used.faults + 1
                 /\ u.crashes = used.crashes
           /\ LET u == [used EXCEPT !.crashes = @ + 1]
              IN u \in UsedRec /\ u.ops = used.ops /\ u.faults = used.faults
                 /\ u.crashes = used.crashes + 1
           /\ used.ops \in Nat /\ used.faults \in Nat /\ used.crashes \in Nat
  <1>1. /\ used.decides \in Nat /\ used.ops \in Nat /\ used.faults \in Nat
        /\ used.crashes \in Nat
    BY DEF UsedRec
  <1>2. /\ used.decides + 1 \in Nat /\ used.ops + 1 \in Nat /\ used.faults + 1 \in Nat
        /\ used.crashes + 1 \in Nat
    BY <1>1
  <1>3. \A n \in Nat :
           /\ LET u == [used EXCEPT !.decides = n]
              IN u \in UsedRec /\ u.ops = used.ops /\ u.faults = used.faults
                 /\ u.crashes = used.crashes
           /\ LET u == [used EXCEPT !.ops = n]
              IN u \in UsedRec /\ u.ops = n /\ u.faults = used.faults
                 /\ u.crashes = used.crashes
           /\ LET u == [used EXCEPT !.faults = n]
              IN u \in UsedRec /\ u.ops = used.ops /\ u.faults = n
                 /\ u.crashes = used.crashes
           /\ LET u == [used EXCEPT !.crashes = n]
              IN u \in UsedRec /\ u.ops = used.ops /\ u.faults = used.faults
                 /\ u.crashes = n
    BY DEF UsedRec
  <1>4. QED
    BY <1>1, <1>2, <1>3

-----------------------------------------------------------------------------
(* One actor takes a step.                                                  *)

LEMMA PcNames ==
    /\ {"idle", "scan", "stage", "check", "place", "trash", "bin", "move", "rename",
        "drop", "dup", "record", "review", "fail", "mark", "close", "skip"} \subseteq ActorPc
    /\ Worker \in Actors /\ \A h \in Handlers : h \in Actors /\ h # Worker
  BY ActorsAssumption DEF ActorPc, WorkerPc, HandlerPc, MovingPc, Actors

LEMMA OneMove ==
    ASSUME MovesOK, KnownInv, NEW a \in Actors, NEW p \in ActorPc,
           NEW k \in Downloads \cup {0}, NEW t \in SUBSET Files, NEW m \in Place,
           NEW o \in Action \cup {"none"}, row' \in Job, staged' \subseteq Files,
           pc' = [pc EXCEPT ![a] = p], task' = [task EXCEPT ![a] = k],
           todo' = [todo EXCEPT ![a] = t], aim' = [aim EXCEPT ![a] = m],
           order' = [order EXCEPT ![a] = o],
           p # "idle" => k \in Downloads,
           p \in Holding => t # {},
           p \in Aiming => m.dir = "library"
    PROVE  MovesOK' /\ KnownInv'
  <1>1. MovesOK'
    BY DEF MovesOK
  <1>2. /\ pc'[a] = p /\ task'[a] = k /\ todo'[a] = t /\ aim'[a] = m
        /\ \A b \in Actors : b # a =>
             /\ pc'[b] = pc[b] /\ task'[b] = task[b] /\ todo'[b] = todo[b]
             /\ aim'[b] = aim[b]
    BY DEF MovesOK
  <1>3. ASSUME NEW b \in Actors PROVE Knows(b)'
    <2>1. CASE b = a
      BY <1>2, <2>1 DEF Knows
    <2>2. CASE b # a
      BY <1>2, <2>2 DEF Knows, KnownInv
    <2>3. QED
      BY <2>1, <2>2
  <1>4. QED
    BY <1>1, <1>3 DEF KnownInv

LEMMA AtA ==
    ASSUME MovesOK, KnownInv, NEW a \in Actors
    PROVE  /\ pc[a] \in ActorPc /\ task[a] \in Downloads \cup {0}
           /\ todo[a] \in SUBSET Files /\ aim[a] \in Place
           /\ order[a] \in Action \cup {"none"}
           /\ row \in Job /\ staged \subseteq Files
           /\ pc = [pc EXCEPT ![a] = pc[a]] /\ task = [task EXCEPT ![a] = task[a]]
           /\ todo = [todo EXCEPT ![a] = todo[a]] /\ aim = [aim EXCEPT ![a] = aim[a]]
           /\ order = [order EXCEPT ![a] = order[a]]
           /\ Knows(a)
  BY DEF MovesOK, KnownInv

LEMMA LeaveTyped ==
    ASSUME MovesOK, KnownInv, NEW a \in Actors,
           NEW next \in {"idle", "mark", "review", "fail"},
           next # "idle" => pc[a] # "idle", Leave(a, next)
    PROVE  MovesOK' /\ KnownInv'
  <1>1. next \in ActorPc
    BY PcNames
  <1>2. PICK k \in Downloads \cup {0} :
           /\ k = IF next = "idle" THEN 0 ELSE task[a]
           /\ next # "idle" => k \in Downloads
    BY AtA DEF Knows
  <1>3. row' \in Job /\ staged' \subseteq Files
    BY AtA, AbsentTypes DEF Leave
  <1>4. /\ pc' = [pc EXCEPT ![a] = next] /\ task' = [task EXCEPT ![a] = k]
        /\ todo' = [todo EXCEPT ![a] = {}] /\ aim' = [aim EXCEPT ![a] = NoWhere]
        /\ order' = [order EXCEPT ![a] = "none"]
    <2>1. task' = [task EXCEPT ![a] = IF next = "idle" THEN 0 ELSE task[a]]
      BY DEF Leave
    <2>2. task' = [task EXCEPT ![a] = k]
      BY <1>2, <2>1, Zenon
    <2>3. QED
      BY <2>2 DEF Leave
  <1>5. next \notin Holding /\ next \notin Aiming /\ NoWhere \in Place
    BY PlaceTypes DEF Holding, Aiming
  <1>6. {} \in SUBSET Files /\ "none" \in Action \cup {"none"}
    OBVIOUS
  <1>7. (next # "idle" => k \in Downloads) /\ ~(next \in Holding) /\ ~(next \in Aiming)
    BY <1>2, <1>5
  <1>8. QED
    BY <1>1, <1>3, <1>4, <1>5, <1>6, <1>7, OneMove

LEMMA GiveUpTyped ==
    ASSUME MovesOK, KnownInv, NEW a \in Actors, pc[a] # "idle", GiveUp(a)
    PROVE  MovesOK' /\ KnownInv'
  BY LeaveTyped DEF GiveUp

LEMMA GoTyped ==
    ASSUME MovesOK, KnownInv, NEW a \in Actors, NEW next \in ActorPc, pc[a] # "idle",
           next \in Holding => todo[a] # {},
           next \in Aiming => aim[a].dir = "library",
           Go(a, next)
    PROVE  MovesOK' /\ KnownInv'
  <1>1. row' \in Job /\ staged' \subseteq Files /\ task[a] \in Downloads
    BY AtA DEF Go, Knows
  <1>2. /\ pc' = [pc EXCEPT ![a] = next] /\ task' = [task EXCEPT ![a] = task[a]]
        /\ todo' = [todo EXCEPT ![a] = todo[a]] /\ aim' = [aim EXCEPT ![a] = aim[a]]
        /\ order' = [order EXCEPT ![a] = order[a]]
    BY AtA DEF Go
  <1>3. QED
    BY <1>1, <1>2, AtA, OneMove

LEMMA TowardTyped ==
    ASSUME MovesOK, KnownInv, NEW a \in Actors, NEW next \in ActorPc, pc[a] # "idle",
           next \in Holding => todo[a] # {}, NEW m \in Place,
           next \in Aiming => m.dir = "library",
           Toward(a, m, next)
    PROVE  MovesOK' /\ KnownInv'
  <1>1. row' \in Job /\ staged' \subseteq Files /\ task[a] \in Downloads
    BY AtA DEF Toward, Knows
  <1>2. /\ pc' = [pc EXCEPT ![a] = next] /\ task' = [task EXCEPT ![a] = task[a]]
        /\ todo' = [todo EXCEPT ![a] = todo[a]] /\ aim' = [aim EXCEPT ![a] = m]
        /\ order' = [order EXCEPT ![a] = order[a]]
    BY AtA DEF Toward
  <1>3. QED
    BY <1>1, <1>2, AtA, OneMove

\* An actor with other files to move than before.
Takes(a, next, files) ==
    /\ pc' = [pc EXCEPT ![a] = next]
    /\ todo' = [todo EXCEPT ![a] = files]
    /\ UNCHANGED <<task, aim, order, row>>

LEMMA TakesTyped ==
    ASSUME MovesOK, KnownInv, NEW a \in Actors, NEW next \in ActorPc, pc[a] # "idle",
           NEW files \in SUBSET Files, next \notin Holding,
           next \in Aiming => aim[a].dir = "library",
           Takes(a, next, files), staged' \subseteq Files
    PROVE  MovesOK' /\ KnownInv'
  <1>1. row' \in Job /\ task[a] \in Downloads
    BY AtA DEF Takes, Knows
  <1>2. /\ pc' = [pc EXCEPT ![a] = next] /\ task' = [task EXCEPT ![a] = task[a]]
        /\ todo' = [todo EXCEPT ![a] = files] /\ aim' = [aim EXCEPT ![a] = aim[a]]
        /\ order' = [order EXCEPT ![a] = order[a]]
    BY AtA DEF Takes
  <1>3. QED
    BY <1>1, <1>2, AtA, OneMove

\* The steps of the worker at its files, and of any actor at its own.
WorkerFiles == \/ ScanSource \/ StageFile \/ CheckStaged \/ AllStaged
               \/ PlaceFile \/ ResolveCollision \/ PlaceMissing
HandlerFiles(h) == DecideScan(h) \/ DecidePlace(h)

LEMMA MovesSame == MovesOK /\ KnownInv /\ UNCHANGED moves => MovesOK' /\ KnownInv'
  BY DEF MovesOK, KnownInv, Knows, moves

LEMMA FirstOf ==
    ASSUME MovesOK, NEW a \in Actors, todo[a] # {}
    PROVE  First(todo[a]) \in todo[a] /\ First(todo[a]) \in Files
  BY FirstFile DEF MovesOK

LEMMA WorkerMovesTyped ==
    ASSUME TypeInv, WorkerFiles
    PROVE  MovesOK' /\ KnownInv'
  <1> DEFINE f == First(todo[Worker])
  <1>1. MovesOK /\ KnownInv /\ Worker \in Actors
    BY PcNames DEF TypeInv
  <1>2. FilesAt(row.source) \in SUBSET Files
    BY DEF FilesAt
  <1>3. todo[Worker] # {} => /\ f \in Files /\ Home(f) \in Place /\ Home(f).dir = "library"
                             /\ FreeCopy(Target[f]) \in Place
                             /\ FreeCopy(Target[f]).dir = "library"
    BY <1>1, FirstOf, HomeTypes
  <1>4. todo[Worker] \subseteq Files /\ staged \subseteq Files
    BY <1>1, AtA
  <1>5. {"stage", "place"} \cap Holding = {} /\ {"stage", "place"} \cap Aiming = {}
    BY DEF Holding, Aiming
  <1>6. CASE ScanSource
    <2>1. pc[Worker] = "scan"
      BY <1>6 DEF ScanSource
    <2>2. \/ GiveUp(Worker) \/ Leave(Worker, "review")
          \/ Takes(Worker, "stage", FilesAt(row.source)) /\ UNCHANGED staged
      BY <1>6 DEF ScanSource, Takes
    <2>3. QED
      BY <1>1, <1>2, <1>4, <1>5, <2>1, <2>2, GiveUpTyped, LeaveTyped, TakesTyped, PcNames
  <1>7. CASE StageFile
    <2>1. pc[Worker] = "stage" /\ todo[Worker] # {}
      BY <1>7 DEF StageFile
    <2>2. GiveUp(Worker) \/ Go(Worker, "check")
      BY <1>7 DEF StageFile
    <2>3. "check" \notin Aiming
      BY DEF Aiming
    <2>4. QED
      BY <1>1, <2>1, <2>2, <2>3, GiveUpTyped, GoTyped, PcNames
  <1>8. CASE CheckStaged
    <2>1. pc[Worker] = "check" /\ Takes(Worker, "stage", todo[Worker] \ {f})
      BY <1>1, <1>8, AtA DEF CheckStaged, Takes
    <2>2. todo[Worker] # {}
      BY <1>1, <2>1, AtA DEF Knows, Holding
    <2>3. staged' \subseteq Files
      BY <1>3, <1>4, <1>8, <2>2 DEF CheckStaged
    <2>4. QED
      BY <1>1, <1>4, <1>5, <2>1, <2>3, TakesTyped, PcNames
  <1>9. CASE AllStaged
    <2>1. pc[Worker] = "stage"
      BY <1>9 DEF AllStaged
    <2>2. GiveUp(Worker) \/ (Takes(Worker, "place", staged) /\ staged' = {})
      BY <1>9 DEF AllStaged, Takes
    <2>3. QED
      BY <1>1, <1>4, <1>5, <2>1, <2>2, GiveUpTyped, TakesTyped, PcNames
  <1>10. CASE PlaceFile
    <2>1. pc[Worker] = "place" /\ todo[Worker] # {}
      BY <1>10 DEF PlaceFile
    <2>2. Toward(Worker, Home(f), "move") \/ Go(Worker, "dup")
      BY <1>10 DEF PlaceFile
    <2>3. "dup" \notin Aiming
      BY DEF Aiming
    <2>4. QED
      BY <1>1, <1>3, <2>1, <2>2, <2>3, TowardTyped, GoTyped, PcNames
  <1>11. CASE ResolveCollision
    <2>1. pc[Worker] = "place" /\ todo[Worker] # {}
      BY <1>11 DEF ResolveCollision
    <2>2. \/ Toward(Worker, Home(f), "trash")
          \/ Toward(Worker, FreeCopy(Target[f]), "move") \/ Leave(Worker, "review")
      BY <1>11 DEF ResolveCollision
    <2>3. QED
      BY <1>1, <1>3, <2>1, <2>2, TowardTyped, LeaveTyped, PcNames
  <1>12. CASE PlaceMissing
    BY <1>1, <1>12, GiveUpTyped DEF PlaceMissing, Clash
  <1>13. QED
    BY <1>6, <1>7, <1>8, <1>9, <1>10, <1>11, <1>12 DEF WorkerFiles

LEMMA MoveStepTyped ==
    ASSUME TypeInv, NEW a \in Actors, MoveStep(a)
    PROVE  MovesOK' /\ KnownInv'
  <1> DEFINE f == First(todo[a])
  <1>1. MovesOK /\ KnownInv /\ Knows(a)
    BY AtA DEF TypeInv
  <1>2. todo[a] \ {f} \in SUBSET Files /\ staged \subseteq Files
    BY <1>1, AtA
  <1>3. CASE LookAtPlace(a)
    <2>1. pc[a] = "trash" /\ (Go(a, "move") \/ Go(a, "bin"))
      BY <1>3 DEF LookAtPlace
    <2>2. todo[a] # {} /\ aim[a].dir = "library"
      BY <1>1, <2>1 DEF Knows, Holding, Aiming
    <2>3. QED
      BY <1>1, <2>1, <2>2, GoTyped, PcNames
  <1>4. CASE MoveToTrash(a)
    <2>1. pc[a] = "bin" /\ (Go(a, "move") \/ GiveUp(a))
      BY <1>4 DEF MoveToTrash, Clash
    <2>2. todo[a] # {} /\ aim[a].dir = "library"
      BY <1>1, <2>1 DEF Knows, Holding, Aiming
    <2>3. QED
      BY <1>1, <2>1, <2>2, GoTyped, GiveUpTyped, PcNames
  <1>5. CASE LookBeforeMove(a)
    <2>1. pc[a] = "move" /\ (Go(a, "rename") \/ Go(a, "drop") \/ GiveUp(a))
      BY <1>5 DEF LookBeforeMove, Clash
    <2>2. todo[a] # {} /\ aim[a].dir = "library"
      BY <1>1, <2>1 DEF Knows, Holding, Aiming
    <2>3. QED
      BY <1>1, <2>1, <2>2, GoTyped, GiveUpTyped, PcNames
  <1>6. CASE RenameFile(a)
    <2>1. /\ pc[a] = "rename"
          /\ GiveUp(a) \/ (Takes(a, "record", todo[a] \ {f}) /\ UNCHANGED staged)
      BY <1>1, <1>6, AtA DEF RenameFile, Clash, Takes
    <2>2. aim[a].dir = "library" /\ "record" \notin Holding
      BY <1>1, <2>1 DEF Knows, Holding, Aiming
    <2>3. QED
      BY <1>1, <1>2, <2>1, <2>2, TakesTyped, GiveUpTyped, PcNames
  <1>7. CASE DropDuplicate(a)
    <2>1. PICK p \in {"record", "place"} :
             /\ pc[a] \in {"drop", "dup"} /\ (p = "record" => pc[a] = "drop")
             /\ pc' = [pc EXCEPT ![a] = p]
      BY <1>7 DEF DropDuplicate
    <2>2. Takes(a, p, todo[a] \ {f}) /\ UNCHANGED staged
      BY <1>1, <1>7, <2>1, AtA DEF DropDuplicate, Takes
    <2>3. p \notin Holding /\ (p \in Aiming => aim[a].dir = "library")
      BY <1>1, <2>1 DEF Knows, Holding, Aiming
    <2>4. QED
      BY <1>1, <1>2, <2>1, <2>2, <2>3, TakesTyped, PcNames
  <1>8. CASE RecordItem(a)
    <2>1. pc[a] = "record" /\ Toward(a, NoWhere, "place")
      BY <1>8 DEF RecordItem
    <2>2. "place" \notin Holding /\ "place" \notin Aiming
      BY DEF Holding, Aiming
    <2>3. QED
      BY <1>1, <2>1, <2>2, TowardTyped, PcNames, PlaceTypes
  <1>9. CASE CleanIncoming(a)
    BY <1>1, <1>9, LeaveTyped DEF CleanIncoming
  <1>10. CASE MarkImported(a)
    <2>1. pc[a] = "mark" /\ Go(a, "close")
      BY <1>10 DEF MarkImported
    <2>2. "close" \notin Holding /\ "close" \notin Aiming
      BY DEF Holding, Aiming
    <2>3. QED
      BY <1>1, <2>1, <2>2, GoTyped, PcNames
  <1>11. CASE CloseDownload(a)
    BY <1>1, <1>11, LeaveTyped, GiveUpTyped DEF CloseDownload
  <1>12. QED
    BY <1>3, <1>4, <1>5, <1>6, <1>7, <1>8, <1>9, <1>10, <1>11 DEF MoveStep

LEMMA HandlerMovesTyped ==
    ASSUME TypeInv, NEW h \in Handlers,
           HandlerFiles(h) \/ DecideSkip(h)
             \/ \E d \in Downloads, action \in Action : Decide(h, d, action)
    PROVE  MovesOK' /\ KnownInv'
  <1>1. MovesOK /\ KnownInv /\ h \in Actors /\ h # Worker
    BY PcNames DEF TypeInv
  <1>2. CASE DecideScan(h)
    <2>1. /\ pc[h] = "scan" /\ FilesAt(Incoming(task[h])) \in SUBSET Files
          /\ \/ Leave(h, "idle")
             \/ Takes(h, "place", FilesAt(Incoming(task[h]))) /\ UNCHANGED staged
      BY <1>2 DEF DecideScan, Takes, FilesAt
    <2>2. "place" \notin Holding /\ "place" \notin Aiming /\ staged \subseteq Files
      BY <1>1, AtA DEF Holding, Aiming
    <2>3. QED
      BY <1>1, <2>1, <2>2, LeaveTyped, TakesTyped, PcNames
  <1>3. CASE DecidePlace(h)
    <2> DEFINE f == First(todo[h])
    <2>1. /\ pc[h] = "place" /\ todo[h] # {}
          /\ Toward(h, FreeCopy(Target[f]), "move") \/ Toward(h, Home(f), "trash")
      BY <1>3 DEF DecidePlace
    <2>2. /\ Home(f) \in Place /\ Home(f).dir = "library"
          /\ FreeCopy(Target[f]) \in Place /\ FreeCopy(Target[f]).dir = "library"
      BY <1>1, <2>1, FirstOf, HomeTypes
    <2>3. QED
      BY <1>1, <2>1, <2>2, TowardTyped, PcNames
  <1>4. CASE DecideSkip(h)
    BY <1>1, <1>4, LeaveTyped DEF DecideSkip
  <1>5. ASSUME NEW d \in Downloads, NEW action \in Action, Decide(h, d, action)
        PROVE  MovesOK' /\ KnownInv'
    <2>1. PICK p \in {"skip", "scan"} : pc' = [pc EXCEPT ![h] = p]
      BY <1>5 DEF Decide
    <2>2. /\ task' = [task EXCEPT ![h] = d] /\ order' = [order EXCEPT ![h] = action]
          /\ todo' = [todo EXCEPT ![h] = todo[h]] /\ aim' = [aim EXCEPT ![h] = aim[h]]
          /\ row' \in Job /\ staged' \subseteq Files
      BY <1>1, <1>5, AtA DEF Decide
    <2>3. p \notin Holding /\ p \notin Aiming
      BY <2>1 DEF Holding, Aiming
    <2>4. QED
      BY <1>1, <2>1, <2>2, <2>3, AtA, OneMove, PcNames
  <1>6. QED
    BY <1>2, <1>3, <1>4, <1>5 DEF HandlerFiles

-----------------------------------------------------------------------------
(* The kinds of step there are.                                             *)

LoopStep == \E d \in Downloads : \/ \E r \in Releases : DownloadCompletes(d, r)
                                 \/ LeaseExpires(d)
OrphanStep == (\E d \in Downloads : ReconcileSees(d)) \/ ReconcileCreate \/ ReconcileReview
VerdictStep == MarkNeedsReview \/ MarkFailed
RequestStep(h) == \E d \in Downloads, action \in Action : Decide(h, d, action)

StepKind ==
    \/ LoopStep
    \/ \E d \in Downloads : CreateImport(d) \/ RecoverExpiredLease(d)
    \/ \E d \in Downloads : Approve(d) \/ Retry(d) \/ Skip(d)
    \/ OrphanStep
    \/ \E d \in Downloads : ClaimNextQueued(d)
    \/ WorkerFiles
    \/ VerdictStep
    \/ \E a \in Actors : MoveStep(a)
    \/ \E h \in Handlers : HandlerFiles(h) \/ DecideSkip(h) \/ RequestStep(h)
    \/ \E a \in Actors : ActorFault(a)
    \/ Crash

LEMMA Kinds == Step => StepKind
  BY PcNames DEF Step, StepKind, LoopStep, OrphanStep, VerdictStep, RequestStep, WorkerStep,
     WorkerFiles, CreationStep, ReconcileStep, DecideStep, HandlerFiles

-----------------------------------------------------------------------------
(* What a step counts.                                                      *)

\* How a step counts: only a failing call or a restart disturbs.
UsedStep ==
    /\ used' \in UsedRec
    /\ used.ops <= used'.ops /\ used.faults <= used'.faults
    /\ used.crashes <= used'.crashes
    /\ used'.crashes = used.crashes \/ Crash

LEMMA UsedTrouble ==
    ASSUME used \in UsedRec, Trouble
    PROVE  /\ used' \in UsedRec /\ used'.ops = used.ops
           /\ used'.faults = used.faults + 1 /\ used'.crashes = used.crashes
  BY UsedTypes DEF Trouble

LEMMA UsedSame ==
    ASSUME used \in UsedRec, UNCHANGED used
    PROVE  UsedStep
  BY UsedTypes DEF UsedStep

LEMMA UsedFault ==
    ASSUME used \in UsedRec, Trouble
    PROVE  UsedStep
  <1>1. used.ops \in Nat /\ used.faults \in Nat /\ used.crashes \in Nat
    BY UsedTypes
  <1>2. QED
    BY <1>1, UsedTrouble DEF UsedStep

LEMMA UsedMoves ==
    ASSUME used \in UsedRec, Step
    PROVE  UsedStep
  <1>1. used.ops \in Nat /\ used.faults \in Nat /\ used.crashes \in Nat
    BY UsedTypes
  <1>2. CASE UNCHANGED used \/ Trouble
    BY <1>2, UsedSame, UsedFault
  <1>3. CASE LoopStep \/ \E d \in Downloads : CreateImport(d) \/ RecoverExpiredLease(d)
    BY <1>2, <1>3 DEF LoopStep, DownloadCompletes, LeaseExpires, CreateImport,
       RecoverExpiredLease
  <1>4. CASE \E d \in Downloads : Approve(d) \/ Retry(d) \/ Skip(d)
    <2>1. used' = [used EXCEPT !.ops = @ + 1]
      BY <1>4 DEF Approve, Retry, Skip, Operator
    <2>2. QED
      BY <1>1, <2>1, UsedTypes DEF UsedStep
  <1>5. CASE OrphanStep
    BY <1>2, <1>5 DEF OrphanStep, ReconcileSees, ReconcileCreate, ReconcileReview
  <1>6. CASE VerdictStep
    BY <1>2, <1>6 DEF VerdictStep, MarkNeedsReview, MarkFailed, Discarded
  <1>7. CASE WorkerFiles \/ \E d \in Downloads : ClaimNextQueued(d)
    BY <1>2, <1>7 DEF WorkerFiles, ClaimNextQueued, ScanSource, StageFile, CheckStaged,
       AllStaged, PlaceFile, ResolveCollision, PlaceMissing
  <1>8. CASE \E a \in Actors : MoveStep(a)
    BY <1>2, <1>8 DEF MoveStep, LookAtPlace, MoveToTrash, LookBeforeMove, RenameFile,
       DropDuplicate, RecordItem, CleanIncoming, MarkImported, CloseDownload
  <1>9. CASE \E h \in Handlers : HandlerFiles(h) \/ DecideSkip(h)
    BY <1>2, <1>9 DEF HandlerFiles, DecideScan, DecidePlace, DecideSkip
  <1>10. CASE \E h \in Handlers : RequestStep(h)
    <2>1. used' = [used EXCEPT !.decides = @ + 1]
      BY <1>10 DEF RequestStep, Decide
    <2>2. QED
      BY <1>1, <2>1, UsedTypes DEF UsedStep
  <1>11. CASE \E a \in Actors : ActorFault(a)
    BY <1>2, <1>11 DEF ActorFault
  <1>12. CASE Crash
    <2>1. used' = [used EXCEPT !.crashes = @ + 1]
      BY <1>12 DEF Crash
    <2>2. QED
      BY <1>1, <1>12, <2>1, UsedTypes DEF UsedStep
  <1>13. QED
    BY <1>3, <1>4, <1>5, <1>6, <1>7, <1>8, <1>9, <1>10, <1>11, <1>12, Kinds DEF StepKind

-----------------------------------------------------------------------------
(* What a step does to the import jobs.                                     *)

Busy(d) == orphan.pc # "idle" \/ \E a \in Actors : pc[a] # "idle" /\ task[a] = d

\* A write to a job that is there, or was when the writer took it up.
Kept(d, j) == /\ j.claims = jobs[d].claims /\ j.source = jobs[d].source
              /\ jobs[d].attempt <= j.attempt
              /\ Exists(d) \/ Busy(d)
\* What makes a job queued again: an operator, recovery, the worker's verdict.
Requeued(d, j) ==
    \/ used'.ops = used.ops + 1
    \/ j.attempt = jobs[d].attempt + 1 /\ j.attempt < MaxAttempts
    \/ d = task[Worker] /\ pc[Worker] # "idle" /\ row.attempt < MaxAttempts
Made(d, j) ==
    /\ ~Exists(d) /\ j.status = "queued" /\ j.claims = 0 /\ j.attempt = 0
    /\ \/ dl[d].release # 0 /\ j.source = Source(dl[d].release)
       \/ orphan.pc # "idle" /\ j.source = Incoming(d)
JobWrite(d, j) ==
    \/ Kept(d, j) /\ j.status \notin {"queued", "absent"}
    \/ Kept(d, j) /\ j.status = jobs[d].status
    \/ Kept(d, j) /\ j.status = "queued" /\ Requeued(d, j)
    \/ Made(d, j)
JobsSame == UNCHANGED jobs
JobWritten == \E d \in Downloads, j \in Job : jobs' = [jobs EXCEPT ![d] = j] /\ JobWrite(d, j)
JobClaimed == \E d \in Downloads : ClaimNextQueued(d)
JobsGone == /\ jobs' = [d \in Downloads |-> AbsentJob]
            /\ used'.crashes = used.crashes + 1 /\ used'.ops = used.ops
            /\ pc' = [a \in Actors |-> "idle"]
JobsStep == JobsSame \/ JobWritten \/ JobClaimed \/ JobsGone

LEMMA WrittenKept ==
    ASSUME jobs \in [Downloads -> Job], NEW d \in Downloads, NEW s \in Status,
           Exists(d) \/ Busy(d)
    PROVE  /\ Written(jobs[d], s) \in Job /\ Kept(d, Written(jobs[d], s))
           /\ Written(jobs[d], s).status = s
  <1>1. jobs[d] \in Job /\ jobs[d].attempt \in Nat
    BY DEF Job
  <1>2. /\ Written(jobs[d], s) \in Job /\ Written(jobs[d], s).status = s
        /\ Written(jobs[d], s).claims = jobs[d].claims
        /\ Written(jobs[d], s).attempt = jobs[d].attempt
        /\ Written(jobs[d], s).source = jobs[d].source
    <2>1. Written(jobs[d], s) \in Job
      BY <1>1, JobTypes
    <2>2. QED
      BY <1>1, <2>1, JobFields
  <1>3. QED
    BY <1>1, <1>2 DEF Kept

LEMMA Writes ==
    ASSUME jobs \in [Downloads -> Job], NEW d \in Downloads,
           NEW s \in Status \ {"queued", "absent"}, Exists(d) \/ Busy(d),
           jobs' = [jobs EXCEPT ![d] = Written(@, s)]
    PROVE  JobWritten
  <1>1. PICK j : j = Written(jobs[d], s)
    OBVIOUS
  <1>2. j \in Job /\ Kept(d, j) /\ j.status = s
    BY <1>1, WrittenKept
  <1>3. QED
    BY <1>1, <1>2 DEF JobWritten, JobWrite

LEMMA MakesJob ==
    ASSUME TypeInv, NEW d \in Downloads, NEW source \in Place,
           NEW work \in {"none", "download"}, CreateOrGet(d, source, work),
           \/ dl[d].release # 0 /\ source = Source(dl[d].release)
           \/ orphan.pc # "idle" /\ source = Incoming(d)
    PROVE  JobsSame \/ JobWritten
  <1>1. CASE Exists(d)
    BY <1>1 DEF CreateOrGet, JobsSame
  <1>2. CASE ~Exists(d)
    <2>1. PICK j : j = NewJob(nextJob, source, work)
      OBVIOUS
    <2>2. jobs' = [jobs EXCEPT ![d] = j]
      BY <1>2, <2>1 DEF CreateOrGet
    <2>3. nextJob \in Nat
      BY DEF TypeInv, TablesOK
    <2>4. j \in Job /\ j.status = "queued" /\ j.claims = 0 /\ j.attempt = 0 /\ j.source = source
      BY <2>1, <2>3, NewJobTypes
    <2>5. Made(d, j)
      BY <1>2, <2>4 DEF Made
    <2>6. QED
      BY <2>2, <2>4, <2>5 DEF JobWritten, JobWrite
  <1>3. QED
    BY <1>1, <1>2

LEMMA SourceTypes ==
    ASSUME TypeInv, NEW d \in Downloads
    PROVE  /\ dl[d].release \in Nat /\ dl[d].release \in Releases \cup {0}
           /\ Source(dl[d].release) \in Place /\ Incoming(d) \in Place
           /\ dl[d] \in Download /\ jobs[d] \in Job
  <1>1. dl[d] \in Download /\ jobs[d] \in Job
    BY DEF TypeInv, TablesOK
  <1>2. dl[d].release \in Releases \cup {0} /\ dl[d].release \in Nat /\ d \in Nat
    BY <1>1, FilesAssumption, DownloadsAssumption DEF Download, Releases
  <1>3. QED
    BY <1>1, <1>2, PlaceTypes

LEMMA JobsMove ==
    ASSUME TypeInv, Step
    PROVE  JobsStep
  <1>1. /\ jobs \in [Downloads -> Job] /\ used \in UsedRec
        /\ \A a \in Actors : pc[a] # "idle" => task[a] \in Downloads /\ Busy(task[a])
        /\ Worker \in Actors
    BY PcNames DEF TypeInv, TablesOK, KnownInv, Knows, Busy
  <1>2. {"running", "needs_review", "imported", "failed", "skipped"}
            \subseteq Status \ {"queued", "absent"}
    BY DEF Status
  <1>3. CASE LoopStep
    <2>1. PICK d \in Downloads : \/ \E r \in Releases : DownloadCompletes(d, r)
                                 \/ LeaseExpires(d)
      BY <1>3 DEF LoopStep
    <2>2. CASE LeaseExpires(d)
      <3>1. PICK j : j = [jobs[d] EXCEPT !.lease = "expired"]
        OBVIOUS
      <3>2. jobs' = [jobs EXCEPT ![d] = j]
        <4>1. [jobs EXCEPT ![d].lease = "expired"]
                = [jobs EXCEPT ![d] = [jobs[d] EXCEPT !.lease = "expired"]]
          BY <1>1
        <4>2. QED
          BY <2>2, <3>1, <4>1 DEF LeaseExpires
      <3>3. /\ j \in Job /\ j.claims = jobs[d].claims /\ j.attempt = jobs[d].attempt
            /\ j.status = jobs[d].status /\ j.source = jobs[d].source
        BY <1>1, <3>1, JobTypes, JobFields
      <3>4. jobs[d].attempt \in Nat /\ Exists(d)
        BY <1>1, <2>2 DEF Job, Exists, LeaseExpires
      <3>5. JobWrite(d, j)
        BY <3>3, <3>4 DEF JobWrite, Kept
      <3>6. QED
        BY <3>2, <3>3, <3>5 DEF JobsStep, JobWritten
    <2>3. CASE \E r \in Releases : DownloadCompletes(d, r)
      BY <2>3 DEF DownloadCompletes, JobsStep, JobsSame
    <2>4. QED
      BY <2>1, <2>2, <2>3
  <1>4. ASSUME NEW d \in Downloads, CreateImport(d) PROVE JobsStep
    <2>1. CreateOrGet(d, Source(dl[d].release), "download") /\ dl[d].release # 0
      BY <1>4 DEF CreateImport
    <2>2. QED
      BY <2>1, SourceTypes, MakesJob DEF JobsStep
  <1>5. ASSUME NEW d \in Downloads, RecoverExpiredLease(d) PROVE JobsStep
    <2>1. PICK j : j = Recovered(jobs[d])
      OBVIOUS
    <2>2. jobs' = [jobs EXCEPT ![d] = j] /\ Exists(d)
      BY <1>5, <2>1 DEF RecoverExpiredLease, Exists
    <2>3. /\ j \in Job /\ j.claims = jobs[d].claims /\ j.attempt = jobs[d].attempt + 1
          /\ j.source = jobs[d].source /\ j.status \in {"queued", "failed"}
          /\ j.status = "queued" => jobs[d].attempt + 1 < MaxAttempts
          /\ jobs[d].attempt \in Nat
      BY <1>1, <2>1, JobTypes, JobFields DEF Job
    <2>4. Kept(d, j)
      BY <2>2, <2>3 DEF Kept
    <2>5. JobWrite(d, j)
      BY <2>3, <2>4 DEF JobWrite, Requeued
    <2>6. QED
      BY <2>2, <2>3, <2>5 DEF JobsStep, JobWritten
  <1>6. ASSUME NEW d \in Downloads, Approve(d) \/ Retry(d) \/ Skip(d) PROVE JobsStep
    <2>1. Exists(d) /\ used' = [used EXCEPT !.ops = @ + 1] /\ "queued" \in Status
      BY <1>6 DEF Approve, Retry, Skip, Operator, Status
    <2>2. used'.ops = used.ops + 1
      BY <1>1, <2>1, UsedTypes
    <2>3. CASE Skip(d)
      BY <1>1, <1>2, <2>1, <2>3, Writes DEF Skip, JobsStep
    <2>4. CASE Approve(d)
      <3>1. PICK j : j = Approved(jobs[d])
        OBVIOUS
      <3>2. /\ j \in Job /\ j.status = "queued" /\ j.claims = jobs[d].claims
            /\ j.attempt = jobs[d].attempt /\ j.source = jobs[d].source
            /\ jobs[d].attempt \in Nat
        BY <1>1, <3>1, JobTypes, JobFields DEF Job
      <3>3. JobWrite(d, j)
        BY <2>1, <2>2, <3>2 DEF JobWrite, Kept, Requeued
      <3>4. QED
        BY <2>4, <3>1, <3>2, <3>3 DEF Approve, JobsStep, JobWritten
    <2>5. CASE Retry(d)
      <3>1. PICK j : j = Written(jobs[d], "queued")
        OBVIOUS
      <3>2. j \in Job /\ Kept(d, j) /\ j.status = "queued"
        BY <1>1, <2>1, <3>1, WrittenKept
      <3>3. JobWrite(d, j)
        BY <2>2, <3>2 DEF JobWrite, Requeued
      <3>4. QED
        BY <2>5, <3>1, <3>2, <3>3 DEF Retry, JobsStep, JobWritten
    <2>6. QED
      BY <1>6, <2>3, <2>4, <2>5
  <1>7. CASE OrphanStep
    <2>1. CASE \E d \in Downloads : ReconcileSees(d)
      BY <2>1 DEF ReconcileSees, tables, JobsStep, JobsSame
    <2>2. orphan.pc # "idle" => orphan.job \in Downloads /\ Busy(orphan.job)
      BY DEF TypeInv, OrphanOK, Busy
    <2>3. CASE ReconcileCreate
      <3>1. orphan.pc # "idle"
        BY <2>3 DEF ReconcileCreate
      <3>2. \/ UNCHANGED jobs
            \/ \E work \in {"none", "download"} :
                  CreateOrGet(orphan.job, Incoming(orphan.job), work)
        BY <2>3 DEF ReconcileCreate
      <3>3. QED
        BY <2>2, <3>1, <3>2, SourceTypes, MakesJob DEF JobsStep, JobsSame
    <2>4. CASE ReconcileReview
      <3>1. /\ orphan.pc # "idle"
            /\ \/ UNCHANGED jobs
               \/ jobs' = [jobs EXCEPT ![orphan.job] = Written(@, "needs_review")]
        BY <2>4 DEF ReconcileReview
      <3>2. QED
        BY <1>1, <1>2, <2>2, <3>1, Writes DEF JobsStep, JobsSame
    <2>5. QED
      BY <1>7, <2>1, <2>3, <2>4 DEF OrphanStep
  <1>8. CASE VerdictStep
    <2> DEFINE d == task[Worker]
    <2>1. pc[Worker] # "idle" /\ d \in Downloads /\ Busy(d)
      BY <1>1, <1>8 DEF VerdictStep, MarkNeedsReview, MarkFailed
    <2>2. CASE MarkNeedsReview
      <3>1. UNCHANGED jobs \/ jobs' = [jobs EXCEPT ![d] = Written(@, "needs_review")]
        BY <2>2 DEF MarkNeedsReview, Discarded
      <3>2. QED
        BY <1>1, <1>2, <2>1, <3>1, Writes DEF JobsStep, JobsSame
    <2>3. CASE MarkFailed
      <3>1. PICK t \in BOOLEAN : t = (row.attempt >= MaxAttempts)
        <4>1. (row.attempt >= MaxAttempts) \in BOOLEAN
          OBVIOUS
        <4>2. QED
          BY <4>1, Zenon
      <3>2. PICK j : j = Failed(jobs[d], t)
        OBVIOUS
      <3>3. UNCHANGED jobs \/ jobs' = [jobs EXCEPT ![d] = j]
        BY <2>3, <3>1, <3>2, Zenon DEF MarkFailed, Discarded
      <3>4. /\ j \in Job /\ j.claims = jobs[d].claims /\ j.attempt = jobs[d].attempt
            /\ j.source = jobs[d].source /\ jobs[d].attempt \in Nat
            /\ j.status \in {"queued", "failed"} /\ (j.status = "queued" => ~t)
        <4>1. jobs[d] \in Job /\ jobs[d].attempt \in Nat
          BY <1>1, <2>1 DEF Job
        <4>2. j \in Job
          BY <3>2, <4>1, JobTypes
        <4>3. QED
          BY <3>2, <4>1, <4>2, JobFields
      <3>5. ~t => row.attempt < MaxAttempts
        <4>1. ~t => ~(row.attempt >= MaxAttempts)
          BY <3>1, Zenon
        <4>2. row.attempt \in Nat /\ MaxAttempts \in Nat
          BY BoundsAssumption DEF TypeInv, MovesOK, Job
        <4>3. QED
          BY <4>1, <4>2
      <3>6. Kept(d, j)
        BY <2>1, <3>4 DEF Kept
      <3>7. JobWrite(d, j)
        BY <2>1, <3>4, <3>5, <3>6 DEF JobWrite, Requeued
      <3>8. QED
        BY <2>1, <3>3, <3>4, <3>7 DEF JobsStep, JobsSame, JobWritten
    <2>4. QED
      BY <1>8, <2>2, <2>3 DEF VerdictStep
  <1>9. CASE \E d \in Downloads : ClaimNextQueued(d)
    BY <1>9 DEF JobsStep, JobClaimed
  <1>10. CASE WorkerFiles
    BY <1>10 DEF WorkerFiles, ScanSource, StageFile, CheckStaged, AllStaged, PlaceFile,
       ResolveCollision, PlaceMissing, tables, JobsStep, JobsSame
  <1>11. ASSUME NEW a \in Actors, MoveStep(a) PROVE JobsStep
    <2>1. CASE MarkImported(a)
      <3>1. /\ pc[a] # "idle" /\ jobs' = [jobs EXCEPT ![task[a]] = Written(@, "imported")]
        BY <2>1 DEF MarkImported
      <3>2. QED
        BY <1>1, <1>2, <3>1, Writes DEF JobsStep
    <2>2. CASE ~MarkImported(a)
      BY <1>11, <2>2 DEF MoveStep, LookAtPlace, MoveToTrash, LookBeforeMove, RenameFile,
         DropDuplicate, RecordItem, CleanIncoming, CloseDownload, tables, JobsStep, JobsSame
    <2>3. QED
      BY <2>1, <2>2
  <1>12. ASSUME NEW h \in Handlers, HandlerFiles(h) \/ DecideSkip(h) \/ RequestStep(h)
         PROVE  JobsStep
    <2>1. CASE DecideSkip(h)
      <3>1. /\ pc[h] # "idle" /\ jobs' = [jobs EXCEPT ![task[h]] = Written(@, "skipped")]
            /\ h \in Actors
        BY <2>1, PcNames DEF DecideSkip
      <3>2. QED
        BY <1>1, <1>2, <3>1, Writes DEF JobsStep
    <2>2. CASE HandlerFiles(h) \/ RequestStep(h)
      BY <2>2 DEF HandlerFiles, RequestStep, DecideScan, DecidePlace, Decide, tables,
         JobsStep, JobsSame
    <2>3. QED
      BY <1>12, <2>1, <2>2
  <1>13. CASE \E a \in Actors : ActorFault(a)
    BY <1>13 DEF ActorFault, tables, JobsStep, JobsSame
  <1>14. CASE Crash
    <2>1. used' = [used EXCEPT !.crashes = @ + 1] /\ pc' = [a \in Actors |-> "idle"]
      BY <1>14 DEF Crash
    <2>2. UNCHANGED jobs \/ jobs' = [d \in Downloads |-> AbsentJob]
      BY <1>14 DEF Crash, tables
    <2>3. QED
      BY <1>1, <2>1, <2>2, UsedTypes DEF JobsStep, JobsSame, JobsGone
  <1>15. QED
    BY <1>3, <1>4, <1>5, <1>6, <1>7, <1>8, <1>9, <1>10, <1>11, <1>12, <1>13, <1>14, Kinds
       DEF StepKind

-----------------------------------------------------------------------------
(* What a step does to the files, and the downloads.                        *)

Arrives == \E d \in Downloads, r \in Releases : DownloadCompletes(d, r)
Stages == /\ StageFile
          /\ row.source # Incoming(task[Worker])
          /\ at[First(todo[Worker])] = row.source
          /\ ReleaseOf[First(todo[Worker])] \notin Flat
          /\ pc' = [pc EXCEPT ![Worker] = "check"]
          /\ UNCHANGED <<task, todo, aim, order, row, staged>>
          /\ at' = [at EXCEPT ![First(todo[Worker])] = Incoming(task[Worker])]
Trashes(a) == /\ MoveToTrash(a)
              /\ at' = [g \in Files |-> IF g \in FilesAt(aim[a]) THEN Trash ELSE at[g]]
Lands(a) == /\ RenameFile(a)
            /\ at[First(todo[a])] = Incoming(task[a])
            /\ at' = [g \in Files |-> IF g = First(todo[a]) THEN aim[a]
                                      ELSE IF at[g] = aim[a] THEN Overwritten ELSE at[g]]
Drops(a) == /\ DropDuplicate(a)
            /\ at[First(todo[a])] = Incoming(task[a])
            /\ at' = [at EXCEPT ![First(todo[a])] = Deleted]
Removes(a) == /\ CleanIncoming(a) /\ ~KeepIncoming
              /\ at' = [g \in Files |-> IF at[g] = Incoming(task[a]) THEN Deleted ELSE at[g]]
              /\ dirs' = dirs \ {task[a]}
ActorMoves(a) == Trashes(a) \/ Lands(a) \/ Drops(a) \/ Removes(a)
AtStep == UNCHANGED at \/ Arrives \/ Stages \/ \E a \in Actors : ActorMoves(a)

LEMMA FilesMove == Step => AtStep
  <1> SUFFICES ASSUME Step PROVE AtStep
    OBVIOUS
  <1>1. CASE LoopStep \/ \E d \in Downloads : CreateImport(d) \/ RecoverExpiredLease(d)
    BY <1>1 DEF LoopStep, LeaseExpires, CreateImport, RecoverExpiredLease, disk, AtStep,
       Arrives
  <1>2. CASE \E d \in Downloads : \/ Approve(d) \/ Retry(d) \/ Skip(d)
                                  \/ ClaimNextQueued(d)
    BY <1>2 DEF Approve, Retry, Skip, ClaimNextQueued, disk, AtStep
  <1>3. CASE OrphanStep
    BY <1>3 DEF OrphanStep, ReconcileSees, ReconcileCreate, ReconcileReview, disk, AtStep
  <1>4. CASE WorkerFiles
    <2>1. CASE StageFile
      <3>1. UNCHANGED at \/ Stages
        BY <2>1 DEF StageFile, Stages, Go
      <3>2. QED
        BY <3>1 DEF AtStep
    <2>2. CASE ~StageFile
      BY <1>4, <2>2 DEF WorkerFiles, ScanSource, CheckStaged, AllStaged, PlaceFile,
         ResolveCollision, PlaceMissing, disk, AtStep
    <2>3. QED
      BY <2>1, <2>2
  <1>5. CASE VerdictStep
    BY <1>5 DEF VerdictStep, MarkNeedsReview, MarkFailed, disk, AtStep
  <1>6. ASSUME NEW a \in Actors, MoveStep(a) PROVE AtStep
    <2>1. CASE MoveToTrash(a)
      <3>1. UNCHANGED at \/ Trashes(a)
        BY <2>1 DEF MoveToTrash, Trashes
      <3>2. QED
        BY <3>1 DEF AtStep, ActorMoves
    <2>2. CASE RenameFile(a)
      <3>1. UNCHANGED at \/ Lands(a)
        BY <2>2 DEF RenameFile, Lands
      <3>2. QED
        BY <3>1 DEF AtStep, ActorMoves
    <2>3. CASE DropDuplicate(a)
      <3>1. UNCHANGED at \/ Drops(a)
        BY <2>3 DEF DropDuplicate, Drops
      <3>2. QED
        BY <3>1 DEF AtStep, ActorMoves
    <2>4. CASE CleanIncoming(a)
      <3>1. UNCHANGED at \/ Removes(a)
        BY <2>4 DEF CleanIncoming, RemoveIncoming, Removes, disk
      <3>2. QED
        BY <3>1 DEF AtStep, ActorMoves
    <2>5. CASE LookAtPlace(a) \/ LookBeforeMove(a) \/ RecordItem(a) \/ MarkImported(a)
               \/ CloseDownload(a)
      BY <2>5 DEF LookAtPlace, LookBeforeMove, RecordItem, MarkImported, CloseDownload,
         disk, AtStep
    <2>6. QED
      BY <1>6, <2>1, <2>2, <2>3, <2>4, <2>5 DEF MoveStep
  <1>7. CASE \E h \in Handlers : HandlerFiles(h) \/ DecideSkip(h) \/ RequestStep(h)
    BY <1>7 DEF HandlerFiles, DecideScan, DecidePlace, DecideSkip, RequestStep, Decide,
       disk, AtStep
  <1>8. CASE Crash \/ \E a \in Actors : ActorFault(a)
    BY <1>8 DEF Crash, ActorFault, disk, AtStep
  <1>9. QED
    BY <1>1, <1>2, <1>3, <1>4, <1>5, <1>6, <1>7, <1>8, Kinds DEF StepKind

\* The file an actor has in hand.
LEMMA InHand ==
    ASSUME TypeInv, NEW a \in Actors, pc[a] \in Holding
    PROVE  First(todo[a]) \in todo[a] /\ First(todo[a]) \in Files
  BY FirstOf DEF TypeInv, KnownInv, Knows

LEMMA AtTyped ==
    ASSUME TypeInv, Step
    PROVE  at' \in [Files -> Place]
  <1>1. at \in [Files -> Place] /\ MovesOK
    BY DEF TypeInv, DiskOK
  <1>2. CASE Arrives
    <2>1. PICK r \in Releases :
             at' = [f \in Files |-> IF ReleaseOf[f] = r THEN Source(r) ELSE at[f]]
      BY <1>2 DEF Arrives, DownloadCompletes
    <2>2. Source(r) \in Place
      BY PlaceTypes, FilesAssumption DEF Releases
    <2>3. QED
      BY <1>1, <2>1, <2>2
  <1>3. CASE Stages
    <2>1. Incoming(task[Worker]) \in Place
      <3>1. task[Worker] \in Nat
        <4>1. task[Worker] \in Downloads \cup {0}
          BY <1>1, PcNames DEF MovesOK
        <4>2. \A k \in Downloads : k \in Nat
          BY DownloadsAssumption
        <4>3. QED
          BY <4>1, <4>2
      <3>2. QED
        BY <3>1, PlaceTypes
    <2>2. QED
      BY <1>1, <1>3, <2>1 DEF Stages
  <1>4. ASSUME NEW a \in Actors, ActorMoves(a) PROVE at' \in [Files -> Place]
    <2>1. aim[a] \in Place
      BY <1>1 DEF MovesOK
    <2>2. QED
      BY <1>1, <1>4, <2>1, PlaceTypes DEF ActorMoves, Trashes, Lands, Drops, Removes
  <1>5. QED
    BY <1>1, <1>2, <1>3, <1>4, FilesMove DEF AtStep

LEMMA ItemsMove == Step => UNCHANGED items \/ Crash \/ \E a \in Actors : RecordItem(a)
  <1> SUFFICES ASSUME Step, ~Crash, \A a \in Actors : ~RecordItem(a) PROVE UNCHANGED items
    OBVIOUS
  <1>1. CASE \E a \in Actors : MoveStep(a)
    BY <1>1 DEF MoveStep, LookAtPlace, MoveToTrash, LookBeforeMove, RenameFile,
       DropDuplicate, CleanIncoming, MarkImported, CloseDownload
  <1>2. CASE WorkerFiles \/ VerdictStep \/ OrphanStep \/ \E a \in Actors : ActorFault(a)
    BY <1>2 DEF WorkerFiles, ScanSource, StageFile, CheckStaged, AllStaged,
       PlaceFile, ResolveCollision, PlaceMissing, VerdictStep, MarkNeedsReview,
       MarkFailed, OrphanStep, ReconcileSees, ReconcileCreate, ReconcileReview, ActorFault
  <1>3. CASE LoopStep \/ \E h \in Handlers :
                            HandlerFiles(h) \/ DecideSkip(h) \/ RequestStep(h)
    BY <1>3 DEF LoopStep, DownloadCompletes, LeaseExpires, HandlerFiles,
       DecideScan, DecidePlace, DecideSkip, RequestStep, Decide
  <1>4. CASE \E d \in Downloads : \/ CreateImport(d) \/ RecoverExpiredLease(d)
                                  \/ Approve(d) \/ Retry(d) \/ Skip(d)
                                  \/ ClaimNextQueued(d)
    BY <1>4 DEF CreateImport, RecoverExpiredLease, Approve, Retry, Skip, ClaimNextQueued
  <1>5. QED
    BY <1>1, <1>2, <1>3, <1>4, Kinds DEF StepKind

LEMMA DiskTyped ==
    ASSUME TypeInv, Step
    PROVE  DiskOK'
  <1>1. DiskOK /\ MovesOK /\ KnownInv
    BY DEF TypeInv
  <1>2. pc[Worker] # "idle" => task[Worker] \in Downloads
    BY <1>1, PcNames DEF KnownInv, Knows
  <1>3. dirs' \subseteq dirs \cup Downloads
    <2>1. CASE WorkerFiles
      BY <1>1, <1>2, <2>1 DEF WorkerFiles, ScanSource, StageFile, CheckStaged, AllStaged,
         PlaceFile, ResolveCollision, PlaceMissing, disk
    <2>2. CASE \E a \in Actors : MoveStep(a)
      BY <2>2 DEF MoveStep, LookAtPlace, MoveToTrash, LookBeforeMove, RenameFile,
         DropDuplicate, RecordItem, CleanIncoming, RemoveIncoming, MarkImported,
         CloseDownload, disk
    <2>3. CASE \E h \in Handlers : HandlerFiles(h) \/ DecideSkip(h) \/ RequestStep(h)
      BY <2>3 DEF HandlerFiles, DecideScan, DecidePlace, DecideSkip, RequestStep, Decide,
         disk
    <2>4. CASE OrphanStep \/ VerdictStep
      BY <2>4 DEF OrphanStep, ReconcileSees, ReconcileCreate, ReconcileReview,
         VerdictStep, MarkNeedsReview, MarkFailed, disk
    <2>5. CASE LoopStep \/ \E d \in Downloads : CreateImport(d) \/ RecoverExpiredLease(d)
      BY <2>5 DEF LoopStep, DownloadCompletes, LeaseExpires, CreateImport,
         RecoverExpiredLease, disk
    <2>6. CASE \E d \in Downloads : \/ Approve(d) \/ Retry(d) \/ Skip(d)
                                    \/ ClaimNextQueued(d)
      BY <2>6 DEF Approve, Retry, Skip, ClaimNextQueued, disk
    <2>7. CASE Crash \/ \E a \in Actors : ActorFault(a)
      BY <2>7 DEF Crash, ActorFault, disk
    <2>8. QED
      BY <2>1, <2>2, <2>3, <2>4, <2>5, <2>6, <2>7, Kinds DEF StepKind
  <1>4. items' \subseteq Place
    <2>1. CASE \E a \in Actors : RecordItem(a)
      <3>1. PICK a \in Actors : RecordItem(a)
        BY <2>1
      <3>2. aim[a] \in Place /\ items' \subseteq items \cup {aim[a]}
        BY <1>1, <3>1 DEF RecordItem, MovesOK
      <3>3. QED
        BY <1>1, <3>2 DEF DiskOK
    <2>2. CASE Crash
      BY <1>1, <2>2 DEF Crash, DiskOK
    <2>3. QED
      BY <1>1, <2>1, <2>2, ItemsMove DEF DiskOK
  <1>5. QED
    BY <1>1, <1>3, <1>4, AtTyped DEF DiskOK

\* A download row changes when it completes, and when it is closed.
Closes(a) == /\ pc[a] = "close" /\ CloseDownload(a)
             /\ dl[task[a]].release # 0
             /\ dl' = [dl EXCEPT ![task[a]].imported = TRUE]
DlStep == \/ UNCHANGED dl
          \/ Arrives
          \/ \E a \in Actors : Closes(a)
          \/ Crash /\ dl' = [d \in Downloads |-> AbsentDownload]

LEMMA DownloadsMove == Step => DlStep
  <1> SUFFICES ASSUME Step PROVE DlStep
    OBVIOUS
  <1>1. CASE LoopStep \/ \E d \in Downloads : CreateImport(d) \/ RecoverExpiredLease(d)
    BY <1>1 DEF LoopStep, LeaseExpires, CreateImport, RecoverExpiredLease, DlStep, Arrives
  <1>2. CASE \E d \in Downloads : \/ Approve(d) \/ Retry(d) \/ Skip(d)
                                  \/ ClaimNextQueued(d)
    BY <1>2 DEF Approve, Retry, Skip, ClaimNextQueued, DlStep
  <1>3. CASE OrphanStep \/ VerdictStep
    BY <1>3 DEF OrphanStep, ReconcileSees, ReconcileCreate, ReconcileReview, VerdictStep,
       MarkNeedsReview, MarkFailed, tables, DlStep
  <1>4. CASE WorkerFiles
    BY <1>4 DEF WorkerFiles, ScanSource, StageFile, CheckStaged, AllStaged, PlaceFile,
       ResolveCollision, PlaceMissing, tables, DlStep
  <1>5. ASSUME NEW a \in Actors, MoveStep(a) PROVE DlStep
    <2>1. CASE CloseDownload(a)
      <3>1. UNCHANGED dl \/ Closes(a)
        BY <2>1 DEF CloseDownload, Closes
      <3>2. QED
        BY <3>1 DEF DlStep
    <2>2. CASE ~CloseDownload(a)
      BY <1>5, <2>2 DEF MoveStep, LookAtPlace, MoveToTrash, LookBeforeMove, RenameFile,
         DropDuplicate, RecordItem, CleanIncoming, MarkImported, tables, DlStep
    <2>3. QED
      BY <2>1, <2>2
  <1>6. CASE \E h \in Handlers : HandlerFiles(h) \/ DecideSkip(h) \/ RequestStep(h)
    BY <1>6 DEF HandlerFiles, DecideScan, DecidePlace, DecideSkip, RequestStep, Decide,
       tables, DlStep
  <1>7. CASE \E a \in Actors : ActorFault(a)
    BY <1>7 DEF ActorFault, tables, DlStep
  <1>8. CASE Crash
    BY <1>8 DEF Crash, tables, DlStep
  <1>9. QED
    BY <1>1, <1>2, <1>3, <1>4, <1>5, <1>6, <1>7, <1>8, Kinds DEF StepKind

LEMMA NextJobTyped ==
    ASSUME TypeInv, Step
    PROVE  nextJob' \in Nat
  <1>1. nextJob \in Nat /\ nextJob + 1 \in Nat
    BY DEF TypeInv, TablesOK
  <1>2. CASE OrphanStep \/ VerdictStep \/ Crash \/ \E d \in Downloads : CreateImport(d)
    BY <1>1, <1>2 DEF OrphanStep, ReconcileSees, ReconcileCreate, ReconcileReview,
       VerdictStep, MarkNeedsReview, MarkFailed, Crash, CreateImport, CreateOrGet, tables
  <1>3. CASE LoopStep \/ \E d \in Downloads : \/ RecoverExpiredLease(d) \/ Approve(d)
                                              \/ Retry(d) \/ Skip(d) \/ ClaimNextQueued(d)
    BY <1>1, <1>3 DEF LoopStep, DownloadCompletes, LeaseExpires, RecoverExpiredLease,
       Approve, Retry, Skip, ClaimNextQueued
  <1>4. CASE WorkerFiles
    BY <1>1, <1>4 DEF WorkerFiles, ScanSource, StageFile, CheckStaged, AllStaged, PlaceFile,
       ResolveCollision, PlaceMissing, tables
  <1>5. CASE \E a \in Actors : MoveStep(a) \/ ActorFault(a)
    BY <1>1, <1>5 DEF MoveStep, LookAtPlace, MoveToTrash, LookBeforeMove, RenameFile,
         DropDuplicate, RecordItem, CleanIncoming, MarkImported, CloseDownload, ActorFault,
         tables
  <1>6. CASE \E h \in Handlers : HandlerFiles(h) \/ DecideSkip(h) \/ RequestStep(h)
    BY <1>1, <1>6 DEF HandlerFiles, DecideScan, DecidePlace, DecideSkip, RequestStep, Decide,
       tables
  <1>7. QED
    BY <1>2, <1>3, <1>4, <1>5, <1>6, Kinds DEF StepKind

LEMMA TablesTyped ==
    ASSUME TypeInv, Step
    PROVE  TablesOK'
  <1>1. /\ dl \in [Downloads -> Download] /\ jobs \in [Downloads -> Job]
        /\ \A a \in Actors : pc[a] # "idle" => task[a] \in Downloads
    BY DEF TypeInv, TablesOK, KnownInv, Knows
  <1>2. jobs' \in [Downloads -> Job]
    <2>1. CASE JobClaimed
      <3>1. PICK d \in Downloads : jobs' = [jobs EXCEPT ![d] = Claimed(@)]
        BY <2>1 DEF JobClaimed, ClaimNextQueued
      <3>2. QED
        BY <1>1, <3>1, JobTypes
    <2>2. QED
      BY <1>1, <2>1, JobsMove, AbsentTypes DEF JobsStep, JobsSame, JobWritten, JobsGone
  <1>3. dl' \in [Downloads -> Download]
    <2>1. CASE Arrives
      <3>1. PICK d \in Downloads, r \in Releases :
               dl' = [dl EXCEPT ![d] = [release |-> r, imported |-> FALSE,
                                upgrade |-> IF Durable THEN "ask" ELSE UpgradeOf[r]]]
        BY <2>1 DEF Arrives, DownloadCompletes
      <3>2. PICK u \in {"ask", "replace", "keep_both"} :
               u = IF Durable THEN "ask" ELSE UpgradeOf[r]
        BY UpgradeAssumption
      <3>3. dl' = [dl EXCEPT ![d] = [release |-> r, imported |-> FALSE, upgrade |-> u]]
        BY <3>1, <3>2, Zenon
      <3>4. [release |-> r, imported |-> FALSE, upgrade |-> u] \in Download
        BY DEF Download
      <3>5. QED
        BY <1>1, <3>3, <3>4
    <2>2. ASSUME NEW a \in Actors, Closes(a) PROVE dl' \in [Downloads -> Download]
      <3>1. task[a] \in Downloads
        BY <1>1, <2>2 DEF Closes
      <3>2. [dl[task[a]] EXCEPT !.imported = TRUE] \in Download
        BY <1>1, <3>1 DEF Download
      <3>3. dl' = [dl EXCEPT ![task[a]] = [dl[task[a]] EXCEPT !.imported = TRUE]]
        BY <1>1, <2>2, <3>1 DEF Closes
      <3>4. QED
        BY <1>1, <3>2, <3>3
    <2>3. QED
      BY <1>1, <2>1, <2>2, DownloadsMove, AbsentTypes DEF DlStep
  <1>4. QED
    BY <1>2, <1>3, NextJobTyped DEF TablesOK

LEMMA MovesTyped ==
    ASSUME TypeInv, Step
    PROVE  MovesOK' /\ KnownInv'
  <1>1. MovesOK /\ KnownInv
    BY DEF TypeInv
  <1>2. CASE LoopStep \/ OrphanStep
    BY <1>1, <1>2, MovesSame DEF LoopStep, DownloadCompletes, LeaseExpires, OrphanStep,
       ReconcileSees, ReconcileCreate, ReconcileReview
  <1>3. CASE \E d \in Downloads : \/ CreateImport(d) \/ RecoverExpiredLease(d)
                                  \/ Approve(d) \/ Retry(d) \/ Skip(d)
    BY <1>1, <1>3, MovesSame DEF CreateImport, RecoverExpiredLease, Approve, Retry, Skip
  <1>4. ASSUME NEW d \in Downloads, ClaimNextQueued(d) PROVE MovesOK' /\ KnownInv'
    <2>1. /\ pc' = [pc EXCEPT ![Worker] = "scan"] /\ task' = [task EXCEPT ![Worker] = d]
          /\ row' = Claimed(jobs[d]) /\ UNCHANGED <<todo, aim, order, staged>>
      BY <1>4 DEF ClaimNextQueued
    <2>2. row' \in Job
      BY <2>1, SourceTypes, JobTypes
    <2>3. Worker \in Actors /\ "scan" \in ActorPc
      BY PcNames
    <2>4. /\ todo' = [todo EXCEPT ![Worker] = todo[Worker]]
          /\ aim' = [aim EXCEPT ![Worker] = aim[Worker]]
          /\ order' = [order EXCEPT ![Worker] = order[Worker]]
          /\ staged' \subseteq Files
      BY <1>1, <2>1, <2>3, AtA
    <2>5. "scan" \notin Holding /\ "scan" \notin Aiming
      BY DEF Holding, Aiming
    <2>6. /\ todo[Worker] \in SUBSET Files /\ aim[Worker] \in Place
          /\ order[Worker] \in Action \cup {"none"} /\ d \in Downloads \cup {0}
      BY <1>1, <2>3, AtA
    <2>7. /\ pc' = [pc EXCEPT ![Worker] = "scan"] /\ task' = [task EXCEPT ![Worker] = d]
          /\ ~("scan" \in Holding) /\ ~("scan" \in Aiming)
      BY <2>1, <2>5
    <2>8. \A p \in ActorPc : p = "scan" => MovesOK' /\ KnownInv'
      <3> SUFFICES ASSUME NEW p \in ActorPc, p = "scan" PROVE MovesOK' /\ KnownInv'
        OBVIOUS
      <3>1. QED
        BY <1>1, <2>2, <2>3, <2>4, <2>6, <2>7, OneMove
    <2>9. QED
      BY <2>3, <2>8
  <1>5. CASE VerdictStep
    BY <1>1, <1>5, LeaveTyped, PcNames DEF VerdictStep, MarkNeedsReview, MarkFailed
  <1>6. CASE \E h \in Handlers : HandlerFiles(h) \/ DecideSkip(h) \/ RequestStep(h)
    BY <1>6, HandlerMovesTyped DEF RequestStep
  <1>7. CASE \E a \in Actors : ActorFault(a)
    BY <1>1, <1>7, GiveUpTyped DEF ActorFault
  <1>8. CASE Crash
    <2>1. /\ pc' = [a \in Actors |-> "idle"] /\ task' = [a \in Actors |-> 0]
          /\ todo' = [a \in Actors |-> {}] /\ aim' = [a \in Actors |-> NoWhere]
          /\ order' = [a \in Actors |-> "none"] /\ row' = AbsentJob /\ staged' = {}
      BY <1>8 DEF Crash
    <2>2. MovesOK'
      BY <2>1, PcNames, PlaceTypes, AbsentTypes DEF MovesOK
    <2>3. KnownInv'
      BY <2>1 DEF KnownInv, Knows, Holding, Aiming
    <2>4. QED
      BY <2>2, <2>3
  <1>9. QED
    BY <1>2, <1>3, <1>4, <1>5, <1>6, <1>7, <1>8, WorkerMovesTyped, MoveStepTyped, Kinds
       DEF StepKind

LEMMA OrphanTyped ==
    ASSUME TypeInv, Step
    PROVE  OrphanOK'
  <1>1. OrphanOK
    BY DEF TypeInv
  <1>2. CASE UNCHANGED orphan
    BY <1>1, <1>2 DEF OrphanOK
  <1>3. CASE orphan' = NoOrphan
    BY <1>3 DEF OrphanOK, NoOrphan
  <1>4. CASE OrphanStep
    <2>1. ASSUME NEW d \in Downloads, ReconcileSees(d) PROVE OrphanOK'
      <3>1. orphan' = [pc |-> "seen", job |-> d]
        BY <2>1 DEF ReconcileSees
      <3>2. QED
        BY <3>1 DEF OrphanOK
    <2>2. CASE ReconcileCreate /\ orphan' # NoOrphan
      <3>1. orphan' = [orphan EXCEPT !.pc = "made"] /\ orphan.pc = "seen"
        BY <2>2 DEF ReconcileCreate
      <3>2. QED
        BY <1>1, <3>1 DEF OrphanOK
    <2>3. CASE ReconcileReview
      BY <1>3, <2>3 DEF ReconcileReview
    <2>4. QED
      BY <1>3, <1>4, <2>1, <2>2, <2>3 DEF OrphanStep
  <1>5. CASE Crash
    BY <1>3, <1>5 DEF Crash
  <1>6. CASE LoopStep \/ VerdictStep
    BY <1>2, <1>6 DEF LoopStep, DownloadCompletes, LeaseExpires, VerdictStep,
       MarkNeedsReview, MarkFailed
  <1>7. CASE \E d \in Downloads : \/ CreateImport(d) \/ RecoverExpiredLease(d)
                                  \/ Approve(d) \/ Retry(d) \/ Skip(d)
                                  \/ ClaimNextQueued(d)
    BY <1>2, <1>7 DEF CreateImport, RecoverExpiredLease, Approve, Retry, Skip,
       ClaimNextQueued
  <1>8. CASE WorkerFiles
    BY <1>2, <1>8 DEF WorkerFiles, ScanSource, StageFile, CheckStaged, AllStaged, PlaceFile,
       ResolveCollision, PlaceMissing
  <1>9. CASE \E a \in Actors : MoveStep(a) \/ ActorFault(a)
    BY <1>2, <1>9 DEF MoveStep, LookAtPlace, MoveToTrash, LookBeforeMove, RenameFile,
         DropDuplicate, RecordItem, CleanIncoming, MarkImported, CloseDownload, ActorFault
  <1>10. CASE \E h \in Handlers : HandlerFiles(h) \/ DecideSkip(h) \/ RequestStep(h)
    BY <1>2, <1>10 DEF HandlerFiles, DecideScan, DecidePlace, DecideSkip, RequestStep, Decide
  <1>11. QED
    BY <1>4, <1>5, <1>6, <1>7, <1>8, <1>9, <1>10, Kinds DEF StepKind

\* A move that failed, with its download.
LEMMA ClashTyped ==
    ASSUME TypeInv, NEW a \in Actors, pc[a] # "idle",
           Clash(a) \/ UNCHANGED clashed
    PROVE  clashed' \subseteq Downloads
  BY DEF TypeInv, HistoryOK, KnownInv, Knows, Clash

LEMMA HistoryTyped ==
    ASSUME TypeInv, Step, Watch
    PROVE  HistoryOK'
  <1>1. HistoryOK /\ MovesOK /\ OrphanOK
    BY DEF TypeInv
  <1>2. raced' \subseteq Downloads
    BY <1>1 DEF Watch, HistoryOK
  <1>3. CASE UNCHANGED history
    BY <1>1, <1>2, <1>3 DEF HistoryOK, history
  <1>4. CASE LoopStep \/ VerdictStep
    BY <1>3, <1>4 DEF LoopStep, DownloadCompletes, LeaseExpires, VerdictStep,
       MarkNeedsReview, MarkFailed
  <1>5. CASE \E d \in Downloads : \/ CreateImport(d) \/ RecoverExpiredLease(d)
                                  \/ Approve(d) \/ Retry(d) \/ Skip(d)
    BY <1>3, <1>5 DEF CreateImport, RecoverExpiredLease, Approve, Retry, Skip
  <1>6. ASSUME NEW d \in Downloads, ClaimNextQueued(d) PROVE HistoryOK'
    BY <1>1, <1>2, <1>6 DEF ClaimNextQueued, HistoryOK
  <1>7. CASE OrphanStep
    <2>1. orphan.pc # "idle" => orphan.job \in Downloads
      BY <1>1 DEF OrphanOK
    <2>2. QED
      BY <1>1, <1>2, <1>7, <2>1 DEF OrphanStep, ReconcileSees, ReconcileCreate,
         ReconcileReview, HistoryOK, history
  <1>8. CASE WorkerFiles
    <2>1. CASE PlaceMissing
      <3>1. clashed' \subseteq Downloads
        BY <2>1, ClashTyped, PcNames DEF PlaceMissing
      <3>2. QED
        BY <1>1, <1>2, <2>1, <3>1 DEF PlaceMissing, HistoryOK
    <2>2. CASE ~PlaceMissing
      BY <1>3, <1>8, <2>2 DEF WorkerFiles, ScanSource, StageFile, CheckStaged, AllStaged,
         PlaceFile, ResolveCollision
    <2>3. QED
      BY <2>1, <2>2
  <1>9. ASSUME NEW a \in Actors, MoveStep(a) PROVE HistoryOK'
    <2>1. CASE MoveToTrash(a) \/ LookBeforeMove(a)
      <3>1. pc[a] # "idle" /\ (Clash(a) \/ UNCHANGED clashed)
        BY <2>1 DEF MoveToTrash, LookBeforeMove
      <3>2. UNCHANGED <<exposed, passed>>
        BY <2>1 DEF MoveToTrash, LookBeforeMove
      <3>3. QED
        BY <1>1, <1>2, <3>1, <3>2, ClashTyped DEF HistoryOK
    <2>2. CASE RenameFile(a)
      <3>1. /\ pc[a] = "rename" /\ (Clash(a) \/ UNCHANGED clashed) /\ UNCHANGED passed
            /\ exposed' \subseteq exposed \cup {First(todo[a])}
        BY <2>2 DEF RenameFile
      <3>2. First(todo[a]) \in Files
        BY <3>1, InHand DEF Holding
      <3>3. clashed' \subseteq Downloads
        BY <3>1, ClashTyped
      <3>4. QED
        BY <1>1, <1>2, <3>1, <3>2, <3>3 DEF HistoryOK
    <2>3. CASE \/ LookAtPlace(a) \/ DropDuplicate(a) \/ RecordItem(a) \/ CleanIncoming(a)
               \/ MarkImported(a) \/ CloseDownload(a)
      BY <1>3, <2>3 DEF LookAtPlace, DropDuplicate, RecordItem, CleanIncoming, MarkImported,
         CloseDownload
    <2>4. QED
      BY <1>9, <2>1, <2>2, <2>3 DEF MoveStep
  <1>10. CASE \E h \in Handlers : HandlerFiles(h) \/ DecideSkip(h) \/ RequestStep(h)
    BY <1>3, <1>10 DEF HandlerFiles, DecideScan, DecidePlace, DecideSkip, RequestStep, Decide
  <1>11. CASE \E a \in Actors : ActorFault(a)
    BY <1>3, <1>11 DEF ActorFault
  <1>12. CASE Crash
    BY <1>1, <1>2, <1>12 DEF Crash, HistoryOK
  <1>13. QED
    BY <1>4, <1>5, <1>6, <1>7, <1>8, <1>9, <1>10, <1>11, <1>12, Kinds DEF StepKind

LEMMA TypeStep == TypeInv /\ [Next]_vars => TypeInv'
  <1> SUFFICES ASSUME TypeInv, [Next]_vars PROVE TypeInv'
    OBVIOUS
  <1>1. CASE Step /\ Watch
    <2>1. store' \in Stores
      BY <1>1 DEF TypeInv, Watch
    <2>2. used' \in UsedRec
      BY <1>1, UsedMoves DEF TypeInv, UsedStep
    <2>3. QED
      BY <1>1, <2>1, <2>2, TablesTyped, DiskTyped, MovesTyped, OrphanTyped, HistoryTyped
         DEF TypeInv
  <1>2. CASE UNCHANGED vars
    BY <1>2 DEF vars, tables, disk, moves, history, TypeInv, TablesOK, DiskOK, MovesOK,
       OrphanOK, HistoryOK, KnownInv, Knows
  <1>3. QED
    BY <1>1, <1>2 DEF Next

LEMMA TypeInit == Init => TypeInv
  <1> SUFFICES ASSUME Init PROVE TypeInv
    OBVIOUS
  <1>1. TablesOK /\ DiskOK
    BY AbsentTypes, PlaceTypes DEF Init, TablesOK, DiskOK
  <1>2. MovesOK /\ KnownInv
    BY PcNames, PlaceTypes, AbsentTypes DEF Init, MovesOK, KnownInv, Knows, Holding, Aiming
  <1>3. OrphanOK /\ HistoryOK /\ used \in UsedRec
    BY DEF Init, OrphanOK, NoOrphan, HistoryOK, UsedRec
  <1>4. QED
    BY <1>1, <1>2, <1>3 DEF TypeInv, Init

LEMMA Typed == Spec => []TypeInv
  BY TypeInit, TypeStep, PTL DEF Spec

\* The tables, the files and what each actor has in hand keep their types.
THEOREM TypeCorrect == Spec => []TypeOK
  BY Typed, TypeInvTypes, PTL

-----------------------------------------------------------------------------
(* A step is one actor's, or nobody's, or a restart.                        *)

Acts(b) ==
    \/ MoveStep(b)
    \/ ActorFault(b)
    \/ b = Worker /\ (JobClaimed \/ WorkerFiles \/ VerdictStep)
    \/ b \in Handlers /\ (HandlerFiles(b) \/ DecideSkip(b) \/ RequestStep(b))
\* All but the first step of an actor have one of these forms.
Form(a) ==
    \/ \E next : Leave(a, next) \/ Go(a, next)
    \/ \E place, next : Toward(a, place, next)
    \/ \E next, files : Takes(a, next, files) /\ (a # Worker => UNCHANGED staged)
Starts(a) == \/ a = Worker /\ JobClaimed
             \/ a \in Handlers /\ RequestStep(a)
Still(b) ==
    /\ pc'[b] = pc[b] /\ task'[b] = task[b] /\ todo'[b] = todo[b] /\ aim'[b] = aim[b]
    /\ b = Worker => row' = row /\ staged' = staged

LEMMA Whose ==
    ASSUME Step
    PROVE  UNCHANGED moves \/ Crash \/ \E a \in Actors : Acts(a)
  <1>1. CASE LoopStep \/ OrphanStep
    BY <1>1 DEF LoopStep, DownloadCompletes, LeaseExpires, OrphanStep,
       ReconcileSees, ReconcileCreate, ReconcileReview
  <1>2. CASE \E d \in Downloads : \/ CreateImport(d) \/ RecoverExpiredLease(d)
                                  \/ Approve(d) \/ Retry(d) \/ Skip(d)
    BY <1>2 DEF CreateImport, RecoverExpiredLease, Approve, Retry, Skip
  <1>3. CASE \/ JobClaimed \/ WorkerFiles \/ VerdictStep
             \/ \E a \in Actors : MoveStep(a) \/ ActorFault(a)
             \/ \E h \in Handlers : HandlerFiles(h) \/ DecideSkip(h) \/ RequestStep(h)
    BY <1>3, PcNames DEF Acts
  <1>4. QED
    BY <1>1, <1>2, <1>3, Kinds DEF StepKind, JobClaimed

LEMMA MoveForms ==
    ASSUME MovesOK, NEW a \in Actors, MoveStep(a) \/ ActorFault(a)
    PROVE  pc[a] # "idle" /\ Form(a)
  <1>1. CASE LookAtPlace(a) \/ MoveToTrash(a) \/ LookBeforeMove(a)
    BY <1>1 DEF LookAtPlace, MoveToTrash, LookBeforeMove, Clash, GiveUp, Form
  <1>2. CASE RenameFile(a)
    <2>1. GiveUp(a) \/ \E next, files : Takes(a, next, files) /\ UNCHANGED staged
      BY <1>2 DEF MovesOK, RenameFile, Clash, Takes
    <2>2. QED
      BY <1>2, <2>1 DEF RenameFile, GiveUp, Form
  <1>3. CASE DropDuplicate(a)
    <2>1. \E next, files : Takes(a, next, files) /\ UNCHANGED staged
      BY <1>3 DEF MovesOK, DropDuplicate, Takes
    <2>2. QED
      BY <1>3, <2>1 DEF DropDuplicate, Form
  <1>4. CASE \/ RecordItem(a) \/ CleanIncoming(a) \/ MarkImported(a) \/ CloseDownload(a)
             \/ ActorFault(a)
    BY <1>4 DEF RecordItem, CleanIncoming, MarkImported, CloseDownload, ActorFault, GiveUp,
       Form
  <1>5. QED
    BY <1>1, <1>2, <1>3, <1>4 DEF MoveStep

LEMMA Forms ==
    ASSUME MovesOK, NEW a \in Actors, Acts(a)
    PROVE  Starts(a) \/ (pc[a] # "idle" /\ Form(a))
  <1>1. CASE a = Worker /\ WorkerFiles
    <2>1. CASE ScanSource \/ AllStaged
      <3>1. \/ \E next : Leave(Worker, next)
            \/ \E next, files : Takes(Worker, next, files)
        BY <2>1 DEF ScanSource, AllStaged, GiveUp, Takes
      <3>2. QED
        BY <1>1, <2>1, <3>1 DEF ScanSource, AllStaged, Form
    <2>2. CASE CheckStaged
      <3>1. \E next, files : Takes(Worker, next, files)
        BY <1>1, <2>2 DEF CheckStaged, Takes, MovesOK
      <3>2. QED
        BY <1>1, <2>2, <3>1 DEF CheckStaged, Form
    <2>3. CASE StageFile \/ PlaceFile \/ ResolveCollision \/ PlaceMissing
      BY <1>1, <2>3 DEF StageFile, PlaceFile, ResolveCollision, PlaceMissing, GiveUp, Clash,
         Form
    <2>4. QED
      BY <1>1, <2>1, <2>2, <2>3 DEF WorkerFiles
  <1>2. CASE a = Worker /\ VerdictStep
    BY <1>2 DEF VerdictStep, MarkNeedsReview, MarkFailed, Form
  <1>3. CASE a \in Handlers /\ (HandlerFiles(a) \/ DecideSkip(a))
    BY <1>3 DEF HandlerFiles, DecideScan, DecidePlace, DecideSkip, Takes, Form
  <1>4. QED
    BY <1>1, <1>2, <1>3, MoveForms DEF Acts, Starts

LEMMA FormKeeps ==
    ASSUME MovesOK, NEW a \in Actors, Form(a)
    PROVE  /\ pc'[a] = "idle" \/ task'[a] = task[a]
           /\ a = Worker => pc'[a] = "idle" \/ row' = row
           /\ \A b \in Actors : b # a => Still(b)
  <1>1. CASE \E next : Leave(a, next)
    BY <1>1 DEF Leave, Still, MovesOK
  <1>2. CASE \E next : Go(a, next)
    BY <1>2 DEF Go, Still, MovesOK
  <1>3. CASE \E place, next : Toward(a, place, next)
    BY <1>3 DEF Toward, Still, MovesOK
  <1>4. CASE \E next, files : Takes(a, next, files) /\ (a # Worker => UNCHANGED staged)
    BY <1>4 DEF Takes, Still, MovesOK
  <1>5. QED
    BY <1>1, <1>2, <1>3, <1>4 DEF Form

\* An actor that does not act keeps what it has; one that acts, its download.
LEMMA OneActs ==
    ASSUME TypeInv, Step, ~Crash, NEW b \in Actors
    PROVE  Still(b) \/ Acts(b)
  <1>1. MovesOK
    BY DEF TypeInv
  <1>2. CASE UNCHANGED moves
    BY <1>2 DEF moves, Still
  <1>3. ASSUME NEW a \in Actors, Acts(a), a # b PROVE Still(b)
    <2>1. CASE Form(a)
      BY <1>1, <1>3, <2>1, FormKeeps
    <2>2. CASE Starts(a)
      BY <1>1, <1>3, <2>2, PcNames DEF Starts, JobClaimed, ClaimNextQueued, RequestStep,
         Decide, Still, MovesOK
    <2>3. QED
      BY <1>1, <1>3, <2>1, <2>2, Forms
  <1>4. QED
    BY <1>2, <1>3, Whose

LEMMA TaskStays ==
    ASSUME TypeInv, NEW a \in Actors, Still(a) \/ Acts(a)
    PROVE  \/ pc'[a] = "idle"
           \/ /\ pc[a] # "idle" /\ task'[a] = task[a]
              /\ a = Worker => row' = row
           \/ Starts(a)
  <1>1. MovesOK
    BY DEF TypeInv
  <1>2. CASE Still(a)
    BY <1>2 DEF Still
  <1>3. CASE Acts(a)
    BY <1>1, <1>3, Forms, FormKeeps
  <1>4. QED
    BY <1>2, <1>3

-----------------------------------------------------------------------------
(* Claims.                                                                  *)

\* The worker has gone idle, or is still at the job it was at.
WorkerStays ==
    \/ pc'[Worker] = "idle"
    \/ pc[Worker] # "idle" /\ task'[Worker] = task[Worker] /\ row' = row

LEMMA RowStays ==
    ASSUME TypeInv, Step
    PROVE  WorkerStays \/ JobClaimed
  <1>1. Worker \in Actors /\ Worker \notin Handlers
    BY PcNames
  <1>2. CASE Crash
    BY <1>1, <1>2 DEF Crash, WorkerStays
  <1>3. CASE ~Crash
    BY <1>1, <1>3, OneActs, TaskStays DEF WorkerStays, Starts
  <1>4. QED
    BY <1>2, <1>3

\* A queued job may be claimed once more; the row the worker holds was the
\* table's when it claimed it, so its verdict on the attempts is good.
ClaimOk(j, ops) ==
    /\ j.claims <= j.attempt
    /\ j.claims <= MaxAttempts + ops
    /\ j.status = "queued" => j.claims < MaxAttempts + ops
    /\ j.status = "absent" => j.claims = 0
ClaimInv ==
    /\ \A d \in Downloads : ClaimOk(jobs[d], used.ops)
    /\ pc[Worker] # "idle" => /\ row.claims = jobs[task[Worker]].claims
                              /\ row.claims <= row.attempt

LEMMA ClaimWritten ==
    ASSUME TypeInv, ClaimInv, Step, NEW d \in Downloads, NEW j \in Job, JobWrite(d, j)
    PROVE  ClaimOk(j, used'.ops) /\ j.claims = jobs[d].claims
  <1>1. /\ used.ops \in Nat /\ used'.ops \in Nat /\ used.ops <= used'.ops
        /\ MaxAttempts \in Nat \ {0}
    BY UsedMoves, BoundsAssumption DEF TypeInv, UsedStep, UsedRec
  <1>2. /\ jobs[d].claims \in Nat /\ jobs[d].attempt \in Nat
        /\ j.claims \in Nat /\ j.attempt \in Nat /\ row.attempt \in Nat
        /\ row.claims \in Nat
    BY DEF TypeInv, TablesOK, MovesOK, Job
  <1>3. ClaimOk(jobs[d], used.ops)
    BY DEF ClaimInv
  <1>4. CASE Made(d, j)
    <2>1. jobs[d].claims = 0
      BY <1>3, <1>4 DEF Made, Exists, ClaimOk
    <2>2. j.claims = 0 /\ j.attempt = 0 /\ j.status = "queued"
      BY <1>4 DEF Made
    <2>3. QED
      BY <1>1, <2>1, <2>2 DEF ClaimOk
  <1>5. CASE Kept(d, j)
    <2>1. j.claims = jobs[d].claims /\ jobs[d].attempt <= j.attempt
      BY <1>5 DEF Kept
    <2>2. j.claims <= j.attempt /\ j.claims <= MaxAttempts + used'.ops
      BY <1>1, <1>2, <1>3, <2>1 DEF ClaimOk
    <2>3. CASE j.status \notin {"queued", "absent"}
      BY <2>1, <2>2, <2>3 DEF ClaimOk
    <2>4. CASE j.status = jobs[d].status
      BY <1>1, <1>2, <1>3, <2>1, <2>2, <2>4 DEF ClaimOk
    <2>5. CASE j.status = "queued" /\ Requeued(d, j)
      <3>1. CASE used'.ops = used.ops + 1
        BY <1>1, <1>2, <1>3, <2>1, <2>2, <2>5, <3>1 DEF ClaimOk
      <3>2. CASE j.attempt = jobs[d].attempt + 1 /\ j.attempt < MaxAttempts
        BY <1>1, <1>2, <1>3, <2>1, <2>2, <2>5, <3>2 DEF ClaimOk
      <3>3. CASE d = task[Worker] /\ pc[Worker] # "idle" /\ row.attempt < MaxAttempts
        <4>1. jobs[d].claims <= row.attempt
          BY <3>3 DEF ClaimInv
        <4>2. QED
          BY <1>1, <1>2, <2>1, <2>2, <2>5, <3>3, <4>1 DEF ClaimOk
      <3>4. QED
        BY <2>5, <3>1, <3>2, <3>3 DEF Requeued
    <2>6. QED
      BY <1>4, <2>1, <2>3, <2>4, <2>5 DEF JobWrite
  <1>6. QED
    BY <1>4, <1>5 DEF JobWrite

LEMMA ClaimStep ==
    ASSUME TypeInv, ClaimInv, [Next]_vars
    PROVE  ClaimInv'
  <1>1. CASE UNCHANGED vars
    BY <1>1 DEF vars, tables, moves, ClaimInv
  <1>2. CASE Step
    <2>1. /\ used.ops \in Nat /\ used'.ops \in Nat /\ used.ops <= used'.ops
          /\ MaxAttempts \in Nat \ {0}
      BY <1>2, UsedMoves, BoundsAssumption DEF TypeInv, UsedStep, UsedRec
    <2>2. ASSUME NEW d \in Downloads
          PROVE  /\ jobs[d] \in Job /\ jobs[d].claims \in Nat /\ jobs[d].attempt \in Nat
                 /\ ClaimOk(jobs[d], used.ops) /\ ClaimOk(jobs[d], used'.ops)
      <3>1. jobs[d] \in Job /\ jobs[d].claims \in Nat /\ jobs[d].attempt \in Nat
        BY DEF TypeInv, TablesOK, Job
      <3>2. QED
        BY <2>1, <3>1 DEF ClaimInv, ClaimOk
    <2>3. pc[Worker] # "idle" => task[Worker] \in Downloads
      BY PcNames DEF TypeInv, KnownInv, Knows
    <2>4. jobs \in [Downloads -> Job]
      BY DEF TypeInv, TablesOK
    <2>5. CASE JobClaimed
      <3>1. PICK d \in Downloads : ClaimNextQueued(d)
        BY <2>5 DEF JobClaimed
      <3>2. PICK j : j = Claimed(jobs[d])
        OBVIOUS
      <3>3. /\ jobs' = [jobs EXCEPT ![d] = j] /\ UNCHANGED used /\ row' = j
            /\ jobs[d].status = "queued" /\ task' = [task EXCEPT ![Worker] = d]
        BY <3>1, <3>2 DEF ClaimNextQueued
      <3>4. task'[Worker] = d
        BY <3>3, PcNames DEF TypeInv, MovesOK
      <3>5. /\ j.status = "running" /\ j.attempt = jobs[d].attempt + 1
            /\ j.claims = jobs[d].claims + 1
        BY <2>2, <3>2, JobFields
      <3>6. ClaimOk(j, used.ops)
        BY <2>1, <2>2, <3>3, <3>5 DEF ClaimOk
      <3>7. jobs'[d] = j /\ \A e \in Downloads : e # d => jobs'[e] = jobs[e]
        BY <2>4, <3>3
      <3>8. \A e \in Downloads : ClaimOk(jobs'[e], used'.ops)
        BY <2>2, <3>3, <3>6, <3>7
      <3>9. row'.claims = jobs'[task'[Worker]].claims /\ row'.claims <= row'.attempt
        BY <3>3, <3>4, <3>6, <3>7 DEF ClaimOk
      <3>10. QED
        BY <3>8, <3>9 DEF ClaimInv
    <2>6. CASE WorkerStays /\ JobsSame
      <3>1. \A d \in Downloads : ClaimOk(jobs'[d], used'.ops)
        BY <2>2, <2>6 DEF JobsSame
      <3>2. QED
        BY <2>6, <3>1 DEF JobsSame, WorkerStays, ClaimInv
    <2>7. CASE WorkerStays /\ JobWritten
      <3>1. PICK d \in Downloads, j \in Job : jobs' = [jobs EXCEPT ![d] = j] /\ JobWrite(d, j)
        BY <2>7 DEF JobWritten
      <3>2. ClaimOk(j, used'.ops) /\ j.claims = jobs[d].claims
        BY <1>2, <3>1, ClaimWritten
      <3>3. jobs'[d] = j /\ \A e \in Downloads : e # d => jobs'[e] = jobs[e]
        BY <2>4, <3>1
      <3>4. \A e \in Downloads : jobs'[e].claims = jobs[e].claims
        BY <3>2, <3>3
      <3>5. \A e \in Downloads : ClaimOk(jobs'[e], used'.ops)
        BY <2>2, <3>2, <3>3
      <3>6. pc'[Worker] # "idle" => /\ row'.claims = jobs'[task'[Worker]].claims
                                    /\ row'.claims <= row'.attempt
        BY <2>3, <2>7, <3>4 DEF WorkerStays, ClaimInv
      <3>7. QED
        BY <3>5, <3>6 DEF ClaimInv
    <2>8. CASE JobsGone
      <3>1. ClaimOk(AbsentJob, used'.ops)
        BY <2>1, AbsentTypes DEF ClaimOk
      <3>2. \A e \in Downloads : jobs'[e] = AbsentJob
        BY <2>8 DEF JobsGone
      <3>3. pc'[Worker] = "idle"
        BY <2>8, PcNames DEF JobsGone
      <3>4. QED
        BY <3>1, <3>2, <3>3 DEF ClaimInv
    <2>9. QED
      BY <1>2, <2>5, <2>6, <2>7, <2>8, JobsMove, RowStays DEF JobsStep
  <1>3. QED
    BY <1>1, <1>2 DEF Next

LEMMA ClaimInit == Init => ClaimInv
  <1> SUFFICES ASSUME Init PROVE ClaimInv
    OBVIOUS
  <1>1. used.ops = 0 /\ MaxAttempts \in Nat \ {0}
    BY BoundsAssumption DEF Init
  <1>2. \A d \in Downloads : ClaimOk(jobs[d], used.ops)
    BY <1>1, AbsentTypes DEF Init, ClaimOk
  <1>3. pc[Worker] = "idle"
    BY PcNames DEF Init
  <1>4. QED
    BY <1>2, <1>3 DEF ClaimInv

\* However leases expire, the worker fails and the operator asks again, a job is
\* claimed at most MaxAttempts times plus once for each request.
THEOREM ClaimsBoundedHolds == Spec => []ClaimsBounded
  <1>1. ClaimInv => ClaimsBounded
    BY DEF ClaimInv, ClaimOk, ClaimsBounded
  <1>2. Spec => []ClaimInv
    BY ClaimInit, ClaimStep, Typed, PTL DEF Spec
  <1>3. QED
    BY <1>1, <1>2, PTL

\* Where each step leaves its actor.
LEMMA GoesTo ==
    ASSUME MovesOK, NEW a \in Actors, NEW next
    PROVE  /\ Leave(a, next) => pc'[a] = next
           /\ Go(a, next) => pc'[a] = next
           /\ \A place : Toward(a, place, next) => pc'[a] = next
           /\ GiveUp(a) => pc'[a] \in {"idle", "fail"}
  BY DEF MovesOK, Leave, Go, Toward, GiveUp

LEMMA MoveStepPc ==
    ASSUME MovesOK, NEW a \in Actors
    PROVE  /\ LookAtPlace(a) => pc'[a] \in {"move", "bin"}
           /\ MoveToTrash(a) => pc'[a] \in {"move", "idle", "fail"}
           /\ LookBeforeMove(a) => pc'[a] \in {"rename", "drop", "idle", "fail"}
           /\ RenameFile(a) => pc'[a] \in {"record", "idle", "fail"}
           /\ DropDuplicate(a) => pc'[a] \in {"record", "place"}
           /\ RecordItem(a) => pc'[a] = "place"
           /\ CleanIncoming(a) => pc'[a] = "mark"
           /\ MarkImported(a) => pc'[a] = "close"
           /\ CloseDownload(a) => pc'[a] \in {"idle", "fail"}
           /\ ActorFault(a) => pc'[a] \in {"idle", "fail"}
  <1>1. LookAtPlace(a) => pc'[a] \in {"move", "bin"}
    BY GoesTo DEF LookAtPlace
  <1>2. /\ MoveToTrash(a) => pc'[a] \in {"move", "idle", "fail"}
        /\ LookBeforeMove(a) => pc'[a] \in {"rename", "drop", "idle", "fail"}
    BY GoesTo DEF MoveToTrash, LookBeforeMove, Clash
  <1>3. /\ RenameFile(a) => pc'[a] \in {"record", "idle", "fail"}
        /\ DropDuplicate(a) => pc'[a] \in {"record", "place"}
    BY GoesTo DEF RenameFile, DropDuplicate, Clash, MovesOK
  <1>4. /\ RecordItem(a) => pc'[a] = "place"
        /\ CleanIncoming(a) => pc'[a] = "mark"
        /\ MarkImported(a) => pc'[a] = "close"
        /\ CloseDownload(a) => pc'[a] \in {"idle", "fail"}
        /\ ActorFault(a) => pc'[a] \in {"idle", "fail"}
    BY GoesTo DEF RecordItem, CleanIncoming, MarkImported, CloseDownload, ActorFault
  <1>5. QED
    BY <1>1, <1>2, <1>3, <1>4

LEMMA WorkerPcs ==
    ASSUME MovesOK
    PROVE  /\ JobClaimed => pc'[Worker] = "scan"
           /\ ScanSource => pc'[Worker] \in {"stage", "review", "idle", "fail"}
           /\ StageFile => pc'[Worker] \in {"check", "idle", "fail"}
           /\ CheckStaged => pc'[Worker] = "stage"
           /\ AllStaged => pc'[Worker] \in {"place", "idle", "fail"}
           /\ PlaceFile => pc'[Worker] \in {"move", "dup"}
           /\ ResolveCollision => pc'[Worker] \in {"trash", "move", "review"}
           /\ PlaceMissing => pc'[Worker] \in {"idle", "fail"}
           /\ VerdictStep => pc'[Worker] = "idle"
  <1>1. Worker \in Actors
    BY PcNames
  <1>2. /\ JobClaimed => pc'[Worker] = "scan"
        /\ ScanSource => pc'[Worker] \in {"stage", "review", "idle", "fail"}
        /\ CheckStaged => pc'[Worker] = "stage"
        /\ AllStaged => pc'[Worker] \in {"place", "idle", "fail"}
    BY <1>1, GoesTo DEF MovesOK, JobClaimed, ClaimNextQueued, ScanSource, CheckStaged,
       AllStaged
  <1>3. /\ StageFile => pc'[Worker] \in {"check", "idle", "fail"}
        /\ PlaceFile => pc'[Worker] \in {"move", "dup"}
        /\ ResolveCollision => pc'[Worker] \in {"trash", "move", "review"}
        /\ PlaceMissing => pc'[Worker] \in {"idle", "fail"}
    BY <1>1, GoesTo DEF StageFile, PlaceFile, ResolveCollision, PlaceMissing, Clash
  <1>4. VerdictStep => pc'[Worker] = "idle"
    BY <1>1, GoesTo DEF VerdictStep, MarkNeedsReview, MarkFailed
  <1>5. QED
    BY <1>2, <1>3, <1>4

LEMMA HandlerPcs ==
    ASSUME MovesOK, NEW h \in Handlers
    PROVE  /\ DecideScan(h) => pc'[h] \in {"place", "idle"}
           /\ DecidePlace(h) => pc'[h] \in {"move", "trash"}
           /\ DecideSkip(h) => pc'[h] = "idle"
           /\ RequestStep(h) => pc'[h] \in {"skip", "scan"}
  <1>1. h \in Actors
    BY PcNames
  <1>2. DecideScan(h) => pc'[h] \in {"place", "idle"}
    BY <1>1, GoesTo DEF DecideScan, MovesOK
  <1>3. DecidePlace(h) => pc'[h] \in {"move", "trash"}
    BY <1>1, GoesTo DEF DecidePlace
  <1>4. DecideSkip(h) => pc'[h] = "idle"
    BY <1>1, GoesTo DEF DecideSkip
  <1>5. RequestStep(h) => pc'[h] \in {"skip", "scan"}
    BY <1>1 DEF RequestStep, Decide, MovesOK
  <1>6. QED
    BY <1>2, <1>3, <1>4, <1>5

\* Who comes to a rename, or to the removal of a duplicate.
LEMMA Enters ==
    ASSUME MovesOK, NEW b \in Actors, Acts(b)
    PROVE  /\ pc'[b] \in {"rename", "drop"} => LookBeforeMove(b)
           /\ pc'[b] = "dup" => b = Worker /\ PlaceFile
           /\ pc'[b] = "stage" => b = Worker /\ (ScanSource \/ CheckStaged)
           /\ pc'[b] = "check" => b = Worker /\ StageFile
           /\ pc'[b] = "mark" => CleanIncoming(b)
           /\ pc'[b] = "close" => MarkImported(b)
           /\ pc'[b] = "record" => RenameFile(b) \/ DropDuplicate(b)
           /\ pc'[b] = "scan" => (b = Worker /\ JobClaimed) \/ (b \in Handlers /\ RequestStep(b))
  <1>1. CASE MoveStep(b) \/ ActorFault(b)
    BY <1>1, MoveStepPc DEF MoveStep
  <1>2. CASE b = Worker /\ (JobClaimed \/ WorkerFiles \/ VerdictStep)
    BY <1>2, WorkerPcs DEF WorkerFiles
  <1>3. CASE b \in Handlers /\ (HandlerFiles(b) \/ DecideSkip(b) \/ RequestStep(b))
    BY <1>3, HandlerPcs DEF HandlerFiles
  <1>4. QED
    BY <1>1, <1>2, <1>3 DEF Acts

-----------------------------------------------------------------------------
(* Files that are in the library or the trash, or were overwritten there.   *)

Settled(g) == at[g].dir \in {"library", "trash"} \/ g \in exposed
Safe(f) == \E g \in Files : Same(f, g) /\ Settled(g)

\* Where the importer looks for files.
Rooted(job) == job.source.dir \in {"none", "src", "incoming"}
SourceInv == /\ \A d \in Downloads : Rooted(jobs[d])
             /\ pc[Worker] # "idle" => Rooted(row)

LEMMA SourceStep ==
    ASSUME TypeInv, SourceInv, Step
    PROVE  SourceInv'
  <1>1. pc[Worker] # "idle" => task[Worker] \in Downloads
    BY PcNames DEF TypeInv, KnownInv, Knows
  <1>2. jobs \in [Downloads -> Job]
    BY DEF TypeInv, TablesOK
  <1>3. \A d \in Downloads : Rooted(jobs[d])
    BY DEF SourceInv
  <1>4. CASE JobClaimed
    <2>1. PICK d \in Downloads : jobs' = [jobs EXCEPT ![d] = Claimed(@)] /\ row' = Claimed(jobs[d])
      BY <1>4 DEF JobClaimed, ClaimNextQueued
    <2>2. jobs'[d] = Claimed(jobs[d]) /\ \A e \in Downloads : e # d => jobs'[e] = jobs[e]
      BY <1>2, <2>1
    <2>3. Rooted(Claimed(jobs[d]))
      BY <1>2, <1>3, JobFields DEF Rooted
    <2>4. QED
      BY <1>3, <2>1, <2>2, <2>3 DEF SourceInv
  <1>5. CASE WorkerStays
    <2>1. pc'[Worker] # "idle" => Rooted(row')
      BY <1>5 DEF WorkerStays, SourceInv
    <2>2. \A d \in Downloads : Rooted(jobs'[d])
      <3>1. CASE JobsSame
        BY <1>3, <3>1 DEF JobsSame
      <3>2. CASE JobWritten
        <4>1. PICK d \in Downloads, j \in Job : jobs' = [jobs EXCEPT ![d] = j] /\ JobWrite(d, j)
          BY <3>2 DEF JobWritten
        <4>2. \/ j.source = jobs[d].source \/ j.source = Source(dl[d].release)
              \/ j.source = Incoming(d)
          BY <4>1 DEF JobWrite, Kept, Made
        <4>3. Rooted(j)
          BY <1>3, <4>2, PlaceDirs DEF Rooted
        <4>4. jobs'[d] = j /\ \A e \in Downloads : e # d => jobs'[e] = jobs[e]
          BY <1>2, <4>1
        <4>5. QED
          BY <1>3, <4>3, <4>4
      <3>3. CASE JobsGone
        <4>1. Rooted(AbsentJob)
          BY PlaceDirs DEF AbsentJob, Rooted
        <4>2. QED
          BY <3>3, <4>1 DEF JobsGone
      <3>4. CASE JobClaimed
        BY <1>4, <3>4 DEF SourceInv
      <3>5. QED
        BY <3>1, <3>2, <3>3, <3>4, JobsMove DEF JobsStep
    <2>3. QED
      BY <2>1, <2>2 DEF SourceInv
  <1>6. QED
    BY <1>4, <1>5, RowStays

\* An actor about to rename overwrites only files that were exposed to it.
FoundFree(a) == pc[a] = "rename" => \A g \in Files : at[g] = aim[a] => g \in exposed
\* An actor about to remove a file found the same one in the library.
FoundSame(a) == pc[a] \in {"drop", "dup"} => Safe(First(todo[a]))
PlaceInv == SourceInv /\ \A a \in Actors : FoundFree(a) /\ FoundSame(a)

LEMMA ExposedGrows == Step => exposed \subseteq exposed'
  <1> SUFFICES ASSUME Step PROVE exposed \subseteq exposed'
    OBVIOUS
  <1>1. CASE LoopStep \/ VerdictStep
    BY <1>1 DEF LoopStep, DownloadCompletes, LeaseExpires, VerdictStep,
       MarkNeedsReview, MarkFailed, history
  <1>2. CASE \E d \in Downloads : \/ CreateImport(d) \/ RecoverExpiredLease(d)
                                  \/ Approve(d) \/ Retry(d) \/ Skip(d)
                                  \/ ClaimNextQueued(d)
    BY <1>2 DEF CreateImport, RecoverExpiredLease, Approve, Retry, Skip, ClaimNextQueued,
       history
  <1>3. CASE OrphanStep
    BY <1>3 DEF OrphanStep, ReconcileSees, ReconcileCreate, ReconcileReview, history
  <1>4. CASE WorkerFiles
    BY <1>4 DEF WorkerFiles, ScanSource, StageFile, CheckStaged, AllStaged,
         PlaceFile, ResolveCollision, PlaceMissing, history
  <1>5. CASE \E a \in Actors : MoveStep(a) \/ ActorFault(a)
    BY <1>5 DEF MoveStep, LookAtPlace, MoveToTrash, LookBeforeMove, RenameFile,
         DropDuplicate, RecordItem, CleanIncoming, MarkImported, CloseDownload, ActorFault,
         history
  <1>6. CASE \E h \in Handlers : HandlerFiles(h) \/ DecideSkip(h) \/ RequestStep(h)
    BY <1>6 DEF HandlerFiles, DecideScan, DecidePlace, DecideSkip, RequestStep, Decide,
       history
  <1>7. CASE Crash
    BY <1>7 DEF Crash
  <1>8. QED
    BY <1>1, <1>2, <1>3, <1>4, <1>5, <1>6, <1>7, Kinds DEF StepKind

LEMMA SettledStays ==
    ASSUME TypeInv, PlaceInv, Step
    PROVE  /\ \A g \in Files : Settled(g) => Settled(g)'
           /\ \A f \in Files : Safe(f) => Safe(f)'
  <1>1. ASSUME NEW g \in Files, Settled(g) PROVE Settled(g)'
    <2>1. exposed \subseteq exposed' /\ at \in [Files -> Place]
      BY ExposedGrows DEF TypeInv, DiskOK
    <2>2. CASE g \in exposed
      BY <2>1, <2>2 DEF Settled
    <2>3. CASE at[g].dir \in {"library", "trash"}
      <3>1. CASE UNCHANGED at
        BY <2>3, <3>1 DEF Settled
      <3>2. CASE Arrives
        <4>1. PICK r \in Releases :
                 /\ \A f \in Files : ReleaseOf[f] = r => at[f] = NoWhere
                 /\ at' = [f \in Files |-> IF ReleaseOf[f] = r THEN Source(r) ELSE at[f]]
          BY <3>2 DEF Arrives, DownloadCompletes
        <4>2. ReleaseOf[g] # r
          BY <2>3, <4>1, PlaceDirs
        <4>3. at'[g] = at[g]
          BY <4>1, <4>2
        <4>4. QED
          BY <2>3, <4>3 DEF Settled
      <3>3. CASE Stages
        <4>1. /\ pc[Worker] = "stage" /\ at[First(todo[Worker])] = row.source
              /\ at' = [at EXCEPT ![First(todo[Worker])] = Incoming(task[Worker])]
          BY <3>3 DEF Stages, StageFile
        <4>2. row.source.dir \notin {"library", "trash"}
          BY <4>1 DEF PlaceInv, SourceInv, Rooted
        <4>3. at'[g] = at[g]
          BY <2>1, <2>3, <4>1, <4>2
        <4>4. QED
          BY <2>3, <4>3 DEF Settled
      <3>4. ASSUME NEW a \in Actors, Trashes(a) PROVE Settled(g)'
        <4>1. at'[g] = Trash \/ at'[g] = at[g]
          BY <3>4 DEF Trashes
        <4>2. QED
          BY <2>3, <4>1, PlaceDirs DEF Settled
      <3>5. ASSUME NEW a \in Actors, Lands(a) PROVE Settled(g)'
        <4>1. pc[a] = "rename"
          BY <3>5 DEF Lands, RenameFile
        <4>2. aim[a].dir = "library" /\ FoundFree(a)
          BY <4>1 DEF TypeInv, KnownInv, Knows, Aiming, PlaceInv
        <4>3. at'[g] = aim[a] \/ at'[g] = at[g] \/ at[g] = aim[a]
          BY <3>5 DEF Lands
        <4>4. at[g] = aim[a] => g \in exposed
          BY <4>1, <4>2 DEF FoundFree
        <4>5. QED
          BY <2>1, <2>3, <4>2, <4>3, <4>4 DEF Settled
      <3>6. ASSUME NEW a \in Actors, Drops(a) \/ Removes(a) PROVE Settled(g)'
        <4>1. at[g] # Incoming(task[a])
          BY <2>3, PlaceDirs
        <4>2. at'[g] = at[g]
          BY <2>1, <3>6, <4>1 DEF Drops, Removes
        <4>3. QED
          BY <2>3, <4>2 DEF Settled
      <3>7. QED
        BY <3>1, <3>2, <3>3, <3>4, <3>5, <3>6, FilesMove DEF AtStep, ActorMoves
    <2>4. QED
      BY <2>2, <2>3, <1>1 DEF Settled
  <1>2. QED
    BY <1>1 DEF Safe, Same

LEMMA PlaceStep ==
    ASSUME TypeInv, PlaceInv, Step
    PROVE  PlaceInv'
  <1>1. at \in [Files -> Place] /\ MovesOK /\ exposed \subseteq exposed'
    BY ExposedGrows DEF TypeInv, DiskOK
  <1>2. SourceInv'
    BY SourceStep DEF PlaceInv
  <1>3. CASE Crash
    <2>1. \A a \in Actors : pc'[a] = "idle"
      BY <1>3 DEF Crash
    <2>2. QED
      BY <1>2, <2>1 DEF PlaceInv, FoundFree, FoundSame
  <1>4. ASSUME ~Crash, NEW b \in Actors PROVE FoundFree(b)'
    <2>1. CASE Still(b)
      <3> SUFFICES ASSUME pc[b] = "rename", NEW g \in Files, at'[g] = aim[b]
                   PROVE  g \in exposed'
        BY <2>1 DEF Still, FoundFree
      <3>1. at[g] = aim[b] => g \in exposed'
        BY <1>1 DEF PlaceInv, FoundFree
      <3>2. aim[b].dir = "library"
        BY DEF TypeInv, KnownInv, Knows, Aiming
      <3>3. CASE \E a \in Actors : Lands(a)
        <4>1. PICK a \in Actors : Lands(a)
          BY <3>3
        <4>2. CASE at'[g] = at[g]
          BY <3>1, <4>2
        <4>3. CASE at'[g] # at[g]
          <5>1. at'[g] = Overwritten \/ (g = First(todo[a]) /\ at'[g] = aim[a])
            BY <4>1, <4>3 DEF Lands
          <5>2. g = First(todo[a]) /\ aim[b] = aim[a]
            BY <3>2, <5>1, PlaceDirs
          <5>3. pc'[a] = "record"
            BY <1>1, <4>1 DEF Lands, RenameFile, MovesOK
          <5>4. b # a
            BY <2>1, <5>3 DEF Still
          <5>5. b \in {c \in Actors \ {a} : pc[c] = "rename" /\ aim[c] = aim[a]}
            BY <5>2, <5>4
          <5>6. exposed' = exposed \cup {First(todo[a])}
            BY <4>1, <5>5 DEF Lands, RenameFile
          <5>7. QED
            BY <5>2, <5>6
        <4>4. QED
          BY <4>2, <4>3
      <3>4. CASE UNCHANGED at
        BY <3>1, <3>4
      <3>5. CASE Arrives \/ Stages \/ \E a \in Actors : Trashes(a) \/ Drops(a) \/ Removes(a)
        <4>1. \/ at'[g] = at[g] \/ at'[g] \in {Trash, Deleted}
              \/ \E r : at'[g] = Source(r) \/ at'[g] = Incoming(r)
          BY <1>1, <3>5 DEF Arrives, DownloadCompletes, Stages, Trashes, Drops, Removes
        <4>2. at'[g] = at[g]
          BY <3>2, <4>1, PlaceDirs
        <4>3. QED
          BY <3>1, <4>2
      <3>6. QED
        BY <3>3, <3>4, <3>5, FilesMove DEF AtStep, ActorMoves
    <2>2. CASE Acts(b) /\ pc'[b] = "rename"
      <3>1. LookBeforeMove(b)
        BY <1>1, <2>2, Enters
      <3>2. Go(b, "rename") /\ FilesAt(aim[b]) = {} /\ UNCHANGED at
        BY <1>1, <2>2, <3>1, GoesTo DEF LookBeforeMove, Clash, disk
      <3>3. aim'[b] = aim[b] /\ \A g \in Files : at'[g] # aim[b]
        BY <3>2 DEF Go, FilesAt
      <3>4. QED
        BY <3>3 DEF FoundFree
    <2>3. QED
      BY <1>4, <2>1, <2>2, OneActs DEF FoundFree
  <1>5. ASSUME ~Crash, NEW b \in Actors PROVE FoundSame(b)'
    <2> DEFINE f == First(todo[b])
    <2>1. CASE Still(b)
      <3>1. PICK x : x = f
        OBVIOUS
      <3>2. pc[b] \in {"drop", "dup"} => Safe(x) /\ x \in Files
        BY <3>1, InHand DEF PlaceInv, FoundSame, Holding
      <3>3. pc[b] \in {"drop", "dup"} => Safe(x)'
        BY <3>2, SettledStays
      <3>4. First(todo'[b]) = x
        BY <2>1, <3>1 DEF Still
      <3>5. QED
        BY <2>1, <3>3, <3>4 DEF Still, FoundSame
    <2>2. CASE Acts(b) /\ pc'[b] \in {"drop", "dup"}
      <3>1. \E g \in Files : Same(f, g) /\ at[g].dir = "library"
        <4>1. CASE LookBeforeMove(b)
          <5>1. /\ FilesAt(aim[b]) # {} /\ \A g \in FilesAt(aim[b]) : Same(f, g)
                /\ pc[b] = "move"
            BY <1>1, <2>2, <4>1, GoesTo DEF LookBeforeMove, Clash
          <5>2. aim[b].dir = "library"
            BY <5>1 DEF TypeInv, KnownInv, Knows, Aiming
          <5>3. QED
            BY <5>1, <5>2 DEF FilesAt
        <4>2. CASE b = Worker /\ PlaceFile
          <5>1. Occupants(f) # {} /\ \A g \in Occupants(f) : Same(f, g)
            BY <1>1, <2>2, <4>2, GoesTo DEF PlaceFile
          <5>2. Home(f).dir = "library"
            BY PlaceDirs DEF Home
          <5>3. QED
            BY <5>1, <5>2 DEF Occupants, FilesAt
        <4>3. QED
          BY <1>1, <2>2, <4>1, <4>2, Enters
      <3>2. UNCHANGED at /\ todo'[b] = todo[b]
        <4>1. LookBeforeMove(b) \/ (b = Worker /\ PlaceFile)
          BY <1>1, <2>2, Enters
        <4>2. Go(b, "drop") \/ Go(b, "dup")
          BY <1>1, <2>2, <4>1, GoesTo DEF LookBeforeMove, PlaceFile, Clash
        <4>3. UNCHANGED at
          BY <4>1 DEF LookBeforeMove, PlaceFile, disk
        <4>4. QED
          BY <4>2, <4>3 DEF Go
      <3>3. f' = f
        BY <3>2
      <3>4. Safe(f)'
        BY <3>1, <3>2 DEF Safe, Settled, Same
      <3>5. QED
        BY <3>3, <3>4 DEF FoundSame
    <2>3. QED
      BY <1>5, <2>1, <2>2, OneActs DEF FoundSame
  <1>6. QED
    BY <1>2, <1>3, <1>4, <1>5 DEF PlaceInv

LEMMA PlaceInit == Init => PlaceInv
  <1> SUFFICES ASSUME Init PROVE PlaceInv
    OBVIOUS
  <1>1. \A a \in Actors : pc[a] = "idle"
    BY DEF Init
  <1>2. AbsentJob.source.dir = "none"
    BY PlaceDirs DEF AbsentJob
  <1>3. SourceInv
    BY <1>1, <1>2, PcNames DEF Init, SourceInv, Rooted
  <1>4. QED
    BY <1>1, <1>3 DEF PlaceInv, FoundFree, FoundSame

\* Every lost file is safe, as long as staging directories are kept.
MediaInv == /\ PlaceInv
            /\ KeepIncoming => \A f \in Files : at[f] \in {Deleted, Overwritten} => Safe(f)

LEMMA MediaStep ==
    ASSUME TypeInv, MediaInv, [Next]_vars
    PROVE  MediaInv'
  <1>1. CASE UNCHANGED vars
    BY <1>1 DEF vars, tables, disk, moves, history, MediaInv, PlaceInv, SourceInv, FoundFree,
       FoundSame, Safe, Settled
  <1>2. CASE Step
    <2>1. PlaceInv'
      BY <1>2, PlaceStep DEF MediaInv
    <2>2. ASSUME KeepIncoming, NEW f \in Files, at'[f] \in {Deleted, Overwritten}
          PROVE  Safe(f)'
      <3>1. at \in [Files -> Place] /\ PlaceInv
        BY DEF TypeInv, DiskOK, MediaInv
      <3>2. Safe(f) => Safe(f)'
        BY <1>2, <3>1, SettledStays
      <3>3. CASE at'[f] = at[f]
        BY <2>2, <3>2, <3>3 DEF MediaInv
      <3>4. CASE at'[f] # at[f]
        <4>1. CASE Arrives \/ Stages
          <5>1. \/ at'[f] = at[f] \/ \E r : at'[f] = Source(r) \/ at'[f] = Incoming(r)
            BY <3>1, <4>1 DEF Arrives, DownloadCompletes, Stages
          <5>2. QED
            BY <2>2, <3>4, <5>1, PlaceDirs
        <4>2. ASSUME NEW a \in Actors, Trashes(a) PROVE Safe(f)'
          BY <2>2, <3>4, <4>2, PlaceDirs DEF Trashes
        <4>3. ASSUME NEW a \in Actors, Lands(a) PROVE Safe(f)'
          <5>1. pc[a] = "rename" /\ aim[a].dir = "library"
            BY <4>3 DEF Lands, RenameFile, TypeInv, KnownInv, Knows, Aiming
          <5>2. at'[f] # aim[a]
            BY <2>2, <5>1, PlaceDirs
          <5>3. at[f] = aim[a]
            BY <3>4, <4>3, <5>2 DEF Lands
          <5>4. f \in exposed
            BY <3>1, <5>1, <5>3 DEF PlaceInv, FoundFree
          <5>5. QED
            BY <3>2, <5>4 DEF Safe, Settled, Same
        <4>4. ASSUME NEW a \in Actors, Drops(a) PROVE Safe(f)'
          <5>1. f = First(todo[a]) /\ pc[a] \in {"drop", "dup"}
            BY <3>1, <3>4, <4>4 DEF Drops, DropDuplicate
          <5>2. QED
            BY <3>1, <3>2, <5>1 DEF PlaceInv, FoundSame
        <4>5. \A a \in Actors : ~Removes(a)
          BY <2>2 DEF Removes
        <4>6. QED
          BY <1>2, <3>4, <4>1, <4>2, <4>3, <4>4, <4>5, FilesMove DEF AtStep, ActorMoves
      <3>5. QED
        BY <3>3, <3>4
    <2>3. QED
      BY <2>1, <2>2 DEF MediaInv
  <1>3. QED
    BY <1>1, <1>2 DEF Next

LEMMA MediaInit == Init => MediaInv
  <1> SUFFICES ASSUME Init PROVE MediaInv
    OBVIOUS
  <1>1. \A f \in Files : at[f] \notin {Deleted, Overwritten}
    BY PlaceDirs DEF Init
  <1>2. QED
    BY <1>1, PlaceInit DEF MediaInv

LEMMA MediaHolds == Spec => []MediaInv
  BY MediaInit, MediaStep, Typed, PTL DEF Spec

\* With staging directories kept no file disappears, whatever the interleaving of
\* looks and renames, the failures and the restarts: one that was removed or
\* overwritten has the same file elsewhere, or in an exposed place.
THEOREM NoMediaLostHolds ==
    ASSUME KeepIncoming
    PROVE  Spec => []NoMediaLost
  <1>1. TypeInv /\ MediaInv => NoMediaLost
    <2> SUFFICES ASSUME MediaInv, NEW f \in Files, at[f] \in {Deleted, Overwritten}
                 PROVE  \E g \in Files : Same(f, g) /\ (at[g] \notin Gone \/ g \in exposed)
      BY DEF NoMediaLost
    <2>1. Safe(f)
      BY DEF MediaInv
    <2>2. \A g \in Files : at[g].dir \in {"library", "trash"} => at[g] \notin Gone
      BY PlaceDirs DEF Gone
    <2>3. QED
      BY <2>1, <2>2 DEF Safe, Settled
  <1>2. QED
    BY <1>1, Typed, MediaHolds, PTL

-----------------------------------------------------------------------------
(* The library and its rows.                                                *)

Without == {f \in Files : /\ at[f].dir = "library"
                          /\ at[f] \notin items
                          /\ \A a \in Actors : ~(pc[a] = "record" /\ aim[a] = at[f])}
OnePlace == \A f, g \in Files : at[f].dir = "library" /\ at[f] = at[g] => f = g
RecordedInv == /\ OnePlace
               /\ Durable \/ used.crashes = 0 =>
                    Cardinality(Without) <=
                        used.faults + used.crashes * Cardinality(Actors)

LEMMA IntoLibrary ==
    ASSUME TypeInv, Step, NEW f \in Files, at'[f].dir = "library"
    PROVE  at'[f] = at[f] \/ \E a \in Actors : Lands(a) /\ f = First(todo[a]) /\ at'[f] = aim[a]
  <1>1. at \in [Files -> Place]
    BY DEF TypeInv, DiskOK
  <1>2. CASE Arrives \/ Stages \/ \E a \in Actors : Trashes(a) \/ Drops(a) \/ Removes(a)
    <2>1. \/ at'[f] = at[f] \/ at'[f] \in {Trash, Deleted}
          \/ \E r : at'[f] = Source(r) \/ at'[f] = Incoming(r)
      BY <1>1, <1>2 DEF Arrives, DownloadCompletes, Stages, Trashes, Drops, Removes
    <2>2. QED
      BY <2>1, PlaceDirs
  <1>3. CASE \E a \in Actors : Lands(a)
    BY <1>3, PlaceDirs DEF Lands
  <1>4. QED
    BY <1>2, <1>3, FilesMove DEF AtStep, ActorMoves

LEMMA OnePlaceStep ==
    ASSUME TypeInv, OnePlace, Step
    PROVE  OnePlace'
  <1> SUFFICES ASSUME NEW f \in Files, NEW g \in Files, at'[f].dir = "library", at'[f] = at'[g],
                      f # g
               PROVE  FALSE
    BY DEF OnePlace
  <1>1. ASSUME NEW x \in Files, NEW y \in Files, x # y, at'[x] = at'[y],
               NEW a \in Actors, Lands(a), x = First(todo[a]), at'[x] = aim[a]
        PROVE  FALSE
    <2>1. pc[a] = "rename"
      BY <1>1 DEF Lands, RenameFile
    <2>2. aim[a].dir = "library"
      BY <2>1 DEF TypeInv, KnownInv, Knows, Aiming
    <2>3. at'[y] = Overwritten \/ (at'[y] = at[y] /\ at[y] # aim[a])
      <3>1. at' = [z \in Files |-> IF z = x THEN aim[a]
                                   ELSE IF at[z] = aim[a] THEN Overwritten ELSE at[z]]
        BY <1>1 DEF Lands
      <3>2. QED
        BY <1>1, <3>1
    <2>4. QED
      BY <1>1, <2>2, <2>3, PlaceDirs
  <1>2. at'[f] = at[f] /\ at'[g] = at[g]
    BY <1>1, IntoLibrary
  <1>3. QED
    BY <1>2 DEF OnePlace

LEMMA AtRecord ==
    ASSUME NEW b \in Actors, Acts(b), pc[b] = "record"
    PROVE  RecordItem(b)
  <1>1. CASE MoveStep(b)
    BY <1>1 DEF MoveStep, LookAtPlace, MoveToTrash, LookBeforeMove, RenameFile,
       DropDuplicate, CleanIncoming, MarkImported, CloseDownload
  <1>2. CASE ActorFault(b)
    BY <1>2 DEF ActorFault
  <1>3. CASE b = Worker /\ (JobClaimed \/ WorkerFiles \/ VerdictStep)
    BY <1>3 DEF JobClaimed, ClaimNextQueued, WorkerFiles, ScanSource, StageFile, CheckStaged,
       AllStaged, PlaceFile, ResolveCollision, PlaceMissing, VerdictStep, MarkNeedsReview,
       MarkFailed
  <1>4. CASE b \in Handlers /\ (HandlerFiles(b) \/ DecideSkip(b) \/ RequestStep(b))
    BY <1>4 DEF HandlerFiles, DecideScan, DecidePlace, DecideSkip, RequestStep, Decide
  <1>5. QED
    BY <1>1, <1>2, <1>3, <1>4 DEF Acts

\* A row goes missing only at a write that fails, or at a restart.
Unwritten(f) == \E a \in Actors : /\ RecordItem(a) /\ Trouble
                                  /\ aim[a].dir = "library" /\ at[f] = aim[a]

LEMMA RowsLost ==
    ASSUME TypeInv, Step, ~Crash, NEW f \in Files, f \in Without'
    PROVE  f \in Without \/ Unwritten(f)
  <1>1. /\ at'[f].dir = "library" /\ at'[f] \notin items'
        /\ \A a \in Actors : ~(pc'[a] = "record" /\ aim'[a] = at'[f])
        /\ MovesOK
    BY DEF Without, TypeInv
  <1>2. at'[f] = at[f]
    <2>1. ASSUME NEW a \in Actors, Lands(a), at'[f] = aim[a], f = First(todo[a]) PROVE FALSE
      <3>1. pc' = [pc EXCEPT ![a] = "record"] /\ UNCHANGED aim
        BY <2>1 DEF Lands, RenameFile
      <3>2. QED
        BY <1>1, <2>1, <3>1 DEF MovesOK
    <2>2. QED
      BY <1>1, <2>1, IntoLibrary
  <1>3. at[f] \notin items
    <2>1. items \subseteq items'
      BY ItemsMove DEF RecordItem
    <2>2. QED
      BY <1>1, <1>2, <2>1
  <1>4. CASE \A b \in Actors : ~(pc[b] = "record" /\ aim[b] = at[f])
    BY <1>1, <1>2, <1>3, <1>4 DEF Without
  <1>5. ASSUME NEW b \in Actors, pc[b] = "record", aim[b] = at[f] PROVE Unwritten(f)
    <2>1. ~Still(b)
      BY <1>1, <1>2, <1>5 DEF Still
    <2>2. RecordItem(b)
      BY <1>5, <2>1, OneActs, AtRecord
    <2>3. f \in FilesAt(aim[b])
      BY <1>5 DEF FilesAt
    <2>4. items' = items \cup {aim[b]} \/ Trouble
      BY <2>2, <2>3 DEF RecordItem
    <2>5. Trouble
      BY <1>1, <1>2, <1>5, <2>4
    <2>6. QED
      BY <1>1, <1>2, <1>5, <2>2, <2>5 DEF Unwritten
  <1>6. QED
    BY <1>4, <1>5

LEMMA Counts ==
    /\ IsFiniteSet(Actors) /\ Cardinality(Actors) \in Nat
    /\ IsFiniteSet(Files) /\ \A S \in SUBSET Files : IsFiniteSet(S) /\ Cardinality(S) \in Nat
  <1>1. IsFiniteSet(Handlers) /\ IsFiniteSet({Worker})
    BY ActorsAssumption, FS_Singleton
  <1>2. IsFiniteSet(Actors)
    BY <1>1, FS_Union DEF Actors
  <1>3. IsFiniteSet(Files)
    BY FilesAssumption
  <1>4. ASSUME NEW S \in SUBSET Files PROVE IsFiniteSet(S) /\ Cardinality(S) \in Nat
    BY <1>3, FS_Subset, FS_CardinalityType
  <1>5. QED
    BY <1>2, <1>3, <1>4, FS_CardinalityType

LEMMA AtMostSum ==
    ASSUME NEW S \in SUBSET Files, NEW T \in SUBSET Files, NEW X \in SUBSET Files,
           X \subseteq S \cup T
    PROVE  Cardinality(X) <= Cardinality(S) + Cardinality(T)
  <1>1. /\ IsFiniteSet(S) /\ IsFiniteSet(T) /\ IsFiniteSet(S \cup T) /\ IsFiniteSet(S \cap T)
        /\ Cardinality(S) \in Nat /\ Cardinality(T) \in Nat /\ Cardinality(X) \in Nat
        /\ Cardinality(S \cup T) \in Nat /\ Cardinality(S \cap T) \in Nat
    <2>1. S \cup T \in SUBSET Files /\ S \cap T \in SUBSET Files
      OBVIOUS
    <2>2. QED
      BY <2>1, Counts
  <1>2. Cardinality(S \cup T) = Cardinality(S) + Cardinality(T) - Cardinality(S \cap T)
    BY <1>1, FS_Union
  <1>3. Cardinality(X) <= Cardinality(S \cup T)
    BY <1>1, FS_Subset
  <1>4. QED
    BY <1>1, <1>2, <1>3

\* The files at the places actors are about to record: one each.
LEMMA OnePerActor ==
    ASSUME OnePlace
    PROVE  LET caught == {f \in Files : /\ at[f].dir = "library"
                                        /\ \E a \in Actors : aim[a] = at[f]}
           IN Cardinality(caught) <= Cardinality(Actors)
  <1> DEFINE caught == {f \in Files : /\ at[f].dir = "library"
                                      /\ \E a \in Actors : aim[a] = at[f]}
             who == [f \in caught |-> CHOOSE a \in Actors : aim[a] = at[f]]
  <1>1. \A f \in caught : who[f] \in Actors /\ aim[who[f]] = at[f]
    <2> SUFFICES ASSUME NEW f \in caught PROVE who[f] \in Actors /\ aim[who[f]] = at[f]
      OBVIOUS
    <2>1. \E a \in Actors : aim[a] = at[f]
      OBVIOUS
    <2>2. who[f] = CHOOSE a \in Actors : aim[a] = at[f]
      OBVIOUS
    <2>3. QED
      BY <2>1, <2>2, Zenon
  <1>2. who \in [caught -> Actors]
    <2>1. who = [f \in caught |-> who[f]]
      BY Zenon
    <2>2. QED
      BY <1>1, <2>1, Zenon
  <1> HIDE DEF who
  <1>3. ASSUME NEW f \in caught, NEW g \in caught, who[f] = who[g] PROVE f = g
    <2>1. at[f] = at[g]
      BY <1>1, <1>3, Zenon
    <2>2. QED
      BY <2>1 DEF OnePlace
  <1>4. who \in Injection(caught, Actors)
    BY <1>2, <1>3 DEF Injection, IsInjective
  <1>5. IsFiniteSet(caught) /\ IsFiniteSet(Actors)
    <2>1. caught \in SUBSET Files
      OBVIOUS
    <2>2. QED
      BY <2>1, Counts
  <1>6. QED
    BY <1>4, <1>5, FS_Injection

LEMMA OneLost ==
    ASSUME OnePlace, NEW a \in Actors, aim[a].dir = "library"
    PROVE  /\ IsFiniteSet(FilesAt(aim[a])) /\ FilesAt(aim[a]) \in SUBSET Files
           /\ Cardinality(FilesAt(aim[a])) <= 1
  <1>1. FilesAt(aim[a]) \in SUBSET Files
    BY DEF FilesAt
  <1>2. CASE FilesAt(aim[a]) = {}
    <2>1. Cardinality(FilesAt(aim[a])) = 0
      BY <1>2, FS_EmptySet
    <2>2. QED
      BY <1>1, <2>1, Counts
  <1>3. ASSUME NEW f \in FilesAt(aim[a]) PROVE Cardinality(FilesAt(aim[a])) <= 1
    <2>1. FilesAt(aim[a]) = {f}
      BY <1>3 DEF FilesAt, OnePlace
    <2>2. Cardinality({f}) = 1
      BY FS_Singleton
    <2>3. QED
      BY <2>1, <2>2
  <1>4. QED
    BY <1>1, <1>2, <1>3, Counts

LEMMA RecordedStep ==
    ASSUME TypeInv, RecordedInv, [Next]_vars
    PROVE  RecordedInv'
  <1>1. CASE UNCHANGED vars
    <2>1. Without' = Without
      BY <1>1 DEF vars, disk, moves, Without
    <2>2. QED
      BY <1>1, <2>1 DEF vars, disk, RecordedInv, OnePlace, Durable
  <1>2. CASE Step /\ Watch
    <2> DEFINE c == Cardinality(Actors)
    <2>1. OnePlace /\ OnePlace'
      BY <1>2, OnePlaceStep DEF RecordedInv
    <2>2. Durable' <=> Durable
      BY <1>2 DEF Watch, Durable
    <2>3. /\ used.faults \in Nat /\ used.crashes \in Nat /\ used'.faults \in Nat
          /\ used'.crashes \in Nat /\ used.faults <= used'.faults
          /\ used.crashes <= used'.crashes
          /\ used'.crashes = used.crashes \/ Crash
      BY <1>2, UsedMoves DEF TypeInv, UsedStep, UsedRec
    <2>4. Durable' \/ used'.crashes = 0 => Durable \/ used.crashes = 0
      BY <2>2, <2>3
    <2>5. Without \in SUBSET Files /\ Without' \in SUBSET Files
      BY DEF Without
    <2>6. /\ Cardinality(Without) \in Nat /\ Cardinality(Without') \in Nat /\ c \in Nat
      BY <2>5, Counts
    <2> HIDE DEF c
    <2>7. used.crashes * c \in Nat /\ used'.crashes * c \in Nat
      BY <2>3, <2>6
    <2>8. Durable' \/ used'.crashes = 0 =>
            Cardinality(Without) <= used.faults + used.crashes * c
      BY <2>4 DEF RecordedInv, c
    <2>9. CASE Crash
      <3>1. CASE ~Durable
        <4>1. used'.crashes = used.crashes + 1
          BY <1>2, <2>9, UsedTypes DEF Crash, TypeInv
        <4>2. ~(Durable' \/ used'.crashes = 0)
          BY <2>2, <2>3, <3>1, <4>1
        <4>3. QED
          BY <2>1, <4>2 DEF RecordedInv
      <3>2. CASE Durable
        <4> DEFINE caught == {f \in Files : /\ at[f].dir = "library"
                                            /\ \E a \in Actors : aim[a] = at[f]}
        <4>1. UNCHANGED <<at, items>>
          BY <2>9, <3>2 DEF Crash, disk
        <4>2. Without' \subseteq Without \cup caught
          BY <4>1 DEF Without
        <4>3. caught \in SUBSET Files
          OBVIOUS
        <4>4. Cardinality(caught) <= c /\ Cardinality(caught) \in Nat
          BY <2>1, <4>3, OnePerActor, Counts DEF c
        <4> HIDE DEF caught
        <4>5. Cardinality(Without') <= Cardinality(Without) + Cardinality(caught)
          BY <2>5, <4>2, <4>3, AtMostSum
        <4>6. used'.crashes = used.crashes + 1 /\ used'.faults = used.faults
          BY <2>9, UsedTypes DEF Crash, TypeInv
        <4>7. used'.crashes * c = used.crashes * c + c
          BY <2>3, <2>6, <4>6
        <4>8. Durable' => Cardinality(Without') <= used'.faults + used'.crashes * c
          BY <2>3, <2>6, <2>7, <2>8, <4>4, <4>5, <4>6, <4>7
        <4>9. QED
          BY <2>1, <2>2, <3>2, <4>8 DEF RecordedInv, c
      <3>3. QED
        BY <3>1, <3>2
    <2>10. CASE ~Crash
      <3>1. used'.crashes = used.crashes
        BY <2>3, <2>10
      <3>2. CASE \A f \in Files : ~Unwritten(f)
        <4>1. Without' \subseteq Without
          BY <1>2, <2>5, <2>10, <3>2, RowsLost
        <4>2. Cardinality(Without') <= Cardinality(Without)
          BY <2>5, <4>1, Counts, FS_Subset
        <4>3. Durable' \/ used'.crashes = 0 =>
                Cardinality(Without') <= used'.faults + used'.crashes * c
          BY <2>3, <2>6, <2>7, <2>8, <3>1, <4>2
        <4>4. QED
          BY <2>1, <4>3 DEF RecordedInv, c
      <3>3. ASSUME NEW x \in Files, Unwritten(x) PROVE RecordedInv'
        <4>1. PICK a \in Actors : /\ RecordItem(a) /\ Trouble
                                  /\ aim[a].dir = "library" /\ at[x] = aim[a]
          BY <3>3 DEF Unwritten
        <4>2. \A f \in Files : Unwritten(f) => at[f] = aim[a]
          <5>1. ASSUME NEW f \in Files, NEW b \in Actors, RecordItem(b), b # a PROVE FALSE
            <6>1. pc'[a] = "place" /\ pc'[b] = "place" /\ pc[b] = "record"
              BY <4>1, <5>1, MoveStepPc DEF RecordItem, TypeInv
            <6>2. pc'[b] = pc[b]
              BY <4>1, <5>1 DEF RecordItem, Toward, TypeInv, MovesOK
            <6>3. QED
              BY <6>1, <6>2
          <5>2. QED
            BY <5>1 DEF Unwritten
        <4>3. Without' \subseteq Without \cup FilesAt(aim[a])
          BY <1>2, <2>5, <2>10, <4>2, RowsLost DEF FilesAt
        <4>4. /\ FilesAt(aim[a]) \in SUBSET Files /\ Cardinality(FilesAt(aim[a])) <= 1
              /\ Cardinality(FilesAt(aim[a])) \in Nat
          BY <2>1, <4>1, OneLost, Counts
        <4>5. Cardinality(Without') <= Cardinality(Without) + Cardinality(FilesAt(aim[a]))
          BY <2>5, <4>3, <4>4, AtMostSum
        <4>6. used'.faults = used.faults + 1
          BY <4>1, UsedTrouble DEF TypeInv
        <4>7. Durable' \/ used'.crashes = 0 =>
                Cardinality(Without') <= used'.faults + used'.crashes * c
          BY <2>3, <2>6, <2>7, <2>8, <3>1, <4>4, <4>5, <4>6
        <4>8. QED
          BY <2>1, <4>7 DEF RecordedInv, c
      <3>4. QED
        BY <3>2, <3>3
    <2>11. QED
      BY <2>9, <2>10
  <1>3. QED
    BY <1>1, <1>2 DEF Next

LEMMA RecordedInit == Init => RecordedInv
  <1> SUFFICES ASSUME Init PROVE RecordedInv
    OBVIOUS
  <1>1. \A f \in Files : at[f].dir # "library"
    BY PlaceDirs DEF Init
  <1>2. Without = {} /\ OnePlace
    BY <1>1 DEF Without, OnePlace
  <1>3. used.faults = 0 /\ used.crashes = 0 /\ Cardinality({}) = 0
    BY FS_EmptySet DEF Init
  <1>4. used.crashes * Cardinality(Actors) = 0
    BY <1>3, Counts
  <1>5. QED
    BY <1>2, <1>3, <1>4 DEF RecordedInv

\* Every file in the library has its row, but for those about to get it: at most
\* one is without for each failed write, and one for each actor at each restart.
THEOREM LibraryRecordedHolds == Spec => []LibraryRecorded
  <1>1. RecordedInv => LibraryRecorded
    BY DEF RecordedInv, LibraryRecorded, Without
  <1>2. Spec => []RecordedInv
    BY RecordedInit, RecordedStep, Typed, PTL DEF Spec
  <1>3. QED
    BY <1>1, <1>2, PTL
=============================================================================
