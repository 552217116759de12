----------------------- MODULE EnrichmentQueueProofs -----------------------
(***************************************************************************)
(* Proofs about EnrichmentQueue, for every value of its constants.  The    *)
(* inductive invariant is TypeOK, OneLivePerKey, HeldOnce and RunsInv,     *)
(* which adds to RunsBounded what a worker between two statements owes the *)
(* run rows.  The refinement of JobLedger follows from it, one action at a *)
(* time: a row that changes is the only live one of its key.  The rows     *)
(* nobody holds are counted beside it.                                     *)
(***************************************************************************)
EXTENDS EnrichmentQueue, TLAPS, SequenceTheorems, FiniteSetTheorems

\* A row's runs are paid for by its failures and by the run under way, and a
\* worker that has yet to close its run has one open.
RunsInv ==
    /\ \A i \in Rows :
        /\ runs[i].finished <= runs[i].started
        /\ Live(i) => jobs[i].attempts < MaxAttempts
        /\ jobs[i].status \in {"queued", "dead"} =>
                runs[i].started <= jobs[i].attempts
        /\ jobs[i].status = "running" => runs[i].started <= jobs[i].attempts + 1
        /\ runs[i].started <= MaxAttempts
    /\ \A w \in Workers :
        /\ at[w] = "locked" => runs[job[w]].started <= jobs[job[w]].attempts
        /\ at[w] \in {"handling", "expanding", "done", "failed"} =>
                runs[job[w]].finished < runs[job[w]].started

IInv == TypeOK /\ OneLivePerKey /\ HeldOnce /\ RunsInv

-----------------------------------------------------------------------------
(* Rows and sequences.                                                     *)

LEMMA Bounds == MaxAttempts \in Nat /\ MaxAttempts >= 1
  BY BoundsAssumption

\* What an append and a write do to a table.
LEMMA AppendRow ==
    ASSUME NEW S, NEW s \in Seq(S), NEW e \in S
    PROVE  /\ Append(s, e) \in Seq(S)
           /\ Len(Append(s, e)) = Len(s) + 1
           /\ Append(s, e)[Len(s) + 1] = e
           /\ \A i \in 1..Len(s) : Append(s, e)[i] = s[i]
  OBVIOUS

LEMMA WriteRow ==
    ASSUME NEW S, NEW s \in Seq(S), NEW i \in 1..Len(s), NEW e \in S
    PROVE  /\ [s EXCEPT ![i] = e] \in Seq(S)
           /\ Len([s EXCEPT ![i] = e]) = Len(s)
           /\ [s EXCEPT ![i] = e][i] = e
           /\ \A j \in 1..Len(s) : j # i => [s EXCEPT ![i] = e][j] = s[j]
  OBVIOUS

\* The rows the operations write have the type of a row and keep their key.
LEMMA WrittenRows ==
    ASSUME NEW row \in Row
    PROVE  /\ \A st \in Status : [row EXCEPT !.status = st] \in Row
           /\ [row EXCEPT !.waiting = FALSE] \in Row
           /\ row.attempts < MaxAttempts => Failed(row) \in Row
           /\ Failed(row).key = row.key
           /\ Failed(row).status \in {"queued", "dead"}
           /\ Failed(row).attempts = row.attempts + 1
           /\ Failed(row).status = "queued" <=> row.attempts + 1 < MaxAttempts
  <1> USE Bounds
  <1>1. \A st \in Status : [row EXCEPT !.status = st] \in Row
    BY DEF Row
  <1>2. [row EXCEPT !.waiting = FALSE] \in Row
    BY DEF Row
  <1>3. row.attempts \in Nat
    BY DEF Row
  <1>4. row.attempts < MaxAttempts => Failed(row) \in Row
    <2>1. \A n \in 0..MaxAttempts, st \in Status, b \in BOOLEAN :
              [row EXCEPT !.attempts = n, !.status = st, !.waiting = b] \in Row
      BY DEF Row
    <2>2. row.attempts < MaxAttempts => row.attempts + 1 \in 0..MaxAttempts
      BY <1>3
    <2>3. "dead" \in Status /\ "queued" \in Status
      BY DEF Status
    <2>4. QED
      BY <2>1, <2>2, <2>3, Zenon DEF Failed
  <1>5. /\ Failed(row).key = row.key
        /\ Failed(row).status \in {"queued", "dead"}
        /\ Failed(row).attempts = row.attempts + 1
        /\ Failed(row).status = "queued" <=> row.attempts + 1 < MaxAttempts
    BY <1>3 DEF Failed, Row
  <1>6. QED
    BY <1>1, <1>2, <1>4, <1>5

LEMMA KeyTypes ==
    /\ \A k \in Keys : k[1] \in Types
    /\ \A w \in Works : Editions(w) \in Keys /\ Graph(w) \in Keys
  BY DEF Keys, Types, Editions, Graph, Expand

-----------------------------------------------------------------------------
(* The calls a client has left.                                            *)

LEMMA CallTypes ==
    /\ \A w \in Works : WantEditions(w, 50) \in Call /\ WantEditions(w, 55) \in Call
                        /\ WantGraph(w, 52) \in Call
    /\ \A k \in Keys : [key |-> k, priority |-> 100] \in Call
  BY KeyTypes DEF WantEditions, WantGraph, Call, Priorities

LEMMA CallsType ==
    ASSUME NEW todo \in Seq(Call), NEW n \in Nat, NEW b \in BOOLEAN
    PROVE  Calls(todo, n, b) \in Ask
  BY DEF Calls, Ask

LEMMA NoAskType == NoAsk \in Ask
  BY DEF NoAsk, Ask

LEMMA RestType ==
    ASSUME NEW todo \in Seq(Call), NEW left
    PROVE  Rest(todo, left) \in Seq(Call)
  <1>1. todo # <<>> => Tail(todo) \in Seq(Call)
    OBVIOUS
  <1>2. <<>> \in Seq(Call)
    OBVIOUS
  <1>3. QED
    BY <1>1, <1>2 DEF Rest

LEMMA ReturnedType ==
    ASSUME NEW a \in Ask, a.todo # <<>>, NEW ok \in BOOLEAN
    PROVE  Returned(a, ok) \in Ask
  <1> DEFINE t == Head(a.todo).key[1]
             left == IF ok THEN [a.left EXCEPT ![t] = @ - 1] ELSE a.left
  <1>1. Head(a.todo) \in Call /\ Tail(a.todo) \in Seq(Call)
    BY DEF Ask
  <1>2. t \in Types
    BY <1>1, KeyTypes DEF Call
  <1>3. left \in [Types -> Int]
    BY <1>2 DEF Ask
  <1>4. Rest(Tail(a.todo), left) \in Seq(Call)
    BY <1>1, RestType
  <1>5. \A r \in Seq(Call), l \in [Types -> Int] :
            [a EXCEPT !.todo = r, !.dup = FALSE, !.left = l] \in Ask
    BY DEF Ask
  <1> HIDE DEF left
  <1>6. [a EXCEPT !.todo = Rest(Tail(a.todo), left), !.dup = FALSE, !.left = left]
            \in Ask
    BY <1>3, <1>4, <1>5
  <1>7. QED
    BY <1>6 DEF Returned, left

LEMMA ExpandCallsType ==
    ASSUME NEW s \in Discoveries
    PROVE  ExpandCalls(s) \in Seq(Call)
  <1>1. Cardinality(Works) \in Nat
    BY WorksAssumption, FS_CardinalityType
  <1>2. PICK n \in 1..Cardinality(Works) : s \in [1..n -> Works]
    BY DEF Discoveries
  <1>3. n \in Nat /\ s \in Seq(Works) /\ Len(s) = n
    BY <1>1, <1>2
  <1>4. ASSUME NEW m \in 1..(2 * n)
        PROVE  (IF m % 2 = 1 THEN WantEditions(s[(m + 1) \div 2], 55)
                             ELSE WantGraph(s[m \div 2], 52)) \in Call
    <2>1. m % 2 = 1 => (m + 1) \div 2 \in 1..n
      BY <1>3
    <2>2. m % 2 # 1 => m \div 2 \in 1..n
      BY <1>3
    <2>3. QED
      BY <1>2, <2>1, <2>2, CallTypes
  <1>5. QED
    BY <1>3, <1>4 DEF ExpandCalls

-----------------------------------------------------------------------------
(* The inductive invariant holds initially and is kept by every step.      *)

LEMMA InitInv == Init => IInv
  <1> SUFFICES ASSUME Init PROVE IInv
    OBVIOUS
  <1>1. Rows = {}
    BY DEF Init, Rows
  <1>2. jobs \in Seq(Row) /\ runs \in Seq(Runs) /\ Len(runs) = Len(jobs)
    BY DEF Init
  <1>3. used \in Used
    BY DEF Init, Used
  <1>4. ask \in [Clients -> Ask]
    BY NoAskType DEF Init
  <1>5. TypeOK
    BY <1>2, <1>3, <1>4 DEF Init, TypeOK, Places
  <1>6. OneLivePerKey
    BY <1>1 DEF OneLivePerKey
  <1>7. HeldOnce
    BY DEF Init, HeldOnce
  <1>8. RunsInv
    BY <1>1 DEF Init, RunsInv
  <1>9. QED
    BY <1>5, <1>6, <1>7, <1>8 DEF IInv

LEMMA UsedTypes ==
    ASSUME used \in Used
    PROVE  /\ CountFault => used' \in Used
           /\ \A n \in Nat : [used EXCEPT !.rows = @ + n] \in Used
           /\ [used EXCEPT !.restarts = @ + 1] \in Used
  BY DEF Used, CountFault

\* A step that leaves the tables and the workers alone keeps the invariant.
LEMMA Quiet ==
    ASSUME IInv, UNCHANGED <<jobs, runs, at, job>>,
           ask' \in [Clients -> Ask], works' \subseteq Works, used' \in Used
    PROVE  IInv'
  <1>1. TypeOK'
    BY DEF IInv, TypeOK, Rows
  <1>2. OneLivePerKey'
    BY DEF IInv, OneLivePerKey, Rows, Live
  <1>3. HeldOnce'
    BY DEF IInv, HeldOnce
  <1>4. RunsInv'
    BY DEF IInv, RunsInv, Rows, Live
  <1>5. QED
    BY <1>1, <1>2, <1>3, <1>4 DEF IInv

LEMMA NewRowFacts ==
    ASSUME NEW call \in Call
    PROVE  /\ NewRow(call) \in Row
           /\ NewRow(call).key = call.key
           /\ NewRow(call).status = "queued"
           /\ NewRow(call).attempts = 0
           /\ [started |-> 0, finished |-> 0] \in Runs
  BY Bounds DEF NewRow, Row, Call, Status, Runs

\* The rows after an INSERT.
LEMMA Inserted ==
    ASSUME TypeOK, NEW call \in Call, InsertRow(call)
    PROVE  /\ jobs' \in Seq(Row) /\ runs' \in Seq(Runs)
           /\ Len(jobs') = Len(jobs) + 1 /\ Len(runs') = Len(jobs) + 1
           /\ Rows' = Rows \cup {Len(jobs) + 1}
           /\ Len(jobs) + 1 \notin Rows
           /\ jobs'[Len(jobs) + 1] = NewRow(call)
           /\ runs'[Len(jobs) + 1] = [started |-> 0, finished |-> 0]
           /\ \A i \in Rows : jobs'[i] = jobs[i] /\ runs'[i] = runs[i]
  <1>1. jobs \in Seq(Row) /\ runs \in Seq(Runs) /\ Len(runs) = Len(jobs)
        /\ Len(jobs) \in Nat
    BY DEF TypeOK
  <1>2. Rows = 1..Len(jobs)
    BY DEF Rows
  <1>3. /\ jobs' \in Seq(Row) /\ Len(jobs') = Len(jobs) + 1
        /\ jobs'[Len(jobs) + 1] = NewRow(call)
        /\ \A i \in Rows : jobs'[i] = jobs[i]
    BY <1>1, <1>2, AppendRow, NewRowFacts DEF InsertRow
  <1>4. /\ runs' \in Seq(Runs) /\ Len(runs') = Len(jobs) + 1
        /\ runs'[Len(jobs) + 1] = [started |-> 0, finished |-> 0]
        /\ \A i \in Rows : runs'[i] = runs[i]
    BY <1>1, <1>2, AppendRow, NewRowFacts DEF InsertRow
  <1>5. Rows' = 1..(Len(jobs) + 1)
    BY <1>3 DEF Rows
  <1>6. Rows' = Rows \cup {Len(jobs) + 1} /\ Len(jobs) + 1 \notin Rows
    BY <1>1, <1>2, <1>5
  <1>7. QED
    BY <1>3, <1>4, <1>6

LEMMA InsertKeeps ==
    ASSUME IInv, NEW call \in Call, InsertRow(call), ~Deduped(call.key),
           UNCHANGED <<at, job>>,
           ask' \in [Clients -> Ask], works' \subseteq Works, used' \in Used
    PROVE  IInv'
  <1> DEFINE n == Len(jobs) + 1
  <1>0. TypeOK
    BY DEF IInv
  <1>1. /\ jobs' \in Seq(Row) /\ runs' \in Seq(Runs)
        /\ Len(jobs') = n /\ Len(runs') = n
        /\ Rows' = Rows \cup {n} /\ n \notin Rows
        /\ jobs'[n] = NewRow(call)
        /\ runs'[n] = [started |-> 0, finished |-> 0]
        /\ \A i \in Rows : jobs'[i] = jobs[i] /\ runs'[i] = runs[i]
    BY <1>0, Inserted
  <1>2. /\ jobs'[n].key = call.key /\ jobs'[n].status = "queued"
        /\ jobs'[n].attempts = 0 /\ runs'[n].started = 0 /\ runs'[n].finished = 0
    BY <1>1, NewRowFacts
  <1> HIDE DEF n
  <1>3. \A w \in Workers : at[w] # "idle" => job[w] \in Rows
    BY <1>0 DEF TypeOK
  <1>4. TypeOK'
    BY <1>0, <1>1 DEF TypeOK
  <1>5. OneLivePerKey'
    <2>1. \A i \in Rows : Live(i) => jobs[i].key # call.key
      BY DEF Deduped, LiveOf
    <2>2. \A i \in Rows : jobs'[i] = jobs[i]
      BY <1>1
    <2>3. QED
      BY <1>1, <1>2, <2>1, <2>2 DEF IInv, OneLivePerKey, Live
  <1>6. HeldOnce'
    BY <1>1, <1>3 DEF IInv, HeldOnce
  <1>7. RunsInv'
    <2>1. \A i \in Rows' :
            /\ runs'[i].finished <= runs'[i].started
            /\ Live(i)' => jobs'[i].attempts < MaxAttempts
            /\ jobs'[i].status \in {"queued", "dead"} =>
                    runs'[i].started <= jobs'[i].attempts
            /\ jobs'[i].status = "running" =>
                    runs'[i].started <= jobs'[i].attempts + 1
            /\ runs'[i].started <= MaxAttempts
      BY <1>1, <1>2, Bounds DEF IInv, RunsInv, Live
    <2>2. \A w \in Workers :
            /\ at[w] = "locked" => runs'[job[w]].started <= jobs'[job[w]].attempts
            /\ at[w] \in {"handling", "expanding", "done", "failed"} =>
                    runs'[job[w]].finished < runs'[job[w]].started
      BY <1>1, <1>3 DEF IInv, RunsInv
    <2>3. QED
      BY <2>1, <2>2 DEF RunsInv
  <1>8. QED
    BY <1>4, <1>5, <1>6, <1>7 DEF IInv

LEMMA HeadCall ==
    ASSUME TypeOK, NEW c \in Clients, ask[c].todo # <<>>
    PROVE  ask[c] \in Ask /\ Head(ask[c].todo) \in Call

  <1>1. ask[c] \in Ask
    BY DEF TypeOK
  <1>2. ask[c].todo \in Seq(Call)
    BY <1>1 DEF Ask
  <1>3. Head(ask[c].todo) \in Call
    BY <1>2
  <1>4. QED
    BY <1>1, <1>3

LEMMA InsertJobKeeps ==
    ASSUME IInv, NEW c \in Clients, InsertJob(c)
    PROVE  IInv'
  <1>1. TypeOK /\ ask[c].todo # <<>> /\ used' \in Used /\ works' \subseteq Works
        /\ UNCHANGED <<at, job>>
    BY DEF InsertJob, IInv, TypeOK
  <1>2. ask[c] \in Ask /\ Head(ask[c].todo) \in Call
    BY <1>1, HeadCall
  <1>3. CASE Deduped(Head(ask[c].todo).key)
    <2>1. [ask[c] EXCEPT !.dup = TRUE] \in Ask
      BY <1>2 DEF Ask
    <2>2. ask' = [ask EXCEPT ![c] = [ask[c] EXCEPT !.dup = TRUE]]
          /\ UNCHANGED <<jobs, runs>>
      BY <1>3 DEF InsertJob
    <2>3. ask' \in [Clients -> Ask]
      BY <1>1, <2>1, <2>2 DEF TypeOK
    <2>4. QED
      BY <1>1, <2>2, <2>3, Quiet
  <1>4. CASE ~Deduped(Head(ask[c].todo).key)
    <2>1. Returned(ask[c], TRUE) \in Ask
      BY <1>1, <1>2, ReturnedType
    <2>2. ask' \in [Clients -> Ask] /\ InsertRow(Head(ask[c].todo))
      BY <1>1, <1>4, <2>1 DEF InsertJob, TypeOK
    <2>3. QED
      BY <1>1, <1>2, <1>4, <2>2, InsertKeeps
  <1>5. QED
    BY <1>3, <1>4

LEMMA InsertFailsKeeps ==
    ASSUME IInv, NEW c \in Clients, InsertFails(c)
    PROVE  IInv'
  <1>1. TypeOK /\ ask[c].todo # <<>> /\ works' \subseteq Works
        /\ UNCHANGED <<at, job>>
    BY DEF InsertFails, IInv, TypeOK
  <1>2. ask[c] \in Ask /\ Head(ask[c].todo) \in Call
    BY <1>1, HeadCall
  <1>3. used' \in Used
    BY <1>1, UsedTypes DEF InsertFails, TypeOK
  <1>4. Returned(ask[c], FALSE) \in Ask
    BY <1>1, <1>2, ReturnedType
  <1>5. ask' \in [Clients -> Ask]
    BY <1>1, <1>4 DEF InsertFails, TypeOK
  <1>6. CASE UNCHANGED <<jobs, runs>>
    BY <1>1, <1>3, <1>5, <1>6, Quiet
  <1>7. CASE ~Deduped(Head(ask[c].todo).key) /\ InsertRow(Head(ask[c].todo))
    BY <1>1, <1>2, <1>3, <1>5, <1>7, InsertKeeps
  <1>8. QED
    BY <1>6, <1>7 DEF InsertFails

LEMMA SelectJobKeeps ==
    ASSUME IInv, NEW c \in Clients, SelectJob(c)
    PROVE  IInv'
  <1> DEFINE ok == LiveOf(Head(ask[c].todo).key) # {}
  <1>1. TypeOK /\ ask[c].todo # <<>> /\ works' \subseteq Works /\ used' \in Used
        /\ UNCHANGED <<jobs, runs, at, job>>
    BY DEF SelectJob, IInv, TypeOK
  <1>2. ask[c] \in Ask /\ ok \in BOOLEAN
    BY <1>1, HeadCall
  <1>3. Returned(ask[c], ok) \in Ask
    BY <1>1, <1>2, ReturnedType
  <1>4. ask' = [ask EXCEPT ![c] = Returned(ask[c], ok)]
    BY DEF SelectJob
  <1> HIDE DEF ok
  <1>5. ask' \in [Clients -> Ask]
    BY <1>1, <1>3, <1>4 DEF TypeOK
  <1>6. QED
    BY <1>1, <1>5, Quiet

LEMMA AskingTypes ==
    ASSUME TypeOK, NEW c \in Clients, NEW todo \in Seq(Call), NEW n \in Nat,
           NEW b \in BOOLEAN, Asking(c, todo, n, b), todo # <<>>
    PROVE  /\ ask' \in [Clients -> Ask] /\ used' \in Used
           /\ UNCHANGED <<jobs, runs, at, job>>
  <1>1. ask' \in [Clients -> Ask]
    BY CallsType DEF Asking, TypeOK
  <1>2. PICK m : used' = [used EXCEPT !.rows = @ + m] /\ m \in Nat
    <2>1. MaxPerExpand \in Nat
      BY BoundsAssumption
    <2>2. Cost(Head(todo)) \in Nat
      BY <2>1 DEF Cost
    <2>3. Len(todo) \in Nat
      OBVIOUS
    <2>4. QED
      BY <2>2, <2>3 DEF Asking
  <1>3. used' \in Used
    BY <1>2, UsedTypes DEF TypeOK
  <1>4. QED
    BY <1>1, <1>3 DEF Asking

LEMMA RequestKeeps ==
    ASSUME IInv, NEW c \in Callers, Request(c)
    PROVE  IInv'
  <1>0. TypeOK /\ c \in Clients /\ MaxPerSearch \in Nat
    BY BoundsAssumption DEF IInv, Clients
  <1>1. CASE SearchWorks(c)
    <2>1. PICK w \in Works, persisted \in BOOLEAN :
            /\ works' = IF persisted THEN works \cup {w} ELSE works
            /\ Asking(c, <<WantEditions(w, 50)>>, MaxPerSearch, FALSE)
      BY <1>1, WorksAssumption DEF SearchWorks
    <2>2. <<WantEditions(w, 50)>> \in Seq(Call) /\ <<WantEditions(w, 50)>> # <<>>
      BY CallTypes
    <2>3. works' \subseteq Works
      BY <1>0, <2>1 DEF TypeOK
    <2>4. QED
      BY <1>0, <2>1, <2>2, <2>3, AskingTypes, Quiet
  <1>2. CASE ScheduleGraphUpdate(c)
    <2>1. PICK w \in Works : Asking(c, <<WantGraph(w, 52)>>, 1, TRUE)
      BY <1>0, <1>2, WorksAssumption DEF ScheduleGraphUpdate
    <2>2. <<WantGraph(w, 52)>> \in Seq(Call) /\ <<WantGraph(w, 52)>> # <<>>
      BY CallTypes
    <2>3. works' \subseteq Works
      BY <1>0, <1>2 DEF ScheduleGraphUpdate, TypeOK
    <2>4. QED
      BY <1>0, <2>1, <2>2, <2>3, AskingTypes, Quiet
  <1>3. CASE ResolveIdentifier(c)
    <2>1. PICK w \in Works :
            Asking(c, <<WantEditions(w, 50), WantGraph(w, 52)>>, 1, FALSE)
      BY <1>3, WorksAssumption DEF ResolveIdentifier
    <2>2. /\ <<WantEditions(w, 50), WantGraph(w, 52)>> \in Seq(Call)
          /\ <<WantEditions(w, 50), WantGraph(w, 52)>> # <<>>
      BY CallTypes
    <2>3. works' \subseteq Works
      BY <1>0, <1>3 DEF ResolveIdentifier, TypeOK
    <2>4. QED
      BY <1>0, <2>1, <2>2, <2>3, AskingTypes, Quiet
  <1>4. CASE EnqueueEnrichmentJob(c)
    <2>1. PICK k \in Keys : Asking(c, <<[key |-> k, priority |-> 100]>>, 1, TRUE)
      BY <1>4, PostedAssumption DEF EnqueueEnrichmentJob
    <2>2. /\ <<[key |-> k, priority |-> 100]>> \in Seq(Call)
          /\ <<[key |-> k, priority |-> 100]>> # <<>>
      BY CallTypes
    <2>3. works' \subseteq Works
      BY <1>0, <1>4 DEF EnqueueEnrichmentJob, TypeOK
    <2>4. QED
      BY <1>0, <2>1, <2>2, <2>3, AskingTypes, Quiet
  <1>5. CASE RequestEnds(c)
    <2>1. ask' \in [Clients -> Ask]
      BY <1>0, <1>5, NoAskType DEF RequestEnds, TypeOK
    <2>2. QED
      BY <1>0, <1>5, <2>1, Quiet DEF RequestEnds, TypeOK
  <1>6. QED
    BY <1>1, <1>2, <1>3, <1>4, <1>5 DEF Request

-----------------------------------------------------------------------------
(* The workers.                                                            *)

\* A row that is written keeps its key; the others stay as they are.
LEMMA Written ==
    ASSUME TypeOK, NEW i \in Rows, NEW row \in Row,
           jobs' = [jobs EXCEPT ![i] = row]
    PROVE  /\ jobs' \in Seq(Row) /\ Len(jobs') = Len(jobs) /\ Rows' = Rows
           /\ jobs'[i] = row
           /\ \A j \in Rows : j # i => jobs'[j] = jobs[j]
  BY WriteRow DEF TypeOK, Rows

LEMMA RowType == ASSUME TypeOK, NEW i \in Rows
                 PROVE  jobs[i] \in Row /\ runs[i] \in Runs
  BY DEF TypeOK, Rows

\* Uniqueness survives a write that keeps the key and does not revive a row.
LEMMA WrittenUnique ==
    ASSUME IInv, NEW i \in Rows, NEW row \in Row, row.key = jobs[i].key,
           Live(i), jobs' = [jobs EXCEPT ![i] = row]
    PROVE  OneLivePerKey'
  <1>1. TypeOK
    BY DEF IInv
  <1>2. /\ Rows' = Rows /\ jobs'[i] = row
        /\ \A j \in Rows : j # i => jobs'[j] = jobs[j]
    BY <1>1, Written
  <1>3. \A j \in Rows : jobs'[j].key = jobs[j].key /\ (Live(j)' => Live(j))
    BY <1>2 DEF Live
  <1>4. QED
    BY <1>2, <1>3 DEF IInv, OneLivePerKey

LEMMA TryLockKeeps ==
    ASSUME IInv, NEW w \in Workers, TryLockNextJob(w)
    PROVE  IInv'
  <1>1. TypeOK
    BY DEF IInv
  <1>2. PICK i \in Rows :
          /\ jobs[i].status = "queued"
          /\ jobs' = [jobs EXCEPT ![i].status = "running"]
          /\ \/ /\ at' = [at EXCEPT ![w] = "locked"]
                /\ job' = [job EXCEPT ![w] = i]
                /\ UNCHANGED used
             \/ CountFault /\ UNCHANGED <<at, job>>
    BY DEF TryLockNextJob, IsNext, Runnable
  <1>3. UNCHANGED <<runs, ask, works>>
    BY DEF TryLockNextJob
  <1> DEFINE row == [jobs[i] EXCEPT !.status = "running"]
  <1>4. jobs[i] \in Row /\ row \in Row /\ row.key = jobs[i].key
        /\ row.status = "running" /\ row.attempts = jobs[i].attempts
    BY <1>1, RowType, WrittenRows DEF Row, Status
  <1>5. jobs' = [jobs EXCEPT ![i] = row]
    BY <1>2
  <1> HIDE DEF row
  <1>6. /\ jobs' \in Seq(Row) /\ Len(jobs') = Len(jobs) /\ Rows' = Rows
        /\ jobs'[i] = row /\ \A j \in Rows : j # i => jobs'[j] = jobs[j]
    BY <1>1, <1>4, <1>5, Written
  <1>7. used' \in Used
    BY <1>1, <1>2, UsedTypes DEF TypeOK
  <1>8. \A v \in Workers : at[v] # "idle" => job[v] \in Rows /\ job[v] # i
    BY <1>1, <1>2 DEF TypeOK, IInv, HeldOnce
  <1>9. i \in Nat
    BY DEF Rows
  <1>10. TypeOK'
    BY <1>1, <1>2, <1>3, <1>6, <1>7, <1>9 DEF TypeOK, Places
  <1>11. OneLivePerKey'
    BY <1>2, <1>4, <1>5, WrittenUnique DEF Live
  <1>12. HeldOnce'
    BY <1>1, <1>2, <1>4, <1>6, <1>8 DEF IInv, HeldOnce, TypeOK
  <1>13. RunsInv'
    <2>1. runs[i].started <= jobs[i].attempts /\ jobs[i].attempts < MaxAttempts
      BY <1>2 DEF IInv, RunsInv, Live
    <2>2. runs[i].started \in Nat /\ jobs[i].attempts \in Nat
      BY <1>1, <1>4, RowType DEF Runs, Row
    <2>3. \A j \in Rows :
            /\ runs[j].finished <= runs[j].started
            /\ Live(j)' => jobs'[j].attempts < MaxAttempts
            /\ jobs'[j].status \in {"queued", "dead"} =>
                    runs[j].started <= jobs'[j].attempts
            /\ jobs'[j].status = "running" =>
                    runs[j].started <= jobs'[j].attempts + 1
            /\ runs[j].started <= MaxAttempts
      BY <1>4, <1>6, <2>1, <2>2 DEF IInv, RunsInv, Live
    <2>4. \A v \in Workers :
            /\ at'[v] = "locked" => runs[job'[v]].started <= jobs'[job'[v]].attempts
            /\ at'[v] \in {"handling", "expanding", "done", "failed"} =>
                    runs[job'[v]].finished < runs[job'[v]].started
      BY <1>1, <1>2, <1>4, <1>6, <1>8, <2>1 DEF IInv, RunsInv, TypeOK
    <2>5. QED
      BY <1>3, <1>6, <2>3, <2>4 DEF RunsInv
  <1>14. QED
    BY <1>10, <1>11, <1>12, <1>13 DEF IInv

\* A worker that moves between two places, with its job and the tables left
\* alone, owes nothing new to its run rows.
LEMMA Moves ==
    ASSUME IInv, NEW w \in Workers, NEW p \in Places \ {"idle", "locked"},
           at[w] \notin {"idle", "locked"},
           p \in {"handling", "expanding", "done", "failed"} =>
               at[w] \in {"handling", "expanding", "done", "failed"},
           at' = [at EXCEPT ![w] = p], UNCHANGED <<jobs, runs, job>>,
           ask' \in [Clients -> Ask], works' \subseteq Works, used' \in Used
    PROVE  IInv'
  <1>1. TypeOK'
    BY DEF IInv, TypeOK, Rows
  <1>2. OneLivePerKey'
    BY DEF IInv, OneLivePerKey, Rows, Live
  <1>3. HeldOnce'
    BY DEF IInv, HeldOnce, TypeOK
  <1>4. RunsInv'
    BY DEF IInv, RunsInv, Rows, Live, TypeOK
  <1>5. QED
    BY <1>1, <1>2, <1>3, <1>4 DEF IInv

\* A run row of job i is opened or closed.
LEMMA RunWritten ==
    ASSUME TypeOK, NEW i \in Rows, StartRun(i) \/ FinishRun(i)
    PROVE  /\ runs' \in Seq(Runs) /\ Len(runs') = Len(runs)
           /\ \A j \in Rows : j # i => runs'[j] = runs[j]
           /\ StartRun(i) => /\ runs'[i].started = runs[i].started + 1
                             /\ runs'[i].finished = runs[i].finished
           /\ FinishRun(i) => /\ runs'[i].started = runs[i].started
                              /\ runs'[i].finished = runs[i].finished + 1
  <1>1. runs[i] \in Runs /\ runs \in Seq(Runs) /\ Rows = 1..Len(runs)
    BY RowType DEF TypeOK, Rows
  <1>2. CASE StartRun(i)
    <2> DEFINE r == [runs[i] EXCEPT !.started = @ + 1]
    <2>1. r \in Runs /\ r.started = runs[i].started + 1
          /\ r.finished = runs[i].finished
      BY <1>1, SMTT(40) DEF Runs
    <2>2. runs' = [runs EXCEPT ![i] = r]
      BY <1>2 DEF StartRun
    <2> HIDE DEF r
    <2>3. /\ runs' \in Seq(Runs) /\ Len(runs') = Len(runs) /\ runs'[i] = r
          /\ \A j \in Rows : j # i => runs'[j] = runs[j]
      BY <1>1, <2>1, <2>2, WriteRow
    <2>4. FinishRun(i) => FALSE
      <3> DEFINE q == [runs[i] EXCEPT !.finished = @ + 1]
      <3>1. q.started = runs[i].started /\ q \in Runs
            /\ runs[i].started + 1 # runs[i].started
        BY <1>1, SMTT(40) DEF Runs
      <3>2. FinishRun(i) => runs' = [runs EXCEPT ![i] = q]
        BY DEF FinishRun
      <3> HIDE DEF q
      <3>3. FinishRun(i) => runs'[i] = q
        BY <1>1, <3>1, <3>2, WriteRow
      <3>4. QED
        BY <2>1, <2>3, <3>1, <3>3
    <2>5. QED
      BY <1>2, <2>1, <2>3, <2>4
  <1>3. CASE FinishRun(i) /\ ~StartRun(i)
    <2> DEFINE q == [runs[i] EXCEPT !.finished = @ + 1]
    <2>0. runs[i].finished + 1 \in Nat
      BY <1>1 DEF Runs
    <2>1. q \in Runs /\ q.started = runs[i].started
          /\ q.finished = runs[i].finished + 1
      <3>1. \A n \in Nat : LET r == [runs[i] EXCEPT !.finished = n] IN
                r \in Runs /\ r.started = runs[i].started /\ r.finished = n
        BY <1>1 DEF Runs
      <3>2. QED
        BY <2>0, <3>1
    <2>2. runs' = [runs EXCEPT ![i] = q]
      BY <1>3 DEF FinishRun
    <2> HIDE DEF q
    <2>3. /\ runs' \in Seq(Runs) /\ Len(runs') = Len(runs) /\ runs'[i] = q
          /\ \A j \in Rows : j # i => runs'[j] = runs[j]
      BY <1>1, <2>1, <2>2, WriteRow
    <2>4. QED
      BY <1>3, <2>1, <2>3
  <1>4. QED
    BY <1>2, <1>3

\* What the invariant says of a busy worker's row.
LEMMA Holding ==
    ASSUME IInv, NEW w \in Workers, at[w] # "idle"
    PROVE  /\ job[w] \in Rows /\ jobs[job[w]].status = "running"
           /\ \A v \in Workers : at[v] # "idle" /\ job[v] = job[w] => v = w
           /\ jobs[job[w]] \in Row /\ runs[job[w]] \in Runs
           /\ jobs[job[w]].attempts \in Nat
           /\ runs[job[w]].started \in Nat /\ runs[job[w]].finished \in Nat
           /\ jobs[job[w]].attempts < MaxAttempts
           /\ runs[job[w]].started <= jobs[job[w]].attempts + 1
           /\ runs[job[w]].finished <= runs[job[w]].started
  <1>1. TypeOK /\ job[w] \in Rows
    BY DEF IInv, TypeOK
  <1>2. jobs[job[w]].status = "running"
        /\ \A v \in Workers : at[v] # "idle" /\ job[v] = job[w] => v = w
    BY DEF IInv, HeldOnce
  <1>3. jobs[job[w]] \in Row /\ runs[job[w]] \in Runs
    BY <1>1, RowType
  <1>4. QED
    BY <1>1, <1>2, <1>3 DEF IInv, RunsInv, Live, Row, Runs

LEMMA RecordRunStartKeeps ==
    ASSUME IInv, NEW w \in Workers, RecordRunStart(w)
    PROVE  IInv'
  <1>1. TypeOK /\ at[w] = "locked" /\ UNCHANGED <<jobs, job, ask, works>>
    BY DEF RecordRunStart, IInv
  <1>2. used' \in Used
    BY <1>1, UsedTypes DEF RecordRunStart, TypeOK
  <1>3. PICK p \in {"handling", "markFailed"} :
          /\ at' = [at EXCEPT ![w] = p]
          /\ StartRun(job[w]) \/ (p = "markFailed" /\ UNCHANGED runs)
    BY DEF RecordRunStart
  <1>h. /\ job[w] \in Rows /\ jobs[job[w]].status = "running"
        /\ \A v \in Workers : at[v] # "idle" /\ job[v] = job[w] => v = w
        /\ jobs[job[w]].attempts \in Nat /\ jobs[job[w]].attempts < MaxAttempts
        /\ runs[job[w]].started \in Nat /\ runs[job[w]].finished \in Nat
        /\ runs[job[w]].finished <= runs[job[w]].started
    BY <1>1, Holding
  <1>4. runs[job[w]].started <= jobs[job[w]].attempts
    BY <1>1 DEF IInv, RunsInv
  <1>5. /\ runs' \in Seq(Runs) /\ Len(runs') = Len(runs)
        /\ \A j \in Rows : j # job[w] => runs'[j] = runs[j]
        /\ \/ /\ runs'[job[w]].started = runs[job[w]].started + 1
              /\ runs'[job[w]].finished = runs[job[w]].finished
           \/ p = "markFailed" /\ runs' = runs
    BY <1>1, <1>3, <1>h, RunWritten DEF TypeOK
  <1>6. TypeOK'
    BY <1>1, <1>2, <1>3, <1>5 DEF TypeOK, Places, Rows
  <1>7. OneLivePerKey'
    BY <1>1 DEF IInv, OneLivePerKey, Rows, Live
  <1>8. HeldOnce'
    BY <1>1, <1>3 DEF IInv, HeldOnce, TypeOK
  <1>9. RunsInv'
    <2>1. \A j \in Rows :
            /\ runs'[j].finished <= runs'[j].started
            /\ Live(j) => jobs[j].attempts < MaxAttempts
            /\ jobs[j].status \in {"queued", "dead"} =>
                    runs'[j].started <= jobs[j].attempts
            /\ jobs[j].status = "running" =>
                    runs'[j].started <= jobs[j].attempts + 1
            /\ runs'[j].started <= MaxAttempts
      <3>1. ASSUME NEW j \in Rows, j # job[w]
            PROVE  runs'[j] = runs[j]
        BY <1>5, <3>1
      <3>2. /\ runs'[job[w]].finished <= runs'[job[w]].started
            /\ runs'[job[w]].started <= jobs[job[w]].attempts + 1
            /\ runs'[job[w]].started <= MaxAttempts
        <4>1. runs[job[w]].started + 1 <= MaxAttempts
          BY <1>h, <1>4, Bounds
        <4>2. \/ /\ runs'[job[w]].started = runs[job[w]].started + 1
                 /\ runs'[job[w]].finished = runs[job[w]].finished
              \/ runs' = runs
          BY <1>5
        <4>3. CASE runs' = runs
          BY <1>h, <1>4, <4>1, <4>3, Bounds
        <4>4. CASE /\ runs'[job[w]].started = runs[job[w]].started + 1
                   /\ runs'[job[w]].finished = runs[job[w]].finished
          BY <1>h, <1>4, <4>1, <4>4
        <4>5. QED
          BY <4>2, <4>3, <4>4
      <3>3. jobs[job[w]].status \notin {"queued", "dead"}
        BY <1>h
      <3>4. QED
        BY <1>h, <3>1, <3>2, <3>3 DEF IInv, RunsInv
    <2>2. \A v \in Workers :
            /\ at'[v] = "locked" => runs'[job[v]].started <= jobs[job[v]].attempts
            /\ at'[v] \in {"handling", "expanding", "done", "failed"} =>
                    runs'[job[v]].finished < runs'[job[v]].started
      <3>1. \A v \in Workers : v # w /\ at'[v] # "idle" =>
              at'[v] = at[v] /\ job[v] \in Rows /\ runs'[job[v]] = runs[job[v]]
        BY <1>1, <1>3, <1>h, <1>5 DEF TypeOK
      <3>2. at'[w] = p
        BY <1>1, <1>3 DEF TypeOK
      <3>3. QED
        BY <1>h, <1>5, <3>1, <3>2 DEF IInv, RunsInv
    <2>3. QED
      BY <1>1, <2>1, <2>2 DEF RunsInv, Rows, Live
  <1>10. QED
    BY <1>6, <1>7, <1>8, <1>9 DEF IInv

LEMMA RecordRunFinishKeeps ==
    ASSUME IInv, NEW w \in Workers, RecordRunFinish(w)
    PROVE  IInv'
  <1>1. TypeOK /\ at[w] \in {"done", "failed"} /\ UNCHANGED <<jobs, job, ask, works>>
    BY DEF RecordRunFinish, IInv
  <1>2. used' \in Used
    BY <1>1, UsedTypes DEF RecordRunFinish, TypeOK
  <1>3. PICK p \in {"markDone", "markFailed"} : at' = [at EXCEPT ![w] = p]
    BY DEF RecordRunFinish, Goto
  <1>h. /\ job[w] \in Rows /\ jobs[job[w]].status = "running"
        /\ \A v \in Workers : at[v] # "idle" /\ job[v] = job[w] => v = w
        /\ runs[job[w]].started \in Nat /\ runs[job[w]].finished \in Nat
    BY <1>1, Holding
  <1>4. runs[job[w]].finished < runs[job[w]].started
    BY <1>1 DEF IInv, RunsInv
  <1>5. CASE UNCHANGED runs
    <2>1. ask' \in [Clients -> Ask] /\ works' \subseteq Works
      BY <1>1 DEF TypeOK
    <2>2. QED
      BY <1>1, <1>2, <1>3, <1>5, <2>1, Moves DEF Places
  <1>6. CASE FinishRun(job[w]) /\ ~UNCHANGED runs
    <2>1. /\ runs' \in Seq(Runs) /\ Len(runs') = Len(runs)
          /\ \A j \in Rows : j # job[w] => runs'[j] = runs[j]
          /\ runs'[job[w]].started = runs[job[w]].started
          /\ runs'[job[w]].finished = runs[job[w]].finished + 1
      BY <1>1, <1>6, <1>h, RunWritten
    <2>2. TypeOK'
      BY <1>1, <1>2, <1>3, <2>1 DEF TypeOK, Places, Rows
    <2>3. OneLivePerKey'
      BY <1>1 DEF IInv, OneLivePerKey, Rows, Live
    <2>4. HeldOnce'
      BY <1>1, <1>3 DEF IInv, HeldOnce, TypeOK
    <2>5. \A j \in Rows :
            /\ runs'[j].finished <= runs'[j].started
            /\ runs'[j].started = runs[j].started
      BY <1>h, <1>4, <2>1 DEF IInv, RunsInv
    <2>6. \A v \in Workers :
            /\ at'[v] = "locked" => runs'[job[v]].started <= jobs[job[v]].attempts
            /\ at'[v] \in {"handling", "expanding", "done", "failed"} =>
                    runs'[job[v]].finished < runs'[job[v]].started
      <3>1. \A v \in Workers : v # w /\ at'[v] # "idle" =>
              at'[v] = at[v] /\ job[v] \in Rows /\ runs'[job[v]] = runs[job[v]]
        BY <1>1, <1>3, <1>h, <2>1 DEF TypeOK
      <3>2. at'[w] = p
        BY <1>1, <1>3 DEF TypeOK
      <3>3. QED
        BY <3>1, <3>2 DEF IInv, RunsInv
    <2>7. RunsInv'
      BY <1>1, <2>5, <2>6 DEF IInv, RunsInv, Rows, Live
    <2>8. QED
      BY <2>2, <2>3, <2>4, <2>7 DEF IInv
  <1>7. QED
    BY <1>5, <1>6 DEF RecordRunFinish

LEMMA HandlersKeep ==
    ASSUME IInv, NEW w \in Workers,
           HandleWork(w) \/ HandleAuthor(w) \/ Expanded(w)
    PROVE  IInv'
  <1>1. TypeOK /\ w \in Clients /\ MaxPerExpand \in Nat
    BY BoundsAssumption DEF IInv, Clients
  <1>2. at[w] \in {"handling", "expanding"} /\ UNCHANGED <<jobs, runs, job, used>>
    BY DEF HandleWork, HandleAuthor, Expanded
  <1>3. PICK p \in {"expanding", "done", "failed"} : at' = [at EXCEPT ![w] = p]
    BY DEF HandleWork, HandleAuthor, Expanded, Goto
  <1>4. ask' \in [Clients -> Ask] /\ works' \subseteq Works
    <2>1. CASE UNCHANGED <<ask, works>>
      BY <1>1, <2>1 DEF TypeOK
    <2>2. CASE \E s \in Discoveries :
                  /\ works' = works \cup {s[n] : n \in DOMAIN s}
                  /\ ask' = [ask EXCEPT ![w] =
                                Calls(ExpandCalls(s), MaxPerExpand, FALSE)]
      <3>1. PICK s \in Discoveries :
                  /\ works' = works \cup {s[n] : n \in DOMAIN s}
                  /\ ask' = [ask EXCEPT ![w] =
                                Calls(ExpandCalls(s), MaxPerExpand, FALSE)]
        BY <2>2
      <3>2. Calls(ExpandCalls(s), MaxPerExpand, FALSE) \in Ask
        BY <1>1, ExpandCallsType, CallsType
      <3>3. \A n \in DOMAIN s : s[n] \in Works
        BY DEF Discoveries
      <3>4. QED
        BY <1>1, <3>1, <3>2, <3>3 DEF TypeOK
    <2>3. QED
      BY <2>1, <2>2 DEF HandleWork, HandleAuthor, Expanded
  <1>5. used' \in Used
    BY <1>1, <1>2 DEF TypeOK
  <1>6. QED
    BY <1>2, <1>3, <1>4, <1>5, Moves DEF Places

\* The outcome of a job, written or lost, frees the worker.
LEMMA MarkKeeps ==
    ASSUME IInv, NEW w \in Workers, MarkSucceeded(w) \/ MarkFailed(w)
    PROVE  IInv'
  <1> DEFINE i == job[w]
             done == [jobs[i] EXCEPT !.status = "succeeded"]
             failed == Failed(jobs[i])
  <1>1. TypeOK /\ at[w] \in {"markDone", "markFailed"}
        /\ UNCHANGED <<runs, ask, works>>
    BY DEF MarkSucceeded, MarkFailed, Mark, IInv
  <1>2. /\ at' = [at EXCEPT ![w] = "idle"]
        /\ job' = [job EXCEPT ![w] = 0]
    BY DEF MarkSucceeded, MarkFailed, Mark, Release, Goto
  <1>3. used' \in Used
    BY <1>1, UsedTypes DEF MarkSucceeded, MarkFailed, Mark, TypeOK
  <1>4. /\ i \in Rows /\ jobs[i].status = "running" /\ jobs[i] \in Row
        /\ \A v \in Workers : at[v] # "idle" /\ job[v] = i => v = w
        /\ jobs[i].attempts \in Nat /\ jobs[i].attempts < MaxAttempts
        /\ runs[i].started \in Nat /\ runs[i].finished \in Nat
        /\ runs[i].started <= jobs[i].attempts + 1
    BY <1>1, Holding
  <1>5. CASE UNCHANGED jobs
    <2>1. TypeOK'
      BY <1>1, <1>2, <1>3, <1>5 DEF TypeOK, Places, Rows
    <2>2. OneLivePerKey'
      BY <1>5 DEF IInv, OneLivePerKey, Rows, Live
    <2>3. HeldOnce'
      BY <1>1, <1>2, <1>5 DEF IInv, HeldOnce, TypeOK
    <2>4. RunsInv'
      BY <1>1, <1>2, <1>5 DEF IInv, RunsInv, Rows, Live, TypeOK
    <2>5. QED
      BY <2>1, <2>2, <2>3, <2>4 DEF IInv
  <1>6. ASSUME NEW row \in Row, row.key = jobs[i].key,
               jobs' = [jobs EXCEPT ![i] = row],
               row.status \in {"succeeded", "queued", "dead"},
               row.status = "queued" => row.attempts < MaxAttempts,
               row.status # "succeeded" => row.attempts = jobs[i].attempts + 1
        PROVE  IInv'
    <2>1. /\ jobs' \in Seq(Row) /\ Len(jobs') = Len(jobs) /\ Rows' = Rows
          /\ jobs'[i] = row
          /\ \A j \in Rows : j # i => jobs'[j] = jobs[j]
      BY <1>1, <1>4, <1>6, Written
    <2>2. TypeOK'
      BY <1>1, <1>2, <1>3, <2>1 DEF TypeOK, Places
    <2>3. OneLivePerKey'
      BY <1>4, <1>6, WrittenUnique DEF Live
    <2>4. \A v \in Workers : at'[v] # "idle" =>
            /\ v # w /\ at'[v] = at[v] /\ job'[v] = job[v] /\ job[v] \in Rows
            /\ job[v] # i /\ jobs'[job[v]] = jobs[job[v]]
      BY <1>1, <1>2, <1>4, <2>1 DEF TypeOK
    <2>5. HeldOnce'
      BY <2>4 DEF IInv, HeldOnce
    <2>6. RunsInv'
      <3>1. /\ jobs'[i].status \in {"queued", "running"} =>
                    jobs'[i].attempts < MaxAttempts
            /\ jobs'[i].status \in {"queued", "dead"} =>
                    runs[i].started <= jobs'[i].attempts
            /\ jobs'[i].status # "running"
        <4>1. row.status # "running" /\ jobs'[i] = row
          BY <1>6, <2>1
        <4>2. jobs'[i].status \in {"queued", "running"} => row.status = "queued"
          BY <1>6, <4>1
        <4>3. row.status # "succeeded" => runs[i].started <= row.attempts
          BY <1>4, <1>6
        <4>4. QED
          BY <1>6, <4>1, <4>2, <4>3
      <3>2. \A j \in Rows : j # i => jobs'[j] = jobs[j]
        BY <2>1
      <3>3. \A j \in Rows :
            /\ Live(j)' => jobs'[j].attempts < MaxAttempts
            /\ jobs'[j].status \in {"queued", "dead"} =>
                    runs[j].started <= jobs'[j].attempts
            /\ jobs'[j].status = "running" =>
                    runs[j].started <= jobs'[j].attempts + 1
        <4>1. ASSUME NEW j \in Rows, j # i
              PROVE  /\ Live(j)' => jobs'[j].attempts < MaxAttempts
                     /\ jobs'[j].status \in {"queued", "dead"} =>
                             runs[j].started <= jobs'[j].attempts
                     /\ jobs'[j].status = "running" =>
                             runs[j].started <= jobs'[j].attempts + 1
          BY <3>2, <4>1 DEF IInv, RunsInv, Live
        <4>2. QED
          BY <3>1, <4>1 DEF Live
      <3>4. QED
        BY <1>1, <2>1, <2>4, <3>3 DEF IInv, RunsInv
    <2>7. QED
      BY <2>2, <2>3, <2>5, <2>6 DEF IInv
  <1>7. CASE jobs' = [jobs EXCEPT ![i] = done]
    <2>1. done \in Row /\ done.key = jobs[i].key /\ done.status = "succeeded"
      BY <1>4, WrittenRows DEF Row, Status
    <2> HIDE DEF done
    <2>2. QED
      BY <1>6, <1>7, <2>1
  <1>8. CASE jobs' = [jobs EXCEPT ![i] = failed]
    <2>1. /\ failed \in Row /\ failed.key = jobs[i].key
          /\ failed.status \in {"queued", "dead"}
          /\ failed.attempts = jobs[i].attempts + 1
          /\ failed.status = "queued" <=> jobs[i].attempts + 1 < MaxAttempts
      BY <1>4, WrittenRows
    <2> HIDE DEF failed
    <2>2. QED
      BY <1>6, <1>8, <2>1
  <1>9. QED
    BY <1>5, <1>7, <1>8 DEF MarkSucceeded, MarkFailed, Mark

LEMMA BackoffKeeps ==
    ASSUME IInv, NEW i \in Rows, BackoffEnds(i)
    PROVE  IInv'
  <1> DEFINE row == [jobs[i] EXCEPT !.waiting = FALSE]
  <1>1. TypeOK /\ UNCHANGED <<runs, at, job, ask, works, used>>
        /\ jobs' = [jobs EXCEPT ![i] = row]
    BY DEF BackoffEnds, IInv
  <1>2. row \in Row /\ row.key = jobs[i].key /\ row.status = jobs[i].status
        /\ row.attempts = jobs[i].attempts
    BY <1>1, RowType, WrittenRows DEF Row
  <1> HIDE DEF row
  <1>3. /\ jobs' \in Seq(Row) /\ Len(jobs') = Len(jobs) /\ Rows' = Rows
        /\ jobs'[i] = row
        /\ \A j \in Rows : j # i => jobs'[j] = jobs[j]
    BY <1>1, <1>2, Written
  <1>4. \A j \in Rows : /\ jobs'[j].status = jobs[j].status
                        /\ jobs'[j].key = jobs[j].key
                        /\ jobs'[j].attempts = jobs[j].attempts
    BY <1>2, <1>3
  <1>5. \A v \in Workers : at[v] # "idle" => job[v] \in Rows
    BY <1>1 DEF TypeOK
  <1>6. TypeOK'
    BY <1>1, <1>3 DEF TypeOK
  <1>7. OneLivePerKey'
    BY <1>3, <1>4 DEF IInv, OneLivePerKey, Live
  <1>8. HeldOnce'
    BY <1>1, <1>4, <1>5 DEF IInv, HeldOnce
  <1>9. RunsInv'
    BY <1>1, <1>3, <1>4, <1>5 DEF IInv, RunsInv, Live
  <1>10. QED
    BY <1>6, <1>7, <1>8, <1>9 DEF IInv

LEMMA RestartKeeps ==
    ASSUME IInv, Restart
    PROVE  IInv'
  <1>1. TypeOK'
    BY NoAskType, UsedTypes DEF Restart, IInv, TypeOK, Rows, Places
  <1>2. OneLivePerKey'
    BY DEF Restart, IInv, OneLivePerKey, Rows, Live
  <1>3. HeldOnce'
    BY DEF Restart, HeldOnce
  <1>4. RunsInv'
    BY DEF Restart, IInv, RunsInv, Rows, Live
  <1>5. QED
    BY <1>1, <1>2, <1>3, <1>4 DEF IInv

LEMMA NextInv == IInv /\ [Next]_vars => IInv'
  <1> SUFFICES ASSUME IInv, [Next]_vars PROVE IInv'
    OBVIOUS
  <1>1. ASSUME NEW w \in Workers, Work(w) PROVE IInv'
    BY <1>1, TryLockKeeps, RecordRunStartKeeps, HandlersKeep,
       RecordRunFinishKeeps, MarkKeeps DEF Work
  <1>2. ASSUME NEW c \in Clients, Enqueue(c) \/ InsertFails(c) PROVE IInv'
    BY <1>2, InsertJobKeeps, SelectJobKeeps, InsertFailsKeeps DEF Enqueue
  <1>3. ASSUME NEW c \in Callers, Request(c) PROVE IInv'
    BY <1>3, RequestKeeps
  <1>4. ASSUME NEW i \in Rows, BackoffEnds(i) PROVE IInv'
    BY <1>4, BackoffKeeps
  <1>5. CASE Restart
    BY <1>5, RestartKeeps
  <1>6. CASE UNCHANGED vars
    BY <1>6, Quiet DEF vars, IInv, TypeOK
  <1>7. QED
    BY <1>1, <1>2, <1>3, <1>4, <1>5, <1>6 DEF Next

LEMMA Invariance == Spec => []IInv
  BY InitInv, NextInv, PTL DEF Spec

\* The tables keep their types, and a busy worker holds an existing row,
\* however many works, workers and callers there are.
THEOREM TypeCorrect == Spec => []TypeOK
  BY Invariance, PTL DEF IInv

\* The partial unique index keeps one unfinished job per key although
\* MarkFailed puts rows back without looking at their status.
THEOREM UniqueLive == Spec => []OneLivePerKey
  BY Invariance, PTL DEF IInv

\* Locked rows need no owner column: no two workers ever hold one row, and
\* the row of a busy worker is running.
THEOREM ExclusiveWork == Spec => []HeldOnce
  BY Invariance, PTL DEF IInv

\* A job is never run more than max_attempts times.
THEOREM AttemptsBounded == Spec => []RunsBounded
  <1>1. IInv => RunsBounded
    BY DEF IInv, RunsInv, RunsBounded
  <1>2. QED
    BY Invariance, <1>1, PTL

-----------------------------------------------------------------------------
(* Rows left running by nobody.  Each is paid for by the statement that    *)
(* failed, or by the stop of the service, that orphaned it.                *)

Orphans == {i \in Rows : Stranded(i)}

\* A step orphans no row; or one, and a fault is counted; or those the
\* workers hold, and a restart is counted.
Kept  == /\ Orphans' \subseteq Orphans
         /\ used'.faults >= used.faults /\ used'.restarts = used.restarts
Lost  == /\ \E i : Orphans' \subseteq Orphans \cup {i}
         /\ used'.faults = used.faults + 1 /\ used'.restarts = used.restarts
Fired == /\ Orphans' \subseteq Orphans \cup {job[w] : w \in Workers}
         /\ used'.faults = used.faults /\ used'.restarts = used.restarts + 1

LEMMA UsedCounts ==
    ASSUME TypeOK
    PROVE  /\ used.faults \in Nat /\ used.restarts \in Nat
           /\ CountFault => /\ used'.faults = used.faults + 1
                            /\ used'.restarts = used.restarts
           /\ \A n : /\ [used EXCEPT !.rows = n].faults = used.faults
                     /\ [used EXCEPT !.rows = n].restarts = used.restarts
           /\ /\ [used EXCEPT !.restarts = @ + 1].faults = used.faults
              /\ [used EXCEPT !.restarts = @ + 1].restarts = used.restarts + 1
  BY DEF TypeOK, Used, CountFault

\* The workers stay in their places and no row changes its status.
LEMMA SameOrphans ==
    ASSUME Rows' = Rows, \A i \in Rows : jobs'[i].status = jobs[i].status,
           job' = job, \A w \in Workers : at[w] # "idle" <=> at'[w] # "idle"
    PROVE  Orphans' = Orphans
  BY DEF Orphans, Stranded, Running, Held

LEMMA LockOrphans ==
    ASSUME IInv, NEW w \in Workers, TryLockNextJob(w)
    PROVE  Kept \/ Lost
  <1>1. TypeOK /\ at[w] = "idle"
    BY DEF IInv, TryLockNextJob
  <1>2. PICK i \in Rows :
          /\ jobs[i].status = "queued"
          /\ jobs' = [jobs EXCEPT ![i].status = "running"]
          /\ \/ /\ at' = [at EXCEPT ![w] = "locked"]
                /\ job' = [job EXCEPT ![w] = i]
                /\ UNCHANGED used
             \/ CountFault /\ UNCHANGED <<at, job>>
    BY DEF TryLockNextJob, IsNext, Runnable
  <1>3. Rows' = Rows /\ \A j \in Rows : j # i => jobs'[j] = jobs[j]
    <2>1. [jobs[i] EXCEPT !.status = "running"] \in Row
      BY <1>1, RowType, WrittenRows DEF Status
    <2>2. jobs' = [jobs EXCEPT ![i] = [jobs[i] EXCEPT !.status = "running"]]
      BY <1>2
    <2>3. QED
      BY <1>1, <2>1, <2>2, Written
  <1>4. CASE at' = [at EXCEPT ![w] = "locked"] /\ job' = [job EXCEPT ![w] = i]
             /\ UNCHANGED used
    <2>1. Held(i)'
      BY <1>1, <1>4 DEF Held, TypeOK
    <2>2. ASSUME NEW j \in Rows, j # i, Stranded(j)' PROVE Stranded(j)
      <3>1. Running(j)
        BY <1>3, <2>2 DEF Stranded, Running
      <3>2. Held(j) => Held(j)'
        BY <1>1, <1>4 DEF Held, TypeOK
      <3>3. QED
        BY <2>2, <3>1, <3>2 DEF Stranded
    <2>3. Orphans' \subseteq Orphans
      BY <1>3, <2>1, <2>2 DEF Orphans, Stranded
    <2>4. QED
      BY <1>1, <1>4, <2>3, UsedCounts DEF Kept
  <1>5. CASE CountFault /\ UNCHANGED <<at, job>>
    <2>1. ASSUME NEW j \in Rows, j # i, Stranded(j)' PROVE Stranded(j)
      BY <1>3, <1>5, <2>1 DEF Stranded, Running, Held
    <2>2. Orphans' \subseteq Orphans \cup {i}
      BY <1>3, <2>1 DEF Orphans
    <2>3. QED
      BY <1>1, <1>5, <2>2, UsedCounts DEF Lost
  <1>6. QED
    BY <1>2, <1>4, <1>5

LEMMA MarkOrphans ==
    ASSUME IInv, NEW w \in Workers, MarkSucceeded(w) \/ MarkFailed(w)
    PROVE  Kept \/ Lost
  <1> DEFINE i == job[w]
             done == [jobs[i] EXCEPT !.status = "succeeded"]
             failed == Failed(jobs[i])
  <1>1. /\ TypeOK /\ at[w] # "idle"
        /\ at' = [at EXCEPT ![w] = "idle"] /\ job' = [job EXCEPT ![w] = 0]
    BY DEF MarkSucceeded, MarkFailed, Mark, Release, Goto, IInv
  <1>2. i \in Rows /\ jobs[i] \in Row /\ jobs[i].attempts < MaxAttempts
    BY <1>1, Holding
  <1>3. \A j \in Rows : j # i /\ Held(j) => Held(j)'
    BY <1>1 DEF Held, TypeOK
  <1>4. ASSUME NEW row \in Row, row.status # "running",
               jobs' = [jobs EXCEPT ![i] = row], UNCHANGED used
        PROVE  Kept
    <2>1. Rows' = Rows /\ jobs'[i] = row /\ \A j \in Rows : j # i => jobs'[j] = jobs[j]
      BY <1>1, <1>2, <1>4, Written
    <2>2. ASSUME NEW j \in Rows, Stranded(j)' PROVE Stranded(j)
      BY <1>3, <1>4, <2>1, <2>2 DEF Stranded, Running
    <2>3. Orphans' \subseteq Orphans
      BY <2>1, <2>2 DEF Orphans
    <2>4. QED
      BY <1>1, <1>4, <2>3, UsedCounts DEF Kept
  <1>5. CASE CountFault /\ UNCHANGED jobs
    <2>1. Rows' = Rows
      BY <1>5 DEF Rows
    <2>2. ASSUME NEW j \in Rows, j # i, Stranded(j)' PROVE Stranded(j)
      BY <1>3, <1>5, <2>1, <2>2 DEF Stranded, Running
    <2>3. Orphans' \subseteq Orphans \cup {i}
      BY <2>1, <2>2 DEF Orphans
    <2>4. QED
      BY <1>1, <1>5, <2>3, UsedCounts DEF Lost
  <1>6. done \in Row /\ done.status = "succeeded"
    BY <1>2, WrittenRows DEF Row, Status
  <1>7. failed \in Row /\ failed.status \in {"queued", "dead"}
    BY <1>2, WrittenRows
  <1>8. \/ jobs' = [jobs EXCEPT ![i] = done] /\ UNCHANGED used
        \/ jobs' = [jobs EXCEPT ![i] = failed] /\ UNCHANGED used
        \/ CountFault /\ UNCHANGED jobs
    BY DEF MarkSucceeded, MarkFailed, Mark
  <1> HIDE DEF done, failed
  <1>9. QED
    BY <1>4, <1>5, <1>6, <1>7, <1>8

LEMMA InsertOrphans ==
    ASSUME IInv, NEW c \in Clients, InsertJob(c) \/ InsertFails(c) \/ SelectJob(c)
    PROVE  Kept
  <1>1. TypeOK /\ UNCHANGED <<at, job>> /\ ask[c].todo # <<>>
    BY DEF InsertJob, InsertFails, SelectJob, IInv
  <1>2. used'.faults >= used.faults /\ used'.restarts = used.restarts
    <2>1. UNCHANGED used \/ CountFault
      BY DEF InsertJob, InsertFails, SelectJob
    <2>2. QED
      BY <1>1, <2>1, UsedCounts
  <1>3. Head(ask[c].todo) \in Call
    BY <1>1, HeadCall
  <1>4. CASE UNCHANGED jobs
    BY <1>1, <1>2, <1>4, SameOrphans DEF Kept, Rows
  <1>5. CASE InsertRow(Head(ask[c].todo))
    <2> DEFINE n == Len(jobs) + 1
    <2>1. /\ Rows' = Rows \cup {n} /\ jobs'[n].status = "queued"
          /\ \A i \in Rows : jobs'[i] = jobs[i]
      BY <1>1, <1>3, <1>5, Inserted, NewRowFacts
    <2> HIDE DEF n
    <2>2. ASSUME NEW i \in Rows', Stranded(i)' PROVE i \in Rows /\ Stranded(i)
      BY <1>1, <2>1, <2>2 DEF Stranded, Running, Held
    <2>3. QED
      BY <1>2, <2>2 DEF Kept, Orphans
  <1>6. QED
    BY <1>4, <1>5 DEF InsertJob, InsertFails, SelectJob

LEMMA QuietOrphans ==
    ASSUME IInv,
           \/ \E w \in Workers : \/ RecordRunStart(w) \/ HandleWork(w) \/ Expanded(w)
                                 \/ HandleAuthor(w) \/ RecordRunFinish(w)
           \/ \E c \in Callers : Request(c)
           \/ \E i \in Rows : BackoffEnds(i)
           \/ UNCHANGED vars
    PROVE  Kept
  <1>1. TypeOK
    BY DEF IInv
  <1>2. ASSUME NEW w \in Workers, NEW p \in Places \ {"idle"}, at[w] # "idle",
               at' = [at EXCEPT ![w] = p], UNCHANGED <<jobs, job>>,
               UNCHANGED used \/ CountFault
        PROVE  Kept
    <2>1. \A v \in Workers : at[v] # "idle" <=> at'[v] # "idle"
      BY <1>1, <1>2 DEF TypeOK
    <2>2. QED
      BY <1>1, <1>2, <2>1, SameOrphans, UsedCounts DEF Kept, Rows
  <1>3. ASSUME NEW w \in Workers,
               \/ RecordRunStart(w) \/ HandleWork(w) \/ Expanded(w)
               \/ HandleAuthor(w) \/ RecordRunFinish(w)
        PROVE  Kept
    <2>1. CASE RecordRunStart(w)
      BY <1>2, <2>1 DEF RecordRunStart, Places
    <2>2. CASE HandleWork(w)
      BY <1>2, <2>2 DEF HandleWork, Goto, Places
    <2>3. CASE HandleAuthor(w)
      BY <1>2, <2>3 DEF HandleAuthor, Goto, Places
    <2>4. CASE Expanded(w)
      BY <1>2, <2>4 DEF Expanded, Goto, Places
    <2>5. CASE RecordRunFinish(w)
      BY <1>2, <2>5 DEF RecordRunFinish, Goto, Places
    <2>6. QED
      BY <1>3, <2>1, <2>2, <2>3, <2>4, <2>5
  <1>4. ASSUME NEW c \in Callers, Request(c) PROVE Kept
    <2>1. UNCHANGED <<jobs, at, job>>
      BY <1>4 DEF Request, SearchWorks, ScheduleGraphUpdate, ResolveIdentifier,
                  EnqueueEnrichmentJob, RequestEnds, Asking
    <2>2. used' = used \/ \E n : used' = [used EXCEPT !.rows = n]
      BY <1>4 DEF Request, SearchWorks, ScheduleGraphUpdate, ResolveIdentifier,
                  EnqueueEnrichmentJob, RequestEnds, Asking
    <2>3. used'.faults = used.faults /\ used'.restarts = used.restarts
      BY <1>1, <2>2, UsedCounts
    <2>4. QED
      BY <1>1, <2>1, <2>3, SameOrphans, UsedCounts DEF Kept, Rows
  <1>5. ASSUME NEW i \in Rows, BackoffEnds(i) PROVE Kept
    <2> DEFINE row == [jobs[i] EXCEPT !.waiting = FALSE]
    <2>1. jobs' = [jobs EXCEPT ![i] = row] /\ UNCHANGED <<at, job, used>>
      BY <1>5 DEF BackoffEnds
    <2>2. row \in Row /\ row.status = jobs[i].status
      BY <1>1, RowType, WrittenRows DEF Row
    <2> HIDE DEF row
    <2>3. Rows' = Rows /\ \A j \in Rows : jobs'[j].status = jobs[j].status
      BY <1>1, <2>1, <2>2, Written
    <2>4. QED
      BY <1>1, <2>1, <2>3, SameOrphans, UsedCounts DEF Kept
  <1>6. CASE UNCHANGED vars
    BY <1>1, <1>6, SameOrphans, UsedCounts DEF Kept, Rows, vars
  <1>7. QED
    BY <1>3, <1>4, <1>5, <1>6

LEMMA RestartOrphans ==
    ASSUME IInv, Restart
    PROVE  Fired
  <1>1. TypeOK /\ jobs' = jobs /\ Rows' = Rows
    BY DEF IInv, Restart, Rows
  <1>2. ASSUME NEW i \in Rows, Stranded(i)'
        PROVE  Stranded(i) \/ i \in {job[w] : w \in Workers}
    <2>1. Running(i)
      BY <1>1, <1>2 DEF Stranded, Running
    <2>2. QED
      BY <2>1 DEF Stranded, Held
  <1>3. Orphans' \subseteq Orphans \cup {job[w] : w \in Workers}
    BY <1>1, <1>2 DEF Orphans
  <1>4. used'.faults = used.faults /\ used'.restarts = used.restarts + 1
    BY <1>1, UsedCounts DEF Restart
  <1>5. QED
    BY <1>3, <1>4 DEF Fired

\* What a set can grow to.
LEMMA Grown ==
    ASSUME NEW S, NEW T, NEW U, IsFiniteSet(S), IsFiniteSet(U), T \subseteq S \cup U
    PROVE  /\ Cardinality(T) \in Nat
           /\ Cardinality(T) <= Cardinality(S) + Cardinality(U)
  <1>1. IsFiniteSet(S \cup U)
        /\ Cardinality(S \cup U) = Cardinality(S) + Cardinality(U) - Cardinality(S \cap U)
    BY FS_Union
  <1>2. IsFiniteSet(T) /\ Cardinality(T) <= Cardinality(S \cup U)
    BY <1>1, FS_Subset
  <1>3. /\ Cardinality(S) \in Nat /\ Cardinality(U) \in Nat
        /\ Cardinality(T) \in Nat /\ IsFiniteSet(S \cap U)
    BY <1>2, FS_CardinalityType, FS_Intersection
  <1>4. Cardinality(S \cap U) \in Nat
    BY <1>3, FS_CardinalityType
  <1>5. QED
    BY <1>1, <1>2, <1>3, <1>4

LEMMA FewWorkers ==
    ASSUME NEW f
    PROVE  LET T == {f[w] : w \in Workers}
           IN  IsFiniteSet(T) /\ Cardinality(T) <= Cardinality(Workers)
               /\ Cardinality(T) \in Nat /\ Cardinality(Workers) \in Nat
  <1> DEFINE T == {f[w] : w \in Workers}
             g == [w \in Workers |-> f[w]]
  <1>1. g \in Surjection(Workers, T)
    BY DEF Surjection
  <1>2. IsFiniteSet(T) /\ Cardinality(T) <= Cardinality(Workers)
    BY <1>1, ClientsAssumption, FS_Surjection
  <1>3. QED
    BY <1>2, ClientsAssumption, FS_CardinalityType

LEMMA StrandedStep == IInv /\ StrandedCounted /\ [Next]_vars => StrandedCounted'
  <1> SUFFICES ASSUME IInv, StrandedCounted, [Next]_vars PROVE StrandedCounted'
    OBVIOUS
  <1> DEFINE W == Cardinality(Workers)
  <1>1. TypeOK
    BY DEF IInv
  <1>2. Kept \/ Lost \/ Fired
    <2>1. ASSUME NEW w \in Workers, Work(w) PROVE Kept \/ Lost
      BY <2>1, LockOrphans, MarkOrphans, QuietOrphans DEF Work
    <2>2. ASSUME NEW c \in Clients, Enqueue(c) \/ InsertFails(c) PROVE Kept
      BY <2>2, InsertOrphans DEF Enqueue
    <2>3. QED
      BY <2>1, <2>2, QuietOrphans, RestartOrphans DEF Next
  <1>3. /\ IsFiniteSet(Orphans) /\ Cardinality(Orphans) \in Nat
        /\ Cardinality(Orphans) <= used.faults + used.restarts * W
    <2>1. IsFiniteSet(Rows) /\ Orphans \subseteq Rows
      BY <1>1, FS_Interval DEF Rows, Orphans, TypeOK
    <2>2. IsFiniteSet(Orphans)
      BY <2>1, FS_Subset
    <2>3. QED
      BY <2>2, FS_CardinalityType DEF StrandedCounted, Orphans
  <1>4. used.faults \in Nat /\ used.restarts \in Nat /\ W \in Nat
    BY <1>1, UsedCounts, ClientsAssumption, FS_CardinalityType
  <1>5. SUFFICES Cardinality(Orphans') <= used'.faults + used'.restarts * W
    BY DEF StrandedCounted, Orphans
  <1>6. PICK S, T : S = Orphans /\ T = Orphans'
    OBVIOUS
  <1>7. CASE Kept
    <2>1. Cardinality(T) \in Nat /\ Cardinality(T) <= Cardinality(S)
      BY <1>3, <1>6, <1>7, FS_Subset, FS_CardinalityType DEF Kept
    <2>2. PICK m, n : m = used'.faults /\ n = used.restarts * W
      OBVIOUS
    <2>3. n \in Nat /\ m >= used.faults /\ used'.restarts * W = n
      BY <1>4, <1>7, <2>2 DEF Kept
    <2>4. m \in Nat
      BY <1>1, <2>2, NextInv DEF IInv, TypeOK, Used
    <2>5. QED
      BY <1>3, <1>4, <1>6, <2>1, <2>2, <2>3, <2>4
  <1>8. CASE Lost
    <2>1. PICK i : T \subseteq S \cup {i}
      BY <1>6, <1>8 DEF Lost
    <2>2. IsFiniteSet({i}) /\ Cardinality({i}) = 1
      BY FS_Singleton
    <2>3. Cardinality(T) \in Nat /\ Cardinality(T) <= Cardinality(S) + 1
      BY <1>3, <1>6, <2>1, <2>2, Grown
    <2>4. PICK n : n = used.restarts * W
      OBVIOUS
    <2>5. n \in Nat /\ used'.restarts * W = n /\ used'.faults = used.faults + 1
      BY <1>4, <1>8, <2>4 DEF Lost
    <2>6. QED
      BY <1>3, <1>4, <1>6, <2>3, <2>4, <2>5
  <1>9. CASE Fired
    <2> DEFINE H == {job[w] : w \in Workers}
    <2>1. IsFiniteSet(H) /\ Cardinality(H) <= W /\ Cardinality(H) \in Nat
      BY FewWorkers
    <2>2. T \subseteq S \cup H
      BY <1>6, <1>9 DEF Fired
    <2> HIDE DEF H
    <2>3. Cardinality(T) \in Nat /\ Cardinality(T) <= Cardinality(S) + Cardinality(H)
      BY <1>3, <1>6, <2>1, <2>2, Grown
    <2>4. PICK n : n = used.restarts * W
      OBVIOUS
    <2>5. n \in Nat /\ used'.restarts * W = n + W /\ used'.faults = used.faults
      <3>1. (used.restarts + 1) * W = used.restarts * W + W
        BY <1>4
      <3>2. n \in Nat
        BY <1>4, <2>4
      <3>3. QED
        BY <1>9, <2>4, <3>1, <3>2 DEF Fired
    <2>6. QED
      BY <1>3, <1>4, <1>6, <2>1, <2>3, <2>4, <2>5
  <1>10. QED
    BY <1>2, <1>7, <1>8, <1>9

\* A row left running by nobody is the work of one failed statement, or of
\* one stop of the service while a worker held it: nothing else loses a job,
\* however many workers and requests there are.
THEOREM LossesCounted == Spec => []StrandedCounted
  <1>1. Init => StrandedCounted
    <2>1. SUFFICES ASSUME Init PROVE StrandedCounted
      OBVIOUS
    <2>2. {i \in Rows : Stranded(i)} = {}
      BY <2>1 DEF Init, Rows
    <2>3. Cardinality({i \in Rows : Stranded(i)}) = 0
      BY <2>2, FS_EmptySet
    <2>4. Cardinality(Workers) \in Nat /\ used.faults = 0 /\ used.restarts = 0
      BY <2>1, ClientsAssumption, FS_CardinalityType DEF Init
    <2>5. QED
      BY <2>3, <2>4 DEF StrandedCounted
  <1>2. QED
    BY <1>1, Invariance, StrandedStep, PTL DEF Spec

-----------------------------------------------------------------------------
(* The refinement.  LedgerFailures chooses a live row of a key; there is   *)
(* one at most, so what it chooses is known.                               *)

LedgerFacts ==
    /\ DOMAIN LedgerFailures = Keys
    /\ LedgerFailures = [k \in Keys |-> LedgerFailures[k]]
    /\ \A i \in Rows : jobs[i].key \in Keys
    /\ \A i \in Rows : Live(i) => LedgerFailures[jobs[i].key] = jobs[i].attempts
    /\ \A k \in Keys : (\A i \in Rows : Live(i) => jobs[i].key # k)
            => LedgerFailures[k] = 0

LEMMA LedgerRow == IInv => LedgerFacts
  <1> SUFFICES ASSUME IInv PROVE LedgerFacts
    OBVIOUS
  <1>1. DOMAIN LedgerFailures = Keys
        /\ LedgerFailures = [k \in Keys |-> LedgerFailures[k]]
    BY DEF LedgerFailures
  <1>2. \A i \in Rows : jobs[i].key \in Keys
    BY RowType DEF IInv, Row
  <1>3. ASSUME NEW i \in Rows, Live(i)
        PROVE  LedgerFailures[jobs[i].key] = jobs[i].attempts
    <2> DEFINE k == jobs[i].key
               c == CHOOSE n \in LiveOf(k) : TRUE
    <2>1. i \in LiveOf(k)
      BY <1>3 DEF LiveOf
    <2>2. c \in LiveOf(k)
      BY <2>1
    <2>3. c = i
      BY <2>1, <2>2 DEF LiveOf, IInv, OneLivePerKey
    <2>4. LedgerFailures[k] = jobs[c].attempts
      BY <1>2, <2>1 DEF LedgerFailures
    <2>5. QED
      BY <2>3, <2>4
  <1>4. ASSUME NEW k \in Keys, \A i \in Rows : Live(i) => jobs[i].key # k
        PROVE  LedgerFailures[k] = 0
    <2>1. LiveOf(k) = {}
      BY <1>4 DEF LiveOf
    <2>2. QED
      BY <2>1 DEF LedgerFailures
  <1>5. QED
    BY <1>1, <1>2, <1>3, <1>4 DEF LedgerFacts

\* What the write of one live row does to the ledger.
LEMMA LedgerWrite ==
    ASSUME IInv, IInv', NEW i \in Rows, NEW row \in Row, Live(i),
           row.key = jobs[i].key, jobs' = [jobs EXCEPT ![i] = row]
    PROVE  LET k == jobs[i].key
               live == row.status \in {"queued", "running"} IN
           /\ k \in Keys /\ k \in LedgerLive
           /\ k \in LedgerBusy <=> jobs[i].status = "running"
           /\ LedgerFailures[k] = jobs[i].attempts
           /\ LedgerLive' = IF live THEN LedgerLive ELSE LedgerLive \ {k}
           /\ LedgerBusy' = IF row.status = "running" THEN LedgerBusy \cup {k}
                                                       ELSE LedgerBusy \ {k}
           /\ LedgerFailures' = [LedgerFailures EXCEPT ![k] =
                                    IF live THEN row.attempts ELSE 0]
  <1> DEFINE k == jobs[i].key
             live == row.status \in {"queued", "running"}
  <1>1. /\ Rows' = Rows /\ jobs'[i] = row
        /\ \A j \in Rows : j # i => jobs'[j] = jobs[j]
    BY Written DEF IInv
  <1>2. \A j \in Rows : j # i /\ Live(j) => jobs[j].key # k
    BY DEF IInv, OneLivePerKey
  <1>3. \A j \in Rows : /\ jobs'[j].key = jobs[j].key
                        /\ j # i => (Live(j)' <=> Live(j))
                        /\ j # i => (Running(j)' <=> Running(j))
    BY <1>1 DEF Live, Running
  <1>4. (Live(i)' <=> live) /\ (Running(i)' <=> row.status = "running")
    BY <1>1 DEF Live, Running
  <1>5. Running(i) <=> jobs[i].status = "running"
    BY DEF Running
  <1>6. \A j \in Rows : Running(j) => Live(j)
    BY DEF Live, Running
  <1>7. k \in Keys /\ k \in LedgerLive /\ LedgerFailures[k] = jobs[i].attempts
    BY LedgerRow DEF LedgerLive, LedgerFacts
  <1>8. k \in LedgerBusy <=> jobs[i].status = "running"
    BY <1>2, <1>5, <1>6 DEF LedgerBusy
  <1>9. LedgerLive' = IF live THEN LedgerLive ELSE LedgerLive \ {k}
    <2>1. LedgerLive' = {jobs[j].key : j \in {n \in Rows : Live(n)'}}
      BY <1>1, <1>3 DEF LedgerLive
    <2>2. QED
      BY <1>2, <1>3, <1>4, <2>1 DEF LedgerLive
  <1>10. LedgerBusy' = IF row.status = "running" THEN LedgerBusy \cup {k}
                                                 ELSE LedgerBusy \ {k}
    <2>1. LedgerBusy' = {jobs[j].key : j \in {n \in Rows : Running(n)'}}
      BY <1>1, <1>3 DEF LedgerBusy
    <2>2. QED
      BY <1>2, <1>3, <1>4, <1>6, <2>1 DEF LedgerBusy
  <1>11. LedgerFailures' = [LedgerFailures EXCEPT ![k] =
                               IF live THEN row.attempts ELSE 0]
    <2> DEFINE new == [LedgerFailures EXCEPT ![k] = IF live THEN row.attempts ELSE 0]
    <2>1. /\ \A j \in Rows : Live(j)' => LedgerFailures'[jobs[j].key] = jobs'[j].attempts
          /\ \A q \in Keys : (\A j \in Rows : Live(j)' => jobs[j].key # q)
                    => LedgerFailures'[q] = 0
          /\ LedgerFailures' = [q \in Keys |-> LedgerFailures'[q]]
      <3>1. IInv' => LedgerFacts'
        BY LedgerRow, PTL
      <3>2. QED
        BY <1>1, <1>3, <3>1 DEF LedgerFacts
    <2>2. ASSUME NEW q \in Keys
          PROVE  LedgerFailures'[q] = new[q]
      <3>1. CASE q = k
        BY <1>1, <1>2, <1>3, <1>4, <1>7, <2>1, <3>1, LedgerRow DEF LedgerFacts
      <3>2. CASE q # k
        <4>1. CASE \E j \in Rows : Live(j) /\ jobs[j].key = q
          BY <1>1, <1>3, <2>1, <3>2, <4>1, LedgerRow DEF LedgerFacts
        <4>2. CASE \A j \in Rows : Live(j) => jobs[j].key # q
          BY <1>1, <1>3, <2>1, <3>2, <4>2, LedgerRow DEF LedgerFacts
        <4>3. QED
          BY <4>1, <4>2
      <3>3. QED
        BY <3>1, <3>2
    <2>3. new = [q \in Keys |-> new[q]]
      BY LedgerRow DEF LedgerFacts
    <2> HIDE DEF new
    <2>4. LedgerFailures' = new
      BY <2>1, <2>2, <2>3
    <2>5. QED
      BY <2>4 DEF new
  <1>12. QED
    BY <1>7, <1>8, <1>9, <1>10, <1>11

LEMMA LedgerSame ==
    ASSUME UNCHANGED jobs
    PROVE  UNCHANGED <<LedgerLive, LedgerBusy, LedgerFailures>>
  BY DEF LedgerLive, LedgerBusy, LedgerFailures, LiveOf, Live, Running, Rows

LEMMA LedgerInit == Init => Ledger!Init
  <1> SUFFICES ASSUME Init PROVE Ledger!Init
    OBVIOUS
  <1>1. Rows = {}
    BY DEF Init, Rows
  <1>2. LedgerLive = {} /\ LedgerBusy = {} /\ \A k \in Keys : LiveOf(k) = {}
    BY <1>1 DEF LedgerLive, LedgerBusy, LiveOf
  <1>3. LedgerFailures = [k \in Keys |-> 0]
    BY <1>2 DEF LedgerFailures
  <1>4. QED
    BY <1>2, <1>3 DEF Ledger!Init

\* An INSERT asks for work nobody had asked for.
LEMMA LedgerInsert ==
    ASSUME IInv, IInv', NEW call \in Call, InsertRow(call), ~Deduped(call.key)
    PROVE  Ledger!Ask(call.key)
  <1> DEFINE n == Len(jobs) + 1
             k == call.key
  <1>0. call.key \in Keys
    BY DEF Call
  <1>1. /\ Rows' = Rows \cup {n} /\ n \notin Rows
        /\ jobs'[n] = NewRow(call)
        /\ \A i \in Rows : jobs'[i] = jobs[i]
    BY Inserted DEF IInv
  <1>2. jobs'[n].key = k /\ jobs'[n].status = "queued" /\ jobs'[n].attempts = 0
    BY <1>1, NewRowFacts
  <1> HIDE DEF n
  <1>3. \A i \in Rows : Live(i) => jobs[i].key # k
    BY DEF Deduped, LiveOf
  <1>4. \A i \in Rows : (jobs'[i].status \in {"queued", "running"} <=> Live(i))
                        /\ jobs'[i].key = jobs[i].key
    BY <1>1 DEF Live
  <1>5. k \notin LedgerLive
    BY <1>3 DEF LedgerLive
  <1>6. LedgerLive' = LedgerLive \cup {k}
    <2>1. LedgerLive' = {jobs'[i].key :
                i \in {m \in Rows' : jobs'[m].status \in {"queued", "running"}}}
      BY DEF LedgerLive, Live
    <2>2. QED
      BY <1>1, <1>2, <1>4, <2>1 DEF LedgerLive
  <1>7. LedgerBusy' = LedgerBusy
    <2>1. LedgerBusy' = {jobs'[i].key :
                i \in {m \in Rows' : jobs'[m].status = "running"}}
      BY DEF LedgerBusy, Running
    <2>2. LedgerBusy = {jobs[i].key : i \in {m \in Rows : jobs[m].status = "running"}}
      BY DEF LedgerBusy, Running
    <2>3. QED
      BY <1>1, <1>2, <1>4, <2>1, <2>2
  <1>8. LedgerFailures' = LedgerFailures
    <2>1. LedgerFacts /\ LedgerFacts'
      <3>1. IInv' => LedgerFacts'
        BY LedgerRow, PTL
      <3>2. QED
        BY <3>1, LedgerRow
    <2>2. ASSUME NEW q \in Keys PROVE LedgerFailures'[q] = LedgerFailures[q]
      <3>0. /\ \A i \in Rows' : jobs'[i].status \in {"queued", "running"} =>
                    LedgerFailures'[jobs'[i].key] = jobs'[i].attempts
            /\ (\A i \in Rows' : jobs'[i].status \in {"queued", "running"} =>
                    jobs'[i].key # q) => LedgerFailures'[q] = 0
        BY <2>1 DEF LedgerFacts, Live
      <3>1. CASE q = k
        <4>1. LedgerFailures[q] = 0
          BY <1>3, <2>1, <3>1 DEF LedgerFacts
        <4>2. LedgerFailures'[k] = 0
          BY <1>1, <1>2, <3>0
        <4>3. QED
          BY <3>1, <4>1, <4>2
      <3>2. CASE q # k /\ \E i \in Rows : Live(i) /\ jobs[i].key = q
        BY <1>1, <1>4, <2>1, <3>0, <3>2 DEF LedgerFacts
      <3>3. CASE q # k /\ \A i \in Rows : Live(i) => jobs[i].key # q
        BY <1>1, <1>2, <1>4, <2>1, <3>0, <3>3 DEF LedgerFacts
      <3>4. QED
        BY <3>1, <3>2, <3>3
    <2>3. QED
      BY <2>1, <2>2 DEF LedgerFacts
  <1>9. QED
    BY <1>5, <1>6, <1>7, <1>8 DEF Ledger!Ask

LEMMA LedgerStep ==
    IInv /\ IInv' /\ [Next]_vars => [Ledger!Next]_(Ledger!ledgerVars)
  <1> SUFFICES ASSUME IInv, IInv', [Next]_vars
               PROVE  Ledger!Next \/ UNCHANGED <<LedgerLive, LedgerBusy, LedgerFailures>>
    BY DEF Ledger!ledgerVars
  <1>0. TypeOK
    BY DEF IInv
  <1>1. CASE UNCHANGED jobs
    BY <1>1, LedgerSame
  <1>2. ASSUME NEW c \in Clients, InsertJob(c) \/ InsertFails(c), ~UNCHANGED jobs
        PROVE  Ledger!Next
    <2>1. /\ ask[c].todo # <<>> /\ ~Deduped(Head(ask[c].todo).key)
          /\ InsertRow(Head(ask[c].todo))
      BY <1>2 DEF InsertJob, InsertFails
    <2>2. PICK call \in Call : call = Head(ask[c].todo)
      BY <1>0, <2>1, HeadCall
    <2>3. Ledger!Ask(call.key) /\ call.key \in Keys
      BY <2>1, <2>2, LedgerInsert DEF Call
    <2>4. QED
      BY <2>3 DEF Ledger!Next
  <1>3. ASSUME NEW w \in Workers, TryLockNextJob(w)
        PROVE  Ledger!Next
    <2>1. PICK i \in Rows : jobs[i].status = "queued"
                            /\ jobs' = [jobs EXCEPT ![i].status = "running"]
      BY <1>3 DEF TryLockNextJob, IsNext, Runnable
    <2> DEFINE row == [jobs[i] EXCEPT !.status = "running"]
               k == jobs[i].key
    <2>2. row \in Row /\ row.key = k /\ row.status = "running"
          /\ row.attempts = jobs[i].attempts
      BY <1>0, RowType, WrittenRows DEF Row, Status
    <2>3. Live(i) /\ jobs' = [jobs EXCEPT ![i] = row]
      BY <2>1 DEF Live
    <2> HIDE DEF row
    <2>4. /\ k \in Keys /\ k \in LedgerLive /\ k \notin LedgerBusy
          /\ LedgerFailures[k] = jobs[i].attempts
          /\ LedgerLive' = LedgerLive /\ LedgerBusy' = LedgerBusy \cup {k}
          /\ LedgerFailures' = [LedgerFailures EXCEPT ![k] = row.attempts]
      BY <2>1, <2>2, <2>3, LedgerWrite
    <2>5. LedgerFailures' = LedgerFailures
      BY <2>2, <2>4, LedgerRow DEF LedgerFacts
    <2>6. Ledger!Take(k)
      BY <2>4, <2>5 DEF Ledger!Take
    <2>7. QED
      BY <2>4, <2>6 DEF Ledger!Next
  <1>4. ASSUME NEW w \in Workers, MarkSucceeded(w) \/ MarkFailed(w), ~UNCHANGED jobs
        PROVE  Ledger!Next
    <2>1. PICK i \in Rows : i = job[w] /\ jobs[i].status = "running" /\ jobs[i] \in Row
                            /\ jobs[i].attempts \in Nat
                            /\ jobs[i].attempts < MaxAttempts
      BY <1>4, Holding DEF MarkSucceeded, MarkFailed, Mark
    <2> DEFINE k == jobs[i].key
    <2>2. PICK row \in Row :
            /\ row.key = k /\ jobs' = [jobs EXCEPT ![i] = row]
            /\ \/ row.status \in {"succeeded", "dead"}
               \/ /\ row.status = "queued" /\ row.attempts = jobs[i].attempts + 1
                  /\ jobs[i].attempts + 1 < MaxAttempts
      <3>1. CASE MarkSucceeded(w)
        <4>1. jobs' = [jobs EXCEPT ![i] = [jobs[i] EXCEPT !.status = "succeeded"]]
          BY <1>4, <2>1, <3>1 DEF MarkSucceeded, Mark
        <4>2. /\ [jobs[i] EXCEPT !.status = "succeeded"] \in Row
              /\ [jobs[i] EXCEPT !.status = "succeeded"].key = k
              /\ [jobs[i] EXCEPT !.status = "succeeded"].status = "succeeded"
          BY <2>1, WrittenRows DEF Row, Status
        <4>3. QED
          BY <4>1, <4>2
      <3>2. CASE MarkFailed(w)
        <4>1. jobs' = [jobs EXCEPT ![i] = Failed(jobs[i])]
          BY <1>4, <2>1, <3>2 DEF MarkFailed, Mark
        <4>2. QED
          BY <2>1, <4>1, WrittenRows
      <3>3. QED
        BY <1>4, <3>1, <3>2
    <2>3. Live(i)
      BY <2>1 DEF Live
    <2>4. k \in Keys /\ k \in LedgerLive /\ k \in LedgerBusy
          /\ LedgerFailures[k] = jobs[i].attempts
      BY <2>1, <2>2, <2>3, LedgerWrite
    <2>5. CASE row.status \in {"succeeded", "dead"}
      <3>1. /\ LedgerLive' = LedgerLive \ {k} /\ LedgerBusy' = LedgerBusy \ {k}
            /\ LedgerFailures' = [LedgerFailures EXCEPT ![k] = 0]
        BY <2>2, <2>3, <2>5, LedgerWrite
      <3>2. Ledger!Settle(k)
        BY <2>4, <3>1 DEF Ledger!Settle
      <3>3. QED
        BY <2>4, <3>2 DEF Ledger!Next
    <2>6. CASE row.status = "queued" /\ row.attempts = jobs[i].attempts + 1
               /\ jobs[i].attempts + 1 < MaxAttempts
      <3>1. /\ LedgerLive' = LedgerLive /\ LedgerBusy' = LedgerBusy \ {k}
            /\ LedgerFailures' = [LedgerFailures EXCEPT ![k] = row.attempts]
        BY <2>2, <2>3, <2>6, LedgerWrite
      <3>2. Ledger!Retry(k)
        BY <2>4, <2>6, <3>1 DEF Ledger!Retry
      <3>3. QED
        BY <2>4, <3>2 DEF Ledger!Next
    <2>7. QED
      BY <2>2, <2>5, <2>6
  <1>5. ASSUME NEW i \in Rows, BackoffEnds(i)
        PROVE  UNCHANGED <<LedgerLive, LedgerBusy, LedgerFailures>>
    <2> DEFINE row == [jobs[i] EXCEPT !.waiting = FALSE]
    <2>1. /\ row \in Row /\ row.key = jobs[i].key /\ row.status = jobs[i].status
          /\ row.attempts = jobs[i].attempts
          /\ jobs' = [jobs EXCEPT ![i] = row]
      BY <1>0, <1>5, RowType, WrittenRows DEF BackoffEnds, Row
    <2> HIDE DEF row
    <2>2. /\ Rows' = Rows
          /\ \A j \in Rows : /\ jobs'[j].key = jobs[j].key
                             /\ jobs'[j].status = jobs[j].status
                             /\ jobs'[j].attempts = jobs[j].attempts
      BY <1>0, <2>1, Written
    <2>3. \A j \in Rows : (Live(j)' <=> Live(j)) /\ (Running(j)' <=> Running(j))
      BY <2>2 DEF Live, Running
    <2>4. LedgerLive' = LedgerLive /\ LedgerBusy' = LedgerBusy
          /\ \A k \in Keys : LiveOf(k)' = LiveOf(k)
      BY <2>2, <2>3 DEF LedgerLive, LedgerBusy, LiveOf
    <2>5. LedgerFailures' = LedgerFailures
      <3>1. ASSUME NEW k \in Keys, LiveOf(k) # {}
            PROVE  jobs'[CHOOSE j \in LiveOf(k) : TRUE].attempts
                    = jobs[CHOOSE j \in LiveOf(k) : TRUE].attempts
        <4>1. (CHOOSE j \in LiveOf(k) : TRUE) \in Rows
          BY <3>1 DEF LiveOf
        <4>2. QED
          BY <2>2, <4>1
      <3>2. QED
        BY <2>4, <3>1 DEF LedgerFailures
    <2>6. QED
      BY <2>4, <2>5
  <1>6. CASE Restart
    BY <1>6, LedgerSame DEF Restart
  <1>7. ASSUME NEW w \in Workers, Work(w)
        PROVE  TryLockNextJob(w) \/ MarkSucceeded(w) \/ MarkFailed(w) \/ UNCHANGED jobs
    BY <1>7 DEF Work, RecordRunStart, HandleWork, HandleAuthor, Expanded,
                RecordRunFinish
  <1>8. ASSUME NEW c \in Callers, Request(c)
        PROVE  UNCHANGED jobs
    BY <1>8 DEF Request, SearchWorks, ScheduleGraphUpdate, ResolveIdentifier,
                EnqueueEnrichmentJob, RequestEnds, Asking
  <1>9. ASSUME NEW c \in Clients, SelectJob(c)
        PROVE  UNCHANGED jobs
    BY <1>9 DEF SelectJob
  <1>10. UNCHANGED vars => UNCHANGED jobs
    BY DEF vars
  <1>11. QED
    BY <1>1, <1>2, <1>3, <1>4, <1>5, <1>6, <1>7, <1>8, <1>9, <1>10
       DEF Next, Enqueue

\* The queue's tables, statements and workers implement the job ledger: one
\* unfinished job per piece of work, one worker at it, MaxAttempts failures
\* at most, whoever asks and whatever statement fails.
THEOREM ImplementsLedger == Spec => LedgerSpec
  <1>1. Spec => Ledger!Init /\ [][Ledger!Next]_(Ledger!ledgerVars)
    BY LedgerInit, LedgerStep, Invariance, PTL DEF Spec
  <1>2. QED
    BY <1>1, PTL DEF LedgerSpec, Ledger!Spec

=============================================================================
