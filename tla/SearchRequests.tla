--------------------------- MODULE SearchRequests ---------------------------
(***************************************************************************)
(* The search requests of indexer-service (internal/indexer): the request  *)
(* table (store.go, pgstore.go), the orchestrator's workers, its recovery  *)
(* worker and the scheduler of wanted works and authors (orchestrator.go), *)
(* and the requests of operators (internal/api/handlers.go).               *)
(*                                                                         *)
(* A request is known by its key, a hash of the query.  hydrateQuery puts  *)
(* the work's title and author into the query when the metadata service    *)
(* answers, so one work has two keys: with and without them.               *)
(*                                                                         *)
(* Left out: the candidates themselves and their scores (dedupe and        *)
(* ranking are pure), backend metrics and tiers, the pruning of            *)
(* candidates, the LIMIT of 100 rows of one recovery, and two searches of  *)
(* one request storing their candidates in the same instant.               *)
(***************************************************************************)
EXTENDS Naturals, Sequences, FiniteSets

CONSTANTS
    Entities,       \* wanted works and authors, numbered: works come first,
                    \*   and a smaller number has the higher priority
    Hydratable,     \* those the metadata service can describe
    Workers,        \* the orchestrator's workers: two in the code
    Stores,         \* the stores to consider, of {"memory", "postgres"}
    MaxAttempts,    \* max_attempts: 3 in the code
    PerTick,        \* maxEnqueuesPerTick: 5 in the code
    Cadence,        \* minutes between two searches of a wanted entity
    MaxFaults,      \* bound: store calls that fail, and restarts
    MaxOps          \* bound: operator requests on the wanted lists

ASSUME EntitiesAssumption == Entities \subseteq Nat /\ IsFiniteSet(Entities)
ASSUME HydratableAssumption == Hydratable \subseteq Entities
ASSUME WorkersAssumption == Workers # {} /\ IsFiniteSet(Workers)
ASSUME StoresAssumption == Stores \subseteq {"memory", "postgres"}
ASSUME BoundsAssumption ==
    /\ MaxAttempts \in Nat \ {0}
    /\ PerTick \in Nat \ {0}
    /\ Cadence \in Nat \ {0}
    /\ {MaxFaults, MaxOps} \subseteq Nat

VARIABLES
    store,      \* the store main.go chose when the service started
    requests,   \* indexer_search_requests, by key
    table,      \* the keys in the order their rows were created
    worker,     \* each worker: where it is and what it remembers
    wanted,     \* indexer_wanted_works and indexer_wanted_authors
    claims,     \* history: times each request was claimed
    cut,        \* history: a write was lost, or the service restarted
    used        \* bound: faults and operator requests so far

vars == <<store, requests, table, worker, wanted, claims, cut, used>>

-----------------------------------------------------------------------------
\* The keys of an entity: hydrateQuery asks the metadata service, which may
\* know it and may be down.
Spelled(e) == {[entity |-> e, hydrated |-> h] :
                  h \in IF e \in Hydratable THEN BOOLEAN ELSE {FALSE}}
Keys == UNION {Spelled(e) : e \in Entities}

\* A row: due is not_before <= now, lease is lease_expires_at against the
\* clock, stored says that a finished search left its candidates.
Status == {"absent", "queued", "running", "succeeded", "failed"}
Request == [status : Status, attempt : Nat, due : BOOLEAN,
            lease : {"none", "held", "expired"}, stored : BOOLEAN]
AbsentRequest == [status |-> "absent", attempt |-> 0, due |-> FALSE,
                  lease |-> "none", stored |-> FALSE]
NewRequest == [AbsentRequest EXCEPT !.status = "queued", !.due = TRUE]

Claimed(r) == [r EXCEPT !.status = "running", !.attempt = @ + 1, !.lease = "held"]

Succeeded(r) == [r EXCEPT !.status = "succeeded", !.lease = "none"]

\* Mutant: a request put back keeps its old status.
RescheduledRunning(r, terminal) ==
    [r EXCEPT !.status = IF terminal THEN "failed" ELSE @, !.due = FALSE, !.lease = "none"]

\* PGStore trusts the caller's verdict; the memory store also looks at the
\* row.
Rescheduled(r, terminal) ==
    [r EXCEPT !.status = IF \/ terminal
                            \/ store = "memory" /\ r.attempt >= MaxAttempts
                         THEN "failed" ELSE "queued",
              !.due = FALSE, !.lease = "none"]

\* Mutant: recovery never gives up.
RecoveredForever(r) ==
    [r EXCEPT !.attempt = @ + 1, !.lease = "none", !.status = "queued", !.due = FALSE]

\* An interrupted attempt is counted when it is claimed and again here.
Recovered(r) ==
    LET taken == [r EXCEPT !.attempt = @ + 1, !.lease = "none"] IN
    IF taken.attempt >= MaxAttempts
    THEN [taken EXCEPT !.status = "failed", !.due = TRUE]
    ELSE [taken EXCEPT !.status = "queued", !.due = FALSE]

Exists(k) == requests[k].status # "absent"
\* A call on the store fails, or the service dies: only with Postgres does
\* the behaviour go on.
Fault ==
    /\ store = "postgres"
    /\ used.faults < MaxFaults
    /\ used' = [used EXCEPT !.faults = @ + 1]
NoFault == UNCHANGED used
Lost == Fault /\ cut' = TRUE
NoneLost == UNCHANGED <<cut, used>>

-----------------------------------------------------------------------------
(* Enqueueing.                                                             *)

\* Mutant: a key that has a row gets a second one.
CreateOrAppend(enqueued) ==
    /\ requests' = [k \in Keys |-> IF k \in enqueued /\ ~Exists(k)
                                   THEN NewRequest ELSE requests[k]]
    /\ \E order \in [1..Cardinality(enqueued) -> enqueued] : table' = table \o order

\* Mutant: a finished request is searched afresh, its attempts used up.
CreateOrRestart(enqueued) ==
    /\ requests' = [k \in Keys |->
         IF k \notin enqueued THEN requests[k]
         ELSE IF Exists(k) THEN [requests[k] EXCEPT !.status = "queued"]
         ELSE NewRequest]
    /\ \E order \in [1..Cardinality(enqueued) -> enqueued] :
         table' = table \o SelectSeq(order, LAMBDA k : ~Exists(k))

\* The requests and the table once the keys of enqueued are in it: a key
\* that has a row keeps it, whatever its status.
CreateOrGet(enqueued) ==
    LET new == {k \in enqueued : ~Exists(k)} IN
    /\ requests' = [k \in Keys |-> IF k \in new THEN NewRequest ELSE requests[k]]
    /\ \E order \in [1..Cardinality(new) -> new] :
         /\ \A i, j \in DOMAIN order :
               i < j => order[i].entity < order[j].entity
         /\ table' = table \o order

\* POST /search/work/{id} and POST /search/bulk.
EnqueueSearch(k) ==
    /\ ~Exists(k)
    /\ CreateOrGet({k})
    /\ UNCHANGED <<store, worker, wanted, claims, cut, used>>

-----------------------------------------------------------------------------
(* The wanted lists.  age is the minutes since last_enqueued_at, counted    *)
(* up to Cadence, when the entity is due.                                   *)

Due(e) == wanted[e].state = "on" /\ wanted[e].age = Cadence

OperatorAsks ==
    /\ used.ops < MaxOps
    /\ used' = [used EXCEPT !.ops = @ + 1]

SetWanted(e, state) ==
    /\ OperatorAsks
    /\ wanted' = [wanted EXCEPT ![e].state = state]
    /\ UNCHANGED <<store, requests, table, worker, claims, cut>>

DeleteWanted(e) ==
    /\ OperatorAsks
    /\ wanted[e].state # "absent"
    /\ wanted' = [wanted EXCEPT ![e] = [state |-> "absent", age |-> Cadence]]
    /\ UNCHANGED <<store, requests, table, worker, claims, cut>>

\* The due entities one tick takes: the first PerTick.
Picked == {e \in Entities :
             Due(e) /\ Cardinality({d \in Entities : Due(d) /\ d < e}) < PerTick}

\* Mutant: the entities are enqueued and not marked.
UnmarkedAge(e) == IF wanted[e].age < Cadence THEN wanted[e].age + 1 ELSE Cadence

\* MarkWantedWorkEnqueued, MarkWantedAuthorEnqueued, and a minute passing.
AgeAfterTick(e) ==
    IF e \in Picked THEN 1
    ELSE IF wanted[e].age < Cadence THEN wanted[e].age + 1 ELSE Cadence

\* One minute: enqueueDueWanted, and the time until the next tick.  A tick
\* makes at most five calls of five seconds, so it ends before the next.
EnqueueDueWanted ==
    /\ \E key \in [Picked -> Keys] :
         /\ \A e \in Picked : key[e].entity = e
         /\ CreateOrGet({key[e] : e \in Picked})
    /\ wanted' = [e \in Entities |-> IF wanted[e].state = "absent" THEN wanted[e]
                                     ELSE [wanted[e] EXCEPT !.age = AgeAfterTick(e)]]
    /\ UNCHANGED <<store, worker, claims, cut, used>>

-----------------------------------------------------------------------------
(* The workers: claim, read the request again, search, store the            *)
(* candidates, write the outcome.  Time passes between any two steps.       *)

WorkerPC == {"idle", "read", "search", "mark", "reschedule", "again"}
NoKey == [entity |-> 0, hydrated |-> FALSE]
WorkerIdle == [pc |-> "idle", key |-> NoKey, attempt |-> 0, seen |-> 0]
Go(w, pc) == worker' = [worker EXCEPT ![w].pc = pc]
Rest(w) == worker' = [worker EXCEPT ![w] = WorkerIdle]

Claimable(k) == requests[k].status = "queued" /\ requests[k].due

\* TryLockNextSearchRequest takes the oldest.  PGStore reads the row again
\* after its commit: when that fails the row is claimed and nobody has it.
TryLockNext(w, i) ==
    LET k == table[i] IN
    /\ worker[w].pc = "idle"
    /\ Claimable(k)
    /\ \A j \in 1..(i - 1) : ~Claimable(table[j])
    /\ requests' = [requests EXCEPT ![k] = Claimed(@)]
    /\ claims' = [claims EXCEPT ![k] = @ + 1]
    /\ \/ /\ worker' = [worker EXCEPT ![w] =
                [pc |-> "read", key |-> k, attempt |-> requests[k].attempt + 1,
                 seen |-> 0]]
          /\ NoneLost
       \/ Lost /\ UNCHANGED worker
    /\ UNCHANGED <<store, table, wanted>>

GetSearchRequest(w) ==
    /\ worker[w].pc = "read"
    /\ \/ /\ worker' = [worker EXCEPT ![w].pc = "search",
                                      ![w].seen = requests[worker[w].key].attempt]
          /\ NoFault
       \/ Fault /\ Go(w, "again")
    /\ UNCHANGED <<store, requests, table, wanted, claims, cut>>

\* The backends answer, or fail, which ProcessRequest passes over: a search
\* that reached no backend stores an empty list.
ReplaceCandidates(w) ==
    /\ worker[w].pc = "search"
    /\ \/ /\ requests' = [requests EXCEPT ![worker[w].key].stored = TRUE]
          /\ Go(w, "mark")
          /\ NoFault
       \/ Fault /\ Go(w, "reschedule") /\ UNCHANGED requests
    /\ UNCHANGED <<store, table, wanted, claims, cut>>

\* A write of the outcome, whose own error the caller drops.
Write(k, row) ==
    \/ requests' = [requests EXCEPT ![k] = row] /\ NoneLost
    \/ Lost /\ UNCHANGED requests

MarkSucceeded(w) ==
    LET k == worker[w].key IN
    /\ worker[w].pc = "mark"
    /\ Write(k, Succeeded(requests[k]))
    /\ Rest(w)
    /\ UNCHANGED <<store, table, wanted, claims>>

\* ProcessRequest reschedules with the attempts it read, and returns the
\* error, on which the worker does so again with the attempts it claimed.
RescheduleRead(w) ==
    LET k == worker[w].key IN
    /\ worker[w].pc = "reschedule"
    /\ Write(k, Rescheduled(requests[k], worker[w].seen >= MaxAttempts))
    /\ Go(w, "again")
    /\ UNCHANGED <<store, table, wanted, claims>>

RescheduleClaimed(w) ==
    LET k == worker[w].key IN
    /\ worker[w].pc = "again"
    /\ Write(k, Rescheduled(requests[k], worker[w].attempt >= MaxAttempts))
    /\ Rest(w)
    /\ UNCHANGED <<store, table, wanted, claims>>

WorkerStep(w) == \/ \E i \in DOMAIN table : TryLockNext(w, i)
                 \/ GetSearchRequest(w)
                 \/ ReplaceCandidates(w)
                 \/ MarkSucceeded(w)
                 \/ RescheduleRead(w)
                 \/ RescheduleClaimed(w)

-----------------------------------------------------------------------------
(* Recovery, the clock and restarts.                                        *)

Expired(k) == requests[k].status = "running" /\ requests[k].lease = "expired"

\* PGStore's recovery never commits: its UPDATE is sent while the rows of
\* its SELECT are still open on the transaction's connection, and pgx
\* refuses it ("conn busy").
RecoverExpired ==
    /\ store = "memory"
    /\ \E k \in Keys : Expired(k)
    /\ requests' = [k \in Keys |-> IF Expired(k) THEN Recovered(requests[k])
                                   ELSE requests[k]]
    /\ UNCHANGED <<store, table, worker, wanted, claims, cut, used>>

\* Two minutes pass since the claim.  A search of several backends, each
\* with its own timeout, may take longer.
LeaseExpires(k) ==
    /\ requests[k].lease = "held"
    /\ requests' = [requests EXCEPT ![k].lease = "expired"]
    /\ UNCHANGED <<store, table, worker, wanted, claims, cut, used>>

BackoffElapses(k) ==
    /\ requests[k].status = "queued" /\ ~requests[k].due
    /\ requests' = [requests EXCEPT ![k].due = TRUE]
    /\ UNCHANGED <<store, table, worker, wanted, claims, cut, used>>

\* Only the database survives a restart: the memory store's is a new
\* behaviour and not an action of this one.
Restart ==
    /\ Lost
    /\ worker' = [w \in Workers |-> WorkerIdle]
    /\ UNCHANGED <<store, requests, table, wanted, claims>>

-----------------------------------------------------------------------------
Init ==
    /\ store \in Stores
    /\ requests = [k \in Keys |-> AbsentRequest]
    /\ table = <<>>
    /\ worker = [w \in Workers |-> WorkerIdle]
    /\ wanted = [e \in Entities |-> [state |-> "absent", age |-> Cadence]]
    /\ claims = [k \in Keys |-> 0]
    /\ cut = FALSE
    /\ used = [faults |-> 0, ops |-> 0]

Next ==
    \/ \E k \in Keys : EnqueueSearch(k) \/ LeaseExpires(k) \/ BackoffElapses(k)
    \/ \E e \in Entities : \/ \E s \in {"on", "off"} : SetWanted(e, s)
                           \/ DeleteWanted(e)
    \/ EnqueueDueWanted
    \/ \E w \in Workers : WorkerStep(w)
    \/ RecoverExpired
    \/ Restart

Spec == Init /\ [][Next]_vars

\* Workers, the recovery worker and the scheduler are loops on tickers, and
\* time passes; nothing is asked of operators, errors or restarts.
Fairness ==
    /\ \A w \in Workers : WF_vars(WorkerStep(w))
    /\ WF_vars(RecoverExpired)
    /\ WF_vars(EnqueueDueWanted)
    /\ \A k \in Keys : WF_vars(LeaseExpires(k)) /\ WF_vars(BackoffElapses(k))

FairSpec == Spec /\ Fairness

-----------------------------------------------------------------------------
(* Properties.                                                             *)

\* The variables keep to their types; the table holds the keys that have a
\* row, once each, and a busy worker's request is one of them.
TypeOK ==
    /\ store \in {"memory", "postgres"}
    /\ requests \in [Keys -> Request]
    /\ table \in Seq(Keys)
    /\ \A k \in Keys : Exists(k) = (\E i \in DOMAIN table : table[i] = k)
    /\ \A i, j \in DOMAIN table : table[i] = table[j] => i = j
    /\ worker \in [Workers -> [pc : WorkerPC, key : Keys \cup {NoKey},
                               attempt : Nat, seen : Nat]]
    /\ \A w \in Workers : worker[w].pc # "idle" => worker[w].key \in Keys
                                                  /\ Exists(worker[w].key)
    /\ wanted \in [Entities -> [state : {"absent", "on", "off"}, age : 0..Cadence]]
    /\ claims \in [Keys -> Nat]
    /\ cut \in BOOLEAN
    /\ used \in [faults : Nat, ops : Nat]

\* Retries are bounded.  In Postgres every failure is rescheduled twice and
\* each verdict is taken from attempts read at another time: beyond
\* MaxAttempts, each other worker can bring a request back twice and no more.
\* In memory an interrupted attempt costs two, so half of them are had.
ClaimsBounded ==
    \A k \in Keys :
        claims[k] <= IF store = "postgres"
                     THEN MaxAttempts + 2 * (Cardinality(Workers) - 1)
                     ELSE (MaxAttempts + 1) \div 2

\* A request is only said to have succeeded once a search of it has stored its
\* candidates, whichever worker, late or not, wrote the status; and it stays so,
\* unless a worker whose own search of it failed is still to reschedule it: no
\* recovery, second enqueue, scheduler or restart takes it back.
SuccessLasts ==
    [][\A k \in Keys :
         /\ requests'[k].status = "succeeded" => requests'[k].stored
         /\ requests[k].status = "succeeded" /\ requests'[k].status # "succeeded"
            => \E w \in Workers : /\ worker[w].key = k
                                  /\ worker[w].pc \in {"reschedule", "again"}]_vars

\* Every request is settled for good (phase15_todo.md:76), unless Postgres
\* loses a write or the service restarts: then nothing recovers the request.
Settled(k) == requests[k].status \in {"absent", "succeeded", "failed"}
EverySearchSettles ==
    \A k \in Keys : <>[](Settled(k) \/ cut)

\* No wanted work or author that is due waits for ever behind those of
\* higher priority, while Cadence leaves room for all of them.
WantedServed ==
    Cardinality(Entities) <= PerTick * Cadence =>
        \A e \in Entities : Due(e) ~> ~Due(e)

\* A wanted entity is searched again on its cadence (phase15_todo.md:179):
\* one that is due again and again has a search under way again and again.
WantedSearchedAgain ==
    \A e \in Entities : []<>Due(e) =>
        []<>(\E k \in Keys : /\ k.entity = e
                             /\ requests[k].status \in {"queued", "running"})

=============================================================================
