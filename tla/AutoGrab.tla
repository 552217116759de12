------------------------------ MODULE AutoGrab ------------------------------
(***************************************************************************)
(* The auto-grab worker of app/backend (internal/autograb/worker.go): on   *)
(* every tick it asks the indexer for the searches that succeeded since    *)
(* the newest one it has seen, picks a candidate of each and queues its    *)
(* download.  Between its calls searches succeed, users grab, jobs end and *)
(* come back, and the backend restarts.                                    *)
(*                                                                         *)
(* Time is a clock in ticks of a second, true UTC.  The timestamps the two *)
(* services exchange are not: formatSearchTimestamp sends the local wall   *)
(* clock with the label UTC, and PGStore's updated_at is a TIMESTAMP       *)
(* without zone, stored in the server's zone and read back as UTC.         *)
(*                                                                         *)
(* A job here stands for a download job and the fallback jobs that replace *)
(* it (DownloadQueue has those).  Left out: how a candidate is judged      *)
(* (Eligible says which searches have an acceptable one), the window of    *)
(* 500 jobs, and a list request that fails, which changes nothing.         *)
(***************************************************************************)
EXTENDS Integers, Sequences, FiniteSets

CONSTANTS
    Requests,       \* search requests, by id
    WorkOf,         \* the work each request searches
    ReleaseOf,      \* the fingerprint of the candidate each one would pick
    AutoGrabs,      \* the requests that ask for auto-grab
    Eligible,       \* the requests that find an acceptable candidate
    Hosts,          \* where the services may run: the zone's offset from UTC,
                    \*   the indexer's store, and the searches listed at most
                    \*   (50 in the code)
    Lookback,       \* startupLookback: 15 minutes in the code
    MaxClock,       \* bound: ticks
    MaxUserJobs,    \* bound: jobs users queue
    MaxLate,        \* bound: moves of jobs that had ended
    MaxFaults       \* bound: calls of the worker that fail, and restarts

ASSUME RequestsAssumption ==
    /\ Requests \subseteq Nat \ {0} /\ IsFiniteSet(Requests)
    /\ AutoGrabs \subseteq Requests /\ Eligible \subseteq Requests
    /\ DOMAIN WorkOf = Requests
    /\ DOMAIN ReleaseOf = Requests
ASSUME HostsAssumption ==
    Hosts \subseteq [zone : Int, store : {"memory", "postgres"}, limit : Nat \ {0}]
ASSUME BoundsAssumption ==
    {Lookback, MaxClock, MaxUserJobs, MaxLate, MaxFaults} \subseteq Nat

VARIABLES
    host,       \* where the services run, one of Hosts
    clock,
    updated,    \* updated_at of each succeeded request, 0 before
    lastSeen,   \* Worker.lastSeen
    processed,  \* Worker.processed
    pass,       \* runOnce: where it is, the requests left, the newest seen
    grabs,      \* indexer_grabs: the candidate, by release and work, or 0
    jobs,       \* download_jobs, as far as the worker looks at them
    looks,      \* history: times the worker looked and found no job in the way
    handled,    \* history: requests ever marked processed
    missed,     \* history: requests a fault, the limit or a restart cost
    used        \* bound: user grabs, late moves, faults (restarts included)

vars == <<host, clock, updated, lastSeen, processed, pass, grabs, jobs,
          looks, handled, missed, used>>

-----------------------------------------------------------------------------
Works == {WorkOf[r] : r \in Requests}
Releases == {ReleaseOf[r] : r \in Requests}

\* cand is the request whose candidate it is; for the request it was queued
\* for, or 0 when a user queued it; failed is failed or canceled; done, that it
\* was completed once.  look and since are history: the value of looks when it
\* was queued, and when it was last queued or brought back from "failed".
JobStatus == {"active", "completed", "failed"}
Job == [work : Works, cand : Requests, for : Requests \cup {0}, status : JobStatus,
        done : BOOLEAN, look : Nat, since : Nat]

PassIdle == [pc |-> "idle", todo |-> {}, seen |-> 0, grab |-> 0]

\* The updated_at the worker is told.
Stamp(r) == IF host.store = "postgres" THEN updated[r] + host.zone ELSE updated[r]

\* Mutant: the second of slack is forgotten.
UpdatedAfterTight(seen) == seen + host.zone

\* The instant the indexer compares with, for a given lastSeen.
UpdatedAfter(seen) == seen - 1 + host.zone

VisibleAfter(seen) == {r \in Requests : updated[r] # 0 /\ updated[r] > UpdatedAfter(seen)}
Visible == VisibleAfter(lastSeen)

\* ORDER BY updated_at DESC, id DESC.
Newer(s, r) == \/ updated[s] > updated[r]
               \/ updated[s] = updated[r] /\ s > r
Listed == {r \in Visible : Cardinality({s \in Visible : Newer(s, r)}) < host.limit}

Newest(S) == CHOOSE r \in S : \A s \in S \ {r} : Newer(r, s)
Latest(S) == CHOOSE t \in S : \A u \in S : u <= t

\* Mutant: a job of the work under another candidate is forgotten.
HasCandidateJob(r) == \E j \in DOMAIN jobs : jobs[j].cand = r

HasExistingJob(r) ==
    \E j \in DOMAIN jobs :
        \/ jobs[j].cand = r
        \/ jobs[j].work = WorkOf[r] /\ jobs[j].status # "failed"

-----------------------------------------------------------------------------
(* The worker.  Each step ends at a call on another service or on the       *)
(* download queue.                                                         *)

Fault(r) ==
    /\ used.faults < MaxFaults
    /\ used' = [used EXCEPT !.faults = @ + 1]
    /\ missed' = missed \cup {r}
NoFault == UNCHANGED <<used, missed>>

Advance(r) == pass' = [pass EXCEPT !.pc = "next", !.todo = @ \ {r}, !.grab = 0]
MarkProcessed(r) ==
    /\ processed' = processed \cup {r}
    /\ handled' = handled \cup {r}

\* The requests beyond the limit may never be listed again.
ListSearchRequests ==
    /\ pass.pc = "idle"
    /\ pass' = [pc |-> "next", todo |-> Listed, grab |-> 0,
                seen |-> Latest({lastSeen} \cup {Stamp(r) : r \in Listed})]
    /\ missed' = missed \cup (Visible \ Listed)
    /\ UNCHANGED <<host, clock, updated, lastSeen, processed, grabs, jobs, looks,
                   handled, used>>

Imported(r) == \E j \in DOMAIN jobs : jobs[j].work = WorkOf[r] /\ jobs[j].done

Skip(r) ==
    /\ r \notin AutoGrabs \/ r \in processed
    /\ Advance(r)
    /\ UNCHANGED <<processed, handled>> /\ NoFault

\* The library has the work (a completed download of it was imported), or no
\* candidate is acceptable, or they cannot be listed: each marks the request
\* processed.
Reject(r) ==
    /\ r \in AutoGrabs \ processed
    /\ Advance(r)
    /\ MarkProcessed(r)
    /\ \/ Imported(r) /\ NoFault
       \/ r \notin Eligible /\ NoFault
       \/ r \in Eligible /\ Fault(r)

PickCandidate(r) ==
    /\ r \in (AutoGrabs \cap Eligible) \ processed
    /\ pass' = [pass EXCEPT !.pc = "jobs"]
    /\ UNCHANGED <<processed, handled>> /\ NoFault

Consider ==
    /\ pass.pc = "next" /\ pass.todo # {}
    /\ LET r == Newest(pass.todo) IN Skip(r) \/ Reject(r) \/ PickCandidate(r)
    /\ UNCHANGED <<host, clock, updated, lastSeen, grabs, jobs, looks>>

\* Mutant: a release grabbed before gets the later candidate.
CreateGrabLatest(r) == grabs' = [grabs EXCEPT ![<<ReleaseOf[r], WorkOf[r]>>] = r]

\* CreateGrab: one grab of a release for a work.
CreateGrab(r) ==
    grabs' = [grabs EXCEPT ![<<ReleaseOf[r], WorkOf[r]>>] = IF @ = 0 THEN r ELSE @]
GrabbedFor(r) == grabs'[<<ReleaseOf[r], WorkOf[r]>>]

\* hasExistingJob and GrabCandidate: a grab the indexer made is not undone
\* when its answer is lost.
GrabCandidate ==
    LET r == Newest(pass.todo) IN
    /\ pass.pc = "jobs"
    /\ \/ /\ HasExistingJob(r)
          /\ Advance(r)
          /\ MarkProcessed(r)
          /\ UNCHANGED <<grabs, looks>> /\ NoFault
       \/ /\ ~HasExistingJob(r)
          /\ looks' = looks + 1
          /\ CreateGrab(r)
          /\ pass' = [pass EXCEPT !.pc = "enqueue", !.grab = GrabbedFor(r)]
          /\ UNCHANGED <<processed, handled>> /\ NoFault
       \/ /\ ~HasExistingJob(r)
          /\ UNCHANGED grabs \/ CreateGrab(r)
          /\ Advance(r)
          /\ UNCHANGED <<looks, processed, handled>> /\ Fault(r)
    /\ UNCHANGED <<host, clock, updated, lastSeen, jobs>>

NewJob(cand, for) ==
    jobs' = Append(jobs, [work |-> WorkOf[cand], cand |-> cand, for |-> for,
                          status |-> "active", done |-> FALSE,
                          look |-> looks, since |-> looks])

EnqueueFromGrab ==
    LET r == Newest(pass.todo) IN
    /\ pass.pc = "enqueue"
    /\ Advance(r)
    /\ \/ NewJob(pass.grab, r) /\ MarkProcessed(r) /\ NoFault
       \/ UNCHANGED <<jobs, processed, handled>> /\ Fault(r)
    /\ UNCHANGED <<host, clock, updated, lastSeen, grabs, looks>>

\* Mutant: the watermark is set to the time of the poll.
EndPassNow ==
    /\ pass.pc = "next" /\ pass.todo = {}
    /\ lastSeen' = clock
    /\ pass' = PassIdle
    /\ UNCHANGED <<host, clock, updated, processed, grabs, jobs, looks, handled,
                   missed, used>>

EndPass ==
    /\ pass.pc = "next" /\ pass.todo = {}
    /\ lastSeen' = pass.seen
    /\ pass' = PassIdle
    /\ UNCHANGED <<host, clock, updated, processed, grabs, jobs, looks, handled,
                   missed, used>>

RunOnce == ListSearchRequests \/ Consider \/ GrabCandidate \/ EnqueueFromGrab \/ EndPass

-----------------------------------------------------------------------------
(* The rest of the system: the indexer, the users, the download queue, time *)
(* and restarts.                                                           *)

SearchSucceeds(r) ==
    /\ updated[r] = 0
    /\ updated' = [updated EXCEPT ![r] = clock]
    /\ UNCHANGED <<host, clock, lastSeen, processed, pass, grabs, jobs, looks, handled,
                   missed, used>>

\* A user grabs a candidate of a search and queues its download.
UserGrabs(r) ==
    /\ updated[r] # 0 /\ r \in Eligible
    /\ used.grabs < MaxUserJobs
    /\ used' = [used EXCEPT !.grabs = @ + 1]
    /\ CreateGrab(r)
    /\ NewJob(GrabbedFor(r), 0)
    /\ UNCHANGED <<host, clock, updated, lastSeen, processed, pass, looks, handled, missed>>

\* The download queue writes a job's status without looking at the one it has:
\* polls, an operator's cancel or retry at any moment, and whatever was in flight
\* when the job ended, its replacement included (DownloadQueue has these writes).
JobMoves(j, status) ==
    /\ jobs[j].status # status
    /\ \/ jobs[j].status = "active" /\ UNCHANGED used
       \/ /\ jobs[j].status # "active" /\ used.late < MaxLate
          /\ used' = [used EXCEPT !.late = @ + 1]
    /\ jobs' = [jobs EXCEPT ![j].status = status,
                            ![j].done = @ \/ status = "completed",
                            ![j].since = IF jobs[j].status = "failed" THEN looks ELSE @]
    /\ UNCHANGED <<host, clock, updated, lastSeen, processed, pass, grabs, looks, handled,
                   missed>>

Tick ==
    /\ clock < MaxClock
    /\ clock' = clock + 1
    /\ UNCHANGED <<host, updated, lastSeen, processed, pass, grabs, jobs, looks, handled,
                   missed, used>>

Restart ==
    /\ used.faults < MaxFaults
    /\ used' = [used EXCEPT !.faults = @ + 1]
    /\ lastSeen' = clock - Lookback
    /\ processed' = {}
    /\ pass' = PassIdle
    /\ missed' = missed \cup {r \in Requests : updated[r] # 0
                                /\ r \notin VisibleAfter(clock - Lookback)}
    /\ UNCHANGED <<host, clock, updated, grabs, jobs, looks, handled>>

-----------------------------------------------------------------------------
Init ==
    /\ host \in Hosts
    /\ clock = 1
    /\ updated = [r \in Requests |-> 0]
    /\ lastSeen = clock - Lookback
    /\ processed = {}
    /\ pass = PassIdle
    /\ grabs = [k \in Releases \X Works |-> 0]
    /\ jobs = <<>>
    /\ looks = 0
    /\ handled = {}
    /\ missed = {}
    /\ used = [grabs |-> 0, late |-> 0, faults |-> 0]

Next ==
    \/ RunOnce
    \/ \E r \in Requests : SearchSucceeds(r) \/ UserGrabs(r)
    \/ \E j \in DOMAIN jobs, s \in JobStatus : JobMoves(j, s)
    \/ Tick
    \/ Restart

Spec == Init /\ [][Next]_vars

\* The worker is a loop on a ticker.
Fairness == WF_vars(RunOnce)
FairSpec == Spec /\ Fairness

-----------------------------------------------------------------------------
(* Properties.                                                             *)

\* The variables keep to their types; a grab is of the release and work it
\* is found by, and every job is of the candidate its release was first
\* grabbed by.
TypeOK ==
    /\ host \in Hosts
    /\ clock \in Nat
    /\ updated \in [Requests -> Nat]
    /\ lastSeen \in Int
    /\ processed \subseteq Requests
    /\ pass \in [pc : {"idle", "next", "jobs", "enqueue"}, todo : SUBSET Requests,
                 seen : Int, grab : Requests \cup {0}]
    /\ grabs \in [Releases \X Works -> Requests \cup {0}]
    /\ \A k \in DOMAIN grabs : grabs[k] # 0 =>
         k = <<ReleaseOf[grabs[k]], WorkOf[grabs[k]]>>
    /\ jobs \in Seq(Job)
    /\ \A j \in DOMAIN jobs :
         grabs[<<ReleaseOf[jobs[j].cand], jobs[j].work>>] = jobs[j].cand
    /\ looks \in Nat
    /\ handled \subseteq Requests
    /\ missed \subseteq Requests
    /\ used \in [grabs : Nat, late : Nat, faults : Nat]

\* The worker queues a download of a work only beside jobs of it that had failed
\* or been canceled when it looked, or were queued since: an older job that has
\* not failed now came after that look, or came back after it, whatever searches,
\* users, restarts, and late writes do between its calls.  And a candidate whose
\* download failed is not grabbed again when the worker forgets what it processed
\* and looks back.  (One whose release was grabbed before under another candidate
\* can be: its job has that candidate's id.)
AutoOnce ==
    \A j \in DOMAIN jobs : jobs[j].for # 0 =>
        \A i \in 1..(j - 1) :
            /\ jobs[i].work = jobs[j].work /\ jobs[i].status # "failed"
                   => jobs[i].since >= jobs[j].look
            /\ ~(jobs[i].for = jobs[j].for /\ jobs[i].cand = jobs[i].for)

\* The watermark never passes an auto-grab search the worker has not dealt
\* with, except at the price of a failed call, the limit or a restart: what
\* succeeds while a pass is under way is still listed by the next one.
WatermarkSafe ==
    \A r \in AutoGrabs : updated[r] # 0 /\ r \notin handled \cup missed => r \in Visible

Queued(r) == \E j \in DOMAIN jobs : jobs[j].work = WorkOf[r]

\* Every auto-grab search that finds an acceptable candidate leads to a
\* download of its work, unless a failed call, the limit or a restart
\* costs it.
FreshGrabbed ==
    \A r \in AutoGrabs \cap Eligible :
        updated[r] # 0 ~> Queued(r) \/ r \in missed

\* "Auto-grab now sees fresh searches reliably"
\* (CODEX_CHANGE_SUMMARY_20260314.md:87): with no call failing and no
\* restart, the worker deals with every auto-grab search that succeeds.  Not so
\* east of UTC (README, section 7); no run checks it.
FreshSeen == \A r \in AutoGrabs : updated[r] # 0 ~> r \in handled

=============================================================================
