--------------------------- MODULE AutoGrabProofs ---------------------------
(***************************************************************************)
(* Proofs about the auto-grab worker, for any requests, hosts and numbers  *)
(* of grabs, late writes, faults and restarts.                             *)
(*                                                                         *)
(* AutoOnce needs to know what the worker found out about the request it   *)
(* is at and what still holds when it enqueues (PassInv); WatermarkSafe    *)
(* that each request not dealt with is still to come in the pass under way *)
(* or newer than what the pass will leave behind (WaterInv).               *)
(***************************************************************************)
EXTENDS AutoGrab, FiniteSetTheorems, WellFoundedInduction, TLAPS

USE DEF vars

-----------------------------------------------------------------------------
(* Least and greatest elements.                                            *)

LEMMA NatMin ==
    ASSUME NEW T, T \subseteq Nat, T # {}
    PROVE  \E x \in T : \A y \in T : x <= y
  <1> DEFINE R == OpToRel(<, Nat)
  <1>1. IsWellFoundedOn(R, Nat)
    BY NatLessThanWellFounded
  <1>2. PICK x \in T : \A y \in T : ~(<<y, x>> \in R)
    <2> HIDE DEF R
    <2> QED
      BY <1>1, WFMin
  <1>3. \A y \in T : y < x => <<y, x>> \in R
    BY DEF OpToRel
  <1>4. \A y \in T : ~(y < x)
    BY <1>2, <1>3
  <1>5. QED
    BY <1>4

\* The watermark is one of the times it is chosen from.
LEMMA LatestIn ==
    ASSUME NEW S, S \subseteq Int, S # {}, NEW bound \in Int, \A t \in S : t <= bound
    PROVE  Latest(S) \in S /\ \A u \in S : u <= Latest(S)
  <1> DEFINE T == {bound - t : t \in S}
  <1>1. T \subseteq Nat /\ T # {}
    <2>1. \A t \in S : bound - t \in Nat
      OBVIOUS
    <2>2. QED
      BY <2>1
  <1>2. PICK x \in T : \A y \in T : x <= y
    BY <1>1, NatMin
  <1>3. PICK t \in S : x = bound - t
    OBVIOUS
  <1>4. \A u \in S : u <= t
    <2> SUFFICES ASSUME NEW u \in S PROVE u <= t
      OBVIOUS
    <2>1. bound - t <= bound - u
      BY <1>2, <1>3
    <2>2. QED
      BY <2>1
  <1>5. \E m \in S : \A u \in S : u <= m
    BY <1>4
  <1>6. QED
    BY <1>5, Zenon DEF Latest

\* The order of the listing, for any times u.
Precedes(u, s, r) == \/ u[s] > u[r]
                     \/ u[s] = u[r] /\ s > r

LEMMA Ordered ==
    ASSUME NEW u \in [Requests -> Nat], NEW r \in Requests, NEW s \in Requests
    PROVE  /\ ~Precedes(u, r, r)
           /\ r # s => Precedes(u, r, s) \/ Precedes(u, s, r)
           /\ ~(Precedes(u, r, s) /\ Precedes(u, s, r))
           /\ \A q \in Requests : Precedes(u, q, r) /\ Precedes(u, r, s) => Precedes(u, q, s)
  <1>1. \A q \in Requests : q \in Nat /\ u[q] \in Nat
    BY RequestsAssumption
  <1>2. QED
    BY <1>1 DEF Precedes

LEMMA NewestExists ==
    ASSUME NEW u \in [Requests -> Nat], NEW S \in SUBSET Requests, S # {}
    PROVE  \E r \in S : \A s \in S \ {r} : Precedes(u, r, s)
  <1> DEFINE Above(r) == {s \in S : Precedes(u, s, r)}
             T == {Cardinality(Above(r)) : r \in S}
  <1>1. IsFiniteSet(S)
    BY RequestsAssumption, FS_Subset
  <1>2. \A r \in S : IsFiniteSet(Above(r)) /\ Cardinality(Above(r)) \in Nat
    BY <1>1, FS_Subset, FS_CardinalityType
  <1>3. T \subseteq Nat /\ T # {}
    BY <1>2
  <1>4. PICK x \in T : \A y \in T : x <= y
    BY <1>3, NatMin
  <1>5. PICK r \in S : x = Cardinality(Above(r))
    OBVIOUS
  <1>6. Above(r) = {}
    <2> SUFFICES ASSUME NEW s \in Above(r) PROVE FALSE
      OBVIOUS
    <2>1. Above(s) \subseteq Above(r) \ {s}
      <3>1. \A q \in S : Precedes(u, q, s) => Precedes(u, q, r) /\ q # s
        BY Ordered
      <3>2. QED
        BY <3>1
    <2>2. IsFiniteSet(Above(r) \ {s}) /\ Cardinality(Above(r) \ {s}) = Cardinality(Above(r)) - 1
      BY <1>2, FS_RemoveElement
    <2>3. Cardinality(Above(s)) <= Cardinality(Above(r)) - 1
      BY <2>1, <2>2, FS_Subset
    <2>4. Cardinality(Above(r)) <= Cardinality(Above(s))
      BY <1>4, <1>5
    <2>5. Cardinality(Above(r)) \in Nat /\ Cardinality(Above(s)) \in Nat
      BY <1>2
    <2>6. QED
      <3> HIDE DEF Above
      <3> QED
        BY <2>3, <2>4, <2>5
  <1>7. \A s \in S \ {r} : Precedes(u, r, s)
    BY <1>6, Ordered
  <1>8. QED
    BY <1>7

\* Newest is in the set it is chosen from and precedes the others.
LEMMA NewestIn ==
    ASSUME NEW S \in SUBSET Requests, S # {}, updated \in [Requests -> Nat]
    PROVE  /\ Newest(S) \in S
           /\ \A s \in S \ {Newest(S)} : Precedes(updated, Newest(S), s)
  <1>1. \E r \in S : \A s \in S \ {r} : Newer(r, s)
    BY NewestExists, Zenon DEF Newer, Precedes
  <1>2. Newest(S) \in S /\ \A s \in S \ {Newest(S)} : Newer(Newest(S), s)
    BY <1>1, Zenon DEF Newest
  <1>3. QED
    BY <1>2 DEF Newer, Precedes

-----------------------------------------------------------------------------
(* The inductive invariant.                                                *)

Key(r) == <<ReleaseOf[r], WorkOf[r]>>

\* The request the pass is at.
IsNewest(r) ==
    /\ r \in pass.todo
    /\ \A s \in pass.todo \ {r} : Precedes(updated, r, s)

\* What the worker knows before it enqueues: the grab, that no job it queued
\* itself has the request's candidate, and that whatever job of the work has
\* not failed came, or came back, after it looked.
Found(r) ==
    /\ pass.grab # 0 /\ grabs[Key(r)] = pass.grab
    /\ \A j \in DOMAIN jobs :
         /\ jobs[j].for # 0 => jobs[j].cand # r
         /\ jobs[j].work = WorkOf[r] => jobs[j].status = "failed" \/ jobs[j].since >= looks

PassInv ==
    /\ \A r \in pass.todo : updated[r] # 0
    /\ pass.pc \in {"jobs", "enqueue"} => pass.todo # {}
    /\ pass.pc = "enqueue" => \A r \in Requests : IsNewest(r) => Found(r)

JobsInv ==
    \A j \in DOMAIN jobs :
        /\ jobs[j].work = WorkOf[jobs[j].cand]
        /\ jobs[j].for # 0 => Key(jobs[j].for) = Key(jobs[j].cand)
        /\ jobs[j].look <= looks

\* The times the worker goes by: at most the zone ahead of the clock.
Horizon == clock + (IF host.zone > 0 THEN host.zone ELSE 0)

TimesInv ==
    /\ \A r \in Requests : updated[r] <= clock
    /\ lastSeen <= Horizon /\ pass.seen <= Horizon

IInv == TypeOK /\ TimesInv /\ PassInv /\ JobsInv /\ AutoOnce

PassRecord == [pc : {"idle", "next", "jobs", "enqueue"}, todo : SUBSET Requests,
               seen : Int, grab : Requests \cup {0}]

-----------------------------------------------------------------------------
(* What the steps write.                                                   *)

LEMMA Constants ==
    /\ \A r \in Requests : /\ r # 0 /\ r \in Nat
                           /\ WorkOf[r] \in Works /\ ReleaseOf[r] \in Releases
                           /\ Key(r) \in Releases \X Works
    /\ AutoGrabs \subseteq Requests /\ Eligible \subseteq Requests
    /\ \A h \in Hosts : h.zone \in Int
    /\ Lookback \in Nat
  <1>1. \A r \in Requests : r # 0 /\ r \in Nat
    BY RequestsAssumption
  <1>2. \A r \in Requests : /\ WorkOf[r] \in Works /\ ReleaseOf[r] \in Releases
                            /\ Key(r) \in Releases \X Works
    BY DEF Works, Releases, Key
  <1>3. AutoGrabs \subseteq Requests /\ Eligible \subseteq Requests
    BY RequestsAssumption
  <1>4. \A h \in Hosts : h.zone \in Int
    BY HostsAssumption
  <1>5. Lookback \in Nat
    BY BoundsAssumption
  <1>6. QED
    BY <1>1, <1>2, <1>3, <1>4, <1>5

\* A pass between two requests, and one that has a request or a grab in hand.
LEMMA PassIdleTyped == PassIdle \in PassRecord /\ PassIdle.todo = {} /\ PassIdle.pc = "idle"
  BY DEF PassIdle, PassRecord

LEMMA AdvanceTyped ==
    ASSUME pass \in PassRecord, NEW r, Advance(r)
    PROVE  /\ pass' \in PassRecord
           /\ pass'.pc = "next" /\ pass'.todo = pass.todo \ {r} /\ pass'.seen = pass.seen
  BY DEF Advance, PassRecord

LEMMA InHandTyped ==
    ASSUME pass \in PassRecord, NEW g \in Requests \cup {0}
    PROVE  /\ \/ pass' = [pass EXCEPT !.pc = "jobs"]
              \/ pass' = [pass EXCEPT !.pc = "enqueue", !.grab = g]
              => pass' \in PassRecord /\ pass'.todo = pass.todo /\ pass'.seen = pass.seen
           /\ pass' = [pass EXCEPT !.pc = "jobs"] => pass'.pc = "jobs"
           /\ pass' = [pass EXCEPT !.pc = "enqueue", !.grab = g]
              => pass'.pc = "enqueue" /\ pass'.grab = g
  BY DEF PassRecord

\* The worker's request.
LEMMA AtNewest ==
    ASSUME IInv, pass.todo # {}
    PROVE  /\ Newest(pass.todo) \in Requests
           /\ IsNewest(Newest(pass.todo))
           /\ \A r \in Requests : IsNewest(r) => r = Newest(pass.todo)
  <1>1. pass.todo \in SUBSET Requests /\ updated \in [Requests -> Nat]
    BY DEF IInv, TypeOK
  <1>2. /\ Newest(pass.todo) \in pass.todo
        /\ \A s \in pass.todo \ {Newest(pass.todo)} :
             Precedes(updated, Newest(pass.todo), s)
    BY <1>1, NewestIn
  <1>3. ASSUME NEW r \in Requests, IsNewest(r), r # Newest(pass.todo) PROVE FALSE
    BY <1>1, <1>2, <1>3, Ordered DEF IsNewest
  <1>4. QED
    BY <1>1, <1>2, <1>3 DEF IsNewest

\* A grab keeps the candidate its release was first grabbed by.
LEMMA GrabTyped ==
    ASSUME TypeOK, NEW r \in Requests, CreateGrab(r)
    PROVE  /\ grabs' \in [Releases \X Works -> Requests \cup {0}]
           /\ \A k \in DOMAIN grabs' : grabs'[k] # 0 => k = Key(grabs'[k])
           /\ \A k \in Releases \X Works : grabs[k] # 0 => grabs'[k] = grabs[k]
           /\ grabs'[Key(r)] = GrabbedFor(r) /\ GrabbedFor(r) \in Requests
           /\ Key(GrabbedFor(r)) = Key(r)
  <1>1. grabs \in [Releases \X Works -> Requests \cup {0}]
    BY DEF TypeOK
  <1>2. \A k \in Releases \X Works : grabs[k] # 0 => k = Key(grabs[k])
    BY <1>1 DEF TypeOK, Key
  <1>3. Key(r) \in Releases \X Works /\ r # 0
    BY Constants
  <1>4. grabs' = [grabs EXCEPT ![Key(r)] = IF @ = 0 THEN r ELSE @]
    BY DEF CreateGrab, Key
  <1>5. GrabbedFor(r) = grabs'[Key(r)]
    BY DEF GrabbedFor, Key
  <1>6. grabs'[Key(r)] = IF grabs[Key(r)] = 0 THEN r ELSE grabs[Key(r)]
    BY <1>1, <1>3, <1>4
  <1>7. \A k \in Releases \X Works : k # Key(r) => grabs'[k] = grabs[k]
    BY <1>1, <1>4
  <1>8. grabs' \in [Releases \X Works -> Requests \cup {0}]
    BY <1>1, <1>3, <1>4
  <1>9. \A k \in Releases \X Works : grabs'[k] # 0 => k = Key(grabs'[k])
    BY <1>2, <1>6, <1>7
  <1>10. GrabbedFor(r) \in Requests /\ Key(GrabbedFor(r)) = Key(r)
    BY <1>1, <1>2, <1>3, <1>5, <1>6
  <1> HIDE DEF Key
  <1>11. QED
    BY <1>5, <1>6, <1>7, <1>8, <1>9, <1>10

LEMMA NewJobTyped ==
    ASSUME TypeOK, NEW c \in Requests, NEW f \in Requests \cup {0}, NewJob(c, f)
    PROVE  /\ jobs' \in Seq(Job) /\ DOMAIN jobs' = DOMAIN jobs \cup {Len(jobs) + 1}
           /\ Len(jobs) + 1 \notin DOMAIN jobs
           /\ \A j \in DOMAIN jobs : jobs'[j] = jobs[j]
           /\ jobs'[Len(jobs) + 1] = [work |-> WorkOf[c], cand |-> c, for |-> f,
                                      status |-> "active", done |-> FALSE,
                                      look |-> looks, since |-> looks]
  <1> DEFINE n == [work |-> WorkOf[c], cand |-> c, for |-> f, status |-> "active",
                   done |-> FALSE, look |-> looks, since |-> looks]
  <1>1. n \in Job
    BY Constants DEF TypeOK, Job, JobStatus
  <1>2. jobs \in Seq(Job) /\ jobs' = Append(jobs, n)
    BY DEF TypeOK, NewJob
  <1> HIDE DEF n
  <1>3. /\ jobs' \in Seq(Job) /\ DOMAIN jobs' = DOMAIN jobs \cup {Len(jobs) + 1}
        /\ Len(jobs) + 1 \notin DOMAIN jobs
        /\ \A j \in DOMAIN jobs : jobs'[j] = jobs[j]
        /\ jobs'[Len(jobs) + 1] = n
    BY <1>1, <1>2
  <1>4. QED
    BY <1>3 DEF n

\* A job whose status is written keeps all but that, and the last time it came
\* back.
LEMMA JobChanged ==
    ASSUME TypeOK, NEW j \in DOMAIN jobs, NEW s \in JobStatus, JobMoves(j, s)
    PROVE  /\ jobs' \in Seq(Job) /\ DOMAIN jobs' = DOMAIN jobs
           /\ \A i \in DOMAIN jobs :
                /\ jobs'[i].work = jobs[i].work /\ jobs'[i].cand = jobs[i].cand
                /\ jobs'[i].for = jobs[i].for /\ jobs'[i].look = jobs[i].look
                /\ \/ jobs[i].status # "failed" /\ jobs'[i].since = jobs[i].since
                   \/ jobs[i].status = "failed" /\ jobs'[i].since = looks
                   \/ jobs'[i] = jobs[i]
  <1> DEFINE n == IF jobs[j].status = "failed" THEN looks ELSE jobs[j].since
             r == [jobs[j] EXCEPT !.status = s, !.done = jobs[j].done \/ s = "completed",
                                  !.since = n]
  <1>1. jobs \in Seq(Job) /\ jobs[j] \in Job /\ n \in Nat
    <2>1. jobs \in Seq(Job) /\ looks \in Nat
      BY DEF TypeOK
    <2>2. jobs[j] \in Job
      BY <2>1
    <2>3. QED
      BY <2>1, <2>2 DEF Job
  <1>2. (jobs[j].done \/ s = "completed") \in BOOLEAN
    BY <1>1 DEF Job
  <1>3. jobs' = [jobs EXCEPT ![j] = r]
    BY DEF JobMoves
  <1> HIDE DEF n
  <1>4. /\ r \in Job /\ r.work = jobs[j].work /\ r.cand = jobs[j].cand
        /\ r.for = jobs[j].for /\ r.look = jobs[j].look /\ r.since = n
    BY <1>1, <1>2 DEF Job
  <1> HIDE DEF r
  <1>5. /\ jobs' \in Seq(Job) /\ DOMAIN jobs' = DOMAIN jobs
        /\ jobs'[j] = r
        /\ \A i \in DOMAIN jobs : i # j => jobs'[i] = jobs[i]
    BY <1>1, <1>3, <1>4
  <1>6. \/ jobs[j].status # "failed" /\ n = jobs[j].since
        \/ jobs[j].status = "failed" /\ n = looks
    BY DEF n
  <1>7. QED
    BY <1>4, <1>5, <1>6

-----------------------------------------------------------------------------
(* The initial states and the steps of a pass.                             *)

LEMMA IInvInit == Init => IInv
  <1> SUFFICES ASSUME Init PROVE IInv
    OBVIOUS
  <1>1. jobs = <<>> /\ DOMAIN jobs = {} /\ jobs \in Seq(Job)
    BY DEF Init
  <1>2. PassIdle \in PassRecord /\ pass = PassIdle /\ pass.todo = {} /\ pass.pc = "idle"
    BY PassIdleTyped DEF Init
  <1>3. lastSeen \in Int /\ clock \in Nat
    BY Constants DEF Init
  <1>4. TypeOK
    BY <1>1, <1>2, <1>3 DEF Init, TypeOK, PassRecord
  <1>5. PassInv /\ JobsInv /\ AutoOnce
    BY <1>1, <1>2 DEF PassInv, JobsInv, AutoOnce
  <1>6. TimesInv
    <2>1. host \in Hosts /\ clock = 1 /\ pass.seen = 0 /\ lastSeen = clock - Lookback
          /\ updated = [r \in Requests |-> 0]
      BY DEF Init, PassIdle
    <2>2. host.zone \in Int
      BY <2>1, Constants
    <2>3. QED
      BY <2>1, <2>2, Constants DEF TimesInv, Horizon
  <1>7. QED
    BY <1>4, <1>5, <1>6 DEF IInv

LEMMA FaultTyped ==
    ASSUME TypeOK, NEW r \in Requests, Fault(r) \/ NoFault
    PROVE  /\ missed' \subseteq Requests
           /\ used' \in [grabs : Nat, late : Nat, faults : Nat]
  <1>1. missed \subseteq Requests /\ used \in [grabs : Nat, late : Nat, faults : Nat]
    BY DEF TypeOK
  <1>2. CASE NoFault
    BY <1>1, <1>2 DEF NoFault
  <1>3. CASE Fault(r)
    BY <1>1, <1>3 DEF Fault
  <1>4. QED
    BY <1>2, <1>3

\* The newest time listed is a time.
LEMMA SeenTyped ==
    ASSUME TypeOK, TimesInv
    PROVE  LET T == {lastSeen} \cup {Stamp(r) : r \in Listed}
           IN  Latest(T) \in Int /\ Latest(T) <= Horizon
  <1> DEFINE T == {lastSeen} \cup {Stamp(r) : r \in Listed}
  <1>1. Listed \subseteq Requests
    BY DEF Listed, Visible, VisibleAfter
  <1>2. host.zone \in Int /\ clock \in Nat /\ lastSeen \in Int /\ lastSeen <= Horizon
    BY Constants DEF TypeOK, TimesInv
  <1>3. Horizon \in Int
    BY <1>2 DEF Horizon
  <1>4. \A r \in Listed : Stamp(r) \in Int /\ Stamp(r) <= Horizon
    <2>1. \A r \in Listed : updated[r] \in Nat /\ updated[r] <= clock
      BY <1>1 DEF TypeOK, TimesInv
    <2>2. QED
      BY <1>2, <2>1 DEF Stamp, Horizon
  <1>5. T \subseteq Int /\ T # {} /\ \A t \in T : t <= Horizon
    BY <1>2, <1>4
  <1> HIDE DEF T
  <1>6. Latest(T) \in T
    BY <1>3, <1>5, LatestIn
  <1>7. Latest(T) \in Int /\ Latest(T) <= Horizon
    BY <1>5, <1>6
  <1>8. QED
    BY <1>7 DEF T

\* A step that moves no clock and writes no job keeps JobsInv and AutoOnce.
LEMMA JobsUnchanged ==
    ASSUME IInv, UNCHANGED jobs, looks' = looks \/ looks' = looks + 1
    PROVE  JobsInv' /\ AutoOnce'
  <1>1. looks \in Nat /\ \A j \in DOMAIN jobs : jobs[j].look \in Nat
    <2>1. \A j \in DOMAIN jobs : jobs[j] \in Job
      BY DEF IInv, TypeOK
    <2>2. QED
      BY <2>1 DEF IInv, TypeOK, Job
  <1>2. \A j \in DOMAIN jobs : jobs[j].look <= looks => jobs[j].look <= looks'
    BY <1>1
  <1>3. QED
    BY <1>2 DEF IInv, JobsInv, AutoOnce, Key

LEMMA ListStep ==
    ASSUME IInv, ListSearchRequests
    PROVE  IInv'
  <1>1. TypeOK /\ TimesInv
    BY DEF IInv
  <1>2. Listed \subseteq Requests /\ Visible \subseteq Requests
        /\ \A r \in Listed : updated[r] # 0
    BY DEF Listed, Visible, VisibleAfter
  <1> DEFINE m == Latest({lastSeen} \cup {Stamp(r) : r \in Listed})
  <1>3. m \in Int /\ m <= Horizon
    BY <1>1, SeenTyped
  <1>4. pass' = [pc |-> "next", todo |-> Listed, grab |-> 0, seen |-> m]
    BY DEF ListSearchRequests
  <1> HIDE DEF m
  <1>5. /\ pass' \in PassRecord /\ pass'.pc = "next" /\ pass'.todo = Listed
        /\ pass'.seen = m
    BY <1>2, <1>3, <1>4 DEF PassRecord
  <1>6. missed' \subseteq Requests
    BY <1>1, <1>2 DEF ListSearchRequests, TypeOK
  <1>7. TypeOK'
    BY <1>1, <1>5, <1>6 DEF ListSearchRequests, TypeOK, PassRecord
  <1>8. TimesInv'
    BY <1>1, <1>3, <1>5 DEF ListSearchRequests, TimesInv, Horizon
  <1>9. PassInv'
    BY <1>2, <1>5 DEF ListSearchRequests, PassInv
  <1>10. JobsInv' /\ AutoOnce'
    BY JobsUnchanged DEF ListSearchRequests
  <1>11. QED
    BY <1>7, <1>8, <1>9, <1>10 DEF IInv

\* Leaving a request, with the jobs as they are.
LEMMA AdvanceStep ==
    ASSUME IInv, NEW r \in Requests, Advance(r),
           UNCHANGED <<host, clock, updated, lastSeen, jobs, looks>>
    PROVE  TimesInv' /\ PassInv' /\ JobsInv' /\ AutoOnce'
  <1>1. pass \in PassRecord
    BY DEF IInv, TypeOK, PassRecord
  <1>2. /\ pass'.pc = "next" /\ pass'.todo = pass.todo \ {r} /\ pass'.seen = pass.seen
    BY <1>1, AdvanceTyped
  <1>3. TimesInv'
    BY <1>2 DEF IInv, TimesInv, Horizon
  <1>4. PassInv'
    BY <1>2 DEF IInv, PassInv
  <1>5. QED
    BY <1>3, <1>4, JobsUnchanged

LEMMA ConsiderStep ==
    ASSUME IInv, Consider
    PROVE  IInv'
  <1>1. PICK r \in Requests : r = Newest(pass.todo)
    BY AtNewest DEF Consider
  <1>2. (Skip(r) \/ Reject(r) \/ PickCandidate(r)) /\ pass.todo # {}
    BY <1>1 DEF Consider
  <1>3. UNCHANGED <<host, clock, updated, lastSeen, grabs, jobs, looks>>
    BY DEF Consider
  <1>4. TypeOK /\ pass \in PassRecord
    BY DEF IInv, TypeOK, PassRecord
  <1>5. CASE Skip(r) \/ Reject(r)
    <2>1. Advance(r) /\ (Fault(r) \/ NoFault)
      BY <1>5 DEF Skip, Reject
    <2>2. processed' \subseteq Requests /\ handled' \subseteq Requests
      BY <1>1, <1>4, <1>5 DEF Skip, Reject, MarkProcessed, TypeOK
    <2>3. pass' \in PassRecord
      BY <1>4, <2>1, AdvanceTyped
    <2>4. TypeOK'
      BY <1>1, <1>3, <1>4, <2>1, <2>2, <2>3, FaultTyped DEF TypeOK, PassRecord
    <2>5. QED
      BY <1>1, <1>3, <2>1, <2>4, AdvanceStep DEF IInv
  <1>6. CASE PickCandidate(r)
    <2>1. pass' = [pass EXCEPT !.pc = "jobs"] /\ UNCHANGED <<processed, handled>> /\ NoFault
      BY <1>6 DEF PickCandidate
    <2>2. pass' \in PassRecord /\ pass'.todo = pass.todo /\ pass'.seen = pass.seen
          /\ pass'.pc = "jobs"
      BY <1>4, <2>1, InHandTyped
    <2>3. TypeOK'
      BY <1>1, <1>3, <1>4, <2>1, <2>2, FaultTyped DEF TypeOK, PassRecord
    <2>4. PassInv' /\ TimesInv'
      BY <1>2, <1>3, <2>2 DEF IInv, PassInv, TimesInv, Horizon
    <2>5. QED
      BY <1>3, <2>3, <2>4, JobsUnchanged DEF IInv
  <1>7. QED
    BY <1>2, <1>5, <1>6

\* What a grab does to the types, jobs as they are.
LEMMA GrabKeepsTypes ==
    ASSUME IInv, NEW r \in Requests, CreateGrab(r)
    PROVE  /\ grabs' \in [Releases \X Works -> Requests \cup {0}]
           /\ \A k \in DOMAIN grabs' : grabs'[k] # 0 =>
                k = <<ReleaseOf[grabs'[k]], WorkOf[grabs'[k]]>>
           /\ \A j \in DOMAIN jobs :
                /\ grabs[<<ReleaseOf[jobs[j].cand], jobs[j].work>>] = jobs[j].cand
                /\ grabs'[<<ReleaseOf[jobs[j].cand], jobs[j].work>>] = jobs[j].cand
  <1>1. TypeOK /\ JobsInv
    BY DEF IInv
  <1>2. /\ grabs' \in [Releases \X Works -> Requests \cup {0}]
        /\ \A k \in DOMAIN grabs' : grabs'[k] # 0 => k = Key(grabs'[k])
        /\ \A k \in Releases \X Works : grabs[k] # 0 => grabs'[k] = grabs[k]
    BY <1>1, GrabTyped
  <1>3. \A j \in DOMAIN jobs : /\ jobs[j].cand \in Requests
                               /\ jobs[j].work = WorkOf[jobs[j].cand]
    <2>1. \A j \in DOMAIN jobs : jobs[j] \in Job
      BY <1>1 DEF TypeOK
    <2>2. QED
      BY <1>1, <2>1 DEF Job, JobsInv
  <1>4. \A j \in DOMAIN jobs : /\ grabs[Key(jobs[j].cand)] = jobs[j].cand
                               /\ grabs'[Key(jobs[j].cand)] = jobs[j].cand
    <2>1. \A j \in DOMAIN jobs : grabs[Key(jobs[j].cand)] = jobs[j].cand
      BY <1>1, <1>3 DEF TypeOK, Key
    <2>2. QED
      BY <1>2, <1>3, <2>1, Constants
  <1>5. QED
    BY <1>2, <1>3, <1>4 DEF Key

LEMMA GrabStep ==
    ASSUME IInv, GrabCandidate
    PROVE  IInv'
  <1>1. PICK r \in Requests :
          /\ r = Newest(pass.todo) /\ pass.todo # {} /\ pass.pc = "jobs"
          /\ IsNewest(r) /\ \A q \in Requests : IsNewest(q) => q = r
    BY AtNewest DEF GrabCandidate, IInv, PassInv
  <1>2. \/ /\ HasExistingJob(r)
           /\ Advance(r)
           /\ MarkProcessed(r)
           /\ UNCHANGED <<grabs, looks>> /\ NoFault
        \/ /\ ~HasExistingJob(r)
           /\ looks' = looks + 1
           /\ CreateGrab(r)
           /\ pass' = [pass EXCEPT !.pc = "enqueue", !.grab = GrabbedFor(r)]
           /\ UNCHANGED <<processed, handled>> /\ NoFault
        \/ /\ ~HasExistingJob(r)
           /\ UNCHANGED grabs \/ CreateGrab(r)
           /\ Advance(r)
           /\ UNCHANGED <<looks, processed, handled>> /\ Fault(r)
    BY <1>1 DEF GrabCandidate
  <1>3. UNCHANGED <<host, clock, updated, lastSeen, jobs>>
    BY DEF GrabCandidate
  <1>4. TypeOK /\ pass \in PassRecord
    BY DEF IInv, TypeOK, PassRecord
  <1>5. /\ grabs' \in [Releases \X Works -> Requests \cup {0}]
        /\ \A k \in DOMAIN grabs' : grabs'[k] # 0 =>
             k = <<ReleaseOf[grabs'[k]], WorkOf[grabs'[k]]>>
        /\ \A j \in DOMAIN jobs' :
             grabs'[<<ReleaseOf[jobs'[j].cand], jobs'[j].work>>] = jobs'[j].cand
    <2>1. CASE UNCHANGED grabs
      BY <1>3, <1>4, <2>1 DEF TypeOK
    <2>2. CASE CreateGrab(r)
      BY <1>1, <1>3, <2>2, GrabKeepsTypes
    <2>3. QED
      BY <1>2, <2>1, <2>2
  <1>6. processed' \subseteq Requests /\ handled' \subseteq Requests /\ (Fault(r) \/ NoFault)
    BY <1>1, <1>2, <1>4 DEF MarkProcessed, TypeOK
  <1>7. ASSUME pass' \in PassRecord PROVE TypeOK'
    <2>1. looks' \in Nat
      BY <1>2, <1>4 DEF TypeOK
    <2>2. QED
      BY <1>1, <1>3, <1>4, <1>5, <1>6, <1>7, <2>1, FaultTyped DEF TypeOK, PassRecord
  <1>8. CASE Advance(r) /\ UNCHANGED looks
    BY <1>1, <1>3, <1>4, <1>7, <1>8, AdvanceTyped, AdvanceStep DEF IInv
  <1>9. CASE /\ ~HasExistingJob(r) /\ looks' = looks + 1 /\ CreateGrab(r)
             /\ pass' = [pass EXCEPT !.pc = "enqueue", !.grab = GrabbedFor(r)]
    <2> DEFINE g == GrabbedFor(r)
    <2>1. g \in Requests /\ grabs'[Key(r)] = g /\ g # 0
      BY <1>1, <1>4, <1>9, GrabTyped, Constants
    <2>2. pass' = [pass EXCEPT !.pc = "enqueue", !.grab = g]
      BY <1>9
    <2> HIDE DEF g
    <2>3. /\ pass' \in PassRecord /\ pass'.todo = pass.todo /\ pass'.seen = pass.seen
          /\ pass'.pc = "enqueue" /\ pass'.grab = g
      BY <1>4, <2>1, <2>2, InHandTyped
    <2>4. \A q \in Requests : IsNewest(q)' => q = r
      BY <1>1, <1>3, <2>3 DEF IsNewest
    <2>5. \A j \in DOMAIN jobs : /\ jobs[j].cand # r
                                 /\ jobs[j].work = WorkOf[r] => jobs[j].status = "failed"
      BY <1>9 DEF HasExistingJob
    <2>6. Found(r)'
      BY <1>3, <2>1, <2>3, <2>5 DEF Found, Key
    <2>7. PassInv'
      <3>1. \A q \in pass'.todo : updated'[q] # 0
        BY <1>3, <2>3 DEF IInv, PassInv
      <3>2. \A q \in Requests : IsNewest(q)' => Found(q)'
        BY <2>4, <2>6
      <3>3. QED
        BY <1>1, <2>3, <3>1, <3>2 DEF PassInv
    <2>8. TimesInv'
      BY <1>3, <2>3 DEF IInv, TimesInv, Horizon
    <2>9. QED
      BY <1>3, <1>7, <1>9, <2>3, <2>7, <2>8, JobsUnchanged DEF IInv
  <1>10. QED
    BY <1>2, <1>8, <1>9

\* A new job of the candidate its release was grabbed by.
LEMMA NewJobKeeps ==
    ASSUME IInv, NEW c \in Requests, NEW f \in Requests \cup {0}, NewJob(c, f),
           grabs' \in [Releases \X Works -> Requests \cup {0}],
           grabs'[Key(c)] = c,
           \A j \in DOMAIN jobs :
             grabs'[<<ReleaseOf[jobs[j].cand], jobs[j].work>>] = jobs[j].cand,
           f # 0 => Key(f) = Key(c), UNCHANGED looks
    PROVE  /\ jobs' \in Seq(Job) /\ JobsInv'
           /\ \A j \in DOMAIN jobs' :
                grabs'[<<ReleaseOf[jobs'[j].cand], jobs'[j].work>>] = jobs'[j].cand
  <1>1. TypeOK /\ JobsInv
    BY DEF IInv
  <1> DEFINE n == [work |-> WorkOf[c], cand |-> c, for |-> f, status |-> "active",
                   done |-> FALSE, look |-> looks, since |-> looks]
             l == Len(jobs) + 1
  <1>2. /\ jobs' \in Seq(Job) /\ DOMAIN jobs' = DOMAIN jobs \cup {l} /\ l \notin DOMAIN jobs
        /\ \A j \in DOMAIN jobs : jobs'[j] = jobs[j]
        /\ jobs'[l] = n
    BY <1>1, NewJobTyped
  <1>3. n.work = WorkOf[c] /\ n.cand = c /\ n.for = f /\ n.look = looks
    OBVIOUS
  <1> HIDE DEF n, l
  <1>4. grabs'[<<ReleaseOf[n.cand], n.work>>] = n.cand
    BY <1>3 DEF Key
  <1>5. JobsInv'
    <2>1. \A j \in DOMAIN jobs' :
            /\ jobs'[j].work = WorkOf[jobs'[j].cand]
            /\ jobs'[j].for # 0 => Key(jobs'[j].for) = Key(jobs'[j].cand)
            /\ jobs'[j].look <= looks
      BY <1>1, <1>2, <1>3 DEF JobsInv, TypeOK
    <2>2. QED
      BY <2>1 DEF JobsInv, Key
  <1>6. QED
    BY <1>2, <1>4, <1>5

LEMMA EnqueueStep ==
    ASSUME IInv, EnqueueFromGrab
    PROVE  IInv'
  <1>1. PICK r \in Requests :
          r = Newest(pass.todo) /\ IsNewest(r) /\ pass.pc = "enqueue" /\ Found(r)
    BY AtNewest DEF EnqueueFromGrab, IInv, PassInv
  <1>2. /\ Advance(r)
        /\ \/ NewJob(pass.grab, r) /\ MarkProcessed(r) /\ NoFault
           \/ UNCHANGED <<jobs, processed, handled>> /\ Fault(r)
    BY <1>1 DEF EnqueueFromGrab
  <1>3. UNCHANGED <<host, clock, updated, lastSeen, grabs, looks>>
    BY DEF EnqueueFromGrab
  <1>4. TypeOK /\ JobsInv /\ pass \in PassRecord
    BY DEF IInv, TypeOK, PassRecord
  <1>5. /\ pass' \in PassRecord /\ pass'.pc = "next" /\ pass'.todo = pass.todo \ {r}
        /\ pass'.seen = pass.seen
    BY <1>2, <1>4, AdvanceTyped
  <1>6. processed' \subseteq Requests /\ handled' \subseteq Requests /\ (Fault(r) \/ NoFault)
    BY <1>2, <1>4 DEF MarkProcessed, TypeOK
  <1>7. ASSUME jobs' \in Seq(Job),
               \A j \in DOMAIN jobs' :
                 grabs'[<<ReleaseOf[jobs'[j].cand], jobs'[j].work>>] = jobs'[j].cand
        PROVE  TypeOK'
    BY <1>3, <1>4, <1>5, <1>6, <1>7, FaultTyped DEF TypeOK, PassRecord
  <1>8. PassInv' /\ TimesInv'
    BY <1>3, <1>5 DEF IInv, PassInv, TimesInv, Horizon
  <1>9. CASE UNCHANGED <<jobs, processed, handled>> /\ Fault(r)
    <2>1. TypeOK'
      BY <1>3, <1>4, <1>7, <1>9 DEF TypeOK
    <2>2. UNCHANGED <<jobs, looks>>
      BY <1>3, <1>9
    <2>3. QED
      BY <1>8, <2>1, <2>2, JobsUnchanged DEF IInv
  <1>10. CASE NewJob(pass.grab, r) /\ MarkProcessed(r) /\ NoFault
    <2>1. PICK c \in Requests : c = pass.grab
      BY <1>1, <1>4 DEF Found, PassRecord
    <2>2. grabs[Key(r)] = c /\ Key(r) = Key(c)
      BY <1>1, <1>4, <2>1, Constants DEF Found, TypeOK, Key
    <2>3. NewJob(c, r) /\ r # 0
      BY <1>10, <2>1, Constants
    <2>4. /\ jobs' \in Seq(Job) /\ JobsInv'
          /\ \A j \in DOMAIN jobs' :
               grabs'[<<ReleaseOf[jobs'[j].cand], jobs'[j].work>>] = jobs'[j].cand
      <3>1. grabs' \in [Releases \X Works -> Requests \cup {0}] /\ grabs'[Key(c)] = c
            /\ \A j \in DOMAIN jobs :
                 grabs'[<<ReleaseOf[jobs[j].cand], jobs[j].work>>] = jobs[j].cand
        BY <1>3, <1>4, <2>2 DEF TypeOK
      <3>2. QED
        BY <1>3, <2>2, <2>3, <3>1, NewJobKeeps
    <2>5. TypeOK'
      BY <1>7, <2>4
    <2> DEFINE l == Len(jobs) + 1
    <2>6. /\ DOMAIN jobs' = DOMAIN jobs \cup {l}
          /\ \A j \in DOMAIN jobs : jobs'[j] = jobs[j]
          /\ jobs'[l].work = WorkOf[c] /\ jobs'[l].cand = c /\ jobs'[l].for = r
          /\ jobs'[l].look = looks
      <3>1. /\ DOMAIN jobs' = DOMAIN jobs \cup {l}
            /\ \A j \in DOMAIN jobs : jobs'[j] = jobs[j]
            /\ jobs'[l] = [work |-> WorkOf[c], cand |-> c, for |-> r, status |-> "active",
                           done |-> FALSE, look |-> looks, since |-> looks]
        BY <1>4, <2>3, NewJobTyped
      <3> HIDE DEF l
      <3>2. QED
        BY <3>1
    <2>7. WorkOf[c] = WorkOf[r]
      BY <2>2 DEF Key
    <2>a. \A j \in DOMAIN jobs' : j = l \/ j \in DOMAIN jobs
      BY <2>6
    <2>b. \A j \in DOMAIN jobs : 1..(j - 1) \subseteq DOMAIN jobs /\ l \notin 1..(j - 1)
      BY <1>4 DEF TypeOK
    <2>c. 1..(l - 1) \subseteq DOMAIN jobs
      BY <1>4 DEF TypeOK
    <2> HIDE DEF l
    <2>8. \A j \in DOMAIN jobs :
            /\ jobs[j].for # 0 => jobs[j].cand # r
            /\ jobs[j].work = WorkOf[r]
                 => jobs[j].status = "failed" \/ jobs[j].since >= looks
      BY <1>1 DEF Found
    <2>10. AutoOnce'
      <3> SUFFICES ASSUME NEW j \in DOMAIN jobs', jobs'[j].for # 0, NEW i \in 1..(j - 1)
                   PROVE  /\ jobs'[i].work = jobs'[j].work /\ jobs'[i].status # "failed"
                               => jobs'[i].since >= jobs'[j].look
                          /\ ~(jobs'[i].for = jobs'[j].for /\ jobs'[i].cand = jobs'[i].for)
        BY DEF AutoOnce
      <3>1. CASE j \in DOMAIN jobs
        <4>1. i \in DOMAIN jobs /\ jobs'[i] = jobs[i] /\ jobs'[j] = jobs[j]
          BY <2>6, <2>b, <3>1
        <4>2. QED
          BY <3>1, <4>1 DEF IInv, AutoOnce
      <3>2. CASE j = l
        <4>1. i \in DOMAIN jobs /\ jobs'[i] = jobs[i]
          BY <2>6, <2>c, <3>2
        <4>2. jobs[i].for = r => jobs[i].cand # r
          BY <2>3, <2>8, <4>1
        <4>3. QED
          BY <2>6, <2>7, <2>8, <3>2, <4>1, <4>2
      <3>3. QED
        BY <2>a, <3>1, <3>2
    <2>11. QED
      BY <1>8, <2>4, <2>5, <2>10 DEF IInv
  <1>11. QED
    BY <1>2, <1>9, <1>10

LEMMA EndPassStep ==
    ASSUME IInv, EndPass
    PROVE  IInv'
  <1>1. PassIdle \in PassRecord /\ pass' = PassIdle /\ pass'.todo = {} /\ pass'.pc = "idle"
        /\ pass'.seen = 0
    BY PassIdleTyped DEF EndPass, PassIdle
  <1>2. TypeOK'
    BY <1>1 DEF EndPass, IInv, TypeOK, PassRecord
  <1>3. TimesInv'
    <2>1. host.zone \in Int /\ clock \in Nat /\ pass.seen <= Horizon
      BY Constants DEF IInv, TypeOK, TimesInv
    <2>2. QED
      BY <1>1, <2>1 DEF EndPass, IInv, TimesInv, Horizon
  <1>4. PassInv'
    BY <1>1 DEF PassInv
  <1>5. QED
    BY <1>2, <1>3, <1>4, JobsUnchanged DEF IInv, EndPass

-----------------------------------------------------------------------------
(* The steps of the rest of the system.                                    *)

LEMMA SucceedsStep ==
    ASSUME IInv, NEW q \in Requests, SearchSucceeds(q)
    PROVE  IInv'
  <1>1. /\ updated[q] = 0 /\ updated' = [updated EXCEPT ![q] = clock]
        /\ UNCHANGED <<host, clock, lastSeen, processed, pass, grabs, jobs, looks,
                       handled, missed, used>>
    BY DEF SearchSucceeds
  <1>2. TypeOK /\ updated \in [Requests -> Nat] /\ clock \in Nat
    BY DEF IInv, TypeOK
  <1>3. TypeOK'
    BY <1>1, <1>2 DEF TypeOK
  <1>4. TimesInv'
    BY <1>1, <1>2 DEF IInv, TimesInv, Horizon
  <1>5. q \notin pass.todo /\ \A r \in pass.todo : r \in Requests /\ updated'[r] = updated[r]
    BY <1>1, <1>2 DEF IInv, PassInv, TypeOK
  <1>6. \A r \in Requests : IsNewest(r)' => IsNewest(r)
    <2> SUFFICES ASSUME NEW r \in Requests, IsNewest(r)' PROVE IsNewest(r)
      OBVIOUS
    <2>1. r \in pass.todo /\ \A s \in pass.todo \ {r} : Precedes(updated', r, s)
      BY <1>1 DEF IsNewest
    <2>2. \A s \in pass.todo \ {r} : Precedes(updated, r, s)
      BY <1>5, <2>1 DEF Precedes
    <2>3. QED
      BY <2>1, <2>2 DEF IsNewest
  <1>7. \A r \in Requests : Found(r) => Found(r)'
    BY <1>1 DEF Found, Key
  <1>8. PassInv'
    BY <1>1, <1>5, <1>6, <1>7 DEF IInv, PassInv
  <1>9. QED
    BY <1>1, <1>3, <1>4, <1>8, JobsUnchanged DEF IInv

\* What the worker found stays so while others grab, and jobs end and come back.
LEMMA PassKept ==
    ASSUME IInv, UNCHANGED <<pass, updated>>,
           \A r \in Requests : Found(r) => Found(r)'
    PROVE  PassInv'
  <1>1. \A r \in Requests : IsNewest(r)' => IsNewest(r)
    BY DEF IsNewest
  <1>2. QED
    BY <1>1 DEF IInv, PassInv

LEMMA UsedTyped ==
    ASSUME TypeOK,
           \/ used' = used
           \/ used' = [used EXCEPT !.grabs = @ + 1]
           \/ used' = [used EXCEPT !.late = @ + 1]
           \/ used' = [used EXCEPT !.faults = @ + 1]
    PROVE  used' \in [grabs : Nat, late : Nat, faults : Nat]
  <1>1. used \in [grabs : Nat, late : Nat, faults : Nat]
    BY DEF TypeOK
  <1>2. CASE used' = used
    BY <1>1, <1>2
  <1>3. CASE used' = [used EXCEPT !.late = @ + 1]
    BY <1>1, <1>3
  <1>4. CASE used' = [used EXCEPT !.faults = @ + 1]
    BY <1>1, <1>4
  <1>5. CASE used' = [used EXCEPT !.grabs = @ + 1]
    BY <1>1, <1>5
  <1>6. QED
    BY <1>2, <1>3, <1>4, <1>5

LEMMA UserGrabsStep ==
    ASSUME IInv, NEW q \in Requests, UserGrabs(q)
    PROVE  IInv'
  <1>1. /\ CreateGrab(q) /\ NewJob(GrabbedFor(q), 0)
        /\ used' = [used EXCEPT !.grabs = @ + 1]
        /\ UNCHANGED <<host, clock, updated, lastSeen, processed, pass, looks, handled,
                       missed>>
    BY DEF UserGrabs
  <1>2. TypeOK /\ JobsInv
    BY DEF IInv
  <1>3. PICK c \in Requests : c = GrabbedFor(q) /\ grabs'[Key(q)] = c /\ Key(c) = Key(q)
    BY <1>1, <1>2, GrabTyped
  <1>4. /\ grabs' \in [Releases \X Works -> Requests \cup {0}]
        /\ \A k \in DOMAIN grabs' : grabs'[k] # 0 =>
             k = <<ReleaseOf[grabs'[k]], WorkOf[grabs'[k]]>>
        /\ \A k \in Releases \X Works : grabs[k] # 0 => grabs'[k] = grabs[k]
    BY <1>1, <1>2, GrabTyped, GrabKeepsTypes
  <1>5. NewJob(c, 0)
    BY <1>1, <1>3
  <1>6. /\ jobs' \in Seq(Job) /\ JobsInv'
        /\ \A j \in DOMAIN jobs' :
             grabs'[<<ReleaseOf[jobs'[j].cand], jobs'[j].work>>] = jobs'[j].cand
    BY <1>1, <1>3, <1>4, <1>5, GrabKeepsTypes, NewJobKeeps
  <1>7. used' \in [grabs : Nat, late : Nat, faults : Nat]
    BY <1>1, <1>2, UsedTyped
  <1>8. TypeOK'
    BY <1>1, <1>2, <1>4, <1>6, <1>7 DEF TypeOK
  <1>9. TimesInv'
    BY <1>1 DEF IInv, TimesInv, Horizon
  <1> DEFINE l == Len(jobs) + 1
  <1>10. /\ DOMAIN jobs' = DOMAIN jobs \cup {l}
         /\ \A j \in DOMAIN jobs : jobs'[j] = jobs[j]
         /\ jobs'[l].for = 0 /\ jobs'[l].since = looks
    <2>1. /\ DOMAIN jobs' = DOMAIN jobs \cup {l}
          /\ \A j \in DOMAIN jobs : jobs'[j] = jobs[j]
          /\ jobs'[l] = [work |-> WorkOf[c], cand |-> c, for |-> 0, status |-> "active",
                         done |-> FALSE, look |-> looks, since |-> looks]
      BY <1>2, <1>5, NewJobTyped
    <2> HIDE DEF l
    <2>2. QED
      BY <2>1
  <1>a. \A j \in DOMAIN jobs : 1..(j - 1) \subseteq DOMAIN jobs
    BY <1>2 DEF TypeOK
  <1> HIDE DEF l
  <1>11. AutoOnce'
    BY <1>10, <1>a DEF IInv, AutoOnce
  <1>12. \A r \in Requests : Found(r) => Found(r)'
    <2> SUFFICES ASSUME NEW r \in Requests, Found(r) PROVE Found(r)'
      OBVIOUS
    <2>1. pass'.grab # 0 /\ grabs'[Key(r)] = pass'.grab
      BY <1>1, <1>4, Constants DEF Found
    <2>2. \A j \in DOMAIN jobs' :
            /\ jobs'[j].for # 0 => jobs'[j].cand # r
            /\ jobs'[j].work = WorkOf[r]
                 => jobs'[j].status = "failed" \/ jobs'[j].since >= looks
      BY <1>2, <1>10 DEF Found, TypeOK
    <2>3. QED
      BY <1>1, <2>1, <2>2 DEF Found, Key
  <1>13. QED
    BY <1>1, <1>6, <1>8, <1>9, <1>11, <1>12, PassKept DEF IInv

LEMMA JobStep ==
    ASSUME IInv, NEW j \in DOMAIN jobs, NEW s \in JobStatus, JobMoves(j, s)
    PROVE  IInv'
  <1>1. /\ UNCHANGED <<host, clock, updated, lastSeen, processed, pass, grabs, looks,
                       handled, missed>>
        /\ \/ used' = used
           \/ used' = [used EXCEPT !.late = @ + 1]
    BY DEF JobMoves
  <1>2. TypeOK /\ JobsInv /\ looks \in Nat
    BY DEF IInv, TypeOK
  <1>3. /\ jobs' \in Seq(Job) /\ DOMAIN jobs' = DOMAIN jobs
        /\ \A i \in DOMAIN jobs :
             /\ jobs'[i].work = jobs[i].work /\ jobs'[i].cand = jobs[i].cand
             /\ jobs'[i].for = jobs[i].for /\ jobs'[i].look = jobs[i].look
             /\ \/ jobs[i].status # "failed" /\ jobs'[i].since = jobs[i].since
                \/ jobs[i].status = "failed" /\ jobs'[i].since = looks
                \/ jobs'[i] = jobs[i]
    BY <1>2, JobChanged
  <1>4. used' \in [grabs : Nat, late : Nat, faults : Nat]
    BY <1>1, <1>2, UsedTyped
  <1>5. TypeOK'
    BY <1>1, <1>2, <1>3, <1>4 DEF TypeOK
  <1>6. TimesInv'
    BY <1>1 DEF IInv, TimesInv, Horizon
  <1>7. JobsInv'
    BY <1>1, <1>2, <1>3 DEF JobsInv, Key
  <1>8. AutoOnce'
    <2> SUFFICES ASSUME NEW k \in DOMAIN jobs, jobs[k].for # 0, NEW i \in 1..(k - 1)
                 PROVE  /\ jobs'[i].work = jobs'[k].work /\ jobs'[i].status # "failed"
                             => jobs'[i].since >= jobs'[k].look
                        /\ ~(jobs'[i].for = jobs'[k].for /\ jobs'[i].cand = jobs'[i].for)
      BY <1>3 DEF AutoOnce
    <2>1. i \in DOMAIN jobs
      BY <1>2 DEF TypeOK
    <2>2. jobs[k].look <= looks /\ jobs[k].look \in Nat
      <3>1. jobs[k] \in Job
        BY <1>2 DEF TypeOK
      <3>2. QED
        BY <1>2, <3>1 DEF JobsInv, Job
    <2>3. QED
      BY <1>2, <1>3, <2>1, <2>2 DEF IInv, AutoOnce
  <1>9. \A r \in Requests : Found(r) => Found(r)'
    BY <1>1, <1>2, <1>3 DEF Found, Key
  <1>10. QED
    BY <1>1, <1>5, <1>6, <1>7, <1>8, <1>9, PassKept DEF IInv

LEMMA TickStep ==
    ASSUME IInv, Tick
    PROVE  IInv'
  <1>1. /\ clock' = clock + 1
        /\ UNCHANGED <<host, updated, lastSeen, processed, pass, grabs, jobs, looks,
                       handled, missed, used>>
    BY DEF Tick
  <1>2. TypeOK'
    BY <1>1 DEF IInv, TypeOK
  <1>3. TimesInv'
    <2>1. /\ host.zone \in Int /\ clock \in Nat /\ lastSeen \in Int /\ pass.seen \in Int
          /\ \A r \in Requests : updated[r] \in Nat
      BY Constants DEF IInv, TypeOK
    <2>2. QED
      BY <1>1, <2>1 DEF IInv, TimesInv, Horizon
  <1>4. \A r \in Requests : Found(r) => Found(r)'
    BY <1>1 DEF Found, Key
  <1>5. QED
    BY <1>1, <1>2, <1>3, <1>4, PassKept, JobsUnchanged DEF IInv

LEMMA RestartStep ==
    ASSUME IInv, Restart
    PROVE  IInv'
  <1>1. /\ PassIdle \in PassRecord /\ pass' = PassIdle /\ pass'.todo = {}
        /\ pass'.pc = "idle" /\ pass'.seen = 0
    BY PassIdleTyped DEF Restart, PassIdle
  <1>2. /\ used' = [used EXCEPT !.faults = @ + 1]
        /\ lastSeen' = clock - Lookback /\ processed' = {}
        /\ missed' \subseteq missed \cup Requests
        /\ UNCHANGED <<host, clock, updated, grabs, jobs, looks, handled>>
    BY DEF Restart
  <1>3. TypeOK'
    <2>1. TypeOK /\ clock \in Nat
      BY DEF IInv, TypeOK
    <2>2. used' \in [grabs : Nat, late : Nat, faults : Nat]
      BY <1>2, <2>1, UsedTyped
    <2>3. lastSeen' \in Int /\ missed' \subseteq Requests /\ processed' \subseteq Requests
      BY <1>2, <2>1, Constants DEF TypeOK
    <2>4. QED
      BY <1>1, <1>2, <2>1, <2>2, <2>3 DEF TypeOK, PassRecord
  <1>4. TimesInv'
    <2>1. host.zone \in Int /\ clock \in Nat
      BY Constants DEF IInv, TypeOK
    <2>2. QED
      BY <1>1, <1>2, <2>1, Constants DEF IInv, TimesInv, Horizon
  <1>5. PassInv'
    BY <1>1 DEF PassInv
  <1>6. QED
    BY <1>2, <1>3, <1>4, <1>5, JobsUnchanged DEF IInv

LEMMA IInvNext ==
    ASSUME IInv, [Next]_vars
    PROVE  IInv'
  <1>1. CASE RunOnce
    BY <1>1, ListStep, ConsiderStep, GrabStep, EnqueueStep, EndPassStep DEF RunOnce
  <1>2. ASSUME NEW r \in Requests, SearchSucceeds(r) \/ UserGrabs(r) PROVE IInv'
    BY <1>2, SucceedsStep, UserGrabsStep
  <1>3. ASSUME NEW j \in DOMAIN jobs, NEW s \in JobStatus, JobMoves(j, s)
        PROVE  IInv'
    BY <1>3, JobStep
  <1>4. CASE Tick \/ Restart
    BY <1>4, TickStep, RestartStep
  <1>5. CASE UNCHANGED vars
    <2>1. TypeOK' /\ TimesInv'
      BY <1>5 DEF IInv, TypeOK, TimesInv, Horizon
    <2>2. \A r \in Requests : Found(r) => Found(r)'
      BY <1>5 DEF Found, Key
    <2>3. QED
      BY <1>5, <2>1, <2>2, PassKept, JobsUnchanged DEF IInv
  <1>6. QED
    BY <1>1, <1>2, <1>3, <1>4, <1>5 DEF Next

LEMMA Invariance == Spec => []IInv
  <1>1. Init => IInv
    BY IInvInit
  <1>2. IInv /\ [Next]_vars => IInv'
    BY IInvNext
  <1>3. QED
    BY <1>1, <1>2, PTL DEF Spec

\* The variables keep to their types; a grab is of the release and work it is
\* found by, whoever grabs when.
THEOREM TypeCorrect == Spec => []TypeOK
  <1>1. IInv => TypeOK
    BY DEF IInv
  <1>2. QED
    BY <1>1, Invariance, PTL

\* The worker queues a download of a work only beside jobs of it that had failed
\* when it looked, or came or came back since, and never grabs a candidate again
\* whose download failed.
THEOREM NeverTwice == Spec => []AutoOnce
  <1>1. IInv => AutoOnce
    BY DEF IInv
  <1>2. QED
    BY <1>1, Invariance, PTL

-----------------------------------------------------------------------------
(* The watermark, on hosts at or west of UTC.                              *)

\* A request the worker still owes an answer.
Open(r) == updated[r] # 0 /\ r \notin handled \cup missed

WaterInv ==
    /\ processed \subseteq handled
    /\ pass.pc # "idle" =>
         \A r \in AutoGrabs : Open(r) =>
            r \in pass.todo \/ updated[r] > UpdatedAfter(pass.seen)
    /\ WatermarkSafe

\* What the times of the invariant mean there.
LEMMA West ==
    ASSUME IInv, \A h \in Hosts : h.zone <= 0
    PROVE  /\ host.zone \in Int /\ host.zone <= 0
           /\ clock \in Nat /\ lastSeen \in Int /\ pass.seen \in Int
           /\ lastSeen <= clock /\ pass.seen <= clock
           /\ \A r \in AutoGrabs : r \in Requests /\ updated[r] \in Nat
  <1>1. host \in Hosts /\ TypeOK /\ TimesInv
    BY DEF IInv, TypeOK
  <1>2. host.zone \in Int /\ host.zone <= 0
    BY <1>1, Constants
  <1>3. Horizon = clock
    BY <1>1, <1>2 DEF Horizon, TypeOK
  <1>4. QED
    BY <1>1, <1>2, <1>3, Constants DEF TypeOK, TimesInv

\* A step that leaves the times and the watermark alone, and a request only
\* when it is dealt with.
LEMMA WaterKept ==
    ASSUME WaterInv,
           UNCHANGED <<host, updated, lastSeen>>,
           handled \subseteq handled', missed \subseteq missed',
           processed' \subseteq handled',
           pass'.pc # "idle" => /\ pass.pc # "idle" /\ pass'.seen = pass.seen
                                /\ \A r \in AutoGrabs : r \in pass.todo /\ Open(r)' =>
                                     r \in pass'.todo
    PROVE  WaterInv'
  <1>1. \A r \in AutoGrabs : Open(r)' => Open(r)
    BY DEF Open
  <1>2. WatermarkSafe'
    BY <1>1 DEF WaterInv, WatermarkSafe, Visible, VisibleAfter, UpdatedAfter, Open
  <1>3. ASSUME pass'.pc # "idle", NEW r \in AutoGrabs, Open(r)'
        PROVE  r \in pass'.todo \/ updated'[r] > UpdatedAfter(pass.seen)
    BY <1>1, <1>3 DEF WaterInv
  <1>4. UpdatedAfter(pass.seen) = pass.seen - 1 + host'.zone
    BY DEF UpdatedAfter
  <1>5. QED
    BY <1>2, <1>3, <1>4 DEF WaterInv, UpdatedAfter

LEMMA WaterPass ==
    ASSUME IInv, WaterInv, Consider \/ GrabCandidate \/ EnqueueFromGrab
    PROVE  WaterInv'
  <1>1. PICK r \in Requests : r = Newest(pass.todo)
    BY AtNewest DEF Consider, GrabCandidate, EnqueueFromGrab, IInv, PassInv
  <1>2. UNCHANGED <<host, updated, lastSeen>> /\ pass.pc # "idle"
    BY DEF Consider, GrabCandidate, EnqueueFromGrab
  <1>3. pass \in PassRecord
    BY DEF IInv, TypeOK, PassRecord
  <1>4. \/ Skip(r) \/ Reject(r) \/ PickCandidate(r)
        \/ Advance(r) /\ MarkProcessed(r) /\ (NoFault \/ Fault(r))
        \/ Advance(r) /\ UNCHANGED <<processed, handled>> /\ Fault(r)
        \/ /\ pass' = [pass EXCEPT !.pc = "enqueue", !.grab = GrabbedFor(r)]
           /\ UNCHANGED <<processed, handled>> /\ NoFault
    BY <1>1 DEF Consider, GrabCandidate, EnqueueFromGrab
  <1>5. ASSUME Advance(r), handled \subseteq handled', missed \subseteq missed',
               processed' \subseteq handled',
               r \in AutoGrabs => r \in handled' \cup missed'
        PROVE  WaterInv'
    <2>1. pass'.todo = pass.todo \ {r} /\ pass'.seen = pass.seen
      BY <1>3, <1>5, AdvanceTyped
    <2>2. \A q \in AutoGrabs : q \in pass.todo /\ Open(q)' => q \in pass'.todo
      BY <1>5, <2>1 DEF Open
    <2>3. QED
      BY <1>2, <1>5, <2>1, <2>2, WaterKept
  <1>6. ASSUME UNCHANGED <<processed, handled>>, NoFault,
               pass'.todo = pass.todo, pass'.seen = pass.seen
        PROVE  WaterInv'
    <2>1. processed' \subseteq handled' /\ missed' = missed
      BY <1>6 DEF WaterInv, NoFault
    <2>2. QED
      BY <1>2, <1>6, <2>1, WaterKept
  <1>7. processed \subseteq handled
    BY DEF WaterInv
  <1>8. CASE Skip(r)
    BY <1>5, <1>7, <1>8 DEF Skip, NoFault
  <1>9. CASE Reject(r)
    BY <1>5, <1>7, <1>9 DEF Reject, MarkProcessed, NoFault, Fault
  <1>10. CASE PickCandidate(r)
    BY <1>3, <1>6, <1>10, InHandTyped DEF PickCandidate
  <1>11. CASE Advance(r) /\ MarkProcessed(r) /\ (NoFault \/ Fault(r))
    BY <1>5, <1>7, <1>11 DEF MarkProcessed, NoFault, Fault
  <1>12. CASE Advance(r) /\ UNCHANGED <<processed, handled>> /\ Fault(r)
    BY <1>5, <1>7, <1>12 DEF Fault
  <1>13. CASE /\ pass' = [pass EXCEPT !.pc = "enqueue", !.grab = GrabbedFor(r)]
              /\ UNCHANGED <<processed, handled>> /\ NoFault
    <2>1. pass'.todo = pass.todo /\ pass'.seen = pass.seen
      BY <1>3, <1>13 DEF PassRecord
    <2>2. QED
      BY <1>6, <1>13, <2>1
  <1>14. QED
    BY <1>4, <1>8, <1>9, <1>10, <1>11, <1>12, <1>13

LEMMA WaterList ==
    ASSUME IInv, WaterInv, ListSearchRequests
    PROVE  WaterInv'
  <1>1. /\ pass'.todo = Listed /\ missed' = missed \cup (Visible \ Listed)
        /\ UNCHANGED <<host, updated, lastSeen, processed, handled>>
    BY DEF ListSearchRequests
  <1>2. \A r \in AutoGrabs : Open(r)' => Open(r) /\ r \in Visible /\ r \in Listed
    BY <1>1 DEF Open, WaterInv, WatermarkSafe
  <1>3. WatermarkSafe'
    BY <1>1, <1>2 DEF WatermarkSafe, Visible, VisibleAfter, UpdatedAfter, Open
  <1>4. QED
    BY <1>1, <1>2, <1>3 DEF WaterInv

LEMMA WaterEnd ==
    ASSUME IInv, WaterInv, EndPass
    PROVE  WaterInv'
  <1>1. /\ pass.pc = "next" /\ pass.todo = {} /\ lastSeen' = pass.seen
        /\ UNCHANGED <<host, updated, processed, handled, missed>>
    BY DEF EndPass
  <1>2. pass'.pc = "idle"
    BY PassIdleTyped DEF EndPass
  <1>3. \A r \in AutoGrabs : Open(r)' => updated[r] > pass.seen - 1 + host.zone
    BY <1>1 DEF Open, WaterInv, UpdatedAfter
  <1>4. WatermarkSafe'
    BY <1>1, <1>3, Constants DEF WatermarkSafe, Visible, VisibleAfter, UpdatedAfter, Open
  <1>5. QED
    BY <1>1, <1>2, <1>4 DEF WaterInv

LEMMA WaterSucceeds ==
    ASSUME IInv, WaterInv, \A h \in Hosts : h.zone <= 0,
           NEW q \in Requests, SearchSucceeds(q)
    PROVE  WaterInv'
  <1>1. /\ updated[q] = 0 /\ updated' = [updated EXCEPT ![q] = clock]
        /\ UNCHANGED <<host, clock, lastSeen, processed, pass, handled, missed>>
    BY DEF SearchSucceeds
  <1>2. /\ host.zone \in Int /\ host.zone <= 0
        /\ clock \in Nat /\ lastSeen \in Int /\ pass.seen \in Int
        /\ lastSeen <= clock /\ pass.seen <= clock
    BY West
  <1>3. updated \in [Requests -> Nat]
    BY DEF IInv, TypeOK
  <1>4. updated'[q] = clock /\ \A r \in Requests \ {q} : updated'[r] = updated[r]
    BY <1>1, <1>3
  <1>5. clock > lastSeen - 1 + host.zone /\ clock > pass.seen - 1 + host.zone
    BY <1>2
  <1>6. \A r \in AutoGrabs : r # q /\ Open(r)' => Open(r)
    BY <1>1, <1>4, Constants DEF Open
  <1>7. ASSUME NEW r \in AutoGrabs, Open(r)'
        PROVE  updated'[r] > lastSeen - 1 + host.zone
    <2>1. CASE r = q
      BY <1>4, <1>5, <2>1
    <2>2. CASE r # q
      BY <1>4, <1>6, <1>7, <2>2, Constants
         DEF WaterInv, WatermarkSafe, Visible, VisibleAfter, UpdatedAfter, Open
    <2>3. QED
      BY <2>1, <2>2
  <1>8. ASSUME pass.pc # "idle", NEW r \in AutoGrabs, Open(r)'
        PROVE  r \in pass.todo \/ updated'[r] > pass.seen - 1 + host.zone
    <2>1. CASE r = q
      BY <1>4, <1>5, <2>1
    <2>2. CASE r # q
      BY <1>4, <1>6, <1>8, <2>2, Constants DEF WaterInv, UpdatedAfter
    <2>3. QED
      BY <2>1, <2>2
  <1>9. WatermarkSafe'
    BY <1>1, <1>7, Constants DEF WatermarkSafe, Visible, VisibleAfter, UpdatedAfter, Open
  <1>10. QED
    BY <1>1, <1>8, <1>9 DEF WaterInv, UpdatedAfter

LEMMA WaterRestart ==
    ASSUME WaterInv, Restart
    PROVE  WaterInv'
  <1>1. /\ lastSeen' = clock - Lookback /\ processed' = {}
        /\ missed' = missed \cup {r \in Requests : updated[r] # 0
                                    /\ r \notin VisibleAfter(clock - Lookback)}
        /\ UNCHANGED <<host, updated, handled>>
    BY DEF Restart
  <1>2. pass'.pc = "idle"
    BY PassIdleTyped DEF Restart
  <1>3. \A r \in AutoGrabs : Open(r)' => r \in VisibleAfter(clock - Lookback)
    BY <1>1, Constants DEF Open
  <1>4. WatermarkSafe'
    BY <1>1, <1>3 DEF WatermarkSafe, Visible, VisibleAfter, UpdatedAfter, Open
  <1>5. QED
    BY <1>1, <1>2, <1>4 DEF WaterInv

LEMMA WaterNext ==
    ASSUME IInv, WaterInv, \A h \in Hosts : h.zone <= 0, [Next]_vars
    PROVE  WaterInv'
  <1>1. CASE RunOnce
    BY <1>1, WaterList, WaterPass, WaterEnd DEF RunOnce
  <1>2. ASSUME NEW r \in Requests, SearchSucceeds(r) PROVE WaterInv'
    BY <1>2, WaterSucceeds
  <1>3. ASSUME UNCHANGED <<host, updated, lastSeen, processed, pass, handled, missed>>
        PROVE  WaterInv'
    BY <1>3, WaterKept DEF WaterInv
  <1>4. ASSUME NEW r \in Requests, UserGrabs(r) PROVE WaterInv'
    BY <1>3, <1>4 DEF UserGrabs
  <1>5. ASSUME NEW j \in DOMAIN jobs, NEW s \in JobStatus, JobMoves(j, s)
        PROVE  WaterInv'
    BY <1>3, <1>5 DEF JobMoves
  <1>6. CASE Tick \/ UNCHANGED vars
    BY <1>3, <1>6 DEF Tick
  <1>7. CASE Restart
    BY <1>7, WaterRestart
  <1>8. QED
    BY <1>1, <1>2, <1>4, <1>5, <1>6, <1>7 DEF Next

\* On hosts at or west of UTC the watermark passes no search the worker has
\* not dealt with, except for one a fault, the limit or a restart cost.  East
\* of it the zone is counted in and the theorem does not hold.
THEOREM NothingPassed ==
    ASSUME \A h \in Hosts : h.zone <= 0
    PROVE  Spec => []WatermarkSafe
  <1>1. Init => WaterInv
    <2> SUFFICES ASSUME Init PROVE WaterInv
      OBVIOUS
    <2>1. pass.pc = "idle" /\ processed = {}
      BY PassIdleTyped DEF Init
    <2>2. \A r \in AutoGrabs : updated[r] = 0
      BY Constants DEF Init
    <2>3. QED
      BY <2>1, <2>2 DEF WaterInv, WatermarkSafe
  <1>2. IInv /\ WaterInv /\ [Next]_vars => WaterInv'
    BY WaterNext
  <1>3. WaterInv => WatermarkSafe
    BY DEF WaterInv
  <1>4. QED
    BY <1>1, <1>2, <1>3, Invariance, PTL DEF Spec

=============================================================================
