---------------------------- MODULE Supervision ----------------------------
(***************************************************************************)
(* The launcher over the services of one host, and the job engine inside   *)
(* one of them: the engine runs while the backend's process is up, and a   *)
(* backend that exits, is killed or is restarted forgets every job.        *)
(***************************************************************************)
EXTENDS JobEngine, Launcher

CONSTANT Backend

ASSUME BackendAssumption == Backend \in Services

vars == <<engine, launcher>>

Up == child[Backend] = "up"

SupervisionInit == Init /\ LauncherInit

Engine(A) == Up /\ A /\ UNCHANGED launcher

\* A step of the launcher, and what it does to the backend's memory.
Manager(A) == A /\ IF Up /\ ~Up' THEN Forget ELSE UNCHANGED engine

SupervisionNext == Engine(Step) \/ Manager(LauncherNext)

\* Go runs every goroutine that can run; a handler's calls have timeouts, and
\* so have the waits for health and for processes to stop.
Fairness ==
    /\ \A w \in Workers : WF_vars(Engine(ClaimRunnable(w))) /\ WF_vars(Engine(Work(w)))
    /\ \A j \in 1 .. MaxJobs : WF_vars(Engine(j \in Ids /\ RunAtComes(j)))
    /\ \A s \in Services : WF_vars(Manager(Goroutine(s)))
    /\ WF_vars(Manager(Manage))

SupervisionSpec == SupervisionInit /\ [][SupervisionNext]_vars /\ Fairness

=============================================================================
