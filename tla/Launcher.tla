------------------------------ MODULE Launcher ------------------------------
(***************************************************************************)
(* launcher/internal/launcher: Manager.Run starts every service in a       *)
(* goroutine of its own that restarts it when it exits, waits for all of   *)
(* them to be healthy, and stops them all when one is given up or the      *)
(* launcher is asked to stop.                                              *)
(*                                                                         *)
(* Abstracted: the length of every delay; of the restarts that count, only *)
(* how many are still inside the window.                                   *)
(***************************************************************************)
EXTENDS Integers, FiniteSets

CONSTANTS
    Services,
    RestartLimit,   \* restarts of a service within the window: 5 in the code
    MaxExits        \* bound: services that exit or cannot be started

ASSUME LauncherAssumption ==
    /\ IsFiniteSet(Services) /\ Services # {}
    /\ RestartLimit \in Nat \ {0}
    /\ MaxExits \in Nat

VARIABLES
    run,        \* Manager.Run: where it is
    canceled,   \* its context
    errCh,      \* the services whose goroutine has sent an error
    healthy,    \* endpoints that have answered
    child,      \* each service's goroutine and process
    recent,     \* restarts of each service inside its window
    exits       \* bound: exits so far

launcher == <<run, canceled, errCh, healthy, child, recent, exits>>

-----------------------------------------------------------------------------
\* Where Run, its goroutines and the restart budgets may be.
LauncherTypeOK ==
    /\ run \in {"health", "serve", "stop", "wait", "returned"}
    /\ canceled \in BOOLEAN
    /\ errCh \subseteq Services /\ healthy \subseteq Services
    /\ child \in [Services -> {"start", "up", "exited", "delay", "gone"}]
    /\ recent \in [Services -> 0 .. RestartLimit]
    /\ exits \in 0 .. MaxExits

LauncherInit ==
    /\ run = "health"
    /\ canceled = FALSE
    /\ errCh = {} /\ healthy = {}
    /\ child = [s \in Services |-> "start"]
    /\ recent = [s \in Services |-> 0]
    /\ exits = 0

Main == <<run, canceled, healthy>>
Becomes(s, c) == child' = [child EXCEPT ![s] = c]
GiveUp(s) == Becomes(s, "gone") /\ errCh' = errCh \cup {s}
Trouble == exits < MaxExits /\ exits' = exits + 1

-----------------------------------------------------------------------------
(* The goroutine of a service.                                             *)

\* exec refuses to start a command whose context is canceled.
StartProc(s) ==
    /\ child[s] = "start"
    /\ \/ ~canceled /\ Becomes(s, "up") /\ UNCHANGED <<errCh, exits>>
       \/ canceled /\ GiveUp(s) /\ UNCHANGED exits
       \/ ~canceled /\ Trouble /\ GiveUp(s)
    /\ UNCHANGED <<Main, recent>>

Exit(s) ==
    /\ child[s] = "up"
    /\ ~canceled
    /\ Trouble
    /\ Becomes(s, "exited")
    /\ UNCHANGED <<Main, errCh, recent>>

\* exec.CommandContext kills the process when its context is canceled.
Killed(s) ==
    /\ child[s] = "up"
    /\ canceled
    /\ Becomes(s, "exited")
    /\ UNCHANGED <<Main, errCh, recent, exits>>

\* Mutant: over its budget a service is left alone.
ExitSeenSilent(s) ==
    /\ child[s] = "exited"
    /\ \/ /\ ~canceled /\ recent[s] < RestartLimit
          /\ Becomes(s, "delay")
          /\ recent' = [recent EXCEPT ![s] = @ + 1]
       \/ /\ canceled \/ recent[s] = RestartLimit
          /\ Becomes(s, "gone")
          /\ UNCHANGED recent
    /\ UNCHANGED <<Main, errCh, exits>>

\* Wait returns.  shuttingDown is only set once the context is canceled.
ExitSeen(s) ==
    /\ child[s] = "exited"
    /\ \/ /\ canceled
          /\ Becomes(s, "gone")
          /\ UNCHANGED <<errCh, recent>>
       \/ /\ ~canceled /\ recent[s] < RestartLimit
          /\ Becomes(s, "delay")
          /\ recent' = [recent EXCEPT ![s] = @ + 1]
          /\ UNCHANGED errCh
       \/ /\ ~canceled /\ recent[s] = RestartLimit
          /\ GiveUp(s)
          /\ UNCHANGED recent
    /\ UNCHANGED <<Main, exits>>

\* Both cases of the select may be ready.
DelayEnds(s) ==
    /\ child[s] = "delay"
    /\ \/ Becomes(s, "start")
       \/ canceled /\ Becomes(s, "gone")
    /\ UNCHANGED <<Main, errCh, recent, exits>>

\* The oldest restart leaves the window.
WindowPasses(s) ==
    /\ recent[s] > 0
    /\ recent' = [recent EXCEPT ![s] = @ - 1]
    /\ UNCHANGED <<Main, errCh, child, exits>>

Goroutine(s) == StartProc(s) \/ Killed(s) \/ ExitSeen(s) \/ DelayEnds(s)

-----------------------------------------------------------------------------
(* Manager.Run.                                                            *)

Children == <<errCh, child, recent, exits>>

\* WaitForHealthy: an endpoint counts from its first good answer on.
Healthy(s) ==
    /\ run = "health"
    /\ ~canceled
    /\ child[s] = "up"
    /\ healthy' = healthy \cup {s}
    /\ run' = IF healthy' = Services THEN "serve" ELSE run
    /\ UNCHANGED <<canceled, Children>>

\* Mutant: no deadline.
WaitForHealth ==
    /\ run = "health"
    /\ canceled
    /\ run' = "wait"
    /\ UNCHANGED <<canceled, healthy, Children>>

\* The deadline of HealthTimeout, or a stop.
HealthTimeout ==
    /\ run = "health"
    /\ run' = "wait"
    /\ canceled' = TRUE
    /\ UNCHANGED <<healthy, Children>>

\* The select: a stop, or a service that was given up.
Stop ==
    /\ run = "serve"
    /\ canceled \/ errCh # {}
    /\ run' = "stop"
    /\ canceled' = TRUE
    /\ UNCHANGED <<healthy, Children>>

\* stopAll returns when every process is gone, or after StopTimeout.
StopAll ==
    /\ run = "stop"
    /\ run' = "wait"
    /\ UNCHANGED <<canceled, healthy, Children>>

Return ==
    /\ run = "wait"
    /\ \A s \in Services : child[s] = "gone"
    /\ run' = "returned"
    /\ UNCHANGED <<canceled, healthy, Children>>

\* The service manager stops the launcher's service.
AskStop ==
    /\ run # "returned"
    /\ canceled' = TRUE
    /\ UNCHANGED <<run, healthy, Children>>

Manage == HealthTimeout \/ Stop \/ StopAll \/ Return

LauncherNext ==
    \/ \E s \in Services : Goroutine(s) \/ Exit(s) \/ Healthy(s) \/ WindowPasses(s)
    \/ Manage
    \/ AskStop

LauncherSpec == LauncherInit /\ [][LauncherNext]_launcher

-----------------------------------------------------------------------------
(* Properties.                                                             *)

\* A stop, and a service that was given up, end Run, with every goroutine done
\* and every process gone, wherever Run and the goroutines were.
StopReturns == (canceled \/ errCh # {}) ~> (run = "returned")

\* A goroutine that has ended was stopped, or has told Run that it gave its
\* service up; and when Run has returned no process and no goroutine is left.
NoneAbandoned ==
    /\ \A s \in Services : child[s] = "gone" => canceled \/ s \in errCh
    /\ run = "returned" => canceled /\ \A s \in Services : child[s] = "gone"

\* No service stays down while Run goes on: it comes up again or all stop.
Restarted ==
    \A s \in Services : (child[s] # "up") ~> (child[s] = "up" \/ run = "returned")

=============================================================================
