--------------------------- MODULE LauncherProofs ---------------------------
(***************************************************************************)
(* Proofs about the launcher.  LauncherTypeOK is inductive; NoneAbandoned  *)
(* needs that Run only stops and waits once the context is canceled, and   *)
(* that no goroutine starts again once it has ended (StopInv).             *)
(***************************************************************************)
EXTENDS Launcher, TLAPS

USE DEF launcher, Main, Children

LEMMA TypeInit == LauncherInit => LauncherTypeOK
  <1> SUFFICES ASSUME LauncherInit PROVE LauncherTypeOK
    OBVIOUS
  <1>1. 0 \in 0 .. RestartLimit /\ 0 \in 0 .. MaxExits
    BY LauncherAssumption
  <1>2. QED
    BY <1>1 DEF LauncherInit, LauncherTypeOK

LEMMA TypeStep ==
    ASSUME LauncherTypeOK, [LauncherNext]_launcher
    PROVE  LauncherTypeOK'
  <1> USE LauncherAssumption DEF LauncherTypeOK
  <1>1. ASSUME NEW s \in Services, Goroutine(s)
        PROVE  LauncherTypeOK'
    <2>1. CASE StartProc(s)
      BY <2>1 DEF StartProc, Becomes, GiveUp, Trouble
    <2>2. CASE Killed(s)
      BY <2>2 DEF Killed, Becomes
    <2>3. CASE ExitSeen(s)
      BY <2>3 DEF ExitSeen, Becomes, GiveUp
    <2>4. CASE DelayEnds(s)
      BY <2>4 DEF DelayEnds, Becomes
    <2>5. QED
      BY <1>1, <2>1, <2>2, <2>3, <2>4 DEF Goroutine
  <1>2. ASSUME NEW s \in Services, Exit(s) \/ Healthy(s) \/ WindowPasses(s)
        PROVE  LauncherTypeOK'
    BY <1>2 DEF Exit, Healthy, WindowPasses, Becomes, Trouble
  <1>3. CASE Manage \/ AskStop
    BY <1>3 DEF Manage, AskStop, HealthTimeout, Stop, StopAll, Return
  <1>4. CASE UNCHANGED launcher
    BY <1>4
  <1>5. QED
    BY <1>1, <1>2, <1>3, <1>4 DEF LauncherNext

\* Every reachable state is well typed: the restart budget in particular is
\* never exceeded (RestartPolicy.AllowRestart).
THEOREM TypeCorrect == LauncherSpec => []LauncherTypeOK
  BY TypeInit, TypeStep, PTL DEF LauncherSpec

-----------------------------------------------------------------------------
(* Nothing is left behind.                                                 *)

StopInv ==
    /\ \A s \in Services : child[s] = "gone" => canceled \/ s \in errCh
    /\ run \in {"stop", "wait", "returned"} => canceled
    /\ run = "returned" => \A s \in Services : child[s] = "gone"

LEMMA StopStep ==
    ASSUME LauncherTypeOK, StopInv, [LauncherNext]_launcher
    PROVE  StopInv'
  <1> USE DEF LauncherTypeOK, StopInv
  <1>1. ASSUME NEW s \in Services, Goroutine(s)
        PROVE  StopInv'
    <2>1. child[s] # "gone" /\ UNCHANGED <<run, canceled>> /\ run # "returned"
      BY <1>1 DEF Goroutine, StartProc, Killed, ExitSeen, DelayEnds
    <2>2. /\ errCh \subseteq errCh'
          /\ \A r \in Services : r # s => child'[r] = child[r]
      BY <1>1 DEF Goroutine, StartProc, Killed, ExitSeen, DelayEnds, Becomes, GiveUp
    <2>3. child'[s] = "gone" => canceled \/ s \in errCh'
      BY <1>1 DEF Goroutine, StartProc, Killed, ExitSeen, DelayEnds, Becomes, GiveUp
    <2>4. QED
      BY <2>1, <2>2, <2>3
  <1>2. ASSUME NEW s \in Services, Exit(s) \/ Healthy(s) \/ WindowPasses(s)
        PROVE  StopInv'
    BY <1>2 DEF Exit, Healthy, WindowPasses, Becomes
  <1>3. CASE Manage \/ AskStop
    BY <1>3 DEF Manage, AskStop, HealthTimeout, Stop, StopAll, Return
  <1>4. CASE UNCHANGED launcher
    BY <1>4
  <1>5. QED
    BY <1>1, <1>2, <1>3, <1>4 DEF LauncherNext

\* No service is given up in silence, and Run leaves nothing behind, wherever a
\* stop finds its goroutines (Manager.Run, stopAll).
THEOREM NothingLeft == LauncherSpec => []NoneAbandoned
  <1>1. LauncherInit => StopInv
    BY DEF LauncherInit, StopInv
  <1>2. StopInv => NoneAbandoned
    BY DEF StopInv, NoneAbandoned
  <1>3. QED
    BY <1>1, <1>2, StopStep, TypeCorrect, PTL DEF LauncherSpec

=============================================================================
