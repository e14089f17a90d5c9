--------------------------- MODULE StartupProofs ---------------------------
(***************************************************************************)
(* The safety of the start-up, for every choice of flags, limits and       *)
(* number of changes.                                                      *)
(***************************************************************************)
EXTENDS Startup, TLAPS

\* RunsConnected looks at the end of the start-up only.  Where main is tells
\* what it has passed: the command line, then the open connection, then the probe.
PassedInv ==
    /\ pc \notin {"parse", "exited"} => args \subseteq FirstFlags
    /\ pc \in {"probe", "sleep", "manager", "start", "run"} => dial = "open"
    /\ name => pc \in {"manager", "start", "run"}

StartInv == TypeOK /\ PassedInv /\ RunsConnected

\* In the initial state main has passed nothing and nothing runs.
LEMMA StartInit == Init => StartInv
<1> SUFFICES ASSUME Init PROVE StartInv
  OBVIOUS
<1>1. changes \in 0..MaxChanges
  BY StartupAssumption DEF Init
<1>2. ~name /\ name \in BOOLEAN /\ server \in BOOLEAN
  BY DEF Init
<1> QED
  BY <1>1, <1>2 DEF Init, StartInv, TypeOK, PassedInv, RunsConnected, PCs

\* A process that exits leaves nothing behind, whenever it does.
LEMMA ExitKeeps ==
    ASSUME StartInv, Exit, UNCHANGED <<driver, server, args, limit>>,
           changes' \in 0..MaxChanges
    PROVE  StartInv'
BY DEF Exit, StartInv, TypeOK, PassedInv, RunsConnected, PCs

\* The steps of main, one by one.
LEMMA MainKeeps == ASSUME StartInv, MainStep PROVE StartInv'
<1> USE DEF StartInv, TypeOK, PassedInv, RunsConnected, PCs
<1>1. CASE ParseFails
  BY <1>1, ExitKeeps DEF ParseFails, world
<1>2. CASE Parse
  BY <1>2 DEF Parse, Rejects, world
<1>3. CASE Connect
  BY <1>3 DEF Connect, Goto, world
<1>4. CASE ProbeAnswers
  BY <1>4 DEF ProbeAnswers, world
<1>5. CASE ProbeTimesOut
  BY <1>5 DEF ProbeTimesOut, Goto, world
<1>6. CASE ProbeAgain
  BY <1>6 DEF ProbeAgain, Goto, world
<1>7. CASE ProbeFails
  BY <1>7, ExitKeeps DEF ProbeFails, world
<1>8. CASE SetupWithManager
  BY <1>8 DEF SetupWithManager, world
<1>9. CASE Start
  BY <1>9 DEF Start, Goto, world
<1>10. CASE ManagerFails
  BY <1>10, ExitKeeps DEF ManagerFails, world
<1>11. CASE Restart
  BY <1>11 DEF Restart, Goto, world
<1> QED
  BY <1>1, <1>2, <1>3, <1>4, <1>5, <1>6, <1>7, <1>8, <1>9, <1>10, <1>11
     DEF MainStep

\* Everything else: goroutines, failures, the world outside.
LEMMA NextKeeps == ASSUME StartInv, [Next]_vars PROVE StartInv'
<1> USE DEF StartInv, TypeOK, PassedInv, RunsConnected, PCs
<1>1. CASE MainStep
  BY <1>1, MainKeeps
<1>2. CASE DialEnds
  BY <1>2 DEF DialEnds, world
<1>3. CASE InformerLists
  BY <1>3 DEF InformerLists, world
<1>4. ASSUME Change PROVE changes' \in 0..MaxChanges
  BY <1>4, StartupAssumption DEF Change
<1>5. CASE Crash
  BY <1>4, <1>5, ExitKeeps DEF Crash
<1>6. CASE ChangeDriver
  BY <1>4, <1>6 DEF ChangeDriver, local
<1>7. CASE ChangeServer
  BY <1>4, <1>7 DEF ChangeServer, local
<1>8. CASE UNCHANGED vars
  BY <1>8 DEF vars, local, world
<1> QED
  BY <1>1, <1>2, <1>3, <1>5, <1>6, <1>7, <1>8 DEF Next

\* No order of refusals, timeouts, crashes and restarts leaves a process
\* without type, or goroutines without a process.
THEOREM StartTyped == Spec => []TypeOK
<1>1. StartInv => TypeOK
  BY DEF StartInv
<1> QED
  BY <1>1, StartInit, NextKeeps, PTL DEF Spec

\* The manager runs only with the name that the driver gave over the open
\* connection of the same process.
THEOREM StartConnected == Spec => []RunsConnected
<1>1. StartInv => RunsConnected
  BY DEF StartInv
<1> QED
  BY <1>1, StartInit, NextKeeps, PTL DEF Spec
=============================================================================
