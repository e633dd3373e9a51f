-------------------------- MODULE DeploymentProofs --------------------------
(***************************************************************************)
(* For any number of scripts and builds on one host: the service runs the  *)
(* installed binary or is about to, a binary that does not run gets past   *)
(* the smoke test only by another's answer, the rollback undoes something, *)
(* and no staged server outlives its test unless it has been told to end.  *)
(***************************************************************************)
EXTENDS Deployment, TLAPS

\* A script that has put its binary in place is past its swap.
PlacedBySwap ==
    \A d \in placed :
        step[d] \notin {"start", "landed", "testing", "passed", "copied", "unmoved"}

\* Whatever binary lies in either place was put there by someone.
FilesHaveOrigins ==
    \A b \in {installed, predecessor} \cap Builds : Origins(b) # {}

\* Only a smoke test has a staged process; one on its way out may outlast it.
StagedWhileTesting ==
    \A d \in Scripts :
        /\ staged[d] \in {"starting", "serving"} => step[d] = "testing"
        /\ staged[d] = "leaving" => step[d] \notin {"start", "landed", "testing"}

\* What listens on the port of the smoke tests runs, and so did whatever
\* answered a deploy that went past its own.
AnswersCameFromServers ==
    /\ port # None => port \in Scripts /\ runs[built[port]] = TRUE
    /\ \A d \in Scripts :
          /\ answered[d] # None =>
                answered[d] \in Scripts /\ runs[built[answered[d]]] = TRUE
          /\ step[d] \in {"passed", "copied"} => answered[d] # None

\* What the scripts promise, made inductive.
Safe ==
    /\ RunsWhatIsInstalled
    /\ PlacedBySwap
    /\ FilesHaveOrigins
    /\ RollbackUndoes
    /\ StagedWhileTesting
    /\ SmokeServersEnd
    /\ AnswersCameFromServers
    /\ SmokeTestGuards

IInv == TypeOK /\ Safe

\* Before any script has run.
LEMMA InitIInv == Init => IInv
  BY NamesAssumption, FaultsAssumption
  DEF Init, IInv, Safe, TypeOK, Files, Processes, Process, Managers, Steps,
      RunsWhatIsInstalled, PlacedBySwap, FilesHaveOrigins, Origins, RollbackUndoes,
      StagedWhileTesting, SmokeServersEnd, AnswersCameFromServers, SmokeTestGuards

\* A signal leaves a process of the same kind of record ...
LEMMA SignalledType ==
    ASSUME proc \in Processes, NEW told \in BOOLEAN, NEW q \in Signalled(told)
    PROVE  q \in Processes
  BY DEF Signalled, Processes

\* ... which does not serve.
LEMMA SignalledNotUp ==
    ASSUME proc \in Processes, NEW told \in BOOLEAN, NEW q \in Signalled(told)
    PROVE  q.at # "up"
  BY DEF Signalled, Processes

\* A process that has ended is one, and does not serve.
LEMMA GoneType ==
    /\ Gone("down") \in Processes /\ Gone("down").at # "up"
    /\ Gone("exited") \in Processes /\ Gone("exited").at # "up"
  BY DEF Gone, Process, Processes, Files

\* What a supervisor launches is a process of the installed binary, or none.
LEMMA LaunchedType ==
    ASSUME NEW b \in Files
    PROVE  /\ Launched(b) \in Processes
           /\ Launched(b).at = "up" => Launched(b).bin = b
  BY DEF Launched, Gone, Process, Processes, Files

\* One step per action of the scripts, the supervisor and the process.
LEMMA TypeStep == TypeOK /\ [Next]_vars => TypeOK'
<1> SUFFICES ASSUME TypeOK, [Next]_vars PROVE TypeOK'
  OBVIOUS
<1> USE NamesAssumption, FaultsAssumption
    DEF TypeOK, Files, Managers, Steps, hostVars, smokeVars, fileVars, procVars
<1>1. ASSUME NEW d \in Scripts, Deploy(d) PROVE TypeOK'
  <2>1. CASE Land(d)
    BY <2>1 DEF Land, Goes
  <2>2. CASE Stage(d)
    BY <2>2 DEF Stage, Goes
  <2>3. CASE Bind(d)
    BY <2>3 DEF Bind
  <2>4. CASE Probe(d)
    BY <2>4 DEF Probe, Goes, KillStaged
  <2>5. CASE Release(d)
    BY <2>5 DEF Release
  <2>6. CASE CopyPredecessor(d)
    BY <2>6 DEF CopyPredecessor, Goes
  <2>7. CASE Swap(d)
    BY <2>7 DEF Swap, Goes
  <2>8. CASE LoseConnection(d)
    BY <2>8 DEF LoseConnection, Goes
  <2>9. CASE StopService(d)
    <3>1. proc' \in Processes
      BY <2>9, SignalledType DEF StopService
    <3> QED
      BY <2>9, <3>1 DEF StopService, Goes
  <2>10. CASE StopFails(d)
    BY <2>10 DEF StopFails, Goes
  <2>11. CASE StopReturns(d)
    BY <2>11 DEF StopReturns, Goes
  <2>12. CASE StartService(d)
    <3>1. proc' \in Processes
      BY <2>12, LaunchedType DEF StartService
    <3> QED
      BY <2>12, <3>1 DEF StartService, Goes
  <2>13. CASE CheckHealth(d)
    BY <2>13 DEF CheckHealth, Goes
  <2>14. CASE NothingToRestart(d)
    BY <2>14 DEF NothingToRestart, Goes
  <2> QED
    BY <1>1, <2>1, <2>2, <2>3, <2>4, <2>5, <2>6, <2>7, <2>8, <2>9, <2>10, <2>11, <2>12, <2>13, <2>14
    DEF Deploy
<1>2. ASSUME NEW d \in Scripts, Reload(d) PROVE TypeOK'
  <2>1. CASE Build(d)
    BY <2>1 DEF Build, Goes
  <2>2. CASE Kickstart(d)
    <3>1. proc' \in Processes
      BY <2>2, SignalledType, GoneType DEF Kickstart
    <3> QED
      BY <2>2, <3>1 DEF Kickstart, Goes
  <2>3. CASE VerifyHealthy(d)
    BY <2>3 DEF VerifyHealthy, Goes
  <2> QED
    BY <1>2, <2>1, <2>2, <2>3
    DEF Reload
<1>3. CASE Service
  <2>1. CASE Shutdown
    <3>1. proc' \in Processes
      BY <2>1, GoneType DEF Shutdown, Ends
    <3> QED
      BY <2>1, <3>1 DEF Shutdown, Ends
  <2>2. CASE Watchdog
    <3>1. proc' \in Processes
      BY <2>2, GoneType DEF Watchdog, Ends
    <3> QED
      BY <2>2, <3>1 DEF Watchdog, Ends
  <2>3. CASE Kill
    <3>1. proc' \in Processes
      BY <2>3, GoneType DEF Kill, Ends
    <3> QED
      BY <2>3, <3>1 DEF Kill, Ends
  <2>4. CASE Crash
    <3>1. proc' \in Processes
      BY <2>4, GoneType DEF Crash, Ends
    <3> QED
      BY <2>4, <3>1 DEF Crash, Ends
  <2>5. CASE Signal
    <3>1. proc' \in Processes
      BY <2>5, SignalledType DEF Signal
    <3> QED
      BY <2>5, <3>1 DEF Signal
  <2>6. CASE Respawn
    <3>1. proc' \in Processes
      BY <2>6, LaunchedType DEF Respawn
    <3> QED
      BY <2>6, <3>1 DEF Respawn
  <2> QED
    BY <1>3, <2>1, <2>2, <2>3, <2>4, <2>5, <2>6
    DEF Service
<1>4. CASE UNCHANGED vars
  BY <1>4 DEF vars
<1> QED
  BY <1>1, <1>2, <1>3, <1>4 DEF Next

\* The same steps, for the rest of the invariant.
LEMMA SafeStep == TypeOK /\ TypeOK' /\ Safe /\ [Next]_vars => Safe'
<1> SUFFICES ASSUME TypeOK, TypeOK', Safe, [Next]_vars PROVE Safe'
  OBVIOUS
<1> USE NamesAssumption
    DEF TypeOK, Files, hostVars, smokeVars, fileVars, procVars, Origins,
        Safe, RunsWhatIsInstalled, PlacedBySwap, FilesHaveOrigins, RollbackUndoes,
        StagedWhileTesting, SmokeServersEnd, AnswersCameFromServers, SmokeTestGuards
<1>1. ASSUME NEW d \in Scripts, Deploy(d) PROVE Safe'
  <2>1. CASE Land(d)
    BY <2>1 DEF Land, Goes
  <2>2. CASE Stage(d)
    BY <2>2 DEF Stage, Goes
  <2>3. CASE Bind(d)
    BY <2>3 DEF Bind
  <2>4. CASE Probe(d)
    BY <2>4 DEF Probe, Goes, KillStaged
  <2>5. CASE Release(d)
    BY <2>5 DEF Release
  <2>6. CASE CopyPredecessor(d)
    BY <2>6 DEF CopyPredecessor, Goes
  <2>7. CASE Swap(d)
    BY <2>7 DEF Swap, Goes
  <2>8. CASE LoseConnection(d)
    BY <2>8 DEF LoseConnection, Goes
  <2>9. CASE StopService(d)
    <3>1. proc'.at # "up"
      BY <2>9, SignalledNotUp DEF StopService
    <3> QED
      BY <2>9, <3>1 DEF StopService, Goes
  <2>10. CASE StopFails(d)
    BY <2>10 DEF StopFails, Goes
  <2>11. CASE StopReturns(d)
    BY <2>11 DEF StopReturns, Goes
  <2>12. CASE StartService(d)
    BY <2>12 DEF StartService, Goes, Launched, Process, Gone
  <2>13. CASE CheckHealth(d)
    BY <2>13 DEF CheckHealth, Goes
  <2>14. CASE NothingToRestart(d)
    BY <2>14 DEF NothingToRestart, Goes
  <2> QED
    BY <1>1, <2>1, <2>2, <2>3, <2>4, <2>5, <2>6, <2>7, <2>8, <2>9, <2>10, <2>11, <2>12, <2>13, <2>14
    DEF Deploy
<1>2. ASSUME NEW d \in Scripts, Reload(d) PROVE Safe'
  <2>1. CASE Build(d)
    BY <2>1 DEF Build, Goes
  <2>2. CASE Kickstart(d)
    <3>1. ASSUME Goes(d, "swapped", "restarted") \/ Goes(d, "retrying", "retried"),
                 proc' \in {Gone("down")} \cup Signalled(TRUE)
          PROVE  Safe'
      <4>1. proc'.at # "up"
        BY <3>1, SignalledNotUp, GoneType
      <4> QED
        BY <2>2, <3>1, <4>1 DEF Kickstart, Goes
    <3>2. ASSUME Goes(d, "swapped", "lost") \/ Goes(d, "retrying", "failed"),
                 proc' = proc
          PROVE  Safe'
      BY <2>2, <3>2 DEF Kickstart, Goes
    <3> QED
      BY <2>2, <3>1, <3>2 DEF Kickstart
  <2>3. CASE VerifyHealthy(d)
    BY <2>3 DEF VerifyHealthy, Goes
  <2> QED
    BY <1>2, <2>1, <2>2, <2>3
    DEF Reload
<1>3. CASE Service
  <2>1. CASE Shutdown
    BY <2>1 DEF Shutdown, Ends, Gone, Process
  <2>2. CASE Watchdog
    BY <2>2 DEF Watchdog, Ends, Gone, Process
  <2>3. CASE Kill
    BY <2>3 DEF Kill, Ends, Gone, Process
  <2>4. CASE Crash
    BY <2>4 DEF Crash, Ends, Gone, Process
  <2>5. CASE Signal
    <3>1. proc'.at # "up"
      BY <2>5, SignalledNotUp DEF Signal
    <3> QED
      BY <2>5, <3>1 DEF Signal
  <2>6. CASE Respawn
    BY <2>6 DEF Respawn, Launched, Process, Gone
  <2> QED
    BY <1>3, <2>1, <2>2, <2>3, <2>4, <2>5, <2>6
    DEF Service
<1>4. CASE UNCHANGED vars
  BY <1>4 DEF vars
<1> QED
  BY <1>1, <1>2, <1>3, <1>4 DEF Next

\* The inductive invariant holds throughout.
THEOREM SpecIInv == Spec => []IInv
<1>1. IInv /\ [Next]_vars => IInv'
  BY TypeStep, SafeStep DEF IInv
<1> QED
  BY <1>1, InitIInv, PTL DEF Spec

\* The variables keep their ranges, for any number of scripts.
THEOREM TypeCorrect == Spec => []TypeOK
<1>1. IInv => TypeOK
  BY DEF IInv
<1> QED
  BY <1>1, SpecIInv, PTL

\* However many scripts swap, stop and start, the service runs the installed
\* binary, or a script that put it there has yet to restart the service or could
\* not, or a move that failed half-way has left no binary.
THEOREM ServiceRunsInstalled == Spec => []RunsWhatIsInstalled
<1>1. IInv => RunsWhatIsInstalled
  BY DEF IInv, Safe
<1> QED
  BY <1>1, SpecIInv, PTL

\* The smoke test lets a binary that does not run past only when another
\* deploy's server answered for it.
THEOREM SmokeTestIsTheGuard == Spec => []SmokeTestGuards
<1>1. IInv => SmokeTestGuards
  BY DEF IInv, Safe
<1> QED
  BY <1>1, SpecIInv, PTL

\* .pre-deploy is the installed binary only in the middle of a deploy, after a
\* move that failed, or where one binary was installed twice.
THEOREM RollbackAlwaysUndoes == Spec => []RollbackUndoes
<1>1. IInv => RollbackUndoes
  BY DEF IInv, Safe
<1> QED
  BY <1>1, SpecIInv, PTL

\* No server of a smoke test outlives it but one that was told to end.
THEOREM SmokeTestsCleanUp == Spec => []SmokeServersEnd
<1>1. IInv => SmokeServersEnd
  BY DEF IInv, Safe
<1> QED
  BY <1>1, SpecIInv, PTL
=============================================================================
