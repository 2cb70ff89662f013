------------------------- MODULE CrashRecoveryProofs ------------------------
(***************************************************************************)
(* A release whose controller may die at any point keeps its types, and    *)
(* recovery ends with a service that its old containers serve, for any     *)
(* strategy, number of containers and crashes and any set of failures (for *)
(* the latter but two: a container that exits, which its restart policy    *)
(* may bring back after the configs were written, and an inspection that   *)
(* fails, which hides a container from the rollback).                      *)
(***************************************************************************)
EXTENDS CrashRecovery, LinearProofs, WeightedProofs

-----------------------------------------------------------------------------
(* The types.                                                              *)

Strategies == {"linear", "canary", "blue-green"}

\* A deployment is typed like one of its strategy, a recovery like the world.
CRTypes ==
    /\ RecoveryTypeOK
    /\ strategy \in Strategies
    /\ rules \in Rules
    /\ errors \in 0 .. (MaxErrors + 1)
    /\ step \in Nat
    /\ pc \notin RecoveryPc =>
         /\ strategy = "linear" => LinearTInv
         /\ strategy = "canary" => CanaryTInv
         /\ strategy = "blue-green" => BGTypeOK

LEMMA CRTypesInit == CRInit => CRTypes
  <1> SUFFICES ASSUME CRInit PROVE CRTypes
    OBVIOUS
  <1>1. Init /\ crashes = 0 /\ undoing = {} /\ rules \in Rules /\ errors = 0
    BY RulesAssumption DEF CRInit, RecoveryInit
  <1>2. LinearTInv /\ CanaryTInv /\ BGTypeOK
    BY <1>1, LinearTypeInit, CanaryTypeInit, BGTypeInit DEF BGInit
  <1>3. WorldTypeOK
    BY <1>2 DEF BGTypeOK
  <1>4. step \in Nat
    BY <1>1 DEF Init
  <1>5. QED
    BY <1>1, <1>2, <1>3, <1>4, CrashAssumption, BlueGreenAssumption
    DEF CRInit, CRTypes, RecoveryTypeOK, Strategies

\* A deployment, and what happens around one, is a step of its strategy's
\* specification; it does not enter the code of a recovery.
LEMMA StrategyTypes ==
    ASSUME CRTypes, strategy' = strategy, pc \notin RecoveryPc,
           \/ Deployment
           \/ Environment /\ UNCHANGED <<crashes, undoing, rules, errors>>
    PROVE  CRTypes' /\ pc' \notin RecoveryPc
  <1>1. UNCHANGED <<crashes, undoing>>
    BY DEF Deployment
  <1>2. CASE strategy = "linear"
    <2>1. LinearTInv /\ UNCHANGED <<rules, errors>>
      BY <1>2 DEF CRTypes, Deployment, Linearly, ByCanary, ByBlueGreen
    <2>2. LinearNext
      BY <1>2 DEF Deployment, Linearly, ByCanary, ByBlueGreen, LinearNext
    <2>3. LinearTInv'
      BY <2>1, <2>2, LinearTypeStep
    <2>4. /\ WorldTypeOK' /\ step' \in 1 .. (NOld + NNew + 1)
          /\ pc' \in ProloguePc \cup LinearExecutePc \cup AbortPc \cup Terminal
      BY <2>3 DEF LinearTInv, LinearTypeOK
    <2>5. pc' \notin RecoveryPc
      BY <2>4 DEF RecoveryPc, ProloguePc, LinearExecutePc, LinearLoopPc, AbortPc, Terminal
    <2>6. QED
      BY <1>1, <1>2, <2>1, <2>3, <2>4, <2>5, CountAssumption DEF CRTypes, RecoveryTypeOK
  <1>3. CASE strategy = "canary"
    <2>1. CanaryTInv /\ UNCHANGED <<rules, errors>>
      BY <1>3 DEF CRTypes, Deployment, Linearly, ByCanary, ByBlueGreen
    <2>2. CanaryNext
      BY <1>3 DEF Deployment, Linearly, ByCanary, ByBlueGreen, CanaryNext
    <2>3. CanaryTInv'
      BY <2>1, <2>2, CanaryTypeStep
    <2>4. /\ WorldTypeOK' /\ step' \in 1 .. (NNew + 1) \cup 1 .. 100
          /\ pc' \in ProloguePc \cup CanaryExecutePc \cup AbortPc \cup Terminal
      BY <2>3 DEF CanaryTInv, CanaryTypeOK
    <2>5. pc' \notin RecoveryPc
      BY <2>4 DEF RecoveryPc, ProloguePc, CanaryExecutePc, CanaryLoopPc, AbortPc, Terminal
    <2>6. QED
      BY <1>1, <1>3, <2>1, <2>3, <2>4, <2>5, CountAssumption DEF CRTypes, RecoveryTypeOK
  <1>4. CASE strategy = "blue-green"
    <2>1. BGTypeOK
      BY <1>4 DEF CRTypes
    <2>2. BGNext
      BY <1>4 DEF Deployment, Linearly, ByCanary, ByBlueGreen, BGNext
    <2>3. BGTypeOK'
      BY <2>1, <2>2, BGTypeStep
    <2>4. /\ WorldTypeOK' /\ step' \in 1 .. (NNew + 1)
          /\ pc' \in ProloguePc \cup BeforePc \cup AfterPc \cup UndoPc \cup AbortPc \cup Terminal
          /\ rules' \in Rules /\ errors' \in 0 .. (MaxErrors + 1)
      BY <2>3 DEF BGTypeOK
    <2>5. pc' \notin RecoveryPc
      BY <2>4 DEF RecoveryPc, ProloguePc, BeforePc, AfterPc, UndoPc, AbortPc, Terminal
    <2>6. QED
      BY <1>1, <1>4, <2>3, <2>4, <2>5, CountAssumption DEF CRTypes, RecoveryTypeOK
  <1>5. QED
    BY <1>2, <1>3, <1>4 DEF CRTypes, Strategies

\* Only a deployment takes the steps of one.
LEMMA DeploymentIsNoRecovery ==
    ASSUME Deployment
    PROVE  pc \notin RecoveryPc
  <1> USE DEF RecoveryPc
  <1>1. CASE DeployStep
    BY <1>1
    DEF DeployStep, EarlySave, Gather, Prepare, DiscardNew, DiscardSave, AbortRoute,
        AbortDrain, AbortRemove, AbortSave
  <1>2. CASE Linearly
    BY <1>2
    DEF Linearly, LinearExecute, SaveInitial, LinearWait, RouteStep, Drain, RemoveStep,
        Record, Extra, RouteFinal, Finish
  <1>3. CASE ByCanary
    BY <1>3
    DEF ByCanary, CanaryExecute, SaveInitialBoth, CanaryWait, WaitAllHealthy, Shift,
        RecordWeight, Observe, PromoteAndDrain, Promote, DrainOld, RouteNew, RemoveOld,
        FinishBoth
  <1>4. CASE ByBlueGreen
    BY <1>4
    DEF ByBlueGreen, GreenError, BGExecute, SaveInitialBoth, BGWait, WaitAllHealthy,
        SaveToken, Publish, RunChecks, Withdraw, UndoRemove, UndoSave, Subscribe, Cutover,
        RecordCutover, Soak, Window, RollbackRoute, RollbackDrain, PromoteAndDrain, Promote,
        DrainOld, RouteNew, RemoveOld, FinishBoth
  <1>5. QED
    BY <1>1, <1>2, <1>3, <1>4 DEF Deployment

\* What the state file says of the two groups, whatever wrote it: it names new
\* containers only beside all of the old ones, and none when it is idle.
Named ==
    /\ file.canary # {} => file.stable = OldSet /\ file.canary \subseteq NewSet
    /\ file.status = "idle" => file.canary = {}
    /\ strategy = "linear" => file.canary = {}

\* The configs that a start writes have the right type, and name containers
\* that run.
LEMMA UpstreamTypes ==
    ASSUME CRTypes
    PROVE  /\ FirstWeight \in 0 .. 100
           /\ InitialUpstream(FirstWeight) \in Upstream
           /\ file.stable \cap Listed \in SUBSET Container
           /\ file \in StateFile
  <1>1. file \in StateFile
    BY DEF CRTypes, RecoveryTypeOK, WorldTypeOK
  <1>2. FirstWeight \in 0 .. 100
    BY CanaryAssumption, BlueGreenAssumption DEF CRTypes, Strategies, FirstWeight
  <1>3. Listed \in SUBSET Container /\ StateServers(FirstWeight) \in SUBSET Container
    BY DEF Listed, StateServers
  <1>4. Plain(Listed) \in Upstream /\ Plain(StateServers(FirstWeight)) \in Upstream
    BY <1>3, PlainType
  <1>5. CASE FollowsState(FirstWeight)
    <2>1. StateWeight(FirstWeight) \in 0 .. 100
      BY <1>5 DEF FollowsState
    <2>2. [Plain(StateServers(FirstWeight)) EXCEPT !.weight = StateWeight(FirstWeight)] \in Upstream
      BY <1>4, <2>1 DEF Upstream
    <2>3. QED
      BY <1>1, <1>2, <1>3, <1>5, <2>2 DEF InitialUpstream, StateUpstream
  <1>6. CASE ~ FollowsState(FirstWeight)
    BY <1>1, <1>2, <1>3, <1>4, <1>6 DEF InitialUpstream, StateUpstream
  <1>7. QED
    BY <1>5, <1>6

\* The steps of a crash, a start and a recovery.
LEMMA RecoveryTypes ==
    ASSUME CRTypes, Named, strategy' = strategy,
           \/ Crash /\ rules' = rules /\ errors' = 0
           \/ (Restarted \/ RecoveryEnded) /\ UNCHANGED <<rules, errors>>
    PROVE  CRTypes' /\ pc' \in RecoveryPc
  <1> USE DEF RecoveryPc
  <1>1. /\ WorldTypeOK /\ crashes \in 0 .. MaxCrashes /\ undoing \in SUBSET NewSet
        /\ file \in StateFile /\ live \in Upstream
    BY DEF CRTypes, RecoveryTypeOK, WorldTypeOK
  <1>2. SUFFICES /\ WorldTypeOK' /\ crashes' \in 0 .. MaxCrashes /\ undoing' \in SUBSET NewSet
                 /\ step' = step /\ pc' \in RecoveryPc
    BY BlueGreenAssumption DEF CRTypes, RecoveryTypeOK
  <1>3. CASE Crash
    BY <1>1, <1>3, CrashAssumption DEF Crash, WorldTypeOK
  <1>4. CASE Boot(FirstWeight)
    <2>1. live' \in Upstream
      BY <1>1, <1>4, UpstreamTypes DEF Boot
    <2>2. QED
      BY <1>1, <1>4, <2>1 DEF Boot, WorldTypeOK
  <1>5. CASE NothingToRecover
    BY <1>1, <1>5 DEF NothingToRecover, WorldTypeOK
  <1>6. CASE ResetToIdle
    <2>1. [file EXCEPT !.status = "idle", !.token = FALSE, !.canary = {}] \in StateFile
      BY <1>1 DEF StateFile
    <2>2. file' \in StateFile
      BY <1>1, <1>6, <2>1 DEF ResetToIdle, Save
    <2>3. QED
      BY <1>1, <1>6, <2>2 DEF ResetToIdle, Save, WorldTypeOK
  <1>7. CASE StartRollback
    <2>1. [file EXCEPT !.status = "rolling_back"] \in StateFile
      BY <1>1 DEF StateFile
    <2>2. file' \in StateFile
      BY <1>1, <1>7, <2>1 DEF StartRollback, Save
    <2>3. QED
      BY <1>1, <1>7, <2>2 DEF StartRollback, Save, WorldTypeOK
  <1>8. CASE RevertRoute
    <2>1. targets' \subseteq file.stable \cap Listed /\ undoing' \subseteq file.canary \cap Listed
      BY <1>8 DEF RevertRoute
    <2>2. targets' \in SUBSET Container /\ undoing' \in SUBSET NewSet
      BY <2>1 DEF Named, Listed
    <2>3. live' \in Upstream
      BY <1>1, <1>8, <2>2, PlainType DEF RevertRoute
    <2>4. QED
      BY <1>1, <1>8, <2>2, <2>3 DEF RevertRoute, WorldTypeOK
  <1>9. CASE RevertRemove
    <2>1. undoing \in SUBSET Container
      BY <1>1, Ids DEF WorldTypeOK
    <2>2. docker' \in [Container -> Status] /\ kept' \in SUBSET Container
      BY <1>1, <1>9, <2>1, RemoveEffect DEF RevertRemove, WorldTypeOK
    <2>3. QED
      BY <1>1, <1>9, <2>2 DEF RevertRemove, WorldTypeOK
  <1>10. CASE RevertSave
    <2>1. file' \in StateFile
      BY <1>1, <1>10, IdleType DEF RevertSave, Save, WorldTypeOK
    <2>2. QED
      BY <1>1, <1>10, <2>1 DEF RevertSave, Save, WorldTypeOK
  <1>11. CASE RecoveryEnded
    BY <1>1, <1>11, Zenon DEF RecoveryEnded, rvars, vars, WorldTypeOK
  <1>12. QED
    BY <1>3, <1>4, <1>5, <1>6, <1>7, <1>8, <1>9, <1>10, <1>11 DEF Restarted, Recover

-----------------------------------------------------------------------------
(* The state file.                                                         *)

\* A deployment clears the new group, records both, or leaves them alone.
LEMMA FileStep ==
    ASSUME CRTypes, Named, Deployment
    PROVE  \/ file'.canary = {}
           \/ /\ strategy # "linear" /\ file'.status = "in_progress"
              /\ file'.stable = OldSet /\ file'.canary \subseteq NewSet
           \/ /\ file'.status = file.status /\ file'.stable = file.stable
              /\ file'.canary = file.canary
  <1> USE DEF Save, InProgress, Idle
  <1>1. file \in StateFile /\ Fresh \subseteq NewSet
    BY Ids DEF CRTypes, RecoveryTypeOK, WorldTypeOK
  <1>2. CASE DeployStep
    <2>1. CASE EarlySave
      BY <2>1 DEF EarlySave
    <2>2. CASE DiscardSave
      BY <2>2 DEF DiscardSave
    <2>3. CASE AbortSave
      BY <2>3 DEF AbortSave
    <2>4. CASE Gather \/ Prepare \/ DiscardNew \/ AbortRoute \/ AbortDrain \/ AbortRemove
      <3>1. file' = file
        BY <2>4 DEF Gather, Prepare, DiscardNew, AbortRoute, AbortDrain, AbortRemove
      <3>2. QED
        BY <3>1
    <2>5. QED
      BY <1>2, <2>1, <2>2, <2>3, <2>4 DEF DeployStep
  <1>3. CASE Linearly
    <2>1. file.canary = {}
      BY <1>3 DEF Linearly, Named
    <2>2. CASE Record
      <3>1. \E S : file' = [file EXCEPT !.stable = S] \/ file' = file
        BY <2>2 DEF Record
      <3>2. file'.canary = file.canary
        BY <1>1, <3>1 DEF StateFile
      <3>3. QED
        BY <2>1, <3>2
    <2>3. CASE SaveInitial
      BY <2>3 DEF SaveInitial
    <2>4. CASE Finish
      BY <2>4 DEF Finish
    <2>5. CASE LinearWait \/ RouteStep \/ Drain \/ RemoveStep \/ Extra \/ RouteFinal
      <3>1. file' = file
        BY <2>5 DEF LinearWait, RouteStep, Drain, RemoveStep, Extra, RouteFinal
      <3>2. QED
        BY <3>1
    <2>6. QED
      BY <1>3, <2>2, <2>3, <2>4, <2>5 DEF Linearly, LinearExecute
  <1>4. CASE SaveInitialBoth /\ strategy # "linear"
    BY <1>1, <1>4 DEF SaveInitialBoth
  <1>5. CASE WaitAllHealthy("preview", 1) \/ CanaryWait \/ PromoteAndDrain
    BY <1>5
    DEF WaitAllHealthy, CanaryWait, PromoteAndDrain, Promote, DrainOld, RouteNew, RemoveOld
  <1>6. CASE FinishBoth
    BY <1>6 DEF FinishBoth
  <1>7. CASE RecordWeight \/ SaveToken \/ RecordCutover
    BY <1>1, <1>7 DEF RecordWeight, SaveToken, RecordCutover, StateFile
  <1>8. CASE ByCanary
    BY <1>4, <1>5, <1>6, <1>7, <1>8
    DEF ByCanary, CanaryExecute, Shift, Observe
  <1>9. CASE ByBlueGreen
    <2>1. CASE GreenError
      BY <2>1 DEF GreenError, vars
    <2>2. CASE BGExecute
      BY <1>4, <1>5, <1>6, <1>7, <1>9, <2>2
      DEF ByBlueGreen, BGExecute, BGWait, Publish, RunChecks, Withdraw, UndoRemove, UndoSave,
          Subscribe, Cutover, Soak, Window, RollbackRoute, RollbackDrain
    <2>3. QED
      BY <1>9, <2>1, <2>2 DEF ByBlueGreen
  <1>10. QED
    BY <1>2, <1>3, <1>8, <1>9 DEF Deployment

\* So it always says what recovery needs, whatever wrote it and whenever the
\* controller dies.
LEMMA NamedStep ==
    ASSUME CRTypes, Named, [CRNext]_crVars
    PROVE  Named'
  <1>1. strategy' = strategy /\ file \in StateFile
    BY DEF CRNext, crVars, CRTypes, RecoveryTypeOK, WorldTypeOK
  <1>2. CASE Deployment
    BY <1>1, <1>2, FileStep DEF Named, OldSet, NewSet
  <1>3. CASE Environment
    BY <1>1, <1>3, EnvironmentType DEF Named, OldSet, NewSet, CRTypes, RecoveryTypeOK
  <1>4. CASE Crash \/ Boot(FirstWeight) \/ NothingToRecover \/ RevertRoute \/ RevertRemove
    BY <1>1, <1>4
    DEF Crash, Boot, NothingToRecover, RevertRoute, RevertRemove, Named, OldSet, NewSet
  <1>5. CASE ResetToIdle
    <2>1. file'.canary = {} \/ file' = file
      BY <1>1, <1>5 DEF ResetToIdle, Save, StateFile
    <2>2. QED
      BY <1>1, <2>1 DEF Named, OldSet, NewSet
  <1>6. CASE StartRollback
    <2>1. /\ file'.canary = file.canary /\ file'.stable = file.stable
          /\ file'.status \in {file.status, "rolling_back"}
      BY <1>1, <1>6 DEF StartRollback, Save, StateFile
    <2>2. QED
      BY <1>1, <2>1 DEF Named, OldSet, NewSet
  <1>7. CASE RevertSave
    <2>1. file'.canary = {} \/ file' = file
      BY <1>7 DEF RevertSave, Save, Idle
    <2>2. QED
      BY <1>1, <2>1 DEF Named, OldSet, NewSet
  <1>8. CASE RecoveryEnded \/ UNCHANGED crVars
    BY <1>1, <1>8 DEF RecoveryEnded, crVars, rvars, vars, Named, OldSet, NewSet
  <1>9. QED
    BY <1>2, <1>3, <1>4, <1>5, <1>6, <1>7, <1>8 DEF CRNext, Restarted, Recover

LEMMA NamedInit == CRInit => Named
    BY DEF CRInit, RecoveryInit, Init, Idle, Named

LEMMA CRTypesStep == CRTypes /\ Named /\ [CRNext]_crVars => CRTypes'
  <1> SUFFICES ASSUME CRTypes, Named, [CRNext]_crVars PROVE CRTypes'
    OBVIOUS
  <1>1. CASE Deployment /\ strategy' = strategy
    BY <1>1, DeploymentIsNoRecovery, StrategyTypes
  <1>2. CASE /\ Environment /\ UNCHANGED <<crashes, undoing, rules, errors>>
             /\ strategy' = strategy
    <2>1. CASE pc \notin RecoveryPc
      BY <1>2, <2>1, StrategyTypes
    <2>2. CASE pc \in RecoveryPc
      <3>1. WorldTypeOK' /\ UNCHANGED <<pc, step>>
        BY <1>2, EnvironmentType DEF CRTypes, RecoveryTypeOK
      <3>2. QED
        BY <1>2, <2>2, <3>1 DEF CRTypes, RecoveryTypeOK
    <2>3. QED
      BY <2>1, <2>2
  <1>3. CASE /\ Crash /\ rules' = rules /\ errors' = 0
             /\ strategy' = strategy
    BY <1>3, RecoveryTypes
  <1>4. CASE /\ (Restarted \/ RecoveryEnded) /\ UNCHANGED <<rules, errors>>
             /\ strategy' = strategy
    BY <1>4, RecoveryTypes
  <1>5. CASE UNCHANGED crVars
    BY <1>5, Zenon
    DEF crVars, rvars, vars, CRTypes, RecoveryTypeOK, WorldTypeOK, LinearTInv, LinearTypeOK,
        CanaryTInv, CanaryTypeOK, BGTypeOK
  <1>6. QED
    BY <1>1, <1>2, <1>3, <1>4, <1>5 DEF CRNext

\* Every variable of a release that may crash, restart and be recovered holds a
\* value of its type: a rollback only ever sets out to remove new containers.
THEOREM RecoveryTypeCorrect == CRSpec => []RecoveryTypeOK
  <1>1. CRTypes => RecoveryTypeOK
    BY DEF CRTypes
  <1>2. CRTypes /\ Named /\ [CRNext]_crVars => CRTypes' /\ Named'
    BY CRTypesStep, NamedStep
  <1>3. QED
    BY CRTypesInit, NamedInit, <1>1, <1>2, PTL DEF CRSpec

-----------------------------------------------------------------------------
(* What recovery restores.                                                 *)

\* Recovery still has something to roll back.
Interrupted == file.status # "idle" /\ file.canary \cap Listed # {}

\* The containers that get traffic are all that should get it.
StableServe == (OldSet \cup file.stable) \cap Listed \subseteq live.on

\* Recovery: what the first configs and each step of a rollback have achieved,
\* which a crash in between does not undo.
Recovering ==
    /\ pc = "recover" => StableServe \/ Interrupted
    /\ pc = "revert" => Interrupted
    /\ pc \in {"revertRemove", "revertSave"} =>
         /\ live = Plain(targets) /\ OldSet \cap Listed \subseteq targets
         /\ file.status # "idle"
    /\ pc = "recovered" /\ file.status = "idle" => StableServe

\* What a rollback set out to remove is gone or noted, or it will be tried
\* again, since the file still names it.
Undoing ==
    /\ pc \notin RecoveryPc => undoing = {}
    /\ \/ undoing \cap Present \subseteq kept
       \/ Interrupted /\ pc \in {"down", "recover", "revert", "revertRemove", "recovered"}

NoneExited == \A c \in Container : docker[c] # "exited"

CRInv == CRTypes /\ Named /\ NoneExited /\ Recovering /\ Undoing

\* A removal starts nothing, ends nothing by itself and forgets no failure.
LEMMA RemovalRuns ==
    ASSUME NEW S \in SUBSET Container, NEW interrupted \in BOOLEAN,
           docker \in [Container -> Status], kept \in SUBSET Container,
           RemoveContainers(S, interrupted)
    PROVE  /\ Listed' \subseteq Listed
           /\ Present' \subseteq Present /\ kept \subseteq kept'
           /\ NoneExited => NoneExited'
  <1>1. PICK removed \in SUBSET S, stopped \in SUBSET S :
            /\ docker' = [c \in Container |->
                            IF c \in removed THEN "absent"
                            ELSE IF c \in stopped /\ docker[c] # "absent"
                                 THEN "stopped" ELSE docker[c]]
            /\ kept' = kept \cup (S \ removed)
    BY DEF RemoveContainers
  <1>2. \A c \in Container : docker'[c] \in {docker[c], "absent", "stopped"}
    BY <1>1
  <1>3. Listed' \subseteq Listed
    BY <1>2 DEF Listed
  <1>4. NoneExited => NoneExited'
    BY <1>2 DEF NoneExited
  <1>5. QED
    BY <1>1, <1>3, <1>4, RemoveEffect

\* Unless a container exits, the same ones run whatever happens around the
\* controller: the restart policy has nothing to start.
LEMMA SameRun ==
    ASSUME CRTypes, NoneExited, Environment, "exit" \notin Faults
    PROVE  Listed' = Listed /\ NoneExited'
  <1>1. docker \in [Container -> Status]
    BY DEF CRTypes, RecoveryTypeOK, WorldTypeOK
  <1>2. ASSUME NEW c \in Container, docker[c] \in {"unready", "healthy"},
               docker' \in {[docker EXCEPT ![c] = "healthy"], [docker EXCEPT ![c] = "unready"]}
        PROVE  Listed' = Listed /\ NoneExited'
    BY <1>1, <1>2 DEF Listed, NoneExited
  <1>3. CASE \E c \in Container : HealthCheck(c)
    BY <1>2, <1>3 DEF HealthCheck
  <1>4. CASE Misbehave
    <2>1. PICK c \in Container : Sicken(c)
      BY <1>4 DEF Misbehave, Exit, Restart, MayFail, NoneExited
    <2>2. QED
      BY <1>2, <2>1 DEF Sicken
  <1>5. CASE Cancel \/ Ended
    BY <1>5 DEF Cancel, Ended, vars, Listed, NoneExited
  <1>6. QED
    BY <1>3, <1>4, <1>5 DEF Environment

\* A deployment only removes.
LEMMA DeploymentRuns ==
    ASSUME CRTypes, NoneExited, Deployment
    PROVE  NoneExited'
  <1>1. /\ docker \in [Container -> Status] /\ kept \in SUBSET Container
        /\ cancelled \in BOOLEAN /\ step \in Nat
    BY DEF CRTypes, RecoveryTypeOK, WorldTypeOK
  <1>2. /\ Fresh \in SUBSET Container /\ OldSet \in SUBSET Container
        /\ Fresh \ targets \in SUBSET Container
    BY Ids DEF CRTypes, RecoveryTypeOK, WorldTypeOK
  <1>3. CASE DiscardNew \/ AbortRemove \/ UndoRemove \/ RemoveOld
    BY <1>1, <1>2, <1>3, RemovalRuns DEF DiscardNew, AbortRemove, UndoRemove, RemoveOld
  <1>4. CASE RemoveStep /\ strategy = "linear"
    <2>1. step >= 1 /\ step <= NOld
      BY <1>4 DEF CRTypes, LinearTInv, LinearTypeOK, LinearLoopPc, RemoveStep, RecoveryPc
    <2>2. {OldAt(step)} \in SUBSET Container
      BY <1>1, <2>1, CountAssumption DEF OldAt, Container
    <2>3. QED
      BY <1>1, <1>4, <2>2, RemovalRuns DEF RemoveStep
  <1>5. CASE docker' = docker
    BY <1>5 DEF NoneExited
  <1>6. CASE DeployStep
    BY <1>3, <1>5, <1>6
    DEF DeployStep, EarlySave, Gather, Prepare, DiscardSave, AbortRoute, AbortDrain, AbortSave
  <1>7. CASE Linearly
    BY <1>4, <1>5, <1>7
    DEF Linearly, LinearExecute, SaveInitial, LinearWait, RouteStep, Drain, Record, Extra,
        RouteFinal, Finish
  <1>8. CASE ByCanary
    BY <1>3, <1>5, <1>8
    DEF ByCanary, CanaryExecute, SaveInitialBoth, CanaryWait, WaitAllHealthy, Shift,
        RecordWeight, Observe, PromoteAndDrain, Promote, DrainOld, RouteNew, FinishBoth
  <1>9. CASE ByBlueGreen
    BY <1>3, <1>5, <1>9
    DEF ByBlueGreen, GreenError, vars, BGExecute, SaveInitialBoth, BGWait, WaitAllHealthy,
        SaveToken, Publish, RunChecks, Withdraw, UndoSave, Subscribe, Cutover, RecordCutover,
        Soak, Window, RollbackRoute, RollbackDrain, PromoteAndDrain, Promote, DrainOld,
        RouteNew, FinishBoth
  <1>10. QED
    BY <1>6, <1>7, <1>8, <1>9 DEF Deployment

LEMMA CRInvInit == CRInit => CRInv
  <1> SUFFICES ASSUME CRInit PROVE CRInv
    OBVIOUS
  <1>1. pc \notin RecoveryPc /\ undoing = {} /\ NoneExited
    BY DEF CRInit, RecoveryInit, Init, RecoveryPc, NoneExited
  <1>2. Recovering /\ Undoing
    BY <1>1 DEF Recovering, Undoing, RecoveryPc
  <1>3. QED
    BY <1>1, <1>2, CRTypesInit, NamedInit DEF CRInv

\* What does not touch the world keeps what recovery has achieved.
LEMMA SameRecovery ==
    ASSUME CRInv, Listed' = Listed, Present' = Present,
           UNCHANGED <<live, file, pc, kept, targets, undoing>>
    PROVE  Recovering' /\ Undoing'
  <1>1. Interrupted' = Interrupted /\ StableServe' = StableServe
    BY DEF Interrupted, StableServe, OldSet
  <1>2. QED
    BY <1>1 DEF CRInv, Recovering, Undoing, Plain, OldSet

\* The first configs give the old containers their traffic, unless the file
\* says that all of it goes to new ones that run: then recovery rolls back.
LEMMA BootServes ==
    ASSUME CRInv, Boot(FirstWeight)
    PROVE  Recovering' /\ Undoing'
  <1>1. UNCHANGED <<docker, file, kept, undoing>> /\ pc = "down" /\ pc' \in {"recover", "down"}
    BY DEF Boot
  <1>2. Listed' = Listed /\ Present' = Present /\ Interrupted' = Interrupted
    BY <1>1 DEF Listed, Present, Interrupted
  <1>3. ASSUME pc' = "recover" PROVE StableServe' \/ Interrupted'
    <2>1. CASE Listed = {}
      BY <1>2, <2>1 DEF StableServe
    <2>2. CASE Listed # {} /\ ~ FollowsState(FirstWeight)
      <3>1. live' = Plain(Listed)
        BY <1>3, <2>2 DEF Boot, InitialUpstream, StateUpstream
      <3>2. QED
        BY <1>2, <3>1 DEF StableServe, Plain
    <2>3. CASE Listed # {} /\ FollowsState(FirstWeight)
      <3>1. live'.on = StateServers(FirstWeight)
        BY <1>3, <2>3 DEF Boot, InitialUpstream, StateUpstream, Plain
      <3>2. file.stable = OldSet /\ file.status = "in_progress"
        BY <2>3 DEF CRInv, Named, FollowsState
      <3>3. CASE StateWeight(FirstWeight) < 100
        <4>1. OldSet \cap Listed \subseteq live'.on
          BY <3>1, <3>2, <3>3 DEF StateServers
        <4>2. file'.stable = OldSet /\ OldSet' = OldSet
          BY <1>1, <3>2 DEF OldSet
        <4>3. QED
          BY <1>2, <4>1, <4>2 DEF StableServe
      <3>4. CASE ~(StateWeight(FirstWeight) < 100)
        <4>1. StateServers(FirstWeight) = file.canary \cap Listed
          BY <3>4 DEF StateServers
        <4>2. Interrupted
          BY <2>3, <3>2, <4>1 DEF FollowsState, Interrupted
        <4>3. QED
          BY <1>2, <4>2
      <3>5. QED
        BY <3>3, <3>4
    <2>4. QED
      BY <2>1, <2>2, <2>3
  <1>4. Recovering'
    BY <1>1, <1>3 DEF Recovering
  <1>5. Undoing'
    BY <1>1, <1>2 DEF CRInv, Undoing, RecoveryPc
  <1>6. QED
    BY <1>4, <1>5

\* Each step of a recovery keeps what the ones before it have achieved.
LEMMA RecoverServes ==
    ASSUME CRInv, Recover, "inspect" \notin Faults
    PROVE  Recovering' /\ Undoing' /\ NoneExited'
  <1>1. /\ docker \in [Container -> Status] /\ kept \in SUBSET Container
        /\ file \in StateFile /\ undoing \in SUBSET Container /\ NoneExited
    BY Ids DEF CRInv, CRTypes, RecoveryTypeOK, WorldTypeOK
  <1>2. OldSet' = OldSet
    BY DEF OldSet
  <1>3. CASE docker' = docker /\ ~ RevertRemove
    <2> USE DEF RecoveryPc
    <2>1. Listed' = Listed /\ Present' = Present /\ NoneExited'
      BY <1>1, <1>3 DEF Listed, Present, NoneExited
    <2>2. CASE NothingToRecover
      <3>1. /\ UNCHANGED <<live, file, kept, undoing>>
            /\ pc = "recover" /\ file.status = "idle" /\ pc' = "recovered"
        BY <2>2 DEF NothingToRecover
      <3>2. StableServe' = StableServe /\ ~ Interrupted /\ ~ Interrupted'
        BY <1>2, <2>1, <3>1 DEF StableServe, Interrupted
      <3>3. QED
        BY <2>1, <3>1, <3>2 DEF CRInv, Recovering, Undoing
    <2>3. CASE ResetToIdle
      <3>1. /\ UNCHANGED <<live, kept, undoing>> /\ pc = "recover" /\ pc' = "recovered"
            /\ file.status # "idle" /\ file.canary \cap Listed = {}
            /\ file' = [file EXCEPT !.status = "idle", !.token = FALSE, !.canary = {}]
               \/ file' = file
        BY <2>3 DEF ResetToIdle, Save, MayFail
      <3>2. file'.stable = file.stable /\ ~ Interrupted
        BY <1>1, <3>1 DEF StateFile, Interrupted
      <3>3. StableServe' = StableServe
        BY <1>2, <2>1, <3>1, <3>2 DEF StableServe
      <3>4. QED
        BY <2>1, <3>1, <3>2, <3>3 DEF CRInv, Recovering, Undoing
    <2>4. CASE StartRollback
      <3>1. /\ UNCHANGED <<live, kept, undoing>> /\ pc = "recover"
            /\ file.status # "idle" /\ file.canary \cap Listed # {}
            /\ \/ file' = [file EXCEPT !.status = "rolling_back"] /\ pc' = "revert"
               \/ file' = file /\ pc' = "recovered"
        BY <2>4 DEF StartRollback, Save
      <3>2. /\ file'.canary = file.canary /\ file'.status # "idle"
        BY <1>1, <3>1 DEF StateFile
      <3>3. Interrupted /\ Interrupted'
        BY <2>1, <3>1, <3>2 DEF Interrupted
      <3>4. QED
        BY <2>1, <3>1, <3>2, <3>3 DEF CRInv, Recovering, Undoing
    <2>5. CASE RevertRoute
      <3>1. /\ UNCHANGED <<file, kept>> /\ pc = "revert" /\ pc' \in {"revertRemove", "recovered"}
            /\ targets' = file.stable \cap Listed
            /\ pc' = "revertRemove" => live' = Plain(targets')
        BY <2>5 DEF RevertRoute, MayFail
      <3>2. Interrupted
        BY <3>1 DEF CRInv, Recovering
      <3>3. Interrupted' /\ file'.status # "idle"
        BY <2>1, <3>1, <3>2 DEF Interrupted
      <3>4. file.stable = OldSet
        BY <3>2 DEF Interrupted, CRInv, Named
      <3>5. OldSet' \cap Listed' \subseteq targets'
        BY <1>2, <2>1, <3>1, <3>4
      <3>6. Recovering'
        BY <3>1, <3>3, <3>5 DEF Recovering, Plain
      <3>7. QED
        BY <2>1, <3>1, <3>3, <3>6 DEF Undoing
    <2>6. CASE RevertSave
      <3>1. /\ UNCHANGED <<live, kept, targets, undoing>> /\ pc = "revertSave" /\ pc' = "recovered"
            /\ file' = Idle(targets) \/ file' = file
        BY <2>6 DEF RevertSave, Save
      <3>2. live = Plain(targets) /\ OldSet \cap Listed \subseteq targets
        BY <3>1 DEF CRInv, Recovering
      <3>3. CASE file' = Idle(targets)
        <4>1. StableServe'
          BY <1>2, <2>1, <3>1, <3>2, <3>3 DEF StableServe, Idle, Plain
        <4>2. QED
          BY <2>1, <3>1, <4>1 DEF CRInv, Recovering, Undoing
      <3>4. CASE file' = file
        BY <2>1, <3>1, <3>4 DEF CRInv, Recovering, Undoing
      <3>5. QED
        BY <3>1, <3>3, <3>4
    <2>7. QED
      BY <1>3, <2>1, <2>2, <2>3, <2>4, <2>5, <2>6 DEF Recover
  <1>4. CASE RevertRemove
    <2>1. /\ UNCHANGED <<live, file, targets, undoing>> /\ pc = "revertRemove" /\ pc' = "revertSave"
          /\ RemoveContainers(undoing, FALSE)
      BY <1>4 DEF RevertRemove
    <2>2. Listed' \subseteq Listed /\ NoneExited'
      BY <1>1, <2>1, RemovalRuns
    <2>3. undoing' \cap Present' \subseteq kept'
      BY <1>1, <2>1, RemoveKept
    <2>4. /\ live' = Plain(targets') /\ OldSet' \cap Listed' \subseteq targets'
          /\ file'.status # "idle"
      BY <1>2, <2>1, <2>2 DEF CRInv, Recovering, Plain
    <2>5. QED
      BY <2>1, <2>2, <2>3, <2>4 DEF Recovering, Undoing, RecoveryPc
  <1>5. QED
    BY <1>3, <1>4 DEF Recover, NothingToRecover, ResetToIdle, StartRollback, RevertRoute, RevertSave

LEMMA CRInvStep ==
    ASSUME CRInv, [CRNext]_crVars, "exit" \notin Faults, "inspect" \notin Faults
    PROVE  CRInv'
  <1>1. CRTypes' /\ Named'
    BY CRTypesStep, NamedStep DEF CRInv
  <1>2. CASE Deployment /\ strategy' = strategy
    <2>1. pc' \notin RecoveryPc /\ undoing' = {}
      BY <1>2, DeploymentIsNoRecovery, StrategyTypes DEF CRInv, Undoing, Deployment
    <2>2. Recovering' /\ Undoing'
      BY <2>1 DEF Recovering, Undoing, RecoveryPc
    <2>3. QED
      BY <1>1, <1>2, <2>2, DeploymentRuns DEF CRInv
  <1>3. CASE Environment /\ undoing' = undoing
    <2>1. UNCHANGED <<live, file, pc, kept, targets>> /\ Present' = Present
      BY <1>3, EnvironmentType DEF CRInv, CRTypes, RecoveryTypeOK
    <2>2. Listed' = Listed /\ NoneExited'
      BY <1>3, SameRun DEF CRInv
    <2>3. QED
      BY <1>1, <1>3, <2>1, <2>2, SameRecovery DEF CRInv
  <1>4. CASE Crash
    <2>1. /\ UNCHANGED <<docker, live, file, kept, targets, undoing>>
          /\ pc # "down" /\ pc' = "down"
      BY <1>4 DEF Crash
    <2>2. Interrupted' = Interrupted /\ Present' = Present /\ NoneExited' = NoneExited
      BY <2>1 DEF Interrupted, Listed, Present, NoneExited
    <2>3. Recovering' /\ Undoing'
      BY <2>1, <2>2 DEF CRInv, Recovering, Undoing, RecoveryPc
    <2>4. QED
      BY <1>1, <2>2, <2>3 DEF CRInv
  <1>5. CASE Boot(FirstWeight)
    <2>1. NoneExited'
      BY <1>5 DEF CRInv, Boot, NoneExited
    <2>2. QED
      BY <1>1, <1>5, <2>1, BootServes DEF CRInv
  <1>6. CASE Recover
    BY <1>1, <1>6, RecoverServes DEF CRInv
  <1>7. CASE RecoveryEnded \/ UNCHANGED crVars
    <2>1. UNCHANGED <<docker, live, file, pc, kept, targets, undoing>>
      BY <1>7 DEF RecoveryEnded, crVars, rvars, vars
    <2>2. Listed' = Listed /\ Present' = Present /\ NoneExited' = NoneExited
      BY <2>1 DEF Listed, Present, NoneExited
    <2>3. QED
      BY <1>1, <2>1, <2>2, SameRecovery DEF CRInv
  <1>8. QED
    BY <1>2, <1>3, <1>4, <1>5, <1>6, <1>7 DEF CRNext, Restarted

\* However often and wherever the controller dies: a service that recovery left
\* idle sends traffic to every old container that still runs.
THEOREM OldOnesServeAfterCrash ==
    ASSUME "exit" \notin Faults, "inspect" \notin Faults
    PROVE  CRSpec => []OldServeAfterCrash
  <1>1. CRInv => OldServeAfterCrash
    BY DEF CRInv, Recovering, StableServe, OldServeAfterCrash
  <1>2. CRInv /\ [CRNext]_crVars => CRInv'
    BY CRInvStep
  <1>3. QED
    BY CRInvInit, <1>1, <1>2, PTL DEF CRSpec

\* And to every recorded one; of the new ones a rollback set out to remove,
\* only those are left that Docker refused to remove.
THEOREM RecoveryIsConsistent ==
    ASSUME "exit" \notin Faults, "inspect" \notin Faults
    PROVE  CRSpec => []RecoveredIsConsistent
  <1>1. CRInv => RecoveredIsConsistent
    BY DEF CRInv, Recovering, StableServe, Undoing, Interrupted, RecoveredIsConsistent
  <1>2. CRInv /\ [CRNext]_crVars => CRInv'
    BY CRInvStep
  <1>3. QED
    BY CRInvInit, <1>1, <1>2, PTL DEF CRSpec

=============================================================================
