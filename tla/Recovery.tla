------------------------------ MODULE Recovery -----------------------------
(***************************************************************************)
(* A controller that dies during a deployment and starts again: the        *)
(* initial proxy configs (controller/configsync.go) and the recovery of    *)
(* interrupted deployments (controller/recovery.go), which rolls back      *)
(* through rollback.Coordinator and the strategies' shared Rollback.       *)
(* CrashRecovery puts it next to the strategies.                           *)
(*                                                                         *)
(* Abstractions: the proxy keeps the config it last loaded while the       *)
(* controller is down (a proxy of its own container; the bundled one       *)
(* restarts with the initial config); recovery is of this one service.     *)
(***************************************************************************)
EXTENDS Release

CONSTANT MaxCrashes     \* bound: how often the controller dies

ASSUME CrashAssumption == MaxCrashes \in Nat

VARIABLES
    crashes,    \* how often it has died
    undoing     \* the Coordinator's d.New: the containers a rollback removes

rvars == <<vars, crashes, undoing>>

RecoveryPc == {"down", "recover", "revert", "revertRemove", "revertSave", "recovered"}

\* The process ends wherever it is; what it had in memory is lost.
Crash ==
    /\ crashes < MaxCrashes
    /\ pc \notin {"down"} \cup Terminal
    /\ pc' = "down"
    /\ crashes' = crashes + 1
    /\ UNCHANGED <<docker, live, file, nnew, step, cancelled, passed, kept, targets, undoing>>

-----------------------------------------------------------------------------
(* generateInitialConfigs.                                                 *)

\* Mutation: the recorded containers serve and no others.
InitialUpstreamRecorded(first) ==
    IF FollowsState(first)
    THEN StateUpstream(first)
    ELSE Plain(file.stable \cap Listed)

\* An interrupted deployment keeps its weights; otherwise every listed container
\* of the service serves, old or new, and no matter what its health check says.
InitialUpstream(first) ==
    IF FollowsState(first)
    THEN StateUpstream(first)
    ELSE Plain(Listed)

\* A service without a running container is not discovered.  If the proxy
\* refuses the config Watch returns, and the process ends once more.
\* `first' is the first weight of the service's strategy, 0 for linear.
Boot(first) ==
    /\ pc = "down"
    /\ cancelled' = FALSE
    /\ \/ Listed = {} /\ live' = live /\ pc' = "recover"
       \/ Listed # {} /\ live' = InitialUpstream(first) /\ pc' = "recover"
       \/ /\ Listed # {} /\ MayFail("apply")
          /\ live' \in {live, InitialUpstream(first)}
          /\ pc' = "down"
    /\ UNCHANGED <<docker, file, nnew, step, passed, kept, targets, crashes, undoing>>

-----------------------------------------------------------------------------
(* recoverInterruptedDeployments.                                          *)

\* An idle service needs no recovery.
NothingToRecover ==
    /\ pc = "recover"
    /\ file.status = "idle"
    /\ pc' = "recovered"
    /\ UNCHANGED <<docker, live, file, nnew, step, cancelled, passed, kept, targets, crashes, undoing>>

\* Mutation: a state without containers is not reset.
ResetToIdleRecorded ==
    /\ pc = "recover"
    /\ file.status # "idle"
    /\ file.canary # {}
    /\ file.canary \cap Listed = {} \/ MayFail("inspect")
    /\ Save([file EXCEPT !.status = "idle", !.token = FALSE, !.canary = {}],
            "recovered", "recovered")
    /\ UNCHANGED <<docker, live, nnew, step, cancelled, passed, kept, targets, crashes, undoing>>

\* Without a running canary (or if Inspect fails for each) the state becomes
\* idle; an error is only logged.
ResetToIdle ==
    /\ pc = "recover"
    /\ file.status # "idle"
    /\ file.canary \cap Listed = {} \/ MayFail("inspect")
    /\ Save([file EXCEPT !.status = "idle", !.token = FALSE, !.canary = {}],
            "recovered", "recovered")
    /\ UNCHANGED <<docker, live, nnew, step, cancelled, passed, kept, targets, crashes, undoing>>

\* Otherwise Coordinator.Execute says that it rolls back, ...
StartRollback ==
    /\ pc = "recover"
    /\ file.status # "idle"
    /\ file.canary \cap Listed # {}
    /\ Save([file EXCEPT !.status = "rolling_back"], "revert", "recovered")
    /\ UNCHANGED <<docker, live, nnew, step, cancelled, passed, kept, targets, crashes, undoing>>

\* ... resolves both sets, skipping what has no address, and points the proxy
\* at the old one, even if nothing is left of it; there is no drain time.
RevertRoute ==
    /\ pc = "revert"
    /\ IF MayFail("inspect")
       THEN targets' \in SUBSET (file.stable \cap Listed) /\ undoing' \in SUBSET (file.canary \cap Listed)
       ELSE targets' = file.stable \cap Listed /\ undoing' = file.canary \cap Listed
    /\ \/ live' = Plain(targets') /\ pc' = "revertRemove"
       \/ MayFail("apply") /\ live' \in {live, Plain(targets')} /\ pc' = "recovered"
    /\ UNCHANGED <<docker, file, nnew, step, cancelled, passed, kept, crashes>>

\* Mutation: the containers that serve are removed.
RevertRemoveTargets ==
    /\ pc = "revertRemove"
    /\ RemoveContainers(targets, FALSE)
    /\ pc' = "revertSave"
    /\ UNCHANGED <<live, file, nnew, step, cancelled, passed, targets, crashes, undoing>>

\* The new containers are removed ...
RevertRemove ==
    /\ pc = "revertRemove"
    /\ RemoveContainers(undoing, FALSE)
    /\ pc' = "revertSave"
    /\ UNCHANGED <<live, file, nnew, step, cancelled, passed, targets, crashes, undoing>>

\* ... and the old ones recorded.
RevertSave ==
    /\ pc = "revertSave"
    /\ Save(Idle(targets), "recovered", "recovered")
    /\ UNCHANGED <<docker, live, nnew, step, cancelled, passed, kept, targets, crashes, undoing>>

Recover ==
    \/ NothingToRecover \/ ResetToIdle \/ StartRollback
    \/ RevertRoute \/ RevertRemove \/ RevertSave

\* The watch loop goes on; this deployment does not.
RecoveryEnded == pc = "recovered" /\ UNCHANGED rvars

RecoveryInit == Init /\ crashes = 0 /\ undoing = {}

-----------------------------------------------------------------------------
(* What recovery must get right.                                           *)

\* Every variable holds a value of its type: in particular, a rollback only
\* ever sets out to remove new containers.
RecoveryTypeOK ==
    /\ WorldTypeOK
    /\ crashes \in 0 .. MaxCrashes
    /\ undoing \in SUBSET NewSet

\* If recovery could say that the service is idle, every old container that
\* still runs has traffic: as long as one does, a crash ends in no outage, and
\* one before the release touched them costs no capacity.
OldServeAfterCrash ==
    pc = "recovered" /\ file.status = "idle" => OldSet \cap Listed \subseteq live.on

\* A service that recovery left idle serves with every recorded container that
\* runs, and a rollback left no container behind that Docker did not refuse to
\* remove, however often the controller died on the way.
RecoveredIsConsistent ==
    pc = "recovered" /\ file.status = "idle" =>
        /\ file.stable \cap Listed \subseteq live.on
        /\ undoing \cap Present \subseteq kept

\* Once the crashes stop, the service is free for the next release.
EventuallyIdle == <>[](file.status = "idle")
=============================================================================
