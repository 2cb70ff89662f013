------------------------- MODULE DeploymentsProofs -------------------------
(***************************************************************************)
(* For any number of commands, container groups, deployments, restarts and *)
(* deaths: the types, that the deploy lock guards the service, that none   *)
(* is replaced; and, where all who act take the lock, that the proxy keeps *)
(* what a deployment asked for, and that only a takeover ends the service. *)
(***************************************************************************)
EXTENDS Deployments, WellFoundedInduction, TLAPS

-----------------------------------------------------------------------------
(* Facts about the operators.                                              *)

\* The names of threads differ from each other and from the other holders.
LEMMA Names ==
    /\ "watch" \notin Cli /\ "later" \notin Cli /\ "deploy" \notin Cli
    /\ "free" \notin Cli /\ "daemon" \notin Cli
    /\ "deploy" \notin Thread /\ "free" \notin Thread
    BY CliAssumption DEF Thread

\* A tuple names its holder.
LEMMA HolderIsOne ==
    /\ \A t \in Thread : <<t, 0>> # Free
    /\ \A d \in Deploy : <<"deploy", d>> # Free
    /\ \A t \in Thread, d \in Deploy : <<t, 0>> # <<"deploy", d>>
    /\ \A t, u \in Thread : <<t, 0>> = <<u, 0>> => t = u
    /\ \A d, e \in Deploy : <<"deploy", d>> = <<"deploy", e>> => d = e
    BY Names DEF Free

\* A set of groups has a first one.
LEMMA FirstGroup ==
    ASSUME NEW S \in SUBSET Group, S # {}
    PROVE  \E g \in S : \A h \in S : g <= h
  <1>1. S \subseteq Nat
    BY BoundAssumption DEF Group
  <1>2. PICK g \in S : \A h \in S : ~ (<<h, g>> \in OpToRel(<, Nat))
    BY <1>1, WFMin, NatLessThanWellFounded, Zenon
  <1>3. \A h \in S : <<h, g>> \in OpToRel(<, Nat) <=> h < g
    BY <1>1 DEF OpToRel
  <1>4. \A h \in S : ~ (h < g)
    BY <1>2, <1>3, Zenon
  <1>5. \A h \in S : h \in Nat /\ g \in Nat
    BY <1>1
  <1>6. \A h \in S : g <= h
    BY <1>4, <1>5
  <1>7. QED
    BY <1>6

LEMMA NextGroupType ==
    ASSUME Created # Group
    PROVE  NextGroup \in Group \ Created
  <1>1. Group \ Created \in SUBSET Group /\ Group \ Created # {}
    BY DEF Created
  <1>2. \E g \in Group \ Created : \A h \in Group \ Created : g <= h
    BY <1>1, FirstGroup, Zenon
  <1>3. QED
    BY <1>2, Zenon DEF NextGroup

\* What is written to the state file is one.
LEMMA StateFileTypes ==
    ASSUME NEW S \in SUBSET Group, NEW T \in SUBSET Group
    PROVE  Idle(S) \in StateFile /\ InProgress(S, T) \in StateFile
    BY DEF Idle, InProgress, StateFile

-----------------------------------------------------------------------------
(* Types.                                                                  *)

\* A release that is to scale up has containers to scale.
TInv == TypeOK /\ \A t \in Thread : pc[t] = "scale" => listed[t] # {}

LEMMA TypeInit == Init => TInv
  <1> SUFFICES ASSUME Init PROVE TInv
    OBVIOUS
  <1>1. 1 \in Group
    BY BoundAssumption DEF Group
  <1>2. WorldTypeOK
    <2>1. Idle({}) \in StateFile
      BY StateFileTypes
    <2>2. <<>> \in Seq(Group) /\ <<>> \in Seq(BOOLEAN)
      OBVIOUS
    <2>3. rev \in [Group -> 0 .. MaxGroups]
      BY BoundAssumption DEF Init, Group
    <2>4. file \in StateFile /\ events \in Seq(Group) /\ queue \in Seq(BOOLEAN)
      BY <2>1, <2>2 DEF Init
    <2>5. up \subseteq Group /\ proxy \subseteq Group /\ claimed \in BOOLEAN
      BY <1>1 DEF Init
    <2>6. restarts \in 0 .. MaxRestarts /\ crashes \in 0 .. MaxCrashes
      BY BoundAssumption DEF Init
    <2>7. QED
      BY <2>3, <2>4, <2>5, <2>6 DEF WorldTypeOK
  <1>3. CallTypeOK
    BY DEF Init, CallTypeOK, Thread
  <1>4. DeployTypeOK
    BY DEF Init, DeployTypeOK, Holder, Process, NoDeploy, DeployPc
  <1>5. QED
    BY <1>2, <1>3, <1>4 DEF TInv, TypeOK, Init

\* The ways a call moves on and ends.
LEMMA GotoType ==
    ASSUME CallTypeOK, NEW t \in Thread, NEW where, Goto(t, where),
           t = "watch" => where \in {"idle"} \cup BootPc \cup ReleasePc \cup StartPc \cup RefreshPc
                                     \cup UndoPc,
           t = "later" => where \in {"idle", "due"} \cup RefreshPc,
           t \in Cli => where \in {"idle", "exit"} \cup ReleasePc \cup UndoPc,
           configMu' \in {"free", "watch", "later"},
           flag' \in [Thread -> BOOLEAN],
           listed' \in [Thread -> SUBSET Group], fresh' \in [Thread -> SUBSET Group]
    PROVE  CallTypeOK' /\ pc'[t] = where /\ \A u \in Thread \ {t} : pc'[u] = pc[u]
    BY Names DEF Goto, CallTypeOK, Thread

LEMMA ReturnType ==
    ASSUME CallTypeOK, NEW t \in Cli \cup {"watch"}, Return(t)
    PROVE  /\ CallTypeOK'
           /\ pc'[t] \in {"idle", "exit"}
           /\ \A u \in Thread \ {t} : pc'[u] = pc[u] /\ listed'[u] = listed[u]
  <1>1. t \in Thread
    BY DEF Thread
  <1>2. Goto(t, Rest(t)) /\ configMu' = configMu
    BY DEF Return
  <1>3. /\ flag' \in [Thread -> BOOLEAN]
        /\ listed' \in [Thread -> SUBSET Group] /\ fresh' \in [Thread -> SUBSET Group]
        /\ \A u \in Thread \ {t} : listed'[u] = listed[u]
    BY <1>1 DEF Return, CallTypeOK
  <1>4. Rest(t) \in {"idle", "exit"} /\ (t = "watch" => Rest(t) = "idle")
    BY Names DEF Rest
  <1>5. configMu \in {"free", "watch", "later"}
    BY DEF CallTypeOK
  <1>6. QED
    BY <1>1, <1>2, <1>3, <1>4, <1>5, GotoType, Names

LEMMA RefreshEndType ==
    ASSUME CallTypeOK, NEW t \in {"watch", "later"}, NEW again \in BOOLEAN, RefreshEnd(t, again)
    PROVE  /\ CallTypeOK'
           /\ pc'[t] \in {"idle", "due"}
           /\ \A u \in Thread \ {t} :
                /\ pc'[u] = pc[u] \/ pc'[u] = "due"
                /\ listed'[u] = listed[u]
    BY Names DEF RefreshEnd, CallTypeOK, Thread

\* A new deployment.
LEMMA SpawnType ==
    ASSUME WorldTypeOK, DeployTypeOK, NEW t \in Thread,
           NEW old \in SUBSET Group, NEW new \in SUBSET Group,
           Spawn(t, old, new), UNCHANGED <<active, cancelled>>
    PROVE  DeployTypeOK'
    BY DEF Spawn, NewDeploy, WorldTypeOK, DeployTypeOK, ProcessOf, Process, Thread, DeployPc, Holder

\* What Docker is told to remove may stay, and nothing else goes.
LEMMA RemoveShrinks ==
    ASSUME NEW S, Remove(S)
    PROVE  up' \subseteq up /\ up \ S \subseteq up'
    BY DEF Remove

\* A step of a deployment.
LEMMA MoveType ==
    ASSUME DeployTypeOK, NEW d \in Deploy, NEW where \in DeployPc, Move(d, where),
           lock' \in Holder, active' \in [Process -> {0} \cup Deploy], cancelled' \subseteq Deploy
    PROVE  DeployTypeOK'
    BY DEF Move, DeployTypeOK

\* A step that ends a call, or moves it on, keeps the types if it keeps those
\* of the world and of the deployments.
LEMMA ReturnKeeps ==
    ASSUME TInv, NEW t \in Cli \cup {"watch"}, Return(t), WorldTypeOK', DeployTypeOK'
    PROVE  TInv'
    BY ReturnType DEF TInv, TypeOK, Thread

LEMMA GotoKeeps ==
    ASSUME TInv, WorldTypeOK', DeployTypeOK',
           NEW t \in Thread, NEW where, Goto(t, where),
           t = "watch" => where \in {"idle"} \cup BootPc \cup ReleasePc \cup StartPc \cup RefreshPc
                                     \cup UndoPc,
           t = "later" => where \in {"idle", "due"} \cup RefreshPc,
           t \in Cli => where \in {"idle", "exit"} \cup ReleasePc \cup UndoPc,
           configMu' \in {"free", "watch", "later"},
           flag' \in [Thread -> BOOLEAN],
           listed' \in [Thread -> SUBSET Group], fresh' \in [Thread -> SUBSET Group],
           \A u \in Thread \ {t} : listed'[u] = listed[u],
           where = "scale" => listed'[t] # {}
    PROVE  TInv'
  <1>1. CallTypeOK' /\ pc'[t] = where /\ \A u \in Thread \ {t} : pc'[u] = pc[u]
    BY GotoType DEF TInv, TypeOK
  <1>2. QED
    BY <1>1 DEF TInv, TypeOK

\* ... or leaves the calls alone.
LEMMA CallsKept ==
    ASSUME TInv, UNCHANGED calls, WorldTypeOK', DeployTypeOK'
    PROVE  TInv'
    BY DEF TInv, TypeOK, CallTypeOK, calls

\* Completing a queued command keeps its types.
LEMMA CompleteType ==
    ASSUME WorldTypeOK, NEW t, Complete(t)
    PROVE  /\ claimed' \in BOOLEAN
           /\ queue' \in Seq(BOOLEAN)
           /\ restarts' \in 0 .. MaxRestarts /\ crashes' \in 0 .. MaxCrashes
    BY Zenon DEF Complete, WorldTypeOK

\* Controller.release keeps the types.
LEMMA LoadType ==
    ASSUME TInv, NEW t \in Cli \cup {"watch"}, Load(t)
    PROVE  TInv'
  <1>1. t \in Thread /\ CallTypeOK /\ WorldTypeOK
    BY DEF Thread, TInv, TypeOK
  <1>2. DeployTypeOK'
    BY DEF Load, TInv, TypeOK, DeployTypeOK
  <1>3. UNCHANGED <<world, file>>
    BY DEF Load
  <1>4. CASE Goto(t, "lock") /\ UNCHANGED <<configMu, flag, listed, fresh, asked>>
    <2>1. WorldTypeOK'
      BY <1>1, <1>3, <1>4 DEF WorldTypeOK, world, asked
    <2>2. QED
      BY <1>1, <1>2, <1>4, <2>1, GotoKeeps, Names DEF CallTypeOK, ReleasePc
  <1>5. CASE Return(t) /\ Complete(t)
    <2>1. WorldTypeOK'
      BY <1>1, <1>3, <1>5, CompleteType DEF WorldTypeOK, world
    <2>2. QED
      BY <1>2, <1>5, <2>1, ReturnKeeps
  <1>6. QED
    BY <1>4, <1>5 DEF Load

LEMMA LockType ==
    ASSUME TInv, NEW t \in Cli \cup {"watch"}, Lock(t)
    PROVE  TInv'
  <1>1. t \in Thread /\ CallTypeOK /\ WorldTypeOK /\ DeployTypeOK
    BY DEF Thread, TInv, TypeOK
  <1>2. UNCHANGED <<world, file, active, dep, cancelled>>
    BY DEF Lock
  <1>3. lock' \in {lock, <<t, 0>>}
    BY DEF Lock
  <1>4. DeployTypeOK'
    BY <1>1, <1>2, <1>3 DEF DeployTypeOK, Holder
  <1>5. CASE Goto(t, "list") /\ UNCHANGED <<configMu, flag, listed, fresh, asked>>
    <2>1. WorldTypeOK'
      BY <1>1, <1>2, <1>5 DEF WorldTypeOK, world, asked
    <2>2. QED
      BY <1>1, <1>4, <1>5, <2>1, GotoKeeps, Names DEF CallTypeOK, ReleasePc
  <1>6. CASE Return(t) /\ Complete(t)
    <2>1. WorldTypeOK'
      BY <1>1, <1>2, <1>6, CompleteType DEF WorldTypeOK, world
    <2>2. QED
      BY <1>4, <1>6, <2>1, ReturnKeeps
  <1>7. QED
    BY <1>5, <1>6 DEF Lock

LEMMA ListType ==
    ASSUME TInv, NEW t \in Cli \cup {"watch"}, List(t)
    PROVE  TInv'
  <1>1. t \in Thread /\ CallTypeOK /\ WorldTypeOK /\ DeployTypeOK
    BY DEF Thread, TInv, TypeOK
  <1>2. UNCHANGED <<world, file, active, cancelled>>
    BY DEF List
  <1>3. up \subseteq Group
    BY <1>1 DEF WorldTypeOK
  <1>4. CASE GiveUp(t)
    <2>1. Return(t) /\ Complete(t) /\ lock' = Free /\ dep' = dep
      BY <1>4 DEF GiveUp
    <2>2. WorldTypeOK'
      BY <1>1, <1>2, <2>1, CompleteType DEF WorldTypeOK, world
    <2>3. DeployTypeOK'
      BY <1>1, <1>2, <2>1 DEF DeployTypeOK, Holder
    <2>4. QED
      BY <2>1, <2>2, <2>3, ReturnKeeps
  <1>5. CASE Spawn(t, up \ NewRevision, NewRevision) /\ Return(t) /\ Complete(t)
    <2>1. WorldTypeOK'
      BY <1>1, <1>2, <1>5, CompleteType DEF WorldTypeOK, world
    <2>2. up \ NewRevision \in SUBSET Group /\ NewRevision \in SUBSET Group
      BY <1>3 DEF NewRevision
    <2>3. DeployTypeOK'
      BY <1>1, <1>2, <1>5, <2>2, SpawnType
    <2>4. QED
      BY <1>5, <2>1, <2>3, ReturnKeeps
  <1>6. CASE /\ up # {}
             /\ listed' = [listed EXCEPT ![t] = up]
             /\ Goto(t, "scale")
             /\ UNCHANGED <<configMu, flag, fresh, asked, lock, dep>>
    <2>1. WorldTypeOK'
      BY <1>1, <1>2, <1>6 DEF WorldTypeOK, world, asked
    <2>2. DeployTypeOK'
      BY <1>1, <1>2, <1>6 DEF DeployTypeOK
    <2>3. /\ listed' \in [Thread -> SUBSET Group]
          /\ \A u \in Thread \ {t} : listed'[u] = listed[u]
          /\ listed'[t] # {}
      BY <1>1, <1>3, <1>6 DEF CallTypeOK
    <2>4. QED
      BY <1>1, <1>6, <2>1, <2>2, <2>3, GotoKeeps, Names DEF CallTypeOK, ReleasePc
  <1>7. QED
    BY <1>4, <1>5, <1>6 DEF List

\* A group that starts has a revision, and its event is a group.
LEMMA StartType ==
    ASSUME WorldTypeOK, NEW g \in Group, NEW r \in 0 .. MaxGroups, Start(g, r)
    PROVE  rev' \in [Group -> 0 .. MaxGroups] /\ events' \in Seq(Group)
  <1>1. rev' \in [Group -> 0 .. MaxGroups]
    BY DEF Start, WorldTypeOK
  <1>2. events' \in Seq(Group)
    BY DEF Start, WorldTypeOK
  <1>3. QED
    BY <1>1, <1>2

LEMMA ScaleUpType ==
    ASSUME TInv, NEW t \in Cli \cup {"watch"}, ScaleUp(t)
    PROVE  TInv'
  <1>1. t \in Thread /\ CallTypeOK /\ WorldTypeOK /\ DeployTypeOK
    BY DEF Thread, TInv, TypeOK
  <1>2. UNCHANGED <<proxy, file, active, cancelled>>
    BY DEF ScaleUp
  <1>3. listed[t] \in SUBSET Group /\ listed[t] # {}
    BY <1>1 DEF ScaleUp, TInv, CallTypeOK
  <1>4. Return(t) /\ Complete(t)
    BY Zenon DEF ScaleUp, GiveUp
  <1>5. /\ up' \subseteq Group
        /\ rev' \in [Group -> 0 .. MaxGroups] /\ events' \in Seq(Group)
    <2>1. CASE UNCHANGED <<up, rev, events>>
      BY <1>1, <2>1 DEF WorldTypeOK
    <2>2. CASE ~ UNCHANGED <<up, rev, events>>
      <3>1. /\ Created # Group
            /\ \E r \in {rev[CHOOSE g \in listed[t] : TRUE], NextGroup} : Start(NextGroup, r)
            /\ up' \in {up, up \cup {NextGroup}}
        BY <2>2 DEF ScaleUp
      <3>2. NextGroup \in Group
        BY <3>1, NextGroupType
      <3>3. (CHOOSE g \in listed[t] : TRUE) \in Group
        BY <1>3
      <3>4. rev[CHOOSE g \in listed[t] : TRUE] \in 0 .. MaxGroups
        BY <1>1, <3>3 DEF WorldTypeOK
      <3>5. NextGroup \in 0 .. MaxGroups
        BY <3>2, BoundAssumption DEF Group
      <3>6. PICK r \in 0 .. MaxGroups : Start(NextGroup, r)
        BY <3>1, <3>4, <3>5
      <3>7. rev' \in [Group -> 0 .. MaxGroups] /\ events' \in Seq(Group)
        BY <1>1, <3>2, <3>6, StartType
      <3>8. QED
        BY <1>1, <3>1, <3>2, <3>7 DEF WorldTypeOK
    <2>3. QED
      BY <2>1, <2>2
  <1>6. WorldTypeOK'
    BY <1>1, <1>2, <1>4, <1>5, CompleteType DEF WorldTypeOK
  <1>7. DeployTypeOK'
    <2>1. CASE lock' = Free /\ dep' = dep
      BY <1>1, <1>2, <2>1 DEF DeployTypeOK, Holder
    <2>2. CASE Created # Group /\ Spawn(t, listed[t], {NextGroup})
      BY <1>1, <1>2, <1>3, <2>2, NextGroupType, SpawnType
    <2>3. QED
      BY <2>1, <2>2 DEF ScaleUp, GiveUp
  <1>8. QED
    BY <1>4, <1>6, <1>7, ReturnKeeps

LEMMA ReleaseStepType ==
    ASSUME TInv, NEW t \in Cli \cup {"watch"}, Release(t)
    PROVE  TInv'
    BY LoadType, LockType, ListType, ScaleUpType DEF Release

\* A rollback keeps the types.
LEMMA UndoType ==
    ASSUME TInv, NEW t \in Cli \cup {"watch"}, Rollback(t)
    PROVE  TInv'
  <1>1. t \in Thread /\ CallTypeOK /\ WorldTypeOK /\ DeployTypeOK
    BY DEF Thread, TInv, TypeOK
  <1>2. listed[t] \in SUBSET Group /\ fresh[t] \in SUBSET Group
    BY <1>1 DEF CallTypeOK
  <1>3. DeployTypeOK' /\ UNCHANGED <<rev, events, asked>>
    BY <1>1 DEF Rollback, Undo, UndoRoute, UndoRemove, UndoSave, DeployTypeOK, world
  <1>4. up' \subseteq Group /\ proxy' \subseteq Group
    BY <1>1, <1>2, RemoveShrinks DEF Rollback, Undo, UndoRoute, UndoRemove, UndoSave, WorldTypeOK, world
  <1>5. file' \in StateFile
    <2>1. file \in StateFile
      BY <1>1 DEF WorldTypeOK
    <2>2. [file EXCEPT !.status = "rolling_back", !.stale = FALSE] \in StateFile
      BY <2>1 DEF StateFile
    <2>3. Idle(listed[t]) \in StateFile
      BY <1>2, StateFileTypes
    <2>4. QED
      BY <2>1, <2>2, <2>3 DEF Rollback, Undo, UndoRoute, UndoRemove, UndoSave
  <1>6. WorldTypeOK'
    BY <1>1, <1>3, <1>4, <1>5 DEF WorldTypeOK, asked
  <1>7. CASE Return(t)
    BY <1>3, <1>6, <1>7, ReturnKeeps
  <1>8. CASE Undo(t) /\ ~Return(t)
    <2>1. file.stable \cap up \in SUBSET Group /\ file.canary \cap up \in SUBSET Group
      BY <1>1 DEF WorldTypeOK
    <2>2. /\ listed' = [listed EXCEPT ![t] = file.stable \cap up]
          /\ fresh' = [fresh EXCEPT ![t] = file.canary \cap up]
          /\ Goto(t, "undoRoute")
          /\ UNCHANGED <<configMu, flag>>
      BY <1>8 DEF Undo
    <2>3. /\ listed' \in [Thread -> SUBSET Group] /\ fresh' \in [Thread -> SUBSET Group]
          /\ \A u \in Thread \ {t} : listed'[u] = listed[u]
      BY <1>1, <2>1, <2>2 DEF CallTypeOK
    <2>4. QED
      BY <1>1, <1>3, <1>6, <2>2, <2>3, GotoKeeps, Names DEF CallTypeOK, UndoPc
  <1>9. CASE (UndoRoute(t) \/ UndoRemove(t)) /\ ~Return(t)
    <2>1. /\ Goto(t, "undoRemove") \/ Goto(t, "undoSave")
          /\ UNCHANGED <<configMu, flag, listed, fresh>>
      BY <1>9 DEF UndoRoute, UndoRemove
    <2>2. QED
      BY <1>1, <1>3, <1>6, <2>1, GotoKeeps, Names DEF CallTypeOK, UndoPc
  <1>10. QED
    BY <1>7, <1>8, <1>9 DEF Rollback, UndoSave

\* A command that begins, and the watch loop.
LEMMA AskType ==
    ASSUME TInv, NEW t \in Cli, Ask(t)
    PROVE  TInv'
  <1>1. t \in Thread /\ CallTypeOK /\ WorldTypeOK /\ DeployTypeOK
    BY DEF Thread, TInv, TypeOK
  <1>2. DeployTypeOK' /\ UNCHANGED <<world, file, configMu, listed, fresh, claimed, restarts, crashes>>
    BY <1>1 DEF Ask, DeployTypeOK
  <1>3. queue' \in Seq(BOOLEAN)
    <2>1. \A force \in BOOLEAN : Append(queue, force) \in Seq(BOOLEAN)
      BY <1>1 DEF WorldTypeOK
    <2>2. queue' = queue \/ \E force \in BOOLEAN : queue' = Append(queue, force)
      BY Zenon DEF Ask, Enqueue
    <2>3. queue \in Seq(BOOLEAN)
      BY <1>1 DEF WorldTypeOK
    <2>4. QED
      BY <2>1, <2>2, <2>3, Zenon
  <1>4. WorldTypeOK'
    BY <1>1, <1>2, <1>3 DEF WorldTypeOK, world
  <1>5. flag' \in [Thread -> BOOLEAN]
    BY <1>1 DEF Ask, CallTypeOK
  <1>6. PICK where \in {"load", "exit", "undo"} : Goto(t, where)
    BY DEF Ask
  <1>7. QED
    BY <1>1, <1>2, <1>4, <1>5, <1>6, GotoKeeps, Names DEF CallTypeOK, ReleasePc, UndoPc

LEMMA ClaimType ==
    ASSUME TInv, Claim
    PROVE  TInv'
  <1>1. "watch" \in Thread /\ CallTypeOK /\ WorldTypeOK /\ DeployTypeOK
    BY DEF Thread, TInv, TypeOK
  <1>2. DeployTypeOK'
    BY <1>1 DEF Claim, DeployTypeOK
  <1>3. queue \in Seq(BOOLEAN) /\ queue # <<>>
    BY <1>1 DEF Claim, WorldTypeOK
  <1>4. Tail(queue) \in Seq(BOOLEAN) /\ Head(queue) \in BOOLEAN
    BY <1>3
  <1>5. WorldTypeOK'
    BY <1>1, <1>4 DEF Claim, TakeOldest, WorldTypeOK, world
  <1>6. flag' \in [Thread -> BOOLEAN]
    BY <1>1, <1>4 DEF Claim, Oldest, CallTypeOK
  <1>7. Goto("watch", "load") /\ UNCHANGED <<configMu, listed, fresh>>
    BY DEF Claim
  <1>8. QED
    BY <1>1, <1>2, <1>5, <1>6, <1>7, GotoKeeps, Names DEF CallTypeOK, ReleasePc

LEMMA HandleStartType ==
    ASSUME TInv, HandleStart
    PROVE  TInv'
  <1>1. "watch" \in Thread /\ CallTypeOK /\ WorldTypeOK /\ DeployTypeOK
    BY DEF Thread, TInv, TypeOK
  <1>2. DeployTypeOK'
    BY <1>1 DEF HandleStart, DeployTypeOK
  <1>3. Tail(events) \in Seq(Group)
    BY <1>1 DEF HandleStart, WorldTypeOK
  <1>4. WorldTypeOK'
    BY <1>1, <1>3 DEF HandleStart, WorldTypeOK, asked
  <1>5. StartedRevision(Head(events)) \in SUBSET Group
    BY <1>1 DEF StartedRevision, WorldTypeOK
  <1>6. up \ StartedRevision(Head(events)) \in SUBSET Group
    BY <1>1 DEF WorldTypeOK
  <1>7. /\ flag' \in [Thread -> BOOLEAN]
        /\ listed' \in [Thread -> SUBSET Group] /\ fresh' \in [Thread -> SUBSET Group]
        /\ \A u \in Thread \ {"watch"} : listed'[u] = listed[u]
        /\ configMu' \in {"free", "watch", "later"}
    BY <1>1, <1>5, <1>6 DEF HandleStart, CallTypeOK
  <1>8. PICK where \in {"startLoad", "refresh"} : Goto("watch", where)
    BY DEF HandleStart
  <1>9. QED
    BY <1>1, <1>2, <1>4, <1>7, <1>8, GotoKeeps, Names DEF StartPc, RefreshPc

LEMMA StartedType ==
    ASSUME TInv, StartLoad \/ StartLock
    PROVE  TInv'
  <1>1. "watch" \in Thread /\ CallTypeOK /\ WorldTypeOK /\ DeployTypeOK
    BY DEF Thread, TInv, TypeOK
  <1>2. WorldTypeOK'
    BY <1>1 DEF StartLoad, StartLock, WorldTypeOK, world, asked
  <1>3. DeployTypeOK'
    <2>1. CASE UNCHANGED <<lock, active, dep, cancelled>>
      BY <1>1, <2>1 DEF DeployTypeOK
    <2>2. CASE Spawn("watch", listed["watch"], fresh["watch"]) /\ UNCHANGED <<active, cancelled>>
      <3>1. listed["watch"] \in SUBSET Group /\ fresh["watch"] \in SUBSET Group
        BY <1>1 DEF CallTypeOK
      <3>2. QED
        BY <1>1, <2>2, <3>1, SpawnType
    <2>3. QED
      BY <2>1, <2>2 DEF StartLoad, StartLock
  <1>4. CASE Return("watch")
    BY <1>2, <1>3, <1>4, ReturnKeeps
  <1>5. CASE Goto("watch", "startLock") /\ UNCHANGED <<configMu, flag, listed, fresh>>
    BY <1>1, <1>2, <1>3, <1>5, GotoKeeps, Names DEF CallTypeOK, StartPc
  <1>6. QED
    BY <1>4, <1>5 DEF StartLoad, StartLock

LEMMA HandleDieType ==
    ASSUME TInv, HandleDieOrHealth
    PROVE  TInv'
  <1>1. "watch" \in Thread /\ CallTypeOK /\ WorldTypeOK /\ DeployTypeOK
    BY DEF Thread, TInv, TypeOK
  <1>2. WorldTypeOK' /\ DeployTypeOK'
    BY <1>1 DEF HandleDieOrHealth, WorldTypeOK, DeployTypeOK, world, asked
  <1>3. flag' \in [Thread -> BOOLEAN]
    BY <1>1 DEF HandleDieOrHealth, CallTypeOK
  <1>4. Goto("watch", "refresh") /\ UNCHANGED <<configMu, listed, fresh>>
    BY DEF HandleDieOrHealth
  <1>5. QED
    BY <1>1, <1>2, <1>3, <1>4, GotoKeeps, Names DEF CallTypeOK, RefreshPc

LEMMA RestartType ==
    ASSUME TInv, Restart
    PROVE  TInv'
  <1>1. "watch" \in Thread /\ CallTypeOK /\ WorldTypeOK /\ DeployTypeOK
    BY DEF Thread, TInv, TypeOK
  <1>2. DeployTypeOK' /\ UNCHANGED <<asked, configMu, flag, listed, fresh, up, rev>>
    BY <1>1 DEF Restart, DaemonStarts, Boot, Recover, DeployTypeOK, world
  <1>3. proxy' \subseteq Group
    <2>1. \A u \in Upstreams(up) : u \subseteq Group
      BY <1>1 DEF Upstreams, WorldTypeOK
    <2>2. QED
      BY <1>1, <2>1 DEF Restart, DaemonStarts, Boot, Recover, WorldTypeOK, world
  <1>4. file' \in StateFile
    <2>1. file \in StateFile
      BY <1>1 DEF WorldTypeOK
    <2>2. [file EXCEPT !.status = "idle", !.canary = {}, !.stale = FALSE] \in StateFile
      BY <2>1 DEF StateFile
    <2>3. QED
      BY <2>1, <2>2 DEF Restart, DaemonStarts, Boot, Recover
  <1>5. events' \in Seq(Group)
    <2>1. events \in Seq(Group) /\ <<>> \in Seq(Group)
      BY <1>1 DEF WorldTypeOK
    <2>2. events' \in {events, <<>>}
      BY DEF Restart, DaemonStarts, Boot, Recover, world
    <2>3. QED
      BY <2>1, <2>2
  <1>6. WorldTypeOK'
    BY <1>1, <1>2, <1>3, <1>4, <1>5 DEF WorldTypeOK, asked
  <1>7. PICK where \in {"boot", "recover", "down", "idle", "undo"} : Goto("watch", where)
    BY DEF Restart, DaemonStarts, Boot, Recover
  <1>8. QED
    BY <1>1, <1>2, <1>6, <1>7, GotoKeeps, Names DEF CallTypeOK, BootPc, UndoPc

\* A refresh keeps the types.
LEMMA RefreshEndKeeps ==
    ASSUME TInv, NEW t \in {"watch", "later"}, NEW again \in BOOLEAN, RefreshEnd(t, again),
           WorldTypeOK', DeployTypeOK'
    PROVE  TInv'
    BY RefreshEndType DEF TInv, TypeOK

LEMMA RefreshType ==
    ASSUME TInv, NEW t \in {"watch", "later"}, Refresh(t)
    PROVE  TInv'
  <1>1. t \in Thread /\ CallTypeOK /\ WorldTypeOK /\ DeployTypeOK
    BY DEF Thread, TInv, TypeOK
  <1>2. UNCHANGED <<up, rev, events, file, asked, active, dep, cancelled>>
    BY DEF Refresh, RefreshBegin, RefreshCheck, RefreshLock, Relist, RefreshWrite, world
  <1>3. lock' \in {lock, <<t, 0>>, Free}
    BY DEF Refresh, RefreshBegin, RefreshCheck, RefreshLock, Relist, RefreshWrite
  <1>4. DeployTypeOK'
    BY <1>1, <1>2, <1>3 DEF DeployTypeOK, Holder
  <1>5. proxy' \subseteq Group
    <2>1. listed[t] \in SUBSET Group
      BY <1>1 DEF CallTypeOK
    <2>2. \A u \in Upstreams(listed[t]) : u \subseteq Group
      BY <1>1, <2>1 DEF Upstreams
    <2>3. QED
      BY <1>1, <2>2
      DEF Refresh, RefreshBegin, RefreshCheck, RefreshLock, Relist, RefreshWrite, WorldTypeOK, world
  <1>6. WorldTypeOK'
    BY <1>1, <1>2, <1>5 DEF WorldTypeOK, asked
  <1>7. flag[t] \in BOOLEAN
    BY <1>1 DEF CallTypeOK
  <1>8. CASE \E again \in BOOLEAN : RefreshEnd(t, again)
    BY <1>4, <1>6, <1>8, RefreshEndKeeps
  <1>9. CASE RefreshBegin(t)
    <2>1. Goto(t, "check") /\ configMu' = t /\ UNCHANGED <<flag, listed, fresh>>
      BY <1>9 DEF RefreshBegin
    <2>2. QED
      BY <1>1, <1>4, <1>6, <2>1, GotoKeeps, Names DEF CallTypeOK, RefreshPc
  <1>10. CASE /\ Goto(t, "refreshLock") \/ Goto(t, "relist")
              /\ UNCHANGED <<configMu, flag, listed, fresh>>
    BY <1>1, <1>4, <1>6, <1>10, GotoKeeps, Names DEF CallTypeOK, RefreshPc
  <1>11. CASE /\ listed' = [listed EXCEPT ![t] = up] /\ Goto(t, "write")
              /\ UNCHANGED <<configMu, flag, fresh>>
    <2>1. /\ listed' \in [Thread -> SUBSET Group]
          /\ \A u \in Thread \ {t} : listed'[u] = listed[u]
      BY <1>1, <1>11 DEF CallTypeOK, WorldTypeOK
    <2>2. QED
      BY <1>1, <1>4, <1>6, <1>11, <2>1, GotoKeeps, Names DEF CallTypeOK, RefreshPc
  <1>12. CASE RefreshCheck(t)
    BY <1>7, <1>8, <1>10, <1>12, Zenon DEF RefreshCheck
  <1>13. CASE RefreshLock(t)
    BY <1>7, <1>8, <1>10, <1>13, Zenon DEF RefreshLock
  <1>14. CASE Relist(t)
    BY <1>7, <1>8, <1>11, <1>14 DEF Relist
  <1>15. CASE RefreshWrite(t)
    <2>1. {flag[t], TRUE} \subseteq BOOLEAN
      BY <1>7
    <2>2. QED
      BY <1>8, <1>15, <2>1, Zenon DEF RefreshWrite
  <1>16. QED
    BY <1>9, <1>12, <1>13, <1>14, <1>15 DEF Refresh

LEMMA RefreshDueType ==
    ASSUME TInv, RefreshDue
    PROVE  TInv'
  <1>1. "later" \in Thread /\ CallTypeOK /\ WorldTypeOK /\ DeployTypeOK
    BY DEF Thread, TInv, TypeOK
  <1>2. WorldTypeOK' /\ DeployTypeOK'
    BY <1>1 DEF RefreshDue, WorldTypeOK, DeployTypeOK, world, asked
  <1>3. Goto("later", "refresh") /\ UNCHANGED <<configMu, flag, listed, fresh>>
    BY DEF RefreshDue
  <1>4. QED
    BY <1>1, <1>2, <1>3, GotoKeeps, Names DEF CallTypeOK, RefreshPc

\* A deployment keeps the types.
LEMMA DeploymentType ==
    ASSUME TInv, NEW d \in Deploy, Deployment(d)
    PROVE  TInv'
  <1>1. CallTypeOK /\ WorldTypeOK /\ DeployTypeOK
    BY DEF TInv, TypeOK
  <1>2. UNCHANGED <<calls, asked, rev, events>>
    BY DEF Deployment, Register, EarlySave, Prepare, Record, Preview, Shift, Promote, Retire, Finish,
           UndoBeforeSwitch, UndoAfterSwitch, DropNew, RecordUndone, Fail, Abort,
           AbortRemove, Leave, Unlock, Remove, Config, world
  <1>3. dep[d].old \in SUBSET Group /\ dep[d].new \in SUBSET Group /\ dep[d].proc \in Process
    BY <1>1 DEF DeployTypeOK
  <1>4. AbortTargets(d) \in SUBSET Group
    BY <1>3 DEF AbortTargets
  <1>5. file' \in StateFile
    <2>1. file \in StateFile /\ Idle(dep[d].old) \in StateFile /\ Idle(dep[d].new) \in StateFile
          /\ InProgress({}, {}) \in StateFile /\ InProgress(dep[d].old, dep[d].new) \in StateFile
      BY <1>1, <1>3, StateFileTypes DEF WorldTypeOK
    <2>2. QED
      BY <2>1
      DEF Deployment, Register, EarlySave, Prepare, Record, Preview, Shift, Promote, Retire, Finish,
          UndoBeforeSwitch, UndoAfterSwitch, DropNew, RecordUndone, Fail, Abort,
          AbortRemove, Leave, Unlock, Remove, Config
  <1>6. up' \subseteq Group
    BY <1>1
    DEF Deployment, Register, EarlySave, Prepare, Record, Preview, Shift, Promote, Retire, Finish,
        UndoBeforeSwitch, UndoAfterSwitch, DropNew, RecordUndone, Fail, Abort,
        AbortRemove, Leave, Unlock, Remove, Config, world, WorldTypeOK
  <1>7. proxy' \subseteq Group
    BY <1>1, <1>3, <1>4
    DEF Deployment, Register, EarlySave, Prepare, Record, Preview, Shift, Promote, Retire, Finish,
        UndoBeforeSwitch, UndoAfterSwitch, DropNew, RecordUndone, Fail, Abort,
        AbortRemove, Leave, Unlock, Remove, Config, world, WorldTypeOK
  <1>8. WorldTypeOK'
    BY <1>1, <1>2, <1>5, <1>6, <1>7 DEF WorldTypeOK, asked
  <1>9. DeployTypeOK'
    <2>1. lock' \in Holder
      BY <1>1
      DEF Deployment, Register, EarlySave, Prepare, Record, Preview, Shift, Promote, Retire, Finish,
          UndoBeforeSwitch, UndoAfterSwitch, DropNew, RecordUndone, Fail, Abort,
          AbortRemove, Leave, Unlock, Remove, Config, DeployTypeOK, Holder
    <2>2. active' \in [Process -> {0} \cup Deploy]
      BY <1>1, <1>3
      DEF Deployment, Register, EarlySave, Prepare, Record, Preview, Shift, Promote, Retire, Finish,
          UndoBeforeSwitch, UndoAfterSwitch, DropNew, RecordUndone, Fail, Abort,
          AbortRemove, Leave, Unlock, Remove, Config, DeployTypeOK
    <2>3. cancelled' \subseteq Deploy
      <3>1. active[dep[d].proc] \in {0} \cup Deploy
        BY <1>1, <1>3 DEF DeployTypeOK
      <3>2. QED
        BY <1>1, <3>1
        DEF Deployment, Register, EarlySave, Prepare, Record, Preview, Shift, Promote, Retire, Finish,
            UndoBeforeSwitch, UndoAfterSwitch, DropNew, RecordUndone, Fail, Abort,
            AbortRemove, Leave, Unlock, Remove, Config, DeployTypeOK
    <2>4. CASE \E where \in DeployPc : Move(d, where)
      BY <1>1, <2>1, <2>2, <2>3, <2>4, MoveType
    <2>5. CASE \E S \in SUBSET Group, where \in {"record", "abortRemove"} :
                    dep' = [dep EXCEPT ![d].pc = where, ![d].old = S]
      <3> DEFINE Deployed == [pc: DeployPc, proc: Process, old: SUBSET Group, new: SUBSET Group,
                           found: SUBSET Group]
      <3>1. PICK S \in SUBSET Group, where \in {"record", "abortRemove"} :
                dep' = [dep EXCEPT ![d].pc = where, ![d].old = S]
        BY <2>5
      <3>2. dep[d] \in Deployed
        BY <1>1 DEF DeployTypeOK
      <3>3. where \in DeployPc
        BY DEF DeployPc
      <3>4. [dep[d] EXCEPT !.pc = where, !.old = S] \in Deployed
        BY <3>2, <3>3
      <3>5. dep' = [dep EXCEPT ![d] = [dep[d] EXCEPT !.pc = where, !.old = S]]
        BY <1>1, <3>1 DEF DeployTypeOK
      <3>6. dep' \in [Deploy -> Deployed]
        BY <1>1, <3>4, <3>5 DEF DeployTypeOK
      <3>7. QED
        BY <2>1, <2>2, <2>3, <3>6 DEF DeployTypeOK
    <2>6. CASE Prepare(d)
      <3>1. dep[d].old \cap up \in SUBSET Group
        BY <1>3
      <3>2. \/ dep' = [dep EXCEPT ![d].pc = "record", ![d].old = dep[d].old \cap up]
            \/ Move(d, "leave")
        BY <1>1, <2>6 DEF Prepare, DeployTypeOK
      <3>3. QED
        BY <2>4, <2>5, <3>1, <3>2 DEF DeployPc
    <2>7. CASE Abort(d)
      BY <1>4, <2>4, <2>5, <2>7 DEF Abort, DeployPc
    <2>8. CASE \/ Register(d) \/ EarlySave(d) \/ Record(d) \/ Preview(d) \/ Shift(d)
               \/ Promote(d) \/ Retire(d) \/ Finish(d) \/ UndoBeforeSwitch(d)
               \/ UndoAfterSwitch(d) \/ DropNew(d) \/ RecordUndone(d) \/ Fail(d)
               \/ AbortRemove(d) \/ Leave(d) \/ Unlock(d)
      <3>1. PICK where \in {"save", "prepare", "preview", "shift", "promote", "retire", "finish",
                            "drop", "undone", "leave", "abort", "unlock", "done"} : Move(d, where)
        BY <2>8
        DEF Register, EarlySave, Record, Preview, Shift, Promote, Retire, Finish,
            UndoBeforeSwitch, UndoAfterSwitch, DropNew, RecordUndone, Fail, AbortRemove,
            Leave, Unlock
      <3>2. where \in DeployPc
        BY DEF DeployPc
      <3>3. QED
        BY <2>4, <3>1, <3>2
    <2>9. QED
      BY <2>6, <2>7, <2>8 DEF Deployment
  <1>10. QED
    BY <1>2, <1>8, <1>9, CallsKept

\* So does the rest of the world.
LEMMA WorldStepType ==
    ASSUME TInv, ComposeUp \/ ContainerRestarts \/ GetStale
    PROVE  TInv'
  <1>1. CallTypeOK /\ WorldTypeOK /\ DeployTypeOK
    BY DEF TInv, TypeOK
  <1>2. UNCHANGED <<calls, lock, active, dep, cancelled>>
    BY DEF ComposeUp, ContainerRestarts, GetStale
  <1>3. DeployTypeOK'
    BY <1>1, <1>2 DEF DeployTypeOK
  <1>4. CASE ComposeUp
    <2>1. NextGroup \in Group /\ NextGroup \in 0 .. MaxGroups
      BY <1>4, NextGroupType, BoundAssumption DEF ComposeUp, Group
    <2>2. rev' \in [Group -> 0 .. MaxGroups] /\ events' \in Seq(Group)
      BY <1>1, <1>4, <2>1, StartType DEF ComposeUp
    <2>3. WorldTypeOK'
      BY <1>1, <1>4, <2>1, <2>2 DEF ComposeUp, WorldTypeOK, asked
    <2>4. QED
      BY <1>2, <1>3, <2>3, CallsKept
  <1>5. CASE ContainerRestarts
    <2>1. events \in Seq(Group) /\ \A g \in up : g \in Group
      BY <1>1 DEF WorldTypeOK
    <2>2. \A g \in up : Append(events, g) \in Seq(Group)
      BY <2>1
    <2>3. events' \in Seq(Group)
      BY <1>5, <2>2, Zenon DEF ContainerRestarts
    <2>4. restarts' \in 0 .. MaxRestarts
      BY <1>1, <1>5, BoundAssumption DEF ContainerRestarts, WorldTypeOK
    <2>5. WorldTypeOK'
      BY <1>1, <1>5, <2>3, <2>4 DEF ContainerRestarts, WorldTypeOK
    <2>6. QED
      BY <1>2, <1>3, <2>5, CallsKept
  <1>6. CASE GetStale
    <2>1. [file EXCEPT !.stale = TRUE] \in StateFile
      BY <1>1 DEF WorldTypeOK, StateFile
    <2>2. WorldTypeOK'
      BY <1>1, <1>6, <2>1 DEF GetStale, WorldTypeOK, world, asked
    <2>3. QED
      BY <1>2, <1>3, <2>2, CallsKept
  <1>7. QED
    BY <1>4, <1>5, <1>6

\* A process that dies leaves well-typed locks and deployments.
LEMMA DieType ==
    ASSUME DeployTypeOK, NEW p \in Process, Die(p), cancelled' = cancelled
    PROVE  DeployTypeOK'
  <1>1. lock' \in {lock, Free}
    BY DEF Die
  <1>2. active' = [active EXCEPT ![p] = 0]
    BY DEF Die
  <1>3. dep' \in [Deploy -> [pc: DeployPc, proc: Process, old: SUBSET Group, new: SUBSET Group,
                            found: SUBSET Group]]
    BY DEF Die, DeployTypeOK, DeployPc
  <1>4. QED
    BY <1>1, <1>2, <1>3 DEF DeployTypeOK, Holder

LEMMA DeathType ==
    ASSUME TInv, DaemonDies \/ \E p \in Cli : CommandDies(p)
    PROVE  TInv'
  <1>1. CallTypeOK /\ WorldTypeOK /\ DeployTypeOK
    BY DEF TInv, TypeOK
  <1>2. ASSUME NEW p \in Cli, CommandDies(p) PROVE TInv'
    <2>1. WorldTypeOK'
      BY <1>1, <1>2 DEF CommandDies, WorldTypeOK, world, asked
    <2>2. DeployTypeOK'
      BY <1>1, <1>2, DieType DEF CommandDies, Process
    <2>3. QED
      BY <1>2, <2>1, <2>2, ReturnKeeps DEF CommandDies
  <1>3. CASE DaemonDies
    <2>1. WorldTypeOK'
      BY <1>1, <1>3, BoundAssumption DEF DaemonDies, WorldTypeOK, world
    <2>2. DeployTypeOK'
      BY <1>1, <1>3, DieType DEF DaemonDies, Process
    <2>3. CallTypeOK'
      BY <1>1, <1>3, Names DEF DaemonDies, CallTypeOK, Thread, BootPc
    <2>4. \A t \in Thread : pc'[t] = "scale" => listed'[t] # {}
      BY <1>1, <1>3, Names DEF DaemonDies, CallTypeOK, Thread, TInv
    <2>5. QED
      BY <2>1, <2>2, <2>3, <2>4 DEF TInv, TypeOK
  <1>4. QED
    BY <1>2, <1>3

LEMMA TypeStep == TInv /\ [Next]_vars => TInv'
  <1> SUFFICES ASSUME TInv, [Next]_vars PROVE TInv'
    OBVIOUS
  <1>1. CASE UNCHANGED vars
    <2>1. WorldTypeOK' /\ DeployTypeOK'
      BY <1>1 DEF vars, world, asked, TInv, TypeOK, WorldTypeOK, DeployTypeOK
    <2>2. QED
      BY <1>1, <2>1, CallsKept DEF vars
  <1>2. CASE WatchLoop
    BY <1>2, ClaimType, HandleStartType, StartedType, HandleDieType DEF WatchLoop
  <1>3. QED
    BY <1>1, <1>2, AskType, RestartType, ReleaseStepType, UndoType, RefreshType, RefreshDueType,
       DeploymentType, WorldStepType, DeathType DEF Next

\* Every variable keeps its type, whatever commands, events, failures and
\* deaths come together: no thread is ever anywhere but in its own code.
THEOREM TypeCorrect == Spec => []TypeOK
  <1>1. TInv => TypeOK
    BY DEF TInv
  <1>2. QED
    BY TypeInit, TypeStep, <1>1, PTL DEF Spec

-----------------------------------------------------------------------------
(* The lock guards the service.                                            *)

LInv == TInv /\ LockGuardsService

\* One holder at a time.
LEMMA OneHolder ==
    ASSUME LockGuardsService
    PROVE  /\ lock = Free => Writing = {} /\ Rewriting = {}
           /\ \A t \in Thread : lock = <<t, 0>> => Writing = {} /\ Rewriting \subseteq {t}
           /\ \A d \in Deploy : lock = <<"deploy", d>> => Writing \subseteq {d} /\ Rewriting = {}
  <1>1. Writing \subseteq Deploy /\ Rewriting \subseteq Thread
    BY DEF Writing, Rewriting
  <1>2. QED
    BY <1>1, HolderIsOne, Zenon DEF LockGuardsService

\* Nobody new is at work, and the lock stays, or is given up by who is done.
LEMMA LockKept ==
    ASSUME LockGuardsService, lock' = lock, Writing' \subseteq Writing, Rewriting' \subseteq Rewriting
    PROVE  LockGuardsService'
    BY DEF LockGuardsService

LEMMA NobodyWorks ==
    ASSUME Writing' = {}, Rewriting' = {}
    PROVE  LockGuardsService'
    BY DEF LockGuardsService

\* Who is at work after each way to move on.
LEMMA AfterGoto ==
    ASSUME TInv, NEW t \in Thread, NEW where, Goto(t, where)
    PROVE  /\ Rewriting' \subseteq Rewriting \cup {t}
           /\ where \notin {"list", "scale", "relist", "write"} => Rewriting' \subseteq Rewriting \ {t}
    BY DEF Goto, Rewriting, TInv, TypeOK, CallTypeOK

LEMMA AfterReturn ==
    ASSUME TInv, NEW t \in Cli \cup {"watch"}, Return(t)
    PROVE  Rewriting' \subseteq Rewriting \ {t}
  <1>1. pc'[t] \in {"idle", "exit"} /\ \A u \in Thread \ {t} : pc'[u] = pc[u]
    BY ReturnType DEF TInv, TypeOK
  <1>2. QED
    BY <1>1 DEF Rewriting

LEMMA AfterRefreshEnd ==
    ASSUME TInv, NEW t \in {"watch", "later"}, NEW again \in BOOLEAN, RefreshEnd(t, again)
    PROVE  Rewriting' \subseteq Rewriting \ {t}
  <1>1. /\ pc'[t] \in {"idle", "due"}
        /\ \A u \in Thread \ {t} : pc'[u] = pc[u] \/ pc'[u] = "due"
    BY RefreshEndType DEF TInv, TypeOK
  <1>2. QED
    BY <1>1 DEF Rewriting

LEMMA AfterSpawn ==
    ASSUME TInv, NEW t \in Thread, NEW old, NEW new, Spawn(t, old, new)
    PROVE  \E d \in Deploy : lock' = <<"deploy", d>> /\ Writing' \subseteq Writing \cup {d}
    BY DEF Spawn, Writing, TInv, TypeOK, DeployTypeOK

\* A thread that looks for work takes the lock if it is free.
LEMMA TakesLock ==
    ASSUME LInv, NEW t \in Thread, lock = Free, lock' = <<t, 0>>, dep' = dep,
           Rewriting' \subseteq Rewriting \cup {t}
    PROVE  LockGuardsService'
  <1>1. Writing = {} /\ Rewriting = {}
    BY OneHolder DEF LInv
  <1>2. Writing' = {}
    BY <1>1 DEF Writing
  <1>3. QED
    BY <1>1, <1>2 DEF LockGuardsService

\* A thread at work hands the lock to a deployment, or ends.
LEMMA SpawnGuards ==
    ASSUME LInv, NEW t \in Thread, t \in Rewriting \/ lock = Free,
           NEW old, NEW new, Spawn(t, old, new), Rewriting' \subseteq Rewriting \ {t}
    PROVE  LockGuardsService'
  <1>1. Writing = {} /\ Rewriting \subseteq {t}
    BY OneHolder DEF LInv, LockGuardsService
  <1>2. PICK d \in Deploy : lock' = <<"deploy", d>> /\ Writing' \subseteq Writing \cup {d}
    BY AfterSpawn DEF LInv
  <1>3. QED
    BY <1>1, <1>2 DEF LockGuardsService

LEMMA EndGuards ==
    ASSUME LInv, NEW t \in Thread, t \in Rewriting, dep' = dep, Rewriting' \subseteq Rewriting \ {t}
    PROVE  LockGuardsService'
  <1>1. Writing = {} /\ Rewriting \subseteq {t}
    BY OneHolder DEF LInv, LockGuardsService
  <1>2. Writing' = {} /\ Rewriting' = {}
    BY <1>1 DEF Writing
  <1>3. QED
    BY <1>2, NobodyWorks

LEMMA LockRelease ==
    ASSUME LInv, NEW t \in Cli \cup {"watch"}, Release(t)
    PROVE  LockGuardsService'
  <1>1. t \in Thread /\ TInv /\ LockGuardsService
    BY DEF LInv, Thread
  <1>2. CASE Load(t)
    <2>1. lock' = lock /\ dep' = dep
      BY <1>2 DEF Load
    <2>2. Rewriting' \subseteq Rewriting
      BY <1>1, <1>2, AfterGoto, AfterReturn DEF Load
    <2>3. QED
      BY <1>1, <2>1, <2>2, LockKept DEF Writing
  <1>3. CASE Lock(t)
    <2>1. dep' = dep
      BY <1>3 DEF Lock
    <2>2. CASE lock = Free /\ lock' = <<t, 0>> /\ Goto(t, "list")
      BY <1>1, <2>1, <2>2, AfterGoto, TakesLock
    <2>3. CASE Return(t) /\ lock' = lock
      BY <1>1, <2>1, <2>3, AfterReturn, LockKept DEF Writing
    <2>4. QED
      BY <1>3, <2>2, <2>3 DEF Lock
  <1>4. CASE List(t)
    <2>1. t \in Rewriting
      BY <1>1, <1>4 DEF List, Rewriting
    <2>2. CASE GiveUp(t)
      BY <1>1, <2>1, <2>2, AfterReturn, EndGuards DEF GiveUp
    <2>3. CASE Spawn(t, up \ NewRevision, NewRevision) /\ Return(t)
      BY <1>1, <2>1, <2>3, AfterReturn, SpawnGuards
    <2>4. CASE Goto(t, "scale") /\ lock' = lock /\ dep' = dep
      <3>1. Rewriting' \subseteq Rewriting
        BY <1>1, <2>1, <2>4, AfterGoto
      <3>2. QED
        BY <1>1, <2>4, <3>1, LockKept DEF Writing
    <2>5. QED
      BY <1>4, <2>2, <2>3, <2>4 DEF List
  <1>5. CASE ScaleUp(t)
    <2>1. t \in Rewriting
      BY <1>1, <1>5 DEF ScaleUp, Rewriting
    <2>2. CASE GiveUp(t)
      BY <1>1, <2>1, <2>2, AfterReturn, EndGuards DEF GiveUp
    <2>3. CASE Spawn(t, listed[t], {NextGroup}) /\ Return(t)
      BY <1>1, <2>1, <2>3, AfterReturn, SpawnGuards
    <2>4. QED
      BY <1>5, <2>2, <2>3 DEF ScaleUp
  <1>6. QED
    BY <1>2, <1>3, <1>4, <1>5 DEF Release

LEMMA LockRefresh ==
    ASSUME LInv, NEW t \in {"watch", "later"}, Refresh(t)
    PROVE  LockGuardsService'
  <1>1. t \in Thread /\ TInv /\ LockGuardsService
    BY DEF LInv, Thread
  <1>2. dep' = dep /\ flag[t] \in BOOLEAN
    BY <1>1
    DEF Refresh, RefreshBegin, RefreshCheck, RefreshLock, Relist, RefreshWrite, TInv, TypeOK, CallTypeOK
  <1>3. CASE RefreshBegin(t) \/ RefreshCheck(t)
    <2>1. Goto(t, "check") \/ Goto(t, "refreshLock") \/ RefreshEnd(t, flag[t])
      BY <1>3 DEF RefreshBegin, RefreshCheck
    <2>2. Rewriting' \subseteq Rewriting
      BY <1>1, <1>2, <2>1, AfterGoto, AfterRefreshEnd
    <2>3. lock' = lock
      BY <1>3 DEF RefreshBegin, RefreshCheck
    <2>4. QED
      BY <1>1, <1>2, <2>2, <2>3, LockKept DEF Writing
  <1>4. CASE RefreshLock(t)
    <2>1. CASE lock = Free /\ lock' = <<t, 0>> /\ Goto(t, "relist")
      BY <1>1, <1>2, <2>1, AfterGoto, TakesLock
    <2>2. CASE RefreshEnd(t, flag[t]) /\ lock' = lock
      BY <1>1, <1>2, <2>2, AfterRefreshEnd, LockKept DEF Writing
    <2>3. QED
      BY <1>4, <2>1, <2>2 DEF RefreshLock
  <1>5. CASE Relist(t)
    <2>1. t \in Rewriting
      BY <1>1, <1>5 DEF Relist, Rewriting
    <2>2. CASE Goto(t, "write") /\ lock' = lock
      <3>1. Rewriting' \subseteq Rewriting
        BY <1>1, <2>1, <2>2, AfterGoto
      <3>2. QED
        BY <1>1, <1>2, <2>2, <3>1, LockKept DEF Writing
    <2>3. CASE RefreshEnd(t, flag[t])
      BY <1>1, <1>2, <2>1, <2>3, AfterRefreshEnd, EndGuards
    <2>4. QED
      BY <1>5, <2>2, <2>3 DEF Relist
  <1>6. CASE RefreshWrite(t)
    <2>1. t \in Rewriting
      BY <1>1, <1>6 DEF RefreshWrite, Rewriting
    <2>2. PICK again \in {flag[t], TRUE} : RefreshEnd(t, again)
      BY <1>6 DEF RefreshWrite
    <2>3. again \in BOOLEAN
      BY <1>2
    <2>4. QED
      BY <1>1, <1>2, <2>1, <2>2, <2>3, AfterRefreshEnd, EndGuards
  <1>7. QED
    BY <1>3, <1>4, <1>5, <1>6 DEF Refresh

\* What no step of a deployment does.
LEMMA DeploymentFrame ==
    ASSUME DeployTypeOK, NEW d \in Deploy, Deployment(d)
    PROVE  /\ UNCHANGED <<calls, rev, events>> /\ up' \subseteq up
           /\ \A e \in Deploy \ {d} : dep'[e] = dep[e]
           /\ ~Unlock(d) => d \in Writing /\ lock' = lock
           /\ Unlock(d) => UNCHANGED world
  <1>1. UNCHANGED <<calls, rev, events>> /\ up' \subseteq up
    BY DEF Deployment, Register, EarlySave, Prepare, Record, Preview, Shift, Promote, Retire,
           Finish, UndoBeforeSwitch, UndoAfterSwitch, DropNew, RecordUndone, Fail, Abort,
           AbortRemove, Leave, Unlock, Remove, world
  <1>2. \A e \in Deploy \ {d} : dep'[e] = dep[e]
    BY DEF Deployment, Register, EarlySave, Prepare, Record, Preview, Shift, Promote, Retire,
           Finish, UndoBeforeSwitch, UndoAfterSwitch, DropNew, RecordUndone, Fail, Abort,
           AbortRemove, Leave, Unlock, Move, DeployTypeOK
  <1>3. ASSUME ~Unlock(d) PROVE d \in Writing /\ lock' = lock
    BY <1>3
    DEF Deployment, Register, EarlySave, Prepare, Record, Preview, Shift, Promote, Retire,
        Finish, UndoBeforeSwitch, UndoAfterSwitch, DropNew, RecordUndone, Fail, Abort,
        AbortRemove, Leave, At, Writing
  <1>4. QED
    BY <1>1, <1>2, <1>3 DEF Unlock

\* A deployment that moves keeps the lock until it is done.
LEMMA LockDeployment ==
    ASSUME LInv, NEW d \in Deploy, Deployment(d)
    PROVE  LockGuardsService'
  <1>1. TInv /\ LockGuardsService /\ DeployTypeOK
    BY DEF LInv, TInv, TypeOK
  <1>2. Rewriting' = Rewriting
    BY <1>1, DeploymentFrame DEF calls, Rewriting
  <1>3. CASE ~Unlock(d)
    <2>1. d \in Writing
      BY <1>1, <1>3, DeploymentFrame
    <2>2. lock' = lock
      BY <1>1, <1>3, DeploymentFrame
    <2>3. \A e \in Deploy \ {d} : dep'[e] = dep[e]
      BY <1>1, DeploymentFrame
    <2>4. Writing' \subseteq Writing
      BY <2>1, <2>3 DEF Writing
    <2>5. QED
      BY <1>1, <1>2, <2>2, <2>4, LockKept
  <1>4. CASE Unlock(d)
    <2>1. d \notin Writing /\ Writing' = Writing
      BY <1>1, <1>4 DEF Unlock, At, Move, Writing, TInv, TypeOK, DeployTypeOK
    <2>2. CASE lock = <<"deploy", d>>
      <3>1. Writing = {} /\ Rewriting = {}
        BY <1>1, <2>1, <2>2, OneHolder
      <3>2. QED
        BY <1>2, <2>1, <3>1, NobodyWorks
    <2>3. CASE lock # <<"deploy", d>>
      <3>1. lock' = lock
        BY <1>4, <2>3 DEF Unlock
      <3>2. QED
        BY <1>1, <1>2, <2>1, <3>1, LockKept
    <2>4. QED
      BY <2>2, <2>3
  <1>5. QED
    BY <1>3, <1>4

\* A process that dies gives up its own lock and no other's.
LEMMA LockDeath ==
    ASSUME LInv, NEW p \in Process, Die(p),
           Rewriting' \subseteq {t \in Rewriting : ProcessOf(t) # p}
    PROVE  LockGuardsService'
  <1>1. TInv /\ LockGuardsService
    BY DEF LInv
  <1>2. \A d \in Writing' : d \in Writing /\ dep[d].proc # p
    BY <1>1 DEF Die, Writing, TInv, TypeOK, DeployTypeOK
  <1>3. lock' = lock \/ lock' = Free
    BY DEF Die
  <1>4. ASSUME lock' # lock PROVE Writing' = {} /\ Rewriting' = {}
    <2>1. \/ \E e \in Deploy : lock = <<"deploy", e>> /\ dep[e].proc = p
          \/ \E t \in Thread : lock = <<t, 0>> /\ ProcessOf(t) = p
      BY <1>4 DEF Die
    <2>2. CASE \E e \in Deploy : lock = <<"deploy", e>> /\ dep[e].proc = p
      BY <1>1, <1>2, <2>2, OneHolder
    <2>3. CASE \E t \in Thread : lock = <<t, 0>> /\ ProcessOf(t) = p
      BY <1>1, <1>2, <2>3, OneHolder
    <2>4. QED
      BY <2>1, <2>2, <2>3
  <1>5. QED
    BY <1>1, <1>2, <1>4, LockKept, NobodyWorks

LEMMA LockInit == Init => LockGuardsService
    BY DEF Init, LockGuardsService, Writing, Rewriting, NoDeploy

LEMMA LockStep == LInv /\ [Next]_vars => LockGuardsService'
  <1> SUFFICES ASSUME LInv, [Next]_vars PROVE LockGuardsService'
    OBVIOUS
  <1>1. TInv /\ LockGuardsService /\ Cli \subseteq Thread /\ {"watch", "later"} \subseteq Thread
    BY DEF LInv, Thread
  <1>2. CASE UNCHANGED vars
    <2>1. lock' = lock /\ dep' = dep /\ pc' = pc
      BY <1>2 DEF vars, calls
    <2>2. QED
      BY <1>1, <2>1, LockKept DEF Writing, Rewriting
  <1>3. CASE \E t \in Cli : Ask(t)
    <2>1. PICK t \in Cli : Ask(t)
      BY <1>3
    <2>2. /\ lock' = lock /\ dep' = dep
          /\ Goto(t, "load") \/ Goto(t, "exit") \/ Goto(t, "undo")
      BY <2>1 DEF Ask
    <2>3. Rewriting' \subseteq Rewriting
      BY <1>1, <2>2, AfterGoto
    <2>4. QED
      BY <1>1, <2>2, <2>3, LockKept DEF Writing
  <1>4. CASE Claim \/ HandleStart \/ HandleDieOrHealth \/ Restart
    <2>1. PICK where \in {"load", "startLoad", "refresh", "boot", "recover", "down", "idle", "undo"} :
              Goto("watch", where)
      BY <1>4 DEF Claim, HandleStart, HandleDieOrHealth, Restart, DaemonStarts, Boot, Recover
    <2>2. lock' = lock /\ dep' = dep
      BY <1>4 DEF Claim, HandleStart, HandleDieOrHealth, Restart, DaemonStarts, Boot, Recover
    <2>3. Rewriting' \subseteq Rewriting
      BY <1>1, <2>1, AfterGoto
    <2>4. QED
      BY <1>1, <2>2, <2>3, LockKept DEF Writing
  <1>5. CASE StartLoad
    <2>1. lock' = lock /\ dep' = dep /\ (Goto("watch", "startLock") \/ Return("watch"))
      BY <1>5 DEF StartLoad
    <2>2. Rewriting' \subseteq Rewriting
      BY <1>1, <2>1, AfterGoto, AfterReturn
    <2>3. QED
      BY <1>1, <2>1, <2>2, LockKept DEF Writing
  <1>6. CASE StartLock
    <2>1. Rewriting' \subseteq Rewriting \ {"watch"}
      BY <1>1, <1>6, AfterReturn DEF StartLock
    <2>2. CASE lock = Free /\ Spawn("watch", listed["watch"], fresh["watch"])
      BY <1>1, <2>1, <2>2, SpawnGuards
    <2>3. CASE lock' = lock /\ dep' = dep
      BY <1>1, <2>1, <2>3, LockKept DEF Writing
    <2>4. QED
      BY <1>6, <2>2, <2>3 DEF StartLock
  <1>7. CASE \E t \in Cli \cup {"watch"} : Rollback(t)
    <2>1. PICK t \in Cli \cup {"watch"} : Rollback(t)
      BY <1>7
    <2>2. lock' = lock /\ dep' = dep
      BY <2>1 DEF Rollback, Undo, UndoRoute, UndoRemove, UndoSave
    <2>3. Return(t) \/ Goto(t, "undoRoute") \/ Goto(t, "undoRemove") \/ Goto(t, "undoSave")
      BY <2>1 DEF Rollback, Undo, UndoRoute, UndoRemove, UndoSave
    <2>4. Rewriting' \subseteq Rewriting
      BY <1>1, <2>3, AfterGoto, AfterReturn
    <2>5. QED
      BY <1>1, <2>2, <2>4, LockKept DEF Writing
  <1>8. CASE RefreshDue
    <2>1. lock' = lock /\ dep' = dep /\ Goto("later", "refresh")
      BY <1>8 DEF RefreshDue
    <2>2. Rewriting' \subseteq Rewriting
      BY <1>1, <2>1, AfterGoto
    <2>3. QED
      BY <1>1, <2>1, <2>2, LockKept DEF Writing
  <1>9. CASE ComposeUp \/ ContainerRestarts \/ GetStale
    <2>1. lock' = lock /\ dep' = dep /\ pc' = pc
      BY <1>9 DEF ComposeUp, ContainerRestarts, GetStale, calls
    <2>2. QED
      BY <1>1, <2>1, LockKept DEF Writing, Rewriting
  <1>10. CASE \E p \in Cli : CommandDies(p)
    <2>1. PICK p \in Cli : CommandDies(p)
      BY <1>10
    <2>2. Die(p) /\ Return(p)
      BY <2>1 DEF CommandDies
    <2>3. Rewriting' \subseteq {t \in Rewriting : ProcessOf(t) # p}
      BY <1>1, <2>2, AfterReturn, Names DEF ProcessOf, Rewriting
    <2>4. QED
      BY <2>2, <2>3, LockDeath DEF Process
  <1>11. CASE DaemonDies
    <2>1. Rewriting' \subseteq {t \in Rewriting : ProcessOf(t) # "daemon"}
      BY <1>1, <1>11, Names DEF DaemonDies, ProcessOf, Rewriting, Thread, TInv, TypeOK, CallTypeOK
    <2>2. QED
      BY <1>11, <2>1, LockDeath DEF DaemonDies, Process
  <1>12. QED
    BY <1>2, <1>3, <1>4, <1>5, <1>6, <1>7, <1>8, <1>9, <1>10, <1>11,
       LockRelease, LockRefresh, LockDeployment DEF Next, WatchLoop

\* Whatever commands, events, refreshes, recoveries and deaths come together,
\* nobody but the holder of the deploy lock is in the code that lists and
\* changes the service, from before it looks until after it is done.
THEOREM LockGuards == Spec => []LockGuardsService
  <1>1. Init => LInv
    BY TypeInit, LockInit DEF LInv
  <1>2. LInv /\ [Next]_vars => LInv'
    BY TypeStep, LockStep DEF LInv
  <1>3. LInv => LockGuardsService
    BY DEF LInv
  <1>4. QED
    BY <1>1, <1>2, <1>3, PTL DEF Spec

-----------------------------------------------------------------------------
(* No deployment finds another one in its process's map.                   *)

\* Who is in a process's map runs there, and is neither new nor done.
Registered ==
    \A p \in Process : active[p] # 0 =>
        /\ active[p] \in Writing
        /\ dep[active[p]].pc # "register"
        /\ dep[active[p]].proc = p

RInv == LInv /\ NoneReplaced /\ Registered

LEMMA RegisteredInit == Init => NoneReplaced /\ Registered
    BY DEF Init, NoneReplaced, Registered

\* A step that leaves the map and the deployments at work alone.
LEMMA RegisteredKept ==
    ASSUME RInv, active' = active, cancelled' = cancelled,
           \A d \in Writing : dep'[d] = dep[d]
    PROVE  NoneReplaced' /\ Registered'
  <1>1. \A d \in Writing : d \in Writing'
    BY DEF Writing
  <1>2. QED
    BY <1>1 DEF RInv, NoneReplaced, Registered

LEMMA SpawnKeepsOthers ==
    ASSUME TInv, NEW t, NEW old, NEW new, Spawn(t, old, new)
    PROVE  \A d \in Writing : dep'[d] = dep[d]
    BY DEF Spawn, Writing, TInv, TypeOK, DeployTypeOK

LEMMA RegisteredDeployment ==
    ASSUME RInv, NEW d \in Deploy, Deployment(d)
    PROVE  NoneReplaced' /\ Registered'
  <1>1. LockGuardsService /\ NoneReplaced /\ Registered
    BY DEF RInv, LInv
  <1>2. DeployTypeOK
    BY DEF RInv, LInv, TInv, TypeOK
  <1>3. ASSUME d \in Writing PROVE \A p \in Process : active[p] \in {0, d}
    <2>1. Writing \subseteq {d}
      BY <1>1, <1>3, OneHolder DEF LockGuardsService
    <2>2. QED
      BY <1>1, <2>1 DEF Registered
  <1>4. CASE Register(d)
    <2>1. dep[d].pc = "register" /\ d \in Writing
      BY <1>4 DEF Register, At, Writing
    <2>2. \A p \in Process : active[p] = 0
      BY <1>1, <1>3, <2>1 DEF Registered
    <2>3. dep[d].proc \in Process
      BY <1>2 DEF DeployTypeOK
    <2>4. cancelled' = cancelled
      BY <1>4, <2>2, <2>3 DEF Register
    <2>5. dep'[d].pc = "save" /\ dep'[d].proc = dep[d].proc
      BY <1>2, <1>4 DEF Register, Move, DeployTypeOK
    <2>6. active' = [active EXCEPT ![dep[d].proc] = d]
      BY <1>4 DEF Register
    <2>7. \A p \in Process : active'[p] # 0 => active'[p] = d /\ p = dep[d].proc
      BY <1>2, <2>2, <2>6 DEF DeployTypeOK
    <2>8. d \in Writing'
      BY <2>5 DEF Writing
    <2>9. QED
      BY <1>1, <2>4, <2>5, <2>7, <2>8 DEF NoneReplaced, Registered
  <1>5. CASE Leave(d)
    <2>1. d \in Writing
      BY <1>5 DEF Leave, At, Writing
    <2>2. active' = [active EXCEPT ![dep[d].proc] = IF @ = d THEN 0 ELSE @] /\ cancelled' = cancelled
      BY <1>5 DEF Leave
    <2>3. \A p \in Process : active[p] = d => p = dep[d].proc
      BY <1>1, BoundAssumption DEF Registered, Deploy
    <2>4. \A p \in Process : active'[p] = 0
      BY <1>2, <1>3, <2>1, <2>2, <2>3 DEF DeployTypeOK
    <2>5. QED
      BY <1>1, <2>2, <2>4 DEF NoneReplaced, Registered
  <1>6. CASE Unlock(d)
    <2>1. \A e \in Writing : dep'[e] = dep[e]
      BY <1>2, <1>6 DEF Unlock, At, Move, Writing, DeployTypeOK
    <2>2. active' = active /\ cancelled' = cancelled
      BY <1>6 DEF Unlock
    <2>3. QED
      BY <2>1, <2>2, RegisteredKept
  <1>7. CASE ~Register(d) /\ ~Leave(d) /\ ~Unlock(d)
    <2>1. active' = active /\ cancelled' = cancelled
      BY <1>7
      DEF Deployment, EarlySave, Prepare, Record, Preview, Shift, Promote, Retire, Finish,
          UndoBeforeSwitch, UndoAfterSwitch, DropNew, RecordUndone, Fail, Abort, AbortRemove
    <2>2. /\ d \in Writing
          /\ dep'[d].pc \notin {"free", "register", "unlock", "done"}
          /\ dep'[d].proc = dep[d].proc
      <3>1. d \in Writing
        BY <1>2, <1>7, DeploymentFrame
      <3>2. dep'[d].pc \notin {"free", "register", "unlock", "done"}
        BY <1>2, <1>7
        DEF Deployment, EarlySave, Prepare, Record, Preview, Shift, Promote, Retire, Finish,
            UndoBeforeSwitch, UndoAfterSwitch, DropNew, RecordUndone, Fail, Abort, AbortRemove,
            Move, DeployTypeOK
      <3>3. dep'[d].proc = dep[d].proc
        BY <1>2, <1>7
        DEF Deployment, EarlySave, Prepare, Record, Preview, Shift, Promote, Retire, Finish,
            UndoBeforeSwitch, UndoAfterSwitch, DropNew, RecordUndone, Fail, Abort, AbortRemove,
            Move, DeployTypeOK
      <3>4. QED
        BY <3>1, <3>2, <3>3
    <2>3. d \in Writing' /\ \A p \in Process : active'[p] # 0 => active'[p] = d
      BY <1>3, <2>1, <2>2 DEF Writing
    <2>4. QED
      BY <1>1, <2>1, <2>2, <2>3 DEF NoneReplaced, Registered
  <1>8. QED
    BY <1>4, <1>5, <1>6, <1>7

LEMMA RegisteredDeath ==
    ASSUME RInv, NEW p \in Process, Die(p), cancelled' = cancelled
    PROVE  NoneReplaced' /\ Registered'
  <1>1. DeployTypeOK /\ NoneReplaced /\ Registered
    BY DEF RInv, LInv, TInv, TypeOK
  <1>2. \A d \in Deploy : dep[d].proc # p => dep'[d] = dep[d]
    BY DEF Die
  <1>3. active' = [active EXCEPT ![p] = 0]
    BY DEF Die
  <1>4. \A q \in Process : active'[q] # 0 => q # p /\ active'[q] = active[q]
    BY <1>1, <1>3 DEF DeployTypeOK
  <1>5. ASSUME NEW q \in Process, active'[q] # 0
        PROVE  active'[q] \in Writing' /\ dep'[active'[q]] = dep[active[q]] /\ active'[q] = active[q]
    <2>1. active[q] \in Writing /\ dep[active[q]].proc = q /\ q # p /\ active'[q] = active[q]
      BY <1>1, <1>4, <1>5 DEF Registered
    <2>2. dep'[active[q]] = dep[active[q]]
      BY <1>2, <2>1 DEF Writing
    <2>3. QED
      BY <2>1, <2>2 DEF Writing
  <1>6. Registered'
    BY <1>1, <1>4, <1>5 DEF Registered
  <1>7. QED
    BY <1>1, <1>6 DEF NoneReplaced

LEMMA RegisteredStep == RInv /\ [Next]_vars => NoneReplaced' /\ Registered'
  <1> SUFFICES ASSUME RInv, [Next]_vars PROVE NoneReplaced' /\ Registered'
    OBVIOUS
  <1>1. TInv
    BY DEF RInv, LInv
  <1>2. CASE active' = active /\ cancelled' = cancelled /\ dep' = dep
    BY <1>2, RegisteredKept
  <1>3. ASSUME NEW t, NEW old, NEW new, Spawn(t, old, new), UNCHANGED <<active, cancelled>>
        PROVE  NoneReplaced' /\ Registered'
    BY <1>1, <1>3, SpawnKeepsOthers, RegisteredKept
  <1>4. CASE \E d \in Deploy : Deployment(d)
    BY <1>4, RegisteredDeployment
  <1>5. CASE DaemonDies \/ \E p \in Cli : CommandDies(p)
    BY <1>5, RegisteredDeath DEF DaemonDies, CommandDies, Process
  <1>6. CASE \E t \in Cli \cup {"watch"} : Release(t)
    <2>1. PICK t \in Cli \cup {"watch"} : Release(t)
      BY <1>6
    <2>2. UNCHANGED <<active, cancelled>>
      BY <2>1 DEF Release, Load, Lock, List, ScaleUp
    <2>3. dep' = dep \/ \E old, new : Spawn(t, old, new)
      BY <2>1 DEF Release, Load, Lock, List, ScaleUp, GiveUp
    <2>4. QED
      BY <1>2, <1>3, <2>2, <2>3
  <1>7. CASE StartLock
    BY <1>2, <1>3, <1>7 DEF StartLock
  <1>8. CASE UNCHANGED vars
    BY <1>2, <1>8 DEF vars
  <1>9. CASE \/ \E t \in Cli : Ask(t)
             \/ Claim \/ HandleStart \/ StartLoad \/ HandleDieOrHealth \/ Restart
             \/ \E t \in Cli \cup {"watch"} : Rollback(t)
             \/ RefreshDue \/ ComposeUp \/ ContainerRestarts \/ GetStale
    BY <1>2, <1>9
    DEF Ask, Claim, HandleStart, StartLoad, HandleDieOrHealth, Restart, DaemonStarts, Boot, Recover,
        Rollback, Undo, UndoRoute, UndoRemove, UndoSave, RefreshDue, ComposeUp, ContainerRestarts, GetStale
  <1>10. CASE \E t \in {"watch", "later"} : Refresh(t)
    BY <1>2, <1>10 DEF Refresh, RefreshBegin, RefreshCheck, RefreshLock, Relist, RefreshWrite
  <1>11. QED
    BY <1>4, <1>5, <1>6, <1>7, <1>8, <1>9, <1>10 DEF Next, WatchLoop

\* deploy cancels the deployment that it finds in its process's map under its
\* service; there never is one, for the lock covers the time in the map.
THEOREM NoneIsReplaced == Spec => []NoneReplaced
  <1>1. Init => RInv
    BY TypeInit, LockInit, RegisteredInit DEF RInv, LInv
  <1>2. RInv /\ [Next]_vars => RInv'
    BY TypeStep, LockStep, RegisteredStep DEF RInv, LInv
  <1>3. RInv => NoneReplaced
    BY DEF RInv
  <1>4. QED
    BY <1>1, <1>2, <1>3, PTL DEF Spec

-----------------------------------------------------------------------------
(* Nothing comes between a deployment and the proxy.  What takes no lock    *)
(* could: rollbacks, and the boot of a daemon that died.                    *)

Locked == \A t \in Thread : pc[t] \notin UndoPc \cup BootPc

PInv == LInv /\ Locked /\ ProxyIsTheReleases

LEMMA ProxyInit == Init => Locked /\ ProxyIsTheReleases
    BY DEF Init, Locked, ProxyIsTheReleases, At, NoDeploy, UndoPc, BootPc

\* Calls stay where the lock is asked for.
LEMMA LockedStep ==
    ASSUME PInv, Next, "rollback" \notin Asks, MaxCrashes = 0
    PROVE  Locked'
  <1>1. TInv /\ Locked /\ CallTypeOK
    BY DEF PInv, LInv, TInv, TypeOK
  <1>2. ASSUME NEW t \in Thread, NEW where, Goto(t, where), where \notin UndoPc \cup BootPc
        PROVE  Locked'
    BY <1>1, <1>2 DEF Goto, Locked, CallTypeOK
  <1>3. ASSUME NEW t \in Cli \cup {"watch"}, Return(t)
        PROVE  Locked'
    <2>1. pc'[t] \in {"idle", "exit"} /\ \A u \in Thread \ {t} : pc'[u] = pc[u]
      BY <1>1, <1>3, ReturnType
    <2>2. QED
      BY <1>1, <2>1 DEF Locked, UndoPc, BootPc
  <1>4. ASSUME NEW t \in {"watch", "later"}, NEW again \in BOOLEAN, RefreshEnd(t, again)
        PROVE  Locked'
    <2>1. /\ pc'[t] \in {"idle", "due"}
          /\ \A u \in Thread \ {t} : pc'[u] = pc[u] \/ pc'[u] = "due"
      BY <1>1, <1>4, RefreshEndType
    <2>2. QED
      BY <1>1, <2>1 DEF Locked, UndoPc, BootPc
  <1>5. CASE pc' = pc
    BY <1>1, <1>5 DEF Locked
  <1>6. CASE \E t \in Cli : Ask(t)
    <2>1. PICK t \in Cli : Ask(t)
      BY <1>6
    <2>2. (Goto(t, "load") \/ Goto(t, "exit")) /\ t \in Thread
      BY <2>1 DEF Ask, Thread
    <2>3. QED
      BY <1>2, <2>2 DEF UndoPc, BootPc
  <1>7. CASE Claim \/ HandleStart \/ HandleDieOrHealth
    <2>1. \E where \in {"load", "startLoad", "refresh"} : Goto("watch", where)
      BY <1>7 DEF Claim, HandleStart, HandleDieOrHealth
    <2>2. QED
      BY <1>2, <2>1 DEF UndoPc, BootPc, Thread
  <1>8. CASE StartLoad \/ StartLock
    <2>1. Return("watch") \/ Goto("watch", "startLock")
      BY <1>8 DEF StartLoad, StartLock
    <2>2. QED
      BY <1>2, <1>3, <2>1 DEF UndoPc, BootPc, Thread
  <1>9. CASE \E t \in Cli \cup {"watch"} : Release(t) \/ Rollback(t)
    <2>1. PICK t \in Cli \cup {"watch"} : Release(t) \/ Rollback(t)
      BY <1>9
    <2>2. t \in Thread
      BY DEF Thread
    <2>3. ~Rollback(t)
      BY <1>1, <2>2 DEF Locked, Rollback, Undo, UndoRoute, UndoRemove, UndoSave, UndoPc
    <2>4. Return(t) \/ Goto(t, "lock") \/ Goto(t, "list") \/ Goto(t, "scale")
      BY <2>1, <2>3 DEF Release, Load, Lock, List, ScaleUp, GiveUp
    <2>5. QED
      BY <1>2, <1>3, <2>2, <2>4 DEF UndoPc, BootPc
  <1>10. CASE \E t \in {"watch", "later"} : Refresh(t)
    <2>1. PICK t \in {"watch", "later"} : Refresh(t)
      BY <1>10
    <2>2. t \in Thread /\ flag[t] \in BOOLEAN
      BY <1>1 DEF Thread, CallTypeOK
    <2>3. \/ Goto(t, "check") \/ Goto(t, "refreshLock") \/ Goto(t, "relist") \/ Goto(t, "write")
          \/ \E again \in {flag[t], TRUE} : RefreshEnd(t, again)
      BY <2>1 DEF Refresh, RefreshBegin, RefreshCheck, RefreshLock, Relist, RefreshWrite
    <2>4. QED
      BY <1>2, <1>4, <2>2, <2>3 DEF UndoPc, BootPc
  <1>11. CASE RefreshDue
    BY <1>2, <1>11 DEF RefreshDue, UndoPc, BootPc, Thread
  <1>12. CASE (\E d \in Deploy : Deployment(d)) \/ ComposeUp \/ ContainerRestarts \/ GetStale
    <2>1. DeployTypeOK
      BY <1>1 DEF TInv, TypeOK
    <2>2. UNCHANGED calls
      BY <1>12, <2>1, DeploymentFrame DEF ComposeUp, ContainerRestarts, GetStale
    <2>3. QED
      BY <1>5, <2>2 DEF calls
  <1>13. CASE \E p \in Cli : CommandDies(p)
    BY <1>3, <1>13 DEF CommandDies
  <1>14. CASE DaemonDies
    BY <1>1, <1>14 DEF DaemonDies, TInv, TypeOK, WorldTypeOK
  <1>15. CASE Restart
    BY <1>1, <1>15 DEF Restart, DaemonStarts, Boot, Recover, Locked, BootPc, Thread
  <1>16. QED
    BY <1>6, <1>7, <1>8, <1>9, <1>10, <1>11, <1>12, <1>13, <1>14, <1>15 DEF Next, WatchLoop

\* The phases in which the proxy has what a deployment asked for.
Asked == {"promote", "retire", "finish", "abortRemove"}

LEMMA ProxyKept ==
    ASSUME PInv, proxy' = proxy,
           \A d \in Deploy : dep'[d] = dep[d] \/ dep'[d].pc \notin Asked
    PROVE  ProxyIsTheReleases'
    BY DEF PInv, ProxyIsTheReleases, At, Asked

LEMMA ProxyDeployment ==
    ASSUME PInv, NEW d \in Deploy, Deployment(d)
    PROVE  ProxyIsTheReleases'
  <1>1. DeployTypeOK /\ ProxyIsTheReleases /\ LockGuardsService
    BY DEF PInv, LInv, TInv, TypeOK
  <1>2. \A e \in Deploy \ {d} : dep'[e] = dep[e]
    BY <1>1, DeploymentFrame
  <1>3. ASSUME d \in Writing, dep'[d].pc \notin Asked
        PROVE  ProxyIsTheReleases'
    <2>1. \A e \in Deploy \ {d} : e \notin Writing
      BY <1>1, <1>3, OneHolder DEF LockGuardsService
    <2>2. \A e \in Deploy : dep'[e].pc \notin Asked
      BY <1>2, <1>3, <2>1 DEF Writing, Asked
    <2>3. QED
      BY <2>2 DEF ProxyIsTheReleases, At, Asked
  <1>4. ASSUME d \in Writing,
               dep'[d].pc = "promote" => proxy' = dep'[d].old \cup dep'[d].new,
               dep'[d].pc \in {"retire", "finish"} => proxy' = dep'[d].new,
               dep'[d].pc = "abortRemove" => proxy' = dep'[d].old
        PROVE  ProxyIsTheReleases'
    <2>1. \A e \in Deploy \ {d} : e \notin Writing
      BY <1>1, <1>4, OneHolder DEF LockGuardsService
    <2>2. \A e \in Deploy \ {d} : dep'[e].pc \notin Asked
      BY <1>2, <2>1 DEF Writing, Asked
    <2>3. QED
      BY <1>4, <2>2 DEF ProxyIsTheReleases, At, Asked
  <1>5. CASE ~(Shift(d) \/ Promote(d) \/ Retire(d) \/ Abort(d) \/ Unlock(d))
    <2>1. d \in Writing
      BY <1>1, <1>5, DeploymentFrame
    <2>2. dep'[d].pc \notin Asked
      BY <1>1, <1>5
      DEF Deployment, Register, EarlySave, Prepare, Record, Preview, Finish, UndoBeforeSwitch,
          UndoAfterSwitch, DropNew, RecordUndone, Fail, AbortRemove, Leave, Move, Asked,
          DeployTypeOK
    <2>3. QED
      BY <1>3, <2>1, <2>2
  <1>6. CASE Shift(d) \/ Promote(d)
    <2>1. d \in Writing
      BY <1>6 DEF Shift, Promote, At, Writing
    <2>2. /\ dep'[d].old = dep[d].old /\ dep'[d].new = dep[d].new
          /\ \/ dep'[d].pc = "promote" /\ proxy' = dep[d].old \cup dep[d].new
             \/ dep'[d].pc = "retire" /\ proxy' = dep[d].new
      BY <1>1, <1>6 DEF Shift, Promote, Move, DeployTypeOK
    <2>3. QED
      BY <1>4, <2>1, <2>2
  <1>7. CASE Retire(d)
    <2>1. d \in Writing /\ proxy = dep[d].new
      BY <1>1, <1>7 DEF Retire, At, Writing, ProxyIsTheReleases
    <2>2. dep'[d].pc = "finish" /\ dep'[d].new = dep[d].new /\ proxy' = proxy
      BY <1>1, <1>7 DEF Retire, Move, DeployTypeOK
    <2>3. QED
      BY <1>4, <2>1, <2>2
  <1>8. CASE Abort(d)
    <2>1. d \in Writing
      BY <1>8 DEF Abort, At, Writing
    <2>2. CASE /\ proxy' = AbortTargets(d)
               /\ dep' = [dep EXCEPT ![d].pc = "abortRemove", ![d].old = AbortTargets(d)]
      <3>1. dep'[d].pc = "abortRemove" /\ dep'[d].old = AbortTargets(d)
        BY <1>1, <2>2 DEF DeployTypeOK
      <3>2. QED
        BY <1>4, <2>1, <2>2, <3>1
    <2>3. CASE Move(d, "leave")
      <3>1. dep'[d].pc \notin Asked
        BY <1>1, <2>3 DEF Move, DeployTypeOK, Asked
      <3>2. QED
        BY <1>3, <2>1, <3>1
    <2>4. QED
      BY <1>8, <2>2, <2>3 DEF Abort
  <1>9. CASE Unlock(d)
    <2>1. proxy' = proxy /\ dep'[d].pc \notin Asked
      BY <1>1, <1>9 DEF Unlock, Move, DeployTypeOK, Asked, world
    <2>2. QED
      BY <1>2, <2>1, ProxyKept
  <1>10. QED
    BY <1>5, <1>6, <1>7, <1>8, <1>9 DEF Deployment

\* Who changes what the proxy serves or a deployment: the deployment, a refresh
\* while none is at work, a thread that starts one, and death.
LEMMA WhoMoves ==
    ASSUME PInv, [Next]_vars, "rollback" \notin Asks, MaxCrashes = 0
    PROVE  \/ \E d \in Deploy : Deployment(d)
           \/ Writing = {} /\ dep' = dep
           \/ proxy' = proxy /\ \E t, old, new : Spawn(t, old, new)
           \/ proxy' = proxy /\ \A d \in Deploy : dep'[d] = dep[d] \/ dep'[d].pc = "done"
  <1>1. TInv /\ Locked /\ DeployTypeOK
    BY DEF PInv, LInv, TInv, TypeOK
  <1>2. CASE \E t \in Cli \cup {"watch"} : Release(t) \/ Rollback(t)
    <2>1. PICK t \in Cli \cup {"watch"} : Release(t) \/ Rollback(t)
      BY <1>2
    <2>2. ~Rollback(t)
      BY <1>1 DEF Locked, Rollback, Undo, UndoRoute, UndoRemove, UndoSave, UndoPc, Thread
    <2>3. proxy' = proxy
      BY <2>1, <2>2 DEF Release, Load, Lock, List, ScaleUp, world
    <2>4. dep' = dep \/ \E old, new : Spawn(t, old, new)
      BY <2>1, <2>2 DEF Release, Load, Lock, List, ScaleUp, GiveUp
    <2>5. QED
      BY <2>3, <2>4
  <1>3. CASE StartLock
    <2>1. proxy' = proxy
      BY <1>3 DEF StartLock, world
    <2>2. QED
      BY <1>3, <2>1 DEF StartLock
  <1>4. CASE \E t \in {"watch", "later"} : Refresh(t)
    <2>1. PICK t \in {"watch", "later"} : Refresh(t)
      BY <1>4
    <2>2. dep' = dep
      BY <2>1 DEF Refresh, RefreshBegin, RefreshCheck, RefreshLock, Relist, RefreshWrite
    <2>3. CASE RefreshWrite(t)
      <3>1. t \in Rewriting
        BY <2>3 DEF RefreshWrite, Rewriting, Thread
      <3>2. Writing = {}
        BY <3>1, OneHolder DEF PInv, LInv, LockGuardsService, Rewriting
      <3>3. QED
        BY <2>2, <3>2
    <2>4. CASE ~RefreshWrite(t)
      <3>1. proxy' = proxy
        BY <2>1, <2>4 DEF Refresh, RefreshBegin, RefreshCheck, RefreshLock, Relist, world
      <3>2. QED
        BY <2>2, <3>1
    <2>5. QED
      BY <2>3, <2>4
  <1>5. CASE Restart
    BY <1>1, <1>5 DEF Restart, DaemonStarts, Boot, Recover, Locked, BootPc, Thread
  <1>6. CASE DaemonDies
    BY <1>1, <1>6 DEF DaemonDies, TInv, TypeOK, WorldTypeOK
  <1>7. CASE \E p \in Cli : CommandDies(p)
    BY <1>1, <1>7 DEF CommandDies, Die, world, DeployTypeOK
  <1>8. CASE \/ \E t \in Cli : Ask(t)
             \/ Claim \/ HandleStart \/ StartLoad \/ HandleDieOrHealth
             \/ RefreshDue \/ ComposeUp \/ ContainerRestarts \/ GetStale
             \/ UNCHANGED vars
    BY <1>8
    DEF Ask, Claim, HandleStart, StartLoad, HandleDieOrHealth, RefreshDue, ComposeUp,
        ContainerRestarts, GetStale, vars, world
  <1>9. QED
    BY <1>2, <1>3, <1>4, <1>5, <1>6, <1>7, <1>8 DEF Next, WatchLoop

LEMMA ProxyStep ==
    ASSUME PInv, [Next]_vars, "rollback" \notin Asks, MaxCrashes = 0
    PROVE  ProxyIsTheReleases'
  <1>1. CASE \E d \in Deploy : Deployment(d)
    BY <1>1, ProxyDeployment
  <1>2. CASE Writing = {} /\ dep' = dep
    <2>1. \A d \in Deploy : dep'[d].pc \notin Asked
      BY <1>2 DEF Writing, Asked
    <2>2. QED
      BY <2>1 DEF ProxyIsTheReleases, At, Asked
  <1>3. CASE proxy' = proxy /\ \E t, old, new : Spawn(t, old, new)
    <2>1. \A d \in Deploy : dep'[d] = dep[d] \/ dep'[d].pc = "register"
      BY <1>3 DEF Spawn, NewDeploy, PInv, LInv, TInv, TypeOK, DeployTypeOK
    <2>2. QED
      BY <1>3, <2>1, ProxyKept DEF Asked
  <1>4. CASE proxy' = proxy /\ \A d \in Deploy : dep'[d] = dep[d] \/ dep'[d].pc = "done"
    BY <1>4, ProxyKept DEF Asked
  <1>5. QED
    BY <1>1, <1>2, <1>3, <1>4, WhoMoves

\* Without rollbacks and daemons that start, which take no lock: between two
\* requests of a deployment to the proxy nothing else, in this process or in
\* another one, changes where the proxy sends requests.
THEOREM ProxyIsKept ==
    ASSUME "rollback" \notin Asks, MaxCrashes = 0
    PROVE  Spec => []ProxyIsTheReleases
  <1>1. Init => PInv
    BY TypeInit, LockInit, ProxyInit DEF PInv, LInv
  <1>2. PInv /\ [Next]_vars => PInv'
    <2>1. PInv /\ UNCHANGED vars => Locked'
      BY DEF PInv, Locked, vars, calls
    <2>2. QED
      BY <2>1, TypeStep, LockStep, LockedStep, ProxyStep DEF PInv, LInv
  <1>3. PInv => ProxyIsTheReleases
    BY DEF PInv
  <1>4. QED
    BY <1>1, <1>2, <1>3, PTL DEF Spec

-----------------------------------------------------------------------------
(* Only a takeover takes the running containers from the proxy.             *)

\* What the proxy serves while a deployment has not switched it: what it found,
\* or the old containers, once it may have published a preview or withdrawn it.
Found(d) ==
    /\ dep[d].pc \in {"register", "save", "prepare", "record", "preview"} => proxy = dep[d].found
    /\ dep[d].pc \in {"shift", "drop"} => proxy \in {dep[d].found, dep[d].old}

FoundServes == \A d \in Deploy : Found(d)

LEMMA FoundKept ==
    ASSUME FoundServes, proxy' = proxy, NEW d \in Deploy,
           dep'[d] = dep[d] \/ dep'[d].pc = "done"
    PROVE  Found(d)'
    BY DEF FoundServes, Found

LEMMA FoundDeployment ==
    ASSUME PInv, FoundServes, NEW d \in Deploy, Deployment(d)
    PROVE  FoundServes'
  <1>1. DeployTypeOK /\ LockGuardsService /\ Found(d)
    BY DEF PInv, LInv, TInv, TypeOK, FoundServes
  <1>2. \A e \in Deploy \ {d} : Found(e)'
    <2>1. \A e \in Deploy \ {d} : dep'[e] = dep[e]
      BY <1>1, DeploymentFrame
    <2>2. CASE Unlock(d)
      BY <1>1, <2>1, <2>2, DeploymentFrame, FoundKept DEF world
    <2>3. CASE ~Unlock(d)
      <3>1. \A e \in Deploy \ {d} : e \notin Writing
        BY <1>1, <2>3, DeploymentFrame, OneHolder DEF LockGuardsService
      <3>2. QED
        BY <2>1, <3>1 DEF Found, Writing
    <2>4. QED
      BY <2>2, <2>3
  <1>3. CASE Register(d) \/ EarlySave(d) \/ Record(d)
    <2>1. /\ proxy' = proxy /\ dep'[d].found = dep[d].found
          /\ dep[d].pc \in {"register", "save", "record"}
          /\ dep'[d].pc \in {"save", "prepare", "preview"}
      BY <1>1, <1>3 DEF Register, EarlySave, Record, At, Move, world, DeployTypeOK
    <2>2. QED
      BY <1>1, <1>2, <2>1 DEF Found, FoundServes
  <1>4. CASE Prepare(d)
    <2>1. /\ proxy' = proxy /\ dep'[d].found = dep[d].found
          /\ dep[d].pc = "prepare" /\ dep'[d].pc \in {"record", "leave"}
      BY <1>1, <1>4 DEF Prepare, At, Move, DeployTypeOK
    <2>2. QED
      BY <1>1, <1>2, <2>1 DEF Found, FoundServes
  <1>5. CASE Preview(d) \/ UndoBeforeSwitch(d) \/ UndoAfterSwitch(d)
    <2>1. /\ dep'[d].found = dep[d].found /\ dep'[d].old = dep[d].old
          /\ dep'[d].pc \in {"shift", "drop"}
      BY <1>1, <1>5 DEF Preview, UndoBeforeSwitch, UndoAfterSwitch, Move, DeployTypeOK
    <2>2. proxy' = dep[d].old \/ (proxy' = proxy /\ dep[d].pc \in {"preview", "shift"})
      BY <1>5 DEF Preview, UndoBeforeSwitch, UndoAfterSwitch, At
    <2>3. QED
      BY <1>1, <1>2, <2>1, <2>2 DEF Found, FoundServes
  <1>6. ASSUME dep'[d].pc \in {"promote", "retire", "finish", "undone", "abort", "abortRemove",
                               "leave", "unlock", "done"}
        PROVE  FoundServes'
    BY <1>2, <1>6 DEF Found, FoundServes
  <1>7. CASE Abort(d)
    BY <1>1, <1>6, <1>7 DEF Abort, Move, DeployTypeOK
  <1>8. CASE Shift(d) \/ Promote(d) \/ Retire(d) \/ Finish(d) \/ DropNew(d) \/ RecordUndone(d)
             \/ Fail(d) \/ AbortRemove(d) \/ Leave(d) \/ Unlock(d)
    <2>1. \E where \in {"promote", "retire", "finish", "undone", "abort", "leave", "unlock",
                        "done"} : Move(d, where)
      BY <1>8
      DEF Shift, Promote, Retire, Finish, DropNew, RecordUndone, Fail, AbortRemove, Leave, Unlock
    <2>2. QED
      BY <1>1, <1>6, <2>1 DEF Move, DeployTypeOK
  <1>9. QED
    BY <1>3, <1>4, <1>5, <1>7, <1>8 DEF Deployment

LEMMA FoundStep ==
    ASSUME PInv, FoundServes, [Next]_vars, "rollback" \notin Asks, MaxCrashes = 0
    PROVE  FoundServes'
  <1>1. CASE \E d \in Deploy : Deployment(d)
    BY <1>1, FoundDeployment
  <1>2. CASE Writing = {} /\ dep' = dep
    BY <1>2 DEF Writing, Found, FoundServes
  <1>3. CASE proxy' = proxy /\ \E t, old, new : Spawn(t, old, new)
    <2>1. PICK t, old, new : Spawn(t, old, new)
      BY <1>3
    <2>2. PICK d \in Deploy :
              dep' = [dep EXCEPT ![d] =
                         [pc |-> "register", proc |-> ProcessOf(t), old |-> old, new |-> new,
                          found |-> proxy]]
      BY <2>1, Zenon DEF Spawn, NewDeploy
    <2>3. DOMAIN dep = Deploy
      BY DEF PInv, LInv, TInv, TypeOK, DeployTypeOK
    <2>4. /\ dep'[d].pc = "register" /\ dep'[d].found = proxy
          /\ \A e \in Deploy \ {d} : dep'[e] = dep[e]
      BY <2>2, <2>3
    <2>5. Found(d)'
      BY <1>3, <2>4 DEF Found
    <2>6. QED
      BY <1>3, <2>4, <2>5, FoundKept DEF FoundServes
  <1>4. CASE proxy' = proxy /\ \A d \in Deploy : dep'[d] = dep[d] \/ dep'[d].pc = "done"
    BY <1>4, FoundKept DEF FoundServes
  <1>5. QED
    BY <1>1, <1>2, <1>3, <1>4, WhoMoves

\* The phases in which the two groups of a deployment are told apart, and those
\* in which both run.
Early == {"register", "save", "prepare", "record", "preview", "shift", "promote", "retire",
          "drop"}
Routed == {"record", "preview", "shift", "promote", "retire"}

\* What a thread listed under the lock runs; what it listed before is split.
ListedRuns(t) ==
    /\ pc[t] \in {"scale", "write"} => listed[t] # {} /\ listed[t] \subseteq up
    /\ pc[t] \in StartPc => fresh[t] # {} /\ fresh[t] \cap listed[t] = {}

\* A deployment has new containers besides its old ones; once seen, both run.
NewRuns(d) ==
    /\ dep[d].pc \in Early => dep[d].new # {} /\ dep[d].new \cap dep[d].old = {}
    /\ dep[d].pc \in Routed => dep[d].new \subseteq up /\ dep[d].old \subseteq up

Runs ==
    /\ up \subseteq Created
    /\ \A t \in Thread : ListedRuns(t)
    /\ \A d \in Deploy : NewRuns(d)

LEMMA RunsInit == Init => Runs
  <1> SUFFICES ASSUME Init PROVE Runs
    OBVIOUS
  <1>1. up \subseteq Created
    BY BoundAssumption DEF Init, Created, Group
  <1>2. \A t \in Thread : ListedRuns(t)
    BY DEF Init, ListedRuns, StartPc
  <1>3. \A d \in Deploy : NewRuns(d)
    BY DEF Init, NewRuns, NoDeploy, Early, Routed
  <1>4. QED
    BY <1>1, <1>2, <1>3 DEF Runs

\* The newest group is one that runs, and so are those of its revision.
LEMMA NewestRuns ==
    ASSUME WorldTypeOK, up # {}
    PROVE  NewRevision # {} /\ NewRevision \subseteq up
  <1>1. \E g \in up : \A h \in up : h <= g
    <2> DEFINE Above == {MaxGroups + 1 - g : g \in up}
    <2>1. up \subseteq Group /\ MaxGroups \in Nat
      BY BoundAssumption DEF WorldTypeOK
    <2>2. Above \in SUBSET Group /\ Above # {}
      <3>1. \A g \in up : MaxGroups + 1 - g \in Group
        BY <2>1 DEF Group
      <3>2. PICK g \in up : TRUE
        OBVIOUS
      <3>3. MaxGroups + 1 - g \in Above
        OBVIOUS
      <3>4. QED
        BY <3>1, <3>3
    <2>3. PICK a \in Above : \A b \in Above : a <= b
      BY <2>2, FirstGroup, Zenon
    <2>4. PICK g \in up : a = MaxGroups + 1 - g
      BY <2>3
    <2>5. \A h \in up : MaxGroups + 1 - g <= MaxGroups + 1 - h
      BY <2>3, <2>4
    <2>6. \A h \in up : h \in Int /\ g \in Int
      BY <2>1 DEF Group
    <2>7. \A h \in up : h <= g
      BY <2>1, <2>5, <2>6
    <2>8. QED
      BY <2>7
  <1>2. Newest \in up
    BY <1>1, Zenon DEF Newest
  <1>3. QED
    BY <1>2 DEF NewRevision

\* A thread that does not list, and a deployment that moves on past the end of
\* the old containers, disturb nothing while containers only come.
LEMMA ListedKept ==
    ASSUME Runs, up \subseteq up', NEW t \in Thread,
           \/ pc'[t] \notin {"scale", "write"} \cup StartPc
           \/ pc'[t] = pc[t] /\ listed'[t] = listed[t] /\ fresh'[t] = fresh[t]
    PROVE  ListedRuns(t)'
    BY DEF Runs, ListedRuns

LEMMA NewKept ==
    ASSUME Runs, up \subseteq up', NEW d \in Deploy,
           dep'[d] = dep[d] \/ dep'[d].pc \notin Early
    PROVE  NewRuns(d)'
    BY DEF Runs, NewRuns, Early, Routed

LEMMA SpawnRuns ==
    ASSUME TInv, Runs, up \subseteq up', NEW t, NEW old, NEW new, Spawn(t, old, new),
           new # {}, new \cap old = {}
    PROVE  \A d \in Deploy : NewRuns(d)'
  <1>1. PICK d \in Deploy :
            dep' = [dep EXCEPT ![d] =
                       [pc |-> "register", proc |-> ProcessOf(t), old |-> old, new |-> new,
                        found |-> proxy]]
    BY Zenon DEF Spawn, NewDeploy
  <1>2. DOMAIN dep = Deploy
    BY DEF TInv, TypeOK, DeployTypeOK
  <1>3. /\ dep'[d].pc = "register" /\ dep'[d].old = old /\ dep'[d].new = new
        /\ \A e \in Deploy \ {d} : dep'[e] = dep[e]
    BY <1>1, <1>2
  <1>4. NewRuns(d)'
    BY <1>3 DEF NewRuns, Early, Routed
  <1>5. QED
    BY <1>3, <1>4, NewKept

\* The ways a call moves on and ends.
LEMMA GotoRuns ==
    ASSUME TInv, Runs, up \subseteq up', NEW t \in Thread, NEW where, Goto(t, where),
           where \notin {"scale", "write"} \cup StartPc,
           \A u \in Thread \ {t} : listed'[u] = listed[u] /\ fresh'[u] = fresh[u]
    PROVE  \A u \in Thread : ListedRuns(u)'
  <1>1. pc'[t] = where /\ \A u \in Thread \ {t} : pc'[u] = pc[u]
    BY DEF Goto, TInv, TypeOK, CallTypeOK
  <1>2. QED
    BY <1>1, ListedKept

LEMMA ReturnRuns ==
    ASSUME TInv, Runs, up \subseteq up', NEW t \in Cli \cup {"watch"}, Return(t)
    PROVE  \A u \in Thread : ListedRuns(u)'
  <1>1. t \in Thread /\ Goto(t, Rest(t)) /\ Rest(t) \notin {"scale", "write"} \cup StartPc
    BY DEF Thread, Return, Rest, StartPc
  <1>2. \A u \in Thread \ {t} : listed'[u] = listed[u] /\ fresh'[u] = fresh[u]
    BY DEF Return, TInv, TypeOK, CallTypeOK
  <1>3. QED
    BY <1>1, <1>2, GotoRuns

LEMMA RefreshEndRuns ==
    ASSUME TInv, Runs, up \subseteq up', NEW t \in {"watch", "later"}, NEW again \in BOOLEAN,
           RefreshEnd(t, again)
    PROVE  \A u \in Thread : ListedRuns(u)'
  <1>1. /\ pc'[t] \in {"idle", "due"}
        /\ \A u \in Thread \ {t} :
             (pc'[u] = pc[u] \/ pc'[u] = "due") /\ listed'[u] = listed[u]
    BY RefreshEndType DEF TInv, TypeOK
  <1>2. fresh' = fresh
    BY DEF RefreshEnd
  <1>3. QED
    BY <1>1, <1>2, ListedKept DEF StartPc

\* Controller.release: the containers it keeps and the new ones.
LEMMA ReleaseRuns ==
    ASSUME PInv, Runs, NEW t \in Cli \cup {"watch"}, Release(t)
    PROVE  Runs' /\ up \subseteq up' /\ proxy' = proxy
  <1>1. t \in Thread /\ TInv /\ WorldTypeOK /\ CallTypeOK
    BY DEF Thread, PInv, LInv, TInv, TypeOK
  <1>2. ListedRuns(t) /\ up \subseteq Created
    BY <1>1 DEF Runs
  <1>3. up \subseteq up' /\ proxy' = proxy
    BY DEF Release, Load, Lock, List, ScaleUp, world
  <1>4. ASSUME dep' = dep PROVE \A d \in Deploy : NewRuns(d)'
    BY <1>3, <1>4, NewKept
  <1>5. ASSUME UNCHANGED <<up, rev>> PROVE up' \subseteq Created'
    BY <1>2, <1>5 DEF Created
  <1>6. ASSUME Return(t) PROVE \A u \in Thread : ListedRuns(u)'
    BY <1>1, <1>3, <1>6, ReturnRuns
  <1>7. CASE Load(t) \/ Lock(t)
    <2>1. UNCHANGED <<up, rev>> /\ dep' = dep
      BY <1>7 DEF Load, Lock, world
    <2>2. Return(t) \/ ((Goto(t, "lock") \/ Goto(t, "list")) /\ UNCHANGED <<listed, fresh>>)
      BY <1>7 DEF Load, Lock
    <2>3. \A u \in Thread : ListedRuns(u)'
      BY <1>1, <1>3, <1>6, <2>2, GotoRuns DEF StartPc
    <2>4. QED
      BY <1>3, <1>4, <1>5, <2>1, <2>3 DEF Runs
  <1>8. CASE List(t)
    <2>1. UNCHANGED <<up, rev>>
      BY <1>8 DEF List, world
    <2>2. CASE GiveUp(t)
      BY <1>3, <1>4, <1>5, <1>6, <2>1, <2>2 DEF Runs, GiveUp
    <2>3. CASE /\ \E g, h \in up : rev[g] # rev[h]
               /\ Spawn(t, up \ NewRevision, NewRevision)
               /\ Return(t)
      <3>1. NewRevision # {} /\ NewRevision \cap (up \ NewRevision) = {}
        BY <1>1, <2>3, NewestRuns
      <3>2. \A d \in Deploy : NewRuns(d)'
        BY <1>1, <1>3, <2>3, <3>1, SpawnRuns
      <3>3. QED
        BY <1>3, <1>5, <1>6, <2>1, <2>3, <3>2 DEF Runs
    <2>4. CASE /\ up # {} /\ listed' = [listed EXCEPT ![t] = up]
               /\ Goto(t, "scale")
               /\ UNCHANGED <<fresh, dep>>
      <3>1. /\ pc'[t] = "scale" /\ listed'[t] = up
            /\ \A u \in Thread \ {t} : pc'[u] = pc[u] /\ listed'[u] = listed[u] /\ fresh'[u] = fresh[u]
        BY <1>1, <2>4 DEF Goto, CallTypeOK
      <3>2. ListedRuns(t)'
        BY <1>3, <2>4, <3>1 DEF ListedRuns, StartPc
      <3>3. \A u \in Thread : ListedRuns(u)'
        BY <1>3, <3>1, <3>2, ListedKept
      <3>4. QED
        BY <1>3, <1>4, <1>5, <2>1, <2>4, <3>3 DEF Runs
    <2>5. QED
      BY <1>8, <2>2, <2>3, <2>4 DEF List
  <1>9. CASE ScaleUp(t)
    <2>1. Return(t) /\ pc[t] = "scale"
      BY <1>9, Zenon DEF ScaleUp, GiveUp
    <2>2. listed[t] # {} /\ listed[t] \subseteq up
      BY <1>2, <2>1 DEF ListedRuns
    <2>3. CASE UNCHANGED <<up, rev>> /\ dep' = dep
      BY <1>3, <1>4, <1>5, <1>6, <2>1, <2>3 DEF Runs
    <2>4. CASE /\ Created # Group
               /\ \E r \in {rev[CHOOSE g \in listed[t] : TRUE], NextGroup} : Start(NextGroup, r)
               /\ \/ up' = up \cup {NextGroup} /\ Spawn(t, listed[t], {NextGroup})
                  \/ up' \in {up, up \cup {NextGroup}} /\ dep' = dep
      <3>1. NextGroup \in Group /\ NextGroup \notin Created
        BY <2>4, NextGroupType, Zenon
      <3>2. (CHOOSE g \in listed[t] : TRUE) \in Created
        BY <1>2, <2>2
      <3>3. rev[CHOOSE g \in listed[t] : TRUE] # 0 /\ NextGroup # 0
        BY <3>1, <3>2 DEF Created, Group
      <3>4. PICK r : r # 0 /\ Start(NextGroup, r)
        BY <2>4, <3>3
      <3>5. Created \cup {NextGroup} \subseteq Created'
        BY <1>1, <3>1, <3>4 DEF Start, Created, WorldTypeOK
      <3>6. up' \subseteq Created'
        BY <1>2, <2>4, <3>5
      <3>7. \A d \in Deploy : NewRuns(d)'
        <4>1. CASE dep' = dep
          BY <1>4, <4>1
        <4>2. CASE Spawn(t, listed[t], {NextGroup})
          <5>1. {NextGroup} \cap listed[t] = {}
            BY <1>2, <2>2, <3>1
          <5>2. {NextGroup} # {}
            OBVIOUS
          <5>3. QED
            BY <1>1, <1>3, <4>2, <5>1, <5>2, SpawnRuns
        <4>3. QED
          BY <2>4, <4>1, <4>2
      <3>8. QED
        BY <1>3, <1>6, <2>1, <3>6, <3>7 DEF Runs
    <2>5. QED
      BY <1>9, <2>3, <2>4 DEF ScaleUp, GiveUp
  <1>10. QED
    BY <1>7, <1>8, <1>9 DEF Release

\* Events of the watch loop.
LEMMA WatchRuns ==
    ASSUME PInv, Runs, WatchLoop
    PROVE  Runs' /\ up' = up /\ proxy' = proxy
  <1>1. TInv /\ WorldTypeOK /\ CallTypeOK /\ "watch" \in Thread
    BY DEF Thread, PInv, LInv, TInv, TypeOK
  <1>2. UNCHANGED <<up, rev, proxy>>
    BY DEF WatchLoop, Claim, HandleStart, StartLoad, StartLock, HandleDieOrHealth, world
  <1>3. up' \subseteq Created'
    BY <1>2 DEF Runs, Created
  <1>4. \A d \in Deploy : NewRuns(d)'
    <2>1. CASE dep' = dep
      BY <1>2, <2>1, NewKept
    <2>2. CASE StartLock /\ Spawn("watch", listed["watch"], fresh["watch"])
      <3>1. fresh["watch"] # {} /\ fresh["watch"] \cap listed["watch"] = {}
        BY <1>1, <2>2 DEF Runs, ListedRuns, StartLock, StartPc
      <3>2. QED
        BY <1>1, <1>2, <2>2, <3>1, SpawnRuns
    <2>3. QED
      BY <2>1, <2>2 DEF WatchLoop, Claim, HandleStart, StartLoad, StartLock, HandleDieOrHealth
  <1>5. \A u \in Thread : ListedRuns(u)'
    <2>1. CASE Return("watch")
      BY <1>1, <1>2, <2>1, ReturnRuns
    <2>2. CASE (Goto("watch", "load") \/ Goto("watch", "refresh")) /\ UNCHANGED <<listed, fresh>>
      BY <1>1, <1>2, <2>2, GotoRuns DEF StartPc
    <2>3. CASE StartLoad /\ Goto("watch", "startLock") /\ UNCHANGED <<listed, fresh>>
      <3>1. pc'["watch"] = "startLock" /\ \A u \in Thread \ {"watch"} : pc'[u] = pc[u]
        BY <1>1, <2>3 DEF Goto, CallTypeOK
      <3>2. ListedRuns("watch")'
        BY <1>1, <2>3, <3>1 DEF Runs, ListedRuns, StartLoad, StartPc
      <3>3. QED
        BY <1>2, <2>3, <3>1, <3>2, ListedKept
    <2>4. CASE \E g \in up : /\ listed' = [listed EXCEPT !["watch"] = up \ StartedRevision(g)]
                             /\ fresh' = [fresh EXCEPT !["watch"] = StartedRevision(g)]
                             /\ Goto("watch", "startLoad")
      <3>1. PICK g \in up : /\ listed' = [listed EXCEPT !["watch"] = up \ StartedRevision(g)]
                            /\ fresh' = [fresh EXCEPT !["watch"] = StartedRevision(g)]
                            /\ Goto("watch", "startLoad")
        BY <2>4, Zenon
      <3>2. /\ pc'["watch"] = "startLoad"
            /\ listed'["watch"] = up \ StartedRevision(g) /\ fresh'["watch"] = StartedRevision(g)
            /\ \A u \in Thread \ {"watch"} :
                 pc'[u] = pc[u] /\ listed'[u] = listed[u] /\ fresh'[u] = fresh[u]
        BY <1>1, <3>1 DEF Goto, CallTypeOK
      <3>3. g \in StartedRevision(g)
        BY DEF StartedRevision
      <3>4. ListedRuns("watch")'
        BY <3>2, <3>3 DEF ListedRuns
      <3>5. QED
        BY <1>2, <3>2, <3>4, ListedKept
    <2>5. CASE HandleStart
      BY <2>2, <2>4, <2>5 DEF HandleStart
    <2>6. QED
      BY <2>1, <2>2, <2>3, <2>5 DEF WatchLoop, Claim, StartLoad, StartLock, HandleDieOrHealth
  <1>6. QED
    BY <1>2, <1>3, <1>4, <1>5 DEF Runs

\* A refresh writes what it listed under the lock, or a part of it.
LEMMA RefreshRuns ==
    ASSUME PInv, Runs, NEW t \in {"watch", "later"}, Refresh(t)
    PROVE  Runs' /\ up' = up /\ (proxy' = proxy \/ proxy' \cap up # {})
  <1>1. TInv /\ WorldTypeOK /\ CallTypeOK /\ t \in Thread
    BY DEF Thread, PInv, LInv, TInv, TypeOK
  <1>2. UNCHANGED <<up, rev, dep>>
    BY DEF Refresh, RefreshBegin, RefreshCheck, RefreshLock, Relist, RefreshWrite, world
  <1>3. up' \subseteq Created'
    BY <1>2 DEF Runs, Created
  <1>4. \A d \in Deploy : NewRuns(d)'
    BY <1>2, NewKept
  <1>5. flag[t] \in BOOLEAN
    BY <1>1 DEF CallTypeOK
  <1>6. \A u \in Thread : ListedRuns(u)'
    <2>1. CASE \E again \in {flag[t], TRUE} : RefreshEnd(t, again)
      BY <1>1, <1>2, <1>5, <2>1, RefreshEndRuns
    <2>2. CASE /\ Goto(t, "check") \/ Goto(t, "refreshLock") \/ Goto(t, "relist")
               /\ UNCHANGED <<listed, fresh>>
      BY <1>1, <1>2, <2>2, GotoRuns DEF StartPc
    <2>3. CASE /\ up # {} /\ listed' = [listed EXCEPT ![t] = up] /\ Goto(t, "write")
               /\ UNCHANGED fresh
      <3>1. /\ pc'[t] = "write" /\ listed'[t] = up
            /\ \A u \in Thread \ {t} : pc'[u] = pc[u] /\ listed'[u] = listed[u] /\ fresh'[u] = fresh[u]
        BY <1>1, <2>3 DEF Goto, CallTypeOK
      <3>2. ListedRuns(t)'
        BY <1>2, <2>3, <3>1 DEF ListedRuns, StartPc
      <3>3. QED
        BY <1>2, <3>1, <3>2, ListedKept
    <2>4. QED
      BY <2>1, <2>2, <2>3
      DEF Refresh, RefreshBegin, RefreshCheck, RefreshLock, Relist, RefreshWrite
  <1>7. proxy' = proxy \/ proxy' \cap up # {}
    <2>1. CASE RefreshWrite(t)
      <3>1. listed[t] # {} /\ listed[t] \subseteq up
        BY <1>1, <2>1 DEF Runs, ListedRuns, RefreshWrite
      <3>2. \A upstream \in Upstreams(listed[t]) : upstream # {} /\ upstream \subseteq listed[t]
        BY <3>1 DEF Upstreams
      <3>3. QED
        BY <2>1, <3>1, <3>2 DEF RefreshWrite
    <2>2. CASE ~RefreshWrite(t)
      BY <2>2 DEF Refresh, RefreshBegin, RefreshCheck, RefreshLock, Relist, world
    <2>3. QED
      BY <2>1, <2>2
  <1>8. QED
    BY <1>2, <1>3, <1>4, <1>6, <1>7 DEF Runs

\* What one step of a deployment lets go.
Ends == proxy \cap up # {} /\ proxy' \cap up' = {}
MayEnd(d) == dep'[d].pc # dep[d].pc /\ (TakesOver(d) \/ dep[d].old = {})

\* Removing what is new ends the service only if that had users.
LEMMA RemovalEnds ==
    ASSUME FoundServes, NEW d \in Deploy, dep[d].pc \in {"prepare", "drop"},
           dep[d].new \cap dep[d].old = {}, Remove(dep[d].new), proxy' = proxy, Ends
    PROVE  TakesOver(d)
  <1>1. proxy \cap dep[d].new # {}
    BY RemoveShrinks DEF Ends
  <1>2. proxy \in {dep[d].found, dep[d].old}
    BY DEF FoundServes, Found
  <1>3. QED
    BY <1>1, <1>2 DEF TakesOver

\* The deployment at work is the only one, and nobody lists meanwhile: what it
\* removes is its own affair.
LEMMA DeploymentRuns ==
    ASSUME PInv, FoundServes, Runs, NEW d \in Deploy, Deployment(d)
    PROVE  Runs' /\ (Ends => MayEnd(d))
  <1>1. TInv /\ CallTypeOK /\ DeployTypeOK /\ LockGuardsService /\ ProxyIsTheReleases
    BY DEF PInv, LInv, TInv, TypeOK
  <1>2. UNCHANGED <<pc, listed, fresh, rev>> /\ up' \subseteq up
    BY <1>1, DeploymentFrame DEF calls
  <1>3. up' \subseteq Created'
    BY <1>2 DEF Runs, Created
  <1>4. \A e \in Deploy \ {d} : dep'[e] = dep[e]
    BY <1>1, DeploymentFrame
  <1>5. NewRuns(d) /\ dep[d].new \subseteq Group
    BY <1>1 DEF Runs, DeployTypeOK
  <1>6. \A t \in Thread : ListedRuns(t)'
    <2>1. CASE Unlock(d)
      BY <1>1, <1>2, <2>1, DeploymentFrame DEF Runs, ListedRuns, world
    <2>2. CASE ~Unlock(d)
      <3>1. Rewriting = {}
        BY <1>1, <2>2, DeploymentFrame, OneHolder DEF LockGuardsService, Writing
      <3>2. \A t \in Thread : pc[t] \notin {"scale", "write"}
        BY <3>1 DEF Rewriting
      <3>3. QED
        BY <1>2, <3>2 DEF Runs, ListedRuns
    <2>3. QED
      BY <2>1, <2>2
  <1>7. \A e \in Deploy \ {d} : NewRuns(e)'
    <2>1. CASE Unlock(d)
      BY <1>1, <1>4, <2>1, DeploymentFrame DEF Runs, NewRuns, world
    <2>2. CASE ~Unlock(d)
      <3>1. \A e \in Deploy \ {d} : e \notin Writing
        BY <1>1, <2>2, DeploymentFrame, OneHolder DEF LockGuardsService
      <3>2. \A e \in Deploy \ {d} : dep'[e].pc \notin Early \cup Routed
        BY <1>4, <3>1 DEF Writing, Early, Routed
      <3>3. QED
        BY <3>2 DEF NewRuns
    <2>3. QED
      BY <2>1, <2>2
  <1>8. ASSUME NewRuns(d)' PROVE Runs'
    BY <1>3, <1>6, <1>7, <1>8 DEF Runs
  <1>9. ASSUME dep'[d].pc \notin Early PROVE Runs'
    BY <1>8, <1>9 DEF NewRuns, Early, Routed
  <1>10. CASE Register(d) \/ EarlySave(d) \/ Finish(d) \/ RecordUndone(d) \/ Leave(d) \/ Unlock(d)
    <2>1. UNCHANGED <<up, proxy>>
      BY <1>10 DEF Register, EarlySave, Finish, RecordUndone, Leave, Unlock, world
    <2>2. /\ dep'[d].new = dep[d].new /\ dep'[d].old = dep[d].old
          /\ \/ dep[d].pc \in {"register", "save"} /\ dep'[d].pc \in {"save", "prepare"}
             \/ dep'[d].pc \in {"leave", "unlock", "done"}
      BY <1>1, <1>10
      DEF Register, EarlySave, Finish, RecordUndone, Leave, Unlock, Move, At, DeployTypeOK
    <2>3. NewRuns(d)'
      BY <1>5, <2>2 DEF NewRuns, Early, Routed
    <2>4. QED
      BY <1>8, <2>1, <2>3 DEF Ends
  <1>11. CASE Prepare(d)
    <2>1. proxy' = proxy /\ dep[d].pc = "prepare"
      BY <1>11 DEF Prepare, At
    <2>2. dep[d].new # {} /\ dep[d].new \cap dep[d].old = {}
      BY <1>5, <2>1 DEF NewRuns, Early
    <2>3. CASE /\ dep[d].new \subseteq up
               /\ dep' = [dep EXCEPT ![d].pc = "record", ![d].old = @ \cap up]
               /\ up' = up
      <3>1. dep'[d].pc = "record" /\ dep'[d].new = dep[d].new /\ dep'[d].old = dep[d].old \cap up
        BY <1>1, <2>3 DEF DeployTypeOK
      <3>2. NewRuns(d)'
        BY <2>2, <2>3, <3>1 DEF NewRuns, Early, Routed
      <3>3. QED
        BY <1>8, <2>1, <2>3, <3>2 DEF Ends
    <2>4. CASE Move(d, "leave") /\ (up' = up \/ Remove(dep[d].new))
      <3>1. dep'[d].pc = "leave"
        BY <1>1, <2>4 DEF Move, DeployTypeOK
      <3>2. Runs'
        BY <1>9, <3>1 DEF Early
      <3>3. Ends => TakesOver(d)
        BY <2>1, <2>2, <2>4, RemovalEnds DEF Ends
      <3>4. QED
        BY <2>1, <3>1, <3>2, <3>3 DEF MayEnd
    <2>5. QED
      BY <1>11, <2>3, <2>4 DEF Prepare
  <1>12. CASE Record(d) \/ Preview(d) \/ Shift(d) \/ Promote(d)
    <2>1. up' = up /\ dep[d].pc \in Routed
      BY <1>12 DEF Record, Preview, Shift, Promote, world, At, Routed
    <2>2. dep[d].new # {} /\ dep[d].new \subseteq up /\ dep[d].old \subseteq up
      BY <1>5, <2>1 DEF NewRuns, Early, Routed
    <2>3. /\ dep'[d].new = dep[d].new /\ dep'[d].old = dep[d].old
          /\ dep'[d].pc \in Routed /\ dep'[d].pc # dep[d].pc
      BY <1>1, <1>12 DEF Record, Preview, Shift, Promote, At, Move, DeployTypeOK, Routed
    <2>4. NewRuns(d)'
      BY <1>5, <2>1, <2>2, <2>3 DEF NewRuns, Early, Routed
    <2>5. proxy' = proxy \/ proxy' = dep[d].old \/ dep[d].new \subseteq proxy'
      BY <1>12 DEF Record, Preview, Shift, Promote, world
    <2>6. Ends => dep[d].old = {}
      BY <2>1, <2>2, <2>5 DEF Ends
    <2>7. QED
      BY <1>8, <2>3, <2>4, <2>6 DEF MayEnd
  <1>13. CASE Retire(d)
    <2>1. /\ dep[d].pc = "retire" /\ proxy = dep[d].new /\ proxy' = proxy
          /\ Remove(dep[d].old)
      BY <1>1, <1>13 DEF Retire, At, ProxyIsTheReleases
    <2>2. dep[d].new # {} /\ dep[d].new \cap dep[d].old = {} /\ dep[d].new \subseteq up
      BY <1>5, <2>1 DEF NewRuns, Early, Routed
    <2>3. dep'[d].pc = "finish"
      BY <1>1, <1>13 DEF Retire, Move, DeployTypeOK
    <2>4. Runs'
      BY <1>9, <2>3 DEF Early
    <2>5. QED
      BY <2>1, <2>2, <2>4, RemoveShrinks DEF Ends
  <1>14. CASE UndoBeforeSwitch(d) \/ UndoAfterSwitch(d) \/ Fail(d)
    <2>1. up' = up
      BY <1>14 DEF UndoBeforeSwitch, UndoAfterSwitch, Fail
    <2>2. /\ dep'[d].new = dep[d].new /\ dep'[d].old = dep[d].old
          /\ dep'[d].pc = "abort" \/ (dep'[d].pc = "drop" /\ dep[d].pc \in Early)
          /\ dep'[d].pc # dep[d].pc
      BY <1>1, <1>14
      DEF UndoBeforeSwitch, UndoAfterSwitch, Fail, At, Move, DeployTypeOK, Early
    <2>3. NewRuns(d)'
      BY <1>5, <2>2 DEF NewRuns, Early, Routed
    <2>4. \/ proxy' = proxy
          \/ /\ dep[d].pc \in Routed
             /\ proxy' = dep[d].old \/ dep[d].new \subseteq proxy'
      BY <1>14 DEF UndoBeforeSwitch, UndoAfterSwitch, Fail, Config, At, Routed
    <2>5. dep[d].pc \in Routed => dep[d].new # {} /\ dep[d].new \subseteq up /\ dep[d].old \subseteq up
      BY <1>5 DEF NewRuns, Early, Routed
    <2>6. Ends => dep[d].old = {}
      BY <2>1, <2>4, <2>5 DEF Ends
    <2>7. QED
      BY <1>8, <2>2, <2>3, <2>6 DEF MayEnd
  <1>15. CASE DropNew(d)
    <2>1. dep[d].pc = "drop" /\ proxy' = proxy /\ Remove(dep[d].new)
      BY <1>15 DEF DropNew, At
    <2>2. dep'[d].pc = "undone"
      BY <1>1, <1>15 DEF DropNew, Move, DeployTypeOK
    <2>3. Runs'
      BY <1>9, <2>2 DEF Early
    <2>4. dep[d].new \cap dep[d].old = {}
      BY <1>5, <2>1 DEF NewRuns, Early
    <2>5. Ends => TakesOver(d)
      BY <2>1, <2>4, RemovalEnds
    <2>6. QED
      BY <2>1, <2>2, <2>3, <2>5 DEF MayEnd
  <1>16. CASE Abort(d)
    <2>1. up' = up /\ AbortTargets(d) \subseteq up
      BY <1>16 DEF Abort, AbortTargets
    <2>2. dep'[d].pc \in {"abortRemove", "leave"}
      BY <1>1, <1>16 DEF Abort, Move, DeployTypeOK
    <2>3. Runs'
      BY <1>9, <2>2 DEF Early
    <2>4. proxy' = proxy \/ (proxy' = AbortTargets(d) /\ AbortTargets(d) # {})
      BY <1>16 DEF Abort
    <2>5. QED
      BY <2>1, <2>3, <2>4 DEF Ends
  <1>17. CASE AbortRemove(d)
    <2>1. proxy = dep[d].old /\ proxy' = proxy /\ Remove(dep[d].new \ dep[d].old)
      BY <1>1, <1>17 DEF AbortRemove, ProxyIsTheReleases
    <2>2. Runs'
      BY <1>1, <1>9, <1>17 DEF AbortRemove, Move, DeployTypeOK, Early
    <2>3. QED
      BY <2>1, <2>2, RemoveShrinks DEF Ends
  <1>18. QED
    BY <1>10, <1>11, <1>12, <1>13, <1>14, <1>15, <1>16, <1>17 DEF Deployment

\* What else happens to the containers, and the deaths.
LEMMA WorldRuns ==
    ASSUME PInv, Runs, ComposeUp \/ ContainerRestarts \/ GetStale
    PROVE  Runs' /\ up \subseteq up' /\ proxy' = proxy
  <1>1. WorldTypeOK
    BY DEF PInv, LInv, TInv, TypeOK
  <1>2. UNCHANGED <<pc, listed, fresh, dep, proxy>> /\ up \subseteq up'
    BY DEF ComposeUp, ContainerRestarts, GetStale, calls, world
  <1>3. (\A t \in Thread : ListedRuns(t)') /\ \A d \in Deploy : NewRuns(d)'
    BY <1>2, ListedKept, NewKept
  <1>4. up' \subseteq Created'
    <2>1. CASE ComposeUp
      <3>1. Created # Group /\ Start(NextGroup, NextGroup) /\ up' = up \cup {NextGroup}
        BY <2>1 DEF ComposeUp
      <3>2. NextGroup \in Group
        BY <3>1, NextGroupType, Zenon
      <3>3. NextGroup # 0
        BY <3>2 DEF Group
      <3>4. Created \cup {NextGroup} \subseteq Created'
        BY <1>1, <3>1, <3>2, <3>3 DEF Start, Created, WorldTypeOK
      <3>5. QED
        BY <3>1, <3>4 DEF Runs
    <2>2. CASE ContainerRestarts \/ GetStale
      BY <2>2 DEF ContainerRestarts, GetStale, world, Runs, Created
    <2>3. QED
      BY <2>1, <2>2
  <1>5. QED
    BY <1>2, <1>3, <1>4 DEF Runs

LEMMA CommandRuns ==
    ASSUME PInv, Runs, NEW p \in Cli, Ask(p) \/ CommandDies(p)
    PROVE  Runs' /\ up' = up /\ proxy' = proxy
  <1>1. TInv /\ CallTypeOK /\ DeployTypeOK /\ p \in Thread
    BY DEF Thread, PInv, LInv, TInv, TypeOK
  <1>2. UNCHANGED <<up, rev, proxy>>
    BY DEF Ask, CommandDies, world
  <1>3. up' \subseteq Created'
    BY <1>2 DEF Runs, Created
  <1>4. \A d \in Deploy : dep'[d] = dep[d] \/ dep'[d].pc = "done"
    BY <1>1 DEF Ask, CommandDies, Die, DeployTypeOK
  <1>5. \A d \in Deploy : NewRuns(d)'
    BY <1>2, <1>4, NewKept DEF Early
  <1>6. \A u \in Thread : ListedRuns(u)'
    <2>1. CASE Return(p)
      BY <1>1, <1>2, <2>1, ReturnRuns
    <2>2. CASE /\ Goto(p, "load") \/ Goto(p, "exit") \/ Goto(p, "undo")
               /\ UNCHANGED <<listed, fresh>>
      BY <1>1, <1>2, <2>2, GotoRuns DEF StartPc
    <2>3. QED
      BY <2>1, <2>2 DEF Ask, CommandDies
  <1>7. QED
    BY <1>2, <1>3, <1>5, <1>6 DEF Runs

LEMMA RunsStep ==
    ASSUME PInv, FoundServes, Runs, [Next]_vars, "rollback" \notin Asks, MaxCrashes = 0
    PROVE  Runs' /\ (Ends => \E d \in Deploy : MayEnd(d))
  <1>1. TInv /\ Locked /\ WorldTypeOK
    BY DEF PInv, LInv, TInv, TypeOK
  <1>2. ASSUME up \subseteq up', proxy' = proxy \/ proxy' \cap up # {}
        PROVE  ~Ends
    BY <1>2 DEF Ends
  <1>3. CASE \E t \in Cli \cup {"watch"} : Release(t) \/ Rollback(t)
    <2>1. PICK t \in Cli \cup {"watch"} : Release(t) \/ Rollback(t)
      BY <1>3
    <2>2. ~Rollback(t)
      BY <1>1 DEF Locked, Rollback, Undo, UndoRoute, UndoRemove, UndoSave, UndoPc, Thread
    <2>3. QED
      BY <1>2, <2>1, <2>2, ReleaseRuns
  <1>4. CASE WatchLoop
    BY <1>2, <1>4, WatchRuns
  <1>5. CASE \E t \in {"watch", "later"} : Refresh(t)
    BY <1>2, <1>5, RefreshRuns
  <1>6. CASE \E d \in Deploy : Deployment(d)
    BY <1>6, DeploymentRuns
  <1>7. CASE \E p \in Cli : Ask(p) \/ CommandDies(p)
    BY <1>2, <1>7, CommandRuns
  <1>8. CASE ComposeUp \/ ContainerRestarts \/ GetStale
    BY <1>2, <1>8, WorldRuns
  <1>9. CASE RefreshDue
    <2>1. /\ Goto("later", "refresh") /\ "later" \in Thread
          /\ UNCHANGED <<up, rev, proxy, listed, fresh, dep>>
      BY <1>9 DEF RefreshDue, world, Thread
    <2>2. \A u \in Thread : ListedRuns(u)'
      BY <1>1, <2>1, GotoRuns DEF StartPc
    <2>3. up' \subseteq Created' /\ \A d \in Deploy : NewRuns(d)'
      BY <2>1, NewKept DEF Runs, Created
    <2>4. QED
      BY <1>2, <2>1, <2>2, <2>3 DEF Runs
  <1>10. CASE Restart
    BY <1>1, <1>10 DEF Restart, DaemonStarts, Boot, Recover, Locked, BootPc, Thread
  <1>11. CASE DaemonDies
    BY <1>1, <1>11 DEF DaemonDies, WorldTypeOK
  <1>12. CASE UNCHANGED vars
    <2>1. UNCHANGED <<up, rev, proxy, pc, listed, fresh, dep>>
      BY <1>12 DEF vars, world, calls
    <2>2. (\A t \in Thread : ListedRuns(t)') /\ \A d \in Deploy : NewRuns(d)'
      BY <2>1, ListedKept, NewKept
    <2>3. QED
      BY <1>2, <2>1, <2>2 DEF Runs, Created
  <1>13. QED
    BY <1>3, <1>4, <1>5, <1>6, <1>7, <1>8, <1>9, <1>10, <1>11, <1>12 DEF Next

\* Without rollbacks and daemons that start: requests keep going to some group
\* whose containers run, whatever commands, events, refreshes and deaths of
\* commands come together, unless a deployment takes containers with users for
\* new ones, or has no old ones left to send users to.
THEOREM OnlyTakeoverEnds ==
    ASSUME "rollback" \notin Asks, MaxCrashes = 0
    PROVE  Spec => OnlyTakeoverEndsService
  <1> DEFINE EInv == PInv /\ FoundServes /\ Runs
  <1>1. Init => EInv
    <2>1. Init => FoundServes
      BY DEF Init, FoundServes, Found, NoDeploy
    <2>2. QED
      BY <2>1, TypeInit, LockInit, ProxyInit, RunsInit DEF PInv, LInv
  <1>2. EInv /\ [Next]_vars => EInv'
    <2>1. PInv /\ UNCHANGED vars => Locked'
      BY DEF PInv, Locked, vars, calls
    <2>2. PInv /\ [Next]_vars => PInv'
      BY <2>1, TypeStep, LockStep, LockedStep, ProxyStep DEF PInv, LInv
    <2>3. QED
      BY <2>2, FoundStep, RunsStep
  <1>3. EInv /\ [Next]_vars
            => [proxy \cap up # {} /\ proxy' \cap up' = {}
                    => \E d \in Deploy : /\ dep'[d].pc # dep[d].pc
                                         /\ TakesOver(d) \/ dep[d].old = {}]_vars
    BY RunsStep DEF Ends, MayEnd
  <1>4. QED
    BY <1>1, <1>2, <1>3, PTL DEF Spec, OnlyTakeoverEndsService

=============================================================================
