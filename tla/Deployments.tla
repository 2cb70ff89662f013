---------------------------- MODULE Deployments ----------------------------
(***************************************************************************)
(* Who may deploy a service, and when: the daemon (`dr watch': events,     *)
(* queued releases, config refreshes, recovery) and `dr' commands on one   *)
(* service, over the deploy lock, the state file and the containers        *)
(* (controller/release.go, events.go, configsync.go, recovery.go, deploy). *)
(*                                                                         *)
(* Abstractions: containers come and go in groups (one `compose up' or one *)
(* scale-up), numbered by creation; one that was stopped and could not be  *)
(* removed counts as gone; what a strategy does inside Execute is six      *)
(* steps and two ways to undo them (Release has them all); health,         *)
(* weights, addresses and deployment IDs are left out.  Any call may fail, *)
(* which is also what a cancelled context does.                            *)
(***************************************************************************)
EXTENDS Integers, Sequences

CONSTANTS
    Cli,            \* processes that each run one `dr' command
    Asks,           \* the commands they may run
    MaxGroups,      \* bound: groups of containers ever created
    MaxDeploys,     \* bound: deployments ever started
    MaxRestarts,    \* bound: how often a container restarts by itself
    MaxCrashes      \* bound: how often the daemon dies

ASSUME CliAssumption == Cli \cap {"watch", "later", "deploy", "free", "daemon"} = {}
ASSUME AsksAssumption == Asks \subseteq {"release", "force", "detach", "rollback"}
ASSUME BoundAssumption ==
    MaxGroups \in Nat \ {0} /\ MaxDeploys \in Nat /\ MaxRestarts \in Nat /\ MaxCrashes \in Nat

VARIABLES
    up,         \* groups whose containers run
    rev,        \* each created group's revision
    events,     \* start events the daemon has yet to handle
    proxy,      \* groups that the proxy sends requests to
    file,       \* the state file
    lock,       \* who holds the deploy lock
    active,     \* each process's map of active deployments
    configMu,   \* thread that holds Controller.configMu
    pc,         \* where each thread is
    flag,       \* --force of a release, or whether a refresh is to be repeated
    listed,     \* containers a thread listed: those to keep, or the old ones
    fresh,      \* ... and the new ones
    queue,      \* pending command files: the force flag of each
    claimed,    \* whether a command file is claimed and not completed
    dep,        \* the deploy goroutines
    cancelled,  \* deployments whose context another deployment cancelled
    restarts, crashes

world == <<up, rev, events, proxy>>
calls == <<configMu, pc, flag, listed, fresh>>
asked == <<queue, claimed, restarts, crashes>>
vars == <<world, file, lock, active, calls, asked, dep, cancelled>>

Group == 1 .. MaxGroups
Deploy == 1 .. MaxDeploys
Thread == {"watch", "later"} \cup Cli       \* the watch loop, a delayed refresh
Process == {"daemon"} \cup Cli
ProcessOf(t) == IF t \in Cli THEN t ELSE "daemon"

Free == <<"free", 0>>
Holder == {Free} \cup {<<t, 0>> : t \in Thread} \cup {<<"deploy", d>> : d \in Deploy}

ReleasePc == {"load", "lock", "list", "scale"}
StartPc == {"startLoad", "startLock"}
RefreshPc == {"refresh", "check", "refreshLock", "relist", "write"}
UndoPc == {"undo", "undoRoute", "undoRemove", "undoSave"}
BootPc == {"down", "boot", "recover"}
DeployPc == {"free", "register", "save", "prepare", "record", "preview", "shift", "promote",
             "retire", "finish", "drop", "undone", "abort", "abortRemove",
             "leave", "unlock", "done"}

StateFile == [status: {"idle", "in_progress", "rolling_back"}, stale: BOOLEAN,
              stable: SUBSET Group, canary: SUBSET Group]
Idle(stable) == [status |-> "idle", stale |-> FALSE, stable |-> stable, canary |-> {}]
InProgress(stable, canary) ==
    [status |-> "in_progress", stale |-> FALSE, stable |-> stable, canary |-> canary]

\* A deployment; `found' is history: what the proxy served when it started.
NewDeploy(t, old, new) ==
    [pc |-> "register", proc |-> ProcessOf(t), old |-> old, new |-> new, found |-> proxy]
NoDeploy == [pc |-> "free", proc |-> "daemon", old |-> {}, new |-> {}, found |-> {}]

Created == {g \in Group : rev[g] # 0}
NextGroup == CHOOSE g \in Group \ Created : \A h \in Group \ Created : g <= h

Init ==
    /\ up = {1} /\ proxy = {1} /\ events = <<>>
    /\ rev = [g \in Group |-> IF g = 1 THEN 1 ELSE 0]
    /\ file = Idle({})
    /\ lock = Free /\ configMu = "free"
    /\ active = [p \in Process |-> 0]
    /\ pc = [t \in Thread |-> "idle"]
    /\ flag = [t \in Thread |-> FALSE]
    /\ listed = [t \in Thread |-> {}] /\ fresh = [t \in Thread |-> {}]
    /\ queue = <<>> /\ claimed = FALSE
    /\ dep = [d \in Deploy |-> NoDeploy] /\ cancelled = {}
    /\ restarts = 0 /\ crashes = 0

Goto(t, where) == pc' = [pc EXCEPT ![t] = where]
Rest(t) == IF t \in Cli THEN "exit" ELSE "idle"

\* A thread's call is over: it forgets what it listed, and the watch loop
\* completes the queued command it ran (CompleteReleaseCommand).
Return(t) ==
    /\ Goto(t, Rest(t))
    /\ flag' = [flag EXCEPT ![t] = FALSE]
    /\ listed' = [listed EXCEPT ![t] = {}] /\ fresh' = [fresh EXCEPT ![t] = {}]
    /\ UNCHANGED configMu

\* Mutation: the claimed command file stays.
CompleteForgotten(t) == UNCHANGED asked

\* A release in the watch loop is one of a queued command.
Complete(t) == claimed' = (claimed /\ t \in Cli) /\ UNCHANGED <<queue, restarts, crashes>>

-----------------------------------------------------------------------------
(* Controller.release, in a `dr release' or for a queued command.          *)

Live(f) == f.status = "in_progress" /\ ~f.stale

Load(t) ==
    /\ pc[t] = "load"
    /\ \/ /\ ~Live(file) \/ flag[t]
          /\ Goto(t, "lock")
          /\ UNCHANGED <<configMu, flag, listed, fresh, asked>>
       \/ /\ Live(file) /\ ~flag[t]
          /\ Return(t) /\ Complete(t)
    /\ UNCHANGED <<world, file, lock, active, dep, cancelled>>

\* The bound on deployments ends what would start one too many.
Room == \E d \in Deploy : dep[d].pc = "free"

\* AcquireDeployLock does not wait.
Lock(t) ==
    /\ pc[t] = "lock"
    /\ \/ /\ lock = Free /\ Room
          /\ lock' = <<t, 0>>
          /\ Goto(t, "list")
          /\ UNCHANGED <<configMu, flag, listed, fresh, asked>>
       \/ /\ lock # Free \/ ~Room
          /\ Return(t) /\ Complete(t) /\ UNCHANGED lock
    /\ UNCHANGED <<world, file, active, dep, cancelled>>

\* Mutation: the lock is given up when release returns.
SpawnUnlocked(t, old, new) ==
    \E d \in Deploy :
        /\ dep[d].pc = "free"
        /\ \A e \in Deploy : e < d => dep[e].pc # "free"
        /\ dep' = [dep EXCEPT ![d] = NewDeploy(t, old, new)]
        /\ lock' = Free

\* The deploy goroutine starts; the lock is its own from here on.
Spawn(t, old, new) ==
    \E d \in Deploy :
        /\ dep[d].pc = "free"
        /\ \A e \in Deploy : e < d => dep[e].pc # "free"
        /\ dep' = [dep EXCEPT ![d] = NewDeploy(t, old, new)]
        /\ lock' = <<"deploy", d>>

GiveUp(t) == Return(t) /\ Complete(t) /\ lock' = Free /\ dep' = dep

\* splitByRevision: the revision of the newest group is the new one.
Newest == CHOOSE g \in up : \A h \in up : h <= g
NewRevision == {g \in up : rev[g] = rev[Newest]}

\* Labels that cannot be parsed, or a preview host of another service, end it.
List(t) ==
    /\ pc[t] = "list"
    /\ \/ GiveUp(t)
       \/ /\ \E g, h \in up : rev[g] # rev[h]
          /\ Spawn(t, up \ NewRevision, NewRevision)
          /\ Return(t) /\ Complete(t)
       \/ /\ up # {} /\ \A g, h \in up : rev[g] = rev[h]
          /\ listed' = [listed EXCEPT ![t] = up]
          /\ Goto(t, "scale")
          /\ UNCHANGED <<configMu, flag, fresh, asked, lock, dep>>
    /\ UNCHANGED <<world, file, active, cancelled>>

\* A group of containers starts, and the daemon gets an event for it.
Start(g, r) ==
    /\ rev' = [rev EXCEPT ![g] = r]
    /\ events' = Append(events, g)

\* scaleUp: Compose may create a new revision, a copy has the old one.  If it
\* fails, or the proxy cannot reach the containers, they are removed again,
\* an error in which is ignored.
ScaleUp(t) ==
    /\ pc[t] = "scale"
    /\ \/ /\ Created # Group
          /\ \E r \in {rev[CHOOSE g \in listed[t] : TRUE], NextGroup} : Start(NextGroup, r)
          /\ \/ /\ up' = up \cup {NextGroup}
                /\ Spawn(t, listed[t], {NextGroup})
                /\ Return(t) /\ Complete(t)
             \/ up' \in {up, up \cup {NextGroup}} /\ GiveUp(t)
       \/ GiveUp(t) /\ UNCHANGED <<up, rev, events>>
    /\ UNCHANGED <<proxy, file, active, cancelled>>

Release(t) == Load(t) \/ Lock(t) \/ List(t) \/ ScaleUp(t)

-----------------------------------------------------------------------------
(* Queued releases: EnqueueRelease in a `dr release --detach', and         *)
(* processReleaseCommands in the watch loop.                               *)

\* EnqueueReleaseCommand: the file appears by a rename, whole.
Enqueue(force) == queue' = Append(queue, force)

\* A `dr' command begins.
Ask(t) ==
    /\ t \in Cli /\ pc[t] = "idle"
    /\ \/ /\ "release" \in Asks /\ Goto(t, "load")
          /\ UNCHANGED <<flag, queue>>
       \/ /\ "force" \in Asks /\ Goto(t, "load")
          /\ flag' = [flag EXCEPT ![t] = TRUE] /\ UNCHANGED queue
       \/ /\ "detach" \in Asks /\ Goto(t, "exit")
          /\ \E force \in BOOLEAN : Enqueue(force)
          /\ UNCHANGED flag
       \/ /\ "rollback" \in Asks /\ Goto(t, "undo")
          /\ UNCHANGED <<flag, queue>>
    /\ UNCHANGED <<world, file, lock, active, configMu, listed, fresh, claimed,
                   restarts, crashes, dep, cancelled>>

\* PendingReleaseCommands sorts them by age.
Oldest == Head(queue)

\* ClaimReleaseCommand: a rename takes it out of the queue.
TakeOldest == queue' = Tail(queue) /\ claimed' = TRUE

\* The oldest command of a tick is claimed; nobody claims it again.
Claim ==
    /\ pc["watch"] = "idle"
    /\ queue # <<>>
    /\ TakeOldest
    /\ flag' = [flag EXCEPT !["watch"] = Oldest]
    /\ Goto("watch", "load")
    /\ UNCHANGED <<world, file, lock, active, configMu, listed, fresh, restarts, crashes,
                   dep, cancelled>>

-----------------------------------------------------------------------------
(* Docker events: handleStart; handleDie and handleHealthStatus.           *)

\* separateByRevision: the revision of the started container is the new one.
StartedRevision(g) == {h \in up : rev[h] = rev[g]}

\* The containers are listed before the state is read or the lock is taken.
\* With one revision, or the container gone, only the config is refreshed.
HandleStart ==
    /\ pc["watch"] = "idle"
    /\ events # <<>>
    /\ events' = Tail(events)
    /\ LET g == Head(events) IN
       \/ /\ g \in up /\ StartedRevision(g) # up
          /\ listed' = [listed EXCEPT !["watch"] = up \ StartedRevision(g)]
          /\ fresh' = [fresh EXCEPT !["watch"] = StartedRevision(g)]
          /\ Goto("watch", "startLoad")
          /\ UNCHANGED flag
       \/ /\ g \notin up \/ StartedRevision(g) = up
          /\ Goto("watch", "refresh")
          /\ flag' = [flag EXCEPT !["watch"] = TRUE]
          /\ UNCHANGED <<listed, fresh>>
    /\ UNCHANGED <<up, rev, proxy, file, lock, active, configMu, asked, dep, cancelled>>

\* --force plays no part here; a state that is rolling_back does not stop it.
StartLoad ==
    /\ pc["watch"] = "startLoad"
    /\ \/ ~Live(file) /\ Goto("watch", "startLock")
          /\ UNCHANGED <<configMu, flag, listed, fresh>>
       \/ Live(file) /\ Return("watch")
    /\ UNCHANGED <<world, file, lock, active, asked, dep, cancelled>>

\* An event that finds the lock held is dropped.
StartLock ==
    /\ pc["watch"] = "startLock"
    /\ \/ lock = Free /\ Spawn("watch", listed["watch"], fresh["watch"])
       \/ (lock # Free \/ ~Room) /\ UNCHANGED <<lock, dep>>
    /\ Return("watch")
    /\ UNCHANGED <<world, file, active, asked, cancelled>>

\* A container dies or its health changes, at any time; only a death has the
\* refresh repeated, and is ignored while this process deploys.
HandleDieOrHealth ==
    /\ pc["watch"] = "idle"
    /\ \E died \in BOOLEAN :
        /\ died => active["daemon"] = 0
        /\ flag' = [flag EXCEPT !["watch"] = died]
    /\ Goto("watch", "refresh")
    /\ UNCHANGED <<world, file, lock, active, configMu, listed, fresh, asked, dep, cancelled>>

-----------------------------------------------------------------------------
(* refreshServiceConfig, in the watch loop or in a delayed goroutine.      *)

\* The delay of refreshServiceConfigAfter is over.
RefreshDue ==
    /\ pc["later"] = "due"
    /\ Goto("later", "refresh")
    /\ UNCHANGED <<world, file, lock, active, configMu, flag, listed, fresh, asked, dep, cancelled>>

\* With no container listed, every service is refreshed, with the same checks;
\* nothing is written for this one.
RefreshBegin(t) ==
    /\ pc[t] = "refresh"
    /\ configMu = "free"
    /\ configMu' = t
    /\ Goto(t, "check")
    /\ UNCHANGED <<world, file, lock, active, flag, listed, fresh, asked, dep, cancelled>>

\* The refresh ends; refreshServiceConfigAfter starts a delayed one.  Bound:
\* one delayed refresh at a time stands for any number.
RefreshEnd(t, again) ==
    /\ configMu' = "free"
    /\ flag' = [flag EXCEPT ![t] = FALSE]
    /\ listed' = [listed EXCEPT ![t] = {}]
    /\ pc' = [pc EXCEPT ![t] = "idle",
                         !["later"] = IF t = "later"
                                      THEN (IF again THEN "due" ELSE "idle")
                                      ELSE (IF again /\ @ = "idle" THEN "due" ELSE @)]
    /\ UNCHANGED fresh

\* shouldSkipRefresh.
Skip(t) == active["daemon"] # 0 \/ Live(file)

RefreshCheck(t) ==
    /\ pc[t] = "check"
    /\ \/ Skip(t) /\ RefreshEnd(t, flag[t])
       \/ ~Skip(t) /\ Goto(t, "refreshLock") /\ UNCHANGED <<configMu, flag, listed, fresh>>
    /\ UNCHANGED <<world, file, lock, active, asked, dep, cancelled>>

\* Mutation: a lock that is held does not stop the refresh.
RefreshAnyway(t) ==
    /\ pc[t] = "refreshLock"
    /\ lock' = (IF lock = Free THEN <<t, 0>> ELSE lock)
    /\ Goto(t, "relist")
    /\ UNCHANGED <<world, file, active, configMu, flag, listed, fresh, asked, dep, cancelled>>

RefreshLock(t) ==
    /\ pc[t] = "refreshLock"
    /\ \/ lock = Free /\ lock' = <<t, 0>> /\ Goto(t, "relist")
          /\ UNCHANGED <<configMu, flag, listed, fresh>>
       \/ lock # Free /\ RefreshEnd(t, flag[t]) /\ UNCHANGED lock
    /\ UNCHANGED <<world, file, active, asked, dep, cancelled>>

\* The containers are listed again, now that no deployment can change them.
Relist(t) ==
    /\ pc[t] = "relist"
    /\ \/ up # {} /\ listed' = [listed EXCEPT ![t] = up] /\ Goto(t, "write")
          /\ UNCHANGED <<configMu, flag, fresh, lock>>
       \/ up = {} /\ RefreshEnd(t, flag[t]) /\ lock' = Free
    /\ UNCHANGED <<world, file, active, asked, dep, cancelled>>

\* generateServiceConfig: the groups of a deployment that the state file says
\* is under way (deploymentStateUpstream: with a weight, and at 100 without the
\* stable ones), else all of them.
Upstreams(groups) ==
    {groups} \cup
    (IF file.status = "in_progress" /\ file.stable # {} /\ file.canary # {}
     THEN {(file.stable \cup file.canary) \cap groups, file.canary \cap groups} \ {{}} ELSE {})

\* If it fails the old config or the new one is live; a failed reload is retried.
RefreshWrite(t) ==
    /\ pc[t] = "write"
    /\ \E upstream \in Upstreams(listed[t]) : proxy' \in {proxy, upstream}
    /\ \E again \in {flag[t], TRUE} : RefreshEnd(t, again)
    /\ lock' = Free
    /\ UNCHANGED <<up, rev, events, file, active, asked, dep, cancelled>>

Refresh(t) ==
    RefreshBegin(t) \/ RefreshCheck(t) \/ RefreshLock(t) \/ Relist(t) \/ RefreshWrite(t)

-----------------------------------------------------------------------------
(* The deploy goroutine.                                                   *)

At(d, where) == dep[d].pc = where
Move(d, where) == dep' = [dep EXCEPT ![d].pc = where]

\* It enters itself into the map of its process, and cancels whom it replaces.
Register(d) ==
    /\ At(d, "register")
    /\ LET p == dep[d].proc IN
       /\ cancelled' = cancelled \cup ({active[p]} \ {0})
       /\ active' = [active EXCEPT ![p] = d]
    /\ Move(d, "save")
    /\ UNCHANGED <<world, file, lock, calls, asked>>

\* The early save; an error is only logged.
EarlySave(d) ==
    /\ At(d, "save")
    /\ file' \in {file, InProgress({}, {})}
    /\ Move(d, "prepare")
    /\ UNCHANGED <<world, lock, active, calls, asked, cancelled>>

\* removeContainers and its like: what Docker fails to stop stays up, and that
\* is only logged.
Remove(S) == \E staying \in SUBSET S : up' = up \ (S \ staying)

\* Old containers that are gone are left out.  If a new one has no address,
\* all of them are removed (discardNew) and the old ones recorded.  Without a
\* provider it just ends.
Prepare(d) ==
    /\ At(d, "prepare")
    /\ \/ /\ dep[d].new \subseteq up
          /\ dep' = [dep EXCEPT ![d].pc = "record", ![d].old = @ \cap up]
          /\ UNCHANGED <<up, file>>
       \/ Move(d, "leave") /\ UNCHANGED <<up, file>>
       \/ /\ Remove(dep[d].new)
          /\ file' \in {file, Idle(dep[d].old)}
          /\ Move(d, "leave")
    /\ UNCHANGED <<rev, events, proxy, lock, active, calls, asked, cancelled>>

\* Execute: both groups are recorded, ...
Record(d) ==
    /\ At(d, "record")
    /\ d \notin cancelled
    /\ file' = InProgress(dep[d].old, dep[d].new)
    /\ Move(d, "preview")
    /\ UNCHANGED <<world, lock, active, calls, asked, cancelled>>

\* ... the new one may get a preview address, in a config that gives users the
\* old one (publishPreview), ...
Preview(d) ==
    /\ At(d, "preview")
    /\ d \notin cancelled
    /\ proxy' \in {proxy, dep[d].old}
    /\ Move(d, "shift")
    /\ UNCHANGED <<up, rev, events, file, lock, active, calls, asked, cancelled>>

\* ... both get traffic, ...
Shift(d) ==
    /\ At(d, "shift")
    /\ d \notin cancelled
    /\ proxy' = dep[d].old \cup dep[d].new
    /\ Move(d, "promote")
    /\ UNCHANGED <<up, rev, events, file, lock, active, calls, asked, cancelled>>

\* ... then the new one alone does, ...
Promote(d) ==
    /\ At(d, "promote")
    /\ d \notin cancelled
    /\ proxy' = dep[d].new
    /\ Move(d, "retire")
    /\ UNCHANGED <<up, rev, events, file, lock, active, calls, asked, cancelled>>

\* ... the old one is removed ...
Retire(d) ==
    /\ At(d, "retire")
    /\ Remove(dep[d].old)
    /\ Move(d, "finish")
    /\ UNCHANGED <<rev, events, proxy, file, lock, active, calls, asked, cancelled>>

\* ... and the service is idle again.
Finish(d) ==
    /\ At(d, "finish")
    /\ file' = Idle(dep[d].new)
    /\ Move(d, "leave")
    /\ UNCHANGED <<world, lock, active, calls, asked, cancelled>>

\* Mutation: the new containers are gone before users are sent back.
UndoAfterSwitchUnrouted(d) ==
    /\ At(d, "retire")
    /\ Move(d, "drop")
    /\ UNCHANGED <<up, rev, events, proxy, file, lock, active, calls, asked, cancelled>>

\* undoBeforeSwitch: a check failed.  A preview is withdrawn, which may fail;
\* without one the proxy is left alone.
UndoBeforeSwitch(d) ==
    /\ At(d, "shift")
    /\ proxy' \in {proxy, dep[d].old}
    /\ Move(d, "drop")
    /\ UNCHANGED <<up, rev, events, file, lock, active, calls, asked, cancelled>>

\* undoAfterSwitch is rollbackWithFailure: users return to the old containers,
\* whether any are left or not.
UndoAfterSwitch(d) ==
    /\ At(d, "retire")
    /\ d \notin cancelled
    /\ proxy' = dep[d].old
    /\ Move(d, "drop")
    /\ UNCHANGED <<up, rev, events, file, lock, active, calls, asked, cancelled>>

\* Both remove the new containers ...
DropNew(d) ==
    /\ At(d, "drop")
    /\ Remove(dep[d].new)
    /\ Move(d, "undone")
    /\ UNCHANGED <<rev, events, proxy, file, lock, active, calls, asked, cancelled>>

\* ... and record the old ones; deploy has nothing to abort then.
RecordUndone(d) ==
    /\ At(d, "undone")
    /\ file' = Idle(dep[d].old)
    /\ Move(d, "leave")
    /\ UNCHANGED <<world, lock, active, calls, asked, cancelled>>

\* What the config of the step is, if the step writes one.
Config(d) ==
    CASE At(d, "preview") -> {dep[d].old}
      [] At(d, "shift") -> {dep[d].old \cup dep[d].new}
      [] At(d, "promote") -> {dep[d].new}
      [] At(d, "retire") -> {dep[d].old}
      [] OTHER -> {}

\* Execute fails: a call does, the health monitor or CancelDeployment cancels.
\* A reload that reports an error may have been applied.
Fail(d) ==
    /\ dep[d].pc \in {"record", "preview", "shift", "promote", "retire", "finish", "undone"}
    /\ proxy' \in {proxy} \cup Config(d)
    /\ Move(d, "abort")
    /\ UNCHANGED <<up, rev, events, file, lock, active, calls, asked, cancelled>>

AbortTargets(d) ==
    (IF file.stable = {} THEN dep[d].old ELSE file.stable) \cap (dep[d].old \cup dep[d].new) \cap up

\* abortDeployment: the recorded containers that still exist serve; without any,
\* or if the proxy refuses or the wait is cut short, the abort gives up; ...
Abort(d) ==
    /\ At(d, "abort")
    /\ \/ /\ AbortTargets(d) # {}
          /\ proxy' = AbortTargets(d)
          /\ dep' = [dep EXCEPT ![d].pc = "abortRemove", ![d].old = AbortTargets(d)]
       \/ proxy' \in {proxy} \cup ({AbortTargets(d)} \ {{}}) /\ Move(d, "leave")
    /\ UNCHANGED <<up, rev, events, file, lock, active, calls, asked, cancelled>>

\* ... and the other new ones are removed.
AbortRemove(d) ==
    /\ At(d, "abortRemove")
    /\ Remove(dep[d].new \ dep[d].old)
    /\ file' \in {file, Idle(dep[d].old)}
    /\ Move(d, "leave")
    /\ UNCHANGED <<rev, events, proxy, lock, active, calls, asked, cancelled>>

\* Mutation: the lock first, out of the map last.
LeaveUnlocked(d) ==
    /\ At(d, "leave")
    /\ lock' = Free
    /\ Move(d, "unlock")
    /\ UNCHANGED <<world, file, active, calls, asked, cancelled>>

\* The deferred end: out of the map first, the lock last.
Leave(d) ==
    /\ At(d, "leave")
    /\ active' = [active EXCEPT ![dep[d].proc] = IF @ = d THEN 0 ELSE @]
    /\ Move(d, "unlock")
    /\ UNCHANGED <<world, file, lock, calls, asked, cancelled>>

\* Mutation: the lock is kept.
UnlockForgotten(d) ==
    /\ At(d, "unlock")
    /\ Move(d, "done")
    /\ UNCHANGED <<world, file, lock, active, calls, asked, cancelled>>

Unlock(d) ==
    /\ At(d, "unlock")
    /\ lock' = IF lock = <<"deploy", d>> THEN Free ELSE lock
    /\ Move(d, "done")
    /\ UNCHANGED <<world, file, active, calls, asked, cancelled>>

Deployment(d) ==
    \/ Register(d) \/ EarlySave(d) \/ Prepare(d)
    \/ Record(d) \/ Preview(d) \/ Shift(d) \/ Promote(d) \/ Retire(d) \/ Finish(d)
    \/ UndoBeforeSwitch(d) \/ UndoAfterSwitch(d) \/ DropNew(d) \/ RecordUndone(d)
    \/ Fail(d) \/ Abort(d) \/ AbortRemove(d)
    \/ Leave(d) \/ Unlock(d)

-----------------------------------------------------------------------------
(* What takes no lock: rollbacks, and a daemon that starts.                *)

\* Coordinator.Execute refuses an idle service ...
Undo(t) ==
    /\ pc[t] = "undo"
    /\ \/ /\ file.status # "idle"
          /\ file' = [file EXCEPT !.status = "rolling_back", !.stale = FALSE]
          /\ listed' = [listed EXCEPT ![t] = file.stable \cap up]
          /\ fresh' = [fresh EXCEPT ![t] = file.canary \cap up]
          /\ Goto(t, "undoRoute")
          /\ UNCHANGED <<configMu, flag>>
       \/ /\ file' = file
          /\ Return(t)
    /\ UNCHANGED <<world, lock, active, asked, dep, cancelled>>

\* ... points the proxy at the recorded stable containers, ...
UndoRoute(t) ==
    /\ pc[t] = "undoRoute"
    /\ \/ proxy' = listed[t] /\ Goto(t, "undoRemove") /\ UNCHANGED <<configMu, flag, listed, fresh>>
       \/ proxy' \in {proxy, listed[t]} /\ Return(t)
    /\ UNCHANGED <<up, rev, events, file, lock, active, asked, dep, cancelled>>

\* ... removes the others ...
UndoRemove(t) ==
    /\ pc[t] = "undoRemove"
    /\ Remove(fresh[t])
    /\ Goto(t, "undoSave")
    /\ UNCHANGED <<rev, events, proxy, file, lock, active, configMu, flag, listed, fresh,
                   asked, dep, cancelled>>

\* ... and records it.
UndoSave(t) ==
    /\ pc[t] = "undoSave"
    /\ file' \in {file, Idle(listed[t])}
    /\ Return(t)
    /\ UNCHANGED <<world, lock, active, asked, dep, cancelled>>

Rollback(t) == Undo(t) \/ UndoRoute(t) \/ UndoRemove(t) \/ UndoSave(t)

\* Watch subscribes to the events; those of before are lost.
DaemonStarts ==
    /\ pc["watch"] = "down"
    /\ events' = <<>>
    /\ Goto("watch", "boot")
    /\ UNCHANGED <<up, rev, proxy, file, lock, active, configMu, flag, listed, fresh, asked,
                   dep, cancelled>>

\* generateInitialConfigs; if it fails the process ends.
Boot ==
    /\ pc["watch"] = "boot"
    /\ \/ up = {} /\ proxy' = proxy /\ Goto("watch", "recover")
       \/ /\ up # {}
          /\ \E upstream \in Upstreams(up) :
              \/ proxy' = upstream /\ Goto("watch", "recover")
              \/ proxy' \in {proxy, upstream} /\ Goto("watch", "down")
    /\ UNCHANGED <<up, rev, events, file, lock, active, configMu, flag, listed, fresh, asked,
                   dep, cancelled>>

\* recoverService: with a new container running, Rollback, else the state is
\* reset.
Recover ==
    /\ pc["watch"] = "recover"
    /\ \/ file.status = "idle" /\ Goto("watch", "idle") /\ file' = file
       \/ /\ file.status # "idle" /\ file.canary \cap up = {}
          /\ file' \in {file, [file EXCEPT !.status = "idle", !.canary = {}, !.stale = FALSE]}
          /\ Goto("watch", "idle")
       \/ /\ file.status # "idle" /\ file.canary \cap up # {}
          /\ Goto("watch", "undo") /\ file' = file
    /\ UNCHANGED <<world, lock, active, configMu, flag, listed, fresh, asked, dep, cancelled>>

-----------------------------------------------------------------------------
(* The rest of the world.                                                  *)

\* `docker compose up' after a change adds containers of a new revision.
ComposeUp ==
    /\ Created # Group
    /\ Start(NextGroup, NextGroup)
    /\ up' = up \cup {NextGroup}
    /\ UNCHANGED <<proxy, file, lock, active, calls, asked, dep, cancelled>>

\* A container's process ends, and its restart policy starts it again.
ContainerRestarts ==
    /\ restarts < MaxRestarts
    /\ restarts' = restarts + 1
    /\ \E g \in up : events' = Append(events, g)
    /\ UNCHANGED <<up, rev, proxy, file, lock, active, calls, queue, claimed, crashes, dep,
                   cancelled>>

\* Half an hour goes by without a save.
GetStale ==
    /\ file.status # "idle" /\ ~file.stale
    /\ file' = [file EXCEPT !.stale = TRUE]
    /\ UNCHANGED <<world, lock, active, calls, asked, dep, cancelled>>

\* Mutation: whoever dies, the lock comes free.
DieUnlocked(p) ==
    LET mine == {d \in Deploy : dep[d].pc # "free" /\ dep[d].proc = p}
    IN /\ dep' = [d \in Deploy |-> IF d \in mine THEN [dep[d] EXCEPT !.pc = "done"] ELSE dep[d]]
       /\ lock' = Free
       /\ active' = [active EXCEPT ![p] = 0]

\* A process is killed: its goroutines, its map and its flock go with it.
Die(p) ==
    LET mine == {d \in Deploy : dep[d].pc # "free" /\ dep[d].proc = p}
        held == {<<"deploy", d>> : d \in mine} \cup {<<t, 0>> : t \in {t \in Thread : ProcessOf(t) = p}}
    IN /\ dep' = [d \in Deploy |-> IF d \in mine THEN [dep[d] EXCEPT !.pc = "done"] ELSE dep[d]]
       /\ lock' = IF lock \in held THEN Free ELSE lock
       /\ active' = [active EXCEPT ![p] = 0]

Busy(p) == pc[p] \notin {"idle", "exit"} \/ active[p] # 0

CommandDies(p) ==
    /\ p \in Cli /\ Busy(p)
    /\ Die(p)
    /\ Return(p)
    /\ UNCHANGED <<world, file, asked, cancelled>>

\* A command that the daemon had claimed keeps its .processing file for good.
DaemonDies ==
    /\ crashes < MaxCrashes
    /\ crashes' = crashes + 1
    /\ Die("daemon")
    /\ pc' = [pc EXCEPT !["watch"] = "down", !["later"] = "idle"]
    /\ flag' = [flag EXCEPT !["watch"] = FALSE, !["later"] = FALSE]
    /\ listed' = [listed EXCEPT !["watch"] = {}, !["later"] = {}]
    /\ fresh' = [fresh EXCEPT !["watch"] = {}]
    /\ configMu' = "free"
    /\ UNCHANGED <<world, file, queue, claimed, restarts, cancelled>>

-----------------------------------------------------------------------------

WatchLoop == Claim \/ HandleStart \/ StartLoad \/ StartLock \/ HandleDieOrHealth
Restart == DaemonStarts \/ Boot \/ Recover

Next ==
    \/ \E t \in Cli : Ask(t)
    \/ WatchLoop
    \/ Restart
    \/ \E t \in Cli \cup {"watch"} : Release(t) \/ Rollback(t)
    \/ \E t \in {"watch", "later"} : Refresh(t)
    \/ RefreshDue
    \/ \E d \in Deploy : Deployment(d)
    \/ ComposeUp \/ ContainerRestarts \/ GetStale
    \/ \E p \in Cli : CommandDies(p)
    \/ DaemonDies

Spec == Init /\ [][Next]_vars

\* Every goroutine is scheduled, and what it waits for has a timeout; a mutex
\* is handed to who waits longest, and select takes any case that is ready
\* again and again, such as the queue's ticks.
FairSpec ==
    /\ Spec
    /\ \A t \in Cli \cup {"watch"} : WF_vars(Release(t) \/ Rollback(t))
    /\ \A t \in {"watch", "later"} : WF_vars(Refresh(t))
    /\ WF_vars(StartLoad \/ StartLock)
    /\ \A d \in Deploy : WF_vars(Deployment(d))
    /\ SF_vars(RefreshBegin("watch")) /\ SF_vars(Claim)

-----------------------------------------------------------------------------
(* What the lock is for.                                                   *)

WorldTypeOK ==
    /\ up \subseteq Group /\ proxy \subseteq Group
    /\ rev \in [Group -> 0 .. MaxGroups]
    /\ events \in Seq(Group)
    /\ file \in StateFile
    /\ queue \in Seq(BOOLEAN) /\ claimed \in BOOLEAN
    /\ restarts \in 0 .. MaxRestarts /\ crashes \in 0 .. MaxCrashes

CallTypeOK ==
    /\ configMu \in {"free", "watch", "later"}
    /\ DOMAIN pc = Thread
    /\ pc["watch"] \in {"idle"} \cup BootPc \cup ReleasePc \cup StartPc \cup RefreshPc \cup UndoPc
    /\ pc["later"] \in {"idle", "due"} \cup RefreshPc
    /\ \A t \in Cli : pc[t] \in {"idle", "exit"} \cup ReleasePc \cup UndoPc
    /\ flag \in [Thread -> BOOLEAN]
    /\ listed \in [Thread -> SUBSET Group] /\ fresh \in [Thread -> SUBSET Group]

DeployTypeOK ==
    /\ lock \in Holder
    /\ active \in [Process -> {0} \cup Deploy]
    /\ dep \in [Deploy -> [pc: DeployPc, proc: Process, old: SUBSET Group, new: SUBSET Group,
                           found: SUBSET Group]]
    /\ cancelled \subseteq Deploy

\* Every variable holds a value of its type: in particular the watch loop never
\* ends, and a delayed refresh does nothing else.
TypeOK == WorldTypeOK /\ CallTypeOK /\ DeployTypeOK

Writing == {d \in Deploy : dep[d].pc \notin {"free", "unlock", "done"}}
Rewriting == {t \in Thread : pc[t] \in {"list", "scale", "relist", "write"}}

\* lock.go: "the CLI and the watch daemon ... cannot deploy the same service
\* concurrently".  A deployment, a release that lists and creates containers
\* and a refresh that lists and writes hold the service's lock until they are
\* done, though it passes from thread to goroutine and its holder may be killed.
LockGuardsService ==
    /\ \A d \in Writing : lock = <<"deploy", d>>
    /\ \A t \in Rewriting : lock = <<t, 0>>

\* deploy cancels the deployment it finds in its process's map; it finds none.
NoneReplaced == cancelled = {}

\* Nothing comes between a deployment and the proxy: what it last asked for is
\* what the proxy serves until it asks for something else.
ProxyIsTheReleases ==
    \A d \in Deploy :
        /\ At(d, "promote") => proxy = dep[d].old \cup dep[d].new
        /\ dep[d].pc \in {"retire", "finish"} => proxy = dep[d].new
        /\ At(d, "abortRemove") => proxy = dep[d].old

\* The containers a deployment takes for new had users when it started, as
\* after a release that stopped once users had moved.
TakesOver(d) == dep[d].found \cap dep[d].new # {}

\* Whatever commands, events, refreshes and deaths of commands come together,
\* requests keep going to some group whose containers run.  Only a deployment
\* can end that, one that takes containers with users for new ones, or whose
\* old containers are all gone.
OnlyTakeoverEndsService ==
    [][proxy \cap up # {} /\ proxy' \cap up' = {}
            => \E d \in Deploy : /\ dep'[d].pc # dep[d].pc
                                 /\ TakesOver(d) \/ dep[d].old = {}]_vars

\* The lock always comes free, with every queued command taken and completed.
LockIsFreed == lock # Free ~> lock = Free
QueueDrains == queue # <<>> \/ claimed ~> queue = <<>> /\ ~claimed
=============================================================================
