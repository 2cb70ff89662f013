------------------------------ MODULE Release ------------------------------
(***************************************************************************)
(* What the three release strategies share: one deployment of one service, *)
(* from the moment Controller.deploy holds the deploy lock and the lists   *)
(* of old and new containers to the moment it returns.  It is the world    *)
(* the strategy acts on (Docker, the proxy, the state file), the prologue  *)
(* and the abort of controller/deploy.go and the helpers of                *)
(* strategy/shared.go.  Linear, Canary and BlueGreen EXTEND it.            *)
(*                                                                         *)
(* Abstractions:                                                           *)
(*  - a container is a number: 1..NOld are d.Old in order, NOld + 1 .. are *)
(*    the new ones; all of d.Old has an address the proxy can reach;       *)
(*  - every container has a Docker health check, as the README asks for;    *)
(*  - `unready' stands for every running container Docker does not call    *)
(*    healthy (starting or unhealthy);                                     *)
(*  - a server marked Down gets no request, so it is left out of `on';     *)
(*  - Stop and Remove of a list of containers are one step, whose outcome  *)
(*    per container is any that the calls, failing or cancelled at any     *)
(*    point, can leave;                                                    *)
(*  - the health monitor, the cancel API and a stopping daemon all act by  *)
(*    cancelling the deployment's context: they are the one action Cancel. *)
(***************************************************************************)
EXTENDS Integers, FiniteSets

CONSTANTS
    NOld,       \* number of old containers, len(d.Old)
    NNew,       \* bound on the number of new containers
    Faults      \* the kinds of failure that may happen

FaultKinds ==
    { "apply",    \* GenerateConfig or Reload returns an error
      "save",     \* writing the state file returns an error
      "remove",   \* Stop or Remove of a container returns an error
      "inspect",  \* an Inspect call of the abort returns an error
      "health",   \* a container does not become or does not stay healthy
      "exit",     \* a container's process exits
      "cancel",   \* the deployment's context is cancelled
      "timeout",  \* the abort's own context expires
      "prepare",  \* no provider, or no address for a new container
      "log",      \* the access log cannot be subscribed to, or its stream ends
      "vanish" }  \* listing the new containers again gives fewer than before: the
                  \* call fails (as it does once the context is cancelled), or
                  \* some of them do not run any more

ASSUME CountAssumption == NOld \in Nat \ {0} /\ NNew \in Nat \ {0}
ASSUME FaultAssumption == Faults \subseteq FaultKinds

VARIABLES
    docker,     \* container -> its status in Docker
    live,       \* the upstream the proxy serves
    file,       \* the service's state file
    nnew,       \* len(newContainers): the new ones this deployment knows
    pc,         \* where the deploy goroutine is
    step,       \* the strategy's loop counter
    cancelled,  \* is the deployment's context cancelled?
    passed,     \* history: the new containers that were healthy when
                \* WaitHealthy returned nil for them
    kept,       \* history: the containers whose removal failed
    targets     \* abortTargets: where the abort sends the traffic

vars == <<docker, live, file, nnew, pc, step, cancelled, passed, kept, targets>>

MayFail(kind) == kind \in Faults

-----------------------------------------------------------------------------
(* Containers, upstreams and state files.                                  *)

OldAt(i) == i
NewAt(j) == NOld + j
OldSet == 1 .. NOld
NewSet == (NOld + 1) .. (NOld + NNew)
Container == 1 .. (NOld + NNew)

\* d.New: the new containers of this deployment.
Fresh == (NOld + 1) .. (NOld + nnew)

\* An exited container may be started again by its restart policy, one that
\* was stopped is not.
Status == {"unready", "healthy", "exited", "stopped", "absent"}
Present == {c \in Container : docker[c] # "absent"}

\* Docker lists, and Docker has an address for, the running containers only.
Listed == {c \in Container : docker[c] \in {"unready", "healthy"}}

\* What the proxy is told: the servers that get requests, the ones that get
\* them only when all others fail, the ones on the preview host, and the weight
\* of each new server; each old one has the rest of 100 (0: no server has one).
Upstream == [on : SUBSET Container, backup : SUBSET Container,
             preview : SUBSET Container, weight : 0 .. 100]
Plain(S) == [on |-> S, backup |-> {}, preview |-> {}, weight |-> 0]
Reachable == live.on \cup live.backup

\* In what proportion the proxies share the requests between the old servers
\* and the new ones.  nginx, HAProxy and, without affinity, Caddy give each
\* server its weight, and one without a weight counts as 1; Traefik gives the
\* weight to the group as a whole, and leaves out a group of weight 0.
OldLoad(u, byGroup) ==
    IF byGroup /\ u.weight > 0 /\ u.on \cap OldSet # {} THEN 100 - u.weight
    ELSE Cardinality(u.on \cap OldSet) * (IF u.weight \in {0, 100} THEN 1 ELSE 100 - u.weight)
NewLoad(u, byGroup) ==
    IF byGroup /\ u.weight > 0 /\ u.on \cap NewSet # {} THEN u.weight
    ELSE Cardinality(u.on \cap NewSet) * (IF u.weight = 0 THEN 1 ELSE u.weight)

StateFile == [status : {"idle", "in_progress", "rolling_back"}, stable : SUBSET Container,
              canary : SUBSET Container, weight : 0 .. 100,
              token : BOOLEAN, failure : BOOLEAN]
Idle(stable) == [status |-> "idle", stable |-> stable, canary |-> {},
                 weight |-> 0, token |-> FALSE, failure |-> FALSE]
InProgress(stable, canary) == [Idle(stable) EXCEPT !.status = "in_progress",
                                                   !.canary = canary]

\* deploymentStateUpstream: what the daemon tells the proxy of an interrupted
\* deployment with both sets recorded, when it starts and when it refreshes a
\* config; a weight that is not recorded is the strategy's first.
StateWeight(first) == IF file.weight > 0 THEN file.weight ELSE first

StateServers(first) ==
    ((IF StateWeight(first) < 100 THEN file.stable ELSE {}) \cup file.canary) \cap Listed

StateUpstream(first) == [Plain(StateServers(first)) EXCEPT !.weight = StateWeight(first)]

FollowsState(first) ==
    /\ file.status = "in_progress"
    /\ file.stable # {} /\ file.canary # {}
    /\ StateWeight(first) \in 1 .. 100
    /\ StateServers(first) # {}

-----------------------------------------------------------------------------
(* The calls a deployment makes.                                           *)

\* GenerateConfig then Reload.  An error may come before or after the proxy
\* took the new config, whatever the provider then restores on disk.
Apply(u, next, failed) ==
    \/ live' = u /\ pc' = next
    \/ /\ MayFail("apply") \/ cancelled
       /\ live' \in {live, u}
       /\ pc' = failed

\* Manager.Save replaces the file as a whole or leaves it alone.
Save(f, next, failed) ==
    \/ file' = f /\ pc' = next
    \/ MayFail("save") /\ file' = file /\ pc' = failed

\* removeContainers: Stop and Remove each of S, whose errors are only logged.
\* With a cancelled context neither call reaches Docker; one that is cancelled
\* half way is a failure followed by Cancel.
RemoveContainers(S, interrupted) ==
    \E removed \in SUBSET S : \E stopped \in SUBSET (S \ removed) :
        /\ interrupted => removed = {} /\ stopped = {}
        /\ removed = S \/ interrupted \/ MayFail("remove")
        /\ docker' = [c \in Container |->
                        IF c \in removed THEN "absent"
                        ELSE IF c \in stopped /\ docker[c] # "absent"
                             THEN "stopped" ELSE docker[c]]
        /\ kept' = kept \cup (S \ removed)

\* History: what Docker says of c at the moment WaitHealthy(c) returns nil.
Observed(c) == passed' = passed \cup {d \in {c} : docker[d] = "healthy"}

\* Mutation: any running container will do.
WaitHealthyUnchecked(c) ==
    /\ ~cancelled
    /\ docker[c] \in {"unready", "healthy"}
    /\ Observed(c)

\* WaitHealthy(c) returns nil: the container is healthy, the context alive.
WaitHealthy(c) ==
    /\ ~cancelled
    /\ docker[c] = "healthy"
    /\ Observed(c)

\* Mutation: the health timeout is missing.
WaitFailsNever == cancelled

\* WaitHealthy returns an error: timeout, failed inspection or cancelled.
WaitFails == cancelled \/ MayFail("health")

\* A select on a timer and the context: if both are due either may win.
Elapsed(next, interrupted) ==
    \/ pc' = next
    \/ cancelled /\ pc' = interrupted

-----------------------------------------------------------------------------
(* The prologue of deploy, common to every strategy.                       *)

\* The lists come from Docker after compose created the new containers, and
\* the state file is missing (which loads as idle) or a finished release's.
Init ==
    /\ docker = [c \in Container |-> IF c \in OldSet THEN "healthy" ELSE "unready"]
    /\ live = Plain(OldSet)
    /\ file \in {Idle({}), Idle(OldSet)}
    /\ nnew \in 1 .. NNew
    /\ pc = "start"
    /\ step = 1
    /\ cancelled = FALSE
    /\ passed = {}
    /\ kept = {}
    /\ targets = {}

\* The early save claims the service; its error is only logged.
EarlySave ==
    /\ pc = "start"
    /\ Save(InProgress({}, {}), "gather", "gather")
    /\ UNCHANGED <<docker, live, nnew, step, cancelled, passed, kept, targets>>

\* waitForContainers lists the new revision again, if it has fewer containers
\* than the old one; after 30 s, or when cancelled, it takes what the last
\* listing gave, which is nothing if the call failed.
Gather ==
    /\ pc = "gather"
    /\ IF nnew < NOld
       THEN nnew' \in (IF MayFail("vanish") THEN 0 ELSE nnew) .. NNew
       ELSE nnew' = nnew
    /\ pc' = "prepare"
    /\ UNCHANGED <<docker, live, file, step, cancelled, passed, kept, targets>>

\* Without a provider deploy returns; new containers that the proxy cannot
\* reach are discarded; otherwise the strategy executes.
Prepare ==
    /\ pc = "prepare"
    /\ \/ pc' = "execute"
       \/ MayFail("prepare") /\ pc' \in {"failed", "discard"}
       \/ cancelled /\ pc' = "discard"
    /\ UNCHANGED <<docker, live, file, nnew, step, cancelled, passed, kept, targets>>

\* discardNew removes the new containers with the cancellable context ...
DiscardNew ==
    /\ pc = "discard"
    /\ RemoveContainers(Fresh, cancelled)
    /\ pc' = "discardSave"
    /\ UNCHANGED <<live, file, nnew, step, cancelled, passed, targets>>

\* ... and records the old ones; an error is only logged.
DiscardSave ==
    /\ pc = "discardSave"
    /\ Save(Idle(OldSet), "discarded", "failed")
    /\ UNCHANGED <<docker, live, nnew, step, cancelled, passed, kept, targets>>

-----------------------------------------------------------------------------
(* Phases that the canary and blue-green strategies share.                 *)

\* Mutation: the new containers are not recorded.
SaveInitialStable ==
    /\ pc = "execute"
    /\ Save(InProgress(OldSet, {}), "healthy", "abort")
    /\ step' = 1
    /\ UNCHANGED <<docker, live, nnew, cancelled, passed, kept, targets>>

\* Both begin by recording the old containers as stable, the new as canary.
SaveInitialBoth ==
    /\ pc = "execute"
    /\ Save(InProgress(OldSet, Fresh), "healthy", "abort")
    /\ step' = 1
    /\ UNCHANGED <<docker, live, nnew, cancelled, passed, kept, targets>>

\* waitAllHealthy: every new container in turn, before any traffic moves;
\* then the loop counter is set for what follows.
WaitAllHealthy(next, counter) ==
    /\ pc = "healthy"
    /\ \/ /\ step <= nnew
          /\ \/ WaitHealthy(NewAt(step)) /\ pc' = pc /\ step' = step + 1
             \/ WaitFails /\ pc' = "abort" /\ UNCHANGED <<passed, step>>
       \/ step > nnew /\ pc' = next /\ step' = counter /\ passed' = passed
    /\ UNCHANGED <<docker, live, file, nnew, cancelled, kept, targets>>

\* promoteAndDrain: all traffic to the new containers, the old ones as backup;
Promote ==
    /\ pc = "promote"
    /\ Apply([Plain(Fresh) EXCEPT !.backup = OldSet], "drainOld", "abort")
    /\ UNCHANGED <<docker, file, nnew, step, cancelled, passed, kept, targets>>

\* Mutation: the config without the backups is left out.
DrainOldKeepsBackup ==
    /\ pc = "drainOld"
    /\ Elapsed("removeOld", "abort")
    /\ UNCHANGED <<docker, live, file, nnew, step, cancelled, passed, kept, targets>>

\* the drain timeout;
DrainOld ==
    /\ pc = "drainOld"
    /\ Elapsed("routeNew", "abort")
    /\ UNCHANGED <<docker, live, file, nnew, step, cancelled, passed, kept, targets>>

\* the new containers alone;
RouteNew ==
    /\ pc = "routeNew"
    /\ Apply(Plain(Fresh), "removeOld", "abort")
    /\ UNCHANGED <<docker, file, nnew, step, cancelled, passed, kept, targets>>

\* Mutation: the old containers go before they are drained.
RemoveOldUndrained ==
    /\ pc = "drainOld"
    /\ RemoveContainers(OldSet, cancelled)
    /\ pc' = "routeNew"
    /\ UNCHANGED <<live, file, nnew, step, cancelled, passed, targets>>

\* and the old ones are removed.
RemoveOld ==
    /\ pc = "removeOld"
    /\ RemoveContainers(OldSet, cancelled)
    /\ pc' = "finish"
    /\ UNCHANGED <<live, file, nnew, step, cancelled, passed, targets>>

\* The final state: the new containers are the stable ones.
FinishBoth ==
    /\ pc = "finish"
    /\ Save([Idle(Fresh) EXCEPT !.weight = 100], "done", "abort")
    /\ UNCHANGED <<docker, live, nnew, step, cancelled, passed, kept, targets>>

PromoteAndDrain == Promote \/ DrainOld \/ RouteNew \/ RemoveOld

-----------------------------------------------------------------------------
(* abortDeployment, run after Execute returned an error, with a context of *)
(* its own.                                                                *)

\* Mutation: a recorded container is taken to exist.
AbortCandidatesUnchecked ==
    (IF file.stable = {} THEN OldSet ELSE file.stable) \cap (OldSet \cup Fresh)

\* abortTargets: the recorded stable containers, or d.Old if none is
\* recorded, that this deployment knows and that Inspect finds.
AbortCandidates ==
    (IF file.stable = {} THEN OldSet ELSE file.stable)
        \cap (OldSet \cup Fresh) \cap Present

\* The traffic goes to the targets; without any, or if the proxy refuses,
\* the abort gives up and the file stays as it is.
AbortRoute ==
    /\ pc = "abort"
    /\ IF MayFail("inspect") THEN targets' \in SUBSET AbortCandidates
                             ELSE targets' = AbortCandidates
    /\ IF targets' = {}
       THEN pc' = "failed" /\ live' = live
       ELSE \/ live' = Plain(targets') /\ pc' = "abortDrain"
            \/ /\ MayFail("apply")
               /\ live' \in {live, Plain(targets')}
               /\ pc' = "failed"
    /\ UNCHANGED <<docker, file, nnew, step, cancelled, passed, kept>>

AbortDrain ==
    /\ pc = "abortDrain"
    /\ \/ pc' = "abortRemove"
       \/ MayFail("timeout") /\ pc' = "failed"
    /\ UNCHANGED <<docker, live, file, nnew, step, cancelled, passed, kept, targets>>

\* The new containers that are not targets are removed.
AbortRemove ==
    /\ pc = "abortRemove"
    /\ RemoveContainers(Fresh \ targets, FALSE)
    /\ pc' = "abortSave"
    /\ UNCHANGED <<live, file, nnew, step, cancelled, passed, targets>>

AbortSave ==
    /\ pc = "abortSave"
    /\ Save(Idle(targets), "aborted", "failed")
    /\ UNCHANGED <<docker, live, nnew, step, cancelled, passed, kept, targets>>

-----------------------------------------------------------------------------
(* Everything else that happens while a deployment runs.                   *)

Terminal == {"done", "undone", "aborted", "discarded", "failed"}
Running == pc \notin Terminal

\* The health check of a running container passes ...
HealthCheck(c) ==
    /\ Running
    /\ docker[c] = "unready"
    /\ docker' = [docker EXCEPT ![c] = "healthy"]
    /\ UNCHANGED <<live, file, nnew, pc, step, cancelled, passed, kept, targets>>

\* ... or fails after it passed, ...
Sicken(c) ==
    /\ MayFail("health")
    /\ docker[c] = "healthy"
    /\ docker' = [docker EXCEPT ![c] = "unready"]

\* ... the process ends, ...
Exit(c) ==
    /\ MayFail("exit")
    /\ docker[c] \in {"unready", "healthy"}
    /\ docker' = [docker EXCEPT ![c] = "exited"]

\* ... and the restart policy starts it again.
Restart(c) ==
    /\ docker[c] = "exited"
    /\ docker' = [docker EXCEPT ![c] = "unready"]

Misbehave ==
    /\ Running
    /\ \E c \in Container : Sicken(c) \/ Exit(c) \/ Restart(c)
    /\ UNCHANGED <<live, file, nnew, pc, step, cancelled, passed, kept, targets>>

\* The cancel API, the health monitor or the stopping daemon.
Cancel ==
    /\ MayFail("cancel")
    /\ Running
    /\ ~cancelled
    /\ cancelled' = TRUE
    /\ UNCHANGED <<docker, live, file, nnew, pc, step, passed, kept, targets>>

\* A deployment that returned does nothing more.
Ended ==
    /\ pc \in Terminal
    /\ UNCHANGED vars

DeployStep ==
    \/ EarlySave \/ Gather \/ Prepare \/ DiscardNew \/ DiscardSave
    \/ AbortRoute \/ AbortDrain \/ AbortRemove \/ AbortSave

Environment ==
    \/ \E c \in Container : HealthCheck(c)
    \/ Misbehave
    \/ Cancel
    \/ Ended

-----------------------------------------------------------------------------
(* What every strategy must get right.                                     *)

\* The types of the variables, but for the labels and counters of a strategy.
WorldTypeOK ==
    /\ docker \in [Container -> Status]
    /\ live \in Upstream
    /\ file \in StateFile
    /\ nnew \in 0 .. NNew
    /\ cancelled \in BOOLEAN
    /\ passed \in SUBSET NewSet
    /\ kept \in SUBSET Container
    /\ targets \in SUBSET Container

ProloguePc == {"start", "gather", "prepare", "discard", "discardSave"}
AbortPc == {"abort", "abortDrain", "abortRemove", "abortSave"}

R == INSTANCE Rollout WITH
        Containers <- Container, Serving <- OldSet, routed <- Reachable,
        ready <- OldSet \cup passed, gone <- Container \ Present

\* Zero downtime: whatever fails on the way, requests always go to some
\* container, only to ones that are still there and, if new, passed their
\* health check; no container is removed before the traffic left it.
ImplementsRollout == R!RolloutSpec

\* The part of it that holds of every state.
Routed ==
    /\ Reachable # {}
    /\ Reachable \subseteq Present
    /\ Reachable \cap NewSet \subseteq passed

\* An aborted release ends on containers that exist and are the recorded
\* ones, and what is left of its own containers is what Docker refused to
\* remove.
AbortKeepsServing ==
    pc = "aborted" => /\ live.on # {} /\ live.on \subseteq Present
                      /\ file = Idle(live.on)
                      /\ (Fresh \ live.on) \cap Present \subseteq kept

\* Zero downtime as the README has it ("Zero-downtime deploys for Docker
\* Compose"): some container gets the requests, a backup if there is no other.
AlwaysServing == Reachable # {}

\* Every deployment returns, which is what releases the deploy lock.
Terminates == <>(pc \in Terminal)

=============================================================================
