---------------------------- MODULE ReleaseProofs --------------------------
(***************************************************************************)
(* Facts about Release that the proofs of every strategy use: the types of *)
(* what a deployment writes, what each call it makes may change, and that  *)
(* the steps all strategies share keep the types.                          *)
(***************************************************************************)
EXTENDS Release, TLAPS

-----------------------------------------------------------------------------
(* Facts about the operators.                                              *)

\* The ids are numbers, the old ones before the new ones.
LEMMA Ids ==
    ASSUME nnew \in 0 .. NNew
    PROVE  /\ OldSet \subseteq Container /\ NewSet \subseteq Container
           /\ OldSet \cap NewSet = {}
           /\ Fresh \subseteq NewSet
           /\ OldSet # {}
           /\ NOld \in Nat /\ NNew \in Nat /\ NOld >= 1 /\ NNew >= 1
    BY CountAssumption DEF OldSet, NewSet, Container, Fresh

\* The upstreams and state files the deployment writes have the right type.
LEMMA PlainType ==
    ASSUME NEW S \in SUBSET Container
    PROVE  Plain(S) \in Upstream
    BY DEF Plain, Upstream

LEMMA IdleType ==
    ASSUME NEW S \in SUBSET Container
    PROVE  Idle(S) \in StateFile
    BY DEF Idle, StateFile

LEMMA InProgressType ==
    ASSUME NEW S \in SUBSET Container, NEW T \in SUBSET Container
    PROVE  InProgress(S, T) \in StateFile
  <1>1. InProgress(S, T) = [Idle(S) EXCEPT !.status = "in_progress", !.canary = T]
    BY DEF InProgress
  <1>2. Idle(S) \in StateFile
    BY IdleType
  <1>3. QED
    BY <1>1, <1>2 DEF StateFile

LEMMA StableType ==
    ASSUME NEW f \in StateFile, NEW S \in SUBSET Container
    PROVE  [f EXCEPT !.stable = S] \in StateFile
    BY DEF StateFile

\* Removing S touches no other container, and makes none appear.
LEMMA RemoveEffect ==
    ASSUME NEW S \in SUBSET Container, NEW interrupted \in BOOLEAN,
           docker \in [Container -> Status], kept \in SUBSET Container,
           RemoveContainers(S, interrupted)
    PROVE  /\ docker' \in [Container -> Status]
           /\ kept' \in SUBSET Container
           /\ Present' \subseteq Present
           /\ Present \ S \subseteq Present'
  <1>1. PICK removed \in SUBSET S, stopped \in SUBSET S :
            /\ docker' = [c \in Container |->
                            IF c \in removed THEN "absent"
                            ELSE IF c \in stopped /\ docker[c] # "absent"
                                 THEN "stopped" ELSE docker[c]]
            /\ kept' = kept \cup (S \ removed)
    BY DEF RemoveContainers
  <1>2. docker' \in [Container -> Status]
    BY <1>1 DEF Status
  <1>3. kept' \in SUBSET Container
    BY <1>1
  <1>4. Present' \subseteq Present
    BY <1>1 DEF Present
  <1>5. Present \ S \subseteq Present'
    BY <1>1 DEF Present
  <1>6. QED
    BY <1>2, <1>3, <1>4, <1>5

\* The proxy serves the upstream it served or the new one.
LEMMA ApplyType ==
    ASSUME NEW u \in Upstream, NEW next, NEW failed,
           live \in Upstream, Apply(u, next, failed)
    PROVE  live' \in Upstream /\ pc' \in {next, failed}
    BY DEF Apply

\* The state file is the one it was or the new one.
LEMMA SaveType ==
    ASSUME NEW f \in StateFile, NEW next, NEW failed,
           file \in StateFile, Save(f, next, failed)
    PROVE  file' \in StateFile /\ pc' \in {next, failed}
    BY DEF Save

\* Only a new container is ever counted as having passed its health check.
LEMMA WaitHealthyType ==
    ASSUME nnew \in 0 .. NNew, NEW i \in 1 .. nnew,
           passed \in SUBSET NewSet, WaitHealthy(NewAt(i))
    PROVE  /\ passed' \in SUBSET NewSet
           /\ NewAt(i) \in passed'
           /\ passed \subseteq passed'
           /\ docker[NewAt(i)] = "healthy"
  <1>1. NewAt(i) \in NewSet
    BY CountAssumption DEF NewAt, NewSet
  <1>2. docker[NewAt(i)] = "healthy" /\ passed' = passed \cup {NewAt(i)}
    BY DEF WaitHealthy, Observed
  <1>3. QED
    BY <1>1, <1>2

-----------------------------------------------------------------------------
(* The steps that all strategies share.                                    *)

\* The prologue and the abort keep the types, touch no loop counter and end
\* in the prologue, the abort or the strategy.
LEMMA DeployStepType ==
    ASSUME WorldTypeOK, DeployStep
    PROVE  /\ WorldTypeOK'
           /\ step' = step
           /\ pc' \in ProloguePc \cup AbortPc \cup Terminal \cup {"execute"}
  <1> USE DEF WorldTypeOK
  <1>1. CASE EarlySave
    <2>1. InProgress({}, {}) \in StateFile
      BY InProgressType
    <2>2. file' \in StateFile /\ pc' = "gather"
      BY <1>1, <2>1, SaveType DEF EarlySave
    <2>3. QED
      BY <1>1, <2>2 DEF EarlySave, ProloguePc
  <1>2. CASE Gather
    <2>1. nnew' \in 0 .. NNew
      BY <1>2, CountAssumption DEF Gather
    <2>2. QED
      BY <1>2, <2>1 DEF Gather, ProloguePc
  <1>3. CASE Prepare
    BY <1>3 DEF Prepare, ProloguePc, Terminal
  <1>4. CASE DiscardNew
    <2>1. Fresh \subseteq Container
      BY Ids
    <2>2. docker' \in [Container -> Status] /\ kept' \in SUBSET Container
      BY <1>4, <2>1, RemoveEffect DEF DiscardNew
    <2>3. QED
      BY <1>4, <2>2 DEF DiscardNew, ProloguePc
  <1>5. CASE DiscardSave
    <2>1. Idle(OldSet) \in StateFile
      BY Ids, IdleType
    <2>2. file' \in StateFile /\ pc' \in {"discarded", "failed"}
      BY <1>5, <2>1, SaveType DEF DiscardSave
    <2>3. QED
      BY <1>5, <2>2 DEF DiscardSave, Terminal
  <1>6. CASE AbortRoute
    <2>1. AbortCandidates \in SUBSET Container
      BY DEF AbortCandidates, Present
    <2>2. targets' \in SUBSET Container
      BY <1>6, <2>1 DEF AbortRoute
    <2>3. Plain(targets') \in Upstream
      BY <2>2, PlainType
    <2>4. live' \in Upstream /\ pc' \in {"failed", "abortDrain"}
      BY <1>6, <2>3 DEF AbortRoute
    <2>5. QED
      BY <1>6, <2>2, <2>4 DEF AbortRoute, AbortPc, Terminal
  <1>7. CASE AbortDrain
    BY <1>7 DEF AbortDrain, AbortPc, Terminal
  <1>8. CASE AbortRemove
    <2>1. Fresh \ targets \in SUBSET Container
      BY Ids
    <2>2. docker' \in [Container -> Status] /\ kept' \in SUBSET Container
      BY <1>8, <2>1, RemoveEffect DEF AbortRemove
    <2>3. QED
      BY <1>8, <2>2 DEF AbortRemove, AbortPc
  <1>9. CASE AbortSave
    <2>1. Idle(targets) \in StateFile
      BY IdleType
    <2>2. file' \in StateFile /\ pc' \in {"aborted", "failed"}
      BY <1>9, <2>1, SaveType DEF AbortSave
    <2>3. QED
      BY <1>9, <2>2 DEF AbortSave, Terminal
  <1>10. QED
    BY <1>1, <1>2, <1>3, <1>4, <1>5, <1>6, <1>7, <1>8, <1>9 DEF DeployStep

\* What happens around a deployment keeps the types and is none of its steps.
LEMMA EnvironmentType ==
    ASSUME WorldTypeOK, Environment
    PROVE  /\ WorldTypeOK'
           /\ UNCHANGED <<live, file, nnew, pc, step, passed, kept, targets>>
           /\ Present' = Present
  <1> USE DEF WorldTypeOK
  <1>1. CASE \E c \in Container : HealthCheck(c)
    <2>1. PICK c \in Container : HealthCheck(c)
      BY <1>1
    <2>2. docker' \in [Container -> Status]
      BY <2>1 DEF HealthCheck, Status
    <2>3. Present' = Present
      BY <2>1 DEF HealthCheck, Present
    <2>4. QED
      BY <2>1, <2>2, <2>3 DEF HealthCheck
  <1>2. CASE Misbehave
    <2>1. PICK c \in Container : Sicken(c) \/ Exit(c) \/ Restart(c)
      BY <1>2 DEF Misbehave
    <2>2. docker' \in [Container -> Status]
      BY <2>1 DEF Sicken, Exit, Restart, Status
    <2>3. Present' = Present
      BY <2>1 DEF Sicken, Exit, Restart, Present
    <2>4. QED
      BY <1>2, <2>2, <2>3 DEF Misbehave
  <1>3. CASE Cancel
    BY <1>3, Zenon DEF Cancel, Present
  <1>4. CASE Ended
    BY <1>4, Zenon DEF Ended, vars, Present
  <1>5. QED
    BY <1>1, <1>2, <1>3, <1>4 DEF Environment

-----------------------------------------------------------------------------
(* Why a strategy implements Rollout.                                      *)

\* The start of a deployment is a start of Rollout.
LEMMA MapInit == Init => R!RolloutInit
  <1> SUFFICES ASSUME Init PROVE R!RolloutInit
    OBVIOUS
  <1>1. Reachable = OldSet
    BY DEF Init, Plain, Reachable
  <1>2. Present = Container
    BY DEF Init, Present
  <1>3. passed = {}
    BY DEF Init
  <1>4. QED
    BY <1>1, <1>2, <1>3 DEF R!RolloutInit

\* A step that leaves Docker and the health history alone, and after which
\* the proxy serves existing containers that passed, is a Route of Rollout.
LEMMA RouteMaps ==
    ASSUME Routed', docker' = docker, passed' = passed
    PROVE  R!Route(Reachable')
  <1>1. Present' = Present
    BY DEF Present
  <1>2. Present \subseteq Container
    BY DEF Present
  <1>3. Reachable' \subseteq OldSet \cup NewSet
    BY <1>1, <1>2, CountAssumption DEF Routed, Container, OldSet, NewSet
  <1>4. Reachable' \subseteq (OldSet \cup passed) \ (Container \ Present)
    BY <1>1, <1>3 DEF Routed
  <1>5. QED
    BY <1>1, <1>4 DEF Routed, R!Route

\* A step that only takes containers away is a Retire.
LEMMA RetireMaps ==
    ASSUME Routed', live' = live, passed' = passed, Present' \subseteq Present
    PROVE  R!Retire(Present \ Present')
  <1>1. Reachable' = Reachable
    BY DEF Reachable
  <1>2. Present \subseteq Container
    BY DEF Present
  <1>3. QED
    BY <1>1, <1>2 DEF Routed, R!Retire

\* A step that only sees a container healthy is a BecomeReady.
LEMMA ReadyMaps ==
    ASSUME NEW c \in Container, live' = live, docker' = docker,
           passed' \in {passed, passed \cup {c}}
    PROVE  R!BecomeReady(c) \/ UNCHANGED R!rolloutVars
  <1>1. Reachable' = Reachable /\ Present' = Present
    BY DEF Reachable, Present
  <1>2. QED
    BY <1>1 DEF R!BecomeReady, R!rolloutVars

\* The three are all there is to a step of Rollout.
LEMMA StepMaps ==
    ASSUME Routed', WorldTypeOK,
           \/ docker' = docker /\ passed' = passed
           \/ live' = live /\ passed' = passed /\ Present' \subseteq Present
           \/ /\ live' = live /\ docker' = docker
              /\ \E c \in Container : passed' \in {passed, passed \cup {c}}
    PROVE  [R!RolloutNext]_R!rolloutVars
  <1>1. CASE docker' = docker /\ passed' = passed
    <2>1. R!Route(Reachable')
      BY <1>1, RouteMaps
    <2>2. Reachable' \in SUBSET Container
      BY <1>1 DEF Routed, Present
    <2>3. QED
      BY <2>1, <2>2 DEF R!RolloutNext
  <1>2. CASE live' = live /\ passed' = passed /\ Present' \subseteq Present
    <2>1. R!Retire(Present \ Present')
      BY <1>2, RetireMaps
    <2>2. Present \ Present' \in SUBSET Container
      BY DEF Present
    <2>3. QED
      BY <2>1, <2>2 DEF R!RolloutNext
  <1>3. CASE /\ live' = live /\ docker' = docker
             /\ \E c \in Container : passed' \in {passed, passed \cup {c}}
    BY <1>3, ReadyMaps DEF R!RolloutNext
  <1>4. QED
    BY <1>1, <1>2, <1>3

\* Every step of the prologue and of the abort is one of the three.
LEMMA DeployStepKind ==
    ASSUME WorldTypeOK, DeployStep
    PROVE  \/ docker' = docker /\ passed' = passed
           \/ live' = live /\ passed' = passed /\ Present' \subseteq Present
  <1>1. docker \in [Container -> Status] /\ kept \in SUBSET Container
    BY DEF WorldTypeOK
  <1>2. CASE DiscardNew
    BY <1>1, <1>2, Ids, RemoveEffect DEF DiscardNew, WorldTypeOK
  <1>3. CASE AbortRemove
    BY <1>1, <1>3, Ids, RemoveEffect DEF AbortRemove, WorldTypeOK
  <1>4. QED
    BY <1>2, <1>3
    DEF DeployStep, EarlySave, Gather, Prepare, DiscardSave,
        AbortRoute, AbortDrain, AbortSave

-----------------------------------------------------------------------------
(* What an abort leaves, for any strategy.                                 *)

\* Once it has routed, the proxy serves its targets and it removes none of
\* them; what it fails to remove is noted; it ends when the file says so.
AbortInv ==
    /\ pc \in {"abortDrain", "abortRemove", "abortSave", "aborted"} =>
         live = Plain(targets) /\ targets # {} /\ targets \subseteq Present
    /\ pc \in {"abortSave", "aborted"} => (Fresh \ targets) \cap Present \subseteq kept
    /\ pc = "aborted" => file = Idle(targets)

LEMMA AbortServes == AbortInv => AbortKeepsServing
    BY DEF AbortInv, AbortKeepsServing, Plain

\* What a removal does not remove it notes.
LEMMA RemoveKept ==
    ASSUME NEW S \in SUBSET Container, NEW interrupted \in BOOLEAN,
           RemoveContainers(S, interrupted)
    PROVE  S \cap Present' \subseteq kept'
  <1>1. PICK removed \in SUBSET S, stopped \in SUBSET S :
            /\ docker' = [c \in Container |->
                            IF c \in removed THEN "absent"
                            ELSE IF c \in stopped /\ docker[c] # "absent"
                                 THEN "stopped" ELSE docker[c]]
            /\ kept' = kept \cup (S \ removed)
    BY DEF RemoveContainers
  <1>2. removed \cap Present' = {}
    BY <1>1 DEF Present
  <1>3. QED
    BY <1>1, <1>2

\* The steps of the prologue and of the abort keep it.
LEMMA AbortInvDeployStep ==
    ASSUME WorldTypeOK, AbortInv, DeployStep
    PROVE  AbortInv'
  <1>1. CASE EarlySave \/ Gather \/ Prepare \/ DiscardNew \/ DiscardSave
    <2>1. pc' \notin {"abortDrain", "abortRemove", "abortSave", "aborted"}
      BY <1>1 DEF EarlySave, Gather, Prepare, DiscardNew, DiscardSave, Save
    <2>2. QED
      BY <2>1 DEF AbortInv
  <1>2. CASE AbortRoute
    <2>1. docker' = docker /\ pc' \in {"failed", "abortDrain"}
      BY <1>2 DEF AbortRoute
    <2>2. targets' \subseteq AbortCandidates
      BY <1>2 DEF AbortRoute
    <2>3. targets' \subseteq Present'
      BY <2>1, <2>2 DEF AbortCandidates, Present
    <2>4. pc' = "abortDrain" => live' = Plain(targets') /\ targets' # {}
      BY <1>2 DEF AbortRoute
    <2>5. QED
      BY <2>1, <2>3, <2>4 DEF AbortInv, Plain
  <1>3. CASE AbortDrain
    <2>1. /\ UNCHANGED <<docker, live, targets>>
          /\ pc = "abortDrain" /\ pc' \in {"abortRemove", "failed"}
      BY <1>3 DEF AbortDrain
    <2>2. QED
      BY <2>1 DEF AbortInv, Present, Plain
  <1>4. CASE AbortRemove
    <2>1. /\ UNCHANGED <<live, file, nnew, targets>>
          /\ pc = "abortRemove" /\ pc' = "abortSave"
      BY <1>4 DEF AbortRemove
    <2>2. Fresh \ targets \in SUBSET Container
      BY Ids DEF WorldTypeOK
    <2>3. RemoveContainers(Fresh \ targets, FALSE)
      BY <1>4 DEF AbortRemove
    <2>4. Present \ (Fresh \ targets) \subseteq Present'
      BY <2>2, <2>3, RemoveEffect DEF WorldTypeOK
    <2>5. (Fresh \ targets) \cap Present' \subseteq kept'
      BY <2>2, <2>3, RemoveKept
    <2>6. live = Plain(targets) /\ targets # {} /\ targets \subseteq Present
      BY <2>1 DEF AbortInv
    <2>7. QED
      BY <2>1, <2>4, <2>5, <2>6 DEF AbortInv, Fresh, Plain
  <1>5. CASE AbortSave
    <2>1. /\ UNCHANGED <<docker, live, nnew, kept, targets>>
          /\ pc = "abortSave" /\ pc' \in {"aborted", "failed"}
          /\ pc' = "aborted" => file' = Idle(targets)
      BY <1>5 DEF AbortSave, Save
    <2>2. QED
      BY <2>1 DEF AbortInv, Fresh, Present, Plain, Idle
  <1>6. QED
    BY <1>1, <1>2, <1>3, <1>4, <1>5 DEF DeployStep

\* What happens around the deployment keeps it.
LEMMA AbortInvEnvironment ==
    ASSUME WorldTypeOK, AbortInv, Environment
    PROVE  AbortInv'
  <1>1. /\ UNCHANGED <<live, file, nnew, pc, step, passed, kept, targets>>
        /\ Present' = Present
    BY EnvironmentType
  <1>2. QED
    BY <1>1 DEF AbortInv, Fresh, Plain, Idle

-----------------------------------------------------------------------------
(* The phases that canary and blue-green share keep the types.             *)

LEMMA SharedType ==
    ASSUME WorldTypeOK, step \in Nat \ {0}, NEW next, NEW counter,
           \/ SaveInitialBoth \/ WaitAllHealthy(next, counter)
           \/ PromoteAndDrain \/ FinishBoth
    PROVE  WorldTypeOK'
  <1> USE DEF WorldTypeOK
  <1>1. Fresh \in SUBSET Container /\ OldSet \in SUBSET Container
    BY Ids
  <1>2. CASE SaveInitialBoth
    <2>1. InProgress(OldSet, Fresh) \in StateFile
      BY <1>1, InProgressType
    <2>2. file' \in StateFile
      BY <1>2, <2>1, SaveType DEF SaveInitialBoth
    <2>3. QED
      BY <1>2, <2>2 DEF SaveInitialBoth
  <1>3. CASE WaitAllHealthy(next, counter)
    <2>1. ASSUME step <= nnew, WaitHealthy(NewAt(step)) PROVE passed' \in SUBSET NewSet
      BY <2>1, WaitHealthyType
    <2>2. passed' \in SUBSET NewSet
      BY <1>3, <2>1 DEF WaitAllHealthy
    <2>3. QED
      BY <1>3, <2>2 DEF WaitAllHealthy
  <1>4. CASE Promote
    <2>1. [Plain(Fresh) EXCEPT !.backup = OldSet] \in Upstream
      BY <1>1 DEF Plain, Upstream
    <2>2. live' \in Upstream
      BY <1>4, <2>1, ApplyType DEF Promote
    <2>3. QED
      BY <1>4, <2>2 DEF Promote
  <1>5. CASE DrainOld
    BY <1>5 DEF DrainOld
  <1>6. CASE RouteNew
    <2>1. Plain(Fresh) \in Upstream
      BY <1>1, PlainType
    <2>2. live' \in Upstream
      BY <1>6, <2>1, ApplyType DEF RouteNew
    <2>3. QED
      BY <1>6, <2>2 DEF RouteNew
  <1>7. CASE RemoveOld
    <2>1. docker' \in [Container -> Status] /\ kept' \in SUBSET Container
      BY <1>1, <1>7, RemoveEffect DEF RemoveOld
    <2>2. QED
      BY <1>7, <2>1 DEF RemoveOld
  <1>8. CASE FinishBoth
    <2>1. [Idle(Fresh) EXCEPT !.weight = 100] \in StateFile
      <3>1. Idle(Fresh) \in StateFile
        BY <1>1, IdleType
      <3>2. QED
        BY <3>1 DEF StateFile
    <2>2. file' \in StateFile
      BY <1>8, <2>1, SaveType DEF FinishBoth
    <2>3. QED
      BY <1>8, <2>2 DEF FinishBoth
  <1>9. QED
    BY <1>2, <1>3, <1>4, <1>5, <1>6, <1>7, <1>8 DEF PromoteAndDrain

\* After the last health wait all new containers of the deployment have passed.
LEMMA AllPassed ==
    ASSUME nnew \in 0 .. NNew, step \in Nat, step > nnew,
           \A j \in 1 .. (step - 1) : NewAt(j) \in passed
    PROVE  Fresh \subseteq passed
  <1>1. ASSUME NEW c \in Fresh PROVE c \in passed
    <2>1. c - NOld \in 1 .. (step - 1) /\ c = NewAt(c - NOld)
      BY <1>1, CountAssumption DEF Fresh, NewAt
    <2>2. QED
      BY <2>1
  <1>2. QED
    BY <1>1

-----------------------------------------------------------------------------
(* What every strategy keeps, and prologue and abort rely on.              *)

\* Some container serves, each one there and, if new, seen healthy; so will the
\* ones an abort may route to; until the strategy runs the old ones serve and
\* the new ones are there.
WorldInv ==
    /\ nnew >= 1
    /\ Routed
    /\ (file.stable \cup targets) \cap NewSet \subseteq passed
    /\ pc \in ProloguePc \cup {"execute"} => live = Plain(OldSet)
    /\ pc \in (ProloguePc \ {"discardSave"}) \cup {"execute"} => NewSet \subseteq Present

LEMMA WorldInvInit == Init => WorldInv /\ AbortInv
  <1> SUFFICES ASSUME Init PROVE WorldInv /\ AbortInv
    OBVIOUS
  <1>1. nnew \in 1 .. NNew /\ NNew \in Nat
    BY CountAssumption DEF Init
  <1>2. live = Plain(OldSet) /\ Reachable = OldSet /\ Present = Container
    BY DEF Init, Plain, Reachable, Present
  <1>3. /\ OldSet # {} /\ OldSet \subseteq Container /\ OldSet \cap NewSet = {}
        /\ NewSet \subseteq Container
    BY <1>1, Ids
  <1>4. file.stable \subseteq OldSet /\ targets = {}
    BY DEF Init, Idle
  <1>5. Routed
    BY <1>2, <1>3 DEF Routed
  <1>6. WorldInv
    BY <1>1, <1>2, <1>3, <1>4, <1>5 DEF WorldInv
  <1>7. QED
    BY <1>6 DEF Init, AbortInv

LEMMA WorldInvDeployStep ==
    ASSUME WorldTypeOK, AbortInv, WorldInv, DeployStep, "vanish" \notin Faults
    PROVE  WorldInv'
  <1> USE DEF ProloguePc, AbortPc, Terminal
  <1>1. nnew \in 1 .. NNew /\ NNew \in Nat
    BY CountAssumption DEF WorldTypeOK, WorldInv
  <1>2. CASE EarlySave
    <2>1. /\ UNCHANGED <<docker, live, nnew, passed, targets>>
          /\ pc = "start" /\ pc' = "gather"
          /\ file'.stable = {} \/ file' = file
      BY <1>2 DEF EarlySave, Save, InProgress, Idle
    <2>2. QED
      BY <2>1 DEF WorldInv, Routed, Reachable, Present, Plain
  <1>3. CASE Gather
    <2>1. /\ UNCHANGED <<docker, live, file, passed, targets>>
          /\ pc = "gather" /\ pc' = "prepare"
      BY <1>3 DEF Gather
    <2>2. nnew' >= 1
      BY <1>1, <1>3 DEF Gather, MayFail
    <2>3. QED
      BY <2>1, <2>2 DEF WorldInv, Routed, Reachable, Present, Plain
  <1>4. CASE Prepare
    <2>1. /\ UNCHANGED <<docker, live, file, nnew, passed, targets>>
          /\ pc = "prepare" /\ pc' \in {"execute", "failed", "discard"}
      BY <1>4 DEF Prepare
    <2>2. QED
      BY <2>1 DEF WorldInv, Routed, Reachable, Present, Plain
  <1>5. CASE DiscardNew
    <2>1. /\ UNCHANGED <<live, file, nnew, passed, targets>>
          /\ pc = "discard" /\ pc' = "discardSave"
      BY <1>5 DEF DiscardNew
    <2>2. Present \ Fresh \subseteq Present'
      BY <1>5, Ids, RemoveEffect DEF DiscardNew, WorldTypeOK
    <2>3. live = Plain(OldSet) /\ OldSet \cap Fresh = {}
      BY <1>1, <2>1, Ids DEF WorldInv
    <2>4. Reachable \cap Fresh = {} /\ Reachable' = Reachable
      BY <2>1, <2>3 DEF Reachable, Plain
    <2>5. Routed'
      BY <2>1, <2>2, <2>4 DEF WorldInv, Routed
    <2>6. QED
      BY <2>1, <2>3, <2>5 DEF WorldInv, Plain
  <1>6. CASE DiscardSave
    <2>1. /\ UNCHANGED <<docker, live, nnew, passed, targets>>
          /\ pc' \in {"discarded", "failed"}
          /\ file'.stable = OldSet \/ file' = file
      BY <1>6 DEF DiscardSave, Save, Idle
    <2>2. OldSet \cap NewSet = {}
      BY <1>1, Ids
    <2>3. QED
      BY <2>1, <2>2 DEF WorldInv, Routed, Reachable, Present
  <1>7. CASE AbortRoute
    <2>1. UNCHANGED <<docker, file, nnew, passed>> /\ pc' \in {"failed", "abortDrain"}
      BY <1>7 DEF AbortRoute
    <2>2. /\ targets' \subseteq AbortCandidates
          /\ live' = live \/ (targets' # {} /\ live' = Plain(targets'))
      BY <1>7 DEF AbortRoute
    <2>3. AbortCandidates \subseteq Present /\ AbortCandidates \cap NewSet \subseteq passed
      BY <1>1, Ids DEF AbortCandidates, WorldInv
    <2>4. Routed'
      BY <2>1, <2>2, <2>3 DEF WorldInv, Routed, Reachable, Present, Plain
    <2>5. (file.stable \cup targets') \cap NewSet \subseteq passed
      BY <2>2, <2>3 DEF WorldInv
    <2>6. QED
      BY <2>1, <2>4, <2>5 DEF WorldInv
  <1>8. CASE AbortDrain
    <2>1. /\ UNCHANGED <<docker, live, file, nnew, passed, targets>>
          /\ pc' \in {"abortRemove", "failed"}
      BY <1>8 DEF AbortDrain
    <2>2. QED
      BY <2>1 DEF WorldInv, Routed, Reachable, Present
  <1>9. CASE AbortRemove
    <2>1. /\ UNCHANGED <<live, file, nnew, passed, targets>>
          /\ pc = "abortRemove" /\ pc' = "abortSave"
      BY <1>9 DEF AbortRemove
    <2>2. Present \ (Fresh \ targets) \subseteq Present'
      BY <1>9, Ids, RemoveEffect DEF AbortRemove, WorldTypeOK
    <2>3. live = Plain(targets)
      BY <2>1 DEF AbortInv
    <2>4. Reachable = targets /\ Reachable' = Reachable
      BY <2>1, <2>3 DEF Reachable, Plain
    <2>5. Routed'
      BY <2>1, <2>2, <2>4 DEF WorldInv, Routed
    <2>6. QED
      BY <2>1, <2>5 DEF WorldInv
  <1>10. CASE AbortSave
    <2>1. /\ UNCHANGED <<docker, live, nnew, passed, targets>>
          /\ pc' \in {"aborted", "failed"}
          /\ file'.stable = targets \/ file' = file
      BY <1>10 DEF AbortSave, Save, Idle
    <2>2. QED
      BY <2>1 DEF WorldInv, Routed, Reachable, Present
  <1>11. QED
    BY <1>2, <1>3, <1>4, <1>5, <1>6, <1>7, <1>8, <1>9, <1>10 DEF DeployStep

\* What happens around the deployment keeps it: only the deployment removes.
LEMMA WorldInvEnvironment ==
    ASSUME WorldTypeOK, WorldInv, Environment
    PROVE  WorldInv'
  <1>1. /\ UNCHANGED <<live, file, nnew, pc, step, passed, kept, targets>>
        /\ Present' = Present
    BY EnvironmentType
  <1>2. QED
    BY <1>1 DEF WorldInv, Routed, Reachable, Plain

\* A step of a strategy that routes: to containers that are there and passed.
LEMMA WorldInvRoute ==
    ASSUME WorldInv, UNCHANGED <<docker, nnew, passed, targets>>,
           pc' \notin ProloguePc \cup {"execute"},
           \/ Reachable' = Reachable
           \/ /\ Reachable' # {} /\ Reachable' \subseteq Present
              /\ Reachable' \cap NewSet \subseteq passed,
           file'.stable \subseteq file.stable \cup OldSet \cup passed
    PROVE  WorldInv'
  <1>1. OldSet \cap NewSet = {} /\ Present' = Present
    BY CountAssumption DEF OldSet, NewSet, Present
  <1>2. Routed'
    BY <1>1 DEF WorldInv, Routed
  <1>3. (file'.stable \cup targets') \cap NewSet \subseteq passed'
    BY <1>1 DEF WorldInv
  <1>4. QED
    BY <1>2, <1>3 DEF WorldInv

=============================================================================
