------------------------------- MODULE Linear ------------------------------
(***************************************************************************)
(* The linear strategy (strategy/linear.go): new container i replaces old  *)
(* container i, one after the other.  The loop index i of the code is      *)
(* step - 1.                                                               *)
(***************************************************************************)
EXTENDS Release, FiniteSets

Replacements == IF NOld <= nnew THEN NOld ELSE nnew

\* Mutation: one old container too many is taken to be replaced.
RemainingOneLess(i) == {OldAt(j) : j \in (i + 2) .. NOld}

\* The new containers put in service by the first i replacements, and the old
\* ones those replacements leave.
Replaced(i) == {NewAt(j) : j \in 1 .. i}
Remaining(i) == {OldAt(j) : j \in (i + 1) .. NOld}

\* buildUpstream: the old container being replaced is marked down.
Stepping(i) == Plain(Replaced(i) \cup Remaining(i))

\* Mutation: the loop starts one replacement too early.
SaveInitialFromZero ==
    /\ pc = "execute"
    /\ Save(InProgress(OldSet, {}), IF Replacements > 0 THEN "wait" ELSE "extra", "abort")
    /\ step' = 0
    /\ UNCHANGED <<docker, live, nnew, cancelled, passed, kept, targets>>

\* Execute begins by recording the old containers as the stable ones.
SaveInitial ==
    /\ pc = "execute"
    /\ Save(InProgress(OldSet, {}), IF Replacements > 0 THEN "wait" ELSE "extra", "abort")
    /\ step' = 1
    /\ UNCHANGED <<docker, live, nnew, cancelled, passed, kept, targets>>

\* The next new container must become healthy ...
LinearWait ==
    /\ pc = "wait"
    /\ \/ WaitHealthy(NewAt(step)) /\ pc' = "route"
       \/ WaitFails /\ pc' = "abort" /\ passed' = passed
    /\ UNCHANGED <<docker, live, file, nnew, step, cancelled, kept, targets>>

\* ... before the proxy swaps it for the old one, ...
RouteStep ==
    /\ pc = "route"
    /\ Apply(Stepping(step), "drain", "abort")
    /\ UNCHANGED <<docker, file, nnew, step, cancelled, passed, kept, targets>>

\* ... which gets the drain timeout to finish its requests ...
Drain ==
    /\ pc = "drain"
    /\ Elapsed("remove", "abort")
    /\ UNCHANGED <<docker, live, file, nnew, step, cancelled, passed, kept, targets>>

\* Mutation: the next old container is removed instead.
RemoveStepNext ==
    /\ pc = "remove"
    /\ RemoveContainers({OldAt(step + 1)}, cancelled)
    /\ pc' = "record"
    /\ UNCHANGED <<live, file, nnew, step, cancelled, passed, targets>>

\* ... and is stopped and removed.
RemoveStep ==
    /\ pc = "remove"
    /\ RemoveContainers({OldAt(step)}, cancelled)
    /\ pc' = "record"
    /\ UNCHANGED <<live, file, nnew, step, cancelled, passed, targets>>

\* Mutation: only the last replacement is recorded.
RecordLast ==
    /\ pc = "record"
    /\ IF step = Replacements
       THEN Save([file EXCEPT !.stable = Replaced(step)], "extra", "abort")
       ELSE file' = file /\ pc' = "wait"
    /\ step' = step + 1
    /\ UNCHANGED <<docker, live, nnew, cancelled, passed, kept, targets>>

\* The file names the replaced containers and, except after the last
\* replacement, the old ones still to be replaced.
Record ==
    /\ pc = "record"
    /\ LET last == step = Replacements
           rest == IF last THEN {} ELSE Remaining(step)
       IN Save([file EXCEPT !.stable = Replaced(step) \cup rest],
               IF last THEN "extra" ELSE "wait", "abort")
    /\ step' = step + 1
    /\ UNCHANGED <<docker, live, nnew, cancelled, passed, kept, targets>>

\* New containers beyond the number of old ones are awaited too.
Extra ==
    /\ pc = "extra"
    /\ \/ /\ step <= nnew
          /\ \/ WaitHealthy(NewAt(step)) /\ pc' = pc /\ step' = step + 1
             \/ WaitFails /\ pc' = "abort" /\ UNCHANGED <<passed, step>>
       \/ step > nnew /\ pc' = "final" /\ UNCHANGED <<passed, step>>
    /\ UNCHANGED <<docker, live, file, nnew, cancelled, kept, targets>>

\* Two configs with all new containers and nothing else: one with the
\* service's affinity, then one without.
RouteFinal ==
    /\ \/ pc = "final" /\ Apply(Plain(Fresh), "stable", "abort")
       \/ pc = "stable" /\ Apply(Plain(Fresh), "finish", "abort")
    /\ UNCHANGED <<docker, file, nnew, step, cancelled, passed, kept, targets>>

Finish ==
    /\ pc = "finish"
    /\ Save(Idle(Fresh), "done", "abort")
    /\ UNCHANGED <<docker, live, nnew, step, cancelled, passed, kept, targets>>

LinearExecute ==
    \/ SaveInitial \/ LinearWait \/ RouteStep \/ Drain \/ RemoveStep \/ Record
    \/ Extra \/ RouteFinal \/ Finish

LinearNext == DeployStep \/ LinearExecute \/ Environment

LinearSpec == Init /\ [][LinearNext]_vars

\* The goroutine is scheduled and every wait of it has a timeout.
LinearFairSpec == LinearSpec /\ WF_vars(DeployStep \/ LinearExecute)

-----------------------------------------------------------------------------
(* What the strategy must get right.                                       *)

\* The program counters of the replacement loop and of Execute.
LinearLoopPc == {"wait", "route", "drain", "remove", "record"}
LinearExecutePc == {"execute", "extra", "final", "stable", "finish"} \cup LinearLoopPc

\* Every variable holds a value of its type, the loop counter stays in range.
LinearTypeOK ==
    /\ WorldTypeOK
    /\ pc \in ProloguePc \cup LinearExecutePc \cup AbortPc \cup Terminal
    /\ step \in 1 .. (NOld + NNew + 1)

\* With at least as many new containers as old ones, Execute never serves
\* with fewer containers than the service had.
CapacityKept ==
    pc \in LinearExecutePc /\ nnew >= NOld => Cardinality(live.on) >= NOld

\* The state file, which the abort and a restarted daemon rely on to find the
\* containers that serve, is at most one replacement behind: one serving
\* container it does not name yet, one named container that is gone.
FileFollowsProxy ==
    pc \in LinearLoopPc => /\ Cardinality(live.on \ file.stable) <= 1
                     /\ Cardinality(file.stable \ Present) <= 1

-----------------------------------------------------------------------------
(* Why it implements Rollout: the invariant that every step keeps as long  *)
(* as no new container vanishes from a listing.                            *)

\* Every new container an abort may route to has passed its health check.
Recorded == (file.stable \cup targets) \cap NewSet \subseteq passed

\* Until the strategy runs the old containers serve; until an abort removes
\* new containers they are all there; an abort serves what it does not remove.
Phases ==
    /\ pc \in ProloguePc \cup {"execute"} => live.on = OldSet
    /\ pc \in LinearExecutePc \cup (ProloguePc \ {"discardSave"}) => NewSet \subseteq Present
    /\ pc \in {"abortDrain", "abortRemove"} => live.on = targets

\* The loop only leaves behind containers that have passed, never touches an
\* old one whose turn has not come, and removes one the proxy has let go.
Replacing ==
    /\ pc \in LinearLoopPc => step <= NOld /\ step <= nnew /\ Remaining(step) \subseteq Present
    /\ pc \in LinearLoopPc \cup {"extra"} => Replaced(step - 1) \subseteq passed
    /\ pc \in LinearLoopPc \ {"wait"} => NewAt(step) \in passed
    /\ pc \in {"drain", "remove"} => live.on = Replaced(step) \cup Remaining(step)
    /\ pc = "extra" => step <= nnew + 1
    /\ pc \in {"final", "stable", "finish"} => Fresh \subseteq passed

\* Some container always serves, each one there and, if new, healthy when it
\* was awaited, because of what each phase of the deployment can rely on.
RolloutInv ==
    /\ LinearTypeOK
    /\ nnew >= 1
    /\ live.backup = {}
    /\ Routed
    /\ Recorded
    /\ Phases
    /\ Replacing
=============================================================================
