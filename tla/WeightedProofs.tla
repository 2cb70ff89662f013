--------------------------- MODULE WeightedProofs --------------------------
(***************************************************************************)
(* The strategies that serve with both groups for a time, for any number   *)
(* of containers, any percentages, labels and error limit and any set of   *)
(* failures; for Rollout and for how a canary moves users and records it,  *)
(* unless new containers vanish from a listing.                            *)
(*                                                                         *)
(* Canary keeps its types, implements Rollout, never moves users back and  *)
(* records the weights they get.  Blue-green keeps its types and the way   *)
(* back open, leaves a state file that a crash can be undone with, and     *)
(* implements Rollout.                                                     *)
(***************************************************************************)
EXTENDS Canary, BlueGreen, ReleaseProofs, FiniteSetTheorems


-----------------------------------------------------------------------------
(* Canary: the types.                                                      *)

\* The weight stays below 100 in the loop because AtWeight looks first.
LEMMA WeightType ==
    ASSUME NEW weight \in 1 .. 100
    PROVE  /\ NextWeight(weight) \in 1 .. 100
           /\ NextWeight(weight) >= weight
           /\ AtWeight(weight) \in {"shift", "promote"}
           /\ AtWeight(weight) = "shift" => weight < 100
           /\ AtWeight(weight) = "promote" => weight = 100
    BY CanaryAssumption DEF NextWeight, AtWeight

\* It grows, by the increment at most.
LEMMA WeightGrows ==
    ASSUME NEW weight \in 1 .. 99
    PROVE  NextWeight(weight) > weight /\ NextWeight(weight) <= weight + Increment
    BY CanaryAssumption DEF NextWeight

LEMMA CanaryUpstreamOf ==
    ASSUME NEW w
    PROVE  /\ CanaryUpstream(w).on = OldSet \cup Fresh
           /\ CanaryUpstream(w).backup = {} /\ CanaryUpstream(w).preview = {}
           /\ CanaryUpstream(w).weight = w
    BY DEF CanaryUpstream, Plain

\* What CanaryTypeOK says of the counter: it counts containers, then it is a weight.
CanaryTInv ==
    /\ CanaryTypeOK
    /\ pc \in CanaryLoopPc => step \in 1 .. 99

LEMMA CanaryTypeInit == Init => CanaryTInv
  <1> SUFFICES ASSUME Init PROVE CanaryTInv
    OBVIOUS
  <1>1. OldSet \in SUBSET Container /\ nnew \in 0 .. NNew
    BY CountAssumption DEF Init, OldSet, Container
  <1>2. live \in Upstream /\ file \in StateFile
    BY <1>1, PlainType, IdleType DEF Init
  <1>3. docker \in [Container -> Status]
    BY DEF Init, Status
  <1>4. WorldTypeOK
    BY <1>1, <1>2, <1>3 DEF Init, WorldTypeOK
  <1>5. QED
    BY <1>4, CountAssumption DEF Init, CanaryTInv, CanaryTypeOK, CanaryLoopPc, ProloguePc

\* Every step of the strategy keeps them.
LEMMA CanaryExecuteType ==
    ASSUME CanaryTInv, CanaryExecute
    PROVE  CanaryTInv'
  <1> USE DEF ProloguePc, AbortPc, Terminal, CanaryLoopPc, CanaryExecutePc
  <1>1. /\ WorldTypeOK /\ step \in 1 .. (NNew + 1) \cup 1 .. 100 /\ nnew \in 0 .. NNew
        /\ NNew \in Nat /\ NNew >= 1 /\ step \in Nat \ {0}
    BY CountAssumption DEF CanaryTInv, CanaryTypeOK, WorldTypeOK
  <1>2. CASE SaveInitialBoth
    <2>1. WorldTypeOK'
      BY <1>1, <1>2, SharedType
    <2>2. step' = 1 /\ pc' \in {"healthy", "abort"}
      BY <1>2 DEF SaveInitialBoth, Save
    <2>3. QED
      BY <1>1, <2>1, <2>2 DEF CanaryTInv, CanaryTypeOK
  <1>3. CASE CanaryWait
    <2>1. WorldTypeOK'
      BY <1>1, <1>3, SharedType DEF CanaryWait
    <2>2. \/ pc' = "healthy" /\ step <= nnew /\ step' = step + 1
          \/ pc' = "abort" /\ step' = step
          \/ pc' = AtWeight(StartPercentage) /\ step' = StartPercentage
      BY <1>3 DEF CanaryWait, WaitAllHealthy
    <2>3. /\ StartPercentage \in 1 .. 100
          /\ AtWeight(StartPercentage) \in {"shift", "promote"}
          /\ AtWeight(StartPercentage) = "shift" => StartPercentage < 100
      BY CanaryAssumption, WeightType
    <2>4. QED
      BY <1>1, <2>1, <2>2, <2>3 DEF CanaryTInv, CanaryTypeOK
  <1>4. CASE Shift
    <2>1. step' = step /\ pc = "shift" /\ pc' \in {"record", "abort"}
      BY <1>4 DEF Shift, Apply
    <2>2. step \in 1 .. 99 /\ OldSet \cup Fresh \in SUBSET Container
      BY <1>1, <2>1, Ids DEF CanaryTInv
    <2>3. CanaryUpstream(step) \in Upstream
      BY <2>2 DEF CanaryUpstream, Plain, Upstream
    <2>4. live' \in Upstream
      BY <1>1, <1>4, <2>3, ApplyType DEF Shift, WorldTypeOK
    <2>5. WorldTypeOK'
      BY <1>1, <1>4, <2>4 DEF Shift, WorldTypeOK
    <2>6. QED
      BY <1>1, <2>1, <2>2, <2>5 DEF CanaryTInv, CanaryTypeOK
  <1>5. CASE RecordWeight
    <2>1. step' = step /\ pc = "record" /\ pc' \in {"observe", "abort"}
      BY <1>5 DEF RecordWeight, Save
    <2>2. [file EXCEPT !.weight = step] \in StateFile
      BY <2>1, <1>1 DEF CanaryTInv, WorldTypeOK, StateFile
    <2>3. file' \in StateFile
      BY <1>1, <1>5, <2>2, SaveType DEF RecordWeight, WorldTypeOK
    <2>4. WorldTypeOK'
      BY <1>1, <1>5, <2>3 DEF RecordWeight, WorldTypeOK
    <2>5. QED
      BY <1>1, <2>1, <2>4 DEF CanaryTInv, CanaryTypeOK
  <1>6. CASE Observe
    <2>1. /\ pc = "observe"
          /\ \/ pc' = "abort" /\ step' = step
             \/ pc' = AtWeight(NextWeight(step)) /\ step' \in {step, NextWeight(step)}
                /\ (pc' # "abort" => step' = NextWeight(step))
      BY <1>6 DEF Observe, Elapsed
    <2>2. step \in 1 .. 100
      BY <2>1 DEF CanaryTInv
    <2>3. NextWeight(step) \in 1 .. 100
      BY <2>2, WeightType
    <2>4. /\ AtWeight(NextWeight(step)) \in {"shift", "promote"}
          /\ AtWeight(NextWeight(step)) = "shift" => NextWeight(step) < 100
      BY <2>3, WeightType
    <2>5. WorldTypeOK'
      BY <1>1, <1>6 DEF Observe, WorldTypeOK
    <2>6. step' \in 1 .. 100 /\ (pc' = "shift" => step' < 100)
          /\ pc' \in {"abort", "shift", "promote"}
      BY <2>1, <2>2, <2>3, <2>4
    <2>7. QED
      BY <2>5, <2>6 DEF CanaryTInv, CanaryTypeOK
  <1>7. CASE PromoteAndDrain \/ FinishBoth
    <2>1. WorldTypeOK'
      BY <1>1, <1>7, SharedType
    <2>2. /\ step' = step
          /\ pc' \in {"drainOld", "routeNew", "removeOld", "finish", "done", "abort"}
      BY <1>7
      DEF PromoteAndDrain, Promote, DrainOld, RouteNew, RemoveOld, FinishBoth,
          Apply, Elapsed, Save
    <2>3. QED
      BY <1>1, <2>1, <2>2 DEF CanaryTInv, CanaryTypeOK
  <1>8. QED
    BY <1>2, <1>3, <1>4, <1>5, <1>6, <1>7 DEF CanaryExecute

LEMMA CanaryTypeStep == CanaryTInv /\ [CanaryNext]_vars => CanaryTInv'
  <1> SUFFICES ASSUME CanaryTInv, [CanaryNext]_vars PROVE CanaryTInv'
    OBVIOUS
  <1>1. WorldTypeOK
    BY DEF CanaryTInv, CanaryTypeOK
  <1>2. CASE DeployStep
    <2>1. /\ WorldTypeOK' /\ step' = step
          /\ pc' \in ProloguePc \cup AbortPc \cup Terminal \cup {"execute"}
      BY <1>1, <1>2, DeployStepType
    <2>2. QED
      BY <2>1 DEF CanaryTInv, CanaryTypeOK, CanaryLoopPc, CanaryExecutePc, ProloguePc, AbortPc, Terminal
  <1>3. CASE CanaryExecute
    BY <1>3, CanaryExecuteType
  <1>4. CASE Environment
    <2>1. WorldTypeOK' /\ UNCHANGED <<pc, step>>
      BY <1>1, <1>4, EnvironmentType
    <2>2. QED
      BY <2>1 DEF CanaryTInv, CanaryTypeOK
  <1>5. CASE UNCHANGED vars
    BY <1>5, Zenon DEF vars, CanaryTInv, CanaryTypeOK, WorldTypeOK
  <1>6. QED
    BY <1>2, <1>3, <1>4, <1>5 DEF CanaryNext

\* The variables of a canary deployment always hold values of their types; the
\* weight never leaves 1 .. 100, whatever the increment.
THEOREM CanaryTypeCorrect == CanarySpec => []CanaryTypeOK
  <1>1. CanaryTInv => CanaryTypeOK
    BY DEF CanaryTInv
  <1>2. QED
    BY CanaryTypeInit, CanaryTypeStep, <1>1, PTL DEF CanarySpec

-----------------------------------------------------------------------------
(* Canary: the invariant of the strategy.                                  *)

\* The places after the health waits.
ServingPc == {"promote", "drainOld", "routeNew", "removeOld", "finish"} \cup CanaryLoopPc

\* No container goes before removeOld, no traffic moves before all have passed,
\* and at every place of the loop the proxy and the file have a known weight.
CanaryInv ==
    /\ CanaryTInv
    /\ WorldInv
    /\ pc \in CanaryExecutePc => NewSet \subseteq Present
    /\ pc \in CanaryExecutePc \ {"finish"} => OldSet \subseteq Present
    /\ pc = "healthy" => live = Plain(OldSet) /\ \A j \in 1 .. (step - 1) : NewAt(j) \in passed
    /\ pc \in ServingPc => Fresh \subseteq passed
    /\ pc \in {"shift", "promote"} =>
         \/ live = Plain(OldSet) /\ step = StartPercentage
         \/ /\ live.weight \in 1 .. 99 /\ live = CanaryUpstream(live.weight)
            /\ step = NextWeight(live.weight)
    /\ pc = "promote" => step = 100
    /\ pc \in {"record", "observe"} => live = CanaryUpstream(step)
    /\ pc = "observe" => file.weight = step
    /\ pc \in {"healthy"} \cup CanaryLoopPc =>
         file.status = "in_progress" /\ file.stable = OldSet /\ file.canary = Fresh
    /\ pc \in {"drainOld", "routeNew"} => live.on = Fresh
    /\ pc \in {"removeOld", "finish"} => live = Plain(Fresh)

\* The parts of it that need no step.
LEMMA CanaryInvFacts ==
    ASSUME CanaryInv
    PROVE  /\ WorldTypeOK /\ WorldInv /\ CanaryTInv
           /\ step \in Nat \ {0} /\ nnew \in 1 .. NNew /\ nnew \in 0 .. NNew
           /\ NNew \in Nat /\ NOld \in Nat
           /\ cancelled \in BOOLEAN /\ live \in Upstream /\ file \in StateFile
           /\ OldSet # {} /\ OldSet \cap NewSet = {} /\ OldSet \cap Fresh = {}
           /\ Fresh # {} /\ Fresh \subseteq NewSet
           /\ OldSet \in SUBSET Container /\ Fresh \in SUBSET Container
  <1>1. /\ WorldTypeOK /\ WorldInv /\ CanaryTInv
        /\ step \in 1 .. (NNew + 1) \cup 1 .. 100 /\ nnew \in 0 .. NNew /\ nnew >= 1
        /\ NNew \in Nat /\ NOld \in Nat
        /\ cancelled \in BOOLEAN /\ live \in Upstream /\ file \in StateFile
    BY CountAssumption DEF CanaryInv, CanaryTInv, CanaryTypeOK, WorldTypeOK, WorldInv
  <1>2. NOld + 1 \in Fresh
    BY <1>1 DEF Fresh
  <1>3. OldSet # {} /\ OldSet \cap NewSet = {} /\ Fresh \subseteq NewSet
        /\ OldSet \in SUBSET Container /\ NewSet \in SUBSET Container
    BY <1>1, Ids
  <1>4. QED
    BY <1>1, <1>2, <1>3

\* The steps of the strategy keep it.
LEMMA CanaryInvExecute ==
    ASSUME CanaryInv, CanaryExecute
    PROVE  CanaryInv'
  <1> USE DEF ProloguePc, CanaryLoopPc, CanaryExecutePc, ServingPc
  <1>1. CanaryTInv'
    BY CanaryInvFacts, CanaryTypeStep DEF CanaryNext
  <1>2. /\ WorldTypeOK /\ WorldInv /\ CanaryTInv
        /\ step \in Nat \ {0} /\ nnew \in 1 .. NNew /\ nnew \in 0 .. NNew
        /\ NNew \in Nat /\ NOld \in Nat
        /\ cancelled \in BOOLEAN /\ live \in Upstream /\ file \in StateFile
        /\ OldSet # {} /\ OldSet \cap NewSet = {} /\ OldSet \cap Fresh = {}
        /\ Fresh # {} /\ Fresh \subseteq NewSet
        /\ OldSet \in SUBSET Container /\ Fresh \in SUBSET Container
    BY CanaryInvFacts
  <1>3. CASE SaveInitialBoth
    <2>1. /\ UNCHANGED <<docker, live, nnew, passed, targets>> /\ step' = 1
          /\ pc = "execute" /\ pc' \in {"healthy", "abort"}
          /\ file' = file \/ file'.stable = OldSet
      BY <1>3 DEF SaveInitialBoth, Save, InProgress, Idle
    <2>2. WorldInv'
      BY <1>2, <2>1, WorldInvRoute DEF Reachable
    <2>3. /\ live = Plain(OldSet) /\ live' = Plain(OldSet)
          /\ NewSet \subseteq Present /\ OldSet \subseteq Present /\ Present' = Present
      BY <1>2, <2>1 DEF CanaryInv, WorldInv, Present, Plain
    <2>4. \A j \in 1 .. (1 - 1) : NewAt(j) \in passed
      OBVIOUS
    <2>5. pc' = "healthy" =>
            file'.status = "in_progress" /\ file'.stable = OldSet /\ file'.canary = Fresh'
      BY <1>3 DEF SaveInitialBoth, Save, InProgress, Idle, Fresh
    <2>6. QED
      BY <1>1, <2>1, <2>2, <2>3, <2>4, <2>5 DEF CanaryInv, Plain
  <1>4. CASE CanaryWait
    <2>1. /\ UNCHANGED <<docker, live, file, nnew, targets>>
          /\ pc = "healthy" /\ pc' \in {"healthy", "abort", AtWeight(StartPercentage)}
          /\ \/ /\ step <= nnew /\ WaitHealthy(NewAt(step))
                /\ pc' = "healthy" /\ step' = step + 1
             \/ pc' = "abort" /\ passed' = passed
             \/ step > nnew /\ pc' = AtWeight(StartPercentage) /\ passed' = passed
      BY <1>4 DEF CanaryWait, WaitAllHealthy
    <2>2. AtWeight(StartPercentage) \in {"shift", "promote"}
      BY CanaryAssumption, WeightType
    <2>3. /\ live = Plain(OldSet) /\ live' = Plain(OldSet)
          /\ NewSet \subseteq Present /\ OldSet \subseteq Present /\ Present' = Present
          /\ \A j \in 1 .. (step - 1) : NewAt(j) \in passed
      BY <1>2, <2>1 DEF CanaryInv, Present, Plain
    <2>4. ASSUME step <= nnew, WaitHealthy(NewAt(step))
          PROVE  passed \subseteq passed' /\ NewAt(step) \in passed' /\ passed' \in SUBSET NewSet
      BY <1>2, <2>4, WaitHealthyType DEF WorldTypeOK
    <2>5. passed \subseteq passed'
      BY <2>1, <2>4
    <2>6. WorldInv'
      BY <1>2, <2>1, <2>2, <2>3, <2>5 DEF WorldInv, Routed, Reachable, Plain
    <2>7. pc' = "healthy" => \A j \in 1 .. (step' - 1) : NewAt(j) \in passed'
      BY <1>2, <2>1, <2>2, <2>3, <2>4, <2>5
    <2>8. pc' \in {"shift", "promote"} => Fresh' \subseteq passed'
      BY <1>2, <2>1, <2>3, AllPassed DEF Fresh
    <2>9. file' = file /\ Fresh' = Fresh /\ file.status = "in_progress"
          /\ file.stable = OldSet /\ file.canary = Fresh
      BY <2>1 DEF CanaryInv, Fresh
    <2>10. /\ pc' \in {"shift", "promote"} => step' = StartPercentage
           /\ pc' = "promote" => step' = 100
      BY <1>4, <2>2, CanaryAssumption, WeightType DEF CanaryWait, WaitAllHealthy
    <2>11. QED
      BY <1>1, <2>1, <2>2, <2>3, <2>6, <2>7, <2>8, <2>9, <2>10 DEF CanaryInv, Plain
  <1>5. CASE Shift
    <2>1. /\ UNCHANGED <<docker, file, nnew, step, passed, targets>> /\ pc = "shift"
          /\ pc' \in {"record", "abort"}
          /\ live' = live \/ live' = CanaryUpstream(step)
          /\ pc' = "record" => live' = CanaryUpstream(step)
      BY <1>5 DEF Shift, Apply
    <2>2. /\ NewSet \subseteq Present /\ OldSet \subseteq Present /\ Present' = Present
          /\ Fresh \subseteq passed /\ Fresh' = Fresh
      BY <2>1 DEF CanaryInv, Present, Fresh
    <2>3. /\ CanaryUpstream(step).on = OldSet \cup Fresh
          /\ CanaryUpstream(step).backup = {}
      BY DEF CanaryUpstream, Plain
    <2>4. \/ Reachable' = Reachable
          \/ /\ Reachable' # {} /\ Reachable' \subseteq Present
             /\ Reachable' \cap NewSet \subseteq passed
      BY <1>2, <2>1, <2>2, <2>3 DEF Reachable
    <2>5. WorldInv'
      BY <1>2, <2>1, <2>4, WorldInvRoute
    <2>6. pc' = "record" => live' = (CanaryUpstream(step))'
      BY <2>1, <2>2 DEF CanaryUpstream, Plain, OldSet
    <2>7. file' = file /\ file.status = "in_progress" /\ file.stable = OldSet /\ file.canary = Fresh
      BY <2>1 DEF CanaryInv
    <2>8. QED
      BY <1>1, <2>1, <2>2, <2>5, <2>6, <2>7 DEF CanaryInv
  <1>6. CASE RecordWeight
    <2>1. /\ UNCHANGED <<docker, live, nnew, step, passed, targets>> /\ pc = "record"
          /\ file' = file \/ file' = [file EXCEPT !.weight = step]
          /\ \/ pc' = "abort"
             \/ pc' = "observe" /\ file' = [file EXCEPT !.weight = step]
      BY <1>6 DEF RecordWeight, Save
    <2>2. file'.stable = file.stable /\ (pc' = "observe" => file'.weight = step')
      BY <1>2, <2>1 DEF StateFile
    <2>3. WorldInv'
      BY <1>2, <2>1, <2>2, WorldInvRoute DEF Reachable
    <2>4. /\ NewSet \subseteq Present /\ OldSet \subseteq Present /\ Present' = Present
          /\ Fresh \subseteq passed /\ Fresh' = Fresh /\ live = CanaryUpstream(step)
          /\ live' = (CanaryUpstream(step))'
      BY <2>1 DEF CanaryInv, Present, Fresh, CanaryUpstream, Plain, OldSet
    <2>5. file'.status = "in_progress" /\ file'.stable = OldSet /\ file'.canary = Fresh'
      <3>1. file.status = "in_progress" /\ file.stable = OldSet /\ file.canary = Fresh
        BY <2>1 DEF CanaryInv
      <3>2. QED
        BY <1>2, <2>1, <2>4, <3>1 DEF StateFile
    <2>6. QED
      BY <1>1, <2>1, <2>2, <2>3, <2>4, <2>5 DEF CanaryInv
  <1>7. CASE Observe
    <2>1. /\ UNCHANGED <<docker, live, file, nnew, passed, targets>> /\ pc = "observe"
          /\ pc' \in {"abort", AtWeight(NextWeight(step))}
          /\ pc' # "abort" => step' = NextWeight(step)
      BY <1>7 DEF Observe, Elapsed
    <2>2. step \in 1 .. 100
      BY <2>1 DEF CanaryInv, CanaryTInv
    <2>3. NextWeight(step) \in 1 .. 100 /\ NextWeight(step) >= step
      BY <2>2, WeightType
    <2>4. /\ AtWeight(NextWeight(step)) \in {"shift", "promote"}
          /\ pc' = "promote" => step' = 100
      BY <2>1, <2>3, WeightType
    <2>5. WorldInv'
      BY <1>2, <2>1, <2>4, WorldInvRoute DEF Reachable
    <2>6. /\ NewSet \subseteq Present /\ OldSet \subseteq Present /\ Present' = Present
          /\ Fresh \subseteq passed /\ Fresh' = Fresh /\ live = CanaryUpstream(step)
      BY <2>1 DEF CanaryInv, Present, Fresh
    <2>7. live.weight = step /\ step \in 1 .. 99
      BY <2>1, <2>6, CanaryUpstreamOf DEF CanaryInv, CanaryTInv
    <2>8. /\ live'.weight \in 1 .. 99 /\ live' = (CanaryUpstream(live.weight))'
          /\ pc' # "abort" => step' = (NextWeight(live.weight))'
      BY <2>1, <2>6, <2>7 DEF CanaryUpstream, Plain, OldSet, NextWeight
    <2>9. file' = file /\ file.status = "in_progress" /\ file.stable = OldSet /\ file.canary = Fresh
      BY <2>1 DEF CanaryInv
    <2>10. QED
      BY <1>1, <2>1, <2>4, <2>5, <2>6, <2>8, <2>9 DEF CanaryInv
  <1>8. CASE Promote
    <2>1. /\ UNCHANGED <<docker, file, nnew, step, passed, targets>> /\ pc = "promote"
          /\ pc' \in {"drainOld", "abort"}
          /\ live' = live \/ live' = [Plain(Fresh) EXCEPT !.backup = OldSet]
          /\ pc' = "drainOld" => live' = [Plain(Fresh) EXCEPT !.backup = OldSet]
      BY <1>8 DEF Promote, Apply
    <2>2. /\ NewSet \subseteq Present /\ OldSet \subseteq Present /\ Present' = Present
          /\ Fresh \subseteq passed /\ Fresh' = Fresh
      BY <2>1 DEF CanaryInv, Present, Fresh
    <2>3. /\ [Plain(Fresh) EXCEPT !.backup = OldSet].on = Fresh
          /\ [Plain(Fresh) EXCEPT !.backup = OldSet].backup = OldSet
      BY DEF Plain
    <2>4. \/ Reachable' = Reachable
          \/ /\ Reachable' # {} /\ Reachable' \subseteq Present
             /\ Reachable' \cap NewSet \subseteq passed
      BY <1>2, <2>1, <2>2, <2>3 DEF Reachable
    <2>5. WorldInv'
      BY <1>2, <2>1, <2>4, WorldInvRoute
    <2>6. QED
      BY <1>1, <2>1, <2>2, <2>3, <2>5 DEF CanaryInv
  <1>9. CASE DrainOld
    <2>1. /\ UNCHANGED <<docker, live, file, nnew, step, passed, targets>> /\ pc = "drainOld"
          /\ pc' \in {"routeNew", "abort"}
      BY <1>9 DEF DrainOld, Elapsed
    <2>2. WorldInv'
      BY <1>2, <2>1, WorldInvRoute DEF Reachable
    <2>3. Present' = Present /\ Fresh' = Fresh
      BY <2>1 DEF Present, Fresh
    <2>4. QED
      BY <1>1, <2>1, <2>2, <2>3 DEF CanaryInv
  <1>10. CASE RouteNew
    <2>1. /\ UNCHANGED <<docker, file, nnew, step, passed, targets>> /\ pc = "routeNew"
          /\ pc' \in {"removeOld", "abort"}
          /\ live' = live \/ live' = Plain(Fresh)
          /\ pc' = "removeOld" => live' = Plain(Fresh)
      BY <1>10 DEF RouteNew, Apply
    <2>2. /\ NewSet \subseteq Present /\ OldSet \subseteq Present /\ Present' = Present
          /\ Fresh \subseteq passed /\ Fresh' = Fresh
      BY <2>1 DEF CanaryInv, Present, Fresh
    <2>3. \/ Reachable' = Reachable
          \/ /\ Reachable' # {} /\ Reachable' \subseteq Present
             /\ Reachable' \cap NewSet \subseteq passed
      BY <1>2, <2>1, <2>2 DEF Reachable, Plain
    <2>4. WorldInv'
      BY <1>2, <2>1, <2>3, WorldInvRoute
    <2>5. pc' = "removeOld" => live' = (Plain(Fresh))'
      BY <2>1, <2>2 DEF Plain
    <2>6. QED
      BY <1>1, <2>1, <2>2, <2>4, <2>5 DEF CanaryInv
  <1>11. CASE RemoveOld
    <2>1. /\ UNCHANGED <<live, file, nnew, step, passed, targets>>
          /\ pc = "removeOld" /\ pc' = "finish" /\ live = Plain(Fresh)
      BY <1>11 DEF RemoveOld, CanaryInv
    <2>2. Present \ OldSet \subseteq Present'
      BY <1>2, <1>11, RemoveEffect DEF RemoveOld, WorldTypeOK
    <2>3. NewSet \subseteq Present /\ Fresh \subseteq passed /\ Fresh' = Fresh
      BY <2>1 DEF CanaryInv, Fresh
    <2>4. NewSet \subseteq Present'
      BY <1>2, <2>2, <2>3
    <2>5. Reachable' = Fresh
      BY <2>1 DEF Reachable, Plain
    <2>6. Routed'
      BY <1>2, <2>1, <2>3, <2>4, <2>5 DEF Routed
    <2>7. WorldInv'
      BY <1>2, <2>1, <2>6 DEF WorldInv
    <2>8. live' = (Plain(Fresh))'
      BY <2>1, <2>3 DEF Plain
    <2>9. QED
      BY <1>1, <2>1, <2>3, <2>4, <2>7, <2>8 DEF CanaryInv
  <1>12. CASE FinishBoth
    <2>1. /\ UNCHANGED <<docker, live, nnew, step, passed, targets>>
          /\ pc = "finish" /\ pc' \in {"done", "abort"}
          /\ file' = file \/ file'.stable = Fresh
      BY <1>12 DEF FinishBoth, Save, Idle
    <2>2. Fresh \subseteq passed
      BY <2>1 DEF CanaryInv
    <2>3. WorldInv'
      BY <1>2, <2>1, <2>2, WorldInvRoute DEF Reachable
    <2>4. QED
      BY <1>1, <2>1, <2>3 DEF CanaryInv
  <1>13. QED
    BY <1>3, <1>4, <1>5, <1>6, <1>7, <1>8, <1>9, <1>10, <1>11, <1>12
    DEF CanaryExecute, PromoteAndDrain

\* Every step keeps what an abort relies on: Execute never enters its middle.
LEMMA CanaryAbortInvStep == CanaryTInv /\ AbortInv /\ [CanaryNext]_vars => AbortInv'
  <1> SUFFICES ASSUME CanaryTInv, AbortInv, [CanaryNext]_vars PROVE AbortInv'
    OBVIOUS
  <1>1. WorldTypeOK
    BY DEF CanaryTInv, CanaryTypeOK
  <1>2. CASE DeployStep
    BY <1>1, <1>2, AbortInvDeployStep
  <1>3. CASE CanaryExecute
    <2>1. pc' \notin {"abortDrain", "abortRemove", "abortSave", "aborted"}
      <3>1. CASE CanaryWait \/ Observe
        <4>1. StartPercentage \in 1 .. 100
          BY CanaryAssumption
        <4>2. pc = "observe" => NextWeight(step) \in 1 .. 100
          <5>1. pc = "observe" => step \in 1 .. 100
            BY DEF CanaryTInv, CanaryLoopPc
          <5>2. QED
            BY <5>1, WeightType
        <4>3. /\ AtWeight(StartPercentage) \in {"shift", "promote"}
              /\ pc = "observe" => AtWeight(NextWeight(step)) \in {"shift", "promote"}
          BY <4>1, <4>2, WeightType
        <4>4. QED
          BY <3>1, <4>3 DEF CanaryWait, WaitAllHealthy, Observe, Elapsed
      <3>2. CASE ~(CanaryWait \/ Observe)
        BY <1>3, <3>2
        DEF CanaryExecute, SaveInitialBoth, Shift, RecordWeight, PromoteAndDrain, Promote,
            DrainOld, RouteNew, RemoveOld, FinishBoth, Save, Apply, Elapsed
      <3>3. QED
        BY <3>1, <3>2
    <2>2. QED
      BY <2>1 DEF AbortInv
  <1>4. CASE Environment
    BY <1>1, <1>4, AbortInvEnvironment
  <1>5. CASE UNCHANGED vars
    BY <1>5 DEF vars, AbortInv, Fresh, Present, Plain, Idle
  <1>6. QED
    BY <1>2, <1>3, <1>4, <1>5 DEF CanaryNext

\* The prologue, the abort and the world around keep it.
LEMMA CanaryInvStep ==
    ASSUME "vanish" \notin Faults
    PROVE  CanaryInv /\ AbortInv /\ [CanaryNext]_vars => (CanaryInv /\ AbortInv)'
  <1> SUFFICES ASSUME CanaryInv, AbortInv, [CanaryNext]_vars PROVE (CanaryInv /\ AbortInv)'
    OBVIOUS
  <1>1. CanaryTInv' /\ WorldTypeOK /\ WorldInv /\ CanaryTInv
    BY CanaryInvFacts, CanaryTypeStep
  <1>2. AbortInv'
    BY <1>1, CanaryAbortInvStep
  <1>3. CASE DeployStep
    <2>1. WorldInv'
      BY <1>1, <1>3, WorldInvDeployStep
    <2>2. pc' \in ProloguePc \cup AbortPc \cup Terminal \cup {"execute"}
      BY <1>1, <1>3, DeployStepType
    <2>3. pc' = "execute" => live' = (Plain(OldSet))' /\ (NewSet \subseteq Present)'
      BY <2>1 DEF WorldInv
    <2>4. pc' = "execute" => (OldSet \subseteq Present)'
      BY <2>1, <2>3 DEF WorldInv, Routed, Reachable, Plain
    <2>5. QED
      BY <1>1, <1>2, <2>1, <2>2, <2>3, <2>4
      DEF CanaryInv, CanaryExecutePc, ServingPc, CanaryLoopPc, ProloguePc, AbortPc, Terminal
  <1>4. CASE CanaryExecute
    BY <1>2, <1>4, CanaryInvExecute
  <1>5. CASE Environment \/ UNCHANGED vars
    <2>1. /\ UNCHANGED <<live, file, nnew, pc, step, passed, kept, targets>>
          /\ Present' = Present
      BY <1>1, <1>5, EnvironmentType DEF vars, Present
    <2>2. WorldInv'
      BY <1>1, <2>1 DEF WorldInv, Routed, Reachable, Plain, Fresh, Idle
    <2>3. QED
      BY <1>1, <1>2, <2>1, <2>2 DEF CanaryInv, Plain, CanaryUpstream, Fresh
  <1>6. QED
    BY <1>3, <1>4, <1>5 DEF CanaryNext

LEMMA CanaryInvInit == Init => CanaryInv /\ AbortInv
    BY CanaryTypeInit, WorldInvInit
    DEF Init, CanaryInv, CanaryExecutePc, ServingPc, CanaryLoopPc

-----------------------------------------------------------------------------
(* Canary: what follows.                                                   *)

\* While the canary is observed, a daemon that reads the state file gives every
\* container that still runs the requests it had: for any numbers of containers
\* and any percentages, and though writing the file or the config may fail.
THEOREM WeightIsRecorded ==
    ASSUME "vanish" \notin Faults
    PROVE  CanarySpec => []RecordedWeight
  <1>1. CanaryInv => RecordedWeight
    <2> SUFFICES ASSUME CanaryInv, pc = "observe", live.on \cap Listed # {}
                 PROVE  /\ FollowsState(StartPercentage)
                        /\ StateUpstream(StartPercentage) = [live EXCEPT !.on = @ \cap Listed]
      BY DEF RecordedWeight
    <2>1. /\ step \in 1 .. 99 /\ live = CanaryUpstream(step) /\ file.weight = step
          /\ file.status = "in_progress" /\ file.stable = OldSet /\ file.canary = Fresh
      BY DEF CanaryInv, CanaryTInv, CanaryLoopPc
    <2>2. OldSet # {} /\ Fresh # {}
      BY CanaryInvFacts
    <2>3. StateWeight(StartPercentage) = step
      BY <2>1 DEF StateWeight
    <2>4. live.on = OldSet \cup Fresh
      BY <2>1 DEF CanaryUpstream, Plain
    <2>5. StateServers(StartPercentage) = live.on \cap Listed
      BY <2>1, <2>3, <2>4 DEF StateServers
    <2>6. FollowsState(StartPercentage)
      BY <2>1, <2>2, <2>3, <2>5 DEF FollowsState
    <2>7. StateUpstream(StartPercentage) = [live EXCEPT !.on = @ \cap Listed]
      <3> DEFINE still == live.on \cap Listed
      <3>1. live = [on |-> OldSet \cup Fresh, backup |-> {}, preview |-> {}, weight |-> step]
        BY <2>1 DEF CanaryUpstream, Plain
      <3>2. [live EXCEPT !.on = @ \cap Listed] =
              [on |-> still, backup |-> {}, preview |-> {}, weight |-> step]
        BY <3>1
      <3>3. StateUpstream(StartPercentage) = [Plain(still) EXCEPT !.weight = step]
        BY <2>3, <2>5, Zenon DEF StateUpstream
      <3> HIDE DEF still
      <3>4. [Plain(still) EXCEPT !.weight = step] =
              [on |-> still, backup |-> {}, preview |-> {}, weight |-> step]
        BY DEF Plain
      <3>5. QED
        BY <3>2, <3>3, <3>4
    <2>8. QED
      BY <2>6, <2>7
  <1>2. QED
    BY CanaryInvInit, CanaryInvStep, <1>1, PTL DEF CanarySpec

\* An abort of a canary that ends well ends on containers that exist, in the
\* proxy and in the state file, and leaves nothing of its own but what could not
\* be removed; whatever failed before, and after new containers vanished too.
THEOREM CanaryAbortEndsServing == CanarySpec => []AbortKeepsServing
  <1>1. Init => AbortInv
    BY DEF Init, AbortInv
  <1>2. AbortInv => AbortKeepsServing
    BY AbortServes
  <1>3. QED
    BY CanaryTypeInit, CanaryTypeStep, CanaryAbortInvStep, <1>1, <1>2, PTL DEF CanarySpec

\* How many containers there are, as the loads count them.
LEMMA GroupCounts ==
    ASSUME nnew \in 1 .. NNew
    PROVE  /\ Cardinality(OldSet) = NOld /\ Cardinality(Fresh) = nnew
           /\ Cardinality({}) = 0
           /\ OldSet \cap OldSet = OldSet /\ OldSet \cap NewSet = {}
           /\ Fresh \cap OldSet = {} /\ Fresh \cap NewSet = Fresh
           /\ (OldSet \cup Fresh) \cap OldSet = OldSet
           /\ (OldSet \cup Fresh) \cap NewSet = Fresh
           /\ OldSet # {} /\ Fresh # {}
  <1>1. NOld \in Nat \ {0} /\ NNew \in Nat \ {0} /\ nnew \in 1 .. NNew /\ nnew \in 0 .. NNew
    BY CountAssumption
  <1>2. Cardinality(1 .. NOld) = IF 1 > NOld THEN 0 ELSE NOld - 1 + 1
    BY <1>1, FS_Interval
  <1>3. Cardinality((NOld + 1) .. (NOld + nnew)) =
          IF NOld + 1 > NOld + nnew THEN 0 ELSE (NOld + nnew) - (NOld + 1) + 1
    BY <1>1, FS_Interval
  <1>4. Cardinality(OldSet) = NOld /\ Cardinality(Fresh) = nnew
    BY <1>1, <1>2, <1>3 DEF OldSet, Fresh
  <1>5. NOld + 1 \in Fresh
    BY <1>1 DEF Fresh
  <1>6. OldSet \cap NewSet = {} /\ Fresh \subseteq NewSet /\ OldSet # {}
    BY <1>1, Ids
  <1>7. QED
    BY <1>4, <1>5, <1>6, FS_EmptySet

\* The loads of a group, by whichever kind of weight.
Heads(n, byGroup) == IF byGroup THEN 1 ELSE n

LEMMA CanaryLoads ==
    ASSUME nnew \in 1 .. NNew, NEW byGroup \in BOOLEAN, NEW w \in 1 .. 99
    PROVE  /\ OldLoad(CanaryUpstream(w), byGroup) = Heads(NOld, byGroup) * (100 - w)
           /\ NewLoad(CanaryUpstream(w), byGroup) = Heads(nnew, byGroup) * w
  <1>1. /\ CanaryUpstream(w).on = OldSet \cup Fresh /\ CanaryUpstream(w).weight = w
        /\ w > 0 /\ w \notin {0, 100} /\ w \in Nat /\ 100 - w \in Nat
    BY DEF CanaryUpstream, Plain
  <1>2. /\ CanaryUpstream(w).on \cap OldSet = OldSet /\ CanaryUpstream(w).on \cap NewSet = Fresh
        /\ OldSet # {} /\ Fresh # {}
        /\ Cardinality(OldSet) = NOld /\ Cardinality(Fresh) = nnew
    BY <1>1, GroupCounts
  <1>3. NOld \in Nat /\ nnew \in Nat
    BY CountAssumption
  <1>4. CASE byGroup
    BY <1>1, <1>2, <1>4 DEF OldLoad, NewLoad, Heads
  <1>5. CASE ~byGroup
    <2>1. OldLoad(CanaryUpstream(w), byGroup) = NOld * (100 - w)
      BY <1>1, <1>2, <1>5 DEF OldLoad
    <2>2. NewLoad(CanaryUpstream(w), byGroup) = nnew * w
      BY <1>1, <1>2, <1>5 DEF NewLoad
    <2>3. QED
      BY <1>5, <2>1, <2>2 DEF Heads
  <1>6. QED
    BY <1>4, <1>5

LEMMA PlainLoads ==
    ASSUME nnew \in 1 .. NNew, NEW byGroup \in BOOLEAN, NEW u, u.weight = 0
    PROVE  /\ u.on = OldSet => OldLoad(u, byGroup) = NOld /\ NewLoad(u, byGroup) = 0
           /\ u.on = Fresh => OldLoad(u, byGroup) = 0 /\ NewLoad(u, byGroup) = nnew
  <1>1. NOld \in Nat /\ nnew \in Nat
    BY CountAssumption
  <1>2. ASSUME u.on = OldSet PROVE OldLoad(u, byGroup) = NOld /\ NewLoad(u, byGroup) = 0
    <2>1. u.on \cap OldSet = OldSet /\ u.on \cap NewSet = {}
      BY <1>2, GroupCounts
    <2>2. Cardinality(u.on \cap OldSet) = NOld /\ Cardinality(u.on \cap NewSet) = 0
      BY <2>1, GroupCounts, Zenon
    <2>3. QED
      BY <1>1, <2>2 DEF OldLoad, NewLoad
  <1>3. ASSUME u.on = Fresh PROVE OldLoad(u, byGroup) = 0 /\ NewLoad(u, byGroup) = nnew
    <2>1. u.on \cap OldSet = {} /\ u.on \cap NewSet = Fresh
      BY <1>3, GroupCounts
    <2>2. Cardinality(u.on \cap OldSet) = 0 /\ Cardinality(u.on \cap NewSet) = nnew
      BY <2>1, GroupCounts, Zenon
    <2>3. QED
      BY <1>1, <2>2 DEF OldLoad, NewLoad
  <1>4. QED
    BY <1>2, <1>3

LEMMA LoadType ==
    ASSUME NEW u \in Upstream, NEW byGroup \in BOOLEAN
    PROVE  OldLoad(u, byGroup) \in Nat /\ NewLoad(u, byGroup) \in Nat
  <1>1. u.weight \in 0 .. 100
    BY DEF Upstream
  <1> DEFINE n == Cardinality(u.on \cap NewSet)
             o == Cardinality(u.on \cap OldSet)
  <1>2. n \in Nat /\ o \in Nat
    <2>1. IsFiniteSet(OldSet) /\ IsFiniteSet(NewSet)
      BY CountAssumption, FS_Interval DEF OldSet, NewSet
    <2>2. IsFiniteSet(u.on \cap OldSet) /\ IsFiniteSet(u.on \cap NewSet)
      BY <2>1, FS_Subset
    <2>3. QED
      BY <2>2, FS_CardinalityType
  <1>3. OldLoad(u, byGroup) \in {100 - u.weight, o * 1, o * (100 - u.weight)}
    BY DEF OldLoad
  <1>4. NewLoad(u, byGroup) \in {u.weight, n * 1, n * u.weight}
    BY DEF NewLoad
  <1> HIDE DEF n, o
  <1>5. QED
    BY <1>1, <1>2, <1>3, <1>4

LEMMA LevelOf ==
    ASSUME nnew \in 1 .. NNew, NEW u
    PROVE  /\ u.on = OldSet => Level(u) = 0
           /\ u.on = Fresh => Level(u) = 100
           /\ u.on = OldSet \cup Fresh => Level(u) = u.weight
    BY GroupCounts DEF Level

\* A larger weight moves requests, whatever the numbers a and b of servers.
LEMMA LargerWeight ==
    ASSUME NEW a \in Nat \ {0}, NEW b \in Nat \ {0}, NEW v \in 1 .. 99, NEW w \in 1 .. 99, v < w
    PROVE  (b * w) * (a * (100 - v)) > (b * v) * (a * (100 - w))
  <1> DEFINE k == a * b
  <1>1. k \in Nat /\ k > 0
    OBVIOUS
  <1>2. (b * w) * (a * (100 - v)) = 100 * (k * w) - k * (v * w)
    OBVIOUS
  <1>3. (b * v) * (a * (100 - w)) = 100 * (k * v) - k * (v * w)
    OBVIOUS
  <1>4. k * w > k * v
    <2>1. k * w - k * v = k * (w - v) /\ w - v \in Nat /\ w - v > 0
      BY <1>1
    <2> HIDE DEF k
    <2>2. k * (w - v) > 0
      BY <1>1, <2>1
    <2>3. k * w \in Int /\ k * v \in Int
      BY <1>1
    <2>4. QED
      BY <2>1, <2>2, <2>3
  <1> HIDE DEF k
  <1>5. k * w \in Int /\ k * v \in Int /\ k * (v * w) \in Int
    BY <1>1
  <1>6. QED
    BY <1>2, <1>3, <1>4, <1>5

\* What one step may do to the traffic.
Moves(byGroup) ==
    LET before == NewLoad(live, byGroup) * OldLoad(live', byGroup)
        after == NewLoad(live', byGroup) * OldLoad(live, byGroup)
    IN  after >= before /\ (pc = "shift" /\ pc' # pc => after > before)

Advances ==
    pc' \in CanaryExecutePc =>
         /\ \A byGroup \in BOOLEAN : Moves(byGroup)
         /\ Level(live') <= IF Level(live) = 0 THEN StartPercentage ELSE Level(live) + Increment

\* A round of the loop.
LEMMA ShiftMoves ==
    ASSUME CanaryInv, Shift, pc' \in CanaryExecutePc
    PROVE  Advances
  <1>1. pc = "shift" /\ live' = CanaryUpstream(step)
    BY DEF Shift, Apply, CanaryExecutePc, CanaryLoopPc
  <1>2. /\ step \in 1 .. 99 /\ nnew \in 1 .. NNew /\ NOld \in Nat \ {0} /\ nnew \in Nat \ {0}
        /\ StartPercentage \in 1 .. 100 /\ Increment \in 1 .. 100
    BY <1>1, CanaryInvFacts, CountAssumption, CanaryAssumption DEF CanaryInv, CanaryTInv, CanaryLoopPc
  <1>3. live'.on = OldSet \cup Fresh /\ live'.weight = step
    BY <1>1 DEF CanaryUpstream, Plain
  <1>4. Level(live') = step
    BY <1>2, <1>3, LevelOf
  <1>5. CASE live = Plain(OldSet) /\ step = StartPercentage
    <2>1. live.on = OldSet /\ live.weight = 0
      BY <1>5 DEF Plain
    <2>2. Level(live) = 0
      BY <1>2, <2>1, LevelOf
    <2>3. ASSUME NEW byGroup \in BOOLEAN PROVE Moves(byGroup)
      <3>1. OldLoad(live, byGroup) = NOld /\ NewLoad(live, byGroup) = 0
        BY <1>2, <2>1, PlainLoads
      <3>2. /\ OldLoad(live', byGroup) = Heads(NOld, byGroup) * (100 - step)
            /\ NewLoad(live', byGroup) = Heads(nnew, byGroup) * step
        BY <1>1, <1>2, CanaryLoads
      <3>3. Heads(NOld, byGroup) \in Nat \ {0} /\ Heads(nnew, byGroup) \in Nat \ {0}
        BY <1>2 DEF Heads
      <3>4. ASSUME NEW a \in Nat \ {0}, NEW b \in Nat \ {0}, NEW n \in Nat \ {0}, NEW w \in 1 .. 99
            PROVE  (b * w) * n > 0 * (a * (100 - w))
        <4>1. b * w \in Nat /\ b * w > 0
          OBVIOUS
        <4>2. (b * w) * n > 0
          BY <4>1
        <4>3. 0 * (a * (100 - w)) = 0
          OBVIOUS
        <4>4. QED
          BY <4>2, <4>3
      <3>5. NewLoad(live', byGroup) * OldLoad(live, byGroup)
              > NewLoad(live, byGroup) * OldLoad(live', byGroup)
        BY <1>2, <3>1, <3>2, <3>3, <3>4
      <3>6. /\ NewLoad(live', byGroup) \in Int /\ OldLoad(live, byGroup) \in Int
            /\ NewLoad(live, byGroup) \in Int /\ OldLoad(live', byGroup) \in Int
        BY <1>2, <3>1, <3>2, <3>3
      <3>7. QED
        BY <3>5, <3>6 DEF Moves
    <2>4. QED
      BY <1>2, <1>4, <1>5, <2>2, <2>3 DEF Advances
  <1>6. CASE /\ live.weight \in 1 .. 99 /\ live = CanaryUpstream(live.weight)
             /\ step = NextWeight(live.weight)
    <2>1. live.weight < step /\ step <= live.weight + Increment
      BY <1>6, WeightGrows
    <2>2. live.on = OldSet \cup Fresh
      BY <1>6, Zenon DEF CanaryUpstream, Plain
    <2>3. Level(live) = live.weight
      BY <1>2, <2>2, LevelOf
    <2>4. ASSUME NEW byGroup \in BOOLEAN PROVE Moves(byGroup)
      <3> DEFINE v == live.weight
      <3>1. /\ OldLoad(CanaryUpstream(v), byGroup) = Heads(NOld, byGroup) * (100 - v)
            /\ NewLoad(CanaryUpstream(v), byGroup) = Heads(nnew, byGroup) * v
        BY <1>2, <1>6, CanaryLoads
      <3>2. /\ OldLoad(live', byGroup) = Heads(NOld, byGroup) * (100 - step)
            /\ NewLoad(live', byGroup) = Heads(nnew, byGroup) * step
        BY <1>1, <1>2, CanaryLoads
      <3>3. Heads(NOld, byGroup) \in Nat \ {0} /\ Heads(nnew, byGroup) \in Nat \ {0}
        BY <1>2 DEF Heads
      <3>4. (Heads(nnew, byGroup) * step) * (Heads(NOld, byGroup) * (100 - v))
              > (Heads(nnew, byGroup) * v) * (Heads(NOld, byGroup) * (100 - step))
        BY <1>2, <1>6, <2>1, <3>3, LargerWeight
      <3>5. NewLoad(live', byGroup) * OldLoad(live, byGroup)
              > NewLoad(live, byGroup) * OldLoad(live', byGroup)
        BY <1>6, <3>1, <3>2, <3>4
      <3>6. /\ NewLoad(live', byGroup) * OldLoad(live, byGroup) \in Int
            /\ NewLoad(live, byGroup) * OldLoad(live', byGroup) \in Int
        BY <1>2, <1>6, <3>1, <3>2, <3>3
      <3>7. QED
        BY <3>5, <3>6 DEF Moves
    <2>5. QED
      BY <1>2, <1>4, <1>6, <2>1, <2>3, <2>4 DEF Advances
  <1>7. QED
    BY <1>1, <1>5, <1>6 DEF CanaryInv

\* The new containers alone.
LEMMA AllMoves ==
    ASSUME CanaryInv, Promote \/ RouteNew, pc' \in CanaryExecutePc
    PROVE  Advances
  <1>1. live'.on = Fresh /\ live'.weight = 0 /\ pc \in {"promote", "routeNew"}
    BY DEF Promote, RouteNew, Apply, Plain, CanaryExecutePc, CanaryLoopPc
  <1>2. /\ nnew \in 1 .. NNew /\ NOld \in Nat \ {0} /\ nnew \in Nat \ {0}
        /\ StartPercentage \in 1 .. 100 /\ Increment \in 1 .. 100
    BY CanaryInvFacts, CountAssumption, CanaryAssumption
  <1>3. /\ Level(live') = 100
        /\ \A byGroup \in BOOLEAN : OldLoad(live', byGroup) = 0 /\ NewLoad(live', byGroup) = nnew
    BY <1>1, <1>2, LevelOf, PlainLoads
  <1>4. \A byGroup \in BOOLEAN : OldLoad(live, byGroup) \in Nat /\ NewLoad(live, byGroup) \in Nat
    BY CanaryInvFacts, LoadType
  <1>5. ASSUME NEW byGroup \in BOOLEAN PROVE Moves(byGroup)
    <2>1. /\ OldLoad(live, byGroup) \in Nat /\ NewLoad(live, byGroup) \in Nat
          /\ OldLoad(live', byGroup) = 0 /\ NewLoad(live', byGroup) = nnew
      BY <1>3, <1>4
    <2>2. /\ NewLoad(live, byGroup) * OldLoad(live', byGroup) = 0
          /\ NewLoad(live', byGroup) * OldLoad(live, byGroup) \in Nat
      BY <1>2, <2>1
    <2>3. QED
      BY <1>1, <2>2 DEF Moves
  <1>6. 100 <= IF Level(live) = 0 THEN StartPercentage ELSE Level(live) + Increment
    <2>1. CASE live = Plain(OldSet) /\ pc = "promote" /\ step = StartPercentage
      <3>1. Level(live) = 0
        BY <1>2, <2>1, LevelOf DEF Plain
      <3>2. step >= 100
        BY <2>1 DEF CanaryInv
      <3>3. QED
        BY <2>1, <3>1, <3>2
    <2>2. CASE /\ live.weight \in 1 .. 99 /\ live = CanaryUpstream(live.weight)
               /\ step = NextWeight(live.weight) /\ pc = "promote"
      <3>1. live.on = OldSet \cup Fresh
        BY <2>2, Zenon DEF CanaryUpstream, Plain
      <3>2. Level(live) = live.weight
        BY <1>2, <3>1, LevelOf
      <3>3. step = 100
        BY <2>2 DEF CanaryInv
      <3>4. step <= live.weight + Increment
        BY <2>2, WeightGrows
      <3>5. 100 <= live.weight + Increment /\ live.weight # 0
        BY <1>2, <2>2, <3>3, <3>4
      <3>6. QED
        BY <3>2, <3>5, Zenon
    <2>3. CASE pc = "routeNew"
      <3>1. live.on = Fresh
        BY <2>3 DEF CanaryInv
      <3>2. Level(live) = 100
        BY <1>2, <3>1, LevelOf
      <3>3. QED
        BY <1>2, <3>2
    <2>4. QED
      BY <1>1, <2>1, <2>2, <2>3 DEF CanaryInv
  <1>7. QED
    BY <1>3, <1>5, <1>6 DEF Advances

\* A step that leaves the traffic alone.
LEMMA NoneMoves ==
    ASSUME CanaryInv, live' = live, ~(pc = "shift" /\ pc' # pc)
    PROVE  Advances
  <1>1. live \in Upstream /\ StartPercentage \in 1 .. 100 /\ Increment \in 1 .. 100
    BY CanaryInvFacts, CanaryAssumption
  <1>2. Level(live) \in 0 .. 100
    BY <1>1 DEF Level, Upstream
  <1>3. ASSUME NEW byGroup \in BOOLEAN PROVE Moves(byGroup)
    <2>1. NewLoad(live, byGroup) \in Nat /\ OldLoad(live, byGroup) \in Nat
      BY <1>1, LoadType
    <2>2. NewLoad(live, byGroup) * OldLoad(live, byGroup) \in Nat
      BY <2>1
    <2>3. QED
      BY <2>2 DEF Moves
  <1>4. QED
    BY <1>1, <1>2, <1>3 DEF Advances

LEMMA StepAdvances ==
    ASSUME CanaryInv, CanaryNext
    PROVE  Advances
  <1> SUFFICES ASSUME pc' \in CanaryExecutePc PROVE Advances
    BY DEF Advances
  <1>1. CASE Shift
    BY <1>1, ShiftMoves
  <1>2. CASE Promote \/ RouteNew
    BY <1>2, AllMoves
  <1>3. CASE DeployStep
    <2>1. pc' # "failed" /\ pc' # "abortDrain"
      BY DEF CanaryExecutePc, CanaryLoopPc
    <2>2. ~AbortRoute
      BY <2>1 DEF AbortRoute
    <2>3. live' = live /\ pc # "shift"
      BY <1>3, <2>2
      DEF DeployStep, EarlySave, Gather, Prepare, DiscardNew, DiscardSave,
          AbortDrain, AbortRemove, AbortSave
    <2>4. QED
      BY <2>3, NoneMoves
  <1>4. CASE Environment
    <2>1. live' = live /\ pc' = pc
      BY <1>4, CanaryInvFacts, EnvironmentType
    <2>2. QED
      BY <2>1, NoneMoves
  <1>5. CASE CanaryExecute /\ ~Shift /\ ~Promote /\ ~RouteNew
    <2>1. live' = live /\ pc # "shift"
      BY <1>5
      DEF CanaryExecute, SaveInitialBoth, CanaryWait, WaitAllHealthy, RecordWeight, Observe,
          PromoteAndDrain, DrainOld, RemoveOld, FinishBoth
    <2>2. QED
      BY <2>1, NoneMoves
  <1>6. QED
    BY <1>1, <1>2, <1>3, <1>4, <1>5 DEF CanaryNext

\* Users only ever move to the new version while a canary advances, at least a
\* little in every round and never by more than is configured, for any numbers
\* of containers, any percentages, and proxies that weigh servers or groups.
THEOREM UsersAdvance ==
    ASSUME "vanish" \notin Faults
    PROVE  CanarySpec => CanaryAdvances
  <1>1. CanaryInv /\ [CanaryNext]_vars => [Advances]_vars
    BY StepAdvances
  <1>2. QED
    BY CanaryInvInit, CanaryInvStep, <1>1, PTL DEF CanarySpec, CanaryAdvances, Advances, Moves

\* Every step of a canary is a step of Rollout or none.
LEMMA CanaryMapStep ==
    ASSUME CanaryInv, CanaryInv', [CanaryNext]_vars
    PROVE  [R!RolloutNext]_R!rolloutVars
  <1>1. Routed' /\ WorldTypeOK
    BY CanaryInvFacts DEF CanaryInv, WorldInv
  <1>2. CASE DeployStep
    BY <1>1, <1>2, DeployStepKind, StepMaps
  <1>3. CASE Environment
    BY <1>1, <1>3, EnvironmentType, StepMaps
  <1>4. CASE RemoveOld
    <2>1. Present' \subseteq Present
      BY <1>4, CanaryInvFacts, RemoveEffect DEF RemoveOld, WorldTypeOK
    <2>2. QED
      BY <1>1, <1>4, <2>1, StepMaps DEF RemoveOld
  <1>5. CASE CanaryWait
    <2>1. UNCHANGED <<docker, live>>
      BY <1>5 DEF CanaryWait, WaitAllHealthy
    <2>2. \/ passed' = passed
          \/ step <= nnew /\ passed' \in {passed, passed \cup {NewAt(step)}}
      BY <1>5 DEF CanaryWait, WaitAllHealthy, WaitHealthy, Observed
    <2>3. step <= nnew => NewAt(step) \in Container
      BY CanaryInvFacts DEF NewAt, Container
    <2>4. QED
      BY <1>1, <2>1, <2>2, <2>3, StepMaps
  <1>6. CASE UNCHANGED vars
    BY <1>1, <1>6, StepMaps DEF vars
  <1>7. CASE CanaryExecute /\ ~RemoveOld /\ ~CanaryWait
    <2>1. docker' = docker /\ passed' = passed
      BY <1>7
      DEF CanaryExecute, SaveInitialBoth, Shift, RecordWeight, Observe, PromoteAndDrain,
          Promote, DrainOld, RouteNew, FinishBoth
    <2>2. QED
      BY <1>1, <2>1, StepMaps
  <1>8. QED
    BY <1>2, <1>3, <1>4, <1>5, <1>6, <1>7 DEF CanaryNext

\* Unless new containers vanish from a listing, a canary has zero downtime:
\* requests always go to some container, only to ones that exist and, if new,
\* passed their health check; none is removed while the proxy routes to it.
THEOREM CanaryImplementsRollout ==
    ASSUME "vanish" \notin Faults
    PROVE  CanarySpec => ImplementsRollout
  <1>1. CanaryInv /\ CanaryInv' /\ [CanaryNext]_vars => [R!RolloutNext]_R!rolloutVars
    BY CanaryMapStep
  <1>2. Init => R!RolloutInit
    BY MapInit
  <1>3. QED
    BY CanaryInvInit, CanaryInvStep, <1>1, <1>2, PTL DEF CanarySpec, ImplementsRollout, R!RolloutSpec


-----------------------------------------------------------------------------
(* Blue-green: the types.                                                  *)

LEMMA BGTypeInit == BGInit => BGTypeOK
  <1> SUFFICES ASSUME BGInit PROVE BGTypeOK
    OBVIOUS
  <1>1. OldSet \in SUBSET Container /\ nnew \in 0 .. NNew
    BY CountAssumption DEF BGInit, Init, OldSet, Container
  <1>2. live \in Upstream /\ file \in StateFile
    BY <1>1, PlainType, IdleType DEF BGInit, Init
  <1>3. docker \in [Container -> Status]
    BY DEF BGInit, Init, Status
  <1>4. WorldTypeOK
    BY <1>1, <1>2, <1>3 DEF BGInit, Init, WorldTypeOK
  <1>5. QED
    BY <1>4, CountAssumption, BlueGreenAssumption DEF BGInit, Init, BGTypeOK, ProloguePc

\* Every step of the strategy keeps the types of the world.
LEMMA ExecuteWorldType ==
    ASSUME BGTypeOK, BGExecute
    PROVE  WorldTypeOK'
  <1> USE DEF WorldTypeOK
  <1>1. /\ WorldTypeOK /\ step \in Nat \ {0} /\ nnew \in 0 .. NNew /\ rules \in Rules
        /\ live \in Upstream /\ file \in StateFile /\ cancelled \in BOOLEAN
    BY CountAssumption DEF BGTypeOK
  <1>2. Fresh \in SUBSET Container /\ OldSet \in SUBSET Container
    BY <1>1, Ids
  <1>3. CASE SaveInitialBoth \/ BGWait \/ PromoteAndDrain \/ FinishBoth
    BY <1>1, <1>3, SharedType DEF BGWait
  <1>4. CASE Publish \/ Withdraw \/ Cutover \/ RollbackRoute
    <2>1. Plain(OldSet) \in Upstream /\ Plain(Fresh) \in Upstream
          /\ Plain(OldSet \cup Fresh) \in Upstream
      BY <1>2, PlainType
    <2>2. PreviewUpstream \in Upstream /\ BlueOnly \in Upstream
      <3>1. PreviewUpstream = [on |-> OldSet, backup |-> {}, preview |-> Fresh, weight |-> 0]
        BY DEF PreviewUpstream, BlueOnly, Plain
      <3>2. QED
        BY <1>2, <2>1, <3>1 DEF BlueOnly, Upstream
    <2>3. CutoverUpstream \in Upstream
      <3>1. GreenWeight \in 0 .. 100
        BY BlueGreenAssumption
      <3>2. [Plain(OldSet \cup Fresh) EXCEPT !.weight = GreenWeight] \in Upstream
        BY <2>1, <3>1 DEF Upstream
      <3>3. QED
        BY <2>1, <3>2 DEF CutoverUpstream
    <2>4. live' \in Upstream
      BY <1>1, <1>4, <2>2, <2>3, ApplyType DEF Publish, Withdraw, Cutover, RollbackRoute
    <2>5. QED
      BY <1>1, <1>4, <2>4 DEF Publish, Withdraw, Cutover, RollbackRoute
  <1>5. CASE SaveToken \/ UndoSave \/ RecordCutover
    <2>1. /\ [file EXCEPT !.token = TRUE] \in StateFile
          /\ [file EXCEPT !.token = FALSE,
                          !.weight = IF rules.watch THEN 100 ELSE GreenWeight] \in StateFile
      <3>1. (IF rules.watch THEN 100 ELSE GreenWeight) \in 0 .. 100
        BY BlueGreenAssumption
      <3>2. QED
        BY <1>1, <3>1 DEF StateFile
    <2>2. [Idle(OldSet) EXCEPT !.failure = TRUE] \in StateFile
      <3>1. Idle(OldSet) \in StateFile
        BY <1>2, IdleType
      <3>2. QED
        BY <3>1 DEF StateFile
    <2>3. file' \in StateFile
      <3>1. CASE SaveToken
        BY <1>1, <2>1, <3>1, SaveType DEF SaveToken
      <3>2. CASE UndoSave
        BY <1>1, <2>2, <3>2, SaveType DEF UndoSave
      <3>3. CASE RecordCutover
        BY <1>1, <2>1, <3>3, SaveType DEF RecordCutover
      <3>4. QED
        BY <1>5, <3>1, <3>2, <3>3
    <2>4. QED
      BY <1>1, <1>5, <2>3 DEF SaveToken, UndoSave, RecordCutover
  <1>6. CASE UndoRemove
    <2>1. docker' \in [Container -> Status] /\ kept' \in SUBSET Container
      BY <1>1, <1>2, <1>6, RemoveEffect DEF UndoRemove
    <2>2. QED
      BY <1>1, <1>6, <2>1 DEF UndoRemove
  <1>7. CASE RunChecks \/ Subscribe \/ Soak \/ Window \/ RollbackDrain
    BY <1>1, <1>7 DEF RunChecks, Subscribe, Soak, Window, RollbackDrain
  <1>8. QED
    BY <1>3, <1>4, <1>5, <1>6, <1>7 DEF BGExecute

\* Where each step of the strategy may lead.
LEMMA ExecutePlaces ==
    ASSUME BGExecute
    PROVE  /\ pc \in BeforePc \cup AfterPc \cup UndoPc
           /\ pc' \in (BeforePc \ {"execute"}) \cup AfterPc \cup UndoPc
                        \cup {"abort", "done", "undone"}
  <1> USE DEF BeforePc, AfterPc, UndoPc
  <1>1. CASE SaveInitialBoth \/ BGWait \/ SaveToken \/ Publish \/ RunChecks \/ Withdraw
    BY <1>1
    DEF SaveInitialBoth, BGWait, WaitAllHealthy, SaveToken, Publish, RunChecks, Withdraw,
        Save, Apply
  <1>2. CASE UndoRemove \/ UndoSave \/ Subscribe \/ Cutover \/ RecordCutover
    BY <1>2 DEF UndoRemove, UndoSave, Subscribe, Cutover, RecordCutover, Save, Apply
  <1>3. CASE Soak \/ Window \/ RollbackRoute \/ RollbackDrain \/ PromoteAndDrain \/ FinishBoth
    BY <1>3
    DEF Soak, Window, RollbackRoute, RollbackDrain, PromoteAndDrain, Promote, DrainOld,
        RouteNew, RemoveOld, FinishBoth, Save, Apply, Elapsed
  <1>4. QED
    BY <1>1, <1>2, <1>3 DEF BGExecute

LEMMA BGTypeStep == BGTypeOK /\ [BGNext]_bgVars => BGTypeOK'
  <1> SUFFICES ASSUME BGTypeOK, [BGNext]_bgVars PROVE BGTypeOK'
    OBVIOUS
  <1>1. /\ WorldTypeOK /\ step \in 1 .. (NNew + 1) /\ nnew \in 0 .. NNew
        /\ NNew \in Nat /\ NNew >= 1
    BY CountAssumption DEF BGTypeOK, WorldTypeOK
  <1>2. CASE DeployStep /\ UNCHANGED <<rules, errors>>
    <2>1. /\ WorldTypeOK' /\ step' = step
          /\ pc' \in ProloguePc \cup AbortPc \cup Terminal \cup {"execute"}
      BY <1>1, <1>2, DeployStepType
    <2>2. QED
      BY <1>2, <2>1 DEF BGTypeOK, BeforePc
  <1>3. CASE BGExecute /\ UNCHANGED <<rules, errors>>
    <2>1. WorldTypeOK'
      BY <1>3, ExecuteWorldType
    <2>2. pc' \in (BeforePc \ {"execute"}) \cup AfterPc \cup UndoPc
                     \cup {"abort", "done", "undone"}
      BY <1>3, ExecutePlaces
    <2>3. step' \in {step, 1} \/ (step <= nnew /\ step' = step + 1)
      BY <1>3
      DEF BGExecute, SaveInitialBoth, BGWait, WaitAllHealthy, SaveToken, Publish, RunChecks,
          Withdraw, UndoRemove, UndoSave, Subscribe, Cutover, RecordCutover, Soak, Window,
          RollbackRoute, RollbackDrain, PromoteAndDrain, Promote, DrainOld, RouteNew,
          RemoveOld, FinishBoth
    <2>4. step' \in 1 .. (NNew + 1)
      BY <1>1, <2>3
    <2>5. QED
      BY <1>3, <2>1, <2>2, <2>4 DEF BGTypeOK, AbortPc, Terminal
  <1>4. CASE Environment /\ UNCHANGED <<rules, errors>>
    <2>1. WorldTypeOK' /\ UNCHANGED <<pc, step>>
      BY <1>1, <1>4, EnvironmentType
    <2>2. QED
      BY <1>4, <2>1 DEF BGTypeOK
  <1>5. CASE GreenError
    <2>1. UNCHANGED vars /\ rules' = rules /\ errors <= MaxErrors /\ errors' = errors + 1
      BY <1>5 DEF GreenError
    <2>2. errors' \in 0 .. (MaxErrors + 1)
      BY <2>1, BlueGreenAssumption DEF BGTypeOK
    <2>3. WorldTypeOK'
      BY <1>1, <2>1, Zenon DEF vars, WorldTypeOK
    <2>4. UNCHANGED <<pc, step>>
      BY <2>1 DEF vars
    <2>5. QED
      BY <2>1, <2>2, <2>3, <2>4 DEF BGTypeOK
  <1>6. CASE UNCHANGED bgVars
    BY <1>6, Zenon DEF bgVars, vars, BGTypeOK, WorldTypeOK
  <1>7. QED
    BY <1>2, <1>3, <1>4, <1>5, <1>6 DEF BGNext

\* The variables of a blue-green deployment always hold values of their types;
\* the count of errors stops at the one that is too many.
THEOREM BGTypeCorrect == BGSpec => []BGTypeOK
  <1>1. QED
    BY BGTypeInit, BGTypeStep, PTL DEF BGSpec

-----------------------------------------------------------------------------
(* Blue-green: users, the preview, the old containers and the state file.  *)

\* No old container was stopped or removed by anyone.
OldStand == \A c \in OldSet : docker[c] \notin {"stopped", "absent"}

\* The file of a release that is not over: it names both groups.
BothNamed ==
    /\ file.status = "in_progress"
    /\ file.stable = OldSet /\ file.canary = Fresh

\* Users stay with the old containers until the cutover and return to them
\* before green goes, the token is in the file while the link works and no
\* longer, and the old containers stand until removeOld.
UsersInv ==
    /\ pc \in ProloguePc \cup {"execute", "healthy", "preview"} => live = BlueOnly
    /\ pc \in BeforePc \cup UndoPc \cup {"rollbackDrain", "undone"} =>
         live.on = OldSet /\ live.backup = {}
    /\ live.preview # {} => live.on = OldSet /\ live.weight = 0
    /\ pc \in ProloguePc \cup {"execute", "healthy"} => ~file.token
    /\ pc \in {"publish", "check", "withdraw", "subscribe", "cutover"} /\ rules.link => file.token
    /\ pc \in {"soak", "window"} \cup (Terminal \ {"failed"}) => ~file.token
    /\ pc \in (BeforePc \ {"execute"}) \cup AfterPc \cup UndoPc => BothNamed
    /\ pc \in ProloguePc \cup BeforePc \cup (AfterPc \ {"finish"}) \cup UndoPc \cup {"undone"} =>
         OldStand
    /\ pc \in {"undoSave", "undone"} => Fresh \cap Present \subseteq kept
    /\ pc = "undone" => file = [Idle(OldSet) EXCEPT !.failure = TRUE]

LEMMA UsersInit == BGInit => UsersInv
  <1> SUFFICES ASSUME BGInit PROVE UsersInv
    OBVIOUS
  <1>1. pc = "start" /\ live = BlueOnly /\ ~file.token
    BY DEF BGInit, Init, BlueOnly, Idle
  <1>2. BlueOnly.preview = {}
    BY DEF BlueOnly, Plain
  <1>3. OldStand
    BY CountAssumption DEF BGInit, Init, OldStand, OldSet, Container
  <1>4. QED
    BY <1>1, <1>2, <1>3 DEF UsersInv, BeforePc, AfterPc, UndoPc, Terminal

\* Removing new containers leaves the old ones standing.
LEMMA StandRemove ==
    ASSUME nnew \in 0 .. NNew, NEW S \in SUBSET Fresh, NEW interrupted,
           RemoveContainers(S, interrupted), OldStand
    PROVE  OldStand'
  <1>1. PICK removed \in SUBSET S, stopped \in SUBSET S :
            docker' = [c \in Container |->
                            IF c \in removed THEN "absent"
                            ELSE IF c \in stopped /\ docker[c] # "absent"
                                 THEN "stopped" ELSE docker[c]]
    BY DEF RemoveContainers
  <1>2. ASSUME NEW c \in OldSet PROVE docker'[c] = docker[c]
    <2>1. c \in Container /\ c \notin Fresh
      BY Ids
    <2>2. QED
      BY <1>1, <2>1
  <1>3. QED
    BY <1>2 DEF OldStand, OldSet

\* Containers that exit and start again are neither stopped nor removed.
LEMMA StandEnvironment ==
    ASSUME WorldTypeOK, Environment, OldStand
    PROVE  OldStand'
  <1>1. docker \in [Container -> Status]
    BY DEF WorldTypeOK
  <1>2. ASSUME NEW d \in Container, HealthCheck(d) \/ Sicken(d) \/ Exit(d) \/ Restart(d)
        PROVE  OldStand'
    <2>1. PICK status \in {"healthy", "unready", "exited"} :
            docker' = [docker EXCEPT ![d] = status]
      BY <1>2 DEF HealthCheck, Sicken, Exit, Restart
    <2>2. OldSet \subseteq Container
      BY CountAssumption DEF OldSet, Container
    <2>3. ASSUME NEW c \in OldSet PROVE docker'[c] \notin {"stopped", "absent"}
      BY <1>1, <2>1, <2>2, <2>3 DEF OldStand
    <2>4. QED
      BY <2>3 DEF OldStand, OldSet
  <1>3. CASE docker' = docker
    BY <1>3 DEF OldStand, OldSet
  <1>4. QED
    BY <1>2, <1>3 DEF Environment, Misbehave, Cancel, Ended, vars

\* Prologue and abort keep it.
LEMMA UsersDeployStep ==
    ASSUME BGTypeOK, UsersInv, DeployStep, UNCHANGED <<rules, errors>>
    PROVE  UsersInv'
  <1> USE DEF ProloguePc, BeforePc, AfterPc, UndoPc, AbortPc, Terminal
  <1>1. WorldTypeOK /\ nnew \in 0 .. NNew
    BY DEF BGTypeOK, WorldTypeOK
  <1>2. CASE EarlySave \/ Gather \/ Prepare
    <2>1. /\ UNCHANGED <<docker, live>> /\ pc \in {"start", "gather", "prepare"}
          /\ pc' \in {"gather", "prepare", "execute", "failed", "discard"}
          /\ file' = file \/ file' = InProgress({}, {})
      BY <1>2 DEF EarlySave, Gather, Prepare, Save
    <2>2. ~InProgress({}, {}).token
      BY DEF InProgress, Idle
    <2>3. live' = BlueOnly' /\ live'.on = OldSet' /\ live'.backup = {} /\ live'.preview = {}
      BY <2>1 DEF UsersInv, BlueOnly, Plain, OldSet
    <2>4. ~file'.token /\ OldStand'
      BY <2>1, <2>2 DEF UsersInv, OldStand, OldSet
    <2>5. QED
      BY <2>1, <2>3, <2>4 DEF UsersInv
  <1>3. CASE DiscardNew
    <2>1. UNCHANGED <<live, file>> /\ pc = "discard" /\ pc' = "discardSave"
      BY <1>3 DEF DiscardNew
    <2>2. OldStand'
      BY <1>1, <1>3, <2>1, StandRemove DEF DiscardNew, UsersInv
    <2>3. QED
      BY <2>1, <2>2 DEF UsersInv, BlueOnly, Plain, OldSet
  <1>4. CASE DiscardSave \/ AbortDrain \/ AbortRemove \/ AbortSave
    <2>1. /\ live' = live
          /\ pc' \in {"discarded", "aborted", "failed", "abortRemove", "abortSave"}
      BY <1>4 DEF DiscardSave, AbortDrain, AbortRemove, AbortSave, Save
    <2>2. pc' \in {"discarded", "aborted"} => file' \in {Idle(OldSet), Idle(targets)}
      BY <1>4 DEF DiscardSave, AbortDrain, AbortRemove, AbortSave, Save
    <2>3. pc' \in {"discarded", "aborted"} => ~file'.token
      BY <2>2 DEF Idle
    <2>4. QED
      BY <2>1, <2>3 DEF UsersInv, OldSet
  <1>5. CASE AbortRoute
    <2>1. /\ pc' \in {"abortDrain", "failed"}
          /\ live' = live \/ live' = Plain(targets')
      BY <1>5 DEF AbortRoute
    <2>2. live' = Plain(targets') => live'.preview = {}
      BY DEF Plain
    <2>3. QED
      BY <2>1, <2>2 DEF UsersInv, OldSet
  <1>6. QED
    BY <1>2, <1>3, <1>4, <1>5 DEF DeployStep

\* What an upstream of the strategy says of users and the preview.
LEMMA Upstreams ==
    /\ BlueOnly.on = OldSet /\ BlueOnly.backup = {}
    /\ BlueOnly.preview = {} /\ BlueOnly.weight = 0
    /\ PreviewUpstream.on = OldSet /\ PreviewUpstream.backup = {}
    /\ PreviewUpstream.weight = 0
    /\ CutoverUpstream.preview = {} /\ CutoverUpstream.backup = {}
    /\ CutoverUpstream.on \in {Fresh, OldSet \cup Fresh}
    /\ rules.watch => CutoverUpstream = Plain(Fresh)
    /\ Plain(Fresh).on = Fresh /\ Plain(Fresh).backup = {} /\ Plain(Fresh).preview = {}
    /\ [Plain(Fresh) EXCEPT !.backup = OldSet].preview = {}
    /\ [Plain(Fresh) EXCEPT !.backup = OldSet].on = Fresh
    /\ [Plain(Fresh) EXCEPT !.backup = OldSet].backup = OldSet
    BY DEF BlueOnly, PreviewUpstream, CutoverUpstream, Plain

\* The steps of the strategy keep it.
LEMMA UsersExecute ==
    ASSUME BGTypeOK, UsersInv, BGExecute, UNCHANGED <<rules, errors>>
    PROVE  UsersInv'
  <1> USE DEF ProloguePc, BeforePc, AfterPc, UndoPc, AbortPc, Terminal
  <1>1. /\ WorldTypeOK /\ nnew \in 0 .. NNew /\ live \in Upstream /\ file \in StateFile
        /\ rules \in Rules /\ cancelled \in BOOLEAN /\ docker \in [Container -> Status]
    BY DEF BGTypeOK, WorldTypeOK
  <1>2. nnew' = nnew
    BY DEF BGExecute, SaveInitialBoth, BGWait, WaitAllHealthy, SaveToken, Publish, RunChecks,
           Withdraw, UndoRemove, UndoSave, Subscribe, Cutover, RecordCutover, Soak, Window,
           RollbackRoute, RollbackDrain, PromoteAndDrain, Promote, DrainOld, RouteNew,
           RemoveOld, FinishBoth
  <1>3. Fresh' = Fresh /\ OldSet' = OldSet /\ BlueOnly' = BlueOnly
    BY <1>2 DEF Fresh, OldSet, BlueOnly, Plain
  <1>4. CASE SaveInitialBoth
    <2>1. /\ UNCHANGED <<docker, live>> /\ pc = "execute"
          /\ \/ pc' = "abort"
             \/ pc' = "healthy" /\ file' = InProgress(OldSet, Fresh)
      BY <1>4 DEF SaveInitialBoth, Save
    <2>2. LET f == InProgress(OldSet, Fresh)
          IN f.status = "in_progress" /\ f.stable = OldSet /\ f.canary = Fresh /\ ~f.token
      BY DEF InProgress, Idle
    <2>3. live' = BlueOnly /\ OldStand'
      BY <2>1 DEF UsersInv, OldStand, OldSet
    <2>4. QED
      BY <1>3, <2>1, <2>2, <2>3, Upstreams DEF UsersInv, BothNamed
  <1>5. CASE BGWait \/ RunChecks \/ Subscribe \/ Soak \/ DrainOld \/ RollbackDrain \/ Window
    <2>1. /\ UNCHANGED <<docker, live, file>>
          /\ \/ pc = "healthy" /\ pc' \in {"healthy", "abort", "preview"}
             \/ pc = "check" /\ pc' \in {"subscribe", "withdraw", "abort"}
             \/ pc = "subscribe" /\ pc' \in {"cutover", "abort"}
             \/ pc = "soak" /\ pc' \in {"promote", "abort"}
             \/ pc = "drainOld" /\ pc' \in {"routeNew", "abort"}
             \/ pc = "rollbackDrain" /\ pc' \in {"undoRemove", "abort"}
             \/ pc = "window" /\ pc' \in {"rollback", "removeOld", "abort"}
      BY <1>5
      DEF BGWait, WaitAllHealthy, RunChecks, Subscribe, Soak, DrainOld, RollbackDrain, Window,
          Elapsed
    <2>2. (BothNamed => BothNamed') /\ (OldStand => OldStand')
      BY <1>3, <2>1 DEF BothNamed, OldStand
    <2>3. QED
      BY <1>3, <2>1, <2>2 DEF UsersInv
  <1>6. CASE SaveToken
    <2>1. /\ UNCHANGED <<docker, live>> /\ pc = "preview"
          /\ \/ pc' = "abort"
             \/ rules.link /\ pc' = "publish" /\ file' = [file EXCEPT !.token = TRUE]
             \/ ~rules.link /\ pc' \in {"publish", "check"} /\ file' = file
      BY <1>6 DEF SaveToken, Save
    <2>2. live = BlueOnly /\ BothNamed /\ OldStand
      BY <2>1 DEF UsersInv
    <2>3. pc' # "abort" => BothNamed'
      BY <1>1, <1>3, <2>1, <2>2 DEF BothNamed, StateFile
    <2>4. rules.link /\ pc' # "abort" => file'.token
      BY <1>1, <2>1 DEF StateFile
    <2>5. OldStand'
      BY <2>1, <2>2 DEF OldStand, OldSet
    <2>6. QED
      BY <1>3, <2>1, <2>2, <2>3, <2>4, <2>5, Upstreams DEF UsersInv
  <1>7. CASE Publish \/ Withdraw \/ RollbackRoute
    <2>1. /\ UNCHANGED <<docker, file>>
          /\ \/ pc = "publish" /\ pc' \in {"check", "abort"}
             \/ pc = "withdraw" /\ pc' = "undoRemove"
             \/ pc = "rollback" /\ pc' \in {"rollbackDrain", "abort"}
          /\ live' \in {live, BlueOnly, PreviewUpstream}
          /\ pc' = "rollbackDrain" => live' = BlueOnly
      BY <1>7 DEF Publish, Withdraw, RollbackRoute, Apply
    <2>2. BothNamed' /\ OldStand'
      BY <1>3, <2>1 DEF UsersInv, BothNamed, OldStand
    <2>3. /\ live'.preview # {} => live'.on = OldSet /\ live'.weight = 0
          /\ live.on = OldSet /\ live.backup = {} => live'.on = OldSet /\ live'.backup = {}
      BY <2>1, Upstreams DEF UsersInv
    <2>4. QED
      BY <1>3, <2>1, <2>2, <2>3, Upstreams DEF UsersInv
  <1>8. CASE UndoRemove
    <2>1. UNCHANGED <<live, file>> /\ pc = "undoRemove" /\ pc' = "undoSave"
      BY <1>8 DEF UndoRemove
    <2>2. Fresh \in SUBSET Container
      BY <1>1, Ids
    <2>3. Fresh \cap Present' \subseteq kept'
      BY <1>1, <1>8, <2>2, RemoveKept DEF UndoRemove
    <2>4. OldStand'
      BY <1>1, <1>8, <2>1, StandRemove DEF UndoRemove, UsersInv
    <2>5. BothNamed'
      BY <1>3, <2>1 DEF UsersInv, BothNamed
    <2>6. QED
      BY <1>3, <2>1, <2>3, <2>4, <2>5 DEF UsersInv
  <1>9. CASE UndoSave
    <2>1. /\ UNCHANGED <<docker, live, kept>> /\ pc = "undoSave"
          /\ \/ pc' = "abort"
             \/ pc' = "undone" /\ file' = [Idle(OldSet) EXCEPT !.failure = TRUE]
      BY <1>9 DEF UndoSave, Save
    <2>2. ~[Idle(OldSet) EXCEPT !.failure = TRUE].token
          /\ [Idle(OldSet) EXCEPT !.failure = TRUE] = [Idle(OldSet) EXCEPT !.failure = TRUE]'
      BY <1>3 DEF Idle
    <2>3. OldStand' /\ Present' = Present
      BY <2>1 DEF UsersInv, OldStand, OldSet, Present
    <2>4. QED
      BY <1>3, <2>1, <2>2, <2>3 DEF UsersInv
  <1>10. CASE Cutover
    <2>1. /\ UNCHANGED <<docker, file>> /\ pc = "cutover" /\ pc' \in {"record", "abort"}
          /\ live' \in {live, CutoverUpstream}
      BY <1>10 DEF Cutover, Apply
    <2>2. BothNamed' /\ OldStand'
      BY <1>3, <2>1 DEF UsersInv, BothNamed, OldStand
    <2>3. QED
      BY <1>3, <2>1, <2>2, Upstreams DEF UsersInv
  <1>11. CASE RecordCutover
    <2>1. /\ UNCHANGED <<docker, live>> /\ pc = "record"
          /\ \/ pc' = "abort"
             \/ /\ pc' \in {"window", "soak"}
                /\ \E w \in {100, GreenWeight} :
                     file' = [file EXCEPT !.token = FALSE, !.weight = w]
      BY <1>11 DEF RecordCutover, Save
    <2>2. BothNamed /\ OldStand
      BY <2>1 DEF UsersInv
    <2>3. OldStand'
      BY <2>1, <2>2 DEF OldStand, OldSet
    <2>4. pc' # "abort" => BothNamed' /\ ~file'.token
      BY <1>1, <1>3, <2>1, <2>2 DEF BothNamed, StateFile
    <2>5. QED
      BY <1>3, <2>1, <2>3, <2>4 DEF UsersInv
  <1>12. CASE Promote \/ RouteNew
    <2>1. /\ UNCHANGED <<docker, file>>
          /\ \/ pc = "promote" /\ pc' \in {"drainOld", "abort"}
             \/ pc = "routeNew" /\ pc' \in {"removeOld", "abort"}
          /\ live' \in {live, Plain(Fresh), [Plain(Fresh) EXCEPT !.backup = OldSet]}
      BY <1>12 DEF Promote, RouteNew, Apply
    <2>2. BothNamed' /\ OldStand'
      BY <1>3, <2>1 DEF UsersInv, BothNamed, OldStand
    <2>3. QED
      BY <1>3, <2>1, <2>2, Upstreams DEF UsersInv
  <1>13. CASE RemoveOld
    <2>1. UNCHANGED <<live, file>> /\ pc = "removeOld" /\ pc' = "finish"
      BY <1>13 DEF RemoveOld
    <2>2. BothNamed'
      BY <1>3, <2>1 DEF UsersInv, BothNamed
    <2>3. QED
      BY <1>3, <2>1, <2>2 DEF UsersInv
  <1>14. CASE FinishBoth
    <2>1. /\ UNCHANGED <<docker, live>> /\ pc = "finish"
          /\ pc' = "abort" \/ (pc' = "done" /\ file' = [Idle(Fresh) EXCEPT !.weight = 100])
      BY <1>14 DEF FinishBoth, Save
    <2>2. ~[Idle(Fresh) EXCEPT !.weight = 100].token
      BY DEF Idle
    <2>3. QED
      BY <1>3, <2>1, <2>2 DEF UsersInv
  <1>15. QED
    BY <1>4, <1>5, <1>6, <1>7, <1>8, <1>9, <1>10, <1>11, <1>12, <1>13, <1>14
    DEF BGExecute, PromoteAndDrain

LEMMA UsersStep == BGTypeOK /\ UsersInv /\ [BGNext]_bgVars => UsersInv'
  <1> SUFFICES ASSUME BGTypeOK, UsersInv, [BGNext]_bgVars PROVE UsersInv'
    OBVIOUS
  <1>1. WorldTypeOK
    BY DEF BGTypeOK
  <1>2. CASE (Environment /\ UNCHANGED <<rules, errors>>) \/ GreenError \/ UNCHANGED bgVars
    <2>1. /\ UNCHANGED <<live, file, nnew, pc, kept, rules>>
          /\ Present' = Present /\ (OldStand => OldStand')
      <3>1. CASE Environment /\ UNCHANGED <<rules, errors>>
        BY <1>1, <3>1, EnvironmentType, StandEnvironment
      <3>2. CASE UNCHANGED vars /\ rules' = rules
        BY <3>2 DEF vars, Present, OldStand, OldSet
      <3>3. QED
        BY <1>2, <3>1, <3>2 DEF GreenError, bgVars
    <2>2. QED
      BY <2>1 DEF UsersInv, BothNamed, BlueOnly, Plain, Idle, OldSet, Fresh
  <1>3. QED
    BY <1>2, UsersDeployStep, UsersExecute DEF BGNext

\* The preview and its token work only while users are on the old containers,
\* for any labels, and whatever config or save fails.
THEOREM PreviewIsBefore == BGSpec => []PreviewBeforeUsersMove
  <1>1. BGTypeOK /\ UsersInv => PreviewBeforeUsersMove
    BY Upstreams DEF UsersInv, PreviewBeforeUsersMove, BeforePc, ProloguePc
  <1>2. QED
    BY BGTypeInit, BGTypeStep, UsersInit, UsersStep, <1>1, PTL DEF BGSpec

\* The way back stays open: until removeOld no old container is stopped, also
\* by a removal of green that fails half way.
THEOREM OldOnesStand == BGSpec => []WayBackOpen
  <1>1. UsersInv => WayBackOpen
    BY DEF UsersInv, WayBackOpen, OldStand
  <1>2. QED
    BY BGTypeInit, BGTypeStep, UsersInit, UsersStep, <1>1, PTL DEF BGSpec

\* A crash can be undone: while a new container may get users the file names
\* both groups, since every save from then on keeps them.
THEOREM FileNamesBoth == BGSpec => []CrashCanBeUndone
  <1>1. UsersInv => CrashCanBeUndone
    BY DEF UsersInv, CrashCanBeUndone, BothNamed, BeforePc
  <1>2. QED
    BY BGTypeInit, BGTypeStep, UsersInit, UsersStep, <1>1, PTL DEF BGSpec

\* An undone release leaves users, file and containers as they were before it.
THEOREM UndoneIsBefore == BGSpec => []UndoneServesOld
  <1>1. UsersInv => UndoneServesOld
    BY DEF UsersInv, UndoneServesOld, OldStand
  <1>2. QED
    BY BGTypeInit, BGTypeStep, UsersInit, UsersStep, <1>1, PTL DEF BGSpec

-----------------------------------------------------------------------------
(* Blue-green: the implementation of Rollout.                              *)

\* The new containers are there until green is undone or aborted, users only
\* move after all have passed, and blue has no traffic when it goes.
GreenInv ==
    /\ WorldInv
    /\ pc \in BeforePc \cup AfterPc \cup {"undoRemove"} => NewSet \subseteq Present
    /\ pc = "healthy" => \A j \in 1 .. (step - 1) : NewAt(j) \in passed
    /\ pc \in (BeforePc \ {"execute", "healthy"}) \cup AfterPc => Fresh \subseteq passed
    /\ pc \in {"window", "rollback", "removeOld", "finish"}
          \/ (pc = "record" /\ rules.watch) => live = Plain(Fresh)

\* The parts of the invariants that need no step.
LEMMA GreenFacts ==
    ASSUME BGTypeOK, UsersInv, GreenInv
    PROVE  /\ WorldTypeOK /\ WorldInv
           /\ step \in Nat \ {0} /\ nnew \in 1 .. NNew /\ nnew \in 0 .. NNew
           /\ NNew \in Nat /\ NOld \in Nat
           /\ cancelled \in BOOLEAN /\ live \in Upstream /\ file \in StateFile
           /\ OldSet # {} /\ OldSet \cap NewSet = {} /\ OldSet \cap Fresh = {}
           /\ Fresh # {} /\ Fresh \subseteq NewSet
           /\ OldSet \in SUBSET Container /\ Fresh \in SUBSET Container
           /\ OldStand => OldSet \subseteq Present
  <1>1. /\ WorldTypeOK /\ WorldInv
        /\ step \in 1 .. (NNew + 1) /\ nnew \in 0 .. NNew /\ nnew >= 1
        /\ NNew \in Nat /\ NOld \in Nat
        /\ cancelled \in BOOLEAN /\ live \in Upstream /\ file \in StateFile
    BY CountAssumption DEF GreenInv, BGTypeOK, WorldTypeOK, WorldInv
  <1>2. NOld + 1 \in Fresh
    BY <1>1 DEF Fresh
  <1>3. OldSet # {} /\ OldSet \cap NewSet = {} /\ Fresh \subseteq NewSet
        /\ OldSet \in SUBSET Container /\ NewSet \in SUBSET Container
    BY <1>1, Ids
  <1>4. OldStand => OldSet \subseteq Present
    BY <1>3 DEF OldStand, Present
  <1>5. QED
    BY <1>1, <1>2, <1>3, <1>4

\* The steps of the strategy keep it.
LEMMA GreenExecute ==
    ASSUME BGTypeOK, UsersInv, GreenInv, BGExecute, UNCHANGED <<rules, errors>>
    PROVE  GreenInv'
  <1> USE DEF ProloguePc, BeforePc, AfterPc, UndoPc
  <1>1. /\ WorldTypeOK /\ WorldInv
        /\ step \in Nat \ {0} /\ nnew \in 1 .. NNew /\ nnew \in 0 .. NNew
        /\ NNew \in Nat /\ NOld \in Nat
        /\ cancelled \in BOOLEAN /\ live \in Upstream /\ file \in StateFile
        /\ OldSet # {} /\ OldSet \cap NewSet = {} /\ OldSet \cap Fresh = {}
        /\ Fresh # {} /\ Fresh \subseteq NewSet
        /\ OldSet \in SUBSET Container /\ Fresh \in SUBSET Container
        /\ OldStand => OldSet \subseteq Present
    BY GreenFacts
  <1>2. /\ UNCHANGED <<nnew, targets>>
        /\ pc \in BeforePc \cup AfterPc \cup UndoPc
        /\ pc' \in (BeforePc \ {"execute"}) \cup AfterPc \cup UndoPc
                     \cup {"abort", "done", "undone"}
    BY ExecutePlaces
    DEF BGExecute, SaveInitialBoth, BGWait, WaitAllHealthy, SaveToken, Publish, RunChecks,
        Withdraw, UndoRemove, UndoSave, Subscribe, Cutover, RecordCutover, Soak, Window,
        RollbackRoute, RollbackDrain, PromoteAndDrain, Promote, DrainOld, RouteNew,
        RemoveOld, FinishBoth
  <1>3. Fresh' = Fresh /\ (Plain(Fresh))' = Plain(Fresh)
    BY <1>2 DEF Fresh, Plain
  <1>4. CASE SaveInitialBoth
    <2>1. /\ UNCHANGED <<docker, live, passed>> /\ step' = 1
          /\ pc = "execute" /\ pc' \in {"healthy", "abort"}
          /\ file' = file \/ file'.stable = OldSet
      BY <1>4 DEF SaveInitialBoth, Save, InProgress, Idle
    <2>2. WorldInv'
      BY <1>1, <1>2, <2>1, WorldInvRoute DEF Reachable
    <2>3. Present' = Present /\ \A j \in 1 .. (1 - 1) : NewAt(j) \in passed
      BY <2>1 DEF Present
    <2>4. QED
      BY <2>1, <2>2, <2>3 DEF GreenInv
  <1>5. CASE BGWait
    <2>1. /\ UNCHANGED <<docker, live, file>> /\ pc = "healthy"
          /\ \/ /\ step <= nnew /\ WaitHealthy(NewAt(step))
                /\ pc' = "healthy" /\ step' = step + 1
             \/ pc' = "abort" /\ passed' = passed
             \/ step > nnew /\ pc' = "preview" /\ passed' = passed
      BY <1>5 DEF BGWait, WaitAllHealthy
    <2>2. /\ NewSet \subseteq Present /\ Present' = Present
          /\ \A j \in 1 .. (step - 1) : NewAt(j) \in passed
      BY <2>1 DEF GreenInv, Present
    <2>3. ASSUME step <= nnew, WaitHealthy(NewAt(step))
          PROVE  passed \subseteq passed' /\ NewAt(step) \in passed'
      BY <1>1, <2>3, WaitHealthyType DEF WorldTypeOK
    <2>4. passed \subseteq passed'
      BY <2>1, <2>3
    <2>5. WorldInv'
      BY <1>1, <1>2, <2>1, <2>2, <2>4 DEF WorldInv, Routed, Reachable
    <2>6. pc' = "healthy" => \A j \in 1 .. (step' - 1) : NewAt(j) \in passed'
      BY <1>1, <2>1, <2>2, <2>3, <2>4
    <2>7. pc' = "preview" => Fresh \subseteq passed
      BY <1>1, <2>1, <2>2, AllPassed
    <2>8. QED
      BY <1>3, <2>1, <2>2, <2>5, <2>6, <2>7 DEF GreenInv
  <1>6. CASE SaveToken \/ RecordCutover \/ UndoSave \/ FinishBoth
    <2>1. /\ UNCHANGED <<docker, live, passed>>
          /\ \/ pc = "preview" /\ pc' \in {"publish", "check", "abort"}
             \/ pc = "record" /\ pc' \in {"soak", "abort"}
             \/ pc = "record" /\ pc' = "window" /\ rules.watch
             \/ pc = "undoSave" /\ pc' \in {"undone", "abort"}
             \/ pc = "finish" /\ pc' \in {"done", "abort"}
      BY <1>6 DEF SaveToken, RecordCutover, UndoSave, FinishBoth, Save
    <2>2. \/ file'.stable \in {file.stable, OldSet}
          \/ pc = "finish" /\ file'.stable = Fresh
      BY <1>1, <1>6 DEF SaveToken, RecordCutover, UndoSave, FinishBoth, Save, Idle, StateFile
    <2>3. pc = "finish" => Fresh \subseteq passed
      BY DEF GreenInv
    <2>4. WorldInv'
      BY <1>1, <1>2, <2>1, <2>2, <2>3, WorldInvRoute DEF Reachable
    <2>5. Present' = Present
      BY <2>1 DEF Present
    <2>6. QED
      BY <1>3, <2>1, <2>4, <2>5 DEF GreenInv
  <1>7. CASE RunChecks \/ Subscribe \/ Soak \/ DrainOld \/ RollbackDrain \/ Window
    <2>1. /\ UNCHANGED <<docker, live, file, passed>>
          /\ \/ pc = "check" /\ pc' \in {"subscribe", "withdraw", "abort"}
             \/ pc = "subscribe" /\ pc' \in {"cutover", "abort"}
             \/ pc = "soak" /\ pc' \in {"promote", "abort"}
             \/ pc = "drainOld" /\ pc' \in {"routeNew", "abort"}
             \/ pc = "rollbackDrain" /\ pc' \in {"undoRemove", "abort"}
             \/ pc = "window" /\ pc' \in {"rollback", "removeOld", "abort"}
      BY <1>7 DEF RunChecks, Subscribe, Soak, DrainOld, RollbackDrain, Window, Elapsed
    <2>2. WorldInv'
      BY <1>1, <1>2, <2>1, WorldInvRoute DEF Reachable
    <2>3. Present' = Present
      BY <2>1 DEF Present
    <2>4. QED
      BY <1>3, <2>1, <2>2, <2>3 DEF GreenInv
  <1>8. CASE Publish \/ Withdraw \/ RollbackRoute
    <2>1. /\ UNCHANGED <<docker, file, passed>>
          /\ \/ pc = "publish" /\ pc' \in {"check", "abort"}
             \/ pc = "withdraw" /\ pc' = "undoRemove"
             \/ pc = "rollback" /\ pc' \in {"rollbackDrain", "abort"}
          /\ live' \in {live, BlueOnly, PreviewUpstream}
      BY <1>8 DEF Publish, Withdraw, RollbackRoute, Apply
    <2>2. OldSet \subseteq Present /\ Present' = Present
      BY <1>1, <2>1 DEF UsersInv, Present
    <2>3. \/ Reachable' = Reachable
          \/ Reachable' = OldSet
      BY <2>1, Upstreams DEF Reachable
    <2>4. WorldInv'
      BY <1>1, <1>2, <2>1, <2>2, <2>3, WorldInvRoute
    <2>5. QED
      BY <1>3, <2>1, <2>2, <2>4 DEF GreenInv
  <1>9. CASE Cutover \/ Promote \/ RouteNew
    <2>1. /\ UNCHANGED <<docker, file, passed>>
          /\ \/ /\ pc = "cutover" /\ pc' \in {"record", "abort"}
                /\ live' \in {live, CutoverUpstream}
                /\ pc' = "record" => live' = CutoverUpstream
             \/ /\ pc = "promote" /\ pc' \in {"drainOld", "abort"}
                /\ live' \in {live, [Plain(Fresh) EXCEPT !.backup = OldSet]}
             \/ /\ pc = "routeNew" /\ pc' \in {"removeOld", "abort"}
                /\ live' \in {live, Plain(Fresh)}
                /\ pc' = "removeOld" => live' = Plain(Fresh)
      BY <1>9 DEF Cutover, Promote, RouteNew, Apply
    <2>2. OldSet \subseteq Present /\ NewSet \subseteq Present /\ Present' = Present
          /\ Fresh \subseteq passed
      BY <1>1, <2>1 DEF UsersInv, GreenInv, Present
    <2>3. \/ Reachable' = Reachable
          \/ Reachable' \in {Fresh, OldSet \cup Fresh}
      BY <2>1, Upstreams DEF Reachable
    <2>4. WorldInv'
      BY <1>1, <1>2, <2>1, <2>2, <2>3, WorldInvRoute
    <2>5. pc' = "record" /\ rules.watch => live' = Plain(Fresh)
      BY <2>1, Upstreams
    <2>6. QED
      BY <1>3, <2>1, <2>2, <2>4, <2>5 DEF GreenInv
  <1>10. CASE UndoRemove
    <2>1. /\ UNCHANGED <<live, file, passed>>
          /\ pc = "undoRemove" /\ pc' = "undoSave"
      BY <1>10 DEF UndoRemove
    <2>2. Present \ Fresh \subseteq Present'
      BY <1>1, <1>10, RemoveEffect DEF UndoRemove, WorldTypeOK
    <2>3. Reachable = OldSet /\ Reachable' = Reachable
      BY <2>1 DEF UsersInv, Reachable
    <2>4. Routed'
      BY <1>1, <2>1, <2>2, <2>3 DEF WorldInv, Routed
    <2>5. WorldInv'
      BY <1>1, <1>2, <2>1, <2>4 DEF WorldInv
    <2>6. QED
      BY <2>1, <2>5 DEF GreenInv
  <1>11. CASE RemoveOld
    <2>1. /\ UNCHANGED <<live, file, passed>>
          /\ pc = "removeOld" /\ pc' = "finish" /\ live = Plain(Fresh)
      BY <1>11 DEF RemoveOld, GreenInv
    <2>2. Present \ OldSet \subseteq Present'
      BY <1>1, <1>11, RemoveEffect DEF RemoveOld, WorldTypeOK
    <2>3. NewSet \subseteq Present /\ Fresh \subseteq passed
      BY <2>1 DEF GreenInv
    <2>4. NewSet \subseteq Present'
      BY <1>1, <2>2, <2>3
    <2>5. Reachable' = Fresh
      BY <2>1, Upstreams DEF Reachable
    <2>6. Routed'
      BY <1>1, <2>1, <2>3, <2>4, <2>5 DEF Routed
    <2>7. WorldInv'
      BY <1>1, <1>2, <2>1, <2>6 DEF WorldInv
    <2>8. QED
      BY <1>3, <2>1, <2>3, <2>4, <2>7 DEF GreenInv
  <1>12. QED
    BY <1>4, <1>5, <1>6, <1>7, <1>8, <1>9, <1>10, <1>11 DEF BGExecute, PromoteAndDrain

\* The three invariants together, and what an abort relies on.
GreenIInv == BGTypeOK /\ UsersInv /\ GreenInv /\ AbortInv

LEMMA GreenInit == BGInit => GreenIInv
  <1> SUFFICES ASSUME BGInit PROVE GreenIInv
    OBVIOUS
  <1>1. WorldInv /\ AbortInv
    BY WorldInvInit DEF BGInit
  <1>2. GreenInv
    BY <1>1 DEF BGInit, Init, GreenInv, BeforePc, AfterPc
  <1>3. QED
    BY <1>1, <1>2, BGTypeInit, UsersInit DEF GreenIInv

\* Every step keeps what an abort relies on: Execute never enters its middle.
LEMMA BGAbortInvStep == BGTypeOK /\ AbortInv /\ [BGNext]_bgVars => AbortInv'
  <1> SUFFICES ASSUME BGTypeOK, AbortInv, [BGNext]_bgVars PROVE AbortInv'
    OBVIOUS
  <1>1. WorldTypeOK
    BY DEF BGTypeOK
  <1>2. CASE DeployStep
    BY <1>1, <1>2, AbortInvDeployStep
  <1>3. CASE BGExecute /\ UNCHANGED <<rules, errors>>
    <2>1. pc' \notin {"abortDrain", "abortRemove", "abortSave", "aborted"}
      BY <1>3, ExecutePlaces DEF BeforePc, AfterPc, UndoPc
    <2>2. QED
      BY <2>1 DEF AbortInv
  <1>4. CASE Environment
    BY <1>1, <1>4, AbortInvEnvironment
  <1>5. CASE GreenError \/ UNCHANGED bgVars
    <2>1. UNCHANGED vars
      BY <1>5 DEF GreenError, bgVars
    <2>2. QED
      BY <2>1 DEF vars, AbortInv, Fresh, Present, Plain, Idle
  <1>6. QED
    BY <1>2, <1>3, <1>4, <1>5 DEF BGNext

LEMMA GreenStep ==
    ASSUME "vanish" \notin Faults
    PROVE  GreenIInv /\ [BGNext]_bgVars => GreenIInv'
  <1> SUFFICES ASSUME GreenIInv, [BGNext]_bgVars PROVE GreenIInv'
    OBVIOUS
  <1>1. /\ BGTypeOK /\ UsersInv /\ GreenInv /\ AbortInv
        /\ BGTypeOK' /\ UsersInv' /\ WorldTypeOK /\ WorldInv
    BY BGTypeStep, UsersStep DEF GreenIInv, GreenInv, BGTypeOK
  <1>2. CASE DeployStep /\ UNCHANGED <<rules, errors>>
    <2>1. WorldInv' /\ AbortInv'
      BY <1>1, <1>2, WorldInvDeployStep, AbortInvDeployStep
    <2>2. pc' \in ProloguePc \cup AbortPc \cup Terminal \cup {"execute"}
      BY <1>1, <1>2, DeployStepType
    <2>3. pc' = "execute" => (NewSet \subseteq Present)'
      BY <2>1 DEF WorldInv
    <2>4. GreenInv'
      BY <2>1, <2>2, <2>3
      DEF GreenInv, BeforePc, AfterPc, ProloguePc, AbortPc, Terminal
    <2>5. QED
      BY <1>1, <2>1, <2>4 DEF GreenIInv
  <1>3. CASE BGExecute /\ UNCHANGED <<rules, errors>>
    <2>1. pc' \notin {"abortDrain", "abortRemove", "abortSave", "aborted"}
      BY <1>3, ExecutePlaces DEF BeforePc, AfterPc, UndoPc
    <2>2. AbortInv'
      BY <2>1 DEF AbortInv
    <2>3. QED
      BY <1>1, <1>3, <2>2, GreenExecute DEF GreenIInv
  <1>4. CASE (Environment /\ UNCHANGED <<rules, errors>>) \/ GreenError \/ UNCHANGED bgVars
    <2>1. /\ UNCHANGED <<live, file, nnew, pc, step, passed, kept, targets, rules>>
          /\ Present' = Present
      <3>1. CASE Environment /\ UNCHANGED <<rules, errors>>
        BY <1>1, <3>1, EnvironmentType
      <3>2. CASE UNCHANGED vars /\ rules' = rules
        BY <3>2 DEF vars, Present
      <3>3. QED
        BY <1>4, <3>1, <3>2 DEF GreenError, bgVars
    <2>2. WorldInv' /\ AbortInv'
      BY <1>1, <2>1 DEF WorldInv, AbortInv, Routed, Reachable, Plain, Fresh, Idle
    <2>3. GreenInv'
      BY <1>1, <2>1, <2>2 DEF GreenInv, Plain, Fresh
    <2>4. QED
      BY <1>1, <2>2, <2>3 DEF GreenIInv
  <1>5. QED
    BY <1>2, <1>3, <1>4 DEF BGNext

\* An abort of a blue-green release that ends well ends on containers that
\* exist, in the proxy and in the state file, also after the window began and
\* after new containers vanished, and leaves only what could not be removed.
THEOREM BGAbortEndsServing == BGSpec => []AbortKeepsServing
  <1>1. BGInit => AbortInv
    BY DEF BGInit, Init, AbortInv
  <1>2. AbortInv => AbortKeepsServing
    BY AbortServes
  <1>3. QED
    BY BGTypeInit, BGTypeStep, BGAbortInvStep, <1>1, <1>2, PTL DEF BGSpec

\* Every step of a blue-green release is a step of Rollout or none.
LEMMA BGMapStep ==
    ASSUME GreenIInv, GreenIInv', [BGNext]_bgVars
    PROVE  [R!RolloutNext]_R!rolloutVars
  <1>1. /\ Routed' /\ WorldTypeOK /\ WorldInv /\ BGTypeOK /\ UsersInv /\ GreenInv
    BY DEF GreenIInv, GreenInv, WorldInv, BGTypeOK
  <1>2. CASE DeployStep
    BY <1>1, <1>2, DeployStepKind, StepMaps
  <1>3. CASE Environment
    BY <1>1, <1>3, EnvironmentType, StepMaps
  <1>4. CASE RemoveOld \/ UndoRemove
    <2>1. Present' \subseteq Present
      BY <1>1, <1>4, GreenFacts, RemoveEffect DEF RemoveOld, UndoRemove, WorldTypeOK
    <2>2. live' = live /\ passed' = passed
      BY <1>4 DEF RemoveOld, UndoRemove
    <2>3. QED
      BY <1>1, <2>1, <2>2, StepMaps
  <1>5. CASE BGWait
    <2>1. UNCHANGED <<docker, live>>
      BY <1>5 DEF BGWait, WaitAllHealthy
    <2>2. \/ passed' = passed
          \/ step <= nnew /\ passed' \in {passed, passed \cup {NewAt(step)}}
      BY <1>5 DEF BGWait, WaitAllHealthy, WaitHealthy, Observed
    <2>3. step <= nnew => NewAt(step) \in Container
      BY <1>1, GreenFacts DEF NewAt, Container
    <2>4. QED
      BY <1>1, <2>1, <2>2, <2>3, StepMaps
  <1>6. CASE GreenError \/ UNCHANGED bgVars
    BY <1>1, <1>6, StepMaps DEF GreenError, bgVars, vars
  <1>7. CASE BGExecute /\ ~RemoveOld /\ ~UndoRemove /\ ~BGWait
    <2>1. docker' = docker /\ passed' = passed
      BY <1>7
      DEF BGExecute, SaveInitialBoth, SaveToken, Publish, RunChecks, Withdraw, UndoSave,
          Subscribe, Cutover, RecordCutover, Soak, Window, RollbackRoute, RollbackDrain,
          PromoteAndDrain, Promote, DrainOld, RouteNew, FinishBoth
    <2>2. QED
      BY <1>1, <2>1, StepMaps
  <1>8. QED
    BY <1>2, <1>3, <1>4, <1>5, <1>6, <1>7 DEF BGNext

\* Unless new containers vanish from a listing, a blue-green release has zero
\* downtime, with its preview, its check, its window and its way back: requests
\* always go to some container, only to ones that exist and, if new, passed.
THEOREM BlueGreenImplementsRollout ==
    ASSUME "vanish" \notin Faults
    PROVE  BGSpec => ImplementsRollout
  <1>1. GreenIInv /\ GreenIInv' /\ [BGNext]_bgVars => [R!RolloutNext]_R!rolloutVars
    BY BGMapStep
  <1>2. BGInit => R!RolloutInit
    BY MapInit DEF BGInit
  <1>3. QED
    BY GreenInit, GreenStep, <1>1, <1>2, PTL DEF BGSpec, ImplementsRollout, R!RolloutSpec

=============================================================================
