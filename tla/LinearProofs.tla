---------------------------- MODULE LinearProofs ---------------------------
(***************************************************************************)
(* Linear keeps its types, and implements Rollout, for any number of       *)
(* containers and any set of failures (but, for the latter, one: that the  *)
(* new containers vanish from a listing).                                  *)
(***************************************************************************)
EXTENDS Linear, ReleaseProofs, FiniteSetTheorems

-----------------------------------------------------------------------------
(* Facts about the operators.                                              *)

\* The containers of the first i replacements, and the remaining old ones.
LEMMA ReplacedType ==
    ASSUME NEW i \in Nat, i <= NNew
    PROVE  /\ Replaced(i) \subseteq NewSet
           /\ Remaining(i) \subseteq OldSet
    BY CountAssumption DEF Replaced, Remaining, NewAt, OldAt, NewSet, OldSet

-----------------------------------------------------------------------------
(* The types.                                                              *)

\* The loop counter stays in range because the loops check it.
LinearTInv ==
    /\ LinearTypeOK
    /\ pc \in LinearLoopPc => step <= NOld /\ step <= nnew
    /\ pc = "extra" => step <= nnew + 1

LEMMA LinearTypeInit == Init => LinearTInv
  <1> SUFFICES ASSUME Init PROVE LinearTInv
    OBVIOUS
  <1>1. OldSet \in SUBSET Container
    BY CountAssumption DEF OldSet, Container
  <1>2. live \in Upstream
    BY <1>1, PlainType DEF Init
  <1>3. file \in StateFile
    BY <1>1, IdleType DEF Init
  <1>4. docker \in [Container -> Status]
    BY DEF Init, Status
  <1>5. cancelled \in BOOLEAN
    BY DEF Init
  <1>6. nnew \in 0 .. NNew
    BY CountAssumption DEF Init
  <1>7. WorldTypeOK
    BY <1>2, <1>3, <1>4, <1>5, <1>6 DEF Init, WorldTypeOK
  <1>8. step \in 1 .. (NOld + NNew + 1)
    BY CountAssumption DEF Init
  <1>9. QED
    BY <1>7, <1>8 DEF Init, LinearTInv, LinearTypeOK, LinearLoopPc, ProloguePc

\* Every step of the strategy keeps LinearTInv.
LEMMA LinearExecuteType ==
    ASSUME LinearTInv, LinearExecute
    PROVE  LinearTInv'
  <1> USE CountAssumption
  <1>1. WorldTypeOK /\ step \in 1 .. (NOld + NNew + 1)
    BY DEF LinearTInv, LinearTypeOK
  <1>2. nnew \in 0 .. NNew /\ file \in StateFile /\ live \in Upstream
    BY <1>1 DEF WorldTypeOK
  <1>3. CASE SaveInitial
    <2>1. InProgress(OldSet, {}) \in StateFile
      BY <1>2, Ids, InProgressType
    <2>2. file' \in StateFile
      BY <1>2, <1>3, <2>1, SaveType DEF SaveInitial
    <2>3. pc' \in {"abort", IF Replacements > 0 THEN "wait" ELSE "extra"}
      BY <1>2, <1>3, <2>1, SaveType DEF SaveInitial
    <2>4. WorldTypeOK'
      BY <1>1, <1>3, <2>2 DEF SaveInitial, WorldTypeOK
    <2>5. step' = 1 /\ nnew' = nnew
      BY <1>3 DEF SaveInitial
    <2>6. QED
      BY <1>2, <2>3, <2>4, <2>5
      DEF LinearTInv, LinearTypeOK, LinearLoopPc, LinearExecutePc, AbortPc, Replacements
  <1>4. CASE LinearWait
    <2>1. pc = "wait" /\ step' = step /\ nnew' = nnew
      BY <1>4 DEF LinearWait
    <2>2. step \in 1 .. nnew /\ step <= NOld
      BY <1>1, <1>2, <2>1 DEF LinearTInv, LinearLoopPc
    <2>3. passed' \in SUBSET NewSet /\ pc' \in {"route", "abort"}
      BY <1>1, <1>2, <1>4, <2>2, WaitHealthyType DEF LinearWait, WorldTypeOK
    <2>4. WorldTypeOK'
      BY <1>1, <1>4, <2>3 DEF LinearWait, WorldTypeOK
    <2>5. QED
      BY <1>1, <1>2, <2>1, <2>2, <2>3, <2>4
      DEF LinearTInv, LinearTypeOK, LinearLoopPc, LinearExecutePc, AbortPc
  <1>5. CASE RouteStep
    <2>1. pc = "route" /\ step' = step /\ nnew' = nnew
      BY <1>5 DEF RouteStep
    <2>2. step <= nnew /\ step <= NOld
      BY <2>1 DEF LinearTInv, LinearLoopPc
    <2>3. Stepping(step) \in Upstream
      BY <1>1, <1>2, <2>2, Ids, ReplacedType, PlainType DEF Stepping
    <2>4. live' \in Upstream /\ pc' \in {"drain", "abort"}
      BY <1>2, <1>5, <2>3, ApplyType DEF RouteStep
    <2>5. WorldTypeOK'
      BY <1>1, <1>5, <2>4 DEF RouteStep, WorldTypeOK
    <2>6. QED
      BY <1>1, <2>1, <2>2, <2>4, <2>5
      DEF LinearTInv, LinearTypeOK, LinearLoopPc, LinearExecutePc, AbortPc
  <1>6. CASE Drain
    BY <1>1, <1>6 DEF Drain, Elapsed, WorldTypeOK, LinearTInv, LinearTypeOK, LinearLoopPc, LinearExecutePc, AbortPc
  <1>7. CASE RemoveStep
    <2>1. pc = "remove" /\ pc' = "record" /\ step' = step /\ nnew' = nnew
      BY <1>7 DEF RemoveStep
    <2>2. step <= nnew /\ step <= NOld
      BY <2>1 DEF LinearTInv, LinearLoopPc
    <2>3. {OldAt(step)} \in SUBSET Container
      BY <1>1, <2>2 DEF OldAt, Container
    <2>4. docker' \in [Container -> Status] /\ kept' \in SUBSET Container
      BY <1>1, <1>7, <2>3, RemoveEffect DEF RemoveStep, WorldTypeOK
    <2>5. WorldTypeOK'
      BY <1>1, <1>7, <2>4 DEF RemoveStep, WorldTypeOK
    <2>6. QED
      BY <1>1, <2>1, <2>2, <2>5 DEF LinearTInv, LinearTypeOK, LinearLoopPc, LinearExecutePc
  <1>8. CASE Record
    <2> DEFINE last == step = Replacements
               rest == IF last THEN {} ELSE Remaining(step)
               f == [file EXCEPT !.stable = Replaced(step) \cup rest]
               next == IF last THEN "extra" ELSE "wait"
    <2>1. pc = "record" /\ step' = step + 1 /\ nnew' = nnew
      BY <1>8 DEF Record
    <2>2. step <= nnew /\ step <= NOld
      BY <2>1 DEF LinearTInv, LinearLoopPc
    <2>3. Replaced(step) \cup rest \in SUBSET Container
      BY <1>1, <1>2, <2>2, Ids, ReplacedType
    <2>4. f \in StateFile
      BY <1>2, <2>3, StableType
    <2>5. Save(f, next, "abort")
      BY <1>8 DEF Record
    <2>6. file' \in StateFile /\ pc' \in {next, "abort"}
      <3> HIDE DEF f, next
      <3> QED
        BY <1>2, <2>4, <2>5, SaveType
    <2>7. WorldTypeOK'
      BY <1>1, <1>8, <2>6 DEF Record, WorldTypeOK
    <2>8. step # Replacements => step + 1 <= nnew /\ step + 1 <= NOld
      BY <1>1, <1>2, <2>2 DEF Replacements
    <2>9. QED
      BY <1>1, <1>2, <2>1, <2>2, <2>6, <2>7, <2>8
      DEF LinearTInv, LinearTypeOK, LinearLoopPc, LinearExecutePc, AbortPc
  <1>9. CASE Extra
    <2>1. pc = "extra" /\ nnew' = nnew /\ step <= nnew + 1
      BY <1>9 DEF Extra, LinearTInv
    <2>2. step <= nnew => passed' \in SUBSET NewSet
      BY <1>1, <1>2, <1>9, WaitHealthyType DEF Extra, WorldTypeOK
    <2>3. passed' \in SUBSET NewSet
      BY <1>1, <1>9, <2>2 DEF Extra, WorldTypeOK
    <2>4. WorldTypeOK'
      BY <1>1, <1>9, <2>3 DEF Extra, WorldTypeOK
    <2>5. /\ pc' \in {"extra", "abort", "final"}
          /\ step' \in {step, step + 1}
          /\ step' = step + 1 => step <= nnew
      BY <1>1, <1>9, <2>1 DEF Extra
    <2>6. QED
      BY <1>1, <1>2, <2>1, <2>4, <2>5
      DEF LinearTInv, LinearTypeOK, LinearLoopPc, LinearExecutePc, AbortPc
  <1>10. CASE RouteFinal
    <2>1. Plain(Fresh) \in Upstream
      BY <1>2, Ids, PlainType
    <2>2. live' \in Upstream /\ pc' \in {"stable", "finish", "abort"}
      BY <1>2, <1>10, <2>1, ApplyType DEF RouteFinal
    <2>3. WorldTypeOK'
      BY <1>1, <1>10, <2>2 DEF RouteFinal, WorldTypeOK
    <2>4. step' = step
      BY <1>10 DEF RouteFinal
    <2>5. QED
      BY <1>1, <2>2, <2>3, <2>4 DEF LinearTInv, LinearTypeOK, LinearLoopPc, LinearExecutePc, AbortPc
  <1>11. CASE Finish
    <2>1. Idle(Fresh) \in StateFile
      BY <1>2, Ids, IdleType
    <2>2. file' \in StateFile /\ pc' \in {"done", "abort"}
      BY <1>2, <1>11, <2>1, SaveType DEF Finish
    <2>3. WorldTypeOK'
      BY <1>1, <1>11, <2>2 DEF Finish, WorldTypeOK
    <2>4. step' = step
      BY <1>11 DEF Finish
    <2>5. QED
      BY <1>1, <2>2, <2>3, <2>4 DEF LinearTInv, LinearTypeOK, LinearLoopPc, AbortPc, Terminal
  <1>12. QED
    BY <1>3, <1>4, <1>5, <1>6, <1>7, <1>8, <1>9, <1>10, <1>11 DEF LinearExecute

\* So does every step of the system.
LEMMA LinearTypeStep == LinearTInv /\ [LinearNext]_vars => LinearTInv'
  <1> SUFFICES ASSUME LinearTInv, [LinearNext]_vars PROVE LinearTInv'
    OBVIOUS
  <1>1. CASE DeployStep
    <2>1. /\ WorldTypeOK' /\ step' = step
          /\ pc' \in ProloguePc \cup AbortPc \cup Terminal \cup {"execute"}
      BY <1>1, DeployStepType DEF LinearTInv, LinearTypeOK
    <2>2. step \in 1 .. (NOld + NNew + 1)
      BY DEF LinearTInv, LinearTypeOK
    <2>3. QED
      BY <2>1, <2>2
      DEF LinearTInv, LinearTypeOK, LinearLoopPc, LinearExecutePc, ProloguePc, AbortPc, Terminal
  <1>2. CASE LinearExecute
    BY <1>2, LinearExecuteType
  <1>3. CASE Environment
    BY <1>3, EnvironmentType DEF LinearTInv, LinearTypeOK
  <1>4. CASE UNCHANGED vars
    BY <1>4, Zenon DEF vars, LinearTInv, LinearTypeOK, WorldTypeOK, Replacements
  <1>5. QED
    BY <1>1, <1>2, <1>3, <1>4 DEF LinearNext

\* The variables of a linear deployment always hold values of their types,
\* whatever fails: Execute never looks past the end of a container list.
THEOREM LinearTypeCorrect == LinearSpec => []LinearTypeOK
  <1>1. LinearTInv => LinearTypeOK
    BY DEF LinearTInv
  <1>2. QED
    BY LinearTypeInit, LinearTypeStep, <1>1, PTL DEF LinearSpec

-----------------------------------------------------------------------------
(* The implementation of Rollout.                                          *)

\* Replacement i puts NewAt(i) in service in the place of OldAt(i).
LEMMA ReplacedNext ==
    ASSUME NEW i \in 1 .. NNew, i <= NOld
    PROVE  /\ Replaced(i) = Replaced(i - 1) \cup {NewAt(i)}
           /\ Replaced((i + 1) - 1) = Replaced(i)
           /\ Remaining(i + 1) \subseteq Remaining(i)
           /\ OldAt(i) \notin Replaced(i) \cup Remaining(i)
  <1>1. NNew \in Nat /\ NOld \in Nat /\ i \in Nat /\ i >= 1
    BY CountAssumption
  <1>2. 1 .. i = (1 .. (i - 1)) \cup {i}
    BY <1>1
  <1>3. Replaced(i) = Replaced(i - 1) \cup {NewAt(i)}
    BY <1>2 DEF Replaced
  <1>4. (i + 1) - 1 = i
    BY <1>1
  <1>5. ((i + 1) + 1) .. NOld \subseteq (i + 1) .. NOld
    BY <1>1
  <1>6. Remaining(i + 1) \subseteq Remaining(i)
    BY <1>5 DEF Remaining
  <1>7. OldAt(i) \notin Remaining(i)
    BY <1>1 DEF Remaining, OldAt
  <1>8. OldAt(i) \notin Replaced(i)
    BY <1>1 DEF Replaced, OldAt, NewAt
  <1>9. QED
    BY <1>3, <1>4, <1>6, <1>7, <1>8

\* After as many replacements as there are new containers all of them serve.
LEMMA ReplacedAll ==
    ASSUME nnew \in 0 .. NNew
    PROVE  Fresh \subseteq Replaced(nnew)
  <1>1. ASSUME NEW c \in Fresh PROVE c \in Replaced(nnew)
    <2>1. c - NOld \in 1 .. nnew /\ c = NewAt(c - NOld)
      BY <1>1, CountAssumption DEF Fresh, NewAt
    <2>2. QED
      BY <2>1 DEF Replaced
  <1>2. QED
    BY <1>1

\* The invariant holds when deploy has its lists.
LEMMA LinearInvInit == Init => RolloutInv
  <1> SUFFICES ASSUME Init PROVE RolloutInv
    OBVIOUS
  <1>1. LinearTypeOK
    BY LinearTypeInit DEF LinearTInv
  <1>2. nnew \in 1 .. NNew /\ NNew \in Nat
    BY CountAssumption DEF Init
  <1>3. live.on = OldSet /\ live.backup = {} /\ Reachable = OldSet
    BY DEF Init, Plain, Reachable
  <1>4. Present = Container
    BY DEF Init, Present
  <1>5. OldSet # {} /\ OldSet \subseteq Container /\ OldSet \cap NewSet = {}
        /\ NewSet \subseteq Container
    BY <1>2, Ids
  <1>6. Routed
    BY <1>3, <1>4, <1>5 DEF Routed
  <1>7. file.stable \subseteq OldSet /\ targets = {}
    BY DEF Init, Idle
  <1>8. Recorded
    BY <1>5, <1>7 DEF Recorded
  <1>9. Phases /\ Replacing
    BY <1>3, <1>4, <1>5
    DEF Init, Phases, Replacing, LinearLoopPc, LinearExecutePc, ProloguePc
  <1>10. QED
    BY <1>1, <1>2, <1>3, <1>6, <1>8, <1>9 DEF RolloutInv

\* What RolloutInv says of the types alone.
LEMMA LinearInvType ==
    ASSUME RolloutInv
    PROVE  /\ LinearTInv /\ WorldTypeOK /\ step \in 1 .. (NOld + NNew + 1)
           /\ nnew \in 1 .. NNew /\ file \in StateFile /\ live \in Upstream
           /\ docker \in [Container -> Status] /\ kept \in SUBSET Container
           /\ passed \in SUBSET NewSet /\ targets \in SUBSET Container
           /\ Reachable = live.on
           /\ NOld \in Nat /\ NNew \in Nat
    BY CountAssumption
    DEF RolloutInv, LinearTypeOK, WorldTypeOK, LinearTInv, Replacing, Reachable

\* The steps of the prologue and of the abort keep it: the abort routes to
\* what the state file or the deployment names, and removes none of that.
LEMMA LinearInvDeployStep ==
    ASSUME RolloutInv, DeployStep, "vanish" \notin Faults
    PROVE  RolloutInv'
  <1> USE DEF ProloguePc, AbortPc, Terminal, LinearLoopPc, LinearExecutePc
  <1>1. LinearTypeOK'
    BY LinearInvType, LinearTypeStep DEF LinearNext, LinearTInv
  <1>2. /\ WorldTypeOK /\ nnew \in 1 .. NNew /\ NNew \in Nat /\ Reachable = live.on
        /\ Routed /\ Recorded /\ Phases /\ live.backup = {}
    BY LinearInvType DEF RolloutInv
  <1>3. pc' \in ProloguePc \cup AbortPc \cup Terminal \cup {"execute"}
    BY <1>2, DeployStepType
  <1>4. Replacing'
    BY <1>3 DEF Replacing
  <1>5. CASE EarlySave
    <2>1. UNCHANGED <<docker, live, nnew, passed, targets>> /\ pc = "start" /\ pc' = "gather"
      BY <1>5 DEF EarlySave, Save
    <2>2. file'.stable = {} \/ file' = file
      BY <1>5 DEF EarlySave, Save, InProgress, Idle
    <2>3. Recorded'
      BY <1>2, <2>1, <2>2 DEF Recorded
    <2>4. Routed' /\ Phases'
      BY <1>2, <2>1 DEF Routed, Phases, Reachable, Present
    <2>5. QED
      BY <1>1, <1>2, <1>4, <2>1, <2>3, <2>4 DEF RolloutInv
  <1>6. CASE Gather
    <2>1. UNCHANGED <<docker, live, file, passed, targets>> /\ pc = "gather" /\ pc' = "prepare"
      BY <1>6 DEF Gather
    <2>2. nnew' >= 1
      BY <1>2, <1>6 DEF Gather, MayFail
    <2>3. Routed' /\ Recorded' /\ Phases'
      BY <1>2, <2>1 DEF Routed, Recorded, Phases, Reachable, Present
    <2>4. QED
      BY <1>1, <1>2, <1>4, <2>1, <2>2, <2>3 DEF RolloutInv
  <1>7. CASE Prepare
    <2>1. /\ UNCHANGED <<docker, live, file, nnew, passed, targets>> /\ pc = "prepare"
          /\ pc' \in {"execute", "failed", "discard"}
      BY <1>7 DEF Prepare
    <2>2. Routed' /\ Recorded' /\ Phases'
      BY <1>2, <2>1 DEF Routed, Recorded, Phases, Reachable, Present
    <2>3. QED
      BY <1>1, <1>2, <1>4, <2>1, <2>2 DEF RolloutInv
  <1>8. CASE DiscardNew
    <2>1. /\ UNCHANGED <<live, file, nnew, passed, targets>>
          /\ pc = "discard" /\ pc' = "discardSave"
      BY <1>8 DEF DiscardNew
    <2>2. Present \ Fresh \subseteq Present'
      BY <1>2, <1>8, Ids, RemoveEffect DEF DiscardNew, WorldTypeOK
    <2>3. live.on = OldSet /\ OldSet \cap Fresh = {}
      BY <1>2, <2>1, Ids DEF Phases
    <2>4. Routed'
      BY <1>2, <2>1, <2>2, <2>3 DEF Routed, Reachable
    <2>5. Recorded' /\ Phases'
      BY <1>2, <2>1, <2>3 DEF Recorded, Phases
    <2>6. QED
      BY <1>1, <1>2, <1>4, <2>1, <2>4, <2>5 DEF RolloutInv
  <1>9. CASE DiscardSave
    <2>1. /\ UNCHANGED <<docker, live, nnew, passed, targets>>
          /\ pc' \in {"discarded", "failed"}
      BY <1>9 DEF DiscardSave, Save
    <2>2. file'.stable = OldSet \/ file' = file
      BY <1>9 DEF DiscardSave, Save, Idle
    <2>3. Recorded'
      BY <1>2, <2>1, <2>2, Ids DEF Recorded
    <2>4. Routed' /\ Phases'
      BY <1>2, <2>1 DEF Routed, Phases, Reachable, Present
    <2>5. QED
      BY <1>1, <1>2, <1>4, <2>1, <2>3, <2>4 DEF RolloutInv
  <1>10. CASE AbortRoute
    <2>1. UNCHANGED <<docker, file, nnew, passed>> /\ pc' \in {"failed", "abortDrain"}
      BY <1>10 DEF AbortRoute
    <2>2. /\ targets' \subseteq AbortCandidates
          /\ live' = live \/ (targets' # {} /\ live' = Plain(targets'))
          /\ pc' = "abortDrain" => live' = Plain(targets')
      BY <1>10 DEF AbortRoute
    <2>3. AbortCandidates \subseteq Present /\ AbortCandidates \cap NewSet \subseteq passed
      BY <1>2, Ids DEF AbortCandidates, Recorded
    <2>4. Recorded'
      BY <1>2, <2>1, <2>2, <2>3 DEF Recorded
    <2>5. Routed' /\ live'.backup = {}
      BY <1>2, <2>1, <2>2, <2>3 DEF Routed, Reachable, Present, Plain
    <2>6. Phases'
      BY <2>1, <2>2 DEF Phases, Plain
    <2>7. QED
      BY <1>1, <1>2, <1>4, <2>1, <2>4, <2>5, <2>6 DEF RolloutInv
  <1>11. CASE AbortDrain
    <2>1. /\ UNCHANGED <<docker, live, file, nnew, passed, targets>> /\ pc = "abortDrain"
          /\ pc' \in {"abortRemove", "failed"}
      BY <1>11 DEF AbortDrain
    <2>2. Routed' /\ Recorded' /\ Phases'
      BY <1>2, <2>1 DEF Routed, Recorded, Phases, Reachable, Present
    <2>3. QED
      BY <1>1, <1>2, <1>4, <2>1, <2>2 DEF RolloutInv
  <1>12. CASE AbortRemove
    <2>1. /\ UNCHANGED <<live, file, nnew, passed, targets>>
          /\ pc = "abortRemove" /\ pc' = "abortSave"
      BY <1>12 DEF AbortRemove
    <2>2. Present \ (Fresh \ targets) \subseteq Present'
      BY <1>2, <1>12, Ids, RemoveEffect DEF AbortRemove, WorldTypeOK
    <2>3. live.on = targets
      BY <1>2, <2>1 DEF Phases
    <2>4. Routed'
      BY <1>2, <2>1, <2>2, <2>3 DEF Routed, Reachable
    <2>5. Recorded' /\ Phases'
      BY <1>2, <2>1 DEF Recorded, Phases
    <2>6. QED
      BY <1>1, <1>2, <1>4, <2>1, <2>4, <2>5 DEF RolloutInv
  <1>13. CASE AbortSave
    <2>1. /\ UNCHANGED <<docker, live, nnew, passed, targets>>
          /\ pc' \in {"aborted", "failed"}
      BY <1>13 DEF AbortSave, Save
    <2>2. file'.stable = targets \/ file' = file
      BY <1>13 DEF AbortSave, Save, Idle
    <2>3. Recorded'
      BY <1>2, <2>1, <2>2 DEF Recorded
    <2>4. Routed' /\ Phases'
      BY <1>2, <2>1 DEF Routed, Phases, Reachable, Present
    <2>5. QED
      BY <1>1, <1>2, <1>4, <2>1, <2>3, <2>4 DEF RolloutInv
  <1>14. QED
    BY <1>5, <1>6, <1>7, <1>8, <1>9, <1>10, <1>11, <1>12, <1>13
    DEF DeployStep

\* The steps of the strategy keep it: traffic only moves to containers that
\* have been awaited, and leaves the old ones before they are removed.
LEMMA LinearInvExecute ==
    ASSUME RolloutInv, LinearExecute
    PROVE  RolloutInv'
  <1> USE DEF ProloguePc, AbortPc, Terminal, LinearLoopPc, LinearExecutePc
  <1>1. LinearTypeOK'
    BY LinearInvType, LinearTypeStep DEF LinearNext, LinearTInv
  <1>2. /\ LinearTInv /\ WorldTypeOK /\ step \in 1 .. (NOld + NNew + 1)
        /\ nnew \in 1 .. NNew /\ NNew \in Nat /\ NOld \in Nat
        /\ file \in StateFile /\ Reachable = live.on /\ passed \in SUBSET NewSet
        /\ Routed /\ Recorded /\ Phases /\ Replacing /\ live.backup = {}
    BY LinearInvType DEF RolloutInv
  <1>3. CASE SaveInitial
    <2>1. /\ UNCHANGED <<docker, live, nnew, passed, targets>>
          /\ pc = "execute" /\ step' = 1
          /\ pc' \in {IF Replacements > 0 THEN "wait" ELSE "extra", "abort"}
      BY <1>3 DEF SaveInitial, Save
    <2>2. file'.stable = OldSet \/ file' = file
      BY <1>3 DEF SaveInitial, Save, InProgress, Idle
    <2>3. Recorded'
      BY <1>2, <2>1, <2>2, Ids DEF Recorded
    <2>4. Routed' /\ Phases'
      BY <1>2, <2>1 DEF Routed, Phases, Reachable, Present
    <2>5. live.on = OldSet /\ OldSet \subseteq Present
      BY <1>2, <2>1 DEF Phases, Routed
    <2>6. Remaining(1) \subseteq Present /\ Present' = Present
      BY <1>2, <2>1, <2>5, ReplacedType DEF Present
    <2>7. Replaced(1 - 1) = {}
      BY DEF Replaced
    <2>8. Replacing'
      BY <1>2, <2>1, <2>6, <2>7, CountAssumption DEF Replacing, Replacements
    <2>9. QED
      BY <1>1, <1>2, <2>1, <2>3, <2>4, <2>8 DEF RolloutInv
  <1>4. CASE LinearWait
    <2>1. /\ UNCHANGED <<docker, live, file, nnew, step, targets>>
          /\ pc = "wait" /\ pc' \in {"route", "abort"}
      BY <1>4 DEF LinearWait
    <2>2. step \in 1 .. nnew /\ Remaining(step) \subseteq Present
          /\ Replaced(step - 1) \subseteq passed
      BY <1>2, <2>1 DEF Replacing
    <2>3. passed \subseteq passed' /\ (pc' = "route" => NewAt(step) \in passed')
      BY <1>2, <1>4, <2>2, WaitHealthyType DEF LinearWait
    <2>4. Routed' /\ Recorded' /\ Phases'
      BY <1>2, <2>1, <2>3 DEF Routed, Recorded, Phases, Reachable, Present
    <2>5. Replacing'
      BY <1>2, <2>1, <2>2, <2>3 DEF Replacing, Present
    <2>6. QED
      BY <1>1, <1>2, <2>1, <2>4, <2>5 DEF RolloutInv
  <1>5. CASE RouteStep
    <2>1. /\ UNCHANGED <<docker, file, nnew, step, passed, targets>>
          /\ pc = "route" /\ pc' \in {"drain", "abort"}
      BY <1>5 DEF RouteStep, Apply
    <2>2. step \in 1 .. NNew /\ step <= NOld /\ step <= nnew
      BY <1>2, <2>1 DEF Replacing
    <2>3. /\ Remaining(step) \subseteq Present /\ NewAt(step) \in passed
          /\ Replaced(step - 1) \subseteq passed
      BY <1>2, <2>1 DEF Replacing
    <2>4. Replaced(step) = Replaced(step - 1) \cup {NewAt(step)}
      BY <2>2, ReplacedNext
    <2>5. Replaced(step) \subseteq passed /\ Replaced(step) # {}
      BY <2>3, <2>4
    <2>6. NewSet \subseteq Present
      BY <1>2, <2>1 DEF Phases
    <2>7. Remaining(step) \cap NewSet = {}
      BY <1>2, <2>2, Ids, ReplacedType
    <2>8. /\ live' = live \/ live' = Stepping(step)
          /\ pc' = "drain" => live' = Stepping(step)
      BY <1>5 DEF RouteStep, Apply
    <2>9. /\ Stepping(step).on = Replaced(step) \cup Remaining(step)
          /\ Stepping(step).backup = {}
      BY DEF Stepping, Plain
    <2>10. Routed' /\ live'.backup = {}
      BY <1>2, <2>1, <2>3, <2>5, <2>6, <2>7, <2>8, <2>9 DEF Routed, Reachable, Present
    <2>11. Recorded' /\ Phases'
      BY <1>2, <2>1 DEF Recorded, Phases, Present
    <2>12. Replacing'
      BY <1>2, <2>1, <2>2, <2>3, <2>8, <2>9 DEF Replacing, Present
    <2>13. QED
      BY <1>1, <1>2, <2>1, <2>10, <2>11, <2>12 DEF RolloutInv
  <1>6. CASE Drain
    <2>1. /\ UNCHANGED <<docker, live, file, nnew, step, passed, targets>>
          /\ pc = "drain" /\ pc' \in {"remove", "abort"}
      BY <1>6 DEF Drain, Elapsed
    <2>2. Routed' /\ Recorded' /\ Phases' /\ Replacing'
      BY <1>2, <2>1 DEF Routed, Recorded, Phases, Replacing, Reachable, Present
    <2>3. QED
      BY <1>1, <1>2, <2>1, <2>2 DEF RolloutInv
  <1>7. CASE RemoveStep
    <2>1. /\ UNCHANGED <<live, file, nnew, step, passed, targets>>
          /\ pc = "remove" /\ pc' = "record"
      BY <1>7 DEF RemoveStep
    <2>2. step \in 1 .. NNew /\ step <= NOld
      BY <1>2, <2>1 DEF Replacing
    <2>3. live.on = Replaced(step) \cup Remaining(step)
      BY <1>2, <2>1 DEF Replacing
    <2>4. OldAt(step) \notin Replaced(step) \cup Remaining(step)
      BY <2>2, ReplacedNext
    <2>5. OldAt(step) \in OldSet
      BY <1>2, <2>2 DEF OldAt, OldSet
    <2>6. Present \ {OldAt(step)} \subseteq Present'
      BY <1>2, <1>7, <2>5, Ids, RemoveEffect DEF RemoveStep, WorldTypeOK
    <2>7. Routed'
      BY <1>2, <2>1, <2>3, <2>4, <2>6 DEF Routed, Reachable
    <2>8. Recorded'
      BY <1>2, <2>1 DEF Recorded
    <2>9. Phases'
      BY <1>2, <2>1, <2>5, <2>6, Ids DEF Phases
    <2>10. Replacing'
      BY <1>2, <2>1, <2>4, <2>6 DEF Replacing
    <2>11. QED
      BY <1>1, <1>2, <2>1, <2>7, <2>8, <2>9, <2>10 DEF RolloutInv
  <1>8. CASE Record
    <2>1. /\ UNCHANGED <<docker, live, nnew, passed, targets>>
          /\ pc = "record" /\ step' = step + 1
          /\ pc' \in {IF step = Replacements THEN "extra" ELSE "wait", "abort"}
      BY <1>8 DEF Record, Save
    <2>2. step \in 1 .. NNew /\ step <= NOld /\ step <= nnew
      BY <1>2, <2>1 DEF Replacing
    <2>3. /\ Remaining(step) \subseteq Present /\ NewAt(step) \in passed
          /\ Replaced(step - 1) \subseteq passed
      BY <1>2, <2>1 DEF Replacing
    <2>4. /\ Replaced(step) \subseteq passed /\ Replaced((step + 1) - 1) = Replaced(step)
          /\ Remaining(step + 1) \subseteq Present
      BY <2>2, <2>3, ReplacedNext
    <2>5. file' = file \/ file'.stable \subseteq Replaced(step) \cup Remaining(step)
      BY <1>2, <1>8 DEF Record, Save, StateFile
    <2>6. Remaining(step) \cap NewSet = {}
      BY <1>2, <2>2, Ids, ReplacedType
    <2>7. Recorded'
      BY <1>2, <2>1, <2>4, <2>5, <2>6 DEF Recorded
    <2>8. Routed' /\ Phases'
      BY <1>2, <2>1 DEF Routed, Phases, Reachable, Present
    <2>9. step # Replacements => step + 1 <= nnew /\ step + 1 <= NOld
      BY <1>2, <2>2 DEF Replacements
    <2>10. Replacing'
      BY <1>2, <2>1, <2>2, <2>4, <2>9 DEF Replacing, Present
    <2>11. QED
      BY <1>1, <1>2, <2>1, <2>7, <2>8, <2>10 DEF RolloutInv
  <1>9. CASE Extra
    <2>1. /\ UNCHANGED <<docker, live, file, nnew, targets>>
          /\ pc = "extra" /\ pc' \in {"extra", "abort", "final"}
      BY <1>9 DEF Extra
    <2>2. step <= nnew + 1 /\ Replaced(step - 1) \subseteq passed
      BY <1>2, <2>1 DEF Replacing
    <2>3. CASE pc' = "extra"
      <3>1. step \in 1 .. nnew /\ step' = step + 1 /\ WaitHealthy(NewAt(step))
        BY <1>2, <1>9, <2>3 DEF Extra
      <3>2. passed \subseteq passed' /\ NewAt(step) \in passed'
        BY <1>2, <3>1, WaitHealthyType
      <3>3. Replaced(step) \subseteq Replaced(step - 1) \cup {NewAt(step)}
        BY <1>2, <3>1 DEF Replaced
      <3>4. (step + 1) - 1 = step
        BY <1>2
      <3>5. Replaced(step' - 1) \subseteq passed'
        BY <2>2, <3>1, <3>2, <3>3, <3>4
      <3>6. Routed' /\ Recorded' /\ Phases'
        BY <1>2, <2>1, <3>2 DEF Routed, Recorded, Phases, Reachable, Present
      <3>7. Replacing'
        BY <1>2, <2>1, <2>3, <3>1, <3>5 DEF Replacing
      <3>8. QED
        BY <1>1, <1>2, <2>1, <3>6, <3>7 DEF RolloutInv
    <2>4. CASE pc' \in {"abort", "final"}
      <3>1. step' = step /\ passed' = passed
        BY <1>9, <2>4, <2>1 DEF Extra
      <3>2. Routed' /\ Recorded' /\ Phases'
        BY <1>2, <2>1, <2>4, <3>1 DEF Routed, Recorded, Phases, Reachable, Present
      <3>3. pc' = "final" => step > nnew
        BY <1>9, <2>1 DEF Extra
      <3>4. pc' = "final" => step - 1 = nnew
        BY <1>2, <2>2, <3>3
      <3>5. pc' = "final" => Fresh' \subseteq passed'
        BY <1>2, <2>1, <2>2, <3>1, <3>4, ReplacedAll DEF Fresh
      <3>6. Replacing'
        BY <2>1, <2>4, <3>5 DEF Replacing
      <3>7. QED
        BY <1>1, <1>2, <2>1, <3>2, <3>6 DEF RolloutInv
    <2>5. QED
      BY <2>1, <2>3, <2>4
  <1>10. CASE RouteFinal
    <2>1. /\ UNCHANGED <<docker, file, nnew, step, passed, targets>>
          /\ pc \in {"final", "stable"} /\ pc' \in {"stable", "finish", "abort"}
      BY <1>10 DEF RouteFinal, Apply
    <2>2. Fresh \subseteq passed /\ Fresh' = Fresh
      BY <1>2, <2>1 DEF Replacing, Fresh
    <2>3. Fresh # {} /\ Fresh \subseteq NewSet /\ NewSet \subseteq Present
      BY <1>2, <2>1, Ids DEF Phases, Fresh
    <2>4. live' = live \/ (live'.on = Fresh /\ live'.backup = {})
      BY <1>10 DEF RouteFinal, Apply, Plain
    <2>5. Routed' /\ live'.backup = {}
      BY <1>2, <2>1, <2>2, <2>3, <2>4 DEF Routed, Reachable, Present
    <2>6. Recorded' /\ Phases'
      BY <1>2, <2>1 DEF Recorded, Phases, Present
    <2>7. Replacing'
      BY <2>1, <2>2 DEF Replacing
    <2>8. QED
      BY <1>1, <1>2, <2>1, <2>5, <2>6, <2>7 DEF RolloutInv
  <1>11. CASE Finish
    <2>1. /\ UNCHANGED <<docker, live, nnew, step, passed, targets>>
          /\ pc = "finish" /\ pc' \in {"done", "abort"}
      BY <1>11 DEF Finish, Save
    <2>2. file' = file \/ file'.stable = Fresh
      BY <1>11 DEF Finish, Save, Idle
    <2>3. Fresh \subseteq passed
      BY <1>2, <2>1 DEF Replacing
    <2>4. Recorded'
      BY <1>2, <2>1, <2>2, <2>3 DEF Recorded
    <2>5. Routed' /\ Phases' /\ Replacing'
      BY <1>2, <2>1 DEF Routed, Phases, Replacing, Reachable, Present
    <2>6. QED
      BY <1>1, <1>2, <2>1, <2>4, <2>5 DEF RolloutInv
  <1>12. QED
    BY <1>3, <1>4, <1>5, <1>6, <1>7, <1>8, <1>9, <1>10, <1>11 DEF LinearExecute

\* What happens around the deployment keeps it: Docker's containers get sick
\* or exit, but only the deployment removes one.
LEMMA LinearInvEnvironment ==
    ASSUME RolloutInv, Environment
    PROVE  RolloutInv'
  <1>1. LinearTypeOK'
    BY LinearInvType, LinearTypeStep DEF LinearNext, LinearTInv
  <1>2. /\ UNCHANGED <<live, file, nnew, pc, step, passed, kept, targets>>
        /\ Present' = Present
    BY LinearInvType, EnvironmentType
  <1>3. QED
    BY <1>1, <1>2
    DEF RolloutInv, Routed, Recorded, Phases, Replacing, Reachable, Fresh,
        Replaced, Remaining

\* Every step keeps it.
LEMMA LinearInvStep ==
    ASSUME "vanish" \notin Faults
    PROVE  RolloutInv /\ [LinearNext]_vars => RolloutInv'
  <1> SUFFICES ASSUME RolloutInv, [LinearNext]_vars PROVE RolloutInv'
    OBVIOUS
  <1>1. CASE UNCHANGED vars
    <2>1. LinearTypeOK'
      BY <1>1, LinearInvType, LinearTypeStep DEF LinearTInv
    <2>2. QED
      BY <1>1, <2>1
      DEF vars, RolloutInv, Routed, Recorded, Phases, Replacing, Reachable, Fresh,
          Present, Replaced, Remaining
  <1>2. QED
    BY <1>1, LinearInvDeployStep, LinearInvExecute, LinearInvEnvironment DEF LinearNext

\* Every step of a deployment is a step of Rollout or none.
LEMMA LinearMapStep ==
    ASSUME RolloutInv, RolloutInv', [LinearNext]_vars
    PROVE  [R!RolloutNext]_R!rolloutVars
  <1>1. Routed' /\ WorldTypeOK
    BY LinearInvType DEF RolloutInv
  <1>2. CASE DeployStep
    BY <1>1, <1>2, DeployStepKind, StepMaps
  <1>3. CASE Environment
    BY <1>1, <1>3, EnvironmentType, StepMaps
  <1>4. CASE RemoveStep
    <2>1. OldAt(step) \in Container
      BY <1>4, CountAssumption, LinearInvType
      DEF RemoveStep, RolloutInv, Replacing, LinearLoopPc, OldAt, Container
    <2>2. Present' \subseteq Present
      BY <1>1, <1>4, <2>1, RemoveEffect DEF RemoveStep, WorldTypeOK
    <2>3. QED
      BY <1>1, <1>4, <2>2, StepMaps DEF RemoveStep
  <1>5. CASE LinearWait \/ (Extra /\ step <= nnew)
    <2>1. step \in 1 .. nnew
      BY <1>5, LinearInvType DEF LinearWait, RolloutInv, Replacing, LinearLoopPc
    <2>2. NewAt(step) \in Container
      BY <2>1, CountAssumption, LinearInvType DEF NewAt, Container
    <2>3. UNCHANGED <<docker, live>> /\ passed' \in {passed, passed \cup {NewAt(step)}}
      BY <1>5 DEF LinearWait, Extra, WaitHealthy, Observed
    <2>4. QED
      BY <1>1, <2>2, <2>3, StepMaps
  <1>6. CASE UNCHANGED vars
    BY <1>1, <1>6, StepMaps DEF vars
  <1>7. CASE LinearExecute /\ ~RemoveStep /\ ~LinearWait /\ ~(Extra /\ step <= nnew)
    <2>1. docker' = docker /\ passed' = passed
      BY <1>7 DEF LinearExecute, SaveInitial, RouteStep, Drain, Record, Extra, RouteFinal, Finish
    <2>2. QED
      BY <1>1, <2>1, StepMaps
  <1>8. QED
    BY <1>2, <1>3, <1>4, <1>5, <1>6, <1>7 DEF LinearNext, LinearExecute

\* Unless new containers vanish from a listing: the invariant of a linear
\* deployment holds for any number of containers and all other failures.
THEOREM LinearInvariant ==
    ASSUME "vanish" \notin Faults
    PROVE  LinearSpec => []RolloutInv
  <1>1. QED
    BY LinearInvInit, LinearInvStep, PTL DEF LinearSpec

\* Unless new containers vanish from a listing, a linear deployment has zero
\* downtime: whatever else fails, requests always go to some container, only to
\* ones that exist and, if new, passed their health check, and the deployment
\* removes a container only after the proxy let go of it.
THEOREM LinearImplementsRollout ==
    ASSUME "vanish" \notin Faults
    PROVE  LinearSpec => ImplementsRollout
  <1>1. RolloutInv /\ RolloutInv' /\ [LinearNext]_vars => [R!RolloutNext]_R!rolloutVars
    BY LinearMapStep
  <1>2. QED
    BY MapInit, LinearInvInit, LinearInvStep, <1>1, PTL DEF LinearSpec, ImplementsRollout, R!RolloutSpec

-----------------------------------------------------------------------------
(* The abort.                                                              *)

\* Every step keeps what an abort relies on: Execute never enters its middle.
LEMMA LinearAbortInvStep == LinearTInv /\ AbortInv /\ [LinearNext]_vars => AbortInv'
  <1> SUFFICES ASSUME LinearTInv, AbortInv, [LinearNext]_vars PROVE AbortInv'
    OBVIOUS
  <1>1. WorldTypeOK
    BY DEF LinearTInv, LinearTypeOK
  <1>2. CASE DeployStep
    BY <1>1, <1>2, AbortInvDeployStep
  <1>3. CASE LinearExecute
    <2>1. pc' \notin {"abortDrain", "abortRemove", "abortSave", "aborted"}
      BY <1>3
      DEF LinearExecute, SaveInitial, LinearWait, RouteStep, Drain, RemoveStep, Record, Extra,
          RouteFinal, Finish, Save, Apply, Elapsed
    <2>2. QED
      BY <2>1 DEF AbortInv
  <1>4. CASE Environment
    BY <1>1, <1>4, AbortInvEnvironment
  <1>5. CASE UNCHANGED vars
    BY <1>5 DEF vars, AbortInv, Fresh, Present, Plain, Idle
  <1>6. QED
    BY <1>2, <1>3, <1>4, <1>5 DEF LinearNext

\* An abort that ends well ends on containers that exist, in the proxy and in
\* the state file, and leaves nothing of its own but what could not be removed;
\* whatever failed before it, and also after the new containers vanished.
THEOREM LinearAbortEndsServing == LinearSpec => []AbortKeepsServing
  <1>1. Init => AbortInv
    BY DEF Init, AbortInv
  <1>2. AbortInv => AbortKeepsServing
    BY AbortServes
  <1>3. QED
    BY LinearTypeInit, LinearTypeStep, LinearAbortInvStep, <1>1, <1>2, PTL DEF LinearSpec

-----------------------------------------------------------------------------
(* Capacity, and the state file beside the proxy.                          *)

\* Who serves after i replacements: as many as before.
ServingAfter(i) == Replaced(i) \cup Remaining(i)

LEMMA ServingCount ==
    ASSUME NEW i \in 0 .. NOld
    PROVE  IsFiniteSet(ServingAfter(i)) /\ Cardinality(ServingAfter(i)) = NOld
  <1>1. NOld \in Nat /\ NOld >= 1 /\ i \in Nat /\ i <= NOld
    BY CountAssumption
  <1>2. Replaced(i) = (NOld + 1) .. (NOld + i)
    <2>1. ASSUME NEW c \in (NOld + 1) .. (NOld + i) PROVE c \in Replaced(i)
      <3>1. c - NOld \in 1 .. i /\ c = NewAt(c - NOld)
        BY <1>1 DEF NewAt
      <3>2. QED
        BY <3>1 DEF Replaced
    <2>2. Replaced(i) \subseteq (NOld + 1) .. (NOld + i)
      BY <1>1 DEF Replaced, NewAt
    <2>3. QED
      BY <2>1, <2>2
  <1>3. Remaining(i) = (i + 1) .. NOld
    BY <1>1 DEF Remaining, OldAt
  <1>4. ServingAfter(i) = (i + 1) .. (NOld + i)
    BY <1>1, <1>2, <1>3 DEF ServingAfter
  <1>5. i + 1 \in Int /\ NOld + i \in Int /\ ~(i + 1 > NOld + i)
        /\ (NOld + i) - (i + 1) + 1 = NOld
    BY <1>1
  <1>6. QED
    BY <1>4, <1>5, FS_Interval

LEMMA FreshCount ==
    ASSUME nnew \in 0 .. NNew
    PROVE  Cardinality(Fresh) = nnew
  <1>1. NOld + 1 \in Int /\ NOld + nnew \in Int
    BY CountAssumption
  <1>2. Cardinality((NOld + 1) .. (NOld + nnew)) =
          IF NOld + 1 > NOld + nnew THEN 0 ELSE (NOld + nnew) - (NOld + 1) + 1
    BY <1>1, FS_Interval
  <1>3. QED
    BY <1>2, CountAssumption DEF Fresh

\* Before the first replacement the old containers serve.
LEMMA ServingFirst == ServingAfter(0) = OldSet
    BY CountAssumption DEF ServingAfter, Replaced, Remaining, OldAt, OldSet

\* Where the traffic is and what the file says of it at each place.
ServingInv ==
    /\ pc \in ProloguePc \cup {"execute"} => live.on = OldSet
    /\ pc \in {"wait", "route"} => live.on = ServingAfter(step - 1)
    /\ pc \in {"drain", "remove", "record"} => live.on = ServingAfter(step)
    /\ pc \in {"extra", "final"} /\ nnew >= NOld => live.on = ServingAfter(NOld)
    /\ pc \in {"stable", "finish"} => live.on = Fresh
    /\ pc \in LinearLoopPc => file.stable = ServingAfter(step - 1)

LEMMA ServingStep == LinearTInv /\ ServingInv /\ [LinearNext]_vars => ServingInv'
  <1> SUFFICES ASSUME LinearTInv, ServingInv, [LinearNext]_vars PROVE ServingInv'
    OBVIOUS
  <1> USE DEF ProloguePc, AbortPc, Terminal, LinearLoopPc, LinearExecutePc
  <1>1. /\ WorldTypeOK /\ step \in 1 .. (NOld + NNew + 1) /\ nnew \in 0 .. NNew
        /\ file \in StateFile /\ NOld \in Nat /\ NNew \in Nat /\ NOld >= 1
    BY CountAssumption DEF LinearTInv, LinearTypeOK, WorldTypeOK
  <1>2. (step + 1) - 1 = step /\ 1 - 1 = 0
    BY <1>1
  <1>3. CASE DeployStep
    <2>1. pc' \in ProloguePc \cup AbortPc \cup Terminal \cup {"execute"}
      BY <1>1, <1>3, DeployStepType
    <2>2. CASE EarlySave \/ Gather \/ Prepare \/ DiscardNew \/ DiscardSave
      <3>1. pc \in ProloguePc /\ live' = live
        BY <2>2 DEF EarlySave, Gather, Prepare, DiscardNew, DiscardSave
      <3>2. live.on = OldSet /\ OldSet' = OldSet
        BY <3>1 DEF ServingInv, OldSet
      <3>3. QED
        BY <2>1, <3>1, <3>2 DEF ServingInv
    <2>3. CASE AbortRoute \/ AbortDrain \/ AbortRemove \/ AbortSave
      <3>1. pc' \in AbortPc \cup Terminal
        BY <2>3 DEF AbortRoute, AbortDrain, AbortRemove, AbortSave, Save
      <3>2. QED
        BY <3>1 DEF ServingInv
    <2>4. QED
      BY <1>3, <2>2, <2>3 DEF DeployStep
  <1>4. CASE SaveInitial
    <2>1. UNCHANGED <<live, nnew>> /\ step' = 1 /\ live.on = OldSet
      BY <1>4 DEF SaveInitial, ServingInv
    <2>2. \/ pc' = "wait" /\ file'.stable = OldSet
          \/ pc' = "extra" /\ ~(Replacements > 0)
          \/ pc' = "abort"
      BY <1>4 DEF SaveInitial, Save, InProgress, Idle
    <2>3. nnew >= NOld => Replacements > 0
      BY <1>1 DEF Replacements
    <2>4. QED
      BY <1>2, <2>1, <2>2, <2>3, ServingFirst DEF ServingInv
  <1>5. CASE LinearWait
    <2>1. /\ UNCHANGED <<live, file, nnew, step>> /\ pc = "wait"
          /\ pc' \in {"route", "abort"}
      BY <1>5 DEF LinearWait
    <2>2. QED
      BY <2>1 DEF ServingInv
  <1>6. CASE RouteStep
    <2>1. /\ UNCHANGED <<file, nnew, step>> /\ pc = "route"
          /\ pc' = "abort" \/ (pc' = "drain" /\ live' = Stepping(step))
      BY <1>6 DEF RouteStep, Apply
    <2>2. Stepping(step).on = ServingAfter(step)
      BY DEF Stepping, Plain, ServingAfter
    <2>3. QED
      BY <2>1, <2>2 DEF ServingInv
  <1>7. CASE Drain
    <2>1. /\ UNCHANGED <<live, file, nnew, step>> /\ pc = "drain"
          /\ pc' \in {"remove", "abort"}
      BY <1>7 DEF Drain, Elapsed
    <2>2. QED
      BY <2>1 DEF ServingInv
  <1>8. CASE RemoveStep
    <2>1. /\ UNCHANGED <<live, file, nnew, step>> /\ pc = "remove" /\ pc' = "record"
      BY <1>8 DEF RemoveStep
    <2>2. QED
      BY <2>1 DEF ServingInv
  <1>9. CASE Record
    <2>1. UNCHANGED <<live, nnew>> /\ pc = "record" /\ step' = step + 1
      BY <1>9 DEF Record
    <2>2. live.on = ServingAfter(step) /\ step <= NOld /\ step <= nnew
      BY <2>1 DEF ServingInv, LinearTInv
    <2>3. \/ pc' = "abort"
          \/ pc' = "extra" /\ step = Replacements
          \/ pc' = "wait" /\ file'.stable = ServingAfter(step)
      BY <1>1, <1>9 DEF Record, Save, StateFile, ServingAfter
    <2>4. nnew >= NOld => Replacements = NOld
      BY <1>1 DEF Replacements
    <2>5. QED
      BY <1>2, <2>1, <2>2, <2>3, <2>4 DEF ServingInv
  <1>10. CASE Extra
    <2>1. /\ UNCHANGED <<live, file, nnew>> /\ pc = "extra"
          /\ pc' \in {"extra", "abort", "final"}
      BY <1>10 DEF Extra
    <2>2. QED
      BY <2>1 DEF ServingInv
  <1>11. CASE RouteFinal
    <2>1. /\ UNCHANGED <<file, nnew, step>>
          /\ pc' = "abort" \/ (pc' \in {"stable", "finish"} /\ live'.on = Fresh)
      BY <1>11 DEF RouteFinal, Apply, Plain
    <2>2. Fresh' = Fresh
      BY <2>1 DEF Fresh
    <2>3. QED
      BY <2>1, <2>2 DEF ServingInv
  <1>12. CASE Finish
    <2>1. pc' \in {"done", "abort"}
      BY <1>12 DEF Finish, Save
    <2>2. QED
      BY <2>1 DEF ServingInv
  <1>13. CASE Environment \/ UNCHANGED vars
    <2>1. UNCHANGED <<live, file, nnew, pc, step>>
      BY <1>1, <1>13, EnvironmentType DEF vars
    <2>2. QED
      BY <2>1 DEF ServingInv, ServingAfter, Replaced, Remaining, Fresh
  <1>14. QED
    BY <1>3, <1>4, <1>5, <1>6, <1>7, <1>8, <1>9, <1>10, <1>11, <1>12, <1>13
    DEF LinearNext, LinearExecute

LEMMA ServingInit == Init => ServingInv
    BY DEF Init, Plain, ServingInv, ProloguePc, LinearLoopPc

\* While Execute runs it serves with as many containers as there were, if there
\* are as many new ones: it replaces one by one and removes after routing.
THEOREM CapacityIsKept == LinearSpec => []CapacityKept
  <1>1. LinearTInv /\ ServingInv => CapacityKept
    <2> SUFFICES ASSUME LinearTInv, ServingInv, pc \in LinearExecutePc, nnew >= NOld
                 PROVE  Cardinality(live.on) >= NOld
      BY DEF CapacityKept
    <2>1. /\ step \in 1 .. (NOld + NNew + 1) /\ nnew \in 0 .. NNew
          /\ NOld \in Nat /\ NOld >= 1
      BY CountAssumption DEF LinearTInv, LinearTypeOK, WorldTypeOK
    <2>2. CASE \E i \in 0 .. NOld : live.on = ServingAfter(i)
      BY <2>1, <2>2, ServingCount
    <2>3. CASE pc \in {"stable", "finish"}
      BY <2>1, <2>3, FreshCount DEF ServingInv
    <2>4. CASE pc = "execute"
      BY <2>1, <2>2, <2>4, ServingFirst DEF ServingInv
    <2>5. CASE pc \in {"extra", "final"}
      BY <2>1, <2>2, <2>5 DEF ServingInv
    <2>6. CASE pc \in LinearLoopPc
      <3>1. step - 1 \in 0 .. NOld /\ step \in 0 .. NOld
        BY <2>1, <2>6 DEF LinearTInv
      <3>2. live.on \in {ServingAfter(step - 1), ServingAfter(step)}
        BY <2>6 DEF ServingInv, LinearLoopPc
      <3>3. QED
        BY <2>2, <3>1, <3>2
    <2>7. QED
      BY <2>3, <2>4, <2>5, <2>6 DEF LinearExecutePc, LinearLoopPc
  <1>2. QED
    BY LinearTypeInit, LinearTypeStep, ServingInit, ServingStep, <1>1, PTL DEF LinearSpec

LEMMA AtMostOne ==
    ASSUME NEW x, NEW S \in SUBSET {x}
    PROVE  Cardinality(S) <= 1
  <1>1. IsFiniteSet({x}) /\ Cardinality({x}) = 1
    BY FS_Singleton, Zenon
  <1>2. Cardinality(S) <= Cardinality({x})
    BY <1>1, FS_Subset, Zenon
  <1>3. QED
    BY <1>1, <1>2

\* In the loop the state file is at most one replacement behind the proxy: one
\* container serves that it does not name, one that it names may be gone.
LEMMA FileFollows ==
    ASSUME RolloutInv, ServingInv
    PROVE  FileFollowsProxy
  <1> SUFFICES ASSUME pc \in LinearLoopPc
               PROVE  /\ Cardinality(live.on \ file.stable) <= 1
                      /\ Cardinality(file.stable \ Present) <= 1
    BY DEF FileFollowsProxy
  <1>1. step \in 1 .. NNew /\ step <= NOld /\ NOld \in Nat /\ nnew \in 0 .. NNew
    BY LinearInvType DEF RolloutInv, Replacing
  <1>2. file.stable = ServingAfter(step - 1)
    BY DEF ServingInv
  <1>3. live.on \in {ServingAfter(step - 1), ServingAfter(step)}
    BY DEF ServingInv, LinearLoopPc
  <1>4. Replaced(step) = Replaced(step - 1) \cup {NewAt(step)}
    BY <1>1, ReplacedNext
  <1>5. /\ Remaining(step) \subseteq Remaining(step - 1)
        /\ Remaining(step - 1) \subseteq Remaining(step) \cup {OldAt(step)}
    BY <1>1 DEF Remaining, OldAt
  <1>6. live.on \ file.stable \subseteq {NewAt(step)}
    BY <1>2, <1>3, <1>4, <1>5 DEF ServingAfter
  <1>7. Remaining(step) \subseteq Present /\ NewSet \subseteq Present
    BY DEF RolloutInv, Replacing, Phases, LinearExecutePc
  <1>8. Replaced(step) \subseteq NewSet
    BY <1>1, ReplacedType
  <1>9. file.stable \ Present \subseteq {OldAt(step)}
    BY <1>2, <1>4, <1>5, <1>7, <1>8 DEF ServingAfter
  <1>10. QED
    BY <1>6, <1>9, AtMostOne

\* Unless new containers vanish from a listing: the state file, on which abort
\* and recovery rely, is at most one replacement behind the proxy.
THEOREM FileIsClose ==
    ASSUME "vanish" \notin Faults
    PROVE  LinearSpec => []FileFollowsProxy
  <1>1. RolloutInv => LinearTInv
    BY LinearInvType
  <1>2. RolloutInv /\ ServingInv => FileFollowsProxy
    BY FileFollows
  <1>3. QED
    BY LinearInvInit, LinearInvStep, ServingInit, ServingStep, <1>1, <1>2, PTL DEF LinearSpec

=============================================================================
