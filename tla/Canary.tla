------------------------------- MODULE Canary ------------------------------
(***************************************************************************)
(* The canary strategy (strategy/canary.go): all new containers take a     *)
(* growing share of the traffic before they take all of it.  `step' counts *)
(* the containers in waitAllHealthy and is the weight afterwards.          *)
(***************************************************************************)
EXTENDS Release

CONSTANTS
    StartPercentage,    \* release.canary.start_percentage
    Increment           \* release.canary.step

\* ServiceConfig.validate.
ASSUME CanaryAssumption == StartPercentage \in 1 .. 100 /\ Increment \in 1 .. 100

\* buildCanaryUpstream: all containers serve, each new one with this weight and
\* each old one with the rest of 100.
CanaryUpstream(weight) == [Plain(OldSet \cup Fresh) EXCEPT !.weight = weight]

NextWeight(weight) == IF weight + Increment > 100 THEN 100 ELSE weight + Increment

\* Mutation: the loop runs once more at 100.
AtWeightInclusive(weight) == IF weight <= 100 THEN "shift" ELSE "promote"

\* The loop runs while the weight is below 100.
AtWeight(weight) == IF weight < 100 THEN "shift" ELSE "promote"

CanaryWait == WaitAllHealthy(AtWeight(StartPercentage), StartPercentage)

\* A cancelled context ends the loop before the weight is applied.
Shift ==
    /\ pc = "shift"
    /\ \/ ~cancelled /\ Apply(CanaryUpstream(step), "record", "abort")
       \/ cancelled /\ pc' = "abort" /\ live' = live
    /\ UNCHANGED <<docker, file, nnew, step, cancelled, passed, kept, targets>>

\* Mutation: the weight that comes next is recorded.
RecordNextWeight ==
    /\ pc = "record"
    /\ Save([file EXCEPT !.weight = NextWeight(step)], "observe", "abort")
    /\ UNCHANGED <<docker, live, nnew, step, cancelled, passed, kept, targets>>

\* The state file gets the weight once the proxy has it.
RecordWeight ==
    /\ pc = "record"
    /\ Save([file EXCEPT !.weight = step], "observe", "abort")
    /\ UNCHANGED <<docker, live, nnew, step, cancelled, passed, kept, targets>>

\* The weight holds for the interval, then grows.
Observe ==
    /\ pc = "observe"
    /\ Elapsed(AtWeight(NextWeight(step)), "abort")
    /\ step' = IF pc' = "abort" THEN step ELSE NextWeight(step)
    /\ UNCHANGED <<docker, live, file, nnew, cancelled, passed, kept, targets>>

CanaryExecute ==
    \/ SaveInitialBoth \/ CanaryWait \/ Shift \/ RecordWeight \/ Observe
    \/ PromoteAndDrain \/ FinishBoth

CanaryNext == DeployStep \/ CanaryExecute \/ Environment

CanarySpec == Init /\ [][CanaryNext]_vars

-----------------------------------------------------------------------------
(* What the strategy must get right.                                       *)

CanaryLoopPc == {"shift", "record", "observe"}
CanaryExecutePc == {"execute", "healthy", "promote", "drainOld", "routeNew",
              "removeOld", "finish"} \cup CanaryLoopPc

\* Every variable holds a value of its type; the loop's weight stays below 100.
CanaryTypeOK ==
    /\ WorldTypeOK
    /\ pc \in ProloguePc \cup CanaryExecutePc \cup AbortPc \cup Terminal
    /\ step \in 1 .. (NNew + 1) \cup 1 .. 100
    /\ pc \in CanaryLoopPc => step < 100

\* How far the new containers are, as the configuration counts it.
Level(u) == IF u.on \cap NewSet = {} THEN 0 ELSE IF u.on \cap OldSet = {} THEN 100 ELSE u.weight

\* Until the release fails, a canary moves users to the new version and never
\* back, however many containers either version has and whether the proxy
\* weighs servers or groups; every round of the loop moves some; and no step
\* moves more than the configuration allows, the one to all of them included.
CanaryAdvances ==
    [][pc' \in CanaryExecutePc =>
         /\ \A byGroup \in BOOLEAN :
               LET before == NewLoad(live, byGroup) * OldLoad(live', byGroup)
                   after == NewLoad(live', byGroup) * OldLoad(live, byGroup)
               IN  after >= before /\ (pc = "shift" /\ pc' # pc => after > before)
         /\ Level(live') <= IF Level(live) = 0 THEN StartPercentage ELSE Level(live) + Increment]_vars

\* While the canary is observed, a daemon that refreshes the service's config
\* or starts again gives every container that still runs the requests it had.
RecordedWeight ==
    pc = "observe" /\ live.on \cap Listed # {} =>
        /\ FollowsState(StartPercentage)
        /\ StateUpstream(StartPercentage) = [live EXCEPT !.on = @ \cap Listed]

=============================================================================
