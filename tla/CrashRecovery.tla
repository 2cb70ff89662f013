--------------------------- MODULE CrashRecovery ---------------------------
(***************************************************************************)
(* A release, with any of the three strategies, whose controller may die   *)
(* at any point: Linear, Canary and BlueGreen next to Recovery.            *)
(***************************************************************************)
EXTENDS Recovery, Linear, Canary, BlueGreen

CONSTANT ServiceRules   \* of BlueGreen: the rules a service may have

VARIABLE strategy       \* the service's strategy; it does not change

crVars == <<rvars, strategy, rules, errors>>

ASSUME RulesAssumption == ServiceRules \subseteq Rules

CRInit ==
    /\ RecoveryInit
    /\ strategy \in {"linear", "canary", "blue-green"}
    /\ rules \in ServiceRules
    /\ errors = 0

\* strategy.New.
Linearly == strategy = "linear" /\ LinearExecute /\ UNCHANGED <<rules, errors>>
ByCanary == strategy = "canary" /\ CanaryExecute /\ UNCHANGED <<rules, errors>>
ByBlueGreen ==
    /\ strategy = "blue-green"
    /\ GreenError \/ (BGExecute /\ UNCHANGED <<rules, errors>>)

Deployment ==
    /\ \/ DeployStep /\ UNCHANGED <<rules, errors>>
       \/ Linearly \/ ByCanary \/ ByBlueGreen
    /\ UNCHANGED <<crashes, undoing>>

\* The first weight, for a state file that has none; linear has no weights.
FirstWeight ==
    CASE strategy = "linear" -> 0
      [] strategy = "canary" -> StartPercentage
      [] strategy = "blue-green" -> GreenWeight

Restarted == Boot(FirstWeight) \/ Recover

CRNext ==
    /\ strategy' = strategy
    /\ \/ Deployment
       \/ Environment /\ UNCHANGED <<crashes, undoing, rules, errors>>
       \/ Crash /\ rules' = rules /\ errors' = 0
       \/ (Restarted \/ RecoveryEnded) /\ UNCHANGED <<rules, errors>>

CRSpec == CRInit /\ [][CRNext]_crVars

\* The controller is restarted, and it and its deployment are scheduled.
CRFairSpec == CRSpec /\ WF_crVars(CRNext /\ (Deployment \/ Restarted))
=============================================================================
