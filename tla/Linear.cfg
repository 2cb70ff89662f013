CONSTANTS
    NOld = 2
    NNew = 3
    Faults <- AnyFault
SPECIFICATION LinearFairSpec
INVARIANTS LinearTypeOK RolloutInv CapacityKept FileFollowsProxy AbortKeepsServing
PROPERTIES ImplementsRollout Terminates
