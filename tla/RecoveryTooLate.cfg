CONSTANTS
    NOld = 2
    NNew = 2
    StartPercentage = 30
    Increment = 45
    GreenWeight = 50
    MaxErrors = 0
    ServiceRules <- NoneOrAll
    MaxCrashes = 1
    Faults <- NoFault
SPECIFICATION CRSpec
INVARIANT AlwaysServing
