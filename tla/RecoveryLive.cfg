CONSTANTS
    NOld = 1
    NNew = 1
    StartPercentage = 30
    Increment = 45
    GreenWeight = 50
    MaxErrors = 0
    ServiceRules <- NoneOrAll
    MaxCrashes = 2
    Faults <- HealthFault
SPECIFICATION CRFairSpec
PROPERTY EventuallyIdle
