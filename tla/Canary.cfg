CONSTANTS
    NOld = 2
    NNew = 2
    StartPercentage = 30
    Increment = 45
    Faults <- AnyFault
SPECIFICATION CanarySpec
INVARIANT RecordedWeight
PROPERTIES ImplementsRollout CanaryAdvances
