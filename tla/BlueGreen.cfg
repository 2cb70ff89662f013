CONSTANTS
    NOld = 1
    NNew = 2
    GreenWeight = 50
    MaxErrors = 1
    Faults <- AnyFault
SPECIFICATION BGSpec
INVARIANTS PreviewBeforeUsersMove WayBackOpen CrashCanBeUndone UndoneServesOld
PROPERTY ImplementsRollout
