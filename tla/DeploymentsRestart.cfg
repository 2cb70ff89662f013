SPECIFICATION Spec
CONSTANTS
    c1 = c1
    Cli <- OneCli
    Asks <- AllCommands
    MaxGroups = 2
    MaxDeploys = 2
    MaxRestarts = 1
    MaxCrashes = 1
VIEW LockView
INVARIANT LockGuardsService
CHECK_DEADLOCK FALSE
