SPECIFICATION FairSpec
CONSTANTS
    c1 = c1
    Cli <- OneCli
    Asks <- Commands
    MaxGroups = 2
    MaxDeploys = 2
    MaxRestarts = 0
    MaxCrashes = 0
INVARIANTS LockGuardsService NoneReplaced ProxyIsTheReleases
PROPERTIES OnlyTakeoverEndsService LockIsFreed QueueDrains
CHECK_DEADLOCK FALSE
