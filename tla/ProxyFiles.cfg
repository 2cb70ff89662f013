SPECIFICATION Spec
CONSTANTS
    s1 = s1  s2 = s2  r1 = r1  r2 = r2
    None = None  Foreign = Foreign
    Kinds = {"nginx", "caddy", "haproxy", "traefik"}
    Services = {s1, s2}
    Routes = {r1, r2}
    HostsOf <- MCHostsOf
    Configs <- MCConfigs
    Slots = {1, 2}
    Ups <- MCUps
    PoolIds = {1, 2, 3}
    Restless = {s1}
    Own = {s2}
    MaxTx = 2
    MaxFaults = 1
INVARIANTS HostsDisjoint FilesAreWhole FilesOfRunningStay ManifestMatchesFiles AppliedIsServed UpdatesReachTheProxy
CHECK_DEADLOCK FALSE
