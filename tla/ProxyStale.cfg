SPECIFICATION Spec
CONSTANTS
    s1 = s1  s2 = s2  r1 = r1  r2 = r2
    None = None  Foreign = Foreign
    Kinds = {"caddy", "haproxy"}
    Services = {s1}
    Routes = {r1, r2}
    HostsOf <- MCPreviewHosts
    Configs <- MCConfigs
    Slots = {1, 2}
    Ups <- MCUps
    PoolIds = {1, 2}
    Restless = {}
    Own = {}
    MaxTx = 3
    MaxFaults = 0
INVARIANT PreviewStopsWorking
CHECK_DEADLOCK FALSE
