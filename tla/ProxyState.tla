----------------------------- MODULE ProxyState -----------------------------
(***************************************************************************)
(* What the writers of proxy configs and the proxy share: the files on     *)
(* disk, the configuration that the proxy runs, the progress of its        *)
(* reloads, and for Caddy the address pools of packaging/caddy/runtime     *)
(* (upstreams.go).  The proxy is one of nginx, Caddy, HAProxy and Traefik; *)
(* it reads the files when it loads, in the background.                    *)
(*                                                                         *)
(* Abstractions: the config of a service is its route (which hosts) and    *)
(* its upstream, a value for each server slot; a load of nginx, HAProxy    *)
(* and Traefik reads all files at one instant; no certificates.            *)
(***************************************************************************)
EXTENDS Naturals, FiniteSets, FiniteSetsExt

CONSTANTS
    Kinds,      \* proxies to consider
    Services,
    Routes,     \* what a route file may say
    HostsOf,    \* the hosts of each route
    Slots,      \* servers of a backend, in the order of its lines
    Ups,        \* what an upstream file may say: the address of each slot
    Configs,    \* the configs that a release may generate
    PoolIds,    \* names for Caddy's pools
    None,       \* no file, no pool
    Foreign     \* a file that docker-release has not generated

ASSUME RoutesAssumption == HostsOf \in [Routes -> SUBSET UNION {HostsOf[r] : r \in Routes}]
ASSUME KindsAssumption == Kinds \subseteq {"nginx", "caddy", "haproxy", "traefik"}
ASSUME ConfigsAssumption == Configs \subseteq [up : Ups, route : Routes]
ASSUME NoneAssumption == None \notin Routes /\ None \notin Ups /\ None \notin Configs /\ None \notin PoolIds
\* Generated files start with the header that a user's own file lacks, and an
\* upstream file has a line for each slot.
ASSUME ForeignAssumption == Foreign \notin Routes /\ Foreign \notin Ups /\ Foreign \notin Configs /\ Foreign # None
ASSUME UpsAssumption == Slots # {} /\ \A u \in Ups : u = [i \in Slots |-> u[i]]
ASSUME PoolsAssumption ==
    /\ IsFiniteSet(Services) /\ IsFiniteSet(PoolIds)
    /\ Cardinality(Services) < Cardinality(PoolIds)

VARIABLES
    kind,
    disk,       \* the content of each path
    live,       \* route and upstream of each service in the running proxy
    loading,    \* how far a reload has come
    again,      \* another one was asked for meanwhile (Caddy)
    loaded,     \* whether a load has finished since the last request
    pool,       \* pools.files
    users, addresses,   \* of each pool
    source,     \* the Source of each service in the running config: its pool
    next,       \* the same in the config that Caddy provisions
    adapted,    \* routes of that config
    todo,       \* services whose Source is still to be provisioned or cleaned
    data        \* what Provision has read before it takes the lock

pools == <<pool, users, addresses, source, next, adapted, todo, data>>
proxy == <<live, loading, again, loaded, pools>>

Addresses == UNION {{u[i] : i \in Slots} : u \in Ups}
Frontend == <<"routes", "frontend.cfg">>
Parts == IF kind = "traefik" THEN {"yml"} ELSE {"up", "route"}
FilesOf(s) == {s} \X Parts
Paths == (UNION {FilesOf(s) : s \in Services})
             \cup (IF kind = "haproxy" THEN {Frontend} ELSE {})

\* The configuration of a service that the files give.
OnDisk(s) ==
    CASE kind = "traefik" /\ disk[<<s, "yml">>] = None -> [up |-> None, route |-> None]
      [] kind = "traefik" /\ disk[<<s, "yml">>] # None -> disk[<<s, "yml">>]
      [] kind = "haproxy" ->
            [up |-> disk[<<s, "up">>],
             route |-> IF disk[Frontend] = None THEN None ELSE disk[Frontend][s]]
      [] OTHER -> [up |-> disk[<<s, "up">>], route |-> disk[<<s, "route">>]]

\* What a request for the service meets.
Served(s) ==
    IF kind # "caddy" THEN live[s]
    ELSE [route |-> live[s].route,
          up |-> IF source[s] = None THEN None ELSE addresses[source[s]]]

ProxyTypeOK ==
    /\ kind \in Kinds /\ DOMAIN disk = Paths
    /\ live \in [Services -> [up : [Slots -> Addresses] \cup {None, Foreign},
                              route : Routes \cup {None}]]
    /\ loading \in {"no", "asked", "provision", "unwind", "cleanup"}
    /\ again \in BOOLEAN /\ loaded \in BOOLEAN
    /\ pool \in [Services -> PoolIds \cup {None}]
    /\ users \in [PoolIds -> 0 .. 2 * Cardinality(Services)]
    /\ addresses \in [PoolIds -> Ups \cup {None}]
    /\ source \in [Services -> PoolIds \cup {None}] /\ next \in [Services -> PoolIds \cup {None}]
    /\ adapted \in [Services -> Routes \cup {None}] /\ todo \subseteq Services
    /\ data \in [Services -> Ups \cup {None}]

ProxyInit ==
    /\ kind \in Kinds
    /\ live = [s \in Services |-> [up |-> None, route |-> None]]
    /\ loading = "no" /\ again = FALSE /\ loaded = FALSE
    /\ pool = [s \in Services |-> None] /\ users = [p \in PoolIds |-> 0]
    /\ addresses = [p \in PoolIds |-> None]
    /\ source = [s \in Services |-> None] /\ next = source
    /\ adapted = [s \in Services |-> None] /\ todo = {}
    /\ data = [s \in Services |-> None]

-----------------------------------------------------------------------------
(* Loads of nginx, HAProxy and Traefik                                     *)

\* The writer asks for a reload; one that still runs is followed by another.
Ask ==
    /\ loaded' = FALSE
    /\ loading' = IF loading = "no" THEN "asked" ELSE loading
    /\ again' = (loading # "no")
    /\ UNCHANGED <<live, pools>>

Load ==
    /\ kind \in {"nginx", "haproxy"} /\ loading = "asked"
    /\ live' = [s \in Services |-> OnDisk(s)]
    /\ loading' = "no" /\ again' = FALSE /\ loaded' = TRUE
    /\ UNCHANGED <<kind, disk, pools>>

\* Traefik watches the directory and reads it again when it changes.
TraefikLoad ==
    /\ kind = "traefik" /\ live # [s \in Services |-> OnDisk(s)]
    /\ live' = [s \in Services |-> OnDisk(s)]
    /\ UNCHANGED <<kind, disk, loading, again, loaded, pools>>

-----------------------------------------------------------------------------
(* Caddy: a new config is provisioned while the old one runs               *)

\* `caddy reload' adapts the Caddyfile with the generated files in it.
CaddyAdapt ==
    /\ kind = "caddy" /\ loading = "asked"
    /\ adapted' = [s \in Services |-> disk[<<s, "route">>]]
    /\ todo' = {s \in Services : adapted'[s] # None}
    /\ next' = [s \in Services |-> None]
    /\ loading' = "provision"
    /\ UNCHANGED <<kind, disk, live, again, loaded, pool, users, addresses, source, data>>

\* Source.Provision reads the file before it takes the lock of the pools.
ReadUpstreams(s) ==
    /\ loading = "provision" /\ s \in todo /\ disk[<<s, "up">>] \in Ups
    /\ \A t \in Services : data[t] = None
    /\ data' = [data EXCEPT ![s] = disk[<<s, "up">>]]
    /\ UNCHANGED <<kind, disk, live, loading, again, loaded, pool, users, addresses, source, next, adapted, todo>>

UnusedPool == CHOOSE q \in PoolIds : users[q] = 0
\* A pool that is there keeps its addresses.
Provision(s) ==
    /\ data[s] # None
    /\ \E p \in IF pool[s] # None THEN {pool[s]} ELSE {UnusedPool} :
         /\ pool' = [pool EXCEPT ![s] = p]
         /\ next' = [next EXCEPT ![s] = p]
         /\ users' = [users EXCEPT ![p] = @ + 1]
         /\ addresses' = IF pool[s] # None THEN addresses ELSE [addresses EXCEPT ![p] = data[s]]
    /\ todo' = todo \ {s} /\ data' = [data EXCEPT ![s] = None]
    /\ UNCHANGED <<kind, disk, live, loading, again, loaded, source, adapted>>

\* A file that cannot be read, or another module that does not provision.
ProvisionFails ==
    /\ loading = "provision"
    /\ \A s \in Services : data[s] = None
    /\ loading' = "unwind" /\ todo' = {s \in Services : next[s] # None}
    /\ UNCHANGED <<kind, disk, live, again, loaded, pool, users, addresses, source, next, adapted, data>>

CaddySwap ==
    /\ loading = "provision" /\ todo = {}
    /\ live' = [s \in Services |-> [live[s] EXCEPT !.route = adapted[s]]]
    /\ source' = next /\ next' = source
    /\ loading' = "cleanup" /\ todo' = {s \in Services : source[s] # None}
    /\ UNCHANGED <<kind, disk, again, loaded, pool, users, addresses, adapted, data>>

\* Mutant of Cleanup: the pool goes with its first user.
CleanupAtOnce(s) ==
    /\ loading \in {"unwind", "cleanup"} /\ s \in todo
    /\ users' = [users EXCEPT ![next[s]] = @ - 1]
    /\ pool' = [pool EXCEPT ![s] = None]
    /\ next' = [next EXCEPT ![s] = None] /\ UNCHANGED addresses
    /\ todo' = todo \ {s}
    /\ UNCHANGED <<kind, disk, live, loading, again, loaded, source, adapted, data>>

\* Source.Cleanup of the config in `next' after a swap or a failed load.
Cleanup(s) ==
    /\ loading \in {"unwind", "cleanup"} /\ s \in todo
    /\ users' = [users EXCEPT ![next[s]] = @ - 1]
    /\ pool' = IF users'[next[s]] = 0 THEN [pool EXCEPT ![s] = None] ELSE pool
    /\ next' = [next EXCEPT ![s] = None]
    /\ addresses' = IF users'[next[s]] = 0 THEN [addresses EXCEPT ![next[s]] = None] ELSE addresses
    /\ todo' = todo \ {s}
    /\ UNCHANGED <<kind, disk, live, loading, again, loaded, source, adapted, data>>

CaddyDone ==
    /\ loading \in {"unwind", "cleanup"} /\ todo = {}
    /\ loading' = IF again THEN "asked" ELSE "no"
    /\ loaded' = (loading = "cleanup" /\ ~again)
    /\ again' = FALSE /\ adapted' = [s \in Services |-> None]
    /\ UNCHANGED <<kind, disk, live, pool, users, addresses, source, next, todo, data>>

\* updateUpstreams of the runtime: the pool of the file gets the addresses.
UpdatePool(s, up) ==
    /\ pool[s] # None
    /\ addresses' = [addresses EXCEPT ![pool[s]] = up]
    /\ UNCHANGED <<live, loading, again, loaded, pool, users, source, next, adapted, todo, data>>

ProxyStep ==
    \/ Load \/ TraefikLoad \/ CaddyAdapt \/ ProvisionFails \/ CaddySwap \/ CaddyDone
    \/ \E s \in Services : ReadUpstreams(s) \/ Provision(s) \/ Cleanup(s)
=============================================================================
