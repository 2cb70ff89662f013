----------------------------- MODULE ProxyFiles -----------------------------
(***************************************************************************)
(* The transactions on the generated proxy configs (config_files.go):      *)
(* under the file lock of the proxy a writer reads the previous files,     *)
(* writes the new ones, reloads the proxy, restores the files on an error  *)
(* and keeps the health manifest.  The writers are the holder of each      *)
(* service's deploy lock (a release, a recovery or a refresh) and the      *)
(* controller's cleaner of stale configs (proxysync.go).                   *)
(*                                                                         *)
(* Abstractions: a reload never reports a wrong success of its own; a      *)
(* crash of a writer frees its locks and leaves the files as they are.     *)
(***************************************************************************)
EXTENDS ProxyState

CONSTANTS
    Restless,   \* services whose containers come and go
    Own,        \* services for which the user may have written a file
    MaxTx,      \* bound: transactions
    MaxFaults   \* bound: failures and crashes

ASSUME ServicesAssumption == "free" \notin Services /\ "cleaner" \notin Services
ASSUME BoundsAssumption == Restless \subseteq Services /\ Own \subseteq Services /\ MaxTx \in Nat /\ MaxFaults \in Nat

VARIABLES
    up,         \* services that have containers
    dlock,      \* deploy lock of each service: "free", "release" or "cleaner"
    pending,    \* config that the holder of the deploy lock has generated
    cleaner, active,    \* the cleaner and its snapshot of the services
    flock,      \* file lock of the proxy: a service, "cleaner" or "free"
    step, changes, previous, left, shortcut, slots, \* the transaction in progress
    manifest,   \* health: recorded files
    acked,      \* config of the last transaction that reported success
    last,       \* how the last transaction of each service ended
    fresh,      \* configured, and never since without containers and deployment
    torn,       \* a transaction was cut off or could not restore
    missed,     \* files whose last recording was lost
    txs, faults

writers == <<up, dlock, pending, cleaner, active>>
tx == <<flock, step, changes, previous, left, shortcut, slots>>
ghosts == <<acked, last, fresh, torn, missed>>
vars == <<kind, disk, proxy, writers, tx, manifest, ghosts, txs, faults>>

Mine == flock \in Services
NoChanges == [p \in {} |-> None]
TheirConfig(c) == IF c = None THEN [up |-> None, route |-> None] ELSE c

TypeOK ==
    /\ ProxyTypeOK
    /\ up \subseteq Services /\ fresh \subseteq Services
    /\ dlock \in [Services -> {"free", "release", "cleaner"}]
    /\ pending \in [Services -> Configs \cup {None}]
    /\ cleaner \in {"idle", "waits", "works"} /\ active \subseteq Services
    /\ flock \in Services \cup {"cleaner", "free"}
    /\ step \in {"none", "check", "write", "wait", "update", "undo", "record",
                 "restore", "rewait", "done"}
    /\ DOMAIN changes \subseteq Paths /\ DOMAIN previous \subseteq Paths
    /\ left \subseteq Paths /\ slots \subseteq Slots /\ shortcut \in BOOLEAN
    /\ step \in {"update", "undo"} => Mine /\ kind \in {"caddy", "haproxy"}
    /\ manifest \subseteq Paths /\ missed \subseteq Paths
    /\ acked \in [Services -> Configs \cup {None}]
    /\ last \in [Services -> {"none", "ok", "failed"}] /\ torn \in BOOLEAN
    /\ txs \in 0 .. MaxTx /\ faults \in 0 .. MaxFaults

Init ==
    /\ ProxyInit
    /\ \E own \in SUBSET {<<s, "up">> : s \in Own} :
         /\ own \subseteq Paths
         /\ disk = [p \in Paths |-> IF p \in own THEN Foreign ELSE None]
    /\ up = Services /\ dlock = [s \in Services |-> "free"]
    /\ pending = [s \in Services |-> None]
    /\ cleaner = "idle" /\ active = {} /\ flock = "free"
    /\ step = "none" /\ changes = NoChanges /\ previous = NoChanges
    /\ left = {} /\ shortcut = FALSE /\ slots = {} /\ manifest = {} /\ missed = {}
    /\ acked = [s \in Services |-> None] /\ last = [s \in Services |-> "none"]
    /\ fresh = {} /\ torn = FALSE /\ txs = 0 /\ faults = 0

Fault == faults < MaxFaults /\ faults' = faults + 1
SameProxy == UNCHANGED proxy

-----------------------------------------------------------------------------
(* The writers outside a transaction                                       *)

\* Containers of a service come and go: `compose up', `down', a new deploy.
ContainersUp(s) ==
    /\ s \in Restless \ up /\ up' = up \cup {s}
    /\ UNCHANGED <<kind, disk, proxy, dlock, pending, cleaner, active, tx, manifest, ghosts, txs, faults>>

ContainersDown(s) ==
    /\ s \in Restless \cap up /\ up' = up \ {s}
    /\ fresh' = IF dlock[s] = "release" THEN fresh ELSE fresh \ {s}
    /\ UNCHANGED <<kind, disk, proxy, dlock, pending, cleaner, active, tx, manifest, missed, acked, last, torn, txs, faults>>

\* A release, recovery or refresh of a service begins and ends.
TakeDeployLock(s) ==
    /\ dlock[s] = "free" /\ s \in up /\ txs < MaxTx
    /\ dlock' = [dlock EXCEPT ![s] = "release"]
    /\ UNCHANGED <<kind, disk, proxy, up, pending, cleaner, active, tx, manifest, ghosts, txs, faults>>

FreeDeployLock(s) ==
    /\ dlock[s] = "release" /\ pending[s] = None
    /\ dlock' = [dlock EXCEPT ![s] = "free"]
    /\ fresh' = IF s \in up THEN fresh ELSE fresh \ {s}
    /\ UNCHANGED <<kind, disk, proxy, up, pending, cleaner, active, tx, manifest, missed, acked, last, torn, txs, faults>>

\* GenerateConfig keeps the candidates off disk.
GenerateConfig(s) ==
    /\ dlock[s] = "release" /\ pending[s] = None /\ txs < MaxTx
    /\ \E c \in Configs : pending' = [pending EXCEPT ![s] = c]
    /\ txs' = txs + 1
    /\ UNCHANGED <<kind, disk, proxy, up, dlock, cleaner, active, tx, manifest, ghosts, faults>>

NginxChanges(s, c) == [p \in FilesOf(s) |-> c[p[2]]]
CaddyChanges(s, c) == [p \in FilesOf(s) |-> c[p[2]]]
\* The .route file; the frontend of all routes is rendered under the lock.
HAProxyChanges(s, c) == [p \in FilesOf(s) |-> c[p[2]]]
TraefikChanges(s, c) == [p \in FilesOf(s) |-> c]

Changes(s, c) ==
    CASE kind = "nginx" -> NginxChanges(s, c)
      [] kind = "caddy" -> CaddyChanges(s, c)
      [] kind = "haproxy" -> HAProxyChanges(s, c)
      [] kind = "traefik" -> TraefikChanges(s, c)

LockProxyConfigs(s) ==
    /\ pending[s] # None /\ flock = "free"
    /\ flock' = s /\ step' = "check" /\ changes' = Changes(s, pending[s])
    /\ last' = [last EXCEPT ![s] = "none"]
    /\ UNCHANGED <<kind, disk, proxy, writers, previous, left, shortcut, slots, manifest, missed, acked, fresh, torn, txs, faults>>

-----------------------------------------------------------------------------
(* The cleaner                                                             *)

\* cleanStaleProxyConfigs: the services that have a config now.
StartCleaning ==
    /\ cleaner = "idle" /\ txs < MaxTx
    /\ cleaner' = "waits" /\ active' = up /\ txs' = txs + 1
    /\ UNCHANGED <<kind, disk, proxy, up, dlock, pending, tx, manifest, ghosts, faults>>

\* canRemove keeps the deploy locks it gets and lists the containers again.
Acquired == {s \in Services : dlock[s] = "free"}
\* Mutant of CanRemove: the snapshot is believed.
CanRemoveUnlisted(s) == s \in Acquired
CanRemove(s) == s \in Acquired /\ s \notin up
HasFiles(s) == \E p \in FilesOf(s) : disk[p] \notin {None, Foreign}
Stale == {s \in Services \ active : HasFiles(s) /\ CanRemove(s)}

RemoveStaleConfigs ==
    /\ cleaner = "waits" /\ flock = "free"
    /\ dlock' = [s \in Services |->
                    IF s \notin active /\ HasFiles(s) /\ s \in Acquired THEN "cleaner" ELSE dlock[s]]
    /\ changes' = [p \in {q \in UNION {FilesOf(s) : s \in Stale} : disk[q] \notin {None, Foreign}} |-> None]
    /\ cleaner' = "works" /\ flock' = "cleaner"
    /\ step' = IF Stale = {} /\ ~(kind = "haproxy" /\ disk[Frontend] = None) THEN "done" ELSE "check"
    /\ last' = [s \in Services |-> IF s \in Stale THEN "none" ELSE last[s]]
    /\ UNCHANGED <<kind, disk, proxy, up, pending, active, previous, left, shortcut, slots, manifest, missed,
                   acked, fresh, torn, txs, faults>>

-----------------------------------------------------------------------------
(* The transaction: applyProxyConfigFiles and what each proxy does before  *)

NewRoute(s) ==
    IF <<s, "route">> \in DOMAIN changes THEN changes[<<s, "route">>] ELSE disk[<<s, "route">>]
Claimed(r) == IF r \in Routes THEN HostsOf[r] ELSE {}

\* Mutant of NginxConflict: only the new files are compared.
NginxConflictInChanges ==
    \E s, t \in Services :
        /\ s # t /\ {<<s, "route">>, <<t, "route">>} \subseteq DOMAIN changes
        /\ Claimed(NewRoute(s)) \cap Claimed(NewRoute(t)) # {}
\* checkRouteConflicts: a host of the new .server files in another one's.
NginxConflict ==
    \E s, t \in Services :
        /\ s # t /\ <<s, "route">> \in DOMAIN changes
        /\ Claimed(NewRoute(s)) \cap Claimed(NewRoute(t)) # {}
\* renderHAProxyFrontend: a host twice among all routes.
HAProxyConflict ==
    \E s, t \in Services : s # t /\ Claimed(NewRoute(s)) \cap Claimed(NewRoute(t)) # {}

Refused ==
    \/ kind = "nginx" /\ NginxConflict
    \/ kind = "haproxy" /\ HAProxyConflict
    \/ \E p \in DOMAIN changes : disk[p] = Foreign /\ changes[p] # None

\* With the frontend, which is written with every change of a route.
AllChanges ==
    IF kind # "haproxy" THEN changes
    ELSE [p \in DOMAIN changes \cup {Frontend} |->
            IF p = Frontend THEN [s \in Services |-> NewRoute(s)] ELSE changes[p]]

\* Caddy: Reload compares the route files with the pending ones.
RoutesChanged == \E s \in Services : NewRoute(s) # disk[<<s, "route">>]
\* HAProxy: only server lines differ from the files.
RuntimeOnly ==
    /\ Mine /\ disk[<<flock, "up">>] # None
    /\ \A p \in DOMAIN AllChanges : p # <<flock, "up">> => AllChanges[p] = disk[p]

Check ==
    /\ step = "check"
    /\ IF Refused
       THEN /\ step' = "done" /\ last' = IF Mine THEN [last EXCEPT ![flock] = "failed"] ELSE last
            /\ UNCHANGED <<changes, previous, left, shortcut>>
       ELSE /\ step' = "write" /\ changes' = AllChanges
            /\ previous' = [p \in DOMAIN AllChanges |-> disk[p]] /\ left' = DOMAIN AllChanges
            /\ shortcut' = \/ kind = "caddy" /\ Mine /\ ~RoutesChanged
                           \/ kind = "haproxy" /\ RuntimeOnly
            /\ UNCHANGED last
    /\ UNCHANGED <<kind, disk, proxy, writers, flock, slots, manifest, missed, acked, fresh, torn, txs, faults>>

WriteProxyFile(p) ==
    /\ step = "write" /\ p \in left
    /\ disk' = [disk EXCEPT ![p] = changes[p]] /\ left' = left \ {p}
    /\ UNCHANGED <<kind, proxy, writers, flock, step, changes, previous, shortcut, slots, manifest, ghosts, txs, faults>>

\* Mutant of Restore: the new files stay after an error.
RestoreNothing == step' = "restore" /\ left' = {}
Restore == step' = "restore" /\ left' = DOMAIN previous
SameFiles == UNCHANGED <<kind, disk, writers, flock, changes, previous, shortcut, manifest, ghosts, txs>>
Same == SameFiles /\ UNCHANGED slots

WriteFails ==
    /\ step = "write" /\ left # {} /\ Fault /\ Restore /\ Same /\ SameProxy

Written == step = "write" /\ left = {}

\* The proxy, or its `-t' or `-c' run, refuses the files.
Rejected ==
    /\ Written /\ kind # "traefik" /\ ~(kind = "caddy" /\ shortcut) /\ Fault
    /\ Restore /\ Same /\ SameProxy

NginxReload ==
    /\ Written /\ kind = "nginx"
    /\ Ask /\ step' = "wait" /\ Same /\ UNCHANGED <<left, faults>>

CaddyReload ==
    /\ Written /\ kind = "caddy"
    /\ IF shortcut THEN step' = "update" /\ SameProxy ELSE step' = "wait" /\ Ask
    /\ Same /\ UNCHANGED <<left, faults>>

HAProxyReload ==
    /\ Written /\ kind = "haproxy"
    /\ IF shortcut THEN step' = "update" /\ slots' = Slots /\ SameProxy
       ELSE step' = "wait" /\ Ask /\ UNCHANGED slots
    /\ SameFiles /\ UNCHANGED <<left, faults>>

TraefikReload ==
    /\ Written /\ kind = "traefik"
    /\ step' = "wait" /\ Same /\ SameProxy /\ UNCHANGED <<left, faults>>

\* Mutant of Applied: the reload command has returned.
AppliedAtOnce == TRUE

\* A load of ours has finished; Traefik reports the names of all the files.
Applied ==
    IF kind = "traefik" THEN live = [s \in Services |-> OnDisk(s)] ELSE loaded /\ loading = "no"

Reloaded ==
    /\ step = "wait" /\ Applied
    /\ IF kind = "caddy" /\ Mine THEN step' = "update" /\ UNCHANGED left
       ELSE step' = "record" /\ left' = DOMAIN previous
    /\ Same /\ SameProxy /\ UNCHANGED faults

\* The wait has its timeout, and a failed `caddy reload' says so.
NotReloaded ==
    /\ step = "wait" /\ ~Applied /\ Restore /\ Same /\ SameProxy /\ UNCHANGED faults

\* updateUpstreams: the runtime applies the addresses, or has no such pool.
CaddyUpdate ==
    /\ step = "update" /\ kind = "caddy" /\ pool[flock] # None
    /\ UpdatePool(flock, changes[<<flock, "up">>])
    /\ \/ step' = "record" /\ left' = DOMAIN previous /\ UNCHANGED faults
       \/ Fault /\ Restore      \* the answer is lost
    /\ Same

CaddyUpdateFails ==
    /\ step = "update" /\ kind = "caddy"
    /\ IF pool[flock] = None THEN UNCHANGED faults ELSE Fault
    /\ Restore /\ Same /\ SameProxy

\* updateHAProxyBackend, server by server in the order of the lines.
SetServer(content) ==
    /\ slots # {} /\ slots' = slots \ {Min(slots)} /\ live[flock].up # None
    /\ live' = [live EXCEPT ![flock].up[Min(slots)] = content[Min(slots)]]
    /\ UNCHANGED <<step, left, faults, loading, again, loaded, pools>> /\ SameFiles

HAProxyServer == step = "update" /\ kind = "haproxy" /\ SetServer(changes[<<flock, "up">>])

HAProxyUpdated ==
    /\ step = "update" /\ kind = "haproxy" /\ slots = {}
    /\ step' = "record" /\ left' = DOMAIN previous
    /\ Same /\ SameProxy /\ UNCHANGED faults

\* A command that fails, or a server that does not report what was set.
HAProxyUpdateFails ==
    /\ step = "update" /\ kind = "haproxy"
    /\ IF live[flock].up = None THEN UNCHANGED faults ELSE Fault
    /\ step' = "undo" /\ slots' = Slots /\ SameFiles /\ SameProxy /\ UNCHANGED left

\* The servers of the old file, on the same socket.
HAProxyUndo == step = "undo" /\ SetServer(previous[<<flock, "up">>])

HAProxyUndone ==
    /\ step = "undo" /\ (slots = {} \/ live[flock].up = None)
    /\ slots' = {} /\ Restore /\ SameFiles /\ SameProxy /\ UNCHANGED faults

\* What failed the update may fail its undo as well: no fault of its own.
HAProxyUndoFails ==
    /\ step = "undo" /\ slots # {}
    /\ slots' = {} /\ Restore /\ SameFiles /\ SameProxy /\ UNCHANGED faults

RestoreProxyFile(p) ==
    /\ step = "restore" /\ p \in left
    /\ disk' = [disk EXCEPT ![p] = previous[p]] /\ left' = left \ {p}
    /\ UNCHANGED <<kind, proxy, writers, flock, step, changes, previous, shortcut, slots, manifest, ghosts, txs, faults>>

RestoreFails(p) ==
    /\ step = "restore" /\ p \in left /\ Fault
    /\ torn' = TRUE /\ left' = left \ {p}
    /\ UNCHANGED <<kind, disk, proxy, writers, flock, step, changes, previous, shortcut, slots, manifest, missed,
                   acked, last, fresh, txs>>

\* Traefik must have read the restored files, or the second wait times out.
Restored ==
    /\ step = "restore" /\ left = {}
    /\ step' = IF kind = "traefik" THEN "rewait" ELSE "done"
    /\ last' = IF Mine THEN [last EXCEPT ![flock] = "failed"] ELSE last
    /\ UNCHANGED <<kind, disk, proxy, writers, flock, changes, previous, left, shortcut, slots, manifest, missed,
                   acked, fresh, torn, txs, faults>>

Rewaited ==
    /\ step = "rewait" /\ step' = "done"
    /\ Same /\ SameProxy /\ UNCHANGED <<left, faults>>

\* Mutant of RecordFile: removed files are never forgotten.
RecordFileOnly(p) ==
    /\ step = "record" /\ p \in left /\ left' = left \ {p}
    /\ manifest' = manifest \cup {p} /\ missed' = missed \ {p}
    /\ UNCHANGED <<kind, disk, proxy, writers, flock, step, changes, previous, shortcut, slots,
                   acked, last, fresh, torn, txs, faults>>

\* RecordFile and ForgetFile: an error is ignored, and the manifest stays as it is.
RecordFile(p) ==
    /\ step = "record" /\ p \in left /\ left' = left \ {p}
    /\ \/ /\ manifest' = IF changes[p] = None THEN manifest \ {p} ELSE manifest \cup {p}
          /\ missed' = missed \ {p} /\ UNCHANGED faults
       \/ /\ missed' = missed \cup {p} /\ UNCHANGED manifest /\ Fault
    /\ UNCHANGED <<kind, disk, proxy, writers, flock, step, changes, previous, shortcut, slots,
                   acked, last, fresh, torn, txs>>

\* The daemon is stopped and starts again: ClearReady takes no lock.
ClearReady ==
    /\ cleaner = "idle" /\ Fault
    /\ manifest' = {}
    /\ missed' = {p \in Paths : disk[p] \notin {None, Foreign}} \cup DOMAIN previous
    /\ UNCHANGED <<kind, disk, proxy, writers, tx, acked, last, fresh, torn, txs>>

Removed == {s \in Services : FilesOf(s) \cap DOMAIN changes # {}}
Recorded ==
    /\ step = "record" /\ left = {} /\ step' = "done"
    /\ IF Mine
       THEN /\ acked' = [acked EXCEPT ![flock] = pending[flock]]
            /\ last' = [last EXCEPT ![flock] = "ok"] /\ fresh' = fresh \cup {flock}
       ELSE /\ acked' = [s \in Services |-> IF s \in Removed THEN None ELSE acked[s]]
            /\ last' = [s \in Services |-> IF s \in Removed THEN "ok" ELSE last[s]]
            /\ UNCHANGED fresh
    /\ UNCHANGED <<kind, disk, proxy, writers, flock, changes, previous, left, shortcut, slots, manifest, missed,
                   torn, txs, faults>>

Reset == /\ step' = "none" /\ changes' = NoChanges /\ previous' = NoChanges /\ left' = {}
         /\ shortcut' = FALSE /\ slots' = {}
Unlocked == [s \in Services |-> IF dlock[s] = "cleaner" THEN "free" ELSE dlock[s]]

Unlock ==
    /\ step = "done" /\ flock' = "free" /\ Reset
    /\ IF Mine THEN pending' = [pending EXCEPT ![flock] = None] /\ UNCHANGED <<dlock, cleaner>>
       ELSE dlock' = Unlocked /\ cleaner' = "idle" /\ UNCHANGED pending
    /\ active' = IF Mine THEN active ELSE {}
    /\ UNCHANGED <<kind, disk, proxy, up, manifest, ghosts, txs, faults>>

-----------------------------------------------------------------------------
(* Crashes of the writers                                                  *)

CrashRelease(s) ==
    /\ dlock[s] = "release" /\ Fault
    /\ dlock' = [dlock EXCEPT ![s] = "free"] /\ pending' = [pending EXCEPT ![s] = None]
    /\ fresh' = IF s \in up THEN fresh ELSE fresh \ {s}
    /\ IF flock = s
       THEN /\ flock' = "free" /\ Reset
            /\ torn' = (torn \/ step \notin {"check", "done"})
            /\ last' = [last EXCEPT ![s] = IF step = "done" THEN @ ELSE "failed"]
       ELSE UNCHANGED <<tx, torn, last>>
    /\ UNCHANGED <<kind, disk, proxy, up, cleaner, active, manifest, missed, acked, txs>>

CrashCleaner ==
    /\ cleaner # "idle" /\ Fault
    /\ cleaner' = "idle" /\ active' = {} /\ dlock' = Unlocked
    /\ IF flock = "cleaner"
       THEN flock' = "free" /\ Reset /\ torn' = (torn \/ step \notin {"check", "done"})
       ELSE UNCHANGED <<tx, torn>>
    /\ UNCHANGED <<kind, disk, proxy, up, pending, manifest, missed, acked, last, fresh, txs>>

Transaction ==
    \/ Check \/ WriteFails \/ Rejected
    \/ NginxReload \/ CaddyReload \/ HAProxyReload \/ TraefikReload \/ Reloaded \/ NotReloaded
    \/ CaddyUpdate \/ CaddyUpdateFails
    \/ HAProxyServer \/ HAProxyUpdated \/ HAProxyUpdateFails \/ HAProxyUndo \/ HAProxyUndone \/ HAProxyUndoFails
    \/ Restored \/ Rewaited \/ Recorded \/ Unlock
    \/ \E p \in left : \/ WriteProxyFile(p) \/ RestoreProxyFile(p) \/ RestoreFails(p) \/ RecordFile(p)

Environment ==
    \/ CrashCleaner \/ StartCleaning \/ RemoveStaleConfigs \/ ClearReady
    \/ \E s \in Services :
         \/ ContainersUp(s) \/ ContainersDown(s) \/ TakeDeployLock(s) \/ FreeDeployLock(s)
         \/ GenerateConfig(s) \/ LockProxyConfigs(s) \/ CrashRelease(s)

Next ==
    \/ Transaction
    \/ Environment
    \/ ProxyStep /\ UNCHANGED <<writers, tx, manifest, ghosts, txs, faults>>

Spec == Init /\ [][Next]_vars

-----------------------------------------------------------------------------
(* Properties                                                              *)

\* No two services' route files name one host, at any time and whatever
\* crashes, and neither does the running config (nginx and HAProxy).
HostsDisjoint ==
    kind \in {"nginx", "haproxy"} =>
        \A s, t \in Services : s # t =>
            /\ Claimed(disk[<<s, "route">>]) \cap Claimed(disk[<<t, "route">>]) = {}
            /\ Claimed(Served(s).route) \cap Claimed(Served(t).route) = {}

\* While nobody holds the file lock the files are those of the transactions
\* that reported success: a failed one leaves no file behind, and a user's own
\* file stays.
FilesAreWhole ==
    flock = "free" /\ ~torn =>
        \A s \in Services : \A p \in FilesOf(s) :
            disk[p] \in {Foreign, IF acked[s] = None THEN None ELSE Changes(s, acked[s])[p]}

\* The files of a service are there as long as it has containers or a
\* deployment: the cleaner never takes them from it.
FilesOfRunningStay ==
    flock = "free" /\ ~torn => \A s \in fresh : \A p \in FilesOf(s) : disk[p] # None

\* What health.IsReady looks for is what docker-release has written: a recorded
\* file is there, and a generated one is recorded.  Only a file whose recording
\* was lost can differ, until the next transaction that writes or removes it.
ManifestMatchesFiles ==
    flock = "free" /\ ~torn => \A p \in Paths \ missed :
        /\ p \in manifest => disk[p] # None
        /\ disk[p] \notin {None, Foreign} => p \in manifest

\* After a success the proxy serves the service's config until the next try:
\* all of it by nginx and Traefik, its servers by HAProxy, and by Caddy if it
\* runs a route of the service.
AppliedIsServed ==
    \A s \in Services : last[s] = "ok" =>
        IF kind \in {"nginx", "traefik"} THEN Served(s) = TheirConfig(acked[s])
        ELSE acked[s] # None /\ (kind = "caddy" => source[s] # None) => Served(s).up = acked[s].up

\* docs/readme.md:104 of the preview link: "It stops working, and answers 404,
\* as soon as users move to the new version or the release fails".  Once the
\* config without it is reported as applied, the proxy answers for no more hosts
\* than that config names.
PreviewStopsWorking ==
    \A s \in Services : last[s] = "ok" /\ acked[s] # None /\ loading = "no" =>
        Claimed(Served(s).route) \subseteq Claimed(acked[s].route)

\* Caddy's running sources are the pools that updates reach, and a pool is
\* counted once for each config that uses it.
UpdatesReachTheProxy ==
    /\ \A s \in Services : source[s] # None => pool[s] = source[s]
    /\ \A p \in PoolIds :
         users[p] = Cardinality({s \in Services : source[s] = p}) + Cardinality({s \in Services : next[s] = p})

=============================================================================
