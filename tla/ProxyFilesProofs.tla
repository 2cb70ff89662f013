-------------------------- MODULE ProxyFilesProofs --------------------------
(***************************************************************************)
(* For any services, routes and configs, any number of transactions and of *)
(* failures: the files that transactions leave, the hosts that they claim, *)
(* the pools of Caddy, and what the proxy serves after a success.          *)
(***************************************************************************)
EXTENDS ProxyFiles, FiniteSetTheorems, TLAPS

-----------------------------------------------------------------------------
(* The inductive invariant of the files.                                    *)

\* The steps of a transaction that has begun to write.
Moving == {"write", "wait", "update", "undo", "record", "restore"}

HolderTypes ==
    /\ kind \in {"nginx", "caddy", "haproxy", "traefik"} /\ DOMAIN disk = Paths
    /\ dlock \in [Services -> {"free", "release", "cleaner"}]
    /\ pending \in [Services -> Configs \cup {None}]
    /\ acked \in [Services -> Configs \cup {None}]
    /\ flock \in Services \cup {"cleaner", "free"}
    /\ cleaner \in {"idle", "waits", "works"}
    /\ step \in Moving \cup {"none", "check", "rewait", "done"}
    /\ fresh \subseteq Services /\ torn \in BOOLEAN /\ manifest \subseteq Paths

\* Who holds the file lock has a transaction to make, under its deploy lock; a
\* service in use has containers or a deployment.
Holders ==
    /\ HolderTypes
    /\ flock = "free" <=> step = "none"
    /\ flock = "cleaner" <=> cleaner = "works"
    /\ flock \in Services => pending[flock] # None
    /\ \A s \in Services : pending[s] # None => dlock[s] = "release"
    /\ \A s \in fresh : s \in up \/ dlock[s] = "release"

\* The changes are those of the holder: all files of its config, or files of
\* services that are not in use, and none of theirs is left.
Domains ==
    /\ step \in Moving => DOMAIN previous = DOMAIN changes /\ left \subseteq DOMAIN changes
    /\ step # "none" => DOMAIN changes \subseteq Paths

ReleaseChanges == \A s \in Services : \A c \in Configs :
    flock = s /\ pending[s] = c =>
        /\ FilesOf(s) \subseteq DOMAIN changes
        /\ DOMAIN changes \subseteq FilesOf(s) \cup {Frontend}
        /\ \A p \in FilesOf(s) : changes[p] = Changes(s, c)[p]

CleanerChanges == flock = "cleaner" =>
    /\ \A p \in DOMAIN changes : p # Frontend => changes[p] = None
    /\ \A s \in Removed : s \notin fresh
    /\ \A s \in Removed : \A p \in FilesOf(s) :
           p \notin DOMAIN changes => disk[p] \in {None, Foreign}

\* How far the writes, or their undoing, have come.
Progress ==
    /\ step \in {"wait", "update", "undo", "record"} => \A p \in DOMAIN changes : disk[p] = changes[p]
    /\ step = "write" => \A p \in DOMAIN changes \ left : disk[p] = changes[p]
    /\ step = "restore" /\ ~torn => \A p \in DOMAIN changes \ left : disk[p] = previous[p]

\* What a file was when the transaction began, or is if there is none.
Base(p) == IF step \in Moving /\ p \in DOMAIN changes THEN previous[p] ELSE disk[p]
Wanted(s, x, p) ==
    \/ x = Foreign
    \/ acked[s] = None /\ x = None
    \/ \E c \in Configs : acked[s] = c /\ x = Changes(s, c)[p]

BaseIsWhole == \A s \in Services : \A p \in FilesOf(s) : Wanted(s, Base(p), p)
BaseOfRunning == \A s \in fresh : \A p \in FilesOf(s) : Base(p) # None

\* What the manifest is to say of a file: while it is brought up to date, what
\* the transaction wrote if the file is done.
Due(p) == IF step = "record" /\ p \in DOMAIN changes \ left THEN changes[p] ELSE Base(p)
ManifestHolds == \A p \in Paths \ missed :
    /\ p \in manifest => Due(p) # None
    /\ Due(p) \notin {None, Foreign} => p \in manifest

FilesInv ==
    /\ Holders /\ Domains /\ ReleaseChanges /\ CleanerChanges /\ Progress
    /\ ~torn => BaseIsWhole /\ BaseOfRunning /\ ManifestHolds

-----------------------------------------------------------------------------
(* Paths and configs                                                        *)

LEMMA PathsApart ==
    /\ \A s \in Services : FilesOf(s) \subseteq Paths
    /\ \A s \in Services : Frontend \notin FilesOf(s)
    /\ \A s, t \in Services : s # t => FilesOf(s) \cap FilesOf(t) = {}
  BY DEF Paths, FilesOf, Frontend, Parts

\* A config has something to say in each file.
LEMMA ConfigHasFiles ==
    ASSUME kind \in {"nginx", "caddy", "haproxy", "traefik"}, NEW s \in Services, NEW c \in Configs
    PROVE  /\ DOMAIN Changes(s, c) = FilesOf(s)
           /\ \A p \in FilesOf(s) : Changes(s, c)[p] # None
  <1>1. c \in [up : Ups, route : Routes] /\ c # None
    BY ConfigsAssumption, NoneAssumption
  <1>2. c["up"] # None /\ c["route"] # None
    BY <1>1, NoneAssumption
  <1>3. CASE kind = "traefik"
    BY <1>1, <1>3 DEF Changes, TraefikChanges
  <1>4. CASE kind # "traefik"
    <2>1. Changes(s, c) = [p \in FilesOf(s) |-> c[p[2]]]
      BY <1>4 DEF Changes, NginxChanges, CaddyChanges, HAProxyChanges
    <2>2. \A p \in FilesOf(s) : p[2] \in {"up", "route"}
      BY <1>4 DEF FilesOf, Parts
    <2>3. QED
      BY <1>2, <2>1, <2>2
  <1>5. QED
    BY <1>3, <1>4

\* The paths and what a config says depend on the proxy alone.
LEMMA SameNames ==
    ASSUME kind' = kind
    PROVE  /\ Paths' = Paths
           /\ \A s : FilesOf(s)' = FilesOf(s)
           /\ \A s, c : Changes(s, c)' = Changes(s, c)
  BY DEF Paths, FilesOf, Parts, Changes, NginxChanges, CaddyChanges, HAProxyChanges, TraefikChanges

LEMMA FilesInit == Init => FilesInv
  <1> SUFFICES ASSUME Init PROVE FilesInv
    OBVIOUS
  <1> USE DEF Init
  <1>1. Holders
    BY KindsAssumption, ServicesAssumption DEF Holders, HolderTypes, ProxyInit
  <1>2. Domains /\ ReleaseChanges /\ CleanerChanges /\ Progress
    BY ServicesAssumption DEF Domains, ReleaseChanges, CleanerChanges, Progress, Moving, NoChanges
  <1>3. \A p \in Paths : Base(p) \in {Foreign, None}
    BY DEF Base, Moving
  <1>4. BaseIsWhole
    BY <1>3, PathsApart DEF BaseIsWhole, Wanted
  <1>5. BaseOfRunning /\ ManifestHolds
    BY <1>3 DEF BaseOfRunning, ManifestHolds, Due
  <1>6. QED
    BY <1>1, <1>2, <1>4, <1>5 DEF FilesInv

-----------------------------------------------------------------------------
(* Steps that leave the files alone                                         *)

\* A step of a transaction that only moves on.
Moves ==
    /\ UNCHANGED <<kind, disk, writers, flock, changes, previous, manifest, ghosts>>
    /\ step \in {"write", "wait", "update", "undo"}
    /\ \/ step' \in {"wait", "update", "undo"} /\ left' = left /\ (step = "write" => left = {})
       \/ step' = "record" /\ left' = DOMAIN previous /\ step # "write"
       \/ step' = "restore" /\ left' = DOMAIN previous

LEMMA WhoMoves ==
    ASSUME Transaction
    PROVE  \/ Moves
           \/ Check \/ Restored \/ Rewaited \/ Recorded \/ Unlock
           \/ \E p \in left : WriteProxyFile(p) \/ RestoreProxyFile(p) \/ RestoreFails(p) \/ RecordFile(p)
  <1> USE DEF Moves, SameFiles, Same, Restore, Written, tx
  <1>1. ASSUME WriteFails \/ Rejected PROVE Moves
    BY <1>1 DEF WriteFails, Rejected
  <1>2. ASSUME NginxReload \/ CaddyReload \/ HAProxyReload \/ TraefikReload PROVE Moves
    BY <1>2 DEF NginxReload, CaddyReload, HAProxyReload, TraefikReload
  <1>3. ASSUME Reloaded \/ NotReloaded PROVE Moves
    BY <1>3 DEF Reloaded, NotReloaded
  <1>4. ASSUME CaddyUpdate \/ CaddyUpdateFails PROVE Moves
    BY <1>4 DEF CaddyUpdate, CaddyUpdateFails
  <1>5. ASSUME HAProxyServer \/ HAProxyUpdated \/ HAProxyUpdateFails PROVE Moves
    BY <1>5 DEF HAProxyServer, HAProxyUpdated, HAProxyUpdateFails, SetServer
  <1>6. ASSUME HAProxyUndo \/ HAProxyUndone \/ HAProxyUndoFails PROVE Moves
    BY <1>6 DEF HAProxyUndo, HAProxyUndone, HAProxyUndoFails, SetServer
  <1>7. QED
    BY <1>1, <1>2, <1>3, <1>4, <1>5, <1>6 DEF Transaction

LEMMA MovesKeepsFiles ==
    ASSUME FilesInv, Moves
    PROVE  FilesInv'
  <1> USE SameNames DEF FilesInv, Moves, Moving, writers, ghosts
  <1>1. Holders'
    BY DEF Holders, HolderTypes
  <1>2. Domains' /\ ReleaseChanges'
    BY DEF Domains, ReleaseChanges, Holders, Frontend
  <1>3. CleanerChanges'
    BY DEF CleanerChanges, Removed, Frontend
  <1>4. Progress'
    BY DEF Progress, Domains
  <1>5. ~torn' => BaseIsWhole' /\ BaseOfRunning' /\ ManifestHolds'
    <2>1. \A p : Base(p)' = Base(p)
      BY DEF Base
    <2>2. SUFFICES ASSUME ~torn PROVE BaseIsWhole' /\ BaseOfRunning' /\ ManifestHolds'
      OBVIOUS
    <2>3. BaseIsWhole'
      BY <2>1, <2>2 DEF BaseIsWhole, Wanted
    <2>4. BaseOfRunning'
      BY <2>1, <2>2 DEF BaseOfRunning
    <2>5. ManifestHolds'
      <3>1. \A q : Due(q)' = Due(q)
        BY <2>1 DEF Due, Domains
      <3>2. QED
        BY <2>2, <3>1 DEF ManifestHolds
    <2>6. QED
      BY <2>3, <2>4, <2>5
  <1>6. QED
    BY <1>1, <1>2, <1>3, <1>4, <1>5

\* Containers, deploy locks and the cleaner's first look.
Outside ==
    \/ StartCleaning
    \/ \E s \in Services : \/ ContainersUp(s) \/ ContainersDown(s)
                           \/ TakeDeployLock(s) \/ FreeDeployLock(s) \/ GenerateConfig(s)

\* What the files and the transactions on them are.
files == <<kind, disk, flock, step, changes, previous, left, manifest, missed, acked, torn>>

\* Whatever the writers do outside keeps the files' own conditions, if a holder's
\* config stays and no service becomes one in use.
LEMMA OutsideFiles ==
    ASSUME FilesInv, Holders', UNCHANGED files, fresh' \subseteq fresh,
           flock \in Services => pending'[flock] = pending[flock]
    PROVE  FilesInv'
  <1> USE SameNames DEF FilesInv, files
  <1>1. Domains' /\ Progress'
    BY DEF Domains, Progress
  <1>2. ReleaseChanges'
    BY DEF ReleaseChanges, Frontend
  <1>3. CleanerChanges'
    BY DEF CleanerChanges, Removed, Frontend
  <1>4. \A p : Base(p)' = Base(p)
    BY DEF Base
  <1>5. ~torn => BaseIsWhole' /\ BaseOfRunning'
    BY <1>4 DEF BaseIsWhole, BaseOfRunning, Wanted
  <1>6. ~torn => ManifestHolds'
    BY <1>4 DEF ManifestHolds, Due
  <1>7. QED
    BY <1>1, <1>2, <1>3, <1>5, <1>6

LEMMA OutsideKeepsFiles ==
    ASSUME FilesInv, Outside
    PROVE  FilesInv'
  <1> USE DEF FilesInv, Holders, HolderTypes, tx, ghosts, files
  <1>1. /\ UNCHANGED files /\ fresh' \subseteq fresh
        /\ flock \in Services => pending'[flock] = pending[flock]
    BY DEF Outside, StartCleaning, ContainersUp, ContainersDown, TakeDeployLock, FreeDeployLock, GenerateConfig
  <1>2. Holders'
    <2>1. kind' = kind /\ disk' = disk /\ acked' = acked /\ step' = step /\ torn' = torn /\ flock' = flock
      BY <1>1
    <2> USE <2>1, <1>1, SameNames
    <2>2. CASE StartCleaning
      BY <2>2 DEF StartCleaning
    <2>3. ASSUME NEW s \in Services, ContainersUp(s) \/ ContainersDown(s) PROVE Holders'
      BY <2>3 DEF ContainersUp, ContainersDown
    <2>4. ASSUME NEW s \in Services, TakeDeployLock(s) \/ FreeDeployLock(s) PROVE Holders'
      BY <2>4 DEF TakeDeployLock, FreeDeployLock
    <2>5. ASSUME NEW s \in Services, GenerateConfig(s) PROVE Holders'
      BY <2>5, NoneAssumption DEF GenerateConfig
    <2>6. QED
      BY <2>2, <2>3, <2>4, <2>5 DEF Outside
  <1>3. QED
    BY <1>1, <1>2, OutsideFiles

LEMMA ProxyStepKeepsFiles ==
    ASSUME FilesInv, ProxyStep /\ UNCHANGED <<writers, tx, manifest, ghosts, txs, faults>>
    PROVE  FilesInv'
  <1>1. UNCHANGED <<kind, disk>>
    BY DEF ProxyStep, Load, TraefikLoad, CaddyAdapt, ProvisionFails, CaddySwap, CaddyDone,
           ReadUpstreams, Provision, Cleanup
  <1>2. UNCHANGED files /\ UNCHANGED writers /\ fresh' = fresh
    BY <1>1 DEF files, tx, ghosts
  <1>3. Holders'
    BY <1>2, SameNames DEF FilesInv, Holders, HolderTypes, writers, files
  <1>4. QED
    BY <1>2, <1>3, OutsideFiles DEF writers

-----------------------------------------------------------------------------
(* Steps of a transaction that touch the files                              *)

\* A transaction that starts: the release's with its config, ...
LEMMA LockKeepsFiles ==
    ASSUME FilesInv, NEW s \in Services, LockProxyConfigs(s)
    PROVE  FilesInv'
  <1> USE SameNames, ServicesAssumption DEF FilesInv, LockProxyConfigs, writers
  <1>1. Holders'
    BY DEF Holders, HolderTypes
  <1>2. PICK c \in Configs : pending[s] = c
    BY DEF Holders, HolderTypes
  <1>3. DOMAIN Changes(s, c) = FilesOf(s)
    BY <1>2, ConfigHasFiles DEF Holders, HolderTypes
  <1>4. Domains' /\ Progress'
    BY <1>2, <1>3, PathsApart DEF Domains, Progress, Moving
  <1>5. ReleaseChanges'
    BY <1>2, <1>3 DEF ReleaseChanges
  <1>6. CleanerChanges'
    BY DEF CleanerChanges
  <1>7. \A p : Base(p)' = Base(p)
    BY DEF Base, Moving, Holders
  <1>8. ~torn => BaseIsWhole' /\ BaseOfRunning' /\ ManifestHolds'
    BY <1>7 DEF BaseIsWhole, BaseOfRunning, ManifestHolds, Due, Wanted, Moving, Holders
  <1>9. QED
    BY <1>1, <1>4, <1>5, <1>6, <1>8

\* ... and the cleaner's with files of services that are not in use.
LEMMA CleanerKeepsFiles ==
    ASSUME FilesInv, RemoveStaleConfigs
    PROVE  FilesInv'
  <1> USE SameNames, ServicesAssumption DEF FilesInv, RemoveStaleConfigs
  <1>1. Holders'
    BY DEF Holders, HolderTypes, Moving, Acquired
  <1>2. DOMAIN changes' = {q \in UNION {FilesOf(s) : s \in Stale} : disk[q] \notin {None, Foreign}}
        /\ \A p \in DOMAIN changes' : changes'[p] = None
    OBVIOUS
  <1>3. \A s \in Removed' : s \in Stale
    BY <1>2, PathsApart DEF Removed, Stale
  <1>4. \A s \in Stale : s \in Services /\ s \notin fresh
    BY DEF Stale, CanRemove, Acquired, Holders
  <1>5. Domains' /\ Progress'
    BY <1>2, <1>4, PathsApart DEF Domains, Progress, Moving
  <1>6. ReleaseChanges'
    BY DEF ReleaseChanges
  <1>7. CleanerChanges'
    BY <1>2, <1>3, <1>4 DEF CleanerChanges
  <1>8. \A p : Base(p)' = Base(p)
    BY DEF Base, Moving, Holders
  <1>9. ~torn => BaseIsWhole' /\ BaseOfRunning' /\ ManifestHolds'
    BY <1>8 DEF BaseIsWhole, BaseOfRunning, ManifestHolds, Due, Wanted, Moving, Holders
  <1>10. QED
    BY <1>1, <1>5, <1>6, <1>7, <1>9

LEMMA CheckKeepsFiles ==
    ASSUME FilesInv, Check
    PROVE  FilesInv'
  <1> USE SameNames DEF FilesInv, Check, writers
  <1>1. Holders'
    BY DEF Holders, HolderTypes, Moving
  <1>2. UNCHANGED <<kind, disk, acked, fresh, torn, manifest, missed>>
    OBVIOUS
  <1>3. CASE Refused
    <2>1. Domains' /\ Progress'
      BY <1>3 DEF Domains, Progress, Moving
    <2>2. ReleaseChanges'
      BY <1>3 DEF ReleaseChanges, Frontend
    <2>3. CleanerChanges'
      BY <1>3 DEF CleanerChanges, Removed, Frontend
    <2>4. \A p : Base(p)' = Base(p)
      BY <1>3 DEF Base, Moving
    <2>5. ~torn => BaseIsWhole' /\ BaseOfRunning' /\ ManifestHolds'
      BY <1>2, <1>3, <2>4 DEF BaseIsWhole, BaseOfRunning, ManifestHolds, Due, Wanted
    <2>6. QED
      BY <1>1, <2>1, <2>2, <2>3, <2>5, <1>2
  <1>4. CASE ~Refused
    <2>1. /\ step' = "write" /\ changes' = AllChanges /\ DOMAIN previous' = DOMAIN changes'
          /\ left' = DOMAIN changes' /\ \A p \in DOMAIN changes' : previous'[p] = disk[p]
      BY <1>4
    <2>2. /\ DOMAIN AllChanges = IF kind = "haproxy" THEN DOMAIN changes \cup {Frontend} ELSE DOMAIN changes
          /\ \A p \in DOMAIN changes : p # Frontend => AllChanges[p] = changes[p]
      BY DEF AllChanges
    <2>3. Domains' /\ Progress'
      BY <2>1, <2>2 DEF Domains, Progress, Moving, Paths
    <2>4. ReleaseChanges'
      <3> SUFFICES ASSUME NEW s \in Services, NEW c \in Configs, flock = s, pending[s] = c
                   PROVE  /\ FilesOf(s) \subseteq DOMAIN changes'
                          /\ DOMAIN changes' \subseteq FilesOf(s) \cup {Frontend}
                          /\ \A p \in FilesOf(s) : changes'[p] = Changes(s, c)[p]
        BY <1>2 DEF ReleaseChanges, Frontend
      <3>1. /\ FilesOf(s) \subseteq DOMAIN changes
            /\ DOMAIN changes \subseteq FilesOf(s) \cup {Frontend}
            /\ \A p \in FilesOf(s) : changes[p] = Changes(s, c)[p]
        BY DEF ReleaseChanges
      <3>2. QED
        BY <3>1, <2>1, <2>2, PathsApart
    <2>5. CleanerChanges'
      <3>1. Removed' = Removed
        BY <2>1, <2>2, <1>2, PathsApart DEF Removed
      <3>2. QED
        BY <3>1, <2>1, <2>2, <1>2, PathsApart DEF CleanerChanges, Frontend, Removed
    <2>6. \A p : Base(p)' = Base(p)
      BY <2>1, <1>2 DEF Base, Moving
    <2>7. ~torn => BaseIsWhole' /\ BaseOfRunning' /\ ManifestHolds'
      BY <1>2, <2>1, <2>6 DEF BaseIsWhole, BaseOfRunning, ManifestHolds, Due, Wanted
    <2>8. QED
      BY <1>1, <2>3, <2>4, <2>5, <2>7, <1>2
  <1>5. QED
    BY <1>3, <1>4

\* One file is written, or restored, or not restored.
LEMMA WritesKeepFiles ==
    ASSUME FilesInv, NEW p \in left, WriteProxyFile(p) \/ RestoreProxyFile(p) \/ RestoreFails(p)
    PROVE  FilesInv'
  <1> USE SameNames DEF FilesInv, writers, ghosts
  <1>1. /\ UNCHANGED <<kind, writers, flock, step, changes, previous, manifest, missed, acked, fresh>>
        /\ step \in {"write", "restore"} /\ left' = left \ {p} /\ (torn' = torn \/ torn')
    BY DEF WriteProxyFile, RestoreProxyFile, RestoreFails
  <1>2. p \in DOMAIN changes /\ DOMAIN previous = DOMAIN changes /\ p \in Paths
    BY <1>1 DEF Domains, Moving
  <1>3. DOMAIN disk' = DOMAIN disk /\ \A q : q # p => disk'[q] = disk[q] \/ q \notin DOMAIN disk
    BY DEF WriteProxyFile, RestoreProxyFile, RestoreFails
  <1>4. torn' \in BOOLEAN
    BY DEF WriteProxyFile, RestoreProxyFile, RestoreFails, Holders, HolderTypes
  <1>5. Holders'
    BY <1>1, <1>3, <1>4 DEF Holders, HolderTypes
  <1>6. Domains' /\ ReleaseChanges'
    BY <1>1 DEF Domains, ReleaseChanges, Frontend
  <1>7. CleanerChanges'
    BY <1>1, <1>2, <1>3, PathsApart DEF CleanerChanges, Removed, Frontend, Holders, HolderTypes
  <1>8. Progress'
    <2>1. CASE WriteProxyFile(p)
      BY <2>1, <1>1, <1>2, <1>3 DEF Progress, WriteProxyFile, Domains, Moving, Holders, HolderTypes
    <2>2. CASE RestoreProxyFile(p)
      BY <2>2, <1>1, <1>2, <1>3 DEF Progress, RestoreProxyFile, Domains, Moving, Holders, HolderTypes
    <2>3. CASE RestoreFails(p)
      BY <2>3, <1>1 DEF Progress, RestoreFails
    <2>4. QED
      BY <2>1, <2>2, <2>3
  <1>9. ~torn' => ~torn /\ \A q \in Paths : Base(q)' = Base(q)
    BY <1>1, <1>2, <1>3 DEF Base, Moving, Holders, HolderTypes
  <1>10. ~torn' => BaseIsWhole' /\ BaseOfRunning' /\ ManifestHolds'
    BY <1>1, <1>9, PathsApart DEF BaseIsWhole, BaseOfRunning, ManifestHolds, Due, Wanted, Holders, HolderTypes
  <1>11. QED
    BY <1>5, <1>6, <1>7, <1>8, <1>10

\* The manifest is brought up to date.
LEMMA RecordKeepsFiles ==
    ASSUME FilesInv, NEW p \in left, RecordFile(p)
    PROVE  FilesInv'
  <1> USE SameNames DEF FilesInv, RecordFile, writers, ghosts
  <1>1. p \in DOMAIN changes /\ p \in Paths
    BY DEF Domains, Moving
  <1>2. Holders'
    BY <1>1 DEF Holders, HolderTypes
  <1>3. Domains' /\ ReleaseChanges' /\ Progress'
    BY DEF Domains, ReleaseChanges, Frontend, Progress
  <1>4. CleanerChanges'
    BY DEF CleanerChanges, Removed, Frontend
  <1>5. \A q : Base(q)' = Base(q)
    BY DEF Base
  <1>6. ~torn => BaseIsWhole' /\ BaseOfRunning'
    BY <1>5 DEF BaseIsWhole, BaseOfRunning, Wanted
  <1>7. ASSUME ~torn PROVE ManifestHolds'
    <2>1. \A q \in Paths \ {p} : Due(q)' = Due(q)
      BY <1>5 DEF Due
    <2>2. Due(p)' = changes[p]
      BY <1>1 DEF Due
    <2>3. CASE missed' = missed \cup {p} /\ manifest' = manifest
      BY <1>7, <2>1, <2>3 DEF ManifestHolds
    <2>4. CASE /\ manifest' = (IF changes[p] = None THEN manifest \ {p} ELSE manifest \cup {p})
               /\ missed' = missed \ {p}
      BY <1>1, <1>7, <2>1, <2>2, <2>4 DEF ManifestHolds
    <2>5. QED
      BY <2>3, <2>4
  <1>8. QED
    BY <1>2, <1>3, <1>4, <1>6, <1>7

\* A daemon that starts forgets them all.
LEMMA ClearKeepsFiles ==
    ASSUME FilesInv, ClearReady
    PROVE  FilesInv'
  <1> USE SameNames DEF FilesInv, ClearReady, writers, tx
  <1>1. Holders'
    BY DEF Holders, HolderTypes
  <1>2. Domains' /\ ReleaseChanges' /\ Progress'
    BY DEF Domains, ReleaseChanges, Frontend, Progress
  <1>3. CleanerChanges'
    BY DEF CleanerChanges, Removed, Frontend
  <1>4. \A q : Base(q)' = Base(q)
    BY DEF Base
  <1>5. ~torn => BaseIsWhole' /\ BaseOfRunning'
    BY <1>4 DEF BaseIsWhole, BaseOfRunning, Wanted
  <1>6. ManifestHolds'
    BY DEF ManifestHolds, Due, Base, Domains, Moving
  <1>7. QED
    BY <1>1, <1>2, <1>3, <1>5, <1>6

\* A transaction that failed ends with the files of its beginning.
LEMMA RestoredKeepsFiles ==
    ASSUME FilesInv, Restored \/ Rewaited
    PROVE  FilesInv'
  <1> USE SameNames DEF FilesInv, writers, ghosts
  <1>1. /\ UNCHANGED <<kind, disk, writers, flock, changes, previous, manifest, missed, acked, fresh, torn>>
        /\ step' \in {"rewait", "done"} /\ step \in {"restore", "rewait"}
        /\ step = "restore" => left = {}
    BY DEF Restored, Rewaited, Same, SameFiles
  <1>2. Holders'
    BY <1>1 DEF Holders, HolderTypes
  <1>3. Domains' /\ ReleaseChanges' /\ Progress'
    BY <1>1 DEF Domains, ReleaseChanges, Frontend, Progress, Moving
  <1>4. CleanerChanges'
    BY <1>1 DEF CleanerChanges, Removed, Frontend
  <1>5. ~torn => \A q : Base(q)' = Base(q)
    BY <1>1 DEF Base, Progress, Moving
  <1>6. ~torn => BaseIsWhole' /\ BaseOfRunning' /\ ManifestHolds'
    BY <1>1, <1>5 DEF BaseIsWhole, BaseOfRunning, ManifestHolds, Due, Wanted
  <1>7. QED
    BY <1>1, <1>2, <1>3, <1>4, <1>6

\* One that succeeded leaves its changes, which are then the ones reported.
LEMMA RecordedKeepsFiles ==
    ASSUME FilesInv, Recorded
    PROVE  FilesInv'
  <1> USE SameNames DEF FilesInv, writers
  <1>1. /\ UNCHANGED <<kind, disk, writers, flock, changes, previous, manifest, missed, torn>>
        /\ step = "record" /\ step' = "done" /\ left = {} /\ left' = left
    BY DEF Recorded
  <1>2. \A p \in DOMAIN changes : disk[p] = changes[p]
    BY <1>1 DEF Progress
  <1>3. /\ Holders /\ flock # "free"
        /\ \A p : p \notin DOMAIN changes => Base(p) = disk[p]
        /\ \A p : Base(p)' = disk[p]
    BY <1>1 DEF Holders, Base, Moving
  <1>4. Domains' /\ ReleaseChanges' /\ Progress'
    BY <1>1 DEF Domains, ReleaseChanges, Frontend, Progress, Moving
  <1>5. ~torn => ManifestHolds'
    <2>1. \A p : Due(p)' = Due(p)
      BY <1>1, <1>2, <1>3 DEF Due
    <2>2. QED
      BY <1>1, <2>1 DEF ManifestHolds
  <1>6. CASE Mine
    <2>1. PICK c \in Configs : pending[flock] = c
      BY <1>6 DEF Mine, Holders, HolderTypes
    <2>2. /\ flock \in Services /\ acked' = [acked EXCEPT ![flock] = c] /\ fresh' = fresh \cup {flock}
      BY <1>6, <2>1 DEF Mine, Recorded
    <2>3. Holders'
      BY <1>1, <2>1, <2>2 DEF Holders, HolderTypes
    <2>4. CleanerChanges'
      BY <1>1, <2>2, ServicesAssumption DEF CleanerChanges
    <2>5. /\ FilesOf(flock) \subseteq DOMAIN changes
          /\ \A p \in FilesOf(flock) : changes[p] = Changes(flock, c)[p]
          /\ DOMAIN changes \subseteq FilesOf(flock) \cup {Frontend}
      BY <2>1, <2>2 DEF ReleaseChanges
    <2>6. \A p \in FilesOf(flock) : disk[p] = Changes(flock, c)[p] /\ disk[p] # None
      BY <1>2, <2>2, <2>5, ConfigHasFiles DEF Holders, HolderTypes
    <2>7. \A s \in Services \ {flock} : \A p \in FilesOf(s) : disk[p] = Base(p)
      BY <1>3, <2>2, <2>5, PathsApart
    <2>8. ~torn => BaseIsWhole'
      <3>1. SUFFICES ASSUME ~torn, NEW s \in Services, NEW p \in FilesOf(s)
                     PROVE  Wanted(s, disk[p], p)'
        BY <1>1, <1>3 DEF BaseIsWhole, Wanted
      <3>2. CASE s = flock
        BY <1>1, <2>1, <2>2, <2>6, <3>2 DEF Wanted, Holders, HolderTypes
      <3>3. CASE s # flock
        <4>1. Wanted(s, disk[p], p)
          BY <2>7, <3>1, <3>3 DEF BaseIsWhole
        <4>2. acked'[s] = acked[s]
          BY <2>2, <3>3 DEF Holders, HolderTypes
        <4>3. QED
          BY <1>1, <4>1, <4>2 DEF Wanted
      <3>4. QED
        BY <3>2, <3>3
    <2>9. ~torn => BaseOfRunning'
      BY <1>1, <1>3, <2>2, <2>6, <2>7 DEF BaseOfRunning, Holders, HolderTypes
    <2>10. QED
      BY <1>1, <1>4, <1>5, <2>3, <2>4, <2>8, <2>9
  <1>7. CASE ~Mine
    <2>1. /\ flock = "cleaner" /\ fresh' = fresh
          /\ acked' = [s \in Services |-> IF s \in Removed THEN None ELSE acked[s]]
      BY <1>3, <1>7 DEF Mine, Recorded, Holders, HolderTypes
    <2>2. Holders'
      BY <1>1, <2>1 DEF Holders, HolderTypes
    <2>3. CleanerChanges'
      BY <1>1, <2>1 DEF CleanerChanges, Removed, Frontend
    <2>4. \A s \in Services \ Removed : \A p \in FilesOf(s) : disk[p] = Base(p)
      BY <1>3 DEF Removed
    <2>5. \A s \in Removed : \A p \in FilesOf(s) : disk[p] \in {None, Foreign}
      BY <1>2, <2>1, PathsApart DEF CleanerChanges, Removed
    <2>6. ~torn => BaseIsWhole'
      <3>1. SUFFICES ASSUME ~torn, NEW s \in Services, NEW p \in FilesOf(s)
                     PROVE  Wanted(s, disk[p], p)'
        BY <1>1, <1>3 DEF BaseIsWhole, Wanted
      <3>2. CASE s \in Removed
        BY <1>1, <2>1, <2>5, <3>2 DEF Wanted
      <3>3. CASE s \notin Removed
        <4>1. Wanted(s, disk[p], p)
          BY <2>4, <3>1, <3>3 DEF BaseIsWhole
        <4>2. QED
          BY <1>1, <2>1, <3>3, <4>1 DEF Wanted
      <3>4. QED
        BY <3>2, <3>3
    <2>7. ~torn => BaseOfRunning'
      BY <1>1, <1>3, <2>1, <2>4 DEF BaseOfRunning, CleanerChanges, Holders, HolderTypes
    <2>8. QED
      BY <1>1, <1>4, <1>5, <2>2, <2>3, <2>6, <2>7
  <1>8. QED
    BY <1>6, <1>7

-----------------------------------------------------------------------------
(* The end of a transaction: regular, or with the death of its process      *)

\* When the lock comes free at a point where the files are as they were or as
\* they were meant to be, or the transaction counts as torn.
LEMMA FreeKeepsFiles ==
    ASSUME FilesInv, Holders', UNCHANGED <<kind, disk, manifest, missed, acked>>, Reset,
           flock' = "free", fresh' \subseteq fresh,
           torn => torn', ~torn' => step \in {"check", "done"}
    PROVE  FilesInv'
  <1> USE SameNames, ServicesAssumption DEF FilesInv, Reset
  <1>1. Domains' /\ ReleaseChanges' /\ CleanerChanges' /\ Progress'
    BY DEF Domains, ReleaseChanges, CleanerChanges, Progress, Moving
  <1>2. ~torn' => ~torn /\ \A p : Base(p)' = Base(p)
    BY DEF Base, Moving
  <1>3. ~torn' => BaseIsWhole' /\ BaseOfRunning' /\ ManifestHolds'
    BY <1>2 DEF BaseIsWhole, BaseOfRunning, ManifestHolds, Due, Wanted, Moving
  <1>4. QED
    BY <1>1, <1>3

LEMMA UnlockKeepsFiles ==
    ASSUME FilesInv, Unlock
    PROVE  FilesInv'
  <1> USE DEF Unlock, ghosts
  <1>1. Holders'
    <2>1. Paths' = Paths
      BY SameNames
    <2>2. CASE Mine
      BY <2>1, <2>2, ServicesAssumption DEF FilesInv, Holders, HolderTypes, Mine, Reset, Moving
    <2>3. CASE ~Mine
      BY <2>1, <2>3, ServicesAssumption DEF FilesInv, Holders, HolderTypes, Mine, Reset, Moving, Unlocked
    <2>4. QED
      BY <2>2, <2>3
  <1>2. QED
    BY <1>1, FreeKeepsFiles

LEMMA CrashReleaseKeepsFiles ==
    ASSUME FilesInv, NEW s \in Services, CrashRelease(s)
    PROVE  FilesInv'
  <1> USE DEF CrashRelease, ghosts, tx
  <1>1. Holders'
    <2>1. Paths' = Paths
      BY SameNames
    <2>2. CASE flock = s
      BY <2>1, <2>2, ServicesAssumption DEF FilesInv, Holders, HolderTypes, Reset, Moving
    <2>3. CASE flock # s
      BY <2>1, <2>3 DEF FilesInv, Holders, HolderTypes
    <2>4. QED
      BY <2>2, <2>3
  <1>2. fresh' \subseteq fresh
    OBVIOUS
  <1>3. CASE flock = s
    <2>1. (torn => torn') /\ (~torn' => step \in {"check", "done"})
      BY <1>3 DEF FilesInv, Holders, HolderTypes
    <2>2. QED
      BY <1>1, <1>2, <1>3, <2>1, FreeKeepsFiles
  <1>4. CASE flock # s
    BY <1>1, <1>2, <1>4, OutsideFiles DEF files, FilesInv, Holders, HolderTypes
  <1>5. QED
    BY <1>3, <1>4

LEMMA CrashCleanerKeepsFiles ==
    ASSUME FilesInv, CrashCleaner
    PROVE  FilesInv'
  <1> USE DEF CrashCleaner, ghosts, tx
  <1>1. Holders'
    <2>1. Paths' = Paths
      BY SameNames
    <2>2. CASE flock = "cleaner"
      BY <2>1, <2>2, ServicesAssumption DEF FilesInv, Holders, HolderTypes, Reset, Moving, Unlocked
    <2>3. CASE flock # "cleaner"
      BY <2>1, <2>3 DEF FilesInv, Holders, HolderTypes, Unlocked
    <2>4. QED
      BY <2>2, <2>3
  <1>2. CASE flock = "cleaner"
    <2>1. (torn => torn') /\ (~torn' => step \in {"check", "done"})
      BY <1>2 DEF FilesInv, Holders, HolderTypes
    <2>2. QED
      BY <1>1, <1>2, <2>1, FreeKeepsFiles
  <1>3. CASE flock # "cleaner"
    BY <1>1, <1>3, OutsideFiles DEF files
  <1>4. QED
    BY <1>2, <1>3

\* Every action keeps the invariant.
LEMMA FilesNext ==
    ASSUME FilesInv, [Next]_vars
    PROVE  FilesInv'
  <1>1. CASE Transaction
    BY <1>1, WhoMoves, MovesKeepsFiles, CheckKeepsFiles, RestoredKeepsFiles, RecordedKeepsFiles,
       UnlockKeepsFiles, WritesKeepFiles, RecordKeepsFiles
  <1>2. CASE Environment
    BY <1>2, ClearKeepsFiles, OutsideKeepsFiles, CrashCleanerKeepsFiles, CrashReleaseKeepsFiles, LockKeepsFiles,
       CleanerKeepsFiles DEF Environment, Outside
  <1>3. CASE ProxyStep /\ UNCHANGED <<writers, tx, manifest, ghosts, txs, faults>>
    BY <1>3, ProxyStepKeepsFiles
  <1>4. CASE UNCHANGED vars
    <2>1. UNCHANGED files /\ UNCHANGED writers /\ fresh' = fresh
      BY <1>4 DEF vars, files, writers, tx, ghosts
    <2>2. Holders'
      BY <2>1, SameNames DEF FilesInv, Holders, HolderTypes, writers, files
    <2>3. QED
      BY <2>1, <2>2, OutsideFiles DEF writers
  <1>5. QED
    BY <1>1, <1>2, <1>3, <1>4 DEF Next

LEMMA FilesAlways == Spec => []FilesInv
  <1>1. QED
    BY FilesInit, FilesNext, PTL DEF Spec

\* Between transactions the files on disk are those of the last ones that
\* reported success, whatever failed in between; a user's own file stays.
THEOREM FilesStayWhole == Spec => []FilesAreWhole
  <1>1. FilesInv => FilesAreWhole
    BY NoneAssumption DEF FilesInv, FilesAreWhole, BaseIsWhole, Base, Wanted, Holders, Moving
  <1>2. QED
    BY <1>1, FilesAlways, PTL

\* The cleaner takes no file of a service in use.
THEOREM RunningKeepTheirs == Spec => []FilesOfRunningStay
  <1>1. FilesInv => FilesOfRunningStay
    BY DEF FilesInv, FilesOfRunningStay, BaseOfRunning, Base, Holders, Moving
  <1>2. QED
    BY <1>1, FilesAlways, PTL

\* Between transactions the health manifest names the generated files and no
\* others, however transactions fail: but for files whose recording was lost.
THEOREM ManifestIsTrue == Spec => []ManifestMatchesFiles
  <1>1. FilesInv => ManifestMatchesFiles
    BY DEF FilesInv, ManifestMatchesFiles, ManifestHolds, Due, Base, Holders, Moving
  <1>2. QED
    BY <1>1, FilesAlways, PTL

-----------------------------------------------------------------------------
(* Hosts                                                                    *)

\* What the route file of a service, and the frontend, may come to say.
Options(s) ==
    {disk[<<s, "route">>]}
        \cup (IF step \in Moving /\ <<s, "route">> \in DOMAIN changes
              THEN {changes[<<s, "route">>], previous[<<s, "route">>]} ELSE {})
Frontends ==
    {disk[Frontend]}
        \cup (IF step \in Moving /\ Frontend \in DOMAIN changes
              THEN {changes[Frontend], previous[Frontend]} ELSE {})

Apart(a, b) == Claimed(a) \cap Claimed(b) = {}

RoutesApart == \A s, t \in Services : s # t => \A a \in Options(s), b \in Options(t) : Apart(a, b)
FrontendsApart == \A f \in Frontends : f # None => \A s, t \in Services : s # t => Apart(f[s], f[t])
LiveApart ==
    /\ DOMAIN live = Services
    /\ \A s \in Services : "route" \in DOMAIN live[s]
    /\ loading \in {"no", "asked"}
    /\ \A s, t \in Services : s # t => Apart(live[s].route, live[t].route)

\* Whatever a transaction has written or may restore, any mix of it is apart, and
\* so is what the proxy, which may load at any moment, runs.
HostsInv ==
    kind \in {"nginx", "haproxy"} =>
        RoutesApart /\ (kind = "haproxy" => FrontendsApart) /\ LiveApart

LEMMA HostsInit == Init => HostsInv
  <1> SUFFICES ASSUME Init PROVE HostsInv
    OBVIOUS
  <1>1. LiveApart
    BY NoneAssumption DEF Init, ProxyInit, LiveApart, Apart, Claimed
  <1>2. \A p \in Paths : p[2] # "up" => disk[p] = None
    BY DEF Init
  <1>3. kind \in {"nginx", "haproxy"} => \A s \in Services : Options(s) = {None}
    <2>1. kind \in {"nginx", "haproxy"} => \A s \in Services : <<s, "route">> \in Paths
      BY DEF Paths, FilesOf, Parts
    <2>2. QED
      BY <1>2, <2>1 DEF Options, Moving, Init
  <1>4. kind = "haproxy" => Frontends = {None}
    <2>1. kind = "haproxy" => Frontend \in Paths /\ Frontend[2] # "up"
      BY DEF Paths, Frontend
    <2>2. QED
      BY <1>2, <2>1 DEF Frontends, Moving, Init
  <1>5. QED
    BY <1>1, <1>3, <1>4, NoneAssumption DEF HostsInv, RoutesApart, FrontendsApart, Apart, Claimed

\* A step after which no more is possible keeps the hosts apart.
LEMMA FewerOptions ==
    ASSUME HostsInv, kind' = kind,
           \A s \in Services : Options(s)' \subseteq Options(s),
           kind = "haproxy" => Frontends' \subseteq Frontends,
           kind \in {"nginx", "haproxy"} => LiveApart'
    PROVE  HostsInv'
  BY DEF HostsInv, RoutesApart, FrontendsApart, Apart, Claimed

LEMMA SameLive ==
    ASSUME HostsInv, UNCHANGED <<live, loading>>
    PROVE  kind \in {"nginx", "haproxy"} => LiveApart'
  BY DEF HostsInv, LiveApart, Apart, Claimed

\* Loads of the proxy.
LEMMA ProxyStepKeepsHosts ==
    ASSUME HostsInv, ProxyStep /\ UNCHANGED <<writers, tx, manifest, ghosts, txs, faults>>
    PROVE  HostsInv'
  <1>1. UNCHANGED <<kind, disk, step, changes, previous>>
    BY DEF ProxyStep, Load, TraefikLoad, CaddyAdapt, ProvisionFails, CaddySwap, CaddyDone,
           ReadUpstreams, Provision, Cleanup, tx
  <1>2. /\ \A s \in Services : Options(s)' \subseteq Options(s)
        /\ Frontends' \subseteq Frontends
    BY <1>1 DEF Options, Frontends, Frontend
  <1>3. SUFFICES ASSUME kind \in {"nginx", "haproxy"} PROVE LiveApart'
    BY <1>1, <1>2, FewerOptions
  <1>4. loading \in {"no", "asked"}
    BY <1>3 DEF HostsInv, LiveApart
  <1>5. CASE Load
    <2>1. live' = [s \in Services |-> OnDisk(s)] /\ loading' = "no"
      BY <1>5 DEF Load
    <2>2. DOMAIN live' = Services
      BY <2>1
    <2>3. CASE kind = "nginx"
      <3>1. \A s \in Services : OnDisk(s) = [up |-> disk[<<s, "up">>], route |-> disk[<<s, "route">>]]
        BY <2>3 DEF OnDisk
      <3>2. \A s, t \in Services : s # t => Apart(disk[<<s, "route">>], disk[<<t, "route">>])
        BY <1>3 DEF HostsInv, RoutesApart, Options
      <3>3. \A s \in Services : /\ "route" \in DOMAIN live'[s]
                                 /\ live'[s].route = disk[<<s, "route">>]
        <4> TAKE s \in Services
        <4>1. PICK u, r : r = disk[<<s, "route">>] /\ live'[s] = [up |-> u, route |-> r]
          BY <2>1, <3>1
        <4>2. QED
          BY <4>1
      <3>4. \A s, t \in Services : s # t => Apart(live'[s].route, live'[t].route)
        BY <3>2, <3>3
      <3>5. QED
        BY <2>1, <2>2, <3>3, <3>4 DEF LiveApart, Apart, Claimed
    <2>4. CASE kind = "haproxy"
      <3>1. \A s \in Services :
                OnDisk(s) = [up |-> disk[<<s, "up">>],
                             route |-> IF disk[Frontend] = None THEN None ELSE disk[Frontend][s]]
        BY <2>4 DEF OnDisk
      <3>2. disk[Frontend] # None =>
                \A s, t \in Services : s # t => Apart(disk[Frontend][s], disk[Frontend][t])
        BY <1>3, <2>4 DEF HostsInv, FrontendsApart, Frontends
      <3>3. Claimed(None) = {}
        BY NoneAssumption DEF Claimed
      <3>4. \A s \in Services :
                /\ "route" \in DOMAIN live'[s]
                /\ live'[s].route = IF disk[Frontend] = None THEN None ELSE disk[Frontend][s]
        <4> TAKE s \in Services
        <4>1. PICK u, r : /\ r = IF disk[Frontend] = None THEN None ELSE disk[Frontend][s]
                          /\ live'[s] = [up |-> u, route |-> r]
          BY <2>1, <3>1
        <4>2. QED
          BY <4>1
      <3>5. \A s, t \in Services : s # t => Apart(live'[s].route, live'[t].route)
        BY <3>2, <3>3, <3>4 DEF Apart
      <3>6. QED
        BY <2>1, <2>2, <3>4, <3>5 DEF LiveApart, Apart, Claimed
    <2>5. QED
      BY <1>3, <2>3, <2>4
  <1>6. CASE ~Load
    <2>1. UNCHANGED <<live, loading>>
      BY <1>3, <1>4, <1>6 DEF ProxyStep, TraefikLoad, CaddyAdapt, ProvisionFails, CaddySwap, CaddyDone,
                              ReadUpstreams, Provision, Cleanup, HostsInv
    <2>2. QED
      BY <1>3, <2>1, SameLive
  <1>7. QED
    BY <1>5, <1>6

\* A change of what the proxy runs, server by server, moves no host.
LEMMA TransactionLive ==
    ASSUME HostsInv, Transaction, kind \in {"nginx", "haproxy"}
    PROVE  LiveApart'
  <1> USE DEF HostsInv, SameProxy, SameFiles, Same, proxy
  <1>1. CASE NginxReload \/ CaddyReload \/ HAProxyReload
    <2>1. live' = live /\ loading' \in {"no", "asked"}
      BY <1>1 DEF NginxReload, CaddyReload, HAProxyReload, Ask, LiveApart
    <2>2. QED
      BY <2>1 DEF LiveApart, Apart, Claimed
  <1>2. ASSUME NEW content, SetServer(content) PROVE LiveApart'
    <2>1. loading' = loading /\ live' = [live EXCEPT ![flock].up[Min(slots)] = content[Min(slots)]]
      BY <1>2 DEF SetServer
    <2>2. \A s \in Services : /\ "route" \in DOMAIN live'[s]
                               /\ live'[s].route = live[s].route
      BY <2>1 DEF LiveApart
    <2>3. DOMAIN live' = Services
      BY <2>1 DEF LiveApart
    <2>4. QED
      BY <2>1, <2>2, <2>3 DEF LiveApart, Apart, Claimed
  <1>3. CASE HAProxyServer \/ HAProxyUndo
    BY <1>2, <1>3 DEF HAProxyServer, HAProxyUndo
  <1>4. CASE ~(NginxReload \/ CaddyReload \/ HAProxyReload \/ HAProxyServer \/ HAProxyUndo)
    <2>1. UNCHANGED <<live, loading>>
      BY <1>4 DEF Transaction, Check, WriteFails, Rejected, TraefikReload, Reloaded, NotReloaded,
                  CaddyUpdate, CaddyUpdateFails, UpdatePool, HAProxyUpdated, HAProxyUpdateFails,
                  HAProxyUndone, HAProxyUndoFails, Restored, Rewaited, Recorded, Unlock,
                  WriteProxyFile, RestoreProxyFile, RestoreFails, RecordFile
    <2>2. QED
      BY <2>1, SameLive
  <1>5. QED
    BY <1>1, <1>3, <1>4

LEMMA OptionPaths == \A s \in Services : kind \in {"nginx", "haproxy"} =>
        /\ <<s, "route">> \in FilesOf(s) /\ <<s, "route">> \in Paths
        /\ kind = "haproxy" => Frontend \in Paths
        /\ <<s, "route">> # Frontend
  BY DEF FilesOf, Parts, Paths, Frontend

\* After the check a transaction only chooses among what is possible.
LEMMA TransactionOptions ==
    ASSUME FilesInv, Transaction, ~Check, kind \in {"nginx", "haproxy"}
    PROVE  /\ kind' = kind
           /\ \A s \in Services : Options(s)' \subseteq Options(s)
           /\ kind = "haproxy" => Frontends' \subseteq Frontends
  <1> USE DEF FilesInv, writers, ghosts
  <1> DEFINE Shrink ==
            /\ kind' = kind
            /\ \A s \in Services : Options(s)' \subseteq Options(s)
            /\ kind = "haproxy" => Frontends' \subseteq Frontends
  <1>1. CASE Moves
    BY <1>1 DEF Moves, Options, Frontends, Frontend, Moving
  <1>2. CASE Restored \/ Rewaited \/ Recorded \/ Unlock
    <2>1. UNCHANGED <<kind, disk>> /\ step' \notin Moving
      BY <1>2 DEF Restored, Rewaited, Same, SameFiles, Recorded, Unlock, Reset, Moving
    <2>2. QED
      BY <2>1 DEF Options, Frontends, Frontend
  <1>3. ASSUME NEW p \in left, RestoreFails(p) \/ RecordFile(p) PROVE Shrink
    <2>1. UNCHANGED <<kind, disk, step, changes, previous>>
      BY <1>3 DEF RestoreFails, RecordFile
    <2>2. QED
      BY <2>1 DEF Options, Frontends, Frontend
  <1>4. ASSUME NEW p \in left, WriteProxyFile(p) \/ RestoreProxyFile(p) PROVE Shrink
    <2>1. /\ UNCHANGED <<kind, step, changes, previous>> /\ step \in Moving
          /\ disk' = [disk EXCEPT ![p] = disk'[p]] /\ disk'[p] \in {changes[p], previous[p]}
          /\ p \in DOMAIN changes /\ DOMAIN disk = Paths
      BY <1>4 DEF WriteProxyFile, RestoreProxyFile, Moving, Domains, Holders, HolderTypes
    <2>2. \A q \in Paths : disk'[q] = disk[q] \/ q = p
      BY <2>1
    <2>3. \A s \in Services : Options(s)' \subseteq Options(s)
      BY <2>1, <2>2, OptionPaths DEF Options
    <2>4. kind = "haproxy" => Frontends' \subseteq Frontends
      BY <2>1, <2>2, OptionPaths DEF Frontends, Frontend, Paths
    <2>5. QED
      BY <2>1, <2>3, <2>4
  <1>5. QED
    BY <1>1, <1>2, <1>3, <1>4, WhoMoves

\* The check lets through what leaves every mix of old and new files apart.
LEMMA CheckKeepsHosts ==
    ASSUME FilesInv, HostsInv, Check
    PROVE  HostsInv'
  <1> USE DEF FilesInv
  <1>1. UNCHANGED <<kind, disk, live, loading, flock>>
    BY DEF Check, proxy
  <1>2. CASE Refused
    <2>1. step' \notin Moving
      BY <1>2 DEF Check, Moving
    <2>2. (\A s \in Services : Options(s)' \subseteq Options(s)) /\ Frontends' \subseteq Frontends
      BY <1>1, <2>1 DEF Options, Frontends, Frontend
    <2>3. QED
      BY <1>1, <2>2, FewerOptions, SameLive
  <1>3. CASE ~Refused
    <2> SUFFICES ASSUME kind \in {"nginx", "haproxy"}
                 PROVE  RoutesApart' /\ (kind = "haproxy" => FrontendsApart') /\ LiveApart'
      BY <1>1 DEF HostsInv
    <2>1. /\ changes' = AllChanges /\ previous' = [p \in DOMAIN AllChanges |-> disk[p]]
          /\ step' = "write" /\ step = "check"
      BY <1>3 DEF Check
    <2>2. /\ DOMAIN AllChanges = IF kind = "haproxy" THEN DOMAIN changes \cup {Frontend} ELSE DOMAIN changes
          /\ \A p \in DOMAIN changes : p # Frontend => AllChanges[p] = changes[p]
      BY DEF AllChanges
    <2>3. flock \in Services \cup {"cleaner"}
      BY <2>1 DEF Holders, HolderTypes
    <2>4. \A s \in Services : \A a \in Options(s)' : a = disk[<<s, "route">>] \/ a = NewRoute(s)
      <3> TAKE s \in Services
      <3>1. <<s, "route">> # Frontend
        BY OptionPaths
      <3>2. CASE <<s, "route">> \in DOMAIN AllChanges
        <4>1. <<s, "route">> \in DOMAIN changes
          BY <2>2, <3>1, <3>2
        <4>2. AllChanges[<<s, "route">>] = NewRoute(s)
          BY <2>2, <3>1, <4>1 DEF NewRoute
        <4>3. QED
          BY <1>1, <2>1, <3>2, <4>2 DEF Options
      <3>3. CASE <<s, "route">> \notin DOMAIN AllChanges
        BY <1>1, <2>1, <3>3 DEF Options
      <3>4. QED
        BY <3>2, <3>3
    <2>5. \A s, t \in Services : s # t =>
              /\ Apart(disk[<<s, "route">>], disk[<<t, "route">>])
              /\ Apart(NewRoute(s), disk[<<t, "route">>])
              /\ Apart(NewRoute(s), NewRoute(t))
      <3> TAKE s, t \in Services
      <3> SUFFICES ASSUME s # t PROVE /\ Apart(disk[<<s, "route">>], disk[<<t, "route">>])
                                      /\ Apart(NewRoute(s), disk[<<t, "route">>])
                                      /\ Apart(NewRoute(s), NewRoute(t))
        OBVIOUS
      <3>1. Apart(disk[<<s, "route">>], disk[<<t, "route">>])
        BY DEF HostsInv, RoutesApart, Options
      <3>2. Apart(NewRoute(s), NewRoute(t))
        <4>1. CASE <<s, "route">> \in DOMAIN changes \/ <<t, "route">> \in DOMAIN changes
          BY <1>3, <4>1 DEF Refused, NginxConflict, HAProxyConflict, Apart
        <4>2. CASE <<s, "route">> \notin DOMAIN changes /\ <<t, "route">> \notin DOMAIN changes
          BY <3>1, <4>2 DEF NewRoute
        <4>3. QED
          BY <4>1, <4>2
      <3>3. Apart(NewRoute(s), disk[<<t, "route">>])
        <4>1. CASE flock = "cleaner"
          BY <2>3, <3>1, <4>1, NoneAssumption, OptionPaths DEF CleanerChanges, NewRoute, Apart, Claimed
        <4>2. CASE flock \in Services
          <5>1. PICK c \in Configs : pending[flock] = c
            BY <4>2 DEF Holders, HolderTypes
          <5>2. DOMAIN changes \subseteq FilesOf(flock) \cup {Frontend}
            BY <4>2, <5>1 DEF ReleaseChanges
          <5>3. <<t, "route">> \in DOMAIN changes => flock = t
            BY <4>2, <5>2, OptionPaths, PathsApart
          <5>4. <<s, "route">> \in DOMAIN changes => flock = s
            BY <4>2, <5>2, OptionPaths, PathsApart
          <5>5. QED
            BY <3>1, <3>2, <5>3, <5>4 DEF NewRoute
        <4>3. QED
          BY <2>3, <4>1, <4>2
      <3>4. QED
        BY <3>1, <3>2, <3>3
    <2>6. RoutesApart'
      <3>1. \A s, t \in Services : s # t =>
                \A a \in Options(s)', b \in Options(t)' : Claimed(a) \cap Claimed(b) = {}
        BY <2>4, <2>5 DEF Apart
      <3>2. QED
        BY <3>1 DEF RoutesApart, Apart, Claimed
    <2>7. kind = "haproxy" => FrontendsApart'
      <3> SUFFICES ASSUME kind = "haproxy" PROVE FrontendsApart'
        OBVIOUS
      <3>1. AllChanges[Frontend] = [s \in Services |-> NewRoute(s)]
        BY DEF AllChanges
      <3>2. \A f \in Frontends' : f \in {disk[Frontend], AllChanges[Frontend]}
        BY <1>1, <2>1, <2>2 DEF Frontends, Frontend
      <3>3. \A s, t \in Services : s # t =>
                Claimed(AllChanges[Frontend][s]) \cap Claimed(AllChanges[Frontend][t]) = {}
        BY <2>5, <3>1 DEF Apart
      <3>4. disk[Frontend] # None => \A s, t \in Services : s # t =>
                Claimed(disk[Frontend][s]) \cap Claimed(disk[Frontend][t]) = {}
        BY DEF HostsInv, FrontendsApart, Frontends, Apart
      <3>5. QED
        BY <3>2, <3>3, <3>4 DEF FrontendsApart, Apart, Claimed
    <2>8. QED
      BY <1>1, <2>6, <2>7, SameLive
  <1>4. QED
    BY <1>2, <1>3

LEMMA EnvironmentKeepsHosts ==
    ASSUME FilesInv, HostsInv, Environment
    PROVE  HostsInv'
  <1>1. UNCHANGED <<kind, disk, live, loading>>
        /\ (step' \notin Moving \/ UNCHANGED <<step, changes, previous>>)
    BY DEF Environment, ClearReady, CrashCleaner, CrashRelease, Reset, Moving, StartCleaning, RemoveStaleConfigs,
           ContainersUp, ContainersDown, TakeDeployLock, FreeDeployLock, GenerateConfig,
           LockProxyConfigs, tx, proxy
  <1>2. (\A s \in Services : Options(s)' \subseteq Options(s)) /\ Frontends' \subseteq Frontends
    BY <1>1 DEF Options, Frontends, Frontend
  <1>3. QED
    BY <1>1, <1>2, FewerOptions, SameLive

LEMMA HostsNext ==
    ASSUME FilesInv, HostsInv, [Next]_vars
    PROVE  HostsInv'
  <1>1. CASE Transaction /\ ~Check
    <2>1. CASE kind \in {"nginx", "haproxy"}
      BY <1>1, <2>1, TransactionOptions, TransactionLive, FewerOptions
    <2>2. CASE kind \notin {"nginx", "haproxy"}
      <3>1. kind' = kind
        BY <1>1, WhoMoves DEF Moves, Restored, Rewaited, Recorded, Unlock, WriteProxyFile,
                              RestoreProxyFile, RestoreFails, RecordFile, Same, SameFiles
      <3>2. QED
        BY <2>2, <3>1 DEF HostsInv
    <2>3. QED
      BY <2>1, <2>2
  <1>2. CASE Check
    BY <1>2, CheckKeepsHosts
  <1>3. CASE Environment
    BY <1>3, EnvironmentKeepsHosts
  <1>4. CASE ProxyStep /\ UNCHANGED <<writers, tx, manifest, ghosts, txs, faults>>
    BY <1>4, ProxyStepKeepsHosts
  <1>5. CASE UNCHANGED vars
    <2>1. UNCHANGED <<kind, disk, live, loading, step, changes, previous>>
      BY <1>5 DEF vars, tx, proxy
    <2>2. (\A s \in Services : Options(s)' \subseteq Options(s)) /\ Frontends' \subseteq Frontends
      BY <2>1 DEF Options, Frontends, Frontend
    <2>3. QED
      BY <2>1, <2>2, FewerOptions, SameLive
  <1>6. QED
    BY <1>1, <1>2, <1>3, <1>4, <1>5 DEF Next

\* No two services' routes claim one host, on disk or in the proxy, at any step
\* of any transaction, restore or crash.
THEOREM HostsStayApart == Spec => []HostsDisjoint
  <1>1. HostsInv => HostsDisjoint
    BY DEF HostsInv, HostsDisjoint, RoutesApart, LiveApart, Options, Apart, Served
  <1>2. QED
    BY <1>1, HostsInit, HostsNext, FilesAlways, PTL DEF Spec

-----------------------------------------------------------------------------
(* Caddy's pools                                                            *)

Using(f, p) == {s \in Services : f[s] = p}

PoolTypes ==
    /\ loading \in {"no", "asked", "provision", "unwind", "cleanup"}
    /\ users \in [PoolIds -> Nat]
    /\ pool \in [Services -> PoolIds \cup {None}]
    /\ source \in [Services -> PoolIds \cup {None}] /\ next \in [Services -> PoolIds \cup {None}]
    /\ DOMAIN data = Services /\ todo \subseteq Services

\* The pool of a file is the one of every Source that reads the file, it is
\* there as long as there is one, and it is no other file's.
PoolsOfSources ==
    /\ \A s \in Services : source[s] # None => pool[s] = source[s]
    /\ \A s \in Services : next[s] # None => pool[s] = next[s]
    /\ \A s \in Services : pool[s] # None => source[s] # None \/ next[s] # None
    /\ \A s, t \in Services : s # t /\ pool[s] # None => pool[t] # pool[s]

Counted == \A p \in PoolIds : users[p] = Cardinality(Using(source, p)) + Cardinality(Using(next, p))

\* A Source is provisioned once and cleaned up once.
Phases ==
    /\ loading \in {"no", "asked"} => \A s \in Services : next[s] = None
    /\ loading = "provision" => \A s \in todo : next[s] = None
    /\ loading \in {"unwind", "cleanup"} => todo = {s \in Services : next[s] # None}
    /\ \A s \in Services : data[s] # None => loading = "provision" /\ s \in todo

PoolInv == PoolTypes /\ PoolsOfSources /\ Counted /\ Phases

\* A set of services is finite.
LEMMA UsingType ==
    ASSUME NEW f, NEW p
    PROVE  /\ IsFiniteSet(Using(f, p)) /\ Cardinality(Using(f, p)) \in Nat
           /\ Cardinality(Using(f, p)) = 0 <=> Using(f, p) = {}
  <1>1. IsFiniteSet(Using(f, p))
    BY PoolsAssumption, FS_Subset DEF Using
  <1>2. QED
    BY <1>1, FS_CardinalityType, FS_EmptySet

\* One more Source, or one less, of a pool.
LEMMA UsingSet ==
    ASSUME NEW f \in [Services -> PoolIds \cup {None}], NEW s \in Services, NEW p \in PoolIds, f[s] = None
    PROVE  LET g == [f EXCEPT ![s] = p]
           IN  /\ Cardinality(Using(g, p)) = Cardinality(Using(f, p)) + 1
               /\ \A q \in PoolIds : q # p => Cardinality(Using(g, q)) = Cardinality(Using(f, q))
  <1> DEFINE g == [f EXCEPT ![s] = p]
  <1>1. p # None /\ s \notin Using(f, p)
    BY NoneAssumption DEF Using
  <1>2. Using(g, p) = Using(f, p) \cup {s}
    BY DEF Using
  <1>3. \A q \in PoolIds : q # p => Cardinality(Using(g, q)) = Cardinality(Using(f, q))
    <2> TAKE q \in PoolIds
    <2>1. q # p => Using(g, q) = Using(f, q)
      BY NoneAssumption DEF Using
    <2>2. QED
      BY <2>1, Zenon
  <1>4. Cardinality(Using(g, p)) = Cardinality(Using(f, p)) + 1
    BY <1>1, <1>2, UsingType, FS_AddElement
  <1>5. QED
    BY <1>3, <1>4

LEMMA UsingUnset ==
    ASSUME NEW f \in [Services -> PoolIds \cup {None}], NEW s \in Services, f[s] # None
    PROVE  LET g == [f EXCEPT ![s] = None]
           IN  /\ Cardinality(Using(g, f[s])) = Cardinality(Using(f, f[s])) - 1
               /\ \A q \in PoolIds : q # f[s] => Cardinality(Using(g, q)) = Cardinality(Using(f, q))
  <1> DEFINE g == [f EXCEPT ![s] = None]
  <1>1. s \in Using(f, f[s])
    BY DEF Using
  <1>2. Using(g, f[s]) = Using(f, f[s]) \ {s}
    BY DEF Using
  <1>3. \A q \in PoolIds : q # f[s] => Cardinality(Using(g, q)) = Cardinality(Using(f, q))
    <2> TAKE q \in PoolIds
    <2>1. q # f[s] => Using(g, q) = Using(f, q)
      BY NoneAssumption DEF Using
    <2>2. QED
      BY <2>1, Zenon
  <1>4. Cardinality(Using(g, f[s])) = Cardinality(Using(f, f[s])) - 1
    BY <1>1, <1>2, UsingType, FS_RemoveElement
  <1>5. QED
    BY <1>3, <1>4

\* A pool that nobody counts is nobody's.
LEMMA UnusedIsFree ==
    ASSUME PoolInv, NEW p \in PoolIds, users[p] = 0
    PROVE  \A s \in Services : pool[s] # p /\ source[s] # p /\ next[s] # p
  <1>1. Using(source, p) = {} /\ Using(next, p) = {}
    BY UsingType DEF PoolInv, Counted
  <1>2. QED
    BY <1>1, NoneAssumption DEF Using, PoolInv, PoolsOfSources

\* There are more names than files: a new pool gets one of its own.
LEMMA APoolIsUnused ==
    ASSUME PoolInv
    PROVE  UnusedPool \in PoolIds /\ users[UnusedPool] = 0
  <1>1. SUFFICES ASSUME \A p \in PoolIds : users[p] # 0
                 PROVE  FALSE
    BY DEF UnusedPool
  <1>2. \A p \in PoolIds : \E s \in Services : pool[s] = p
    <2> TAKE p \in PoolIds
    <2>1. Using(source, p) # {} \/ Using(next, p) # {}
      BY <1>1, UsingType DEF PoolInv, Counted
    <2>2. QED
      BY <2>1, NoneAssumption DEF Using, PoolInv, PoolsOfSources
  <1> DEFINE owner == [p \in PoolIds |-> CHOOSE s \in Services : pool[s] = p]
  <1>3. \A p \in PoolIds : owner[p] \in Services /\ pool[owner[p]] = p
    BY <1>2
  <1>4. owner \in [PoolIds -> Services]
    BY <1>3
  <1> HIDE DEF owner
  <1>5. PICK p, q \in PoolIds : p # q /\ owner[p] = owner[q]
    BY <1>4, PoolsAssumption, FS_PigeonHole
  <1>6. QED
    BY <1>3, <1>5

LEMMA PoolInit == Init => PoolInv
  <1> SUFFICES ASSUME Init PROVE PoolInv
    OBVIOUS
  <1> USE DEF Init, ProxyInit
  <1>1. PoolTypes /\ PoolsOfSources /\ Phases
    BY DEF PoolTypes, PoolsOfSources, Phases
  <1>2. \A p \in PoolIds : Using(source, p) = {} /\ Using(next, p) = {}
    BY NoneAssumption DEF Using
  <1>3. Counted
    BY <1>2, UsingType DEF Counted
  <1>4. QED
    BY <1>1, <1>3 DEF PoolInv

\* What a step must leave alone for the pools to stay as they are.
LEMMA SamePools ==
    ASSUME PoolInv, UNCHANGED <<users, pool, source, next>>, PoolTypes', Phases'
    PROVE  PoolInv'
  <1>1. \A p : Using(source, p)' = Using(source, p) /\ Using(next, p)' = Using(next, p)
    BY DEF Using
  <1>2. PoolsOfSources'
    BY DEF PoolInv, PoolsOfSources
  <1>3. Counted'
    BY <1>1 DEF PoolInv, Counted
  <1>4. QED
    BY <1>2, <1>3 DEF PoolInv

LEMMA AskKeepsPools ==
    ASSUME PoolInv, UNCHANGED <<users, pool, source, next, data, todo>>,
           loading' = loading \/ (loading = "no" /\ loading' = "asked")
    PROVE  PoolInv'
  <1>1. PoolTypes' /\ Phases'
    BY DEF PoolInv, PoolTypes, Phases
  <1>2. QED
    BY <1>1, SamePools

LEMMA ProvisionKeepsPools ==
    ASSUME PoolInv, NEW s \in Services, Provision(s)
    PROVE  PoolInv'
  <1>1. /\ loading = "provision" /\ s \in todo /\ next[s] = None
        /\ UNCHANGED <<loading, source>> /\ todo' = todo \ {s} /\ data' = [data EXCEPT ![s] = None]
    BY DEF PoolInv, Phases, Provision
  <1>2. PICK p : /\ p = IF pool[s] # None THEN pool[s] ELSE UnusedPool
                 /\ pool' = [pool EXCEPT ![s] = p] /\ next' = [next EXCEPT ![s] = p]
                 /\ users' = [users EXCEPT ![p] = @ + 1]
    BY DEF Provision
  <1>3. p \in PoolIds /\ p # None
    BY <1>2, APoolIsUnused, NoneAssumption DEF PoolInv, PoolTypes
  <1>4. \A t \in Services : t # s => pool[t] # p
    BY <1>2, <1>3, APoolIsUnused, UnusedIsFree DEF PoolInv, PoolsOfSources
  <1>5. source[s] # None => source[s] = p
    BY <1>2 DEF PoolInv, PoolsOfSources
  <1>6. PoolTypes' /\ Phases'
    BY <1>1, <1>2, <1>3 DEF PoolInv, PoolTypes, Phases
  <1>7. PoolsOfSources'
    BY <1>1, <1>2, <1>3, <1>4, <1>5 DEF PoolInv, PoolTypes, PoolsOfSources
  <1>8. Counted'
    <2>1. /\ Cardinality(Using(next', p)) = Cardinality(Using(next, p)) + 1
          /\ \A q \in PoolIds : q # p => Cardinality(Using(next', q)) = Cardinality(Using(next, q))
      <3>1. next \in [Services -> PoolIds \cup {None}]
        BY DEF PoolInv, PoolTypes
      <3>2. next' = [next EXCEPT ![s] = p]
        BY <1>2
      <3>3. QED
        BY <1>1, <1>3, <3>1, <3>2, UsingSet, Zenon
    <2>2. \A q \in PoolIds : users'[q] = Cardinality(Using(source, q)) + Cardinality(Using(next', q))
      <3> TAKE q \in PoolIds
      <3>1. users[q] = Cardinality(Using(source, q)) + Cardinality(Using(next, q))
        BY DEF PoolInv, Counted
      <3>2. /\ Cardinality(Using(source, q)) \in Nat /\ Cardinality(Using(next, q)) \in Nat
            /\ Cardinality(Using(next', q)) = IF q = p THEN Cardinality(Using(next, q)) + 1
                                              ELSE Cardinality(Using(next, q))
        BY <2>1, UsingType
      <3>3. users'[q] = IF q = p THEN users[q] + 1 ELSE users[q]
        BY <1>2, <1>3 DEF PoolInv, PoolTypes
      <3>4. QED
        BY <3>1, <3>2, <3>3
    <2>3. QED
      BY <1>1, <2>2, Zenon DEF Counted
  <1>9. QED
    BY <1>6, <1>7, <1>8 DEF PoolInv

LEMMA CleanupKeepsPools ==
    ASSUME PoolInv, NEW s \in Services, Cleanup(s)
    PROVE  PoolInv'
  <1> DEFINE p == next[s]
  <1>1. /\ loading \in {"unwind", "cleanup"} /\ UNCHANGED <<loading, source, data>>
        /\ todo' = todo \ {s} /\ next' = [next EXCEPT ![s] = None]
        /\ users' = [users EXCEPT ![p] = @ - 1]
        /\ pool' = IF users'[p] = 0 THEN [pool EXCEPT ![s] = None] ELSE pool
    BY DEF Cleanup
  <1>2. p # None /\ p \in PoolIds /\ pool[s] = p
    BY DEF Cleanup, PoolInv, PoolTypes, Phases, PoolsOfSources
  <1>3. s \in Using(next, p) /\ Using(next, p) \subseteq {s} /\ Using(source, p) \subseteq {s}
    BY <1>2 DEF Using, PoolInv, PoolsOfSources
  <1>4. Using(next, p) = {s} /\ Cardinality(Using(next, p)) = 1
    BY <1>3, FS_Singleton
  <1>5. users[p] = Cardinality(Using(source, p)) + 1 /\ Cardinality(Using(source, p)) \in Nat
    BY <1>2, <1>4, UsingType DEF PoolInv, Counted
  <1>6. users'[p] = 0 <=> source[s] # p
    <2>1. users'[p] = Cardinality(Using(source, p))
      BY <1>1, <1>2, <1>5 DEF PoolInv, PoolTypes
    <2>2. Using(source, p) = {} <=> source[s] # p
      BY <1>3 DEF Using
    <2>3. QED
      BY <2>1, <2>2, UsingType
  <1>7. source[s] # p => source[s] = None
    BY <1>2 DEF PoolInv, PoolsOfSources
  <1> HIDE DEF p
  <1>8. users' \in [PoolIds -> Nat]
    BY <1>1, <1>2, <1>5 DEF PoolInv, PoolTypes
  <1>9. PoolTypes' /\ Phases'
    BY <1>1, <1>8 DEF PoolInv, PoolTypes, Phases
  <1>10. PoolsOfSources'
    BY <1>1, <1>2, <1>6, <1>7 DEF PoolInv, PoolTypes, PoolsOfSources
  <1>11. Counted'
    <2>1. /\ Cardinality(Using(next', p)) = Cardinality(Using(next, p)) - 1
          /\ \A q \in PoolIds : q # p => Cardinality(Using(next', q)) = Cardinality(Using(next, q))
      <3>1. next \in [Services -> PoolIds \cup {None}] /\ next[s] # None
        BY <1>2 DEF PoolInv, PoolTypes, p
      <3>2. next' = [next EXCEPT ![s] = None]
        BY <1>1
      <3>3. QED
        BY <3>1, <3>2, UsingUnset, Zenon DEF p
    <2>2. \A q \in PoolIds : users'[q] = Cardinality(Using(source, q)) + Cardinality(Using(next', q))
      <3> TAKE q \in PoolIds
      <3>1. users[q] = Cardinality(Using(source, q)) + Cardinality(Using(next, q))
        BY DEF PoolInv, Counted
      <3>2. /\ Cardinality(Using(source, q)) \in Nat /\ Cardinality(Using(next, q)) \in Nat
            /\ Cardinality(Using(next', q)) = IF q = p THEN Cardinality(Using(next, q)) - 1
                                              ELSE Cardinality(Using(next, q))
        BY <2>1, UsingType
      <3>3. users'[q] = IF q = p THEN users[q] - 1 ELSE users[q]
        BY <1>1, <1>2 DEF PoolInv, PoolTypes
      <3>4. QED
        BY <3>1, <3>2, <3>3
    <2>3. QED
      BY <1>1, <2>2, Zenon DEF Counted
  <1>12. QED
    BY <1>9, <1>10, <1>11 DEF PoolInv

\* Old and new change places; each Source stays counted.
LEMMA SwapKeepsPools ==
    ASSUME PoolInv, CaddySwap
    PROVE  PoolInv'
  <1>1. /\ source' = next /\ next' = source /\ UNCHANGED <<pool, users, data>> /\ todo = {}
        /\ loading' = "cleanup" /\ todo' = {s \in Services : source[s] # None}
    BY DEF CaddySwap
  <1>2. PoolTypes' /\ Phases' /\ PoolsOfSources'
    BY <1>1 DEF PoolInv, PoolTypes, Phases, PoolsOfSources
  <1>3. \A p : Using(source, p)' = Using(next, p) /\ Using(next, p)' = Using(source, p)
    BY <1>1 DEF Using
  <1>4. Counted'
    BY <1>1, <1>3, UsingType DEF PoolInv, Counted
  <1>5. QED
    BY <1>2, <1>4 DEF PoolInv

LEMMA ProxyStepKeepsPools ==
    ASSUME PoolInv, ProxyStep
    PROVE  PoolInv'
  <1>1. CASE Load \/ TraefikLoad
    <2>1. PoolTypes' /\ Phases' /\ UNCHANGED <<users, pool, source, next>>
      BY <1>1 DEF Load, TraefikLoad, pools, PoolInv, PoolTypes, Phases
    <2>2. QED
      BY <2>1, SamePools
  <1>2. CASE CaddyAdapt
    <2>1. next' = next
      BY <1>2 DEF CaddyAdapt, PoolInv, PoolTypes, Phases
    <2>2. PoolTypes' /\ Phases'
      BY <1>2 DEF CaddyAdapt, PoolInv, PoolTypes, Phases
    <2>3. QED
      BY <1>2, <2>1, <2>2, SamePools DEF CaddyAdapt
  <1>3. CASE ProvisionFails \/ CaddyDone
    <2>1. PoolTypes' /\ Phases' /\ UNCHANGED <<users, pool, source, next>>
      BY <1>3 DEF ProvisionFails, CaddyDone, PoolInv, PoolTypes, Phases
    <2>2. QED
      BY <2>1, SamePools
  <1>4. ASSUME NEW s \in Services, ReadUpstreams(s) PROVE PoolInv'
    <2>1. PoolTypes' /\ Phases'
      BY <1>4 DEF ReadUpstreams, PoolInv, PoolTypes, Phases
    <2>2. QED
      BY <1>4, <2>1, SamePools DEF ReadUpstreams
  <1>5. QED
    BY <1>1, <1>2, <1>3, <1>4, ProvisionKeepsPools, CleanupKeepsPools, SwapKeepsPools DEF ProxyStep

\* The writers ask for reloads and change the addresses of a pool, no more.
LEMMA WritersKeepPools ==
    ASSUME PoolInv, Transaction \/ Environment \/ UNCHANGED vars
    PROVE  PoolInv'
  <1> DEFINE Asks == /\ UNCHANGED <<users, pool, source, next, data, todo>>
                     /\ loading' = loading \/ (loading = "no" /\ loading' = "asked")
  <1>1. ASSUME Environment \/ UNCHANGED vars PROVE Asks
    BY <1>1 DEF Environment, ClearReady, CrashCleaner, CrashRelease, StartCleaning, RemoveStaleConfigs,
                ContainersUp, ContainersDown, TakeDeployLock, FreeDeployLock, GenerateConfig,
                LockProxyConfigs, proxy, pools, vars
  <1>2. ASSUME Transaction PROVE Asks
    <2> USE DEF SameProxy, proxy, pools, Ask, UpdatePool
    <2>1. ASSUME NginxReload \/ CaddyReload \/ HAProxyReload \/ TraefikReload PROVE Asks
      BY <2>1 DEF NginxReload, CaddyReload, HAProxyReload, TraefikReload
    <2>2. ASSUME CaddyUpdate \/ CaddyUpdateFails PROVE Asks
      BY <2>2 DEF CaddyUpdate, CaddyUpdateFails
    <2>3. ASSUME HAProxyServer \/ HAProxyUpdated \/ HAProxyUpdateFails
                     \/ HAProxyUndo \/ HAProxyUndone \/ HAProxyUndoFails
          PROVE  Asks
      BY <2>3 DEF HAProxyServer, HAProxyUpdated, HAProxyUpdateFails, HAProxyUndo, HAProxyUndone,
                  HAProxyUndoFails, SetServer
    <2>4. ASSUME Check \/ WriteFails \/ Rejected \/ Reloaded \/ NotReloaded
                     \/ Restored \/ Rewaited \/ Recorded \/ Unlock
          PROVE  Asks
      BY <2>4 DEF Check, WriteFails, Rejected, Reloaded, NotReloaded, Restored, Rewaited, Recorded, Unlock
    <2>5. ASSUME NEW p \in left, WriteProxyFile(p) \/ RestoreProxyFile(p) \/ RestoreFails(p) \/ RecordFile(p)
          PROVE  Asks
      BY <2>5 DEF WriteProxyFile, RestoreProxyFile, RestoreFails, RecordFile
    <2>6. QED
      BY <1>2, <2>1, <2>2, <2>3, <2>4, <2>5 DEF Transaction
  <1>3. QED
    BY <1>1, <1>2, AskKeepsPools

\* Each running Source's pool is the one that an update of its file changes,
\* through any sequence of reloads, failed loads and cleanups.
THEOREM UpdatesReachSources == Spec => []UpdatesReachTheProxy
  <1>1. PoolInv /\ [Next]_vars => PoolInv'
    BY ProxyStepKeepsPools, WritersKeepPools DEF Next
  <1>2. PoolInv => UpdatesReachTheProxy
    BY DEF PoolInv, UpdatesReachTheProxy, PoolsOfSources, Counted, Using
  <1>3. QED
    BY <1>1, <1>2, PoolInit, PTL DEF Spec

-----------------------------------------------------------------------------
(* What the proxy serves after a success                                    *)

\* The files of a service whose last transaction succeeded are untouched since.
Content(s, p) == IF acked[s] = None THEN None ELSE Changes(s, acked[s])[p]
OkStands ==
    /\ last \in [Services -> {"none", "ok", "failed"}]
    /\ \A s \in Services : last[s] = "ok" =>
         /\ s \in Removed => step = "done"
         /\ \A p \in FilesOf(s) : disk[p] = Content(s, p)

\* A user's own file stands alone: a transaction never touches its service.
OwnFiles ==
    /\ \A s \in Services : (\E p \in FilesOf(s) : disk[p] = Foreign) =>
           \A p \in FilesOf(s) : disk[p] \in {None, Foreign}
    /\ step \in Moving \/ (step = "check" /\ flock = "cleaner") =>
           \A s \in Removed : \A p \in FilesOf(s) : disk[p] # Foreign
    /\ step \in Moving => \A p \in DOMAIN changes \ {Frontend} : previous[p] # Foreign

\* What an upstream file of HAProxy, and a backend that runs, may say.
IsUp(u) == u = [i \in Slots |-> u[i]]
Backends == kind = "haproxy" =>
    /\ \A s \in Services : disk[<<s, "up">>] \in Ups \cup {None, Foreign}
    /\ step \in Moving => \A s \in Services : <<s, "up">> \in DOMAIN changes => previous[<<s, "up">>] \in Ups \cup {None}
    /\ \A s \in Services : disk[<<s, "up">>] # Foreign => live[s].up = None \/ IsUp(live[s].up)
    /\ DOMAIN live = Services
    /\ \A s \in Services : live[s] = [up |-> live[s].up, route |-> live[s].route]

\* A load that ended since it was asked for has read the files as they are, and
\* a server that was set on the socket has the address of its line.
Loaded ==
    /\ loading \in {"provision", "unwind", "cleanup"} => kind = "caddy"
    /\ step = "wait" /\ loaded /\ kind \in {"nginx", "haproxy"} => \A s \in Services : live[s] = OnDisk(s)
    /\ step = "update" /\ kind = "haproxy" /\ slots # Slots => IsUp(live[flock].up)
    /\ step = "update" /\ kind = "haproxy" =>
           \A i \in Slots \ slots : live[flock].up[i] = disk[<<flock, "up">>][i]

\* Only a release's transaction updates what runs.
UpdatesAreMine ==
    /\ shortcut \/ step \in {"update", "undo"} => Mine
    /\ step = "undo" => kind = "haproxy"

\* What runs for a service follows its files.  Caddy's pool has the addresses of
\* the file, or gets them from the Source that has read it.
Follows(s) ==
    /\ kind \in {"nginx", "traefik"} => live[s] = OnDisk(s)
    /\ kind = "haproxy" /\ disk[<<s, "up">>] # None => live[s].up = disk[<<s, "up">>]
    /\ kind = "caddy" /\ disk[<<s, "up">>] # None =>
           /\ pool[s] # None => addresses[pool[s]] = disk[<<s, "up">>]
           /\ pool[s] = None /\ data[s] # None => data[s] = disk[<<s, "up">>]
Settled(s) == last[s] = "ok" \/ (step = "record" /\ s \in Removed)
Following ==
    /\ DOMAIN addresses = PoolIds
    /\ \A s \in Services : Settled(s) => Follows(s)

ServedInv == OkStands /\ OwnFiles /\ Backends /\ Loaded /\ Following

\* The variables that these depend on, but for the proxy's pools.
served == <<kind, disk, live, loading, loaded, flock, step, changes, previous, slots, acked, last>>

LEMMA ServedInit == Init => ServedInv
  <1> SUFFICES ASSUME Init PROVE ServedInv
    OBVIOUS
  <1> USE DEF Init, ProxyInit
  <1>1. Removed = {} /\ step \notin Moving
    BY DEF Removed, NoChanges, Moving
  <1>2. \A p \in Paths : disk[p] \in {None, Foreign}
    OBVIOUS
  <1>3. \A s \in Services : FilesOf(s) \subseteq Paths
    BY PathsApart
  <1>4. OkStands /\ Loaded /\ Following
    BY <1>1 DEF OkStands, Loaded, Following, Settled
  <1>5. OwnFiles
    BY <1>1, <1>2, <1>3, ServicesAssumption DEF OwnFiles
  <1>6. Backends
    <2> SUFFICES ASSUME kind = "haproxy" PROVE Backends
      BY DEF Backends
    <2>1. \A s \in Services : <<s, "up">> \in FilesOf(s)
      BY DEF FilesOf, Parts
    <2>2. QED
      BY <1>1, <1>2, <1>3, <2>1 DEF Backends
  <1>7. QED
    BY <1>4, <1>5, <1>6 DEF ServedInv

\* A release's transaction is on the files of its service.
LEMMA RemovedOfRelease ==
    ASSUME FilesInv, flock \in Services
    PROVE  /\ Removed = {flock} /\ FilesOf(flock) \subseteq DOMAIN changes
           /\ \A p \in FilesOf(flock) : changes[p] = Changes(flock, pending[flock])[p]
           /\ pending[flock] \in Configs
  <1>1. pending[flock] \in Configs
    BY DEF FilesInv, Holders, HolderTypes
  <1>2. FilesOf(flock) \subseteq DOMAIN changes /\ DOMAIN changes \subseteq FilesOf(flock) \cup {Frontend}
    BY <1>1 DEF FilesInv, ReleaseChanges
  <1>3. <<flock, "yml">> \in FilesOf(flock) \/ <<flock, "up">> \in FilesOf(flock)
    BY DEF FilesOf, Parts
  <1>4. Removed = {flock}
    BY <1>2, <1>3, PathsApart DEF Removed
  <1>5. QED
    BY <1>1, <1>2, <1>4 DEF FilesInv, ReleaseChanges

\* What the files of a config say.
LEMMA ConfigContent ==
    ASSUME FilesInv, NEW s \in Services, NEW c \in Configs
    PROVE  /\ kind = "traefik" => FilesOf(s) = {<<s, "yml">>} /\ Changes(s, c)[<<s, "yml">>] = c
           /\ kind # "traefik" => /\ FilesOf(s) = {<<s, "up">>, <<s, "route">>}
                                  /\ Changes(s, c)[<<s, "up">>] = c.up
                                  /\ Changes(s, c)[<<s, "route">>] = c.route
           /\ \A p \in FilesOf(s) : Changes(s, c)[p] # Foreign
           /\ c = [up |-> c.up, route |-> c.route] /\ c.up \in Ups /\ c.route \in Routes
  <1>1. c \in [up : Ups, route : Routes]
    BY ConfigsAssumption
  <1>2. kind \in {"nginx", "caddy", "haproxy", "traefik"}
    BY DEF FilesInv, Holders, HolderTypes
  <1>3. CASE kind = "traefik"
    <2>1. FilesOf(s) = {<<s, "yml">>}
      BY <1>3 DEF FilesOf, Parts
    <2>2. \A p \in FilesOf(s) : Changes(s, c)[p] = c
      BY <1>3 DEF Changes, TraefikChanges
    <2>3. QED
      BY <1>1, <1>3, <2>1, <2>2, ForeignAssumption
  <1>4. CASE kind # "traefik"
    <2>1. FilesOf(s) = {<<s, "up">>, <<s, "route">>}
      BY <1>4 DEF FilesOf, Parts
    <2>2. Changes(s, c) = [p \in FilesOf(s) |-> c[p[2]]]
      BY <1>2, <1>4 DEF Changes, NginxChanges, CaddyChanges, HAProxyChanges
    <2>3. QED
      BY <1>1, <1>4, <2>1, <2>2, ForeignAssumption
  <1>5. QED
    BY <1>3, <1>4

\* Nothing of this moves with the writers outside a transaction.
LEMMA SameServed ==
    ASSUME ServedInv, UNCHANGED served, DOMAIN addresses' = PoolIds,
           \A s \in Services : last[s] = "ok" \/ step = "record" => (Follows(s) => Follows(s)')
    PROVE  ServedInv'
  <1> USE SameNames DEF served
  <1>1. OkStands'
    BY DEF ServedInv, OkStands, Removed, Content
  <1>2. OwnFiles'
    BY DEF ServedInv, OwnFiles, Removed, Frontend
  <1>3. Backends'
    BY DEF ServedInv, Backends, Removed, IsUp
  <1>4. Loaded'
    BY DEF ServedInv, Loaded, OnDisk, Frontend
  <1>5. Following'
    BY DEF ServedInv, Following, Settled, Removed
  <1>6. QED
    BY <1>1, <1>2, <1>3, <1>4, <1>5 DEF ServedInv

\* Neither do the files that the proxy follows, if they and the proxy stay.
LEMMA SameFollows ==
    ASSUME UNCHANGED <<kind, live, pool, addresses, data>>, NEW s \in Services,
           kind \in {"nginx", "caddy", "haproxy", "traefik"},
           \A p \in FilesOf(s) : disk'[p] = disk[p]
    PROVE  Follows(s)' <=> Follows(s)
  <1>1. kind = "traefik" => disk'[<<s, "yml">>] = disk[<<s, "yml">>]
    BY DEF FilesOf, Parts
  <1>2. kind # "traefik" => disk'[<<s, "up">>] = disk[<<s, "up">>] /\ disk'[<<s, "route">>] = disk[<<s, "route">>]
    BY DEF FilesOf, Parts
  <1>3. kind # "haproxy" => OnDisk(s)' = OnDisk(s)
    BY <1>1, <1>2 DEF OnDisk
  <1>4. QED
    BY <1>1, <1>2, <1>3 DEF Follows

-----------------------------------------------------------------------------
(* Steps of the writers                                                     *)

\* Steps at which no transaction is under way afterwards.
LEMMA ResetKeepsServed ==
    ASSUME ServedInv, FilesInv, Reset, UNCHANGED <<kind, disk, proxy, acked>>,
           last' \in [Services -> {"none", "ok", "failed"}],
           \A s \in Services : last'[s] = "ok" => last[s] = "ok"
    PROVE  ServedInv'
  <1> USE SameNames DEF Reset
  <1>1. Removed' = {} /\ step' \notin Moving \cup {"check"}
    BY DEF Removed, NoChanges, Moving
  <1>2. OkStands'
    BY <1>1 DEF ServedInv, OkStands, Content
  <1>3. OwnFiles'
    BY <1>1 DEF ServedInv, OwnFiles
  <1>4. Backends'
    BY <1>1 DEF ServedInv, Backends, proxy, IsUp
  <1>5. Loaded'
    BY DEF ServedInv, Loaded, proxy
  <1>6. Following'
    <2>1. \A s \in Services : Follows(s)' <=> Follows(s)
      BY SameFollows DEF proxy, pools, FilesInv, Holders, HolderTypes
    <2>2. QED
      BY <1>1, <2>1 DEF ServedInv, Following, Settled, proxy, pools
  <1>7. QED
    BY <1>2, <1>3, <1>4, <1>5, <1>6 DEF ServedInv

\* Steps that begin a transaction, on services whose last one no longer counts.
LEMMA BeginKeepsServed ==
    ASSUME ServedInv, FilesInv, UNCHANGED <<kind, disk, proxy, acked>>, step \in {"none", "check"},
           step' \in {"check", "done", "write"},
           last' \in [Services -> {"none", "ok", "failed"}],
           \A s \in Services : last'[s] = "ok" => last[s] = "ok",
           \A s \in Removed' : step' # "done" => last'[s] # "ok",
           OwnFiles', \A p \in DOMAIN changes' : step' = "write" => previous'[p] = disk[p]
    PROVE  ServedInv'
  <1> USE SameNames
  <1>1. OkStands'
    BY DEF ServedInv, OkStands, Content
  <1>2. Backends'
    <2>1. ASSUME kind = "haproxy", step' \in Moving, NEW s \in Services, <<s, "up">> \in DOMAIN changes'
          PROVE  previous'[<<s, "up">>] \in Ups \cup {None}
      <3>1. <<s, "up">> # Frontend
        BY DEF Frontend
      <3>2. previous'[<<s, "up">>] # Foreign
        BY <2>1, <3>1 DEF OwnFiles
      <3>3. previous'[<<s, "up">>] = disk[<<s, "up">>]
        BY <2>1 DEF Moving
      <3>4. QED
        BY <2>1, <3>2, <3>3 DEF ServedInv, Backends
    <2>2. QED
      BY <2>1 DEF ServedInv, Backends, proxy, IsUp
  <1>5. Loaded'
    BY DEF ServedInv, Loaded, proxy
  <1>6. Following'
    <2>1. \A s \in Services : Follows(s)' <=> Follows(s)
      BY SameFollows DEF proxy, pools, FilesInv, Holders, HolderTypes
    <2>2. QED
      BY <2>1 DEF ServedInv, Following, Settled, proxy, pools
  <1>7. QED
    BY <1>1, <1>2, <1>5, <1>6 DEF ServedInv

LEMMA LockKeepsServed ==
    ASSUME ServedInv, FilesInv, NEW s \in Services, LockProxyConfigs(s)
    PROVE  ServedInv'
  <1> USE DEF LockProxyConfigs
  <1>1. PICK c \in Configs : pending[s] = c
    BY DEF FilesInv, Holders, HolderTypes
  <1>2. DOMAIN changes' = FilesOf(s)
    BY <1>1, ConfigHasFiles DEF FilesInv, Holders, HolderTypes
  <1>3. Removed' \subseteq {s}
    BY <1>2, PathsApart, SameNames DEF Removed
  <1>4. OwnFiles'
    BY ServicesAssumption, SameNames DEF ServedInv, OwnFiles, Moving
  <1>5. step = "none"
    BY DEF FilesInv, Holders
  <1>6. last' = [last EXCEPT ![s] = "none"] /\ last \in [Services -> {"none", "ok", "failed"}]
    BY DEF ServedInv, OkStands
  <1>7. QED
    BY <1>3, <1>4, <1>5, <1>6, BeginKeepsServed, Zenon

LEMMA CleanerKeepsServed ==
    ASSUME ServedInv, FilesInv, RemoveStaleConfigs
    PROVE  ServedInv'
  <1> USE DEF RemoveStaleConfigs
  <1>1. DOMAIN changes' = {q \in UNION {FilesOf(s) : s \in Stale} : disk[q] \notin {None, Foreign}}
    OBVIOUS
  <1>2. \A s \in Removed' : s \in Stale
    BY <1>1, PathsApart, SameNames DEF Removed, Stale
  <1>3. \A s \in Stale : \A p \in FilesOf(s) : disk[p] # Foreign
    BY DEF Stale, HasFiles, ServedInv, OwnFiles
  <1>4. OwnFiles'
    BY <1>2, <1>3, SameNames DEF ServedInv, OwnFiles, Moving
  <1>5. step = "none"
    BY DEF FilesInv, Holders
  <1>6. last' = [s \in Services |-> IF s \in Stale THEN "none" ELSE last[s]]
    OBVIOUS
  <1>7. /\ last' \in [Services -> {"none", "ok", "failed"}]
        /\ \A s \in Services : last'[s] = "ok" => last[s] = "ok" /\ s \notin Stale
    BY <1>6 DEF ServedInv, OkStands
  <1>8. \A s \in Removed' : last'[s] # "ok"
    BY <1>2, <1>7 DEF Removed
  <1>9. step' \in {"check", "done"}
    OBVIOUS
  <1>10. QED
    BY <1>4, <1>5, <1>7, <1>8, <1>9, BeginKeepsServed

\* A transaction that is checked is on no user's own file.
LEMMA CheckKeepsServed ==
    ASSUME ServedInv, FilesInv, Check
    PROVE  ServedInv'
  <1> USE DEF Check
  <1>1. DOMAIN changes' \cap Paths \subseteq DOMAIN changes \cup {Frontend}
    BY DEF AllChanges
  <1>2. Removed' \subseteq Removed
    BY <1>1, PathsApart, SameNames DEF Removed
  <1>3. \A s \in Removed : last[s] # "ok"
    BY DEF ServedInv, OkStands, Removed
  <1>4. /\ last' \in [Services -> {"none", "ok", "failed"}]
        /\ \A s \in Services : last'[s] = "ok" => last[s] = "ok"
    BY DEF ServedInv, OkStands, Mine
  <1>5. \A s \in Removed' : last'[s] # "ok"
    BY <1>2, <1>3, <1>4 DEF Removed
  <1>6. OwnFiles'
    <2>1. CASE Refused
      BY <2>1, SameNames DEF ServedInv, OwnFiles, Moving
    <2>2. CASE ~Refused
      <3>1. \A s \in Removed : \A p \in FilesOf(s) : disk[p] # Foreign
        <4>1. CASE flock = "cleaner"
          BY <4>1 DEF ServedInv, OwnFiles
        <4>2. CASE flock \in Services
          <5>1. Removed = {flock} /\ FilesOf(flock) \subseteq DOMAIN changes /\ pending[flock] \in Configs
            BY <4>2, RemovedOfRelease
          <5>2. \A p \in FilesOf(flock) : changes[p] # None
            BY <4>2, <5>1, RemovedOfRelease, ConfigHasFiles DEF FilesInv, Holders, HolderTypes
          <5>3. QED
            BY <2>2, <5>1, <5>2 DEF Refused
        <4>3. QED
          BY <4>1, <4>2 DEF FilesInv, Holders, HolderTypes
      <3>2. \A p \in DOMAIN changes' \ {Frontend} : p \in DOMAIN changes /\ previous'[p] = disk[p]
        BY <2>2 DEF AllChanges
      <3>3. \A p \in DOMAIN changes \ {Frontend} : \E s \in Removed : p \in FilesOf(s)
        <4>1. DOMAIN changes \subseteq Paths
          BY DEF FilesInv, Domains
        <4>2. QED
          BY <4>1 DEF Paths, Removed
      <3>4. Frontend' = Frontend /\ disk' = disk
        BY DEF Frontend
      <3>5. \A p \in DOMAIN changes' \ {Frontend} : previous'[p] # Foreign
        BY <3>1, <3>2, <3>3
      <3>6. QED
        BY <1>2, <3>1, <3>4, <3>5, SameNames DEF ServedInv, OwnFiles
    <2>3. QED
      BY <2>1, <2>2
  <1>7. \A p \in DOMAIN changes' : step' = "write" => previous'[p] = disk[p]
    OBVIOUS
  <1>8. step' \in {"done", "write"}
    OBVIOUS
  <1>9. QED
    BY <1>4, <1>5, <1>6, <1>7, <1>8, BeginKeepsServed

LEMMA EndKeepsServed ==
    ASSUME ServedInv, FilesInv, Unlock \/ CrashCleaner \/ \E s \in Services : CrashRelease(s)
    PROVE  ServedInv'
  <1>1. last \in [Services -> {"none", "ok", "failed"}]
    BY DEF ServedInv, OkStands
  <1>2. CASE Unlock
    BY <1>1, <1>2, ResetKeepsServed DEF Unlock, ghosts
  <1>3. CASE CrashCleaner
    <2>1. CASE flock = "cleaner"
      BY <1>1, <1>3, <2>1, ResetKeepsServed DEF CrashCleaner
    <2>2. CASE flock # "cleaner"
      <3>1. UNCHANGED served /\ UNCHANGED <<live, pools>>
        BY <1>3, <2>2 DEF CrashCleaner, served, tx, proxy
      <3>2. QED
        BY <3>1, SameServed, SameFollows DEF ServedInv, Following, FilesInv, Holders, HolderTypes, served, pools
    <2>3. QED
      BY <2>1, <2>2
  <1>4. ASSUME NEW s \in Services, CrashRelease(s) PROVE ServedInv'
    <2>1. CASE flock = s
      <3>1. Reset /\ UNCHANGED <<kind, disk, proxy, acked>>
        BY <1>4, <2>1 DEF CrashRelease
      <3>2. last' = [last EXCEPT ![s] = IF step = "done" THEN @ ELSE "failed"]
        BY <1>4, <2>1 DEF CrashRelease
      <3>3. /\ last' \in [Services -> {"none", "ok", "failed"}]
            /\ \A t \in Services : last'[t] = "ok" => last[t] = "ok"
        BY <1>1, <3>2
      <3>4. QED
        BY <3>1, <3>3, ResetKeepsServed
    <2>2. CASE flock # s
      <3>1. UNCHANGED served /\ UNCHANGED <<live, pools>>
        BY <1>4, <2>2 DEF CrashRelease, served, tx, proxy
      <3>2. QED
        BY <3>1, SameServed, SameFollows DEF ServedInv, Following, FilesInv, Holders, HolderTypes, served, pools
    <2>3. QED
      BY <2>1, <2>2
  <1>5. QED
    BY <1>2, <1>3, <1>4

\* Whatever leaves the proxy and the transaction's files alone.
LEMMA AsideKeepsServed ==
    ASSUME ServedInv, FilesInv,
           \/ Outside \/ ClearReady \/ UNCHANGED vars
           \/ \E p \in left : RestoreFails(p) \/ RecordFile(p)
    PROVE  ServedInv'
  <1>1. UNCHANGED served /\ UNCHANGED <<live, pools>>
    <2> USE DEF served, tx, proxy, ghosts
    <2>1. CASE ClearReady \/ UNCHANGED vars
      BY <2>1 DEF ClearReady, vars
    <2>2. CASE Outside
      <3>1. StartCleaning => UNCHANGED served /\ UNCHANGED <<live, pools>>
        BY DEF StartCleaning
      <3>2. \A s \in Services : ContainersUp(s) \/ ContainersDown(s) => UNCHANGED served /\ UNCHANGED <<live, pools>>
        BY DEF ContainersUp, ContainersDown
      <3>3. \A s \in Services : TakeDeployLock(s) \/ FreeDeployLock(s) \/ GenerateConfig(s) =>
                UNCHANGED served /\ UNCHANGED <<live, pools>>
        BY DEF TakeDeployLock, FreeDeployLock, GenerateConfig
      <3>4. QED
        BY <2>2, <3>1, <3>2, <3>3, Zenon DEF Outside
    <2>3. ASSUME NEW p \in left, RestoreFails(p) \/ RecordFile(p)
          PROVE  UNCHANGED served /\ UNCHANGED <<live, pools>>
      BY <2>3 DEF RestoreFails, RecordFile
    <2>4. QED
      BY <2>1, <2>2, <2>3
  <1>2. QED
    BY <1>1, SameServed, SameFollows DEF ServedInv, Following, FilesInv, Holders, HolderTypes, served, pools

\* Files of the holder's own change, and of no other.
LEMMA WritesKeepServed ==
    ASSUME ServedInv, FilesInv, NEW p \in left, WriteProxyFile(p) \/ RestoreProxyFile(p)
    PROVE  ServedInv'
  <1>1. /\ step \in {"write", "restore"} /\ UNCHANGED <<kind, proxy, flock, step, changes, previous, slots, acked, last>>
        /\ \E x \in {changes[p], previous[p]} : disk' = [disk EXCEPT ![p] = x]
        /\ step = "write" => disk' = [disk EXCEPT ![p] = changes[p]]
        /\ step = "restore" => disk' = [disk EXCEPT ![p] = previous[p]]
    BY DEF WriteProxyFile, RestoreProxyFile, ghosts
  <1>2. p \in DOMAIN changes /\ p \in Paths /\ DOMAIN disk = Paths
    BY <1>1 DEF FilesInv, Domains, Moving, Holders, HolderTypes
  <1>3. Removed' = Removed
    BY <1>1, SameNames DEF Removed
  <1>4. \A s \in Services : s \notin Removed => \A q \in FilesOf(s) : disk'[q] = disk[q]
    BY <1>1, <1>2 DEF Removed
  <1>5. \A s \in Services : last[s] = "ok" => s \notin Removed
    BY <1>1 DEF ServedInv, OkStands
  <1>6. OkStands'
    BY <1>1, <1>3, <1>4, <1>5, SameNames DEF ServedInv, OkStands, Content
  <1>7. p # Frontend => changes[p] # Foreign /\ previous[p] # Foreign
    <2>1. SUFFICES ASSUME p # Frontend PROVE changes[p] # Foreign
      BY <1>1, <1>2 DEF ServedInv, OwnFiles, Moving
    <2>2. CASE flock = "cleaner"
      BY <1>2, <2>1, <2>2, ForeignAssumption DEF FilesInv, CleanerChanges
    <2>3. CASE flock \in Services
      <3>1. p \in FilesOf(flock)
        BY <1>2, <2>1, <2>3, RemovedOfRelease DEF FilesInv, ReleaseChanges
      <3>2. pending[flock] \in Configs /\ changes[p] = Changes(flock, pending[flock])[p]
        BY <2>3, <3>1, RemovedOfRelease
      <3>3. \A q \in FilesOf(flock) : Changes(flock, pending[flock])[q] # Foreign
        BY <2>3, <3>2, ConfigContent
      <3>4. QED
        BY <3>1, <3>2, <3>3
    <2>4. QED
      BY <1>1, <2>2, <2>3 DEF FilesInv, Holders, HolderTypes
  <1>8. \A q \in Paths : q # Frontend /\ disk'[q] = Foreign => disk[q] = Foreign
    BY <1>1, <1>2, <1>7
  <1>9. OwnFiles'
    <2>1. \A s \in Removed : \A q \in FilesOf(s) : disk[q] # Foreign
      BY <1>1 DEF ServedInv, OwnFiles, Moving
    <2>2. \A s \in Services : \A q \in FilesOf(s) : q # Frontend /\ q \in Paths
      BY PathsApart
    <2>3. \A s \in Removed : \A q \in FilesOf(s) : disk'[q] # Foreign
      BY <1>8, <2>1, <2>2 DEF Removed
    <2>4. \A s \in Services : (\E q \in FilesOf(s) : disk'[q] = Foreign) => s \notin Removed
      BY <2>3
    <2>5. \A s \in Services : (\E q \in FilesOf(s) : disk'[q] = Foreign) =>
              \A q \in FilesOf(s) : disk'[q] \in {None, Foreign}
      BY <1>4, <2>4 DEF ServedInv, OwnFiles
    <2>6. step' \in Moving => \A q \in DOMAIN changes' \ {Frontend'} : previous'[q] # Foreign
      BY <1>1 DEF ServedInv, OwnFiles, Frontend
    <2>7. QED
      BY <1>3, <2>3, <2>5, <2>6, <1>1, SameNames DEF OwnFiles
  <1>10. Backends'
    <2> SUFFICES ASSUME kind = "haproxy" PROVE Backends'
      BY <1>1 DEF Backends
    <2>1. \A s \in Services : <<s, "up">> = p => changes[p] \in Ups \cup {None} /\ previous[p] \in Ups \cup {None}
      <3> TAKE s \in Services
      <3> HAVE <<s, "up">> = p
      <3>1. p # Frontend /\ p \in FilesOf(s)
        BY DEF Frontend, FilesOf, Parts
      <3>2. previous[p] \in Ups \cup {None}
        BY <1>1, <1>2 DEF ServedInv, Backends, Moving
      <3>3. CASE flock = "cleaner"
        BY <1>2, <3>1, <3>2, <3>3 DEF FilesInv, CleanerChanges
      <3>4. CASE flock \in Services
        <4>1. p \in FilesOf(flock)
          BY <1>2, <3>1, <3>4, RemovedOfRelease DEF FilesInv, ReleaseChanges
        <4>2. s = flock
          BY <3>1, <3>4, <4>1, PathsApart
        <4>3. changes[p] = pending[flock].up /\ pending[flock].up \in Ups
          BY <3>4, <4>1, <4>2, RemovedOfRelease, ConfigContent
        <4>4. QED
          BY <3>2, <4>3
      <3>5. QED
        BY <1>1, <3>3, <3>4 DEF FilesInv, Holders, HolderTypes
    <2>2. \A s \in Services : <<s, "up">> \in Paths /\ <<s, "up">> # Frontend
      BY PathsApart DEF FilesOf, Parts, Frontend
    <2>3. \A s \in Services : disk'[<<s, "up">>] \in Ups \cup {None, Foreign}
      BY <1>1, <1>2, <2>1, <2>2 DEF ServedInv, Backends
    <2>4. \A s \in Services : disk'[<<s, "up">>] # Foreign => disk[<<s, "up">>] # Foreign \/ s \in Removed
      BY <1>4 DEF FilesOf, Parts
    <2>5. \A s \in Removed : disk[<<s, "up">>] # Foreign
      BY <1>1 DEF ServedInv, OwnFiles, Moving, FilesOf, Parts
    <2>6. \A s \in Services : disk'[<<s, "up">>] # Foreign => live[s].up = None \/ IsUp(live[s].up)
      BY <2>4, <2>5 DEF ServedInv, Backends
    <2>7. live' = live
      BY <1>1 DEF proxy
    <2>8. QED
      BY <1>1, <1>3, <2>3, <2>6, <2>7 DEF ServedInv, Backends, IsUp
  <1>11. Loaded'
    BY <1>1 DEF ServedInv, Loaded, proxy
  <1>12. Following'
    <2>1. \A s \in Services : last[s] = "ok" => (Follows(s) <=> Follows(s)')
      BY <1>1, <1>4, <1>5, SameFollows DEF proxy, pools, FilesInv, Holders, HolderTypes
    <2>2. QED
      BY <1>1, <2>1 DEF ServedInv, Following, Settled, proxy, pools
  <1>13. QED
    BY <1>6, <1>9, <1>10, <1>11, <1>12 DEF ServedInv

LEMMA RestoredKeepsServed ==
    ASSUME ServedInv, FilesInv, Restored \/ Rewaited
    PROVE  ServedInv'
  <1> USE SameNames DEF Mine
  <1>1. /\ UNCHANGED <<kind, disk, proxy, flock, changes, previous, slots, acked>>
        /\ step \in {"restore", "rewait"} /\ step' \in {"rewait", "done"}
        /\ step' = "done" \/ last' = IF Mine THEN [last EXCEPT ![flock] = "failed"] ELSE last
        /\ last' = last \/ last' = [last EXCEPT ![flock] = "failed"]
    BY DEF Restored, Rewaited, Same, SameFiles, ghosts, SameProxy
  <1>2. /\ last' \in [Services -> {"none", "ok", "failed"}]
        /\ \A s \in Services : last'[s] = "ok" => last[s] = "ok"
    BY <1>1 DEF ServedInv, OkStands
  <1>3. OkStands'
    BY <1>1, <1>2 DEF ServedInv, OkStands, Content, Removed
  <1>4. OwnFiles'
    BY <1>1 DEF ServedInv, OwnFiles, Moving, Removed
  <1>5. Backends' /\ Loaded'
    BY <1>1 DEF ServedInv, Backends, Loaded, Moving, proxy, IsUp
  <1>6. Following'
    <2>1. \A s \in Services : Follows(s) <=> Follows(s)'
      BY <1>1, SameFollows DEF proxy, pools, FilesInv, Holders, HolderTypes
    <2>2. QED
      BY <1>1, <1>2, <2>1 DEF ServedInv, Following, Settled, proxy, pools
  <1>7. QED
    BY <1>3, <1>4, <1>5, <1>6 DEF ServedInv

-----------------------------------------------------------------------------
(* Steps of a transaction that is under way                                 *)

\* What a transaction that moves on must keep of the proxy.
LEMMA MovingKeepsServed ==
    ASSUME ServedInv, FilesInv, Moves,
           kind = "haproxy" => /\ DOMAIN live' = Services
                               /\ \A s \in Services : live'[s] = [up |-> live'[s].up, route |-> live'[s].route]
                               /\ \A s \in Services : disk[<<s, "up">>] # Foreign => live'[s].up = None \/ IsUp(live'[s].up),
           Loaded', DOMAIN addresses' = PoolIds,
           \A s \in Services : last[s] = "ok" => (Follows(s) => Follows(s)'),
           \A s \in Removed : step' = "record" => Follows(s)'
    PROVE  ServedInv'
  <1> USE SameNames DEF Moves, Moving, ghosts
  <1>1. /\ UNCHANGED <<kind, disk, flock, changes, previous, acked, last>> /\ Removed' = Removed
        /\ step \in Moving \ {"record"} /\ step' \in Moving
    BY DEF Removed
  <1>2. OkStands'
    BY <1>1 DEF ServedInv, OkStands, Content
  <1>3. OwnFiles'
    BY <1>1 DEF ServedInv, OwnFiles, Frontend
  <1>4. Backends'
    BY <1>1 DEF ServedInv, Backends, IsUp
  <1>5. Following'
    BY <1>1 DEF ServedInv, Following, Settled
  <1>6. QED
    BY <1>2, <1>3, <1>4, <1>5 DEF ServedInv

\* A step that asks for a reload, waits for it or gives up.
LEMMA AsksKeepServed ==
    ASSUME ServedInv, FilesInv, Moves, UNCHANGED <<live, pools>>,
           step' \in {"wait", "update", "undo", "restore"}, step' = "undo" => step = "update",
           \/ UNCHANGED <<loading, loaded>>
           \/ loaded' = FALSE /\ loading' \in {loading, "asked"},
           step' = "wait" => kind = "traefik" \/ ~loaded',
           step' = "update" => kind # "haproxy" \/ slots' = Slots
    PROVE  ServedInv'
  <1> USE DEF Moves
  <1>1. Loaded'
    BY DEF ServedInv, Loaded
  <1>2. \A s \in Services : Follows(s) <=> Follows(s)'
    BY SameFollows DEF pools, FilesInv, Holders, HolderTypes
  <1>3. UNCHANGED <<live, kind, disk, addresses>>
    BY DEF pools
  <1>4. QED
    BY <1>1, <1>2, <1>3, MovingKeepsServed DEF ServedInv, Backends, Following, pools, IsUp

LEMMA ReloadsKeepServed ==
    ASSUME ServedInv, FilesInv,
           \/ WriteFails \/ Rejected \/ NotReloaded
           \/ NginxReload \/ CaddyReload \/ HAProxyReload \/ TraefikReload
           \/ CaddyUpdateFails \/ HAProxyUpdateFails \/ HAProxyUndone \/ HAProxyUndoFails
    PROVE  ServedInv'
  <1> USE DEF Same, SameFiles, SameProxy, Restore, Written
  <1>1. Moves
    BY WhoMoves DEF Transaction, Check, Restored, Rewaited, Recorded, Unlock, WriteProxyFile, RestoreProxyFile,
                    RestoreFails, RecordFile, WriteFails, Rejected, NotReloaded, NginxReload, CaddyReload, HAProxyReload,
                    TraefikReload, CaddyUpdateFails, HAProxyUpdateFails, HAProxyUndone, HAProxyUndoFails
  <1>2. CASE WriteFails \/ Rejected \/ NotReloaded
    BY <1>1, <1>2, AsksKeepServed DEF WriteFails, Rejected, NotReloaded, proxy, pools
  <1>3. CASE NginxReload \/ TraefikReload
    BY <1>1, <1>3, AsksKeepServed DEF NginxReload, TraefikReload, Ask, proxy, pools
  <1>4. CASE CaddyReload \/ HAProxyReload
    BY <1>1, <1>4, AsksKeepServed DEF CaddyReload, HAProxyReload, Ask, proxy, pools
  <1>5. CASE CaddyUpdateFails \/ HAProxyUpdateFails \/ HAProxyUndone \/ HAProxyUndoFails
    BY <1>1, <1>5, AsksKeepServed DEF CaddyUpdateFails, HAProxyUpdateFails, HAProxyUndone, HAProxyUndoFails, proxy, pools
  <1>6. QED
    BY <1>2, <1>3, <1>4, <1>5

\* The files are those of the transaction: what a load has read, and what the
\* runtime is told.
LEMMA FilesOfRemoved ==
    ASSUME ServedInv, FilesInv, step \in {"wait", "update", "undo", "record"}, NEW s \in Removed
    PROVE  /\ flock = "cleaner" => s \in Services /\ \A p \in FilesOf(s) : disk[p] = None
           /\ flock \in Services => /\ s = flock /\ pending[s] \in Configs
                                    /\ \A p \in FilesOf(s) : disk[p] = Changes(s, pending[s])[p] /\ disk[p] = changes[p]
  <1>1. \A p \in DOMAIN changes : disk[p] = changes[p]
    BY DEF FilesInv, Progress
  <1>2. ASSUME flock = "cleaner" PROVE s \in Services /\ \A p \in FilesOf(s) : disk[p] = None
    <2>1. s \in Services /\ \A p \in FilesOf(s) : p # Frontend /\ disk[p] # Foreign
      BY PathsApart DEF ServedInv, OwnFiles, Moving, Removed
    <2>2. \A p \in FilesOf(s) : p \in DOMAIN changes => disk[p] = None
      BY <1>1, <1>2, <2>1 DEF FilesInv, CleanerChanges
    <2>3. \A p \in FilesOf(s) : p \notin DOMAIN changes => disk[p] = None
      BY <1>2, <2>1 DEF FilesInv, CleanerChanges
    <2>4. QED
      BY <2>1, <2>2, <2>3
  <1>3. QED
    BY <1>1, <1>2, RemovedOfRelease

\* A load has ended since it was asked for: the proxy has read all files.
LEMMA ReloadedKeepsServed ==
    ASSUME ServedInv, FilesInv, Reloaded
    PROVE  ServedInv'
  <1> USE DEF Reloaded, Same, SameFiles, SameProxy
  <1>1. Moves
    BY WhoMoves DEF Transaction, Check, Restored, Rewaited, Recorded, Unlock, WriteProxyFile, RestoreProxyFile,
                    RestoreFails, RecordFile
  <1>2. kind \in {"nginx", "caddy", "haproxy", "traefik"}
    BY DEF FilesInv, Holders, HolderTypes
  <1>3. UNCHANGED <<kind, disk, live, pool, addresses, data, loading, loaded, last>>
    BY DEF proxy, pools, ghosts
  <1>4. \A s \in Services : Follows(s) <=> Follows(s)'
    BY <1>2, <1>3, SameFollows
  <1>5. Loaded'
    BY <1>3 DEF ServedInv, Loaded
  <1>6. ASSUME step' = "record", NEW s \in Removed PROVE Follows(s)
    <2>1. s \in Services
      BY DEF Removed
    <2>2. kind \in {"nginx", "haproxy", "traefik"} => live[s] = OnDisk(s)
      BY <2>1 DEF Applied, ServedInv, Loaded
    <2>3. kind = "haproxy" => OnDisk(s).up = disk[<<s, "up">>]
      BY DEF OnDisk
    <2>4. kind = "caddy" => flock = "cleaner"
      BY <1>6 DEF Mine, FilesInv, Holders, HolderTypes
    <2>5. kind = "caddy" => disk[<<s, "up">>] = None
      BY <2>4, FilesOfRemoved DEF FilesOf, Parts
    <2>6. QED
      BY <2>2, <2>3, <2>5 DEF Follows
  <1>7. \A s \in Removed : step' = "record" => Follows(s)'
    BY <1>4, <1>6 DEF Removed
  <1>8. QED
    BY <1>1, <1>3, <1>4, <1>5, <1>7, MovingKeepsServed DEF ServedInv, Backends, Following, IsUp

LEMMA MineInit == Init => UpdatesAreMine
  BY DEF Init, UpdatesAreMine

LEMMA MineNext ==
    ASSUME UpdatesAreMine, FilesInv, Next \/ UNCHANGED vars
    PROVE  UpdatesAreMine'
  <1> USE DEF UpdatesAreMine, Mine
  <1>1. CASE UNCHANGED vars
    BY <1>1 DEF vars, tx
  <1>2. CASE ProxyStep /\ UNCHANGED <<writers, tx, manifest, ghosts, txs, faults>>
    <2>1. kind' = kind
      BY <1>2 DEF ProxyStep, Load, TraefikLoad, CaddyAdapt, ProvisionFails, CaddySwap, CaddyDone,
                  ReadUpstreams, Provision, Cleanup
    <2>2. QED
      BY <1>2, <2>1 DEF tx
  <1>3. CASE Environment
    <2>1. flock = "free" => ~shortcut
      BY ServicesAssumption
    <2>2. Reset => UpdatesAreMine'
      BY DEF Reset
    <2>3. CASE ClearReady \/ CrashCleaner \/ StartCleaning \/ RemoveStaleConfigs
      BY <2>1, <2>2, <2>3 DEF ClearReady, CrashCleaner, StartCleaning, RemoveStaleConfigs, tx
    <2>4. ASSUME NEW s \in Services, LockProxyConfigs(s) \/ CrashRelease(s) PROVE UpdatesAreMine'
      BY <2>1, <2>2, <2>4 DEF LockProxyConfigs, CrashRelease, tx
    <2>5. ASSUME NEW s \in Services, \/ ContainersUp(s) \/ ContainersDown(s) \/ TakeDeployLock(s)
                                     \/ FreeDeployLock(s) \/ GenerateConfig(s)
          PROVE  UNCHANGED <<tx, kind>>
      BY <2>5 DEF ContainersUp, ContainersDown, TakeDeployLock, FreeDeployLock, GenerateConfig
    <2>6. QED
      BY <1>3, <2>3, <2>4, <2>5 DEF Environment, tx
  <1>4. CASE Transaction
    <2> USE DEF SameFiles, Same, Restore, Written
    <2>1. CASE Check \/ WriteFails \/ Rejected \/ Reloaded \/ NotReloaded
      <3>1. Check => flock' = flock /\ step' \in {"done", "write"} /\ (shortcut' => shortcut \/ Mine)
        BY DEF Check, RuntimeOnly
      <3>2. WriteFails \/ Rejected \/ NotReloaded => UNCHANGED <<flock, shortcut>> /\ step' = "restore"
        BY DEF WriteFails, Rejected, NotReloaded
      <3>3. Reloaded => UNCHANGED <<flock, shortcut>> /\ (step' = "record" \/ (step' = "update" /\ Mine))
        BY DEF Reloaded
      <3>4. QED
        BY <2>1, <3>1, <3>2, <3>3
    <2>2. CASE NginxReload \/ CaddyReload \/ HAProxyReload \/ TraefikReload
      <3>1. /\ UNCHANGED <<kind, flock, shortcut>>
            /\ step' = "wait" \/ (step' = "update" /\ shortcut)
        BY <2>2 DEF NginxReload, CaddyReload, HAProxyReload, TraefikReload
      <3>2. QED
        BY <3>1
    <2>3. CASE CaddyUpdate \/ CaddyUpdateFails \/ HAProxyServer \/ HAProxyUpdated \/ HAProxyUpdateFails
                   \/ HAProxyUndo \/ HAProxyUndone \/ HAProxyUndoFails
      BY <2>3 DEF CaddyUpdate, CaddyUpdateFails, HAProxyServer, HAProxyUpdated, HAProxyUpdateFails,
                  HAProxyUndo, HAProxyUndone, HAProxyUndoFails, SetServer
    <2>4. CASE Restored \/ Rewaited \/ Recorded \/ Unlock
      BY <2>4 DEF Restored, Rewaited, Recorded, Unlock, Reset
    <2>5. ASSUME NEW p \in left, WriteProxyFile(p) \/ RestoreProxyFile(p) \/ RestoreFails(p) \/ RecordFile(p)
          PROVE  UpdatesAreMine'
      BY <2>5 DEF WriteProxyFile, RestoreProxyFile, RestoreFails, RecordFile
    <2>6. QED
      BY <1>4, <2>1, <2>2, <2>3, <2>4, <2>5 DEF Transaction
  <1>5. QED
    BY <1>1, <1>2, <1>3, <1>4 DEF Next

\* The pool of the file gets the addresses of the file.
LEMMA CaddyKeepsServed ==
    ASSUME ServedInv, FilesInv, PoolInv, UpdatesAreMine, CaddyUpdate
    PROVE  ServedInv'
  <1> USE DEF CaddyUpdate, UpdatePool, Same, SameFiles, Restore
  <1>1. Moves
    BY WhoMoves DEF Transaction, Check, Restored, Rewaited, Recorded, Unlock, WriteProxyFile, RestoreProxyFile,
                    RestoreFails, RecordFile
  <1>2. /\ flock \in Services /\ kind = "caddy"
        /\ UNCHANGED <<kind, disk, live, pool, data, loading, loaded, last>>
        /\ step' \in {"record", "restore"}
    BY DEF UpdatesAreMine, Mine, ghosts
  <1>3. Removed = {flock}
    BY <1>2, RemovedOfRelease
  <1>4. \A s \in Services : pool[s] \in PoolIds \cup {None}
    BY DEF PoolInv, PoolTypes
  <1>5. addresses' = [addresses EXCEPT ![pool[flock]] = changes[<<flock, "up">>]] /\ DOMAIN addresses = PoolIds
    BY DEF ServedInv, Following
  <1>6. Loaded'
    BY <1>2 DEF ServedInv, Loaded
  <1>7. ASSUME NEW s \in Services, last[s] = "ok", Follows(s) PROVE Follows(s)'
    <2>1. s # flock
      BY <1>3, <1>7 DEF ServedInv, OkStands
    <2>2. pool[s] # None => pool[s] # pool[flock]
      BY <1>2, <2>1 DEF PoolInv, PoolsOfSources
    <2>3. pool[s] # None => addresses'[pool[s]] = addresses[pool[s]]
      BY <1>4, <1>5, <2>2
    <2>4. QED
      BY <1>2, <1>7, <2>3 DEF Follows
  <1>8. Follows(flock)'
    <2>1. disk[<<flock, "up">>] = changes[<<flock, "up">>]
      BY <1>2, <1>3, FilesOfRemoved DEF FilesOf, Parts
    <2>2. pool[flock] \in PoolIds
      BY <1>2, <1>4
    <2>3. QED
      BY <1>2, <1>5, <2>1, <2>2 DEF Follows
  <1>9. QED
    BY <1>1, <1>2, <1>3, <1>5, <1>6, <1>7, <1>8, MovingKeepsServed

\* Servers are set one by one; when all are, the backend is the file's.
LEMMA HAProxyKeepsServed ==
    ASSUME ServedInv, FilesInv, UpdatesAreMine, HAProxyServer \/ HAProxyUndo
    PROVE  ServedInv'
  <1> USE DEF Same, SameFiles
  <1>1. Moves
    BY WhoMoves DEF Transaction, Check, Restored, Rewaited, Recorded, Unlock, WriteProxyFile, RestoreProxyFile,
                    RestoreFails, RecordFile, HAProxyServer, HAProxyUndo, SetServer
  <1>2. PICK content :
          /\ step = "update" => content = changes[<<flock, "up">>]
          /\ step \in {"update", "undo"} /\ SetServer(content)
    BY DEF HAProxyServer, HAProxyUndo
  <1>3. kind = "haproxy" /\ flock \in Services
    BY DEF HAProxyServer, HAProxyUndo, UpdatesAreMine, Mine
  <1>4. UNCHANGED <<kind, disk, pool, addresses, data, loading, loaded, last, step, flock>>
    BY <1>2 DEF SetServer, ghosts, pools
  <1> DEFINE i == Min(slots)
             u == [live[flock].up EXCEPT ![i] = content[i]]
  <1>5. /\ slots' = slots \ {i} /\ live[flock].up # None
        /\ live' = [live EXCEPT ![flock] = [live[flock] EXCEPT !.up = u]]
    BY <1>2 DEF SetServer
  <1>6. Removed = {flock} /\ disk[<<flock, "up">>] # Foreign /\ disk[<<flock, "up">>] = changes[<<flock, "up">>]
    BY <1>2, <1>3, RemovedOfRelease, FilesOfRemoved DEF ServedInv, OwnFiles, Moving, FilesOf, Parts
  <1> HIDE DEF i
  <1>7. /\ IsUp(live[flock].up) /\ DOMAIN live = Services
        /\ \A s \in Services : live[s] = [up |-> live[s].up, route |-> live[s].route]
    BY <1>3, <1>5, <1>6 DEF ServedInv, Backends
  <1>8. IsUp(u) /\ \A j \in Slots : u[j] = IF j = i THEN content[i] ELSE live[flock].up[j]
    BY <1>7 DEF IsUp
  <1> HIDE DEF u
  <1>9. live'[flock] = [up |-> u, route |-> live[flock].route]
    BY <1>3, <1>5, <1>7
  <1>10. \A s \in Services : s # flock => live'[s] = live[s]
    BY <1>5, <1>7
  <1>11. DOMAIN live' = Services
    BY <1>5, <1>7
  <1>12. /\ \A s \in Services : live'[s] = [up |-> live'[s].up, route |-> live'[s].route]
         /\ \A s \in Services : disk[<<s, "up">>] # Foreign => live'[s].up = None \/ IsUp(live'[s].up)
    BY <1>3, <1>7, <1>8, <1>9, <1>10 DEF ServedInv, Backends
  <1>13. \A s \in Services : last[s] = "ok" => (Follows(s) => Follows(s)')
    <2> SUFFICES ASSUME NEW s \in Services, last[s] = "ok", Follows(s) PROVE Follows(s)'
      OBVIOUS
    <2>1. s # flock
      BY <1>2, <1>6 DEF ServedInv, OkStands
    <2>2. QED
      BY <1>3, <1>4, <1>10, <2>1 DEF Follows
  <1>14. Loaded'
    <2>1. ASSUME step = "update", NEW j \in Slots \ slots' PROVE live'[flock].up[j] = disk[<<flock, "up">>][j]
      <3>1. j = i => u[j] = changes[<<flock, "up">>][j]
        BY <1>2, <1>8, <2>1
      <3>2. j # i => j \in Slots \ slots
        BY <1>5, <2>1
      <3>3. j # i => live[flock].up[j] = disk[<<flock, "up">>][j]
        BY <1>3, <2>1, <3>2 DEF ServedInv, Loaded
      <3>4. QED
        BY <1>6, <1>8, <1>9, <2>1, <3>1, <3>3
    <2>2. IsUp(live'[flock].up)
      BY <1>8, <1>9
    <2>3. QED
      BY <1>2, <1>3, <1>4, <2>1, <2>2 DEF ServedInv, Loaded, IsUp
  <1>15. QED
    BY <1>1, <1>2, <1>4, <1>11, <1>12, <1>13, <1>14, MovingKeepsServed DEF ServedInv, Following

LEMMA HAProxyUpdatedKeepsServed ==
    ASSUME ServedInv, FilesInv, UpdatesAreMine, HAProxyUpdated
    PROVE  ServedInv'
  <1> USE DEF HAProxyUpdated, Same, SameFiles, SameProxy
  <1>1. Moves
    BY WhoMoves DEF Transaction, Check, Restored, Rewaited, Recorded, Unlock, WriteProxyFile, RestoreProxyFile,
                    RestoreFails, RecordFile
  <1>2. UNCHANGED <<kind, disk, live, pool, addresses, data, loading, loaded, last>>
    BY DEF proxy, pools, ghosts
  <1>3. flock \in Services
    BY DEF UpdatesAreMine, Mine
  <1>4. Removed = {flock}
    BY <1>3, RemovedOfRelease
  <1>5. pending[flock] \in Configs /\ disk[<<flock, "up">>] = Changes(flock, pending[flock])[<<flock, "up">>]
    BY <1>3, <1>4, FilesOfRemoved DEF FilesOf, Parts
  <1>6. IsUp(disk[<<flock, "up">>])
    <2>1. disk[<<flock, "up">>] \in Ups
      BY <1>3, <1>5, ConfigContent
    <2>2. QED
      BY <2>1, UpsAssumption DEF IsUp
  <1>7. live[flock].up = disk[<<flock, "up">>]
    <2>1. IsUp(live[flock].up) /\ \A i \in Slots : live[flock].up[i] = disk[<<flock, "up">>][i]
      BY UpsAssumption DEF ServedInv, Loaded
    <2>2. QED
      BY <1>6, <2>1 DEF IsUp
  <1>8. \A s \in Services : Follows(s) <=> Follows(s)'
    BY <1>2, SameFollows DEF FilesInv, Holders, HolderTypes
  <1>9. Follows(flock)
    BY <1>7 DEF Follows
  <1>10. Loaded'
    BY <1>2 DEF ServedInv, Loaded
  <1>11. QED
    BY <1>1, <1>2, <1>3, <1>4, <1>8, <1>9, <1>10, MovingKeepsServed DEF ServedInv, Backends, Following, IsUp

\* What is recorded as applied is what the files say.
LEMMA RecordedKeepsServed ==
    ASSUME ServedInv, FilesInv, Recorded
    PROVE  ServedInv'
  <1> USE SameNames DEF Recorded
  <1>1. /\ UNCHANGED <<kind, disk, proxy, flock, changes, previous, slots>> /\ step = "record" /\ step' = "done"
        /\ Removed' = Removed
    BY DEF Removed
  <1>2. flock \in Services \cup {"cleaner"} /\ acked \in [Services -> Configs \cup {None}]
    BY DEF FilesInv, Holders, HolderTypes
  <1>3. last \in [Services -> {"none", "ok", "failed"}]
    BY DEF ServedInv, OkStands
  <1>4. flock \in Services => Removed = {flock} /\ pending[flock] \in Configs
    BY RemovedOfRelease
  <1>5. /\ last' = [s \in Services |-> IF s \in Removed THEN "ok" ELSE last[s]]
        /\ acked' = [s \in Services |-> IF s \in Removed THEN (IF Mine THEN pending[flock] ELSE None) ELSE acked[s]]
    <2>1. CASE Mine
      BY <1>2, <1>3, <1>4, <2>1 DEF Mine
    <2>2. CASE ~Mine
      BY <1>2, <1>3, <2>2 DEF Mine
    <2>3. QED
      BY <2>1, <2>2
  <1>6. OkStands'
    <2>1. last' \in [Services -> {"none", "ok", "failed"}]
      BY <1>3, <1>5
    <2>2. ASSUME NEW s \in Services, last'[s] = "ok", NEW p \in FilesOf(s) PROVE disk[p] = Content(s, p)'
      <3>1. CASE s \notin Removed
        BY <1>1, <1>5, <2>2, <3>1 DEF ServedInv, OkStands, Content
      <3>2. CASE s \in Removed /\ flock \in Services
        <4>1. s = flock /\ disk[p] = Changes(s, pending[s])[p]
          BY <1>1, <2>2, <3>2, FilesOfRemoved
        <4>2. acked'[s] = pending[s] /\ pending[s] # None
          BY <1>4, <1>5, <3>2, <4>1, NoneAssumption DEF Mine
        <4>3. QED
          BY <4>1, <4>2, <1>1 DEF Content
      <3>3. CASE s \in Removed /\ flock = "cleaner"
        <4>1. disk[p] = None
          BY <1>1, <2>2, <3>3, FilesOfRemoved
        <4>2. acked'[s] = None
          BY <1>5, <3>3, ServicesAssumption DEF Mine
        <4>3. QED
          BY <4>1, <4>2 DEF Content
      <3>4. QED
        BY <1>2, <3>1, <3>2, <3>3
    <2>3. QED
      BY <1>1, <2>1, <2>2 DEF OkStands
  <1>7. OwnFiles'
    BY <1>1 DEF ServedInv, OwnFiles, Moving
  <1>8. Backends' /\ Loaded'
    BY <1>1 DEF ServedInv, Backends, Loaded, Moving, proxy, IsUp
  <1>9. Following'
    <2>1. \A s \in Services : Follows(s) <=> Follows(s)'
      BY <1>1, SameFollows DEF proxy, pools, FilesInv, Holders, HolderTypes
    <2>2. \A s \in Services : Settled(s)' => Settled(s)
      BY <1>1, <1>5 DEF Settled
    <2>3. QED
      BY <1>1, <2>1, <2>2 DEF ServedInv, Following, proxy, pools
  <1>10. QED
    BY <1>6, <1>7, <1>8, <1>9 DEF ServedInv

-----------------------------------------------------------------------------
(* Steps of the proxy                                                       *)

\* nginx, HAProxy and Traefik read all files at once.
LEMMA LoadKeepsServed ==
    ASSUME ServedInv, FilesInv, UpdatesAreMine, Load \/ TraefikLoad,
           UNCHANGED <<flock, step, changes, previous, slots, acked, last>>
    PROVE  ServedInv'
  <1> USE SameNames DEF Load, TraefikLoad
  <1>1. /\ UNCHANGED <<kind, disk, pools>> /\ live' = [s \in Services |-> OnDisk(s)]
        /\ kind \in {"nginx", "haproxy", "traefik"} /\ loading' \in {"no", loading}
    OBVIOUS
  <1>2. Removed' = Removed /\ \A s : OnDisk(s)' = OnDisk(s)
    BY <1>1 DEF Removed, OnDisk, Frontend
  <1>3. OkStands' /\ OwnFiles'
    BY <1>1, <1>2 DEF ServedInv, OkStands, OwnFiles, Content, Frontend
  <1>4. \A s \in Services : live'[s] = OnDisk(s)'
    BY <1>1, <1>2
  <1>5. kind = "haproxy" => \A s \in Services : /\ live'[s] = [up |-> live'[s].up, route |-> live'[s].route]
                                                /\ live'[s].up = disk[<<s, "up">>]
    BY <1>1 DEF OnDisk
  <1>6. \A u \in Ups : IsUp(u)
    BY UpsAssumption DEF IsUp
  <1>7. Backends'
    BY <1>1, <1>2, <1>5, <1>6 DEF ServedInv, Backends, IsUp
  <1>8. Following'
    BY <1>1, <1>4, <1>5 DEF ServedInv, Following, Follows, pools
  <1>9. Loaded'
    <2>1. ASSUME kind = "haproxy", step = "update"
          PROVE  IsUp(disk[<<flock, "up">>])
      <3>1. flock \in Services
        BY <2>1 DEF UpdatesAreMine, Mine
      <3>2. Removed = {flock} /\ pending[flock] \in Configs
        BY <3>1, RemovedOfRelease
      <3>3. disk[<<flock, "up">>] = Changes(flock, pending[flock])[<<flock, "up">>]
        BY <2>1, <3>1, <3>2, FilesOfRemoved DEF FilesOf, Parts
      <3>4. disk[<<flock, "up">>] \in Ups
        BY <2>1, <3>1, <3>2, <3>3, ConfigContent
      <3>5. QED
        BY <1>6, <3>4
    <2>2. QED
      BY <1>1, <1>4, <1>5, <2>1 DEF ServedInv, Loaded, UpdatesAreMine, Mine, IsUp
  <1>10. QED
    BY <1>3, <1>7, <1>8, <1>9 DEF ServedInv

\* Caddy reads an upstream file before it has the pools.
LEMMA CaddyReadKeepsServed ==
    ASSUME ServedInv, FilesInv, PoolInv, NEW s \in Services, ReadUpstreams(s),
           UNCHANGED <<flock, step, changes, previous, slots, acked, last>>
    PROVE  ServedInv'
  <1> USE DEF ReadUpstreams
  <1>1. data' = [data EXCEPT ![s] = disk[<<s, "up">>]] /\ DOMAIN data = Services
    BY DEF PoolInv, PoolTypes
  <1>2. \A t \in Services : Follows(t) => Follows(t)'
    <2> SUFFICES ASSUME NEW t \in Services, Follows(t) PROVE Follows(t)'
      OBVIOUS
    <2>1. t # s => data'[t] = data[t]
      BY <1>1
    <2>2. data'[s] = disk[<<s, "up">>]
      BY <1>1
    <2>3. OnDisk(t)' = OnDisk(t)
      BY DEF OnDisk, Frontend
    <2>4. QED
      BY <2>1, <2>2, <2>3 DEF Follows
  <1>3. QED
    BY <1>2, SameServed DEF served, ServedInv, Following

\* A new pool starts with what the Source has read, an old one keeps what it has.
LEMMA ProvisionKeepsServed ==
    ASSUME ServedInv, FilesInv, PoolInv, NEW s \in Services, Provision(s),
           UNCHANGED <<flock, step, changes, previous, slots, acked, last>>
    PROVE  ServedInv'
  <1>1. /\ UNCHANGED <<kind, disk, live, loading, loaded>> /\ data' = [data EXCEPT ![s] = None] /\ data[s] # None
        /\ DOMAIN data = Services /\ DOMAIN addresses = PoolIds
    BY DEF Provision, PoolInv, PoolTypes, ServedInv, Following
  <1>2. PICK p : /\ p = IF pool[s] # None THEN pool[s] ELSE UnusedPool
                 /\ pool' = [pool EXCEPT ![s] = p]
                 /\ addresses' = IF pool[s] # None THEN addresses ELSE [addresses EXCEPT ![p] = data[s]]
    BY DEF Provision
  <1>3. p \in PoolIds /\ p # None /\ pool \in [Services -> PoolIds \cup {None}]
    BY <1>2, APoolIsUnused, NoneAssumption DEF PoolInv, PoolTypes
  <1>4. pool[s] = None => \A t \in Services : pool[t] # p
    BY <1>2, APoolIsUnused, UnusedIsFree
  <1>5. \A t \in Services : Follows(t) => Follows(t)'
    <2> SUFFICES ASSUME NEW t \in Services, Follows(t) PROVE Follows(t)'
      OBVIOUS
    <2>1. OnDisk(t)' = OnDisk(t)
      BY <1>1 DEF OnDisk, Frontend
    <2>2. CASE t # s
      <3>1. pool'[t] = pool[t] /\ data'[t] = data[t]
        BY <1>1, <1>2, <1>3, <2>2
      <3>2. pool[t] # None => addresses'[pool[t]] = addresses[pool[t]]
        BY <1>1, <1>2, <1>3, <1>4
      <3>3. QED
        BY <1>1, <2>1, <3>1, <3>2 DEF Follows
    <2>3. CASE t = s
      <3>1. pool'[s] = p /\ data'[s] = None
        BY <1>1, <1>2, <1>3
      <3>2. addresses'[p] = IF pool[s] # None THEN addresses[pool[s]] ELSE data[s]
        BY <1>1, <1>2, <1>3
      <3>3. QED
        BY <1>1, <1>3, <2>1, <2>3, <3>1, <3>2 DEF Follows
    <2>4. QED
      BY <2>2, <2>3
  <1>6. DOMAIN addresses' = PoolIds
    BY <1>1, <1>2
  <1>7. QED
    BY <1>1, <1>5, <1>6, SameServed DEF served

\* A pool that goes takes no other file's addresses along.
LEMMA CleanupKeepsServed ==
    ASSUME ServedInv, FilesInv, PoolInv, NEW s \in Services, Cleanup(s),
           UNCHANGED <<flock, step, changes, previous, slots, acked, last>>
    PROVE  ServedInv'
  <1>1. /\ UNCHANGED <<kind, disk, live, loading, loaded, data>> /\ data[s] = None
        /\ DOMAIN addresses = PoolIds /\ pool \in [Services -> PoolIds \cup {None}]
    BY DEF Cleanup, PoolInv, PoolTypes, Phases, ServedInv, Following
  <1>2. next[s] # None /\ pool[s] = next[s] /\ next[s] \in PoolIds
    BY DEF Cleanup, PoolInv, PoolTypes, Phases, PoolsOfSources
  <1>3. \/ pool' = pool /\ addresses' = addresses
        \/ /\ pool' = [pool EXCEPT ![s] = None]
           /\ addresses' = [addresses EXCEPT ![pool[s]] = None]
    BY <1>2 DEF Cleanup
  <1>4. \A t \in Services : Follows(t) => Follows(t)'
    <2> SUFFICES ASSUME NEW t \in Services, Follows(t) PROVE Follows(t)'
      OBVIOUS
    <2>1. OnDisk(t)' = OnDisk(t)
      BY <1>1 DEF OnDisk, Frontend
    <2>2. CASE pool' = pool /\ addresses' = addresses
      BY <1>1, <2>1, <2>2 DEF Follows
    <2>3. CASE pool' = [pool EXCEPT ![s] = None] /\ addresses' = [addresses EXCEPT ![pool[s]] = None]
      <3>1. t = s => pool'[t] = None
        BY <1>1, <2>3
      <3>2. t # s => /\ pool'[t] = pool[t]
                     /\ pool[t] # None => addresses'[pool[t]] = addresses[pool[t]]
        BY <1>1, <1>2, <2>3 DEF PoolInv, PoolsOfSources
      <3>3. QED
        BY <1>1, <2>1, <3>1, <3>2 DEF Follows
    <2>4. QED
      BY <1>3, <2>2, <2>3
  <1>5. DOMAIN addresses' = PoolIds
    BY <1>1, <1>3
  <1>6. QED
    BY <1>1, <1>4, <1>5, SameServed DEF served

\* The rest of a load of Caddy touches neither pools nor files.
LEMMA CaddyLoadKeepsServed ==
    ASSUME ServedInv, FilesInv, PoolInv, CaddyAdapt \/ ProvisionFails \/ CaddySwap \/ CaddyDone,
           UNCHANGED <<flock, step, changes, previous, slots, acked, last>>
    PROVE  ServedInv'
  <1> USE SameNames
  <1>1. /\ UNCHANGED <<kind, disk, pool, addresses, data>> /\ kind = "caddy"
    BY DEF CaddyAdapt, ProvisionFails, CaddySwap, CaddyDone, ServedInv, Loaded
  <1>2. OkStands' /\ OwnFiles'
    BY <1>1 DEF ServedInv, OkStands, OwnFiles, Content, Removed, Frontend
  <1>3. Backends' /\ Loaded'
    BY <1>1 DEF Backends, Loaded
  <1>4. Following'
    BY <1>1 DEF ServedInv, Following, Settled, Follows, Removed
  <1>5. QED
    BY <1>2, <1>3, <1>4 DEF ServedInv

LEMMA ServedNext ==
    ASSUME ServedInv, FilesInv, PoolInv, UpdatesAreMine, Next \/ UNCHANGED vars
    PROVE  ServedInv'
  <1>1. CASE UNCHANGED vars
    BY <1>1, AsideKeepsServed
  <1>2. CASE ProxyStep /\ UNCHANGED <<writers, tx, manifest, ghosts, txs, faults>>
    <2>1. UNCHANGED <<flock, step, changes, previous, slots, acked, last>>
      BY <1>2 DEF tx, ghosts
    <2>2. QED
      BY <1>2, <2>1, LoadKeepsServed, CaddyReadKeepsServed, ProvisionKeepsServed, CleanupKeepsServed,
         CaddyLoadKeepsServed DEF ProxyStep
  <1>3. CASE Environment
    BY <1>3, AsideKeepsServed, LockKeepsServed, CleanerKeepsServed, EndKeepsServed DEF Environment, Outside
  <1>4. CASE Transaction
    <2>1. CASE \E p \in left : WriteProxyFile(p) \/ RestoreProxyFile(p) \/ RestoreFails(p) \/ RecordFile(p)
      BY <2>1, WritesKeepServed, AsideKeepsServed
    <2>2. CASE Check \/ Restored \/ Rewaited \/ Recorded \/ Unlock
      BY <2>2, CheckKeepsServed, RestoredKeepsServed, RecordedKeepsServed, EndKeepsServed
    <2>3. CASE \/ WriteFails \/ Rejected \/ NotReloaded
               \/ NginxReload \/ CaddyReload \/ HAProxyReload \/ TraefikReload
               \/ CaddyUpdateFails \/ HAProxyUpdateFails \/ HAProxyUndone \/ HAProxyUndoFails
      BY <2>3, ReloadsKeepServed
    <2>4. CASE Reloaded \/ CaddyUpdate \/ HAProxyServer \/ HAProxyUndo \/ HAProxyUpdated
      BY <2>4, ReloadedKeepsServed, CaddyKeepsServed, HAProxyKeepsServed, HAProxyUpdatedKeepsServed
    <2>5. QED
      BY <1>4, <2>1, <2>2, <2>3, <2>4 DEF Transaction
  <1>5. QED
    BY <1>1, <1>2, <1>3, <1>4 DEF Next

\* From the files and the pools to what a request meets.
LEMMA ServedImplies ==
    ASSUME ServedInv, FilesInv, PoolInv
    PROVE  AppliedIsServed
  <1> SUFFICES ASSUME NEW s \in Services, last[s] = "ok"
               PROVE  IF kind \in {"nginx", "traefik"} THEN Served(s) = TheirConfig(acked[s])
                      ELSE acked[s] # None /\ (kind = "caddy" => source[s] # None) => Served(s).up = acked[s].up
    BY DEF AppliedIsServed
  <1>1. Follows(s) /\ \A p \in FilesOf(s) : disk[p] = Content(s, p)
    BY DEF ServedInv, Following, Settled, OkStands
  <1>2. kind \in {"nginx", "caddy", "haproxy", "traefik"} /\ acked[s] \in Configs \cup {None}
    BY DEF FilesInv, Holders, HolderTypes
  <1>3. acked[s] # None => \A p \in FilesOf(s) : disk[p] = Changes(s, acked[s])[p]
    BY <1>1 DEF Content
  <1>4. acked[s] # None => acked[s] \in Configs
    BY <1>2
  <1>5. CASE kind = "nginx"
    <2>1. Served(s) = [up |-> disk[<<s, "up">>], route |-> disk[<<s, "route">>]]
      BY <1>1, <1>5 DEF Served, Follows, OnDisk
    <2>2. <<s, "up">> \in FilesOf(s) /\ <<s, "route">> \in FilesOf(s)
      BY <1>5 DEF FilesOf, Parts
    <2>3. acked[s] = None => Served(s) = TheirConfig(acked[s])
      BY <1>1, <2>1, <2>2 DEF Content, TheirConfig
    <2>4. acked[s] # None => Served(s) = [up |-> acked[s].up, route |-> acked[s].route]
      BY <1>3, <1>4, <1>5, <2>1, <2>2, ConfigContent
    <2>5. QED
      BY <1>4, <1>5, <2>3, <2>4, ConfigContent DEF TheirConfig
  <1>6. CASE kind = "traefik"
    <2>1. <<s, "yml">> \in FilesOf(s)
      BY <1>6 DEF FilesOf, Parts
    <2>2. acked[s] # None => disk[<<s, "yml">>] = acked[s]
      BY <1>3, <1>4, <1>6, <2>1, ConfigContent
    <2>3. acked[s] = None => disk[<<s, "yml">>] = None
      BY <1>1, <2>1 DEF Content
    <2>4. QED
      BY <1>1, <1>6, <2>2, <2>3 DEF Served, Follows, OnDisk, TheirConfig
  <1>7. CASE kind \in {"haproxy", "caddy"}
    <2> SUFFICES ASSUME acked[s] # None, kind = "caddy" => source[s] # None
                 PROVE  Served(s).up = acked[s].up
      BY <1>7
    <2>1. <<s, "up">> \in FilesOf(s)
      BY <1>7 DEF FilesOf, Parts
    <2>2. disk[<<s, "up">>] = acked[s].up /\ acked[s].up \in Ups
      BY <1>3, <1>4, <1>7, <2>1, ConfigContent
    <2>3. disk[<<s, "up">>] # None
      BY <2>2, NoneAssumption
    <2>4. kind = "caddy" => pool[s] = source[s]
      BY DEF PoolInv, PoolsOfSources
    <2>5. QED
      BY <1>1, <1>7, <2>2, <2>3, <2>4 DEF Served, Follows
  <1>8. QED
    BY <1>2, <1>5, <1>6, <1>7

\* Once a transaction has reported success the proxy serves the service's config
\* until the next one begins: no reload, failed load or cleanup of a pool, update
\* of another service, restore or crash between brings an older one back.
THEOREM AppliedStaysServed == Spec => []AppliedIsServed
  <1>1. PoolInv /\ [Next]_vars => PoolInv'
    BY ProxyStepKeepsPools, WritersKeepPools DEF Next
  <1>2. UpdatesAreMine /\ FilesInv /\ [Next]_vars => UpdatesAreMine'
    BY MineNext
  <1>3. ServedInv /\ FilesInv /\ PoolInv /\ UpdatesAreMine /\ [Next]_vars => ServedInv'
    BY ServedNext
  <1>4. ServedInv /\ FilesInv /\ PoolInv => AppliedIsServed
    BY ServedImplies
  <1>5. QED
    BY <1>1, <1>2, <1>3, <1>4, PoolInit, MineInit, ServedInit, FilesAlways, PTL DEF Spec
=============================================================================
