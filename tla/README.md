# docker-release in TLA+

docker-release moves the traffic of one Docker Compose service from its old
containers to its new ones: it waits for the new ones to be healthy, rewrites
the config of a proxy, drains and removes the old ones, and keeps a state file
so that an interrupted release can be undone. In a bundled image the same
process also runs the proxy and reads its access log. This directory holds TLA+
specifications of that, TLC configurations that check them on small instances,
and proofs that TLAPS checks for every instance. Paths are relative to the
repository.

## 1. Inventory

| Component | State it keeps | Operations | What is hard | What makes it correct |
|---|---|---|---|---|
| Strategies (`internal/strategy`) | the position in `Execute`; its writes to proxy, Docker and state file | `Execute`, `Rollback` of linear, canary, blue-green; `removeContainers`, `waitAllHealthy`, `promoteAndDrain`, `rollbackWithFailure` | every call may fail or be cancelled; order of traffic, drain, removal, save | some healthy container always serves; what is removed carries no traffic; the file tells the truth |
| Deployment (`controller/deploy.go`) | map of active deployments, deploy context, health monitor | `deploy`, `waitForContainers`, `discardNew`, `abortDeployment` | abort after any failure, itself failing; context cancelled at any time | an abort ends on existing containers; every deployment returns and releases the lock |
| Recovery (`controller/recovery.go`, `internal/rollback`) | the state files of all services | `recoverInterruptedDeployments`, `Rollback`, `Coordinator.Execute` | a crash between any two steps, also of the recovery | the service is served, idle, and nothing is left behind |
| Proxy sync (`controller/configsync.go`, `proxysync.go`) | the proxy configs | initial configs, refresh after events, removal of stale configs | runs beside releases; reads state, Docker and health at different times | never overwrites a release's config with an older view |
| Controller (`controller.go`, `release.go`, `events.go`, `revision.go`) | active deployments, managers | `Watch`, `Release`, `EnqueueRelease`, `handleStart`, `handleDie`, `handleHealthStatus`, `Rollback`, `CancelDeployment` | CLI and daemon on one service; reads before the lock; restarts taken for revisions | one deployment per service at a time; a queued release runs once |
| State (`internal/state`) | state file, lock file, command files | `Load`, `Save`, `ListAll`, `AcquireDeployLock`, enqueue / claim / complete | separate processes, crashes between rename and remove | atomic replacement; a crash never leaves a lock |
| Health monitor (`internal/monitor`) | restart counts | `Run`, `check` | races with the end of the release | cancels only its own deployment |
| Providers (`internal/provider`) | config files, file locks, proxies' runtime state | `GenerateConfig`, `Reload`, file transaction, HAProxy runtime API | reload fails before or after it took effect; partial updates | files, proxy and health manifest agree |
| Access log (`internal/accesslog`) | subscribers, bounded queue | `Publish`, `Serve`, `Client.Subscribe` | slow reader, lost stream | a reader that lost an entry learns of it |
| HTTP server (`internal/server`) | cache of states | list, enqueue, cancel | look-up and cancel are two steps | cancels the deployment it was asked to |
| Health manifest (`internal/health`) | ready flag, files the health check expects | record, forget, check | written by several goroutines | healthy iff the files are there |
| Bundled proxy (`cmd/docker-release`) | child process, started flag | start, wait, stop | either process may end first | configs before proxy, controller stopped before proxy |
| Caddy plugin (`packaging/caddy/runtime`) | pools of addresses with user counts | provision, clean up, update | two config generations at once | a pool in use is never dropped |
| Labels, Compose, templates | none | parsing, text | data only | ranges that the strategies assume |

How they interact: `dr release` (a process of its own, or the daemon serving a
queued command or a Docker event) takes the deploy lock of the service and runs
`deploy`. `deploy` starts the health monitor and calls the strategy's
`Execute`; that calls Docker (`WaitHealthy`, `Stop`, `Remove`), the provider
(`GenerateConfig`, `Reload`) and the state manager (`Save`). Cancellation comes
through one context: from the monitor, the cancel API or a daemon that stops.
After an error `deploy` calls `abortDeployment` with a context of its own. A
daemon that starts writes initial configs from the state files and then recovers
interrupted deployments through `Rollback`.

`PROJECT.json` lists every component with what is modelled of it, and the
hazards of the code at their lines with the properties that cover them.

## 2. Modules

| Module | Models | Remarks |
|---|---|---|
| `Rollout` | what a strategy promises | abstract specification: `routed`, `ready`, `gone` |
| `Release` | `controller/deploy.go`, `strategy/shared.go` and the calls they make | the world (Docker, proxy, state file), prologue, shared phases, abort, environment |
| `Linear` | `strategy/linear.go` | EXTENDS `Release` |
| `Canary` | `strategy/canary.go` | EXTENDS `Release` |
| `BlueGreen` | `strategy/bluegreen.go`, `strategy/check.go` | EXTENDS `Release` |
| `Recovery` | `controller/recovery.go`, `rollback/rollback.go`, the initial configs of `configsync.go` | a crash anywhere, then a restart |
| `CrashRecovery` | a release of any strategy and `Recovery` | EXTENDS `Recovery` and the three strategies, so that a deployment is a step of one of them |
| `Deployments` | `controller.go`, `release.go`, `events.go`, `revision.go`, `configsync.go`, `state/lock.go`, `state/commands.go`, and `deploy` and `recovery` in outline | who deploys when: processes, lock, queue, refreshes |
| `AccessLog` | `accesslog/hub.go`, `accesslog/socket.go` | from the proxy's output to a release that counts errors |
| `ProxyState` | the proxy as the code drives it, `packaging/caddy/runtime/upstreams.go` | files, running config, reloads in the background, Caddy's pools |
| `ProxyFiles` | `provider/config_files.go` and the providers that use it, `health/health.go`, `controller/proxysync.go` | EXTENDS `ProxyState` |
| `Daemon` | `cmd/docker-release/bundled.go`, `Controller.Watch`, refreshes of `configsync.go`, the cancel of `server/api.go` | one process from its start to its exit |
| `ReleaseProofs`, `LinearProofs`, `WeightedProofs` (canary and blue-green), `CrashRecoveryProofs`, `DeploymentsProofs`, `AccessLogProofs`, `ProxyFilesProofs`, `DaemonProofs` | theorems and lemmas | EXTEND TLAPS |
| `MC*` | which processes, commands and failures an instance allows | one for each `.cfg` family |

`Rollout` to `CrashRecovery` follow one deployment in every detail.
`Deployments` is the level above: many deployments, each in few steps, of
several processes. The last four are what a deployment stands on: `ProxyFiles`
is what one `Apply` of `Release` does, `AccessLog` is where the errors come from
that a blue-green release counts, and `Daemon` is the process around all of it.

### One release: state and actions

A container is a number: `1 .. NOld` are `d.Old` in order, the rest the new
ones. `docker` is each container's status, `live` the upstream the proxy
serves, `file` the service's state file, `pc` the place of the deploy
goroutine, `step` the loop counter of the strategy, `cancelled` whether its
context is cancelled. `passed`, `kept` and `targets` record who passed a health
wait, which removals failed and where the abort routes; only `targets` is a
variable of the code.

One action is one call that others can see (to Docker, the proxy, the disk, a
clock), with the computation around it: what lies between two such calls is
local to the goroutine. `map` in `PROJECT.json` gives the lines of each
definition. A loop over containers is one action per iteration in
`WaitAllHealthy` and in linear's `Wait .. Record`; `removeContainers` is one
step whose result per container is any that its calls can leave.

Failures are kinds, the members of `FaultKinds`; the constant `Faults` says
which of them an instance has. So a theorem or a run states what it assumes:
`Faults` without `"save"` is a disk that can be written.

`Recovery` has the controller die at any `pc` and lose `pc`, `targets` and the
context. Docker, proxy and file stay. `Boot` is `generateInitialConfigs`;
`Recover` is `recoverService` and the `Rollback` it may call, step by step, so
that a second crash can interrupt it.

### The daemon and the commands: state and actions

The threads of `Deployments` are the watch loop, one delayed refresh
(`refreshServiceConfigAfter`) and one for each `dr` process in `Cli`; `pc`,
`flag`, `listed` and `fresh` are their local variables. `dep[d]` is the d-th
deploy goroutine. `lock` is the flock of `AcquireDeployLock`; its value names
who will release it, which is the deploy goroutine once `release` or
`handleStart` has started one (`Spawn`). `active` is `Controller.deployments`
of each process, for the one service. `configMu` is the mutex. `queue` holds
the pending command files and `claimed` says that a `.processing` file is there.

Reads before the lock and reads under it are separate actions (`HandleStart`,
`StartLoad`, `StartLock`; `Load`, `Lock`, `List`; `RefreshCheck`, `RefreshLock`,
`Relist`), since what goes wrong lies between them. A failed check ends in
`UndoBeforeSwitch`, one after the switch in `UndoAfterSwitch`; both go on with
`DropNew` and `RecordUndone`, and `deploy` does not abort them. Any other error is
`Fail`, which `Abort` follows. `CommandDies` and `DaemonDies` are a kill: locks,
maps and local state go, files and containers stay.

### The access log: state and actions

A line that the bundled proxy prints is two pieces, its head and its tail with
the newline. `Write` and `Publish` are `Tee.Write` (`partial` and `complete` are
what it keeps and what it has cut off), `Call` is one subscriber called by
`Hub.Publish` after it has left its mutex, so that the subscriber may have gone.
`conn[r]` is the place in `serveConn`, `queue[r]` its channel, `hand[r]` the
entry it encodes, `overflowed[r]` its flag; `client[r]` is `Client.Subscribe` and
its goroutine, in the process of the release. `helloAt` and `got` only record.

### Proxy files: state and actions

`disk` maps each generated file to its content: upstream and route of each
service, one file of both for Traefik, and the frontend that HAProxy's services
share. `live` is what the proxy runs. `step` is the place in the transaction
(`applyProxyFileTransaction`), held by `flock`: `Check` compares hosts and the
marker of generated files, `WriteProxyFile` and `RestoreProxyFile` are one file
each, `NginxReload` and its kin ask for a reload, `Load`, `TraefikLoad` and the
`Caddy...` actions are the proxy's own steps meanwhile, `Reloaded` and
`NotReloaded` what the waiting code sees of them, `RecordFile` the health
manifest, which it may fail to write without an error, and `ClearReady` the start
of a daemon, which deletes the manifest and no config. `CaddyUpdate` is the admin call that sets the addresses of a pool,
`HAProxyServer` one server of the runtime API and `HAProxyUndo` its undo.
`StartCleaning` and `RemoveStaleConfigs` are the cleaner of `proxysync.go`.

Caddy provisions a new config while the old one serves. `source` and `next` are
the pools that the running and the new config use, `users` their counts;
`Provision` and `Cleanup` are the methods of `Source` in `upstreams.go`.

### The process of a bundled image: state and actions

`sup` is the place in `runWithBundledProxy` and `superviseBundledProxy`, `ctl` in
`Controller.Watch`, `ctx` and `run` are the contexts of the signal and of the
two together, `proxy` the child process, `ready` and `started` the mark files
that `dr healthcheck` looks for. `world`, `files` and `served` are versions: of
the containers, of what the configs on disk were made from, and of what the
proxy has loaded. `refreshing`, `delayed` and `before` are a refresh and its
retry. `rel` is a release in the map of active deployments; `ApiLooksUp` and
`ApiCancels` are the two halves of `handleCancelByDeployment`. `Restart` is a
kill, or an exit, and the next start: the marks and the files stay.

### Abstractions

In the release modules:

- One service, one proxy, one deployment; others on the same service are the
  subject of `Deployments`.
- Addresses, names, deployment IDs, times and texts are left out; a drain,
  soak, interval or timeout may end at any moment.
- Every container has a health check. Without one `WaitHealthy` takes a running
  container, and `healthy` then reads as `running`.
- All old containers have an address. One that has none is skipped by
  `resolveContainers` and not in `d.Old`.
- A server's weight is what the config gives it: each new one `weight`, each old
  one the rest of 100. What users get of that is `OldLoad` and `NewLoad`, in
  which servers count: with two old containers and one new one at 30 the new one
  gets 30 of 170 requests from nginx, HAProxy and Caddy, and 30 of 100 from
  Traefik, which weighs groups. Affinity is left out; with it Caddy ignores
  weights (`caddy_routes.go:273`).
- A refused proxy config leaves the old one or the new one live, whatever is
  restored on disk: a reload that reports an error may have been applied.
- The prologue's second listing gives at least the containers of the first
  unless the instance has the fault `vanish` (the call fails, which it also does
  under a cancelled context, or a new container crashed).
- The proxy keeps what it loaded while the controller is down, as a proxy in a
  container of its own does.
- The labels `preview`, `check` and the error rules are chosen at the start
  (`rules`); the rest of the labels are constants.

In `Deployments`:

- Containers come in groups that start together, `rev` is a group's revision.
- `Execute` is six steps (`Record`, `Preview`, `Shift`, `Promote`, `Retire`,
  `Finish`), the order of writes of blue-green, whose other steps canary has too,
  and the undos before and after the switch. Any of them may fail; `Fail` then
  leaves the old or the new config, and `Abort` follows. A removal takes any part
  of its containers, since `removeContainers` only logs what Docker refuses
  (`Remove`). Health, weights and drains are what the release modules are for.
- A config that follows the state file has both groups, or at a weight of 100 the
  new one alone; the weight itself is left out.
- `found` is history: what the proxy served when a deployment began.
- One delayed refresh at a time stands for any number: another one would do the
  same steps on the same state.
- The watch loop claims one command per tick. The code claims all that are
  pending and runs them one after the other; a command that arrives in between
  is no different.
- A rollback acts on what the state file records when it begins.
- `MaxGroups`, `MaxDeploys`, `MaxRestarts` and `MaxCrashes` are bounds of the
  model, not of the code: a release beyond `MaxDeploys` ends as if refused.

In `AccessLog` what a line says is left out: entries are numbered, and `Lines`,
`MaxWrite`, `QueueSize` and `WireSize` bound them. A line that lost its head may
or may not parse, both are tried.

In `ProxyFiles`:

- A config is a route, which is a set of hosts, and an address for each server
  slot. Weights, cookies and texts are not told apart.
- A load of nginx, HAProxy or Traefik reads all files at one instant; Caddy's
  load is in steps because two configs share its pools.
- A reload that reports success was one. A reload may fail to start, time out
  before or after it took effect, or its answer may be lost.
- `MaxTx` and `MaxFaults` are bounds. `acked`, `last`, `fresh`, `torn` and `missed`
  record what was reported, which services are in use, whether a restore itself
  failed and for which files the last recording was lost.
- `ClearReady` is a daemon that starts anew while its cleaner is idle, beside the
  transactions of commands.

In `Daemon`:

- Configs are the version of the containers they were made from; a release in
  the same process reloads them and does not change them, since containers that
  change are another service's.
- Delayed refreshes that overlap are one, as in `Deployments`.
- `MaxChanges`, `MaxReleases` and `MaxFaults` are bounds.

## 3. What is checked

Each module types its variables in a `TypeOK` of its own. That of linear,
`LinearTypeOK`, is a property of the run `Linear`; those of linear, canary,
blue-green, recovery, `Deployments`, `AccessLog` and `Daemon` are proved, and the
runs spend their time on what types do not say. For one release:

- **ImplementsRollout** (all strategies): requests always go to some container,
  each one there and, if new, seen healthy; nothing is removed while it carries
  traffic. The refinement maps `routed` to the servers and backups of `live`. Its
  runs have every failure but `vanish`, under which it does not hold.
- **AlwaysServing**: some container gets requests. Violated by a crash before the
  last save, see below.
- **RolloutInv** (linear): the inductive invariant behind it.
- **CapacityKept** (linear): `Execute` never serves with fewer containers than
  the service had, if there are as many new ones.
- **FileFollowsProxy** (linear), **RecordedWeight** (canary),
  **CrashCanBeUndone** (blue-green): the state file, which abort and recovery
  rely on, is at most one replacement behind, names both groups, and for a canary
  yields a config that gives every container that runs the requests it has.
- **AbortKeepsServing**, **UndoneServesOld**: how an aborted and an undone
  release leave proxy, file and containers.
- **CanaryAdvances**: until it fails, a canary never moves users back, by the loads
  of servers or of groups, from both versions to the old one included; every
  round of the loop moves some, so that it does not repeat at 100; and no step
  moves more than `start_percentage` or `increment` says, so that only the last
  one ends the old version's part.
- **PreviewBeforeUsersMove**, **WayBackOpen** (blue-green): a preview and its
  token are there only while all users are on blue; no way back is cut off.
- **OldServeAfterCrash**, **RecoveredIsConsistent**, **EventuallyIdle**
  (recovery).
- **Terminates** (linear): every deployment returns. The waits and the abort are
  shared, so the other strategies are not run for it.

For the daemon and the commands:

- **LockGuardsService**: whoever lists, creates, routes to or removes containers
  under the lock's protection holds it until it is done, across the hand-over to
  the deploy goroutine and any death. Two looks come before the lock and are
  outside: `handleStart` lists the containers and reads the state
  (`events.go:93`), `release` reads the state (`release.go:96`). So are rollbacks,
  the first configs and recovery, which take no lock.
- **NoneReplaced**: no deployment finds, and cancels, another one in its map.
- **ProxyIsTheReleases**: nothing changes the proxy between two requests of a
  deployment; a refresh that looked too early would.
- **OnlyTakeoverEndsService**: a step leaves the proxy without a running group only
  if it is one of a deployment whose new containers already had users when it
  began, as after a release that died once users had moved, or whose old ones are
  all gone. `discardNew` and `undoBeforeSwitch` remove new containers without a
  look at the proxy, and `rollbackWithFailure` routes to the old ones even if there
  are none. All else (other undos, aborts, refreshes, events, dying commands, stale
  lists, removals that fail) keeps some group served.
- **LockIsFreed**, **QueueDrains**: the lock comes free again and again, and
  every queued release is taken and completed, with refreshes competing for
  `configMu` and start events for the watch loop.

For the access log:

- **LinesSurviveWrites**: however the proxy's writes cut its lines, each one that
  is not too long is published, in its turn, and never as a fragment.
- **NothingMissedAfterHello**: what is published after the hello and before an
  overflow reaches the reader, once and in order.
- **LossIsTold**: a reader that missed an entry sees its stream break.
- **NoConnectionLeaks**: the controller leaves a connection that its release has
  cancelled, and forgets the subscriber.

For the proxy files:

- **HostsDisjoint**: no two services claim one host, on disk or in the proxy,
  whatever fails or crashes.
- **FilesAreWhole**, **ManifestMatchesFiles**: between transactions the files are
  those of the last successful ones and a user's own file stays; the health
  manifest has every generated file and none that is missing, but for files whose
  last recording was lost, which the code accepts (`health.go:18`).
- **FilesOfRunningStay**: the cleaner takes no file of a service that has
  containers or a deployment, though its list is older than the lock it waits for.
- **AppliedIsServed**: what a transaction reported as applied is what the proxy
  serves until the next try, server by server for HAProxy.
- **UpdatesReachTheProxy**: the pool that an update reaches is the one Caddy
  serves from, and it is counted once for each config that uses it.
- **PreviewStopsWorking**: violated, see below.

For the process of a bundled image:

- **MarksTellTruth**: the proxy starts after this process's configs; what `dr
  healthcheck` reports as healthy serves configs at least that new; an ended
  process leaves no mark and no false success.
- **ProxyOutlivesReleases**: the proxy is told to quit only after the controller
  and its release, abort included, have ended.
- **CancelledIsOver**: a deployment whose cancel was answered is cancelled or
  over.
- **EndsTogether**, **ProxyCatchesUp**: everything ends with the first to end; a
  change while the proxy was starting still reaches it.

### Runs

`AnyFault` is every failure but `vanish`.

| Run (`.cfg`) | Instance | Shows |
|---|---|---|
| `Linear` | 2 old, up to 3 new, AnyFault, fair | the safety of linear, its inductive invariant, the refinement, that it returns |
| `Canary` | 2 old, up to 2 new, weights 30, 75, 100, AnyFault | the state file, the requests of each version, the refinement |
| `BlueGreen` | 1, 2, weight 50, one error allowed, AnyFault, all rules | preview, way back, state file, undo, the refinement |
| `Recovery` | 2, 2, any strategy, all rules or none, two crashes, every failure but an exit and a failed inspection | what recovery restores |
| `RecoveryLive` | 1, 1, any strategy, two crashes, fair | the service becomes idle |
| `RecoveryTooLate` | 2, 2, one crash, no other fault | **violation**: a crash before the last save empties the proxy and removes the new containers |
| `Deployments` | one command, daemon, 2 groups, 2 deployments, fair | the lock, the proxy, the queue |
| `DeploymentsRestart` | the same with rollbacks, one restart of a container, one death of the daemon, not fair | the lock guards every release and refresh |
| `AccessLog` | one release, 4 lines, the second too long, queue and socket of one entry, fair | lines, hello, overflow, cancel |
| `ProxyFiles` | all four proxies, 2 services that share a host, 2 transactions, one failure, crash or start of the daemon | hosts, files, manifest, what the proxy serves, pools |
| `ProxyStale` | Caddy and HAProxy, one service, 3 transactions, no failure but a timeout | **violation**: after a reload that took effect and was reported as failed, the preview goes on working |
| `Daemon` | 2 changes, 2 releases, one failure or restart, fair | marks, order of the end, cancel, retry of refreshes |

The runs marked violation are disagreements between the code and what its
documentation says; `findings` in `PROJECT.json` quotes both.

Disagreements met while modelling that have no run of their own:

- Linear leaves the old containers beyond the number of new ones running and
  unrouted (`linear.go:45`; `docs/readme.md:20` says each is replaced).
- An abort may route to an old container that was stopped and could not be
  removed (`deploy.go:227`).
- A cancel during the undo of a failed check leaves green running
  (`bluegreen.go:227`; `check.go:35`), and a refused config during it leaves the
  preview up (`bluegreen.go:213`; `docs/readme.md:104`).
- The initial configs do not look at health (`configsync.go:22`;
  `README.md:47`).
- `--force` is refused by the deploy lock while a release runs
  (`release.go:110`; `README.md:81` says it deploys even then).
- A start event that finds the lock held, be it by a refresh, is dropped
  (`events.go:141`); an old container that restarts is taken for a new revision
  (`revision.go:80`).
- A second listing of new containers that comes back short replaces the first
  (`deploy.go:67-70`). At the deadline of 30 seconds it is whatever Docker lists,
  and nothing, without an error, if the call fails (`deploy.go:287`). Linear and
  canary then wait for nobody and remove the old containers, and the release ends
  as a success, against "Zero-downtime deploys" (`README.md:3`). That is the fault
  `vanish`: with it alone TLC finds `AlwaysServing` violated in `Canary`. The runs
  leave it out, and so do the theorems that name it.
- A release that was killed after users moved, then one with `--force` (or half an
  hour later) whose check fails: its new containers are those that serve, and
  `undoBeforeSwitch` removes them (`bluegreen.go:227`) without a look at the proxy,
  against its comment ("The proxy never sent them traffic, so the old containers
  keep serving untouched") and `release.go:82`. `TakesOver` in
  `OnlyTakeoverEndsService` is this; without it TLC finds the property violated.
- With `green_weight` 100 each blue container keeps a weight of 1 during the soak
  (`bluegreen.go:260`).
- A daemon that starts undoes a release that a command is still running: recovery
  looks at neither the lock nor the age of the state (`recovery.go:12`).
- `discardNew` may, as `undoBeforeSwitch` does, remove containers that an earlier
  deployment has put to serve (`deploy.go:327-329`: "containers that never took
  traffic"), hence the exception of `OnlyTakeoverEndsService`.
- A reader of the access log "never sees a gap" (`socket.go:22`). It does for up
  to 100 ms: between an overflow and the tick that ends the connection, entries
  that fit the queue again reach it.
- A cancel by deployment ID looks the service up and then cancels by service
  (`api.go:145-157`): if the deployment ended in between, its successor is
  cancelled. `CancelledIsOver` states the half that holds.
- A container that changes between the first listing (`controller.go:103`) and
  the subscription to events (`:113`) is not seen until its next event; `missed`
  in `Daemon` excepts it from `ProxyCatchesUp`.
- A health monitor whose first look at the restart counts fails watches nothing
  (`monitor/health.go`).

Why the bounds suffice: two old containers give a first, a last and a middle
state of a replacement loop (some replaced, some not), and a set of stable
containers that can be partly gone; three new against two old give the extra
containers, one new against two the short loop and the second listing. Two
weights below 100 give a first and a later shift and the clamp. Two crashes let
the second one hit the boot or the recovery of the first. One allowed error
gives the error that is tolerated and the one that is too many. Blue-green has
no loop over old containers, so one is enough there.

In `Deployments` two groups are an old and a new revision, or two of one; two
deployments give one that meets the remains of another, and with the daemon and
one command there are three threads that want the lock. Restarts and deaths have a
run of their own, without fairness: rollbacks and boots change the proxy without
the lock, so only the lock is asked about there. Its `VIEW` leaves out what a
deployment that is over still holds and the history `found`, neither of which a
step or the lock depends on. What is proved holds for any number of each, in
particular `OnlyTakeoverEndsService` with containers that restart.

In `AccessLog` four lines against a queue and a socket of one entry each leave a
reader behind with lines still to come, and a write of three pieces may end
inside a line, at a line or after two; the one reader is enough since readers
share nothing but the order of the calls. In `ProxyFiles` two services are needed
for a shared host and for HAProxy's shared frontend, and two transactions for one
that meets what another left; the failure may hit any step, timeouts cost
nothing. The third transaction of `ProxyStale` is the abort. In `Daemon` two
changes give one before and one while the proxy starts, and two releases the
successor that a late cancel meets.

### Fairness

`LinearFairSpec` of a release is weak fairness of the deploy goroutine (`DeployStep \/
Execute`) alone: the Go scheduler runs it and every wait in it has a timeout, or
is a timer. Nothing is assumed of Docker, the users or the proxy; `WaitFails`
needs the fault `health`, which is what a timeout of `WaitHealthy` is.
`CRFairSpec` adds that a dead controller is started again and its recovery runs;
crashes are bounded by `MaxCrashes`, so "eventually" means after the last of
them. `EventuallyIdle` assumes that the proxy and the disk accept what recovery
writes: recovery runs once per start and a failed save or rollback is only
logged.

`FairSpec` of `Deployments` is weak fairness of each thread and each deploy
goroutine, for the same reason, and strong fairness of two steps. One is
`RefreshBegin("watch")`: a Go mutex is handed to a waiter that has waited for a
millisecond, so delayed refreshes that retry cannot keep the watch loop out for
good. The other is `Claim`: Go's `select` picks among its ready cases at random,
so the ticker's case is taken in the end although Docker events keep coming.
Commands, events and containers are not assumed to come. No process dies in this
run: a command whose daemon dies stays claimed for good (`commands.go:99`).

In `AccessLog` each goroutine is weakly fair. `Tick` and `Gone` are strongly fair,
again because `select` chooses at random: entries that are always ready do not
keep a tick out for good. A reader may be suspended for good and the proxy need
not print. In `Daemon` the supervisor, the watch loop and a refresh are weakly
fair; a release ends because `deploy` does (`Terminates`), and that `Watch`
returns is assumed only once its context has ended. The proxy need not start, the
user need not send a signal.

## 4. What is proved

`tlapm` checks these for every number of containers, and for every set of faults
unless a premise is named.

- `LinearProofs!LinearTypeCorrect`: `LinearSpec => []LinearTypeOK`. Needs
  `CountAssumption`, `FaultAssumption`. `LinearTInv` adds to `LinearTypeOK` that
  `step` stays within the loop where the loop uses it, without which the bound on
  `step` is not inductive.
- `LinearProofs!LinearInvariant`: `LinearSpec => []RolloutInv` if
  `"vanish" \notin Faults`.
- `LinearProofs!LinearImplementsRollout`: `LinearSpec => ImplementsRollout` under
  the same assumption, without which it is false: after an empty second listing
  the loop removes old containers that nothing replaces.
- `LinearProofs!LinearAbortEndsServing`: `LinearSpec => []AbortKeepsServing`, for
  any faults.
- `LinearProofs!CapacityIsKept`: `LinearSpec => []CapacityKept`, for any faults.
- `LinearProofs!FileIsClose`: `LinearSpec => []FileFollowsProxy` unless `vanish`.
- `WeightedProofs`, for `CanarySpec`: `CanaryTypeCorrect` and
  `CanaryAbortEndsServing` for any faults, a vanishing listing included;
  `WeightIsRecorded`, `UsersAdvance` and `CanaryImplementsRollout` if
  `"vanish" \notin Faults`. With no new container a canary moves nobody and records
  no new one, and both properties are false.
- `WeightedProofs`, for `BGSpec`: `BGTypeCorrect`, `PreviewIsBefore`,
  `OldOnesStand`, `FileNamesBoth`, `UndoneIsBefore` and `BGAbortEndsServing` for
  any faults, `BlueGreenImplementsRollout` unless `vanish`.

The argument. That some ready container serves (`Routed`) is not inductive: a
step that routes does so by what the file, the abort's targets or the loop
counter say. So `RolloutInv` adds `Recorded` (every new container that the file
or the abort names has passed its health wait), `Phases` (until the strategy
runs the old containers serve; new ones are all there until an abort removes
some; an abort serves exactly its targets) and `Replacing` (the loop has only
passed containers behind it and all its old ones before it, and removes one that
the proxy has let go). Each of them is what a later routing or removal needs.
`ReleaseProofs` holds the lemmas on the shared calls and phases (what `Apply`,
`Save`, `RemoveContainers` and `WaitHealthy` do to types; that each shared
action maps to a step of `Rollout`), for the other strategies to use.
`LinearProofs` then has one step per action.

Two invariants are shared by all strategies and live in `ReleaseProofs`.
`WorldInv` is the part of the argument above that does not depend on the
strategy. `AbortInv` says of an abort what its phases have achieved: its targets
exist, then the proxy serves them, then the file names them, and what else
remains is in `kept`. It needs no premise on `Faults`, since an abort looks at
the containers itself. Each strategy shows that its own steps do not disturb
them (`AbortInvDeployStep`, `WorldInvDeployStep` do the shared ones).

`CapacityIsKept` counts. In round `i` of the loop the proxy serves new
containers up to `i` or `i - 1` and old ones from there on, which as numbers are
an interval, whose cardinality the library knows; `ServingInv` states it.
`CanaryInv` adds to the types which servers, weight and state file there are at
each `pc`: the weight is below 100 where the loop applies it, and after
`RecordWeight` proxy and file agree. `UsersAdvance` compares loads, which are
products of weights and numbers of servers; it rests on the arithmetic lemmas
before it. Blue-green has two: `UsersInv` says where users, preview, token, both
groups and the state file are at each `pc` of `Execute` and of its undo, and the
four properties follow from it; `GreenInv` says that green has passed its health
wait before any user meets it, and with `WorldInv` it gives the refinement.

For a release of any strategy whose controller may die at any point, and any
number of deaths:

- `CrashRecoveryProofs!RecoveryTypeCorrect`: `CRSpec => []RecoveryTypeOK`, for any
  faults.
- `CrashRecoveryProofs!OldOnesServeAfterCrash`: `CRSpec => []OldServeAfterCrash`,
- `CrashRecoveryProofs!RecoveryIsConsistent`: `CRSpec => []RecoveredIsConsistent`,
  both if `"exit" \notin Faults` and `"inspect" \notin Faults`.

The argument. While the controller lives, a deployment is typed like one of its
strategy, and each of its steps preserves `Named`: the state file names new
containers only beside all the old ones, none when it is idle, and none ever
under linear. So whatever the crash left in the file, `Recovering` can say what
the first configs and each step of a rollback have achieved: either every old or
recorded container that runs is served (`StableServe`), or the file still names a
new container that runs (`Interrupted`) and the rollback is to come, or the
rollback has routed to a set that has all of them. `Undoing` says that what a
rollback set out to remove is gone, or noted as refused by Docker, or still named
by the file, so that the next start tries again; that makes it survive a crash
between the removal and the save. Both premises are needed. The restart policy
may bring a container back that had exited when the configs were written, and
nothing routes to it until the next event. A container whose inspection fails is
skipped by the rollback, which then ends without it.

For any set of commands and any value of the bounds of `Deployments`:

- `DeploymentsProofs!TypeCorrect`: `Spec => []TypeOK`. `TInv` adds that a
  release about to scale up has listed a container to copy.
- `DeploymentsProofs!LockGuards`: `Spec => []LockGuardsService`.
- `DeploymentsProofs!NoneIsReplaced`: `Spec => []NoneReplaced`.
- `DeploymentsProofs!ProxyIsKept`: `Spec => []ProxyIsTheReleases` if
  `"rollback" \notin Asks` and `MaxCrashes = 0`. The premises are needed: a
  rollback, and a daemon that boots, write without the lock.
- `DeploymentsProofs!OnlyTakeoverEnds`: `Spec => OnlyTakeoverEndsService`, an
  action property, under the same premises. TLC finds it violated without either:
  the rollback routes to old containers that the deployment has removed.

The argument. `LockGuardsService` is inductive with the types, because the value
of `lock` names one holder (`HolderIsOne`, from `CliAssumption`): if it is free
nobody is at work, if it is a thread's no deployment is, if it is a deployment's
nobody else is (`OneHolder`). A step then either leaves the lock and brings
nobody to work (`LockKept`), takes it when free (`TakesLock`), hands it on
(`SpawnGuards`) or gives it up as the only one at work (`EndGuards`, `LockDeath`).
`NoneReplaced` needs `Registered`: whoever is in a process's map runs in that
process, after its registration and before its end. So it is at work and holds
the lock, and the one that registers cannot be another. `ProxyIsTheReleases`
needs `Locked`: no thread is in the code that writes without the lock. Then
whoever changes the proxy is the one deployment at work, or a refresh while none
is.

`OnlyTakeoverEndsService` needs to know that the containers a step routes to run.
`Runs` says where that knowledge comes from: what a thread listed under the lock
still runs, since only the one deployment at work removes containers
(`ListedRuns`); a deployment has new containers that are none of its old ones,
and from `record` on they run, since `Prepare` has looked (`NewRuns`); and what
runs was created, so that a group that starts is not one of the old ones.
`FoundServes` says that until a deployment has routed to its new containers the
proxy serves what it found or its old ones, and after an undo its old ones. The
removals then take from the proxy nothing that it needs: `Retire` removes the old
ones when `ProxyIsTheReleases` says that the new ones are served, `AbortRemove` the
new ones when the abort's targets are, and `Prepare` and `DropNew` remove new ones,
which the proxy serves only if it already did when the deployment began.

For any number of changes, releases and failures in `Daemon`:

- `DaemonProofs!MarksAreTrue`: `Spec => []MarksTellTruth`.
- `DaemonProofs!ProxyIsLast`: `Spec => []ProxyOutlivesReleases`.
- `DaemonProofs!CancelsAreTrue`: `Spec => []CancelledIsOver`.
- `DaemonProofs!TypeCorrect`: `Spec => []TypeOK`.

The argument. `DaemonInv` adds to the types where supervisor and controller can
be together (`Places`: the proxy runs only between `await` and `quitting`, the
supervisor passes `stop` only when the controller is done), what has been
achieved at each place (`Phases`: configs on disk from `mark` on, marks gone
after `unready`), that nothing on disk, in the proxy or kept by a refresh is
older than the first configs (`NoneOlder`), what a result may be (`Reports`) and
which ID a cancel call may hold (`Answers`: none younger than the current one,
and an answered current one is cancelled or over). `NoneOlder` is what a refresh
that restores needs: it puts back what was there before it, which is no older
either.

For any number of readers and lines and any sizes in `AccessLog`:

- `AccessLogProofs!NoLineIsLost`: `Spec => []LinesSurviveWrites`.
- `AccessLogProofs!HelloMissesNothing`: `Spec => []NothingMissedAfterHello`.
- `AccessLogProofs!AccessTypeCorrect`: `Spec => []TypeOK`, which bounds queue, socket
  and log.

The argument. `LinesInv` says that what `Write` has cut off and not yet published
are consecutive lines up to the last one that ended, and that what was published
comes before them; a head is kept unless its line is too long, so that the first
line of a chunk is whole. `StreamInv` compares the stream of a reader (what it
has read, then the socket, the hand of `Encode`, the queue) with the log from
their ends backwards: taking, encoding and decoding move an entry inside the
stream, and a call of the subscriber adds one to both. It needs `Connections`:
the Hub has each connection that may still queue, so `Publish` calls it. The
types need `Bounded`: what is published and what `Write` has cut off are together
no more than the lines that have ended, so that no line is published twice.

For any services, routes and configs, and any number of transactions, failures
and crashes in `ProxyFiles`:

- `ProxyFilesProofs!FilesStayWhole`: `Spec => []FilesAreWhole`.
- `ProxyFilesProofs!RunningKeepTheirs`: `Spec => []FilesOfRunningStay`.
- `ProxyFilesProofs!ManifestIsTrue`: `Spec => []ManifestMatchesFiles`.
- `ProxyFilesProofs!HostsStayApart`: `Spec => []HostsDisjoint`.
- `ProxyFilesProofs!UpdatesReachSources`: `Spec => []UpdatesReachTheProxy`.
- `ProxyFilesProofs!AppliedStaysServed`: `Spec => []AppliedIsServed`.

They need that "no file" is no config and no route (`NoneAssumption`), that a
config says something for each of its files (`ConfigsAssumption`), and for the
pools that there are more names than services, of which there are finitely many
(`PoolsAssumption`). `AppliedStaysServed` also needs that a user's own file is none
that docker-release generates, which its header line tells apart
(`ForeignAssumption`), and that an upstream file has a line for each of HAProxy's
slots (`UpsAssumption`).

The argument. In the middle of a transaction the files are a mix. `Base(p)` is
what a file was when it began, and `FilesInv` says the three properties of `Base`
at every step; `Progress` says how far the writes, or their undoing, have come,
so that a restored file is `Base` again and a recorded one the reported config.
`ManifestHolds` compares the manifest with what each path is due to be (`Due`:
`Base` until its recording, then the new content), for every path that is not in
`missed`.
That the cleaner's files are of nobody in use holds because a service in use has
containers or a deployment, and who has the file lock keeps the deploy locks
(`Holders`). `HostsInv` says that *every* mix of old, new and restored routes is
apart, which the check under the file lock achieves at once, since each write
then only chooses among them; nginx and HAProxy may therefore load at any moment.
`PoolInv` says that the pool of a file is the one of every Source that reads it,
in the running config and in the one being provisioned or cleaned up, that it is
there exactly as long as there is one, and that no two files share it; a new
pool finds an unused name by the pigeonhole principle.

`AppliedIsServed` is about the proxy's side, and `ServedInv` follows what it runs.
The files of a service whose last transaction succeeded are those of that
transaction (`OkStands`), and no transaction touches a service with a file of the
user's own (`OwnFiles`). What runs for such a service follows its files
(`Following`): for nginx and Traefik it is the files; for HAProxy the backend has
the upstream file's addresses, which the servers set so far on the socket already
have (`Loaded`); for Caddy the addresses are in the pool, or, if no Source has one
yet, in the data that the Source being provisioned has read, since an update that
finds no pool is lost and only the file tells the next Source. A reload that was
seen to end has read the files as they are (`Loaded`), whatever runs in the
background, because the file lock is held from the first write on. With
`UpdatesReachTheProxy` the pool of the file is then the one that serves.

Only model-checked is liveness: `Terminates`, `EventuallyIdle`, `LockIsFreed`,
`QueueDrains`, `LossIsTold`, `NoConnectionLeaks`, `EndsTogether` and
`ProxyCatchesUp`. It is outside of the prover's reach, as is `ENABLED`. Every
invariant and every action property that a passing run checks is a theorem. No
module that a theorem is about declares a RECURSIVE operator, and no theorem needs
induction over data.

## 5. Plan

Done: one release in every detail with all three strategies, its recovery, the
daemon and the commands, the access log, the proxy's files and pools, the process
of a bundled image; proofs of every invariant and action property of the passing
runs. Left, in this order:

1. Several services and projects on one daemon: the global scan of commands, and
   the server's cache of states.
2. The health monitor: restart counts, the grace period, its end beside the end
   of the release. In `Release` it is a cancel that may come at any time.
3. Algorithms as operators against reference definitions: `separateByRevision`,
   status matching, `parse.go`.

## 6. What is not modelled

- Parsing of labels and Compose files (`internal/config`, `docker/compose*.go`):
  data without state. The ranges that `ServiceConfig.validate` admits are the
  assumptions of the modules.
- The text of generated configs (`*_routes.go`, `nginx_preview.go`), HTML pages,
  status texts, TLS, and the fields of an access-log line (`accesslog/parse.go`).
- Proxies that docker-release does not bundle, and nginx-proxy: they take part as
  `Apply` of `Release`, a config that takes effect as a whole or fails before or
  after it did. Of the proxies' own behaviour only which servers they send
  requests to, and Caddy's pools, since that code is in the repository.
- The redirect listener for Traefik and the parsing of arguments: no state that
  anything depends on.
- Docker itself and `docker compose`: containers start, fail, become healthy and
  go as the environment's actions say.
