------------------------------- MODULE Daemon -------------------------------
(***************************************************************************)
(* The process of a bundled image: the supervisor (bundled.go), the        *)
(* controller (Controller.Watch), a release that it runs, the cancel call  *)
(* of the HTTP server and the proxy, a child process.  It starts in order: *)
(* first configs, proxy, mark; it ends in the opposite order, whichever of *)
(* controller, proxy and signal ends first.                                *)
(*                                                                         *)
(* Abstractions: the configs on disk are the version of the containers     *)
(* that they were made from; containers that change belong to another      *)
(* service than the release (Deployments has them on one service); a lost  *)
(* listing is left out of refreshes; delayed refreshes that overlap are    *)
(* one.                                                                    *)
(***************************************************************************)
EXTENDS Naturals

CONSTANTS
    MaxChanges,     \* bound: changes of the containers
    MaxReleases,    \* bound: releases
    MaxFaults,      \* bound: failures, exits of the proxy, kills
    None

ASSUME BoundsAssumption ==
    MaxChanges \in Nat /\ MaxReleases \in Nat /\ MaxFaults \in Nat /\ None \notin Nat

VARIABLES
    sup, result,    \* superviseBundledProxy and what it returns
    ctx, run,       \* whether the context of the signal and runCtx have ended
    ctl, ctlErr,    \* Controller.Watch and what it returned
    seen,           \* the containers it listed
    booted,         \* the version that its initial configs hold
    event, delayed, refreshing, \* an event to handle, a later refresh, one under way
    proxy, asked,   \* the child process, and whether it was told to quit
    served,         \* the version of the configs it has loaded
    ready, started, \* the files .ready and <proxy>.started
    world, files,   \* the containers and the configs on disk
    before,         \* what a refresh has to restore
    missed,         \* a change between the listing and the event stream
    rel, id, cancelled, \* the release in the map, its ID and its context
    wanted, answered,   \* the ID that a cancel call has looked up, that of the last answer
    faults

supervisor == <<sup, result, ctx, run>>
refresh == <<event, delayed, refreshing, before>>
controller == <<ctl, ctlErr, seen, booted, refresh>>
child == <<proxy, asked, served>>
marks == <<ready, started>>
releases == <<rel, id, cancelled, wanted, answered>>
vars == <<supervisor, controller, child, marks, world, files, missed, releases, faults>>

Version == 0 .. MaxChanges
Ids == 1 .. MaxReleases

FlagsOK ==
    /\ ctx \in BOOLEAN /\ run \in BOOLEAN /\ event \in BOOLEAN /\ delayed \in BOOLEAN
    /\ asked \in BOOLEAN /\ ready \in BOOLEAN /\ started \in BOOLEAN
    /\ missed \in BOOLEAN /\ cancelled \in BOOLEAN

ValuesOK ==
    /\ sup \in {"clear", "configs", "start", "await", "mark", "select", "stop",
                "quit", "quitting", "join", "unmark", "unready", "exit"}
    /\ result \in {"none", "nil", "error"}
    /\ ctl \in {"none", "clear", "list", "subscribe", "configs", "mark", "loop", "ending", "done"}
    /\ ctlErr \in {"nil", "canceled", "error"}
    /\ seen \in Version /\ booted \in Version \cup {None}
    /\ refreshing \in {"no", "loop", "later"} /\ before \in Version \cup {None}
    /\ proxy \in {"none", "starting", "up", "exited"} /\ served \in Version \cup {None}
    /\ world \in Version /\ files \in Version \cup {None}
    /\ rel \in {"none", "run", "abort"} /\ id \in 0 .. MaxReleases /\ (rel # "none" => id \in Ids)
    /\ wanted \in Ids \cup {None} /\ answered \in Ids \cup {None}
    /\ faults \in 0 .. MaxFaults

TypeOK == FlagsOK /\ ValuesOK

Init ==
    /\ sup = "clear" /\ result = "none" /\ ctx = FALSE /\ run = FALSE
    /\ ctl = "none" /\ ctlErr = "nil" /\ seen = 0 /\ booted = None
    /\ event = FALSE /\ delayed = FALSE /\ refreshing = "no" /\ before = None
    /\ proxy = "none" /\ asked = FALSE /\ served = None
    /\ ready = FALSE /\ started = FALSE
    /\ world = 0 /\ files = None /\ missed = FALSE
    /\ rel = "none" /\ id = 0 /\ cancelled = FALSE /\ wanted = None /\ answered = None
    /\ faults = 0

Fault == faults < MaxFaults /\ faults' = faults + 1
RunOver == ctx \/ run
\* Watch ends its own context when it returns.
WatchOver == RunOver \/ ctl = "ending"
Goto(pc) == sup' = pc /\ UNCHANGED <<result, ctx, run>>
Return(r) == sup' = "stop" /\ result' = r /\ UNCHANGED <<ctx, run>>

-----------------------------------------------------------------------------
(* The supervisor                                                          *)

\* Mutant of ClearMarks: leaves .ready to the controller.
ClearStartedOnly ==
    /\ sup = "clear" /\ ctl = "none"
    /\ started' = FALSE /\ Goto("configs") /\ ctl' = "clear"
    /\ UNCHANGED <<ctlErr, seen, booted, refresh, child, ready, world, files, missed, releases, faults>>

\* What an earlier process left must not pass for this one's.
ClearMarks ==
    /\ sup = "clear" /\ ctl = "none"
    /\ ready' = FALSE /\ started' = FALSE
    /\ Goto("configs") /\ ctl' = "clear"
    /\ UNCHANGED <<ctlErr, seen, booted, refresh, child, world, files, missed, releases, faults>>

\* Of the first calls one fails: with a mark that cannot be removed the process
\* exits at once, with the proxy's own config the marks are gone by then.
ClearFails ==
    /\ sup = "clear" /\ Fault
    /\ result' = "error" /\ UNCHANGED <<ctx, run>>
    /\ \/ sup' = "exit" /\ (UNCHANGED ready \/ ready' = FALSE) /\ UNCHANGED started
       \/ sup' = "unmark" /\ ready' = FALSE /\ started' = FALSE
    /\ UNCHANGED <<controller, child, world, files, missed, releases>>

Alone == UNCHANGED <<controller, child, marks, world, files, missed, releases>>

ConfigsReady == sup = "configs" /\ ready /\ Goto("start") /\ Alone /\ UNCHANGED faults

\* The select beside each poll; ready() may have become true since.
WaitEnds(pc, ended) ==
    /\ sup = pc
    /\ \/ ended /\ Return(IF ctx THEN "nil" ELSE "error")
       \/ ctx /\ Return("nil")
    /\ Alone /\ UNCHANGED faults

ConfigsWaitEnds == WaitEnds("configs", ctl = "done")

StartProxy ==
    /\ sup = "start" /\ Goto("await") /\ proxy' = "starting"
    /\ UNCHANGED <<controller, asked, served, marks, world, files, missed, releases, faults>>

StartFails == sup = "start" /\ Fault /\ Return("error") /\ Alone

ProxyAnswers == sup = "await" /\ proxy = "up" /\ Goto("mark") /\ Alone /\ UNCHANGED faults
\* The proxy or the controller ends, or 30 seconds go by.
AwaitEnds == WaitEnds("await", proxy = "exited" \/ ctl = "done" \/ proxy = "starting")

MarkStarted ==
    /\ sup = "mark" /\ started' = TRUE /\ Goto("select")
    /\ UNCHANGED <<controller, child, ready, world, files, missed, releases, faults>>

MarkFails == sup = "mark" /\ Fault /\ Return("error") /\ Alone

\* Mutant of SelectEnds: nobody looks at the controller.
SelectWithoutController ==
    /\ sup = "select"
    /\ \/ proxy = "exited" /\ Return("error")
       \/ ctx /\ Return("nil")
    /\ Alone /\ UNCHANGED faults

\* The final select: whichever ended is taken, if several at random.
SelectEnds ==
    /\ sup = "select"
    /\ \/ ctl = "done" /\ Return(IF ctlErr = "nil" /\ ~ctx THEN "error" ELSE "nil")
       \/ proxy = "exited" /\ Return("error")
       \/ ctx /\ Return("nil")
    /\ Alone /\ UNCHANGED faults

\* Mutant of CancelController: does not wait for the controller.
CancelControllerAndGoOn ==
    /\ sup = "stop" /\ run' = TRUE /\ sup' = "quit" /\ UNCHANGED <<result, ctx>>
    /\ Alone /\ UNCHANGED faults

\* The deferred calls: cancel, then wait for the controller ...
CancelController ==
    /\ sup = "stop"
    /\ IF ~run THEN run' = TRUE /\ UNCHANGED sup
       ELSE ctl = "done" /\ sup' = (IF proxy = "none" THEN "join" ELSE "quit") /\ UNCHANGED run
    /\ UNCHANGED <<result, ctx>> /\ Alone /\ UNCHANGED faults

\* ... then stopBundledProxy, with a signal the proxy takes its time over ...
AskToQuit ==
    /\ sup = "quit" /\ Goto("quitting")
    /\ asked' = (proxy # "exited")
    /\ UNCHANGED <<controller, proxy, served, marks, world, files, missed, releases, faults>>

\* ... or a kill after 30 seconds; the proxy's own error joins the result.
JoinProxy ==
    /\ sup = "quitting"
    /\ proxy' = "exited" /\ served' = None
    /\ sup' = "join" /\ UNCHANGED <<ctx, run>>
    /\ \/ UNCHANGED result
       \/ result' = "error"
    /\ UNCHANGED <<controller, asked, marks, world, files, missed, releases, faults>>

\* ... then the controller's error, unless it only was cancelled.
JoinController ==
    /\ sup = "join" /\ ctl = "done"
    /\ sup' = "unmark" /\ result' = (IF ctlErr = "error" THEN "error" ELSE result)
    /\ UNCHANGED <<ctx, run>> /\ Alone /\ UNCHANGED faults

\* runWithBundledProxy: the marks go, .started first.
Unmark ==
    /\ sup = "unmark" /\ started' = FALSE /\ Goto("unready")
    /\ UNCHANGED <<controller, child, ready, world, files, missed, releases, faults>>

Unready ==
    /\ sup = "unready" /\ ready' = FALSE /\ Goto("exit")
    /\ UNCHANGED <<controller, child, started, world, files, missed, releases, faults>>

Supervise ==
    \/ ClearMarks \/ ConfigsReady \/ ConfigsWaitEnds \/ StartProxy \/ ProxyAnswers \/ AwaitEnds
    \/ MarkStarted \/ SelectEnds \/ CancelController \/ AskToQuit \/ JoinProxy
    \/ JoinController \/ Unmark \/ Unready
SuperviseFails == ClearFails \/ StartFails \/ MarkFails

-----------------------------------------------------------------------------
(* The controller: Watch                                                   *)

Step(from, to) == ctl = from /\ ctl' = to /\ UNCHANGED ctlErr
Rest == UNCHANGED <<supervisor, child, missed, world, faults>>

ClearReady == Step("clear", "list") /\ ready' = FALSE
              /\ Rest /\ UNCHANGED <<seen, booted, refresh, started, files, releases>>

\* Ping and discoverServices ...
List == Step("list", "subscribe") /\ seen' = world
        /\ Rest /\ UNCHANGED <<booted, refresh, marks, files, releases>>

\* ... and only then the event stream.
Subscribe == Step("subscribe", "configs")
             /\ Rest /\ UNCHANGED <<seen, booted, refresh, marks, files, releases>>

\* generateInitialConfigs and the recovery write; nothing is reloaded yet.
InitialConfigs ==
    /\ Step("configs", "mark")
    /\ files' = seen /\ booted' = seen
    /\ Rest /\ UNCHANGED <<seen, refresh, marks, releases>>

MarkReady == Step("mark", "loop") /\ ready' = TRUE
             /\ Rest /\ UNCHANGED <<seen, booted, refresh, started, files, releases>>

\* Watch returns an error, of Docker, of the configs or of the event stream, or
\* because its context has ended; the loop then returns nil.
WatchReturns ==
    /\ ctl \in {"list", "subscribe", "configs", "mark", "loop"}
    /\ refreshing # "loop"
    /\ ctl' = "ending"
    /\ \/ RunOver /\ ctlErr' = (IF ctl = "loop" THEN "nil" ELSE "canceled") /\ UNCHANGED faults
       \/ Fault /\ ctlErr' = "error"
    /\ UNCHANGED <<supervisor, seen, booted, refresh, child, marks, world, files, missed, releases>>

\* Its deferred calls wait for the release and the delayed refreshes.
WaitGroup ==
    /\ Step("ending", "done") /\ rel = "none" /\ refreshing = "no"
    /\ delayed' = FALSE
    /\ Rest /\ UNCHANGED <<seen, booted, event, refreshing, before, marks, files, releases>>

\* A refresh writes the configs under configMu ...
BeginRefresh(by) ==
    /\ refreshing = "no" /\ refreshing' = by /\ before' = files /\ files' = world
    /\ Rest /\ UNCHANGED <<ctl, ctlErr, seen, booted, marks, releases>>

\* A start or a death is looked at again later; a health event is not.
HandleEvent ==
    /\ ctl = "loop" /\ event /\ event' = FALSE
    /\ delayed' \in {delayed, TRUE}
    /\ BeginRefresh("loop")

DelayedRefresh ==
    /\ ctl = "loop" /\ ~RunOver /\ delayed /\ delayed' = FALSE
    /\ BeginRefresh("later") /\ UNCHANGED event

Refreshed ==
    /\ started /\ proxy = "up" /\ served' = files
    /\ UNCHANGED <<files, delayed, faults>>
RefreshRefused(again) ==
    /\ \/ (~started \/ proxy # "up" \/ WatchOver) /\ UNCHANGED faults
       \/ Fault
    /\ files' = before /\ delayed' = (delayed \/ again) /\ UNCHANGED served
RefreshOver ==
    /\ refreshing # "no" /\ refreshing' = "no" /\ before' = None
    /\ UNCHANGED <<supervisor, ctl, ctlErr, seen, booted, event, proxy, asked, marks, world, missed, releases>>

\* Mutant of EndRefresh: it is not tried again if the proxy was not reloaded.
RefreshOnce == RefreshOver /\ (Refreshed \/ RefreshRefused(FALSE))

\* ... and reloads the proxy if it counts as started; otherwise the files are
\* restored and the refresh is tried again.
EndRefresh == RefreshOver /\ (Refreshed \/ RefreshRefused(~WatchOver))

Watch ==
    \/ ClearReady \/ List \/ Subscribe \/ InitialConfigs \/ MarkReady \/ WaitGroup
    \/ HandleEvent \/ DelayedRefresh \/ EndRefresh

-----------------------------------------------------------------------------
(* A release, and the HTTP server's cancel by deployment ID                *)

Elsewhere == UNCHANGED <<supervisor, controller, marks, world, files, missed, faults>>

StartRelease ==
    /\ ctl = "loop" /\ refreshing # "loop" /\ rel = "none" /\ id < MaxReleases
    /\ rel' = "run" /\ id' = id + 1 /\ cancelled' = FALSE
    /\ Elsewhere /\ UNCHANGED <<child, wanted, answered>>

\* A reload for the release, or its abort, makes the proxy read all files; the
\* lock of the proxy's files keeps refreshes out.
ReleaseReloads ==
    /\ started /\ proxy = "up" /\ refreshing = "no"
    /\ (rel = "run" /\ ~cancelled /\ ~WatchOver) \/ rel = "abort"
    /\ served' = files
    /\ Elsewhere /\ UNCHANGED <<proxy, asked, releases>>

\* The release completes, or fails, also because the proxy is not up or its
\* context has ended; then it is aborted with a context of its own.
ReleaseEnds ==
    /\ rel = "run" /\ rel' \in {"none", "abort"}
    /\ rel' = "none" => started
    /\ Elsewhere /\ UNCHANGED <<child, id, cancelled, wanted, answered>>

AbortEnds ==
    /\ rel = "abort" /\ rel' = "none"
    /\ Elsewhere /\ UNCHANGED <<child, id, cancelled, wanted, answered>>

\* ActiveDeployments, in handleCancelByDeployment; the server ends with runCtx ...
ApiLooksUp ==
    /\ rel # "none" /\ ~RunOver /\ wanted = None /\ wanted' = id
    /\ Elsewhere /\ UNCHANGED <<child, rel, id, cancelled, answered>>

\* Mutant of ApiCancels: answers, and cancels nothing.
ApiCancelsNothing ==
    /\ wanted # None /\ wanted' = None /\ answered' = wanted
    /\ Elsewhere /\ UNCHANGED <<child, rel, id, cancelled>>

\* ... then CancelDeployment of whatever its service has by now.
ApiCancels ==
    /\ wanted # None /\ wanted' = None /\ answered' = wanted
    /\ cancelled' = (cancelled \/ rel # "none")
    /\ Elsewhere /\ UNCHANGED <<child, rel, id>>

Release == ReleaseReloads \/ ReleaseEnds \/ AbortEnds

-----------------------------------------------------------------------------
(* The world around                                                        *)

ProxyLoads ==
    /\ proxy = "starting" /\ proxy' = "up" /\ served' = files
    /\ UNCHANGED <<supervisor, controller, asked, marks, world, files, missed, releases, faults>>

ProxyExits ==
    /\ proxy \in {"starting", "up"} /\ Fault
    /\ proxy' = "exited" /\ served' = None
    /\ UNCHANGED <<supervisor, controller, asked, marks, world, files, missed, releases>>

\* A container starts, dies or changes its health.
Change ==
    /\ world < MaxChanges /\ world' = world + 1
    /\ event' = (ctl \in {"configs", "mark", "loop"})
    /\ missed' = (missed \/ ctl = "subscribe")
    /\ UNCHANGED <<supervisor, ctl, ctlErr, seen, booted, delayed, refreshing, before, child, marks, files, releases, faults>>

Signal ==
    /\ ~ctx /\ sup # "exit" /\ ctx' = TRUE
    /\ UNCHANGED <<sup, result, run, controller, child, marks, world, files, missed, releases, faults>>

\* The container is killed, or has ended, and is started again: the marks, the
\* configs and the counter of IDs are all that is left.
Restart ==
    /\ Fault
    /\ sup' = "clear" /\ result' = "none" /\ ctx' = FALSE /\ run' = FALSE
    /\ ctl' = "none" /\ ctlErr' = "nil" /\ seen' = 0 /\ booted' = None
    /\ event' = FALSE /\ delayed' = FALSE /\ refreshing' = "no" /\ before' = None
    /\ proxy' = "none" /\ asked' = FALSE /\ served' = None /\ missed' = FALSE
    /\ rel' = "none" /\ cancelled' = FALSE /\ wanted' = None /\ answered' = None
    /\ UNCHANGED <<marks, world, files, id>>

Next ==
    \/ Supervise \/ SuperviseFails \/ Watch \/ WatchReturns
    \/ StartRelease \/ Release \/ ApiLooksUp \/ ApiCancels
    \/ ProxyLoads \/ ProxyExits \/ Change \/ Signal \/ Restart

Spec == Init /\ [][Next]_vars

\* Goroutines are scheduled; a release ends, and aborts, in bounded time (its
\* waits have limits); that Watch returns is owed only once its context has ended.
Fairness ==
    /\ WF_vars(Supervise) /\ WF_vars(ClearReady \/ List \/ Subscribe \/ InitialConfigs \/ MarkReady)
    /\ WF_vars(HandleEvent) /\ WF_vars(DelayedRefresh) /\ WF_vars(EndRefresh) /\ WF_vars(WaitGroup)
    /\ WF_vars(RunOver /\ WatchReturns) /\ WF_vars(rel = "run" /\ ReleaseEnds) /\ WF_vars(AbortEnds)
FairSpec == Spec /\ Fairness

-----------------------------------------------------------------------------
(* Properties                                                              *)

\* The proxy is started only after this process's configs are on disk, and
\* what dr healthcheck calls healthy (.ready, .started and an answer) serves
\* configs at least that new; a process that ended leaves no mark, and reports
\* success only if it was told to end (bundled.go:71-78, 117-136, 167-179).
MarksTellTruth ==
    /\ proxy # "none" => booted # None
    /\ proxy = "up" => booted # None /\ served \in booted .. MaxChanges
    /\ started /\ ctl # "none" => proxy # "none"
    /\ sup = "exit" /\ ctl = "done" => ~ready /\ ~started /\ (result = "nil" => ctx)

\* The proxy is told to quit only after the controller has ended, with the
\* release that it ran: an abort still reaches the proxy (bundled.go:152-155).
ProxyOutlivesReleases == asked => ctl = "done" /\ rel = "none"

\* A cancel call that was answered with ok has not left its deployment running:
\* it is cancelled or over, whatever began in between (server/api.go:143).
CancelledIsOver == answered = id => cancelled \/ rel = "none"

\* Whichever of controller, proxy and signal ends first, everything ends.
EndsTogether == ctx \/ proxy = "exited" \/ ctl = "done" ~> sup \in {"exit", "clear"}

\* A change of containers that came while the proxy was starting, when no
\* config is accepted, still reaches it (configsync.go:231).
ProxyCatchesUp ==
    served # world /\ sup = "select" ~> served = world \/ missed \/ sup # "select"
=============================================================================
