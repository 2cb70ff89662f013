---------------------------- MODULE DaemonProofs ----------------------------
(***************************************************************************)
(* For any number of changes, releases and faults: the marks tell the      *)
(* truth, the proxy outlives the releases, an answered cancel is one.      *)
(***************************************************************************)
EXTENDS Daemon, TLAPS

-----------------------------------------------------------------------------
(* The inductive invariant: how far supervisor, controller and configs are, *)
(* one against the other.                                                   *)

\* The supervisor's place tells what has started and what has ended.
Places ==
    /\ sup = "clear" => ctl = "none"
    /\ ctl = "none" => proxy = "none" /\ sup \in {"clear", "unmark", "unready", "exit"}
    /\ sup \in {"quit", "quitting", "join"} => ctl = "done"
    /\ sup \in {"unmark", "unready", "exit"} => ctl \in {"none", "done"}
    /\ sup \in {"await", "mark", "select", "quit", "quitting"} => proxy # "none"
    /\ run => sup \notin {"clear", "configs", "start", "await", "mark", "select"}

\* The proxy comes after the initial configs, and so do releases and refreshes,
\* which live within Watch.
Phases ==
    /\ ctl \in {"none", "done"} => rel = "none" /\ refreshing = "no"
    /\ ctl \in {"none", "clear", "list", "subscribe", "configs"} => booted = None
    /\ ctl \in {"mark", "loop"} => booted # None
    /\ ready /\ ctl # "none" => booted # None
    /\ sup \in {"start", "await", "mark", "select"} => booted # None
    /\ proxy # "none" => booted # None
    /\ refreshing # "no" => booted # None

\* No config, on disk, loaded or to be restored, is older than the initial ones.
NoneOlder ==
    /\ seen <= world
    /\ booted # None => booted <= world /\ files \in booted .. MaxChanges
    /\ refreshing # "no" => before \in booted .. MaxChanges
    /\ proxy = "up" => served \in booted .. MaxChanges

\* What is reported, by the marks and at the end.
Reports ==
    /\ started /\ ctl # "none" => proxy # "none"
    /\ sup = "unready" /\ ctl = "done" => ~started
    /\ sup = "exit" /\ ctl = "done" => ~ready /\ ~started
    /\ ctlErr = "canceled" => RunOver
    /\ result = "nil" /\ ~ctx
            => ctl = "done" /\ ctlErr = "error" /\ sup \in {"stop", "quit", "quitting", "join"}

\* What a cancel call knows is no later than the release in the map.
Answers ==
    /\ wanted # None => wanted <= id
    /\ answered # None => answered <= id
    /\ CancelledIsOver

DaemonInv == TypeOK /\ Places /\ Phases /\ NoneOlder /\ Reports /\ Answers /\ ProxyOutlivesReleases

USE DEF Version, Ids, Fault, RunOver, WatchOver, Goto, Return, Alone, Step, Rest, Elsewhere,
        supervisor, refresh, controller, child, marks, releases

-----------------------------------------------------------------------------
(* Each part is kept by every action.                                       *)

\* The flags stay flags.
LEMMA FlagsKept ==
    ASSUME FlagsOK, Next
    PROVE  FlagsOK'
  <1> USE BoundsAssumption DEF FlagsOK
  <1>1. CASE ClearMarks \/ ClearFails
    BY <1>1 DEF ClearMarks, ClearFails
  <1>2. CASE ConfigsReady \/ StartProxy \/ ProxyAnswers
    BY <1>2 DEF ConfigsReady, StartProxy, ProxyAnswers
  <1>3. CASE ConfigsWaitEnds \/ AwaitEnds
    BY <1>3 DEF ConfigsWaitEnds, AwaitEnds, WaitEnds
  <1>4. CASE StartFails \/ MarkFails
    BY <1>4 DEF StartFails, MarkFails
  <1>5. CASE MarkStarted \/ Unmark \/ Unready
    BY <1>5 DEF MarkStarted, Unmark, Unready
  <1>6. CASE CancelController
    BY <1>6 DEF CancelController
  <1>7. CASE AskToQuit \/ JoinProxy \/ JoinController
    BY <1>7 DEF AskToQuit, JoinProxy, JoinController
  <1>8. CASE ClearReady \/ List \/ Subscribe
    BY <1>8 DEF ClearReady, List, Subscribe
  <1>9. CASE InitialConfigs \/ MarkReady
    BY <1>9 DEF InitialConfigs, MarkReady
  <1>10. CASE WaitGroup
    BY <1>10 DEF WaitGroup
  <1>11. CASE HandleEvent \/ DelayedRefresh
    BY <1>11 DEF HandleEvent, DelayedRefresh, BeginRefresh
  <1>12. CASE EndRefresh
    BY <1>12 DEF EndRefresh, RefreshOver, Refreshed, RefreshRefused
  <1>13. CASE StartRelease \/ ReleaseReloads
    BY <1>13 DEF StartRelease, ReleaseReloads
  <1>14. CASE ReleaseEnds \/ AbortEnds \/ ApiLooksUp
    BY <1>14 DEF ReleaseEnds, AbortEnds, ApiLooksUp
  <1>15. CASE ApiCancels
    BY <1>15 DEF ApiCancels
  <1>16. CASE ProxyLoads \/ ProxyExits
    BY <1>16 DEF ProxyLoads, ProxyExits
  <1>17. CASE Change
    BY <1>17 DEF Change
  <1>18. CASE Signal
    BY <1>18 DEF Signal
  <1>19. CASE Restart
    BY <1>19 DEF Restart
  <1>20. CASE SelectEnds \/ WatchReturns
    BY <1>20 DEF SelectEnds, WatchReturns
  <1>21. QED
    BY <1>1, <1>2, <1>3, <1>4, <1>5, <1>6, <1>7, <1>8, <1>9, <1>10, <1>11, <1>12, <1>13, <1>14, <1>15, <1>16, <1>17, <1>18, <1>19, <1>20 DEF Next, Supervise, SuperviseFails, Watch, Release

\* The values keep their types.
LEMMA ValuesKept ==
    ASSUME FlagsOK, ValuesOK, Next
    PROVE  ValuesOK'
  <1> USE BoundsAssumption DEF FlagsOK, ValuesOK
  <1>1. CASE SelectEnds
    BY <1>1 DEF SelectEnds
  <1>2. CASE CancelController
    BY <1>2 DEF CancelController
  <1>3. CASE JoinProxy
    BY <1>3 DEF JoinProxy
  <1>4. CASE JoinController
    BY <1>4 DEF JoinController
  <1>5. CASE List
    BY <1>5 DEF List
  <1>6. CASE InitialConfigs
    BY <1>6 DEF InitialConfigs
  <1>7. CASE WatchReturns
    BY <1>7 DEF WatchReturns
  <1>8. CASE HandleEvent
    BY <1>8 DEF HandleEvent, BeginRefresh
  <1>9. CASE DelayedRefresh
    BY <1>9 DEF DelayedRefresh, BeginRefresh
  <1>10. CASE EndRefresh
    BY <1>10 DEF EndRefresh, RefreshOver, Refreshed, RefreshRefused
  <1>11. CASE StartRelease
    BY <1>11 DEF StartRelease
  <1>12. CASE ReleaseReloads
    BY <1>12 DEF ReleaseReloads
  <1>13. CASE ApiLooksUp
    BY <1>13 DEF ApiLooksUp
  <1>14. CASE ApiCancels
    BY <1>14 DEF ApiCancels
  <1>15. CASE ProxyLoads
    BY <1>15 DEF ProxyLoads
  <1>16. CASE Change
    BY <1>16 DEF Change
  <1>17. CASE Restart
    BY <1>17 DEF Restart
  <1>18. CASE ClearMarks \/ ClearFails \/ ConfigsReady \/ ConfigsWaitEnds \/ StartProxy \/ StartFails \/
          ProxyAnswers \/ AwaitEnds \/ MarkStarted \/ MarkFails \/ AskToQuit \/ Unmark \/ Unready
    BY <1>18 DEF ClearMarks, ClearFails, ConfigsReady, ConfigsWaitEnds, StartProxy, StartFails,
          ProxyAnswers, AwaitEnds, MarkStarted, MarkFails, AskToQuit, Unmark, Unready, WaitEnds
  <1>19. CASE ClearReady \/ Subscribe \/ MarkReady \/ WaitGroup
    BY <1>19 DEF ClearReady, Subscribe, MarkReady, WaitGroup
  <1>20. CASE ReleaseEnds \/ AbortEnds \/ ProxyExits \/ Signal
    BY <1>20 DEF ReleaseEnds, AbortEnds, ProxyExits, Signal
  <1>21. QED
    BY <1>1, <1>2, <1>3, <1>4, <1>5, <1>6, <1>7, <1>8, <1>9, <1>10, <1>11, <1>12, <1>13, <1>14, <1>15, <1>16, <1>17, <1>18, <1>19, <1>20 DEF Next, Supervise, SuperviseFails, Watch, Release

\* The supervisor moves on; the controller ends once; a process begins anew.
LEMMA PlacesKept ==
    ASSUME FlagsOK, ValuesOK, Places, Next
    PROVE  Places'
  <1> USE BoundsAssumption DEF FlagsOK, ValuesOK, Places
  <1>1. CASE CancelController
    BY <1>1 DEF CancelController
  <1>2. CASE WaitGroup
    BY <1>2 DEF WaitGroup
  <1>3. CASE EndRefresh
    BY <1>3 DEF EndRefresh, RefreshOver, Refreshed, RefreshRefused
  <1>4. CASE Restart
    BY <1>4 DEF Restart
  <1>5. CASE ClearMarks \/ ClearFails \/ ConfigsReady \/ ConfigsWaitEnds \/ StartProxy
    BY <1>5 DEF ClearMarks, ClearFails, ConfigsReady, ConfigsWaitEnds, StartProxy, WaitEnds
  <1>6. CASE StartFails \/ ProxyAnswers \/ AwaitEnds \/ MarkStarted \/ MarkFails \/ SelectEnds
    BY <1>6 DEF StartFails, ProxyAnswers, AwaitEnds, MarkStarted, MarkFails, SelectEnds, WaitEnds
  <1>7. CASE AskToQuit \/ JoinProxy \/ JoinController \/ Unmark \/ Unready
    BY <1>7 DEF AskToQuit, JoinProxy, JoinController, Unmark, Unready
  <1>8. CASE ClearReady \/ List \/ Subscribe \/ InitialConfigs \/ MarkReady \/ WatchReturns
    BY <1>8 DEF ClearReady, List, Subscribe, InitialConfigs, MarkReady, WatchReturns
  <1>9. CASE HandleEvent
    BY <1>9 DEF HandleEvent, BeginRefresh
  <1>10. CASE DelayedRefresh
    BY <1>10 DEF DelayedRefresh, BeginRefresh
  <1>11. CASE StartRelease \/ ReleaseReloads \/ ReleaseEnds \/ AbortEnds \/ ApiLooksUp \/ ApiCancels \/
          ProxyLoads \/ ProxyExits \/ Change \/ Signal
    BY <1>11 DEF StartRelease, ReleaseReloads, ReleaseEnds, AbortEnds, ApiLooksUp, ApiCancels,
          ProxyLoads, ProxyExits, Change, Signal
  <1>12. QED
    BY <1>1, <1>2, <1>3, <1>4, <1>5, <1>6, <1>7, <1>8, <1>9, <1>10, <1>11 DEF Next, Supervise, SuperviseFails, Watch, Release

\* Only the initial configs end the time before them; only Watch begins and ends
\* the rest.
LEMMA PhasesKept ==
    ASSUME FlagsOK, ValuesOK, Places, Phases, Next
    PROVE  Phases'
  <1> USE BoundsAssumption DEF FlagsOK, ValuesOK, Places, Phases
  <1>1. CASE ConfigsReady
    BY <1>1 DEF ConfigsReady
  <1>2. CASE StartProxy
    BY <1>2 DEF StartProxy
  <1>3. CASE InitialConfigs
    BY <1>3 DEF InitialConfigs
  <1>4. CASE MarkReady
    BY <1>4 DEF MarkReady
  <1>5. CASE WaitGroup
    BY <1>5 DEF WaitGroup
  <1>6. CASE HandleEvent
    BY <1>6 DEF HandleEvent, BeginRefresh
  <1>7. CASE DelayedRefresh
    BY <1>7 DEF DelayedRefresh, BeginRefresh
  <1>8. CASE StartRelease
    BY <1>8 DEF StartRelease
  <1>9. CASE Restart
    BY <1>9 DEF Restart
  <1>10. CASE ClearMarks \/ ClearFails \/ ConfigsWaitEnds \/ StartFails \/ ProxyAnswers \/ AwaitEnds \/
          MarkStarted \/ MarkFails \/ SelectEnds \/ CancelController \/ AskToQuit \/ JoinProxy \/
          JoinController \/ Unmark \/ Unready
    BY <1>10 DEF ClearMarks, ClearFails, ConfigsWaitEnds, StartFails, ProxyAnswers, AwaitEnds,
          MarkStarted, MarkFails, SelectEnds, CancelController, AskToQuit, JoinProxy,
          JoinController, Unmark, Unready, WaitEnds
  <1>11. CASE ClearReady \/ List \/ Subscribe \/ WatchReturns \/ EndRefresh
    BY <1>11 DEF ClearReady, List, Subscribe, WatchReturns, EndRefresh, RefreshOver, Refreshed,
          RefreshRefused
  <1>12. CASE ReleaseReloads \/ ReleaseEnds \/ AbortEnds \/ ApiLooksUp \/ ApiCancels \/ ProxyLoads \/
          ProxyExits \/ Change \/ Signal
    BY <1>12 DEF ReleaseReloads, ReleaseEnds, AbortEnds, ApiLooksUp, ApiCancels, ProxyLoads,
          ProxyExits, Change, Signal
  <1>13. QED
    BY <1>1, <1>2, <1>3, <1>4, <1>5, <1>6, <1>7, <1>8, <1>9, <1>10, <1>11, <1>12 DEF Next, Supervise, SuperviseFails, Watch, Release

\* What is written, restored or loaded is the initial version or a later one.
LEMMA NoneOlderKept ==
    ASSUME FlagsOK, ValuesOK, Phases, NoneOlder, Next
    PROVE  NoneOlder'
  <1> USE BoundsAssumption DEF FlagsOK, ValuesOK, Phases, NoneOlder
  <1>1. CASE List
    BY <1>1 DEF List
  <1>2. CASE InitialConfigs
    BY <1>2 DEF InitialConfigs
  <1>3. CASE HandleEvent
    BY <1>3 DEF HandleEvent, BeginRefresh
  <1>4. CASE DelayedRefresh
    BY <1>4 DEF DelayedRefresh, BeginRefresh
  <1>5. CASE EndRefresh
    BY <1>5 DEF EndRefresh, RefreshOver, Refreshed, RefreshRefused
  <1>6. CASE ReleaseReloads
    BY <1>6 DEF ReleaseReloads
  <1>7. CASE ProxyLoads
    BY <1>7 DEF ProxyLoads
  <1>8. CASE Change
    BY <1>8 DEF Change
  <1>9. CASE Restart
    BY <1>9 DEF Restart
  <1>10. CASE ClearMarks \/ ClearFails \/ ConfigsReady \/ ConfigsWaitEnds \/ StartProxy \/ StartFails \/
          ProxyAnswers \/ AwaitEnds \/ MarkStarted \/ MarkFails \/ SelectEnds \/ CancelController \/ AskToQuit \/
          JoinProxy \/ JoinController \/ Unmark \/ Unready
    BY <1>10 DEF ClearMarks, ClearFails, ConfigsReady, ConfigsWaitEnds, StartProxy, StartFails,
          ProxyAnswers, AwaitEnds, MarkStarted, MarkFails, SelectEnds, CancelController, AskToQuit,
          JoinProxy, JoinController, Unmark, Unready, WaitEnds
  <1>11. CASE ClearReady \/ Subscribe \/ MarkReady \/ WatchReturns \/ WaitGroup
    BY <1>11 DEF ClearReady, Subscribe, MarkReady, WatchReturns, WaitGroup
  <1>12. CASE StartRelease \/ ReleaseEnds \/ AbortEnds \/ ApiLooksUp \/ ApiCancels \/ ProxyExits \/ Signal
    BY <1>12 DEF StartRelease, ReleaseEnds, AbortEnds, ApiLooksUp, ApiCancels, ProxyExits, Signal
  <1>13. QED
    BY <1>1, <1>2, <1>3, <1>4, <1>5, <1>6, <1>7, <1>8, <1>9, <1>10, <1>11, <1>12 DEF Next, Supervise, SuperviseFails, Watch, Release

\* Marks come after what they report, and go before the process.
LEMMA ReportsKept ==
    ASSUME FlagsOK, ValuesOK, Places, Reports, Next
    PROVE  Reports'
  <1> USE BoundsAssumption DEF FlagsOK, ValuesOK, Places, Reports
  <1>1. CASE ClearMarks
    BY <1>1 DEF ClearMarks
  <1>2. CASE ClearFails
    BY <1>2 DEF ClearFails
  <1>3. CASE ConfigsWaitEnds
    BY <1>3 DEF ConfigsWaitEnds, WaitEnds
  <1>4. CASE AwaitEnds
    BY <1>4 DEF AwaitEnds, WaitEnds
  <1>5. CASE MarkStarted
    BY <1>5 DEF MarkStarted
  <1>6. CASE SelectEnds
    BY <1>6 DEF SelectEnds
  <1>7. CASE JoinController
    BY <1>7 DEF JoinController
  <1>8. CASE Unmark
    BY <1>8 DEF Unmark
  <1>9. CASE Unready
    BY <1>9 DEF Unready
  <1>10. CASE WatchReturns
    BY <1>10 DEF WatchReturns
  <1>11. CASE MarkReady
    BY <1>11 DEF MarkReady
  <1>12. CASE Restart
    BY <1>12 DEF Restart
  <1>13. CASE ConfigsReady \/ StartProxy \/ StartFails \/ ProxyAnswers \/ MarkFails \/ CancelController \/
          AskToQuit \/ JoinProxy
    BY <1>13 DEF ConfigsReady, StartProxy, StartFails, ProxyAnswers, MarkFails, CancelController,
          AskToQuit, JoinProxy
  <1>14. CASE ClearReady \/ List \/ Subscribe \/ InitialConfigs \/ WaitGroup
    BY <1>14 DEF ClearReady, List, Subscribe, InitialConfigs, WaitGroup
  <1>15. CASE HandleEvent
    BY <1>15 DEF HandleEvent, BeginRefresh
  <1>16. CASE DelayedRefresh
    BY <1>16 DEF DelayedRefresh, BeginRefresh
  <1>17. CASE EndRefresh
    BY <1>17 DEF EndRefresh, RefreshOver, Refreshed, RefreshRefused
  <1>18. CASE StartRelease \/ ReleaseReloads \/ ReleaseEnds \/ AbortEnds \/ ApiLooksUp \/ ApiCancels \/
          ProxyLoads \/ ProxyExits \/ Change \/ Signal
    BY <1>18 DEF StartRelease, ReleaseReloads, ReleaseEnds, AbortEnds, ApiLooksUp, ApiCancels,
          ProxyLoads, ProxyExits, Change, Signal
  <1>19. QED
    BY <1>1, <1>2, <1>3, <1>4, <1>5, <1>6, <1>7, <1>8, <1>9, <1>10, <1>11, <1>12, <1>13, <1>14, <1>15, <1>16, <1>17, <1>18 DEF Next, Supervise, SuperviseFails, Watch, Release

\* A new release has a new ID; an answer cancels what runs.
LEMMA AnswersKept ==
    ASSUME FlagsOK, ValuesOK, Answers, CancelledIsOver, Next
    PROVE  Answers'
  <1> USE BoundsAssumption DEF FlagsOK, ValuesOK, Answers, CancelledIsOver
  <1>1. CASE StartRelease
    BY <1>1 DEF StartRelease
  <1>2. CASE ApiLooksUp
    BY <1>2 DEF ApiLooksUp
  <1>3. CASE ApiCancels
    BY <1>3 DEF ApiCancels
  <1>4. CASE Restart
    BY <1>4 DEF Restart
  <1>5. CASE ClearMarks \/ ClearFails \/ ConfigsReady \/ ConfigsWaitEnds \/ StartProxy \/ StartFails \/
          ProxyAnswers \/ AwaitEnds \/ MarkStarted \/ MarkFails \/ SelectEnds \/ CancelController \/ AskToQuit \/
          JoinProxy \/ JoinController \/ Unmark \/ Unready
    BY <1>5 DEF ClearMarks, ClearFails, ConfigsReady, ConfigsWaitEnds, StartProxy, StartFails,
          ProxyAnswers, AwaitEnds, MarkStarted, MarkFails, SelectEnds, CancelController, AskToQuit,
          JoinProxy, JoinController, Unmark, Unready, WaitEnds
  <1>6. CASE ClearReady \/ List \/ Subscribe \/ InitialConfigs \/ MarkReady \/ WatchReturns \/ WaitGroup \/
          HandleEvent \/ DelayedRefresh \/ EndRefresh
    BY <1>6 DEF ClearReady, List, Subscribe, InitialConfigs, MarkReady, WatchReturns, WaitGroup,
          HandleEvent, DelayedRefresh, EndRefresh, BeginRefresh, RefreshOver, Refreshed,
          RefreshRefused
  <1>7. CASE ReleaseReloads \/ ReleaseEnds \/ AbortEnds \/ ProxyLoads \/ ProxyExits \/ Change \/ Signal
    BY <1>7 DEF ReleaseReloads, ReleaseEnds, AbortEnds, ProxyLoads, ProxyExits, Change, Signal
  <1>8. QED
    BY <1>1, <1>2, <1>3, <1>4, <1>5, <1>6, <1>7 DEF Next, Supervise, SuperviseFails, Watch, Release

\* The proxy is asked where the controller is done, and it stays done.
LEMMA QuitKept ==
    ASSUME FlagsOK, ValuesOK, Places, Phases, ProxyOutlivesReleases, Next
    PROVE  ProxyOutlivesReleases'
  <1> USE BoundsAssumption DEF FlagsOK, ValuesOK, Places, Phases, ProxyOutlivesReleases
  <1>1. CASE AskToQuit
    BY <1>1 DEF AskToQuit
  <1>2. CASE StartRelease
    BY <1>2 DEF StartRelease
  <1>3. CASE Restart
    BY <1>3 DEF Restart
  <1>4. CASE ClearMarks \/ ClearFails \/ ConfigsReady \/ ConfigsWaitEnds \/ StartProxy \/ StartFails \/
          ProxyAnswers \/ AwaitEnds \/ MarkStarted \/ MarkFails \/ SelectEnds \/ CancelController \/ JoinProxy \/
          JoinController \/ Unmark \/ Unready
    BY <1>4 DEF ClearMarks, ClearFails, ConfigsReady, ConfigsWaitEnds, StartProxy, StartFails,
          ProxyAnswers, AwaitEnds, MarkStarted, MarkFails, SelectEnds, CancelController, JoinProxy,
          JoinController, Unmark, Unready, WaitEnds
  <1>5. CASE ClearReady \/ List \/ Subscribe \/ InitialConfigs \/ MarkReady \/ WatchReturns \/ WaitGroup \/
          HandleEvent \/ DelayedRefresh \/ EndRefresh
    BY <1>5 DEF ClearReady, List, Subscribe, InitialConfigs, MarkReady, WatchReturns, WaitGroup,
          HandleEvent, DelayedRefresh, EndRefresh, BeginRefresh, RefreshOver, Refreshed,
          RefreshRefused
  <1>6. CASE ReleaseReloads \/ ReleaseEnds \/ AbortEnds \/ ApiLooksUp \/ ApiCancels \/ ProxyLoads \/
          ProxyExits \/ Change \/ Signal
    BY <1>6 DEF ReleaseReloads, ReleaseEnds, AbortEnds, ApiLooksUp, ApiCancels, ProxyLoads,
          ProxyExits, Change, Signal
  <1>7. QED
    BY <1>1, <1>2, <1>3, <1>4, <1>5, <1>6 DEF Next, Supervise, SuperviseFails, Watch, Release

-----------------------------------------------------------------------------
(* The invariant, and what it implies.                                      *)

THEOREM InitInv == Init => DaemonInv
  <1> SUFFICES ASSUME Init PROVE DaemonInv
    OBVIOUS
  <1> USE BoundsAssumption DEF Init
  <1>1. FlagsOK
    BY DEF FlagsOK
  <1>2. ValuesOK
    BY DEF ValuesOK
  <1>3. Places /\ Phases /\ NoneOlder /\ Reports
    BY DEF Places, Phases, NoneOlder, Reports
  <1>4. Answers /\ ProxyOutlivesReleases
    BY DEF Answers, CancelledIsOver, ProxyOutlivesReleases
  <1>5. QED
    BY <1>1, <1>2, <1>3, <1>4 DEF DaemonInv, TypeOK

THEOREM StepInv == DaemonInv /\ [Next]_vars => DaemonInv'
  <1> SUFFICES ASSUME DaemonInv, [Next]_vars PROVE DaemonInv'
    OBVIOUS
  <1> USE DEF DaemonInv
  <1>1. CASE Next
    <2>1. FlagsOK /\ ValuesOK /\ CancelledIsOver
      BY DEF TypeOK, Answers
    <2>2. FlagsOK' /\ ValuesOK' /\ Places' /\ Phases'
      BY <1>1, <2>1, FlagsKept, ValuesKept, PlacesKept, PhasesKept
    <2>3. NoneOlder' /\ Reports' /\ Answers' /\ ProxyOutlivesReleases'
      BY <1>1, <2>1, NoneOlderKept, ReportsKept, AnswersKept, QuitKept
    <2>4. QED
      BY <2>2, <2>3 DEF TypeOK
  <1>2. CASE UNCHANGED vars
    <2>1. TypeOK'
      BY <1>2 DEF TypeOK, FlagsOK, ValuesOK, vars
    <2>2. Places' /\ Phases' /\ NoneOlder' /\ Reports'
      BY <1>2 DEF Places, Phases, NoneOlder, Reports, vars
    <2>3. Answers' /\ ProxyOutlivesReleases'
      BY <1>2 DEF Answers, CancelledIsOver, ProxyOutlivesReleases, vars
    <2>4. QED
      BY <2>1, <2>2, <2>3
  <1>3. QED
    BY <1>1, <1>2

\* Every variable of the process keeps its type, over any number of restarts.
THEOREM TypeCorrect == Spec => []TypeOK
  <1>1. DaemonInv => TypeOK
    BY DEF DaemonInv
  <1>2. QED
    BY InitInv, StepInv, <1>1, PTL DEF Spec

\* The proxy never starts before the configs of this process, never loads older
\* ones, and no mark or success is reported that is not so (bundled.go:71-78,
\* 117-136, 167-179).
THEOREM MarksAreTrue == Spec => []MarksTellTruth
  <1>1. DaemonInv => MarksTellTruth
    BY DEF DaemonInv, Phases, NoneOlder, Reports, MarksTellTruth
  <1>2. QED
    BY InitInv, StepInv, <1>1, PTL DEF Spec

\* The proxy is told to quit after the controller and its release have ended,
\* whatever ended first (bundled.go:152-155).
THEOREM ProxyIsLast == Spec => []ProxyOutlivesReleases
  <1>1. DaemonInv => ProxyOutlivesReleases
    BY DEF DaemonInv
  <1>2. QED
    BY InitInv, StepInv, <1>1, PTL DEF Spec

\* The deployment that a cancel call named is cancelled or over once the call is
\* answered, for any number of releases that follow (server/api.go:143).
THEOREM CancelsAreTrue == Spec => []CancelledIsOver
  <1>1. DaemonInv => CancelledIsOver
    BY DEF DaemonInv, Answers
  <1>2. QED
    BY InitInv, StepInv, <1>1, PTL DEF Spec
=============================================================================
