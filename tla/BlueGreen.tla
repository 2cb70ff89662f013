----------------------------- MODULE BlueGreen -----------------------------
(***************************************************************************)
(* The blue-green strategy (strategy/bluegreen.go, strategy/check.go): the *)
(* new containers (green) may first be looked at on a preview address and  *)
(* by a check command; then users move to them, at once if the access log  *)
(* is watched for errors and by a weight otherwise, and the old containers *)
(* (blue) go after a window or a soak time in which users can be sent      *)
(* back.                                                                   *)
(***************************************************************************)
EXTENDS Release

CONSTANTS
    GreenWeight,    \* release.bg.green_weight
    MaxErrors       \* release.check.max_errors

\* ServiceConfig.validate.
ASSUME BlueGreenAssumption == GreenWeight \in 1 .. 100 /\ MaxErrors \in Nat

VARIABLES
    rules,      \* which labels the service sets; they do not change
    errors      \* errorWatch.errors, counted up to the one that is too many

bgVars == <<vars, rules, errors>>

\* A preview host or token, a token (which makes a link), a check command, an
\* error rule.
Rules == {r \in [preview : BOOLEAN, link : BOOLEAN, check : BOOLEAN, watch : BOOLEAN] :
             r.link => r.preview}

BGInit == Init /\ rules \in Rules /\ errors = 0

-----------------------------------------------------------------------------
(* Upstreams.                                                              *)

BlueOnly == Plain(OldSet)
PreviewUpstream == [BlueOnly EXCEPT !.preview = Fresh]

\* With an error watch green takes everyone; otherwise both groups serve, and
\* a green weight of 100 leaves blue a weight of 0, which the proxy configs
\* take for "no weight given".
CutoverUpstream ==
    IF rules.watch THEN Plain(Fresh)
    ELSE [Plain(OldSet \cup Fresh) EXCEPT !.weight = GreenWeight]

-----------------------------------------------------------------------------
(* Before users move.                                                      *)

BGWait == WaitAllHealthy("preview", 1)

\* publishPreview: the token is on disk before the link works.
SaveToken ==
    /\ pc = "preview"
    /\ IF rules.link THEN Save([file EXCEPT !.token = TRUE], "publish", "abort")
                     ELSE file' = file /\ pc' = IF rules.preview THEN "publish" ELSE "check"
    /\ UNCHANGED <<docker, live, nnew, step, cancelled, passed, kept, targets>>

Publish ==
    /\ pc = "publish"
    /\ Apply(PreviewUpstream, "check", "abort")
    /\ UNCHANGED <<docker, file, nnew, step, cancelled, passed, kept, targets>>

\* runChecks: any container may fail the command.
RunChecks ==
    /\ pc = "check"
    /\ \/ ~rules.check /\ pc' = "subscribe"
       \/ rules.check /\ ~cancelled /\ pc' \in {"subscribe", "withdraw"}
       \/ rules.check /\ cancelled /\ pc' = "abort"
    /\ UNCHANGED <<docker, live, file, nnew, step, cancelled, passed, kept, targets>>

\* undoBeforeSwitch: the preview is taken away, ...
Withdraw ==
    /\ pc = "withdraw"
    /\ IF rules.preview THEN Apply(BlueOnly, "undoRemove", "undoRemove")
                        ELSE live' = live /\ pc' = "undoRemove"
    /\ UNCHANGED <<docker, file, nnew, step, cancelled, passed, kept, targets>>

\* ... green is removed, whether that worked or not, ...
UndoRemove ==
    /\ pc = "undoRemove"
    /\ RemoveContainers(Fresh, cancelled)
    /\ pc' = "undoSave"
    /\ UNCHANGED <<live, file, nnew, step, cancelled, passed, targets>>

\* ... and the reason recorded.
UndoSave ==
    /\ pc = "undoSave"
    /\ Save([Idle(OldSet) EXCEPT !.failure = TRUE], "undone", "abort")
    /\ UNCHANGED <<docker, live, nnew, step, cancelled, passed, kept, targets>>

-----------------------------------------------------------------------------
(* Users move.                                                             *)

\* Without its access log a watched release does not go on.
Subscribe ==
    /\ pc = "subscribe"
    /\ \/ pc' = "cutover"
       \/ rules.watch /\ MayFail("log") /\ pc' = "abort"
    /\ UNCHANGED <<docker, live, file, nnew, step, cancelled, passed, kept, targets>>

Cutover ==
    /\ pc = "cutover"
    /\ Apply(CutoverUpstream, "record", "abort")
    /\ UNCHANGED <<docker, file, nnew, step, cancelled, passed, kept, targets>>

\* Mutation: the token stays.
RecordCutoverKeepsToken ==
    /\ pc = "record"
    /\ Save([file EXCEPT !.weight = IF rules.watch THEN 100 ELSE GreenWeight],
            IF rules.watch THEN "window" ELSE "soak", "abort")
    /\ UNCHANGED <<docker, live, nnew, step, cancelled, passed, kept, targets>>

\* The preview ended with the cutover; the token goes from the file.
RecordCutover ==
    /\ pc = "record"
    /\ Save([file EXCEPT !.token = FALSE,
                         !.weight = IF rules.watch THEN 100 ELSE GreenWeight],
            IF rules.watch THEN "window" ELSE "soak", "abort")
    /\ UNCHANGED <<docker, live, nnew, step, cancelled, passed, kept, targets>>

\* settleAfterSoak: then promoteAndDrain, the actions of Release.
Soak ==
    /\ pc = "soak"
    /\ Elapsed("promote", "abort")
    /\ UNCHANGED <<docker, live, file, nnew, step, cancelled, passed, kept, targets>>

\* settleAfterWindow: the first of too many errors, a lost log, the end of the
\* window and the context ends the wait, any of those due at the same time.
Window ==
    /\ pc = "window"
    /\ \/ errors > MaxErrors /\ pc' = "rollback"
       \/ MayFail("log") /\ pc' = "rollback"
       \/ Elapsed("removeOld", "abort")
    /\ UNCHANGED <<docker, live, file, nnew, step, cancelled, passed, kept, targets>>

\* Mutation: a refused config does not stop the rollback.
RollbackRouteRegardless ==
    /\ pc = "rollback"
    /\ Apply(BlueOnly, "rollbackDrain", "rollbackDrain")
    /\ UNCHANGED <<docker, file, nnew, step, cancelled, passed, kept, targets>>

\* undoAfterSwitch is rollbackWithFailure: traffic returns to blue, ...
RollbackRoute ==
    /\ pc = "rollback"
    /\ Apply(BlueOnly, "rollbackDrain", "abort")
    /\ UNCHANGED <<docker, file, nnew, step, cancelled, passed, kept, targets>>

\* ... green gets the drain timeout ...
RollbackDrain ==
    /\ pc = "rollbackDrain"
    /\ Elapsed("undoRemove", "abort")
    /\ UNCHANGED <<docker, live, file, nnew, step, cancelled, passed, kept, targets>>

\* ... and goes, like in UndoRemove and UndoSave, which do the same calls.

-----------------------------------------------------------------------------
(* Requests.                                                               *)

\* errorWatch.observe: green answers a request with an error that counts,
\* between the subscription and the end of the window.
GreenError ==
    /\ rules.watch
    /\ pc \in {"cutover", "record", "window"}
    /\ (live.on \cup live.preview) \cap Fresh # {}
    /\ errors <= MaxErrors
    /\ errors' = errors + 1
    /\ UNCHANGED <<vars, rules>>

BGExecute ==
    \/ SaveInitialBoth \/ BGWait \/ SaveToken \/ Publish \/ RunChecks
    \/ Withdraw \/ UndoRemove \/ UndoSave \/ Subscribe \/ Cutover
    \/ RecordCutover \/ Soak \/ Window \/ RollbackRoute \/ RollbackDrain
    \/ PromoteAndDrain \/ FinishBoth

BGNext ==
    \/ (DeployStep \/ BGExecute \/ Environment) /\ UNCHANGED <<rules, errors>>
    \/ GreenError

BGSpec == BGInit /\ [][BGNext]_bgVars

-----------------------------------------------------------------------------
(* What the strategy must get right.                                       *)

BeforePc == {"execute", "healthy", "preview", "publish", "check",
             "withdraw", "subscribe", "cutover"}
AfterPc == {"record", "soak", "window", "rollback", "rollbackDrain", "promote",
            "drainOld", "routeNew", "removeOld", "finish"}
UndoPc == {"undoRemove", "undoSave"}

\* Every variable holds a value of its type.
BGTypeOK ==
    /\ WorldTypeOK
    /\ pc \in ProloguePc \cup BeforePc \cup AfterPc \cup UndoPc \cup AbortPc \cup Terminal
    /\ step \in 1 .. (NNew + 1)
    /\ rules \in Rules
    /\ errors \in 0 .. (MaxErrors + 1)

\* The preview address and its token work only while users are on the old
\* version, and are gone from the file once the release waits for nothing but
\* the users (state.go: set only while blue/green waits on green).
PreviewBeforeUsersMove ==
    /\ live.preview # {} => live.on = OldSet /\ live.weight = 0
    /\ pc \in {"soak", "window"} \cup (Terminal \ {"failed"}) => ~file.token
    /\ live.preview # {} /\ pc \in BeforePc /\ rules.link => file.token

\* The way back stays open: as long as a window or a soak may still end in a
\* rollback, every old container is there as it was.
WayBackOpen ==
    pc \in BeforePc \cup (AfterPc \ {"finish"}) =>
        \A c \in OldSet : docker[c] \notin {"stopped", "absent"}

\* A crash can be undone: as long as a new container may get users, the file
\* names both sets and says that the release is not over.
CrashCanBeUndone ==
    Reachable \cap Fresh # {} /\ pc \in AfterPc =>
        /\ file.status = "in_progress"
        /\ file.stable = OldSet /\ file.canary = Fresh

\* A release that was undone leaves users on the old containers, says so, and
\* what is left of green is what Docker refused to remove.
UndoneServesOld ==
    pc = "undone" => /\ live.on = OldSet
                     /\ file = [Idle(OldSet) EXCEPT !.failure = TRUE]
                     /\ Fresh \cap Present \subseteq kept
                     /\ \A c \in OldSet : docker[c] \notin {"stopped", "absent"}

=============================================================================
