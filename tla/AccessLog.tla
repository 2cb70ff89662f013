----------------------------- MODULE AccessLog -----------------------------
(***************************************************************************)
(* The access log of the bundled proxy on its way to the releases that     *)
(* count errors: Tee splits the proxy's output into lines, the Hub calls   *)
(* each subscriber, serveConn queues for one socket client, and the Client *)
(* of a `dr release' process reads until it cancels or the stream ends     *)
(* (accesslog/hub.go, socket.go).                                          *)
(*                                                                         *)
(* Abstractions: line i is two pieces, its head and its tail with the      *)
(* newline, since a write may end inside a line; lines are numbered, what  *)
(* they say is left out.  The socket keeps at most WireSize entries.       *)
(***************************************************************************)
EXTENDS Naturals, Sequences, SequencesExt

CONSTANTS
    Readers,    \* `dr release' processes that watch errors
    Stuck,      \* those of them that may be suspended for good
    Lines,      \* bound: requests that the proxy answers
    Long,       \* lines whose head alone is more than maxLine
    MaxWrite,   \* bound: pieces in one write of the proxy
    QueueSize,  \* accesslog.queueSize
    WireSize    \* entries that fit the socket's buffers

ASSUME ReadersAssumption == Stuck \subseteq Readers
ASSUME SizeAssumption ==
    /\ Lines \in Nat /\ Long \subseteq 1 .. Lines
    /\ MaxWrite \in Nat \ {0} /\ QueueSize \in Nat \ {0} /\ WireSize \in Nat \ {0}

VARIABLES
    pieces,     \* pieces that the proxy has written
    stdout,     \* whether Tee.out still takes what it is given
    partial,    \* Tee.partial: nothing, a line's head, or a head dropped
    complete,   \* lines that Write has cut off and not yet published
    log,        \* entries published so far
    calls,      \* subscribers that Publish copied and has yet to call
    subs,       \* Hub.subs
    served,     \* serving: the context of Serve has not ended
    conn,       \* serveConn of each reader
    queue, hand, overflowed,    \* its channel, the entry it encodes, the flag
    wire,       \* entries in the socket
    helloAt,    \* how many entries were published when the hello was sent
    client,     \* Client.Subscribe of each reader and its goroutine
    cancelled, lost,
    got         \* entries that fn was called with

tee == <<pieces, stdout, partial, complete>>
hub == <<log, calls, subs>>
server == <<served, conn, queue, hand, overflowed, helloAt>>
readers == <<client, cancelled, lost, got>>
vars == <<tee, hub, server, wire, readers>>

Entry == 1 .. Lines
ConnPc == {"none", "hello", "select", "encode", "closed"}
ClientPc == {"idle", "dialed", "reading", "suspended", "ended", "done", "refused"}

TypeOK ==
    /\ pieces \in 0 .. 2 * Lines /\ stdout \in BOOLEAN
    /\ partial \in {"none", "head", "dropped"}
    /\ complete \in Seq([line : Entry, whole : BOOLEAN]) /\ Len(complete) <= MaxWrite
    /\ log \in Seq(Entry) /\ Len(log) <= Lines
    /\ calls \subseteq Readers /\ subs \subseteq Readers /\ served \in BOOLEAN
    /\ conn \in [Readers -> ConnPc] /\ client \in [Readers -> ClientPc]
    /\ \A r \in Readers :
        /\ queue[r] \in Seq(Entry) /\ Len(queue[r]) <= QueueSize
        /\ hand[r] \in Seq(Entry) /\ Len(hand[r]) <= 1
        /\ wire[r] \in Seq(Entry) /\ Len(wire[r]) <= WireSize
        /\ got[r] \in Seq(Entry)
    /\ overflowed \in [Readers -> BOOLEAN] /\ helloAt \in [Readers -> 0 .. Lines]
    /\ cancelled \in [Readers -> BOOLEAN] /\ lost \in [Readers -> BOOLEAN]

Init ==
    /\ pieces = 0 /\ stdout = TRUE /\ partial = "none" /\ complete = <<>>
    /\ log = <<>> /\ calls = {} /\ subs = {} /\ served = TRUE
    /\ conn = [r \in Readers |-> "none"]
    /\ queue = [r \in Readers |-> <<>>] /\ hand = [r \in Readers |-> <<>>]
    /\ overflowed = [r \in Readers |-> FALSE] /\ helloAt = [r \in Readers |-> 0]
    /\ wire = [r \in Readers |-> <<>>]
    /\ client = [r \in Readers |-> "idle"]
    /\ cancelled = [r \in Readers |-> FALSE] /\ lost = [r \in Readers |-> FALSE]
    /\ got = [r \in Readers |-> <<>>]

-----------------------------------------------------------------------------
(* The proxy's output                                                      *)

\* Piece 2i - 1 is the head of line i and piece 2i its tail.
LineOf(p) == (p + 1) \div 2
IsTail(p) == p % 2 = 0

\* The lines that end in the pieces from first to last.  A line has lost its
\* head if that was in an earlier write and too long to keep.
CutOff(first, last) ==
    LET before == (first - 1) \div 2
    IN  [j \in 1 .. last \div 2 - before |->
            [line |-> before + j, whole |-> 2 * (before + j) > first \/ partial = "head"]]

\* Of a Write that drops what has no newline.
KeptNothing(last) == IF IsTail(last) THEN "none" ELSE "dropped"

\* What Write keeps of a line without a newline, up to maxLine.
Kept(last) ==
    IF IsTail(last) THEN "none" ELSE IF LineOf(last) \in Long THEN "dropped" ELSE "head"

\* Write under its lock, one chunk of n pieces at a time.  A write to out that
\* fails takes some of it and ends the copy of the proxy's output.
Write ==
    /\ stdout /\ complete = <<>> /\ calls = {}
    /\ \E n \in 1 .. MaxWrite, ok \in BOOLEAN :
        /\ pieces + n <= 2 * Lines
        /\ pieces' = pieces + n /\ stdout' = ok
        /\ complete' = CutOff(pieces + 1, pieces + n)
        /\ partial' = Kept(pieces + n)
    /\ UNCHANGED <<hub, server, wire, readers>>

\* Publish: the subscribers are copied under Hub.mu and called after it.
\* The parser takes a line that lost its head if what is left ends as it must.
Publish ==
    /\ complete # <<>> /\ calls = {}
    /\ complete' = Tail(complete)
    /\ \/ log' = Append(log, Head(complete).line) /\ calls' = subs
       \/ ~Head(complete).whole /\ UNCHANGED <<log, calls>>
    /\ UNCHANGED <<pieces, stdout, partial, subs, server, wire, readers>>

\* A subscriber that drops what does not fit and says nothing.
OfferDrops(r) ==
    /\ queue' = [queue EXCEPT ![r] = IF Len(@) < QueueSize THEN Append(@, Last(log)) ELSE @]
    /\ UNCHANGED overflowed

\* The function that serveConn subscribes: it never waits.
Offer(r) ==
    IF Len(queue[r]) < QueueSize
    THEN queue' = [queue EXCEPT ![r] = Append(@, Last(log))] /\ UNCHANGED overflowed
    ELSE overflowed' = [overflowed EXCEPT ![r] = TRUE] /\ UNCHANGED queue

\* Publish calls one subscriber, whether or not it has cancelled by now.
Call(r) ==
    /\ r \in calls /\ calls' = calls \ {r}
    /\ Offer(r)
    /\ UNCHANGED <<tee, log, subs, served, conn, hand, helloAt, wire, readers>>

-----------------------------------------------------------------------------
(* The controller's side of a connection                                   *)

Goto(r, pc) == conn' = [conn EXCEPT ![r] = pc]

\* The client's end is closed: it cancelled, or it never got its hello.
Hung(r) == cancelled[r] \/ client[r] = "refused"

\* serveConn subscribes ...
Accept(r) ==
    /\ served /\ client[r] \in {"dialed", "refused"} /\ conn[r] = "none"
    /\ subs' = subs \cup {r}
    /\ Goto(r, "hello")
    /\ UNCHANGED <<tee, log, calls, served, queue, hand, overflowed, helloAt, wire, readers>>

\* ... and then says so, or finds the client gone.
Hello(r) ==
    /\ conn[r] = "hello"
    /\ IF Hung(r) THEN Goto(r, "closed") /\ subs' = subs \ {r} /\ UNCHANGED helloAt
       ELSE Goto(r, "select") /\ UNCHANGED subs /\ helloAt' = [helloAt EXCEPT ![r] = Len(log)]
    /\ UNCHANGED <<tee, log, calls, served, queue, hand, overflowed, wire, readers>>

\* serveConn returns: it unsubscribes and closes the connection.
Return(r) ==
    /\ Goto(r, "closed") /\ subs' = subs \ {r}
    /\ UNCHANGED <<tee, log, calls, served, queue, hand, overflowed, helloAt, wire, readers>>

\* The select takes an entry ...
Take(r) ==
    /\ conn[r] = "select" /\ queue[r] # <<>>
    /\ hand' = [hand EXCEPT ![r] = <<Head(queue[r])>>]
    /\ queue' = [queue EXCEPT ![r] = Tail(@)]
    /\ Goto(r, "encode")
    /\ UNCHANGED <<tee, hub, served, overflowed, helloAt, wire, readers>>

\* ... and Encode waits for room in the socket, or fails when the client is gone.
Encode(r) ==
    /\ conn[r] = "encode" /\ ~Hung(r) /\ Len(wire[r]) < WireSize
    /\ wire' = [wire EXCEPT ![r] = Append(@, hand[r][1])]
    /\ hand' = [hand EXCEPT ![r] = <<>>]
    /\ Goto(r, "select")
    /\ UNCHANGED <<tee, hub, served, queue, overflowed, helloAt, readers>>

EncodeFails(r) == conn[r] = "encode" /\ Hung(r) /\ Return(r)

\* The tick of a serveConn that looks at the queue instead of the flag.
TickWhenFull(r) == conn[r] = "select" /\ Len(queue[r]) = QueueSize /\ Return(r)

\* The tick of 100 ms finds the flag set.
Tick(r) == conn[r] = "select" /\ overflowed[r] /\ Return(r)

\* Of a serveConn that does not read from its client.
GoneWhenStopped(r) == conn[r] = "select" /\ ~served /\ Return(r)

\* The connection was closed by the client, or Serve's context has ended.
Gone(r) == conn[r] = "select" /\ (Hung(r) \/ ~served) /\ Return(r)

\* The context of Serve ends; its listener and its socket file go.
Stop ==
    /\ served /\ served' = FALSE
    /\ UNCHANGED <<tee, hub, conn, queue, hand, overflowed, helloAt, wire, readers>>

-----------------------------------------------------------------------------
(* The client, in the process of the release                               *)

Become(r, pc) == client' = [client EXCEPT ![r] = pc]

\* Client.Subscribe: without a controller that listens there is an error.
Dial(r) ==
    /\ client[r] = "idle"
    /\ IF served THEN Become(r, "dialed") ELSE Become(r, "refused")
    /\ UNCHANGED <<tee, hub, server, wire, cancelled, lost, got>>

\* The hello arrives, ...
ReadHello(r) ==
    /\ client[r] = "dialed" /\ conn[r] \in {"select", "encode", "closed"}
    /\ Become(r, "reading")
    /\ UNCHANGED <<tee, hub, server, wire, cancelled, lost, got>>

\* ... or not within 5 seconds, or the listener closed before it accepted.
NoHello(r) ==
    /\ client[r] = "dialed"
    /\ Become(r, "refused")
    /\ UNCHANGED <<tee, hub, server, wire, cancelled, lost, got>>

\* The goroutine decodes the next entry and calls fn.  What it has buffered it
\* still decodes after a cancel.
Decode(r) ==
    /\ client[r] = "reading" /\ wire[r] # <<>>
    /\ got' = [got EXCEPT ![r] = Append(@, Head(wire[r]))]
    /\ wire' = [wire EXCEPT ![r] = Tail(@)]
    /\ UNCHANGED <<tee, hub, server, client, cancelled, lost>>

\* Decode fails: the stream ended or the release closed it.
StreamEnds(r) ==
    /\ client[r] = "reading" /\ (cancelled[r] \/ (conn[r] = "closed" /\ wire[r] = <<>>))
    /\ Become(r, "ended")
    /\ UNCHANGED <<tee, hub, server, wire, cancelled, lost, got>>

\* The goroutine's last step: lost closes unless the release cancelled.
TellLost(r) ==
    /\ client[r] = "ended"
    /\ Become(r, "done")
    /\ lost' = [lost EXCEPT ![r] = ~cancelled[r]]
    /\ UNCHANGED <<tee, hub, server, wire, cancelled, got>>

\* The release has seen enough.
Cancel(r) ==
    /\ client[r] \in {"reading", "ended", "done"} /\ ~cancelled[r]
    /\ cancelled' = [cancelled EXCEPT ![r] = TRUE]
    /\ UNCHANGED <<tee, hub, server, wire, client, lost, got>>

\* The process of the release is suspended; its end of the socket stays open.
Suspend(r) ==
    /\ r \in Stuck /\ client[r] = "reading"
    /\ Become(r, "suspended")
    /\ UNCHANGED <<tee, hub, server, wire, cancelled, lost, got>>

-----------------------------------------------------------------------------
Proxy == Write \/ Publish \/ \E r \in Readers : Call(r)
Serving(r) == Accept(r) \/ Hello(r) \/ Take(r) \/ Encode(r) \/ EncodeFails(r) \/ Tick(r) \/ Gone(r)
Reading(r) == ReadHello(r) \/ Decode(r) \/ StreamEnds(r) \/ TellLost(r)
Next ==
    \/ Proxy \/ Stop
    \/ \E r \in Readers : Serving(r) \/ Reading(r) \/ Dial(r) \/ NoHello(r) \/ Cancel(r) \/ Suspend(r)

Spec == Init /\ [][Next]_vars

\* Publish and its calls run to their end; the goroutines of a connection are
\* scheduled, its select takes a tick or a closed connection some time though
\* entries are ready as well; clients read until they are suspended.
Fairness ==
    /\ WF_vars(Publish) /\ \A r \in Readers : WF_vars(Call(r))
    /\ \A r \in Readers : WF_vars(Serving(r)) /\ SF_vars(Tick(r)) /\ SF_vars(Gone(r))
    /\ \A r \in Readers : WF_vars(Reading(r))
FairSpec == Spec /\ Fairness

-----------------------------------------------------------------------------
(* Properties                                                              *)

\* Every line that was written to its end and is not too long is published or
\* about to be, however the proxy's writes cut it, and each in its turn: a long
\* line takes none of its neighbours with it (hub.go:78, Write).
LinesSurviveWrites ==
    LET ended == 1 .. pieces \div 2
        coming == log \o [i \in 1 .. Len(complete) |-> complete[i].line]
    IN  /\ \A i, j \in 1 .. Len(coming) : i < j => coming[i] < coming[j]
        /\ ended \ Long \subseteq ToSet(coming)
        /\ \A i \in 1 .. Len(complete) : complete[i].line \notin Long => complete[i].whole

\* The entries published after the reader was told it is subscribed.
Due(r) ==
    LET called == IF r \in calls THEN Len(log) - 1 ELSE Len(log)
    IN  SubSeq(log, helloAt[r] + 1, called)

\* "The hello tells the client it is subscribed, so entries after it are not
\* missed" (socket.go:75): while the connection lives and has not overflowed,
\* each later entry was read or is on its way, once and in order.
NothingMissedAfterHello ==
    \A r \in Readers :
        conn[r] \in {"select", "encode"} /\ ~overflowed[r]
        => IsSuffix(Due(r), got[r] \o wire[r] \o hand[r] \o queue[r])

\* A release that reads and missed an entry is told: the stream breaks, unless
\* the release is done with it (socket.go:21, the queue; strategy/check.go:144).
LossIsTold ==
    \A r \in Readers : overflowed[r] /\ client[r] = "reading"
        ~> lost[r] \/ cancelled[r] \/ client[r] = "suspended"

\* A connection whose release has cancelled is left by the controller, and the
\* Hub forgets its subscriber: no goroutine and no queue stays behind.
NoConnectionLeaks == \A r \in Readers : cancelled[r] ~> conn[r] = "closed" /\ r \notin subs
=============================================================================
