-------------------------- MODULE AccessLogProofs --------------------------
(***************************************************************************)
(* For any number of readers, lines, write sizes and queue sizes: what     *)
(* becomes of the lines that the proxy writes, and of the entries that are *)
(* published once a reader has its hello; and the bounds of all buffers.   *)
(***************************************************************************)
EXTENDS AccessLog, SequenceTheorems, TLAPS

-----------------------------------------------------------------------------
(* Sequences                                                                *)

\* An entry that moves from the head of one sequence to the end of the one
\* before it.
LEMMA MoveHead ==
    ASSUME NEW S, NEW s \in Seq(S), NEW t \in Seq(S), t # <<>>
    PROVE  Append(s, Head(t)) \o Tail(t) = s \o t
  <1>1. Head(t) \in S /\ Tail(t) \in Seq(S) /\ Append(s, Head(t)) \in Seq(S)
    OBVIOUS
  <1> DEFINE u == Append(s, Head(t)) \o Tail(t)
  <1>2. u \in Seq(S) /\ s \o t \in Seq(S) /\ Len(u) = Len(s \o t)
    BY <1>1
  <1>3. \A i \in 1 .. Len(u) : u[i] = (s \o t)[i]
    BY <1>1
  <1>4. QED
    BY <1>2, <1>3, SeqEqual

LEMMA ConcatAppend ==
    \A s, t \in Seq(Entry) : \A e \in Entry : s \o Append(t, e) = Append(s \o t, e)
  <1> TAKE s, t \in Seq(Entry)
  <1> TAKE e \in Entry
  <1>1. <<e>> \in Seq(Entry) /\ s \o t \in Seq(Entry)
    OBVIOUS
  <1>2. s \o (t \o <<e>>) = (s \o t) \o <<e>>
    BY <1>1, ConcatAssociative
  <1>3. t \o <<e>> = Append(t, e) /\ (s \o t) \o <<e>> = Append(s \o t, e)
    BY <1>1, AppendIsConcat
  <1>4. QED
    BY <1>2, <1>3, Zenon

-----------------------------------------------------------------------------
(* Types                                                                    *)

Types ==
    /\ pieces \in 0 .. 2 * Lines /\ partial \in {"none", "head", "dropped"}
    /\ complete \in Seq([line : Entry, whole : BOOLEAN])
    /\ log \in Seq(Entry) /\ calls \subseteq Readers /\ subs \subseteq Readers
    /\ queue \in [Readers -> Seq(Entry)] /\ hand \in [Readers -> Seq(Entry)]
    /\ wire \in [Readers -> Seq(Entry)] /\ got \in [Readers -> Seq(Entry)]
    /\ conn \in [Readers -> ConnPc] /\ overflowed \in [Readers -> BOOLEAN]
    /\ helloAt \in [Readers -> Nat] /\ (calls # {} => log # <<>>)

\* An entry between queue and socket is in the hand of a connection that encodes
\* it; the Hub knows each connection that may still queue.
Connections == \A r \in Readers :
    /\ conn[r] \in {"none", "hello", "select"} => hand[r] = <<>>
    /\ conn[r] = "encode" => \E e \in Entry : hand[r] = <<e>>
    /\ conn[r] \in {"hello", "select", "encode"} => r \in subs

LEMMA CutOffType ==
    ASSUME NEW first \in Nat \ {0}, NEW last \in first - 1 .. 2 * Lines
    PROVE  /\ CutOff(first, last) \in Seq([line : Entry, whole : BOOLEAN])
           /\ Len(CutOff(first, last)) = last \div 2 - (first - 1) \div 2
           /\ \A j \in 1 .. last \div 2 - (first - 1) \div 2 :
                  CutOff(first, last)[j].line = (first - 1) \div 2 + j
           /\ \A j \in 1 .. last \div 2 - (first - 1) \div 2 :
                  CutOff(first, last)[j].whole = (2 * ((first - 1) \div 2 + j) > first \/ partial = "head")
  <1> DEFINE before == (first - 1) \div 2
             n == last \div 2 - before
             c == CutOff(first, last)
  <1>1. before \in Nat /\ last \div 2 \in Nat /\ before <= last \div 2 /\ last \div 2 <= Lines
    BY SizeAssumption
  <1>2. n \in Nat
    BY <1>1
  <1>3. c = [j \in 1 .. n |-> [line |-> before + j, whole |-> 2 * (before + j) > first \/ partial = "head"]]
    BY DEF CutOff
  <1> HIDE DEF before, n, c
  <1>4. \A j \in 1 .. n : [line |-> before + j, whole |-> 2 * (before + j) > first \/ partial = "head"]
                              \in [line : Entry, whole : BOOLEAN]
    BY <1>1, SizeAssumption DEF Entry, n
  <1>5. c \in Seq([line : Entry, whole : BOOLEAN]) /\ Len(c) = n
    BY <1>2, <1>3, <1>4
  <1>6. QED
    BY <1>3, <1>5 DEF before, n, c

LEMMA TypesInit == Init => Types /\ Connections
  BY SizeAssumption DEF Init, Types, ConnPc, Connections

LEMMA OfferType ==
    ASSUME Types, NEW r \in Readers, Call(r)
    PROVE  /\ UNCHANGED <<tee, log, subs, served, conn, hand, helloAt, wire, readers>>
           /\ calls' = calls \ {r} /\ Last(log) \in Entry /\ log # <<>>
           /\ \/ queue' = [queue EXCEPT ![r] = Append(@, Last(log))] /\ overflowed' = overflowed
              \/ queue' = queue /\ overflowed' = [overflowed EXCEPT ![r] = TRUE]
  <1>1. log \in Seq(Entry) /\ log # <<>>
    BY DEF Types, Call
  <1>2. Last(log) \in Entry
    BY <1>1 DEF Last
  <1>3. QED
    BY <1>1, <1>2 DEF Call, Offer

\* What no reader's entries and no published one is touched by.
Quiet == UNCHANGED <<tee, hub, wire, got, conn, queue, hand, overflowed, helloAt>>

LEMMA Steps ==
    ASSUME [Next]_vars
    PROVE  \/ Write \/ Publish \/ Quiet
           \/ \E r \in Readers : Call(r) \/ Serving(r) \/ Decode(r)
  <1> USE DEF Quiet
  <1>1. ASSUME NEW r \in Readers, ReadHello(r) \/ StreamEnds(r) \/ TellLost(r) PROVE Quiet
    BY <1>1 DEF ReadHello, StreamEnds, TellLost, server
  <1>2. ASSUME NEW r \in Readers, Dial(r) \/ NoHello(r) \/ Cancel(r) \/ Suspend(r) PROVE Quiet
    BY <1>2 DEF Dial, NoHello, Cancel, Suspend, server
  <1>3. ASSUME Stop \/ UNCHANGED vars PROVE Quiet
    BY <1>3 DEF Stop, vars, server, readers
  <1>4. QED
    BY <1>1, <1>2, <1>3 DEF Next, Proxy, Reading

LEMMA TypesNext ==
    ASSUME Types, Connections, [Next]_vars
    PROVE  Types'
  <1>1. CASE Write
    <2>1. PICK n \in 1 .. MaxWrite : /\ pieces + n <= 2 * Lines /\ pieces' = pieces + n
                                     /\ complete' = CutOff(pieces + 1, pieces + n)
                                     /\ partial' = Kept(pieces + n)
      BY <1>1 DEF Write
    <2>2. /\ pieces + 1 \in Nat \ {0} /\ pieces + n \in (pieces + 1) - 1 .. 2 * Lines
          /\ pieces' \in 0 .. 2 * Lines
      BY <2>1, SizeAssumption DEF Types
    <2>3. complete' \in Seq([line : Entry, whole : BOOLEAN])
      BY <2>1, <2>2, CutOffType
    <2>4. partial' \in {"none", "head", "dropped"}
      BY <2>1 DEF Kept
    <2>5. QED
      BY <1>1, <2>2, <2>3, <2>4 DEF Types, Write, hub, server, readers
  <1>2. CASE Publish
    <2>1. complete # <<>> /\ complete \in Seq([line : Entry, whole : BOOLEAN]) /\ log \in Seq(Entry)
      BY <1>2 DEF Publish, Types
    <2>2. Head(complete) \in [line : Entry, whole : BOOLEAN] /\ complete' \in Seq([line : Entry, whole : BOOLEAN])
      BY <1>2, <2>1, HeadTailProperties DEF Publish
    <2>3. /\ Append(log, Head(complete).line) \in Seq(Entry)
          /\ Append(log, Head(complete).line) # <<>>
      <3>1. Head(complete).line \in Entry
        BY <2>2
      <3>2. QED
        BY <2>1, <3>1
    <2>4. QED
      BY <1>2, <2>2, <2>3 DEF Types, Publish, server, readers
  <1>3. ASSUME NEW r \in Readers, Call(r) PROVE Types'
    <2>1. queue' \in [Readers -> Seq(Entry)] /\ overflowed' \in [Readers -> BOOLEAN]
      <3>1. Append(queue[r], Last(log)) \in Seq(Entry)
        BY <1>3, OfferType DEF Types
      <3>2. QED
        BY <1>3, <3>1, OfferType DEF Types
    <2>2. QED
      BY <1>3, <2>1, OfferType DEF Types, tee, readers
  <1>4. ASSUME NEW r \in Readers, Serving(r) PROVE Types'
    <2> USE DEF Types, Goto, Return, ConnPc, tee, hub, readers
    <2>0. Len(log) \in Nat
      OBVIOUS
    <2>1. CASE Accept(r) \/ EncodeFails(r) \/ Tick(r) \/ Gone(r)
      BY <2>1 DEF Accept, EncodeFails, Tick, Gone
    <2>4. CASE Hello(r)
      BY <2>0, <2>4 DEF Hello
    <2>2. CASE Take(r)
      <3>1. queue[r] \in Seq(Entry) /\ queue[r] # <<>>
        BY <2>2 DEF Take
      <3>2. <<Head(queue[r])>> \in Seq(Entry) /\ Tail(queue[r]) \in Seq(Entry)
        BY <3>1
      <3>3. QED
        BY <2>2, <3>2 DEF Take
    <2>3. CASE Encode(r)
      <3>1. PICK e \in Entry : hand[r] = <<e>>
        BY <2>3 DEF Encode, Connections
      <3>2. /\ wire' = [wire EXCEPT ![r] = Append(wire[r], e)] /\ hand' = [hand EXCEPT ![r] = <<>>]
            /\ wire[r] \in Seq(Entry)
        BY <2>3, <3>1 DEF Encode
      <3>3. Append(wire[r], e) \in Seq(Entry)
        BY <3>2
      <3>4. QED
        BY <2>3, <3>2, <3>3 DEF Encode
    <2>5. QED
      BY <1>4, <2>1, <2>2, <2>3, <2>4 DEF Serving
  <1>5. ASSUME NEW r \in Readers, Decode(r) PROVE Types'
    <2>1. wire[r] \in Seq(Entry) /\ wire[r] # <<>> /\ got[r] \in Seq(Entry)
      BY <1>5 DEF Decode, Types
    <2>2. Append(got[r], Head(wire[r])) \in Seq(Entry) /\ Tail(wire[r]) \in Seq(Entry)
      BY <2>1
    <2>3. QED
      BY <1>5, <2>2 DEF Decode, Types, tee, hub, server
  <1>6. CASE Quiet
    BY <1>6 DEF Quiet, Types, tee, hub
  <1>7. QED
    BY <1>1, <1>2, <1>3, <1>4, <1>5, <1>6, Steps

LEMMA ConnectionsNext ==
    ASSUME Types, Connections, [Next]_vars
    PROVE  Connections'
  <1> USE DEF Connections, tee, hub, readers
  <1>1. CASE Write
    BY <1>1 DEF Write, server
  <1>2. CASE Publish
    BY <1>2 DEF Publish, server
  <1>3. ASSUME NEW r \in Readers, Call(r) PROVE Connections'
    BY <1>3 DEF Call
  <1>4. ASSUME NEW r \in Readers, Serving(r) PROVE Connections'
    <2> USE DEF Goto, Return
    <2>1. conn \in [Readers -> ConnPc] /\ hand \in [Readers -> Seq(Entry)]
      BY DEF Types
    <2>2. CASE Accept(r) \/ Hello(r) \/ EncodeFails(r) \/ Tick(r) \/ Gone(r)
      BY <2>1, <2>2 DEF Accept, Hello, EncodeFails, Tick, Gone
    <2>3. CASE Take(r)
      <3>1. Head(queue[r]) \in Entry
        BY <2>3 DEF Take, Types
      <3>2. QED
        BY <2>1, <2>3, <3>1 DEF Take
    <2>4. CASE Encode(r)
      BY <2>1, <2>4 DEF Encode
    <2>5. QED
      BY <1>4, <2>2, <2>3, <2>4 DEF Serving
  <1>5. ASSUME NEW r \in Readers, Decode(r) PROVE Connections'
    BY <1>5 DEF Decode, server
  <1>6. CASE Quiet
    BY <1>6 DEF Quiet
  <1>7. QED
    BY <1>1, <1>2, <1>3, <1>4, <1>5, <1>6, Steps

-----------------------------------------------------------------------------
(* The lines                                                                *)

Ended == pieces \div 2

\* The lines that Write has cut off follow one another up to the last one that
\* ended; what was published is in order before them and has all that is not too
\* long; and a head that is due is kept.
LinesInv ==
    /\ Len(complete) <= Ended
    /\ \A i \in 1 .. Len(complete) : complete[i].line = Ended - Len(complete) + i
    /\ \A i \in 1 .. Len(complete) : complete[i].whole \/ complete[i].line \in Long
    /\ \A i \in 1 .. Len(log) : log[i] <= Ended - Len(complete)
    /\ \A i, j \in 1 .. Len(log) : i < j => log[i] < log[j]
    /\ \A n \in 1 .. Ended - Len(complete) : n \in Long \/ \E i \in 1 .. Len(log) : log[i] = n
    /\ pieces % 2 = 1 => partial = "head" \/ Ended + 1 \in Long

LEMMA LinesInit == Init => LinesInv
  BY DEF Init, LinesInv, Ended

LEMMA LinesNext ==
    ASSUME Types, LinesInv, [Next]_vars
    PROVE  LinesInv'
  <1>1. CASE Write
    <2>1. PICK n \in 1 .. MaxWrite : /\ pieces + n <= 2 * Lines /\ pieces' = pieces + n
                                     /\ complete' = CutOff(pieces + 1, pieces + n)
                                     /\ partial' = Kept(pieces + n)
      BY <1>1 DEF Write
    <2>2. complete = <<>> /\ log' = log /\ Len(complete) = 0
      BY <1>1 DEF Write, hub
    <2>3. /\ pieces \in Nat /\ Ended \in Nat /\ Ended' \in Nat /\ Ended <= Ended'
          /\ (pieces + 1 - 1) \div 2 = Ended /\ (pieces + n) \div 2 = Ended'
      BY <2>1, SizeAssumption DEF Types, Ended
    <2>4. /\ Len(complete') = Ended' - Ended
          /\ \A j \in 1 .. Ended' - Ended : complete'[j].line = Ended + j
          /\ \A j \in 1 .. Ended' - Ended :
                complete'[j].whole = (2 * (Ended + j) > pieces + 1 \/ partial = "head")
      <3> DEFINE first == pieces + 1
                 last == pieces + n
      <3>1. first \in Nat \ {0} /\ last \in first - 1 .. 2 * Lines
        BY <2>1, <2>3, SizeAssumption
      <3>2. /\ complete' = CutOff(first, last) /\ (first - 1) \div 2 = Ended /\ last \div 2 = Ended'
            /\ first = pieces + 1
        BY <2>1, <2>3
      <3> HIDE DEF first, last
      <3>3. /\ Len(CutOff(first, last)) = last \div 2 - (first - 1) \div 2
            /\ \A j \in 1 .. last \div 2 - (first - 1) \div 2 :
                  CutOff(first, last)[j].line = (first - 1) \div 2 + j
            /\ \A j \in 1 .. last \div 2 - (first - 1) \div 2 :
                  CutOff(first, last)[j].whole = (2 * ((first - 1) \div 2 + j) > first \/ partial = "head")
        BY <3>1, CutOffType, Zenon
      <3>4. QED
        BY <3>2, <3>3, Zenon
    <2>5. \A j \in 1 .. Ended' - Ended : complete'[j].whole \/ complete'[j].line \in Long
      <3> TAKE j \in 1 .. Ended' - Ended
      <3>1. CASE 2 * (Ended + j) > pieces + 1
        BY <2>4, <3>1
      <3>2. CASE ~(2 * (Ended + j) > pieces + 1)
        <4>1. j = 1 /\ pieces % 2 = 1
          BY <2>3, <3>2 DEF Ended
        <4>2. QED
          BY <2>4, <4>1 DEF LinesInv
      <3>3. QED
        BY <3>1, <3>2
    <2>6. pieces' % 2 = 1 => partial' = "head" \/ Ended' + 1 \in Long
      BY <2>1, <2>3 DEF Kept, IsTail, LineOf, Ended
    <2>7. Ended' - Len(complete') = Ended /\ Ended - Len(complete) = Ended /\ Len(complete') <= Ended'
      <3> DEFINE old == Ended
                 new == Ended'
                 cut == Len(complete')
      <3>1. old \in Nat /\ new \in Nat /\ old <= new /\ cut = new - old /\ Len(complete) = 0
        BY <2>2, <2>3, <2>4
      <3> HIDE DEF old, new, cut
      <3>2. new - cut = old /\ cut <= new /\ old - 0 = old
        BY <3>1
      <3>3. QED
        BY <3>1, <3>2, Zenon DEF old, new, cut
    <2>8. /\ \A i \in 1 .. Len(log') : log'[i] <= Ended' - Len(complete')
          /\ \A i, j \in 1 .. Len(log') : i < j => log'[i] < log'[j]
          /\ \A m \in 1 .. Ended' - Len(complete') : m \in Long \/ \E i \in 1 .. Len(log') : log'[i] = m
      BY <2>2, <2>7 DEF LinesInv
    <2>9. /\ \A i \in 1 .. Len(complete') : complete'[i].line = Ended' - Len(complete') + i
          /\ \A i \in 1 .. Len(complete') : complete'[i].whole \/ complete'[i].line \in Long
      BY <2>4, <2>5, <2>7
    <2>10. QED
      BY <2>6, <2>7, <2>8, <2>9 DEF LinesInv
  <1>2. CASE Publish
    <2> DEFINE n == Len(complete)
               line == Ended - n + 1
    <2>1. /\ complete \in Seq([line : Entry, whole : BOOLEAN]) /\ complete # <<>> /\ complete' = Tail(complete)
          /\ log \in Seq(Entry) /\ pieces' = pieces /\ partial' = partial /\ Ended' = Ended
      BY <1>2 DEF Types, Publish, Ended
    <2>2. n \in Nat \ {0} /\ Len(log) \in Nat /\ Ended \in Nat
      BY <2>1, SizeAssumption DEF Types, Ended
    <2>3. /\ Len(complete') = n - 1 /\ \A i \in 1 .. n - 1 : complete'[i] = complete[i + 1]
          /\ Head(complete) = complete[1]
      BY <2>1, HeadTailProperties
    <2>4. complete[1].line = line /\ (complete[1].whole \/ line \in Long)
      BY <2>2 DEF LinesInv
    <2>5. /\ Len(complete') <= Ended
          /\ \A i \in 1 .. Len(complete') : complete'[i].line = Ended - Len(complete') + i
          /\ \A i \in 1 .. Len(complete') : complete'[i].whole \/ complete'[i].line \in Long
      <3>1. Len(complete') <= Ended
        BY <2>2, <2>3 DEF LinesInv
      <3>2. SUFFICES ASSUME NEW i \in 1 .. n - 1
                     PROVE  /\ complete'[i].line = Ended - (n - 1) + i
                            /\ complete'[i].whole \/ complete'[i].line \in Long
        BY <2>3, <3>1
      <3>3. i + 1 \in 1 .. n /\ complete'[i] = complete[i + 1]
        BY <2>2, <2>3
      <3>4. /\ complete[i + 1].line = Ended - n + (i + 1)
            /\ complete[i + 1].whole \/ complete[i + 1].line \in Long
        BY <3>3 DEF LinesInv
      <3>5. QED
        BY <2>2, <3>3, <3>4
    <2>6. CASE log' = Append(log, line)
      <3>1. /\ Len(log') = Len(log) + 1 /\ log'[Len(log) + 1] = line
            /\ \A i \in 1 .. Len(log) : log'[i] = log[i]
        BY <2>1, <2>6
      <3>2. \A i \in 1 .. Len(log) : log[i] < line /\ log[i] \in Nat
        BY <2>1, <2>2, SizeAssumption DEF LinesInv, Entry
      <3>3. \A i \in 1 .. Len(log') : log'[i] <= Ended - Len(complete')
        BY <2>2, <2>3, <3>1, <3>2
      <3>4. \A i, j \in 1 .. Len(log') : i < j => log'[i] < log'[j]
        BY <2>2, <3>1, <3>2 DEF LinesInv
      <3>5. \A m \in 1 .. Ended - Len(complete') : m \in Long \/ \E i \in 1 .. Len(log') : log'[i] = m
        <4> TAKE m \in 1 .. Ended - Len(complete')
        <4>1. CASE m = line
          BY <2>2, <3>1, <4>1
        <4>2. CASE m # line
          <5>1. m \in Long \/ \E i \in 1 .. Len(log) : log[i] = m
            BY <2>2, <2>3, <4>2 DEF LinesInv
          <5>2. QED
            BY <2>2, <3>1, <5>1
        <4>3. QED
          BY <4>1, <4>2
      <3>6. QED
        BY <2>1, <2>5, <3>3, <3>4, <3>5 DEF LinesInv
    <2>7. CASE log' = log /\ line \in Long
      <3>1. \A i \in 1 .. Len(log) : log[i] <= Ended - Len(complete')
        BY <2>1, <2>2, <2>3, SizeAssumption DEF LinesInv, Entry
      <3>2. \A m \in 1 .. Ended - Len(complete') : m \in Long \/ \E i \in 1 .. Len(log) : log[i] = m
        BY <2>2, <2>3, <2>7 DEF LinesInv
      <3>3. QED
        BY <2>1, <2>5, <2>7, <3>1, <3>2 DEF LinesInv
    <2>8. QED
      BY <1>2, <2>3, <2>4, <2>6, <2>7 DEF Publish
  <1>3. CASE UNCHANGED <<pieces, partial, complete, log>>
    BY <1>3 DEF LinesInv, Ended
  <1>4. ASSUME NEW r \in Readers, Call(r) \/ Serving(r) \/ Decode(r) PROVE UNCHANGED <<pieces, partial, complete, log>>
    BY <1>4 DEF Call, Serving, Accept, Hello, Take, Encode, EncodeFails, Tick, Gone, Return, Decode, tee, hub
  <1>5. QED
    BY <1>1, <1>2, <1>3, <1>4, Steps DEF Quiet, tee, hub

LEMMA LinesInvImplies ==
    ASSUME Types, LinesInv
    PROVE  LinesSurviveWrites
  <1> DEFINE n == Len(complete)
             rest == [i \in 1 .. n |-> complete[i].line]
             coming == log \o rest
  <1>1. complete \in Seq([line : Entry, whole : BOOLEAN]) /\ log \in Seq(Entry) /\ n \in Nat
    BY DEF Types
  <1>2. \A i \in 1 .. n : rest[i] \in Entry
    <2> TAKE i \in 1 .. n
    <2>1. complete[i] \in [line : Entry, whole : BOOLEAN]
      BY <1>1, ElementOfSeq
    <2>2. QED
      BY <2>1
  <1>3. rest \in Seq(Entry) /\ Len(rest) = n
    BY <1>1, <1>2
  <1>4. /\ coming \in Seq(Entry) /\ Len(coming) = Len(log) + n /\ DOMAIN coming = 1 .. Len(coming)
        /\ \A i \in 1 .. Len(log) : coming[i] = log[i]
        /\ \A i \in Len(log) + 1 .. Len(log) + n : coming[i] = Ended - n + (i - Len(log))
    <2>1. \A i \in 1 .. n : rest[i] = Ended - n + i
      BY DEF LinesInv
    <2> HIDE DEF rest
    <2>2. coming \in Seq(Entry) /\ Len(coming) = Len(log) + n /\ DOMAIN coming = 1 .. Len(coming)
      BY <1>1, <1>3
    <2>3. \A i \in 1 .. Len(log) : coming[i] = log[i]
      BY <1>1, <1>3
    <2>4. \A i \in Len(log) + 1 .. Len(log) + n : coming[i] = rest[i - Len(log)] /\ i - Len(log) \in 1 .. n
      BY <1>1, <1>3
    <2>5. QED
      BY <2>1, <2>2, <2>3, <2>4
  <1> HIDE DEF coming, n
  <1>5. n = Len(complete) /\ Len(log) \in Nat /\ n \in Nat /\ Ended \in Nat /\ n <= Ended /\ \A i \in 1 .. Len(log) : log[i] \in Nat
    BY <1>1, SizeAssumption DEF Types, LinesInv, Ended, Entry, n
  <1>6. \A i, j \in 1 .. Len(coming) : i < j => coming[i] < coming[j]
    <2>1. /\ \A i \in 1 .. Len(log) : coming[i] \in Nat /\ coming[i] <= Ended - n
          /\ \A i, j \in 1 .. Len(log) : i < j => coming[i] < coming[j]
      BY <1>4, <1>5 DEF LinesInv
    <2> SUFFICES ASSUME NEW i \in 1 .. Len(coming), NEW j \in 1 .. Len(coming), i < j
                 PROVE  coming[i] < coming[j]
      OBVIOUS
    <2>2. CASE j <= Len(log)
      BY <1>4, <1>5, <2>1, <2>2
    <2>3. CASE j > Len(log)
      <3>1. coming[j] = Ended - n + (j - Len(log)) /\ coming[j] > Ended - n
        BY <1>4, <1>5, <2>3
      <3>2. CASE i <= Len(log)
        BY <1>4, <1>5, <2>1, <3>1, <3>2
      <3>3. CASE i > Len(log)
        BY <1>4, <1>5, <3>1, <3>3
      <3>4. QED
        BY <1>4, <1>5, <3>2, <3>3
    <2>4. QED
      BY <1>4, <1>5, <2>2, <2>3
  <1>7. (1 .. Ended) \ Long \subseteq ToSet(coming)
    <2> SUFFICES ASSUME NEW m \in 1 .. Ended, m \notin Long
                 PROVE  \E i \in 1 .. Len(coming) : coming[i] = m
      BY <1>4 DEF ToSet
    <2>1. CASE m <= Ended - n
      <3>1. PICK i \in 1 .. Len(log) : log[i] = m
        BY <1>5, <2>1 DEF LinesInv
      <3>2. QED
        BY <1>4, <1>5, <3>1
    <2>2. CASE m > Ended - n
      <3> DEFINE i == Len(log) + (m - (Ended - n))
      <3>1. i \in Len(log) + 1 .. Len(log) + n /\ i \in 1 .. Len(coming)
        BY <1>4, <1>5, <2>2
      <3>2. coming[i] = m
        BY <1>4, <1>5, <3>1
      <3>3. QED
        BY <3>1, <3>2
    <2>3. QED
      BY <1>5, <2>1, <2>2
  <1>8. \A i \in 1 .. Len(complete) : complete[i].line \notin Long => complete[i].whole
    BY DEF LinesInv
  <1>9. QED
    BY <1>6, <1>7, <1>8 DEF LinesSurviveWrites, coming, n, Ended

LEMMA StreamAlways == Spec => [](Types /\ Connections)
  BY TypesInit, TypesNext, ConnectionsNext, PTL DEF Spec

\* Each line that is not too long is published once and in its turn, whatever
\* the sizes of the proxy's writes.
THEOREM NoLineIsLost == Spec => []LinesSurviveWrites
  <1>1. Types /\ LinesInv /\ [Next]_vars => LinesInv'
    BY LinesNext
  <1>2. Types /\ LinesInv => LinesSurviveWrites
    BY LinesInvImplies
  <1>3. QED
    BY <1>1, <1>2, LinesInit, StreamAlways, PTL DEF Spec

-----------------------------------------------------------------------------
(* The entries on their way to one reader                                   *)

\* What the reader has, or is to get.
Stream(r) == ((got[r] \o wire[r]) \o hand[r]) \o queue[r]
\* How many of the published entries it has been called with.
Called(r) == IF r \in calls THEN Len(log) - 1 ELSE Len(log)
Live(r) == conn[r] \in {"select", "encode"} /\ ~overflowed[r]

\* Counted from their ends, the stream and the log agree as far back as the hello.
Agrees(r) ==
    /\ Called(r) - helloAt[r] <= Len(Stream(r))
    /\ \A k \in 1 .. Called(r) - helloAt[r] :
           Stream(r)[Len(Stream(r)) + 1 - k] = log[Called(r) + 1 - k]

StreamInv == \A r \in Readers : Live(r) => Agrees(r)

LEMMA StreamType ==
    ASSUME Types, NEW r \in Readers
    PROVE  /\ got[r] \in Seq(Entry) /\ wire[r] \in Seq(Entry) /\ hand[r] \in Seq(Entry)
           /\ queue[r] \in Seq(Entry) /\ log \in Seq(Entry) /\ Len(log) \in Nat
           /\ got[r] \o wire[r] \in Seq(Entry) /\ (got[r] \o wire[r]) \o hand[r] \in Seq(Entry)
           /\ Stream(r) \in Seq(Entry) /\ Len(Stream(r)) \in Nat
  <1>1. /\ got[r] \in Seq(Entry) /\ wire[r] \in Seq(Entry) /\ hand[r] \in Seq(Entry)
        /\ queue[r] \in Seq(Entry) /\ log \in Seq(Entry)
    BY DEF Types
  <1>2. got[r] \o wire[r] \in Seq(Entry)
    BY <1>1
  <1>3. (got[r] \o wire[r]) \o hand[r] \in Seq(Entry)
    BY <1>1, <1>2
  <1>4. Stream(r) \in Seq(Entry)
    BY <1>1, <1>3 DEF Stream
  <1>5. QED
    BY <1>1, <1>2, <1>3, <1>4

LEMMA StreamInit == Init => StreamInv
  BY DEF Init, StreamInv, Live

\* A reader whose stream stays.
LEMMA SameStream ==
    ASSUME StreamInv, NEW r \in Readers, Stream(r)' = Stream(r), Called(r)' = Called(r),
           UNCHANGED <<log, helloAt>>, Live(r)' => Live(r)
    PROVE  (Live(r) => Agrees(r))'
  BY DEF StreamInv, Agrees

\* A step of another connection.
LEMMA OtherStream ==
    ASSUME NEW r \in Readers,
           got'[r] = got[r], wire'[r] = wire[r], hand'[r] = hand[r], queue'[r] = queue[r],
           log' = log, r \in calls' <=> r \in calls
    PROVE  Stream(r)' = Stream(r) /\ Called(r)' = Called(r)
  BY DEF Stream, Called

LEMMA PublishStream ==
    ASSUME Types, Connections, StreamInv, Publish, NEW r \in Readers, Live(r)'
    PROVE  Agrees(r)'
  <1>1. /\ UNCHANGED <<subs, got, wire, hand, queue, helloAt, conn, overflowed>> /\ calls = {}
        /\ \/ calls' = subs /\ \E e \in Entry : log' = Append(log, e)
           \/ UNCHANGED <<log, calls>>
    <2>1. complete # <<>> /\ complete \in Seq([line : Entry, whole : BOOLEAN])
      BY DEF Publish, Types
    <2>2. Head(complete) \in [line : Entry, whole : BOOLEAN]
      BY <2>1, HeadTailProperties
    <2>3. Head(complete).line \in Entry
      BY <2>2
    <2>4. QED
      BY <2>3 DEF Publish, server, readers
  <1>2. Live(r) /\ r \in subs /\ Agrees(r) /\ Stream(r)' = Stream(r) /\ helloAt' = helloAt
    BY <1>1 DEF Live, Connections, StreamInv, Stream
  <1>3. Called(r) = Len(log) /\ Len(log) \in Nat /\ log \in Seq(Entry) /\ helloAt[r] \in Nat
    BY <1>1 DEF Called, Types
  <1>4. CASE UNCHANGED <<log, calls>>
    BY <1>2, <1>4 DEF Agrees, Called
  <1>5. ASSUME NEW e \in Entry, calls' = subs, log' = Append(log, e) PROVE Agrees(r)'
    <2>1. Called(r)' = Called(r) /\ \A i \in 1 .. Len(log) : log'[i] = log[i]
      BY <1>2, <1>3, <1>5 DEF Called
    <2>2. \A k \in 1 .. Called(r) - helloAt[r] : Called(r) + 1 - k \in 1 .. Len(log)
      BY <1>3
    <2>3. QED
      BY <1>2, <2>1, <2>2 DEF Agrees
  <1>6. QED
    BY <1>1, <1>4, <1>5

LEMMA CallStream ==
    ASSUME Types, StreamInv, NEW r \in Readers, Call(r), Live(r)'
    PROVE  Agrees(r)'
  <1>1. /\ UNCHANGED <<log, got, wire, hand, helloAt, conn>> /\ r \in calls /\ calls' = calls \ {r}
        /\ Last(log) \in Entry /\ log # <<>>
        /\ queue' = [queue EXCEPT ![r] = Append(@, Last(log))] /\ overflowed' = overflowed
    <2>1. r \in calls
      BY DEF Call
    <2>2. ~(overflowed' = [overflowed EXCEPT ![r] = TRUE])
      BY DEF Live, Types
    <2>3. QED
      BY <2>1, <2>2, OfferType DEF readers
  <1>2. Live(r) /\ Agrees(r) /\ helloAt[r] \in Nat
    BY <1>1 DEF Live, StreamInv, Types
  <1>3. /\ Stream(r) \in Seq(Entry) /\ log \in Seq(Entry) /\ Len(log) \in Nat /\ Len(Stream(r)) \in Nat
        /\ queue[r] \in Seq(Entry) /\ (got[r] \o wire[r]) \o hand[r] \in Seq(Entry)
    BY StreamType
  <1>4. Called(r) = Len(log) - 1 /\ Called(r)' = Len(log)
    BY <1>1 DEF Called
  <1>5. Stream(r)' = Append(Stream(r), Last(log))
    <2>1. queue'[r] = Append(queue[r], Last(log)) /\ got'[r] = got[r] /\ wire'[r] = wire[r] /\ hand'[r] = hand[r]
      BY <1>1 DEF Types
    <2>2. ((got[r] \o wire[r]) \o hand[r]) \o Append(queue[r], Last(log))
              = Append(((got[r] \o wire[r]) \o hand[r]) \o queue[r], Last(log))
      BY <1>1, <1>3, ConcatAppend, Zenon
    <2>3. QED
      BY <2>1, <2>2 DEF Stream
  <1> DEFINE n == Len(Stream(r))
             h == helloAt[r]
             m == Len(log)
             s == Stream(r)
             t == Append(s, Last(log))
  <1>6. Len(t) = n + 1 /\ t[n + 1] = log[m] /\ \A i \in 1 .. n : t[i] = s[i]
    BY <1>1, <1>3 DEF Last
  <1>7. m - 1 - h <= n /\ \A k \in 1 .. m - 1 - h : s[n + 1 - k] = log[m - k]
    BY <1>2, <1>3, <1>4 DEF Agrees
  <1>8. m \in Nat /\ h \in Nat /\ n \in Nat
    BY <1>2, <1>3
  <1> HIDE DEF n, h, m, s, t
  <1>9. \A k \in 1 .. m - h : t[n + 2 - k] = log[m + 1 - k]
    <2> TAKE k \in 1 .. m - h
    <2>1. CASE k = 1
      BY <1>6, <1>8, <2>1
    <2>2. CASE k > 1
      <3>1. k - 1 \in 1 .. m - 1 - h /\ n + 1 - (k - 1) = n + 2 - k /\ m - (k - 1) = m + 1 - k
        BY <1>8, <2>2
      <3>2. s[n + 2 - k] = log[m + 1 - k]
        BY <1>7, <3>1
      <3>3. n + 2 - k \in 1 .. n
        BY <1>7, <1>8, <2>2
      <3>4. QED
        BY <1>6, <3>2, <3>3
    <2>3. QED
      BY <1>8, <2>1, <2>2
  <1>10. m - h <= Len(t) /\ Len(t) + 1 = n + 2
    BY <1>6, <1>7, <1>8
  <1>11. Stream(r)' = t /\ Called(r)' = m /\ helloAt'[r] = h /\ log' = log
    BY <1>1, <1>4, <1>5 DEF t, s, m, h
  <1>12. /\ m - h <= Len(t)
         /\ \A k \in 1 .. m - h : t[Len(t) + 1 - k] = log[m + 1 - k]
    <2>1. \A k \in 1 .. m - h : Len(t) + 1 - k = n + 2 - k
      BY <1>8, <1>10
    <2>2. QED
      BY <1>9, <1>10, <2>1, Zenon
  <1>13. QED
    BY <1>11, <1>12, Zenon DEF Agrees

LEMMA TakeStream ==
    ASSUME Types, Connections, NEW r \in Readers, Take(r)
    PROVE  Stream(r)' = Stream(r)
  <1> DEFINE s == got[r] \o wire[r]
  <1>1. /\ queue[r] # <<>> /\ hand[r] = <<>> /\ UNCHANGED <<got, wire>>
        /\ hand'[r] = <<Head(queue[r])>> /\ queue'[r] = Tail(queue[r])
    BY DEF Take, Connections, Types, readers
  <1>2. s \in Seq(Entry) /\ queue[r] \in Seq(Entry) /\ Head(queue[r]) \in Entry
    BY <1>1, StreamType, HeadTailProperties
  <1>3. s \o <<>> = s /\ s \o <<Head(queue[r])>> = Append(s, Head(queue[r]))
    BY <1>2, ConcatEmptySeq, AppendIsConcat
  <1>4. Append(s, Head(queue[r])) \o Tail(queue[r]) = s \o queue[r]
    BY <1>1, <1>2, MoveHead
  <1>5. Stream(r)' = (s \o <<Head(queue[r])>>) \o Tail(queue[r])
    BY <1>1 DEF Stream
  <1>6. Stream(r) = (s \o <<>>) \o queue[r]
    BY <1>1 DEF Stream
  <1>7. QED
    BY <1>3, <1>4, <1>5, <1>6, Zenon

LEMMA EncodeStream ==
    ASSUME Types, Connections, NEW r \in Readers, Encode(r)
    PROVE  Stream(r)' = Stream(r)
  <1>1. PICK e \in Entry : hand[r] = <<e>>
    BY DEF Encode, Connections
  <1>2. wire'[r] = Append(wire[r], e) /\ hand'[r] = <<>> /\ UNCHANGED <<got, queue>>
    BY <1>1 DEF Encode, Types, readers
  <1> DEFINE s == got[r] \o wire[r]
  <1>3. s \in Seq(Entry) /\ got[r] \in Seq(Entry) /\ wire[r] \in Seq(Entry)
    BY StreamType
  <1>10. Append(s, e) \in Seq(Entry)
    BY <1>3
  <1>4. got[r] \o Append(wire[r], e) = Append(s, e)
    BY <1>3, ConcatAppend, Zenon
  <1>5. s \o <<e>> = Append(s, e) /\ Append(s, e) \o <<>> = Append(s, e)
    BY <1>3, <1>10, AppendIsConcat, ConcatEmptySeq
  <1>6. Stream(r)' = ((got[r] \o Append(wire[r], e)) \o <<>>) \o queue[r]
    BY <1>2 DEF Stream
  <1>7. Stream(r) = (s \o <<e>>) \o queue[r]
    BY <1>1 DEF Stream
  <1>8. QED
    BY <1>4, <1>5, <1>6, <1>7, Zenon

LEMMA DecodeStream ==
    ASSUME Types, NEW r \in Readers, Decode(r)
    PROVE  Stream(r)' = Stream(r)
  <1>1. /\ got'[r] = Append(got[r], Head(wire[r])) /\ wire'[r] = Tail(wire[r]) /\ wire[r] # <<>>
        /\ UNCHANGED <<hand, queue>>
    BY DEF Decode, Types, server
  <1>2. Append(got[r], Head(wire[r])) \o Tail(wire[r]) = got[r] \o wire[r]
    BY <1>1, StreamType, MoveHead
  <1>3. Stream(r)' = ((Append(got[r], Head(wire[r])) \o Tail(wire[r])) \o hand[r]) \o queue[r]
    BY <1>1 DEF Stream
  <1>4. QED
    BY <1>2, <1>3, Zenon DEF Stream

\* What a step does to the reader that it is about.
LEMMA ServingStream ==
    ASSUME Types, Connections, StreamInv, NEW r \in Readers, Serving(r)
    PROVE  (Live(r) => Agrees(r))'
  <1>1. UNCHANGED <<log, calls>>
    BY DEF Serving, Accept, Hello, Take, Encode, EncodeFails, Tick, Gone, Return, hub
  <1>2. CASE Accept(r) \/ EncodeFails(r) \/ Tick(r) \/ Gone(r)
    <2>1. conn'[r] \in {"hello", "closed"}
      BY <1>2 DEF Accept, EncodeFails, Tick, Gone, Return, Goto, Types
    <2>2. QED
      BY <2>1 DEF Live
  <1>3. CASE Hello(r)
    <2>1. CASE conn'[r] = "closed"
      BY <2>1 DEF Live
    <2>2. CASE conn'[r] # "closed"
      <3>1. /\ helloAt'[r] = Len(log) /\ UNCHANGED <<got, wire, hand, queue>>
            /\ Len(log) \in Nat /\ Len(Stream(r)) \in Nat
        BY <1>3, <2>2, StreamType DEF Hello, Goto, Types, readers
      <3>2. Stream(r)' = Stream(r) /\ Called(r)' \in {Len(log), Len(log) - 1}
        BY <1>1, <3>1 DEF Stream, Called
      <3>3. Called(r)' - helloAt'[r] <= Len(Stream(r)) /\ 1 .. Called(r)' - helloAt'[r] = {}
        BY <3>1, <3>2
      <3>4. QED
        BY <3>2, <3>3 DEF Agrees
    <2>3. QED
      BY <2>1, <2>2
  <1>4. CASE Take(r)
    <2>1. Called(r)' = Called(r) /\ UNCHANGED <<log, helloAt, overflowed>> /\ conn[r] = "select"
      BY <1>1, <1>4 DEF Called, Take
    <2>2. QED
      BY <1>4, <2>1, TakeStream, SameStream DEF Live
  <1>5. CASE Encode(r)
    <2>1. Called(r)' = Called(r) /\ UNCHANGED <<log, helloAt, overflowed>> /\ conn[r] = "encode"
      BY <1>1, <1>5 DEF Called, Encode
    <2>2. QED
      BY <1>5, <2>1, EncodeStream, SameStream DEF Live
  <1>6. QED
    BY <1>2, <1>3, <1>4, <1>5 DEF Serving

\* ... and what it does to the others.
LEMMA OthersStream ==
    ASSUME Types, StreamInv, NEW q \in Readers, NEW r \in Readers, q # r,
           Call(q) \/ Serving(q) \/ Decode(q)
    PROVE  (Live(r) => Agrees(r))'
  <1>1. /\ log' = log /\ (r \in calls' <=> r \in calls)
        /\ got'[r] = got[r] /\ wire'[r] = wire[r] /\ hand'[r] = hand[r] /\ queue'[r] = queue[r]
        /\ conn'[r] = conn[r] /\ overflowed'[r] = overflowed[r] /\ helloAt'[r] = helloAt[r]
    <2> USE DEF Types, tee, hub, server, readers
    <2>1. CASE Call(q)
      BY <2>1, OfferType
    <2>2. CASE Accept(q) \/ Hello(q) \/ EncodeFails(q) \/ Tick(q) \/ Gone(q)
      BY <2>2 DEF Accept, Hello, EncodeFails, Tick, Gone, Return, Goto
    <2>3. CASE Take(q) \/ Encode(q)
      BY <2>3 DEF Take, Encode, Goto
    <2>4. CASE Decode(q)
      BY <2>4 DEF Decode
    <2>5. QED
      BY <2>1, <2>2, <2>3, <2>4 DEF Serving
  <1>2. Stream(r)' = Stream(r) /\ Called(r)' = Called(r) /\ (Live(r)' => Live(r))
    BY <1>1, OtherStream DEF Live
  <1>3. QED
    BY <1>1, <1>2 DEF StreamInv, Agrees

LEMMA StreamNext ==
    ASSUME Types, Connections, StreamInv, [Next]_vars
    PROVE  StreamInv'
  <1> SUFFICES ASSUME NEW r \in Readers PROVE (Live(r) => Agrees(r))'
    BY DEF StreamInv
  <1>1. ASSUME Write \/ Quiet PROVE (Live(r) => Agrees(r))'
    <2>1. UNCHANGED <<log, calls, got, wire, hand, queue, conn, overflowed, helloAt>>
      BY <1>1 DEF Write, Quiet, hub, server, readers
    <2>2. Stream(r)' = Stream(r) /\ Called(r)' = Called(r) /\ (Live(r)' => Live(r))
      BY <2>1 DEF Stream, Called, Live
    <2>3. QED
      BY <2>1, <2>2, SameStream
  <1>2. ASSUME Decode(r) PROVE (Live(r) => Agrees(r))'
    <2>1. UNCHANGED <<log, calls, conn, overflowed, helloAt>>
      BY <1>2 DEF Decode, hub, server
    <2>2. Called(r)' = Called(r) /\ (Live(r)' => Live(r))
      BY <2>1 DEF Called, Live
    <2>3. QED
      BY <1>2, <2>1, <2>2, DecodeStream, SameStream
  <1>3. QED
    BY <1>1, <1>2, Steps, PublishStream, CallStream, ServingStream, OthersStream

LEMMA AgreesIsSuffix ==
    ASSUME Types, NEW r \in Readers, Agrees(r)
    PROVE  IsSuffix(Due(r), got[r] \o wire[r] \o hand[r] \o queue[r])
  <1> DEFINE s == Stream(r)
             d == Due(r)
             n == Len(s)
             h == helloAt[r]
             c == Called(r)
             m == IF c > h THEN c - h ELSE 0
  <1>1. /\ s \in Seq(Entry) /\ n \in Nat /\ log \in Seq(Entry) /\ Len(log) \in Nat /\ h \in Nat
        /\ c \in Int /\ c <= Len(log) /\ m \in Nat
    BY StreamType DEF Types, Called
  <1>2. d = SubSeq(log, h + 1, c)
    BY DEF Due, Called
  <1>3. \A i \in h + 1 .. c : log[i] \in Entry
    BY <1>1
  <1> HIDE DEF s, h, c
  <1>4. /\ d \in Seq(Entry) /\ Len(d) = (IF h + 1 <= c THEN c - (h + 1) + 1 ELSE 0)
        /\ \A i \in 1 .. c - (h + 1) + 1 : d[i] = log[h + 1 + i - 1]
    <2>1. h + 1 \in Int
      BY <1>1
    <2> HIDE DEF d
    <2>2. QED
      BY <1>1, <1>2, <1>3, <2>1, SubSeqProperties
  <1>5. Len(d) = m
    BY <1>1, <1>4
  <1>6. m <= n /\ \A k \in 1 .. m : s[n + 1 - k] = log[c + 1 - k]
    BY <1>1 DEF Agrees, s, h, c
  <1>7. \A k \in 1 .. m : d[m - k + 1] = s[n - k + 1]
    <2> TAKE k \in 1 .. m
    <2>1. m - k + 1 \in 1 .. c - (h + 1) + 1 /\ h + 1 + (m - k + 1) - 1 = c + 1 - k /\ n - k + 1 = n + 1 - k
      BY <1>1
    <2>2. d[m - k + 1] = log[c + 1 - k]
      BY <1>4, <2>1
    <2>3. QED
      BY <1>6, <2>1, <2>2
  <1> HIDE DEF d, n, m
  <1>8. /\ Reverse(d) = [i \in 1 .. m |-> d[(m - i) + 1]]
        /\ Reverse(s) = [i \in 1 .. n |-> s[(n - i) + 1]]
    BY <1>5 DEF Reverse, n
  <1>9. Len(Reverse(d)) = m /\ Len(Reverse(s)) = n
    BY <1>1, <1>8
  <1>10. SubSeq(Reverse(d), 1, m) = SubSeq(Reverse(s), 1, m)
    <2>1. \A i \in 1 .. m : Reverse(d)[i] = Reverse(s)[i]
      BY <1>1, <1>6, <1>7, <1>8
    <2>2. QED
      BY <1>1, <2>1
  <1>11. QED
    BY <1>6, <1>9, <1>10 DEF IsSuffix, IsPrefix, s, d, Stream

\* A reader that has its hello and whose queue has not overflowed has, or is to
\* get, every entry published since, once and in order.
THEOREM HelloMissesNothing == Spec => []NothingMissedAfterHello
  <1>1. Types /\ StreamInv => NothingMissedAfterHello
    BY AgreesIsSuffix DEF StreamInv, Live, NothingMissedAfterHello
  <1>2. QED
    BY <1>1, StreamInit, StreamNext, StreamAlways, PTL DEF Spec
-----------------------------------------------------------------------------
(* The rest of the types: the bounds                                        *)

ClientTypes ==
    /\ stdout \in BOOLEAN /\ served \in BOOLEAN
    /\ client \in [Readers -> ClientPc]
    /\ cancelled \in [Readers -> BOOLEAN] /\ lost \in [Readers -> BOOLEAN]

\* No line is published twice, so that there are not more entries than lines;
\* and nothing is put where there is no room.
Bounded ==
    /\ Len(complete) <= MaxWrite /\ Len(log) + Len(complete) <= Ended
    /\ \A r \in Readers :
        /\ Len(queue[r]) <= QueueSize /\ Len(wire[r]) <= WireSize
        /\ helloAt[r] <= Lines
        /\ Len(hand[r]) <= 1

LEMMA ClientTypesNext ==
    ASSUME ClientTypes, [Next]_vars
    PROVE  ClientTypes'
  <1> USE DEF ClientTypes, tee, hub, server, readers, ClientPc
  <1>1. CASE Proxy \/ Stop \/ UNCHANGED vars
    BY <1>1 DEF Proxy, Write, Publish, Call, Stop, vars
  <1>2. ASSUME NEW r \in Readers, Serving(r) PROVE ClientTypes'
    BY <1>2 DEF Serving, Accept, Hello, Take, Encode, EncodeFails, Tick, Gone, Return
  <1>3. ASSUME NEW r \in Readers, Reading(r) PROVE ClientTypes'
    BY <1>3 DEF Reading, ReadHello, Decode, StreamEnds, TellLost, Become
  <1>4. ASSUME NEW r \in Readers, Dial(r) \/ NoHello(r) \/ Cancel(r) \/ Suspend(r) PROVE ClientTypes'
    BY <1>4 DEF Dial, NoHello, Cancel, Suspend, Become
  <1>5. QED
    BY <1>1, <1>2, <1>3, <1>4 DEF Next

\* How many lines end in the pieces of one write.
LEMMA EndedIn ==
    ASSUME NEW p \in Nat, NEW n \in Nat \ {0}
    PROVE  (p + n) \div 2 - p \div 2 <= n /\ p \div 2 <= (p + n) \div 2
    OBVIOUS

LEMMA BoundedInit == Init => Bounded
    BY SizeAssumption DEF Init, Bounded, Ended

LEMMA BoundedNext ==
    ASSUME Types, Connections, Bounded, [Next]_vars
    PROVE  Bounded'
  <1> USE DEF tee, hub, readers
  <1>0. /\ Len(log) \in Nat /\ Len(complete) \in Nat /\ pieces \in Nat /\ Ended \in Nat
        /\ Ended <= Lines /\ MaxWrite \in Nat
        /\ \A r \in Readers : Len(queue[r]) \in Nat /\ Len(wire[r]) \in Nat
    BY SizeAssumption DEF Types, Ended
  <1>1. ASSUME UNCHANGED <<pieces, complete, log>>
        PROVE  Len(complete') <= MaxWrite /\ Len(log') + Len(complete') <= Ended'
    BY <1>1 DEF Bounded, Ended
  <1>2. CASE Write
    <2>1. PICK n \in 1 .. MaxWrite : /\ pieces + n <= 2 * Lines /\ pieces' = pieces + n
                                     /\ complete' = CutOff(pieces + 1, pieces + n)
      BY <1>2 DEF Write
    <2>2. complete = <<>> /\ log' = log /\ Len(complete) = 0
      BY <1>2 DEF Write
    <2> DEFINE first == pieces + 1
               last == pieces + n
    <2>3. first \in Nat \ {0} /\ last \in first - 1 .. 2 * Lines
      BY <1>0, <2>1, SizeAssumption
    <2>4. first - 1 = pieces /\ complete' = CutOff(first, last) /\ last \div 2 = Ended'
      BY <1>0, <2>1 DEF Ended
    <2> HIDE DEF first, last
    <2>5. Len(complete') = last \div 2 - (first - 1) \div 2
      BY <2>3, <2>4, CutOffType
    <2>6. Len(complete') = Ended' - Ended
      BY <2>4, <2>5 DEF Ended
    <2>7. Ended' - Ended <= n /\ Ended <= Ended' /\ Ended' \in Nat
      BY <1>0, <2>1, EndedIn DEF Ended
    <2>8. Len(complete') <= MaxWrite /\ Len(log') + Len(complete') <= Ended'
      <3> DEFINE l == Len(log)
                 c == Len(complete')
                 e == Ended
                 f == Ended'
      <3>0. l <= e
        BY <1>0, <2>2 DEF Bounded
      <3>1. l \in Nat /\ e \in Nat /\ f \in Nat /\ c = f - e /\ f - e <= n /\ Len(log') = l
        BY <1>0, <2>2, <2>6, <2>7, Zenon
      <3> HIDE DEF l, c, e, f
      <3>2. c <= MaxWrite /\ l + c <= f
        BY <1>0, <3>0, <3>1
      <3>3. QED
        BY <3>1, <3>2, Zenon DEF c, f
    <2>9. UNCHANGED <<queue, wire, helloAt, hand>>
      BY <1>2 DEF Write, server
    <2>10. QED
      BY <2>8, <2>9 DEF Bounded
  <1>3. CASE Publish
    <2>1. /\ complete \in Seq([line : Entry, whole : BOOLEAN]) /\ complete # <<>>
          /\ complete' = Tail(complete) /\ log \in Seq(Entry) /\ Ended' = Ended
      BY <1>3 DEF Publish, Types, Ended
    <2>2. Len(complete') = Len(complete) - 1
      BY <2>1
    <2>3. Head(complete).line \in Entry
      <3>1. Head(complete) \in [line : Entry, whole : BOOLEAN]
        BY <2>1, HeadTailProperties
      <3>2. QED
        BY <3>1
    <2>4. Len(log') \in {Len(log), Len(log) + 1}
      BY <1>3, <2>1, <2>3 DEF Publish
    <2>5. Len(complete') <= MaxWrite /\ Len(log') + Len(complete') <= Ended'
      BY <1>0, <2>1, <2>2, <2>4 DEF Bounded
    <2>6. QED
      BY <1>3, <2>5 DEF Bounded, Publish, server
  <1>4. ASSUME NEW r \in Readers, Call(r) PROVE Bounded'
    <2>1. queue[r] \in Seq(Entry) /\ Last(log) \in Entry
      BY <1>4, OfferType DEF Types
    <2>2. \A q \in Readers : Len(queue'[q]) <= QueueSize
      <3>1. queue' = queue \/ (Len(queue[r]) < QueueSize /\ queue' = [queue EXCEPT ![r] = Append(@, Last(log))])
        BY <1>4 DEF Call, Offer
      <3>2. Len(Append(queue[r], Last(log))) = Len(queue[r]) + 1
        BY <2>1
      <3>3. CASE queue' = queue
        BY <3>3 DEF Bounded
      <3>4. CASE Len(queue[r]) < QueueSize /\ queue' = [queue EXCEPT ![r] = Append(@, Last(log))]
        <4>1. Len(queue'[r]) = Len(queue[r]) + 1 /\ \A q \in Readers \ {r} : queue'[q] = queue[q]
          BY <3>2, <3>4 DEF Types
        <4>2. Len(queue'[r]) <= QueueSize
          BY <1>0, <3>4, <4>1, SizeAssumption
        <4>3. QED
          BY <4>1, <4>2 DEF Bounded
      <3>5. QED
        BY <3>1, <3>3, <3>4
    <2>3. UNCHANGED <<pieces, complete, log, wire, helloAt, hand>>
      BY <1>4 DEF Call
    <2>4. Len(complete') <= MaxWrite /\ Len(log') + Len(complete') <= Ended'
      BY <1>1, <2>3
    <2>5. QED
      BY <2>2, <2>3, <2>4 DEF Bounded
  <1>5. ASSUME NEW r \in Readers, Serving(r) PROVE Bounded'
    <2>1. UNCHANGED <<pieces, complete, log>>
      BY <1>5 DEF Serving, Accept, Hello, Take, Encode, EncodeFails, Tick, Gone, Return
    <2>2. CASE Accept(r) \/ EncodeFails(r) \/ Tick(r) \/ Gone(r)
      BY <1>1, <2>1, <2>2 DEF Bounded, Accept, EncodeFails, Tick, Gone, Return
    <2>3. CASE Hello(r)
      <3>1. UNCHANGED <<queue, wire, hand>> /\ helloAt' \in {helloAt, [helloAt EXCEPT ![r] = Len(log)]}
        BY <2>3 DEF Hello
      <3>2. Len(log) <= Lines
        BY <1>0, SizeAssumption DEF Bounded
      <3>3. \A q \in Readers : helloAt'[q] <= Lines
        BY <3>1, <3>2 DEF Bounded, Types
      <3>4. QED
        BY <1>1, <2>1, <3>1, <3>3 DEF Bounded
    <2>4. CASE Take(r)
      <3>1. /\ queue[r] \in Seq(Entry) /\ queue[r] # <<>>
            /\ queue' = [queue EXCEPT ![r] = Tail(@)] /\ hand' = [hand EXCEPT ![r] = <<Head(queue[r])>>]
            /\ UNCHANGED <<wire, helloAt>>
        BY <2>4 DEF Take, Types
      <3>2. Len(Tail(queue[r])) = Len(queue[r]) - 1 /\ Len(<<Head(queue[r])>>) = 1
        BY <3>1
      <3>3. /\ \A q \in Readers : Len(queue'[q]) <= QueueSize
            /\ \A q \in Readers : Len(hand'[q]) <= 1
        BY <1>0, <3>1, <3>2, SizeAssumption DEF Bounded, Types
      <3>4. QED
        BY <1>1, <2>1, <3>1, <3>3 DEF Bounded
    <2>5. CASE Encode(r)
      <3>1. PICK e \in Entry : hand[r] = <<e>>
        BY <2>5 DEF Encode, Connections
      <3>2. /\ wire' = [wire EXCEPT ![r] = Append(wire[r], e)] /\ wire[r] \in Seq(Entry)
            /\ Len(wire[r]) < WireSize /\ hand' = [hand EXCEPT ![r] = <<>>]
            /\ UNCHANGED <<queue, helloAt>>
        BY <2>5, <3>1 DEF Encode, Types
      <3>3. Len(Append(wire[r], e)) = Len(wire[r]) + 1
        BY <3>2
      <3>4. /\ \A q \in Readers : Len(wire'[q]) <= WireSize
            /\ \A q \in Readers : Len(hand'[q]) <= 1
        BY <1>0, <3>2, <3>3, SizeAssumption DEF Bounded, Types
      <3>5. QED
        BY <1>1, <2>1, <3>2, <3>4 DEF Bounded
    <2>6. QED
      BY <1>5, <2>2, <2>3, <2>4, <2>5 DEF Serving
  <1>6. ASSUME NEW r \in Readers, Decode(r) PROVE Bounded'
    <2>1. /\ wire[r] \in Seq(Entry) /\ wire[r] # <<>> /\ wire' = [wire EXCEPT ![r] = Tail(@)]
          /\ UNCHANGED <<pieces, complete, log, queue, helloAt, hand>>
      BY <1>6 DEF Decode, Types, server
    <2>2. Len(Tail(wire[r])) = Len(wire[r]) - 1
      BY <2>1
    <2>3. \A q \in Readers : Len(wire'[q]) <= WireSize
      BY <1>0, <2>1, <2>2, SizeAssumption DEF Bounded, Types
    <2>4. QED
      BY <1>1, <2>1, <2>3 DEF Bounded
  <1>7. CASE Quiet
    BY <1>1, <1>7 DEF Quiet, Bounded
  <1>8. QED
    BY <1>2, <1>3, <1>4, <1>5, <1>6, <1>7, Steps

\* Every variable keeps its type: in particular the queue of a connection and
\* the lines that Write has cut off never outgrow their bounds, and the Hub
\* publishes no more entries than there are lines.
THEOREM AccessTypeCorrect == Spec => []TypeOK
  <1> DEFINE Inv == Types /\ Connections /\ ClientTypes /\ Bounded
  <1>1. Init => Inv
    BY TypesInit, BoundedInit DEF Init, ClientTypes, ClientPc
  <1>2. Inv /\ [Next]_vars => Inv'
    BY TypesNext, ConnectionsNext, ClientTypesNext, BoundedNext
  <1>3. Inv => TypeOK
    <2> SUFFICES ASSUME Inv PROVE TypeOK
      OBVIOUS
    <2>1. Len(log) <= Lines /\ Len(complete) <= MaxWrite
      <3>1. Len(log) \in Nat /\ Len(complete) \in Nat /\ Ended <= Lines /\ Ended \in Nat
        BY SizeAssumption DEF Types, Ended
      <3>2. QED
        BY <3>1, SizeAssumption DEF Bounded
    <2>2. helloAt \in [Readers -> 0 .. Lines]
      <3>1. helloAt \in [Readers -> Nat] /\ \A r \in Readers : helloAt[r] <= Lines
        BY DEF Types, Bounded
      <3>2. QED
        BY <3>1, SizeAssumption
    <2>3. \A r \in Readers :
            /\ queue[r] \in Seq(Entry) /\ hand[r] \in Seq(Entry)
            /\ wire[r] \in Seq(Entry) /\ got[r] \in Seq(Entry)
      BY DEF Types
    <2>4. QED
      BY <2>1, <2>2, <2>3 DEF TypeOK, Types, ClientTypes, Bounded
  <1>4. QED
    BY <1>1, <1>2, <1>3, PTL DEF Spec

=============================================================================
