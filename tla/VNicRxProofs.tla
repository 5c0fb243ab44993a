---------------------------- MODULE VNicRxProofs ----------------------------
(***************************************************************************)
(* Theorems about VNicRx, and about the example program that uses it: for  *)
(* any number and size of queues, any depth of the pipe, any hashes and    *)
(* tables, and any number of frames, link flaps, updates of the table and  *)
(* restarts.                                                               *)
(***************************************************************************)
EXTENDS Example, Integers, SequenceLemmas, SequenceTheorems, TLAPS

-----------------------------------------------------------------------------
(* The inductive invariant. *)

Waiting == {"off", "test", "take", "exited"}
Handling == {"taken", "lookup", "put", "count"}

StatsType == [processed : Nat, dropped : Nat, errors : Nat]

HistType == [injected : Nat, taken : Nat, bad : Nat, lost : Nat, whileDown : Nat,
             tables : SUBSET (Tables \cup {<<>>})]

TypeInv == /\ at \in Waiting \cup Handling
           /\ pipe \in Seq(Frame) /\ cur \in Frame \cup {NoFrame}
           /\ queue \in [Queues -> Seq(Frame)] /\ delivered \in [Queues -> Seq(Frame)]
           /\ out \in [Queues -> Nat]
           /\ stats \in StatsType /\ hist \in HistType
           /\ reta \in Tables \cup {<<>>}
           /\ config.rss => reta \in Tables
           /\ at = "put" => target \in Queues
           /\ port = "stopped" => at = "off"

\* The frame being handled is the only one not counted yet.
CountInv ==
    /\ hist.injected = hist.taken + Len(pipe)
    /\ at \in Waiting => /\ hist.taken = stats.processed + stats.dropped + hist.lost
                         /\ stats.errors = hist.bad + hist.lost
    /\ at \in Handling =>
          /\ hist.taken = stats.processed + stats.dropped + hist.lost + 1
          /\ cur.kind = "bad" => at = "taken" /\ stats.errors + 1 = hist.bad + hist.lost
          /\ cur.kind # "bad" => stats.errors = hist.bad + hist.lost

\* The frame taken from a link that is down is the one the loop was waiting for.
DownInv == /\ hist.whileDown <= 1
           /\ up \/ at = "take" => hist.whileDown = 0

\* The table in force is one of those the frame may be routed by, and does not
\* change during the lookup.
RouteInv == /\ at \in {"taken", "lookup"} => reta \in hist.tables
            /\ at = "lookup" => /\ config.rss /\ cur.kind = "flow"
                                /\ mask = Cardinality(DOMAIN reta) - 1
            /\ at \in {"taken", "lookup", "put"} => cur \in Frame
            /\ RoutedByOneTable

-----------------------------------------------------------------------------
(* Facts about frames and tables. *)

\* What the code looks at in a frame.
LEMMA FrameFields ==
  ASSUME NEW f \in Frame
  PROVE  /\ f.id \in 1 .. MaxFrames /\ f.kind \in {"bad", "plain", "flow"}
         /\ f.kind = "flow" => f.hash \in Nat
  <1>1. CASE f \in [id : 1 .. MaxFrames, kind : {"bad", "plain"}, hash : {0}]
    BY <1>1
  <1>2. CASE f \in [id : 1 .. MaxFrames, kind : {"flow"}, hash : Hashes]
    BY <1>2, VNicRxAssumption
  <1> QED
    BY <1>1, <1>2 DEF Frame

\* hash & mask is an index into the table, and what it finds is a queue.
LEMMA TableLookup ==
  ASSUME NEW t \in Tables, NEW h \in Nat
  PROVE  /\ Cardinality(DOMAIN t) \in Nat \ {0}
         /\ Index(h, Cardinality(DOMAIN t) - 1) = h % Cardinality(DOMAIN t)
         /\ t[h % Cardinality(DOMAIN t)] \in Queues
  <1> DEFINE n == Cardinality(DOMAIN t)
  <1>1. n \in Nat \ {0} /\ t \in [0 .. n - 1 -> Queues]
    BY VNicRxAssumption
  <1> HIDE DEF n
  <1>2. n - 1 + 1 = n /\ h % n \in 0 .. n - 1
    BY <1>1
  <1>3. Index(h, n - 1) = h % n
    BY <1>2 DEF Index
  <1>4. t[h % n] \in Queues
    BY <1>1, <1>2
  <1> QED
    BY <1>1, <1>3, <1>4 DEF n

\* There is a default queue.
LEMMA DefaultQueue == 0 \in Queues
  BY VNicRxAssumption DEF Queues

\* Taking the first frame off the pipe.
LEMMA PipeHead ==
  ASSUME pipe \in Seq(Frame), pipe # <<>>
  PROVE  Head(pipe) \in Frame /\ Tail(pipe) \in Seq(Frame) /\ Len(pipe) = Len(Tail(pipe)) + 1
  <1>1. Head(pipe) \in Frame /\ Tail(pipe) \in Seq(Frame) /\ Len(Tail(pipe)) = Len(pipe) - 1
    BY HeadTailProperties
  <1>2. Len(pipe) \in Nat
    BY LenProperties
  <1> QED
    BY <1>1, <1>2

\* rx() takes at least one frame, and no more than there are.
LEMMA Burst ==
  ASSUME NEW s \in Seq(Frame), s # <<>>
  PROVE  Min({MaxSegments, Len(s)}) \in 1 .. Len(s)
  <1> DEFINE S == {MaxSegments, Len(s)}
  <1>1. Len(s) \in Nat /\ Len(s) # 0 /\ MaxSegments \in Nat /\ MaxSegments # 0
    BY LenProperties, EmptySeq, VNicRxAssumption
  <1>2. \E x \in S : \A y \in S : x =< y
    BY <1>1
  <1>3. Min(S) \in S /\ \A y \in S : Min(S) =< y
    BY <1>2 DEF Min
  <1> QED
    BY <1>1, <1>3

\* What taking a frame does to the history.
LEMMA TookEffect ==
  ASSUME hist \in HistType, NEW b \in Nat, NEW l \in Nat, NEW T \in SUBSET (Tables \cup {<<>>}),
         hist' = Took(b, l, T)
  PROVE  /\ hist' \in HistType
         /\ hist'.injected = hist.injected /\ hist'.taken = hist.taken + 1
         /\ hist'.bad = hist.bad + b /\ hist'.lost = hist.lost + l /\ hist'.tables = T
         /\ hist'.whileDown = IF up THEN hist.whileDown ELSE hist.whileDown + 1
  <1> DEFINE d == IF up THEN hist.whileDown ELSE hist.whileDown + 1
  <1>1. hist' = [hist EXCEPT !.taken = hist.taken + 1, !.whileDown = d, !.bad = hist.bad + b,
                             !.lost = hist.lost + l, !.tables = T]
    BY DEF Took
  <1>2. d \in Nat
    BY DEF HistType
  <1> HIDE DEF d
  <1>3. hist.taken + 1 \in Nat /\ hist.bad + b \in Nat /\ hist.lost + l \in Nat
    BY DEF HistType
  <1>4. hist' \in HistType
    BY <1>1, <1>2, <1>3, Zenon DEF HistType
  <1>5. /\ hist'.injected = hist.injected /\ hist'.taken = hist.taken + 1
        /\ hist'.bad = hist.bad + b /\ hist'.lost = hist.lost + l /\ hist'.tables = T
        /\ hist'.whileDown = d
    BY <1>1 DEF HistType
  <1> QED
    BY <1>4, <1>5 DEF d

-----------------------------------------------------------------------------
(* Types. *)

\* The poll thread.
LEMMA PollTypes == ASSUME TypeInv, RouteInv, Poll PROVE TypeInv'
  <1> USE DEF Waiting, Handling
  <1>0. UNCHANGED <<config, port, reta, out, delivered>> /\ port # "stopped"
    BY DEF Poll, PollTest, PollTake, PollTakeThrows, PollTimeout, PollDrop, Distribute, Lookup,
           Put, PollCount, Step, portVars, appVars, TypeInv
  <1>1. CASE PollTest \/ PollTimeout
    <2>1. at' \in Waiting /\ UNCHANGED <<pipe, cur, queue, stats, hist>>
      BY <1>1 DEF PollTest, PollTimeout, Step, AfterTest, AfterTimeout
    <2> QED
      BY <1>0, <2>1 DEF TypeInv
  <1>2. CASE PollTake
    <2>1. /\ pipe # <<>> /\ at' = "taken" /\ pipe' = Tail(pipe) /\ cur' = Head(pipe)
          /\ hist' = Took(IF Head(pipe).kind = "bad" THEN 1 ELSE 0, 0, {reta})
          /\ UNCHANGED <<queue, stats>>
      BY <1>2 DEF PollTake, Step
    <2>2. pipe' \in Seq(Frame) /\ cur' \in Frame
      BY <2>1, PipeHead DEF TypeInv
    <2>3. hist' \in HistType
      <3>1. hist \in HistType /\ {reta} \in SUBSET (Tables \cup {<<>>})
        BY DEF TypeInv
      <3>2. (IF Head(pipe).kind = "bad" THEN 1 ELSE 0) \in Nat
        OBVIOUS
      <3> QED
        BY <2>1, <3>1, <3>2, TookEffect
    <2> QED
      BY <1>0, <2>1, <2>2, <2>3 DEF TypeInv
  <1>3. CASE PollTakeThrows
    <2>1. /\ pipe # <<>> /\ at' = "test" /\ pipe' = Tail(pipe)
          /\ stats' = [stats EXCEPT !.errors = @ + 1]
          /\ hist' = Took(0, 1, hist.tables)
          /\ UNCHANGED <<cur, queue>>
      BY <1>3 DEF PollTakeThrows, Step
    <2>2. pipe' \in Seq(Frame)
      BY <2>1, PipeHead DEF TypeInv
    <2>3. hist' \in HistType
      <3>1. hist \in HistType /\ hist.tables \in SUBSET (Tables \cup {<<>>})
        BY DEF TypeInv, HistType
      <3> QED
        BY <2>1, <3>1, TookEffect
    <2>4. stats' \in StatsType
      <3>1. stats \in StatsType
        BY DEF TypeInv
      <3> QED
        BY <2>1, <3>1 DEF StatsType
    <2> QED
      BY <1>0, <2>1, <2>2, <2>3, <2>4 DEF TypeInv
  <1>4. CASE PollDrop \/ PollCount
    <2>1. at' = "test" /\ cur' = NoFrame /\ UNCHANGED <<pipe, queue, hist>>
      BY <1>4 DEF PollDrop, PollCount, Step
    <2>2. stats' \in StatsType
      <3>1. stats \in StatsType
        BY DEF TypeInv
      <3>2. \/ stats' = [stats EXCEPT !.errors = @ + 1, !.dropped = @ + 1]
            \/ stats' = [stats EXCEPT !.processed = @ + 1]
            \/ stats' = [stats EXCEPT !.dropped = @ + 1]
        <4>1. CASE PollDrop
          BY <4>1 DEF PollDrop
        <4>2. CASE PollCount
          <5>1. stats' = IF accepted THEN [stats EXCEPT !.processed = @ + 1]
                         ELSE [stats EXCEPT !.dropped = @ + 1]
            BY <4>2 DEF PollCount, Counted
          <5> QED
            BY <5>1, Zenon
        <4> QED
          BY <1>4, <4>1, <4>2
      <3>3. CASE stats' = [stats EXCEPT !.errors = @ + 1, !.dropped = @ + 1]
        <4>1. stats.errors + 1 \in Nat /\ stats.dropped + 1 \in Nat
          BY <3>1 DEF StatsType
        <4> QED
          BY <3>1, <3>3, <4>1, Zenon DEF StatsType
      <3>4. CASE stats' = [stats EXCEPT !.processed = @ + 1]
        BY <3>1, <3>4 DEF StatsType
      <3>5. CASE stats' = [stats EXCEPT !.dropped = @ + 1]
        BY <3>1, <3>5 DEF StatsType
      <3> QED
        BY <3>2, <3>3, <3>4, <3>5
    <2> QED
      BY <1>0, <2>1, <2>2 DEF TypeInv
  <1>5. CASE Distribute
    <2>1. /\ at' \in {"count", "put", "lookup"} /\ (at' = "put" => target' = 0)
          /\ UNCHANGED <<pipe, cur, queue, stats, hist>>
      BY <1>5 DEF Distribute, Step
    <2> QED
      BY <1>0, <2>1, DefaultQueue DEF TypeInv
  <1>6. CASE Lookup
    <2>1. /\ at = "lookup" /\ at' = "put" /\ target' = reta[Index(cur.hash, mask)]
          /\ UNCHANGED <<pipe, cur, queue, stats, hist>>
      BY <1>6 DEF Lookup, Step
    <2>2. /\ config.rss /\ cur.kind = "flow" /\ cur \in Frame /\ reta \in Tables
          /\ mask = Cardinality(DOMAIN reta) - 1
      BY <2>1 DEF RouteInv, TypeInv
    <2>3. cur.hash \in Nat
      BY <2>2, FrameFields
    <2>4. target' \in Queues
      BY <2>1, <2>2, <2>3, TableLookup
    <2> QED
      BY <1>0, <2>1, <2>4 DEF TypeInv
  <1>7. CASE Put
    <2>1. /\ at = "put" /\ at' = "count" /\ UNCHANGED <<pipe, cur, stats, hist>>
          /\ queue' = queue \/ queue' = [queue EXCEPT ![target] = Append(@, cur)]
      BY <1>7 DEF Put, Step
    <2>2. target \in Queues /\ cur \in Frame
      BY <2>1 DEF TypeInv, RouteInv
    <2>3. Append(queue[target], cur) \in Seq(Frame)
      BY <2>2, AppendProperties DEF TypeInv
    <2>4. queue' \in [Queues -> Seq(Frame)]
      BY <2>1, <2>3 DEF TypeInv
    <2> QED
      BY <1>0, <2>1, <2>4 DEF TypeInv
  <1> QED
    BY <1>1, <1>2, <1>3, <1>4, <1>5, <1>6, <1>7 DEF Poll

\* Everybody else.
LEMMA OtherTypes == ASSUME TypeInv, [Next]_vars, ~Poll PROVE TypeInv'
  <1> USE DEF Waiting, Handling
  <1>1. ASSUME NEW f \in Frame, PutRx(f) PROVE TypeInv'
    <2>1. /\ pipe' = Append(pipe, f) /\ hist' = [hist EXCEPT !.injected = @ + 1]
          /\ UNCHANGED <<config, port, at, cur, target, reta, queue, out, delivered, stats>>
      BY <1>1 DEF PutRx, portVars, pollVars, appVars
    <2>2. pipe' \in Seq(Frame)
      BY <2>1, AppendProperties DEF TypeInv
    <2>3. hist' \in HistType
      <3>1. hist \in HistType
        BY DEF TypeInv
      <3> QED
        BY <2>1, <3>1 DEF HistType
    <2> QED
      BY <2>1, <2>2, <2>3 DEF TypeInv
  <1>2. ASSUME NEW b \in BOOLEAN, SetUp(b) PROVE TypeInv'
    <2>1. /\ hist' = [hist EXCEPT !.whileDown = 0]
          /\ UNCHANGED <<config, port, pipe, at, cur, target, reta, queue, out, delivered, stats>>
      BY <1>2 DEF SetUp, portVars, pollVars, appVars
    <2>2. hist' \in HistType
      <3>1. hist \in HistType
        BY DEF TypeInv
      <3> QED
        BY <2>1, <3>1 DEF HistType
    <2> QED
      BY <2>1, <2>2 DEF TypeInv
  <1>3. ASSUME NEW q \in Queues, Rx(q) PROVE TypeInv'
    <2> DEFINE m == Min({MaxSegments, Len(queue[q])})
    <2>1. /\ delivered' = [delivered EXCEPT ![q] = @ \o SubSeq(queue[q], 1, m)]
          /\ queue' = [queue EXCEPT ![q] = SubSeq(queue[q], m + 1, Len(queue[q]))]
          /\ out' = [out EXCEPT ![q] = @ + m]
          /\ queue[q] # <<>>
          /\ UNCHANGED <<config, port, pipe, at, cur, target, reta, stats, hist>>
      BY <1>3 DEF Rx, Kept, portVars, pollVars
    <2>2. queue[q] \in Seq(Frame) /\ delivered[q] \in Seq(Frame) /\ out[q] \in Nat
      BY DEF TypeInv
    <2>3. m \in 1 .. Len(queue[q])
      BY <2>1, <2>2, Burst
    <2> HIDE DEF m
    <2>4. /\ SubSeq(queue[q], 1, m) \in Seq(Frame)
          /\ SubSeq(queue[q], m + 1, Len(queue[q])) \in Seq(Frame)
      <3>1. Len(queue[q]) \in Nat /\ \A i \in 1 .. Len(queue[q]) : queue[q][i] \in Frame
        BY <2>2, LenProperties, ElementOfSeq
      <3> QED
        BY <2>3, <3>1, SubSeqProperties
    <2>5. delivered[q] \o SubSeq(queue[q], 1, m) \in Seq(Frame)
      BY <2>2, <2>4, ConcatProperties
    <2>6. out[q] + m \in Nat
      BY <2>2, <2>3
    <2>7. /\ delivered' \in [Queues -> Seq(Frame)] /\ queue' \in [Queues -> Seq(Frame)]
          /\ out' \in [Queues -> Nat]
      BY <2>1, <2>4, <2>5, <2>6 DEF TypeInv
    <2> QED
      BY <2>1, <2>7 DEF TypeInv
  <1>4. ASSUME NEW q \in Queues, NEW m \in 1 .. out[q], FreeRx(q, m) PROVE TypeInv'
    BY <1>4 DEF FreeRx, TypeInv, portVars, pollVars
  <1>5. ASSUME NEW t \in Tables, UpdateReta(t) PROVE TypeInv'
    <2>1. /\ reta' = t
          /\ hist' = [hist EXCEPT !.tables = IF at = "taken" THEN @ \cup {t} ELSE @]
          /\ UNCHANGED <<config, port, pipe, at, cur, target, queue, out, delivered, stats>>
      BY <1>5 DEF UpdateReta, portVars, pollVars, appVars
    <2>2. hist' \in HistType
      <3>1. hist \in HistType /\ t \in Tables \cup {<<>>}
        BY DEF TypeInv
      <3> QED
        BY <2>1, <3>1 DEF HistType
    <2> QED
      BY <2>1, <2>2 DEF TypeInv
  <1>6. CASE Start \/ RequestStop
    BY <1>6 DEF Start, RequestStop, TypeInv, pollVars, appVars
  <1>7. CASE JoinAndDrain
    <2>1. <<>> \in Seq(Frame)
      BY EmptySeq
    <2> QED
      BY <1>7, <2>1 DEF JoinAndDrain, TypeInv, appVars
  <1>8. CASE UNCHANGED vars
    BY <1>8 DEF vars, TypeInv, portVars, pollVars, appVars
  <1> QED
    BY <1>1, <1>2, <1>3, <1>4, <1>5, <1>6, <1>7, <1>8 DEF Next, App

-----------------------------------------------------------------------------
(* Counting. *)

\* The counters move once per frame.
LEMMA CountStep == ASSUME TypeInv, RouteInv, CountInv, [Next]_vars PROVE CountInv'
  <1> USE DEF Waiting, Handling
  <1>0. /\ at \in Waiting \cup Handling /\ pipe \in Seq(Frame) /\ Len(pipe) \in Nat
        /\ stats \in StatsType /\ hist \in HistType
    BY LenProperties DEF TypeInv
  <1>1. /\ hist.injected \in Nat /\ hist.taken \in Nat /\ hist.bad \in Nat /\ hist.lost \in Nat
        /\ stats.processed \in Nat /\ stats.dropped \in Nat /\ stats.errors \in Nat
    BY <1>0 DEF StatsType, HistType
  <1>a. hist.injected = hist.taken + Len(pipe)
    BY DEF CountInv
  <1>b. ASSUME at \in Waiting
        PROVE  /\ hist.taken = stats.processed + stats.dropped + hist.lost
               /\ stats.errors = hist.bad + hist.lost
    BY <1>b DEF CountInv
  <1>2. ASSUME UNCHANGED <<pipe, cur, stats>>, hist'.injected = hist.injected,
               hist'.taken = hist.taken, hist'.bad = hist.bad, hist'.lost = hist.lost,
               \/ at' = at
               \/ at \in Waiting /\ at' \in Waiting
               \/ at \in Handling /\ at' \in Handling /\ cur.kind # "bad"
        PROVE  CountInv'
    BY <1>0, <1>2 DEF CountInv
  <1>3. ASSUME NEW f \in Frame, PutRx(f) PROVE CountInv'
    <2>1. /\ pipe' = Append(pipe, f) /\ hist' = [hist EXCEPT !.injected = @ + 1]
          /\ UNCHANGED <<at, cur, stats>>
      BY <1>3 DEF PutRx, pollVars
    <2>2. Len(pipe') = Len(pipe) + 1
      BY <1>0, <2>1, AppendProperties
    <2>3. /\ hist'.injected = hist.injected + 1 /\ hist'.taken = hist.taken
          /\ hist'.bad = hist.bad /\ hist'.lost = hist.lost
      BY <1>0, <2>1 DEF HistType
    <2>4. hist'.injected = hist'.taken + Len(pipe')
      <3>1. hist.injected + 1 = hist.taken + (Len(pipe) + 1)
        <4>1. PICK x \in Nat, y \in Nat : x = hist.taken /\ y = Len(pipe)
          BY <1>0, <1>1
        <4>2. (x + y) + 1 = x + (y + 1)
          OBVIOUS
        <4> QED
          BY <1>a, <4>1, <4>2, Zenon
      <3> QED
        BY <2>2, <2>3, <3>1, Zenon
    <2> QED
      BY <2>1, <2>3, <2>4 DEF CountInv
  <1>4. CASE PollTake
    <2> DEFINE b == IF Head(pipe).kind = "bad" THEN 1 ELSE 0
    <2>1. /\ at = "take" /\ at' = "taken" /\ pipe # <<>>
          /\ pipe' = Tail(pipe) /\ cur' = Head(pipe) /\ stats' = stats
          /\ hist' = Took(b, 0, {reta})
      BY <1>4 DEF PollTake, Step
    <2>a. stats.errors = hist.bad + hist.lost
      BY <1>b, <2>1
    <2>2. /\ hist'.injected = hist.injected /\ hist'.taken = hist.taken + 1
          /\ hist'.bad = hist.bad + b /\ hist'.lost = hist.lost + 0
      <3>1. b \in Nat /\ {reta} \in SUBSET (Tables \cup {<<>>})
        BY DEF TypeInv
      <3> QED
        BY <1>0, <2>1, <3>1, TookEffect
    <2>3. Len(pipe) = Len(pipe') + 1 /\ Len(pipe') \in Nat
      BY <1>0, <2>1, PipeHead, LenProperties
    <2>4. hist'.injected = hist'.taken + Len(pipe')
      BY <1>1, <2>2, <2>3 DEF CountInv
    <2>5. hist'.taken = stats'.processed + stats'.dropped + hist'.lost + 1
      BY <1>1, <2>1, <2>2 DEF CountInv
    <2>6. CASE cur'.kind = "bad"
      <3>1. hist'.bad = hist.bad + 1
        BY <2>1, <2>2, <2>6
      <3>2. stats'.errors + 1 = hist'.bad + hist'.lost
        <4>1. stats.errors + 1 = (hist.bad + 1) + (hist.lost + 0)
          BY <1>1, <2>a
        <4> QED
          BY <2>1, <2>2, <3>1, <4>1, Zenon
      <3> QED
        BY <2>1, <2>4, <2>5, <2>6, <3>2 DEF CountInv
    <2>7. CASE cur'.kind # "bad"
      <3>1. hist'.bad = hist.bad
        BY <1>1, <2>1, <2>2, <2>7
      <3>2. stats'.errors = hist'.bad + hist'.lost
        BY <1>1, <2>1, <2>2, <3>1 DEF CountInv
      <3> QED
        BY <2>1, <2>4, <2>5, <2>7, <3>2 DEF CountInv
    <2> QED
      BY <2>6, <2>7
  <1>5. CASE PollTakeThrows
    <2>1. /\ at = "take" /\ at' = "test" /\ pipe # <<>> /\ pipe' = Tail(pipe) /\ cur' = cur
          /\ stats' = [stats EXCEPT !.errors = @ + 1]
          /\ hist' = Took(0, 1, hist.tables)
      BY <1>5 DEF PollTakeThrows, Step
    <2>a. /\ hist.taken = stats.processed + stats.dropped + hist.lost
          /\ stats.errors = hist.bad + hist.lost
      BY <1>b, <2>1
    <2>2. /\ hist'.injected = hist.injected /\ hist'.taken = hist.taken + 1
          /\ hist'.bad = hist.bad + 0 /\ hist'.lost = hist.lost + 1
      <3>1. hist.tables \in SUBSET (Tables \cup {<<>>})
        BY <1>0 DEF HistType
      <3> QED
        BY <1>0, <2>1, <3>1, TookEffect
    <2>3. Len(pipe) = Len(pipe') + 1 /\ Len(pipe') \in Nat
      BY <1>0, <2>1, PipeHead, LenProperties
    <2>4. /\ stats'.processed = stats.processed /\ stats'.dropped = stats.dropped
          /\ stats'.errors = stats.errors + 1
      BY <1>0, <2>1 DEF StatsType
    <2>5. /\ hist'.injected = hist'.taken + Len(pipe')
          /\ hist'.taken = stats'.processed + stats'.dropped + hist'.lost
          /\ stats'.errors = hist'.bad + hist'.lost
      <3>1. hist.injected = (hist.taken + 1) + Len(pipe')
        BY <1>1, <1>a, <2>3
      <3>2. /\ hist.taken + 1 = stats.processed + stats.dropped + (hist.lost + 1)
            /\ stats.errors + 1 = (hist.bad + 0) + (hist.lost + 1)
        BY <1>1, <2>a
      <3> QED
        BY <2>2, <2>4, <3>1, <3>2, Zenon
    <2> QED
      BY <2>1, <2>5 DEF CountInv
  <1>6. CASE PollDrop
    <2>1. /\ at = "taken" /\ at' = "test" /\ cur.kind = "bad" /\ pipe' = pipe /\ hist' = hist
          /\ stats' = [stats EXCEPT !.errors = @ + 1, !.dropped = @ + 1]
      BY <1>6 DEF PollDrop, Step
    <2>a. /\ hist.taken = stats.processed + stats.dropped + hist.lost + 1
          /\ stats.errors + 1 = hist.bad + hist.lost
      BY <2>1 DEF CountInv
    <2>2. /\ stats'.processed = stats.processed /\ stats'.dropped = stats.dropped + 1
          /\ stats'.errors = stats.errors + 1
      BY <1>0, <2>1 DEF StatsType
    <2>3. /\ hist.injected = hist.taken + Len(pipe)
          /\ hist.taken = stats'.processed + stats'.dropped + hist.lost
          /\ stats'.errors = hist.bad + hist.lost
      <3>1. /\ hist.taken = stats.processed + (stats.dropped + 1) + hist.lost
            /\ stats.errors + 1 = hist.bad + hist.lost
        BY <1>1, <2>a
      <3> QED
        BY <1>a, <2>2, <3>1, Zenon
    <2> QED
      BY <2>1, <2>3 DEF CountInv
  <1>7. CASE Distribute
    <2>1. /\ at = "taken" /\ at' \in Handling /\ cur.kind # "bad"
          /\ UNCHANGED <<pipe, cur, stats, hist>>
      BY <1>7 DEF Distribute, Step
    <2> QED
      BY <1>2, <2>1
  <1>8. CASE Lookup \/ Put
    <2>1. /\ at \in {"lookup", "put"} /\ at' \in Handling /\ UNCHANGED <<pipe, cur, stats, hist>>
      BY <1>8 DEF Lookup, Put, Step
    <2>2. cur.kind # "bad"
      BY <2>1 DEF CountInv
    <2> QED
      BY <1>2, <2>1, <2>2
  <1>9. CASE PollCount
    <2>1. at = "count" /\ at' = "test" /\ stats' = Counted /\ pipe' = pipe /\ hist' = hist
      BY <1>9 DEF PollCount, Step
    <2>2. /\ stats'.processed \in Nat /\ stats'.dropped \in Nat
          /\ stats'.processed + stats'.dropped = stats.processed + stats.dropped + 1
          /\ stats'.errors = stats.errors
      <3>1. CASE stats' = [stats EXCEPT !.processed = @ + 1]
        BY <1>0, <1>1, <3>1 DEF StatsType
      <3>2. CASE stats' = [stats EXCEPT !.dropped = @ + 1]
        BY <1>0, <1>1, <3>2 DEF StatsType
      <3> QED
        BY <2>1, <3>1, <3>2 DEF Counted
    <2>3. /\ hist.taken = stats.processed + stats.dropped + hist.lost + 1
          /\ stats.errors = hist.bad + hist.lost
      BY <2>1 DEF CountInv, Handling
    <2>4. (stats.processed + stats.dropped + 1) + hist.lost
            = stats.processed + stats.dropped + hist.lost + 1
      BY <1>1
    <2>5. /\ hist.taken = stats'.processed + stats'.dropped + hist.lost
          /\ stats'.errors = hist.bad + hist.lost
      BY <2>2, <2>3, <2>4, Zenon
    <2> QED
      BY <1>a, <2>1, <2>5 DEF CountInv, Waiting, Handling
  <1>10. CASE PollTest \/ PollTimeout \/ Start \/ RequestStop \/ JoinAndDrain
    <2>1. CASE PollTest \/ PollTimeout \/ JoinAndDrain
      <3>1. at \in Waiting /\ at' \in Waiting /\ UNCHANGED <<pipe, cur, stats, hist>>
        BY <2>1 DEF PollTest, PollTimeout, JoinAndDrain, Step, AfterTest, AfterTimeout
      <3> QED
        BY <1>2, <3>1
    <2>2. CASE RequestStop
      <3>1. UNCHANGED <<at, pipe, cur, stats, hist>>
        BY <2>2 DEF RequestStop, pollVars
      <3> QED
        BY <1>2, <3>1
    <2>3. CASE Start
      <3>1. at = "off" /\ at' = "test" /\ UNCHANGED <<pipe, cur, stats, hist>>
        BY <2>3 DEF Start, TypeInv
      <3> QED
        BY <1>2, <3>1
    <2> QED
      BY <1>10, <2>1, <2>2, <2>3
  <1>11. ASSUME NEW b \in BOOLEAN, SetUp(b) PROVE CountInv'
    <2>1. hist' = [hist EXCEPT !.whileDown = 0] /\ UNCHANGED <<at, pipe, cur, stats>>
      BY <1>11 DEF SetUp, pollVars
    <2>2. /\ hist'.injected = hist.injected /\ hist'.taken = hist.taken
          /\ hist'.bad = hist.bad /\ hist'.lost = hist.lost
      BY <1>0, <2>1 DEF HistType
    <2> QED
      BY <1>2, <2>1, <2>2
  <1>12. ASSUME NEW t \in Tables, UpdateReta(t) PROVE CountInv'
    <2>1. /\ hist' = [hist EXCEPT !.tables = IF at = "taken" THEN @ \cup {t} ELSE @]
          /\ UNCHANGED <<at, pipe, cur, stats>>
      BY <1>12 DEF UpdateReta, pollVars
    <2>2. /\ hist'.injected = hist.injected /\ hist'.taken = hist.taken
          /\ hist'.bad = hist.bad /\ hist'.lost = hist.lost
      BY <1>0, <2>1 DEF HistType
    <2> QED
      BY <1>2, <2>1, <2>2
  <1>13. CASE (\E q \in Queues : App(q)) \/ UNCHANGED vars
    <2>1. UNCHANGED <<at, pipe, cur, stats, hist>>
      BY <1>13 DEF App, Rx, FreeRx, vars, pollVars
    <2> QED
      BY <1>2, <2>1
  <1> QED
    BY <1>3, <1>4, <1>5, <1>6, <1>7, <1>8, <1>9, <1>10, <1>11, <1>12, <1>13 DEF Next, Poll

-----------------------------------------------------------------------------
(* The link and the table. *)

\* A frame is taken only after isUp() was true.
LEMMA DownStep == ASSUME TypeInv, DownInv, [Next]_vars PROVE DownInv'
  <1>0. hist \in HistType /\ hist.whileDown \in Nat /\ (port = "stopped" => at = "off")
    BY DEF TypeInv, HistType
  <1>1. ASSUME hist'.whileDown = hist.whileDown, up' = up, at' = "take" => at = "take" \/ up
        PROVE  DownInv'
    BY <1>1 DEF DownInv
  <1>2. CASE PollTake \/ PollTakeThrows
    <2>1. at = "take" /\ at' # "take" /\ up' = up
      BY <1>2 DEF PollTake, PollTakeThrows, Step
    <2>2. hist'.whileDown = IF up THEN hist.whileDown ELSE hist.whileDown + 1
      <3>1. CASE PollTake
        <4> DEFINE b == IF Head(pipe).kind = "bad" THEN 1 ELSE 0
        <4>1. hist' = Took(b, 0, {reta})
          BY <3>1 DEF PollTake
        <4>2. b \in Nat /\ {reta} \in SUBSET (Tables \cup {<<>>})
          BY DEF TypeInv
        <4> QED
          BY <1>0, <4>1, <4>2, TookEffect
      <3>2. CASE PollTakeThrows
        <4>1. hist' = Took(0, 1, hist.tables)
          BY <3>2 DEF PollTakeThrows
        <4>2. hist.tables \in SUBSET (Tables \cup {<<>>})
          BY <1>0 DEF HistType
        <4> QED
          BY <1>0, <4>1, <4>2, TookEffect
      <3> QED
        BY <1>2, <3>1, <3>2
    <2>3. hist.whileDown = 0
      BY <2>1 DEF DownInv
    <2> QED
      BY <2>1, <2>2, <2>3 DEF DownInv
  <1>3. CASE PollTest
    <2>1. at' = AfterTest /\ hist' = hist /\ up' = up
      BY <1>3 DEF PollTest, Step
    <2>2. at' = "take" => up
      BY <2>1 DEF AfterTest
    <2> QED
      BY <1>1, <2>1, <2>2
  <1>4. CASE PollTimeout \/ PollDrop \/ Distribute \/ Lookup \/ Put \/ PollCount
    <2>1. hist' = hist /\ up' = up /\ at' # "take"
      BY <1>4 DEF PollTimeout, PollDrop, Distribute, Lookup, Put, PollCount, Step, AfterTimeout
    <2> QED
      BY <1>1, <2>1
  <1>5. ASSUME NEW f \in Frame, PutRx(f) PROVE DownInv'
    <2>1. hist' = [hist EXCEPT !.injected = @ + 1] /\ up' = up /\ at' = at
      BY <1>5 DEF PutRx, pollVars
    <2>2. hist'.whileDown = hist.whileDown
      BY <1>0, <2>1 DEF HistType
    <2> QED
      BY <1>1, <2>1, <2>2
  <1>6. ASSUME NEW b \in BOOLEAN, SetUp(b) PROVE DownInv'
    <2>1. hist' = [hist EXCEPT !.whileDown = 0]
      BY <1>6 DEF SetUp
    <2>2. hist'.whileDown = 0
      BY <1>0, <2>1 DEF HistType
    <2> QED
      BY <2>2 DEF DownInv
  <1>7. ASSUME NEW t \in Tables, UpdateReta(t) PROVE DownInv'
    <2>1. /\ hist' = [hist EXCEPT !.tables = IF at = "taken" THEN @ \cup {t} ELSE @]
          /\ up' = up /\ at' = at
      BY <1>7 DEF UpdateReta, pollVars
    <2>2. hist'.whileDown = hist.whileDown
      BY <1>0, <2>1 DEF HistType
    <2> QED
      BY <1>1, <2>1, <2>2
  <1>8. CASE \/ \E q \in Queues : App(q)
             \/ Start \/ RequestStop \/ JoinAndDrain \/ UNCHANGED vars
    <2>1. hist' = hist /\ up' = up /\ (at' = at \/ at' # "take")
      BY <1>8 DEF App, Rx, FreeRx, Start, RequestStop, JoinAndDrain, vars, pollVars
    <2> QED
      BY <1>1, <2>1
  <1> QED
    BY <1>2, <1>3, <1>4, <1>5, <1>6, <1>7, <1>8 DEF Next, Poll

\* The table a frame is routed by is one that was in force since it was taken.
LEMMA RouteStep == ASSUME TypeInv, RouteInv, [Next]_vars PROVE RouteInv'
  <1>0. hist \in HistType /\ (port = "stopped" => at = "off")
    BY DEF TypeInv
  <1>1. ASSUME UNCHANGED <<config, at, cur, mask, target, reta>>, hist'.tables = hist.tables
        PROVE  RouteInv'
    BY <1>1 DEF RouteInv, RoutedByOneTable, Route
  <1>2. ASSUME at' \notin {"taken", "lookup", "put"} PROVE RouteInv'
    BY <1>2 DEF RouteInv, RoutedByOneTable
  <1>3. CASE PollTake
    <2> DEFINE b == IF Head(pipe).kind = "bad" THEN 1 ELSE 0
    <2>1. at' = "taken" /\ reta' = reta /\ hist' = Took(b, 0, {reta})
      BY <1>3 DEF PollTake, Step
    <2>2. b \in Nat /\ {reta} \in SUBSET (Tables \cup {<<>>})
      BY DEF TypeInv
    <2>3. hist'.tables = {reta}
      BY <1>0, <2>1, <2>2, TookEffect, ZenonT(30)
    <2>4. cur' \in Frame
      BY <1>3, PipeHead DEF PollTake, TypeInv
    <2> QED
      BY <2>1, <2>3, <2>4 DEF RouteInv, RoutedByOneTable
  <1>4. CASE Distribute
    <2>1. /\ at = "taken" /\ cur.kind # "bad"
          /\ UNCHANGED <<config, cur, reta, hist>> /\ reta \in hist.tables
      BY <1>4 DEF Distribute, Step, portVars, RouteInv
    <2>2. CASE at' = "count"
      BY <1>2, <2>2
    <2>3. CASE at' = "put" /\ ~(config.rss /\ cur.kind = "flow") /\ target' = 0
      <3>1. target' = Route(reta, cur)'
        BY <2>1, <2>3 DEF Route
      <3> QED
        BY <2>1, <2>3, <3>1 DEF RouteInv, RoutedByOneTable, Route
    <2>4. CASE /\ at' = "lookup" /\ config.rss /\ cur.kind = "flow"
               /\ mask' = Cardinality(DOMAIN reta) - 1
      BY <2>1, <2>4 DEF RouteInv, RoutedByOneTable
    <2> QED
      BY <1>4, <2>2, <2>3, <2>4 DEF Distribute, Step
  <1>5. CASE Lookup
    <2>1. /\ at = "lookup" /\ at' = "put" /\ target' = reta[Index(cur.hash, mask)]
          /\ UNCHANGED <<config, cur, reta, hist>>
      BY <1>5 DEF Lookup, Step, portVars
    <2>2. /\ config.rss /\ cur.kind = "flow" /\ cur \in Frame /\ reta \in Tables
          /\ mask = Cardinality(DOMAIN reta) - 1 /\ reta \in hist.tables
      BY <2>1 DEF RouteInv, TypeInv
    <2>3. cur.hash \in Nat
      BY <2>2, FrameFields
    <2>4. target' = reta[cur.hash % Cardinality(DOMAIN reta)]
      BY <2>1, <2>2, <2>3, TableLookup
    <2>5. \E t \in hist.tables : target' = Route(t, cur)
      BY <2>2, <2>4 DEF Route
    <2> QED
      BY <2>1, <2>2, <2>5 DEF RouteInv, RoutedByOneTable, Route
  <1>6. CASE PollTakeThrows \/ PollTest \/ PollTimeout \/ PollDrop \/ Put \/ PollCount
    <2>1. at' \notin {"taken", "lookup", "put"}
      BY <1>6 DEF PollTakeThrows, PollTest, PollTimeout, PollDrop, Put, PollCount, Step,
                  AfterTest, AfterTimeout
    <2> QED
      BY <1>2, <2>1
  <1>7. ASSUME NEW f \in Frame, PutRx(f) PROVE RouteInv'
    <2>1. /\ hist' = [hist EXCEPT !.injected = @ + 1]
          /\ UNCHANGED <<config, at, cur, mask, target, reta>>
      BY <1>7 DEF PutRx, pollVars, portVars
    <2>2. hist'.tables = hist.tables
      BY <1>0, <2>1 DEF HistType
    <2> QED
      BY <1>1, <2>1, <2>2
  <1>8. ASSUME NEW b \in BOOLEAN, SetUp(b) PROVE RouteInv'
    <2>1. /\ hist' = [hist EXCEPT !.whileDown = 0]
          /\ UNCHANGED <<config, at, cur, mask, target, reta>>
      BY <1>8 DEF SetUp, pollVars, portVars
    <2>2. hist'.tables = hist.tables
      BY <1>0, <2>1 DEF HistType
    <2> QED
      BY <1>1, <2>1, <2>2
  <1>9. ASSUME NEW t \in Tables, UpdateReta(t) PROVE RouteInv'
    <2>1. /\ hist' = [hist EXCEPT !.tables = IF at = "taken" THEN @ \cup {t} ELSE @]
          /\ at # "lookup" /\ reta' = t /\ UNCHANGED <<config, at, cur, mask, target>>
      BY <1>9 DEF UpdateReta, pollVars, portVars
    <2>2. hist'.tables = IF at = "taken" THEN hist.tables \cup {t} ELSE hist.tables
      BY <1>0, <2>1 DEF HistType
    <2> QED
      BY <2>1, <2>2 DEF RouteInv, RoutedByOneTable, Route
  <1>10. CASE (\E q \in Queues : App(q)) \/ RequestStop \/ UNCHANGED vars
    <2>1. UNCHANGED <<config, at, cur, mask, target, reta, hist>>
      BY <1>10 DEF App, Rx, FreeRx, RequestStop, vars, pollVars, portVars
    <2> QED
      BY <1>1, <2>1
  <1>11. CASE Start \/ JoinAndDrain
    <2>1. at' \notin {"taken", "lookup", "put"}
      BY <1>11 DEF Start, JoinAndDrain
    <2> QED
      BY <1>2, <2>1
  <1> QED
    BY <1>3, <1>4, <1>5, <1>6, <1>7, <1>8, <1>9, <1>10, <1>11 DEF Next, Poll

-----------------------------------------------------------------------------
(* What the queues received. *)

Early == {"taken", "lookup", "put"}

InOrder(r) == \A i \in 2 .. Len(r) : r[i - 1].id < r[i].id

\* Frames are numbered as they are injected.  The frame being handled is the
\* last one taken, and newer than all the queues have received until put().
ReceivedInv == /\ \A i \in 1 .. Len(pipe) : pipe[i].id = hist.taken + i
               /\ at \in Handling => cur.id = hist.taken
               /\ \A q \in Queues : \A f \in Range(Received(q)) :
                     f.id <= hist.taken /\ (at \in Early => f.id < hist.taken)
               /\ OnceInOrder

\* A queue that receives a newer frame.
LEMMA NewerLast ==
  ASSUME NEW r \in Seq(Frame), NEW f \in Frame, InOrder(r), \A e \in Range(r) : e.id < f.id
  PROVE  /\ InOrder(Append(r, f))
         /\ Range(Append(r, f)) = Range(r) \cup {f}
         /\ f \notin Range(r)
  <1> DEFINE t == Append(r, f)
  <1>1. /\ Len(t) = Len(r) + 1 /\ \A i \in 1 .. Len(r) : t[i] = r[i]
        /\ t[Len(r) + 1] = f /\ t \in Seq(Frame)
    BY AppendProperties
  <1>2. /\ Len(r) \in Nat /\ Range(r) = {r[i] : i \in 1 .. Len(r)}
        /\ Range(t) = {t[i] : i \in 1 .. Len(t)}
    BY <1>1, LenProperties, RangeEquality
  <1> HIDE DEF t
  <1>3. ASSUME NEW i \in 2 .. Len(t) PROVE t[i - 1].id < t[i].id
    <2>1. CASE i = Len(r) + 1
      <3>1. t[i] = f /\ i - 1 \in 1 .. Len(r) /\ t[i - 1] = r[i - 1]
        BY <1>1, <1>2, <2>1
      <3>2. r[i - 1] \in Range(r)
        BY <1>2, <3>1
      <3> QED
        BY <3>1, <3>2
    <2>2. CASE i # Len(r) + 1
      <3>1. i \in 2 .. Len(r) /\ i - 1 \in 1 .. Len(r) /\ i \in 1 .. Len(r)
        BY <1>1, <1>2, <2>2
      <3>2. t[i] = r[i] /\ t[i - 1] = r[i - 1]
        BY <1>1, <3>1
      <3> QED
        BY <3>1, <3>2 DEF InOrder
    <2> QED
      BY <2>1, <2>2
  <1>4. Range(t) = Range(r) \cup {f}
    BY <1>1, <1>2
  <1>5. f.id \in Nat
    BY FrameFields, VNicRxAssumption
  <1>6. f \notin Range(r)
    BY <1>5
  <1> QED
    BY <1>3, <1>4, <1>6 DEF InOrder, t

\* A queue that put() adds to, that rx() takes from, and that stop() drains.
LEMMA ReceivedMoves ==
  ASSUME NEW d \in Seq(Frame), NEW s \in Seq(Frame)
  PROVE  /\ \A f \in Frame : d \o Append(s, f) = Append(d \o s, f)
         /\ \A m \in 0 .. Len(s) :
              (d \o SubSeq(s, 1, m)) \o SubSeq(s, m + 1, Len(s)) = d \o s
         /\ InOrder(d \o s) => InOrder(d)
         /\ Range(d) \subseteq Range(d \o s)
         /\ d \o <<>> = d
  <1>0. \A x, y, z \in Seq(Frame) : (x \o y) \o z = x \o (y \o z)
    BY ConcatAssociative
  <1>1. ASSUME NEW f \in Frame PROVE d \o Append(s, f) = Append(d \o s, f)
    <2>1. <<f>> \in Seq(Frame) /\ d \o s \in Seq(Frame)
      BY ConcatProperties
    <2>2. Append(s, f) = s \o <<f>> /\ Append(d \o s, f) = (d \o s) \o <<f>>
      BY <2>1, AppendIsConcat
    <2> QED
      BY <2>1, <2>2, ConcatAssociative
  <1>2. ASSUME NEW m \in 0 .. Len(s)
        PROVE  (d \o SubSeq(s, 1, m)) \o SubSeq(s, m + 1, Len(s)) = d \o s
    <2>1. Len(s) \in Nat /\ \A i \in 1 .. Len(s) : s[i] \in Frame
      BY LenProperties, ElementOfSeq
    <2>2. 1 \in 1 .. Len(s) + 1 /\ m \in 1 - 1 .. Len(s) /\ Len(s) \in m .. Len(s)
      BY <2>1
    <2>3. SubSeq(s, 1, m) \o SubSeq(s, m + 1, Len(s)) = s
      BY <2>2, ConcatAdjacentSubSeq, SubSeqFull
    <2>4. 1 \in Int /\ m \in Int /\ \A i \in 1 .. m : s[i] \in Frame
      BY <2>1
    <2>5. SubSeq(s, 1, m) \in Seq(Frame) /\ SubSeq(s, m + 1, Len(s)) \in Seq(Frame)
      BY <2>4, SubSeqProperties, DropElements
    <2> DEFINE a == SubSeq(s, 1, m)
               b == SubSeq(s, m + 1, Len(s))
    <2>6. a \o b = s
      BY <2>3
    <2>7. a \in Seq(Frame) /\ b \in Seq(Frame)
      BY <2>5
    <2> HIDE DEF a, b
    <2>8. (d \o a) \o b = d \o (a \o b)
      BY <2>7, <1>0, Zenon
    <2>9. (d \o a) \o b = d \o s
      BY <2>6, <2>8, Zenon
    <2> QED
      BY <2>9, Zenon DEF a, b
  <1>3. /\ Len(d) \in Nat /\ Len(s) \in Nat /\ Len(d \o s) = Len(d) + Len(s)
        /\ \A i \in 1 .. Len(d) + Len(s) :
             (d \o s)[i] = IF i <= Len(d) THEN d[i] ELSE s[i - Len(d)]
    BY LenProperties, ConcatProperties
  <1>4. ASSUME InOrder(d \o s), NEW i \in 2 .. Len(d) PROVE d[i - 1].id < d[i].id
    <2>1. i \in 2 .. Len(d \o s) /\ i - 1 \in 1 .. Len(d) + Len(s) /\ i \in 1 .. Len(d) + Len(s)
      BY <1>3
    <2>2. i <= Len(d) /\ i - 1 <= Len(d)
      BY <1>3
    <2>3. (d \o s)[i] = d[i] /\ (d \o s)[i - 1] = d[i - 1]
      BY <1>3, <2>1, <2>2
    <2> QED
      BY <1>4, <2>1, <2>3 DEF InOrder
  <1>5. Range(d) \subseteq Range(d \o s)
    BY RangeConcatenation
  <1> QED
    BY <1>1, <1>2, <1>4, <1>5, ConcatEmptySeq DEF InOrder

\* The queues have received nothing new, and nothing else has moved back.
LEMMA ReceivedKept ==
  ASSUME ReceivedInv, hist'.taken = hist.taken,
         \A i \in 1 .. Len(pipe') : pipe'[i].id = hist.taken + i,
         at' \in Handling => at \in Handling /\ cur' = cur,
         at' \in Early => at \in Early,
         \A q \in Queues : /\ InOrder(Received(q)) => InOrder(Received(q)')
                           /\ Range(Received(q)') \subseteq Range(Received(q))
  PROVE  ReceivedInv'
  <1>1. \A q \in Queues : InOrder(Received(q)')
    BY DEF ReceivedInv, OnceInOrder, InOrder
  <1>2. \A q, r \in Queues : q < r => Range(Received(q)') \cap Range(Received(r)') = {}
    BY DEF ReceivedInv, OnceInOrder
  <1>3. OnceInOrder'
    BY <1>1, <1>2 DEF OnceInOrder, InOrder
  <1>4. \A q \in Queues : \A f \in Range(Received(q)') :
           f.id <= hist'.taken /\ (at' \in Early => f.id < hist'.taken)
    BY DEF ReceivedInv
  <1> QED
    BY <1>3, <1>4 DEF ReceivedInv

\* Steps that leave the queues alone.
LEMMA ReceivedSame ==
  ASSUME ReceivedInv, hist'.taken = hist.taken, UNCHANGED <<pipe, queue, delivered>>,
         at' \in Handling => at \in Handling /\ cur' = cur,
         at' \in Early => at \in Early
  PROVE  ReceivedInv'
  <1>1. \A q \in Queues : Received(q)' = Received(q)
    BY DEF Received
  <1>2. \A i \in 1 .. Len(pipe') : pipe'[i].id = hist.taken + i
    BY DEF ReceivedInv
  <1> QED
    BY <1>1, <1>2, ReceivedKept

\* Every step keeps what the queues received in order and apart.
LEMMA ReceivedStep ==
  ASSUME TypeInv, CountInv, RouteInv, ReceivedInv, [Next]_vars PROVE ReceivedInv'
  <1>1. /\ hist \in HistType /\ hist.taken \in Nat /\ Len(pipe) \in Nat
        /\ pipe \in Seq(Frame) /\ (port = "stopped" => at = "off")
    BY LenProperties DEF TypeInv, HistType
  <1>2. /\ \A i \in 1 .. Len(pipe) : pipe[i].id = hist.taken + i
        /\ at \in Handling => cur.id = hist.taken
        /\ \A q \in Queues : \A f \in Range(Received(q)) :
              f.id <= hist.taken /\ (at \in Early => f.id < hist.taken)
        /\ OnceInOrder
    BY DEF ReceivedInv
  <1>3. ASSUME NEW q \in Queues
        PROVE  /\ queue[q] \in Seq(Frame) /\ delivered[q] \in Seq(Frame)
               /\ Received(q) \in Seq(Frame) /\ InOrder(Received(q))
               /\ \A f \in Range(Received(q)) : f \in Frame /\ f.id \in Nat
    <2>1. queue[q] \in Seq(Frame) /\ delivered[q] \in Seq(Frame)
      BY DEF TypeInv
    <2>2. Received(q) \in Seq(Frame)
      BY <2>1, ConcatProperties DEF Received
    <2>3. Range(Received(q)) \subseteq Frame
      BY <2>2, RangeOfSeq
    <2>4. \A f \in Frame : f.id \in Nat
      BY FrameFields, VNicRxAssumption
    <2> QED
      BY <1>2, <2>1, <2>2, <2>3, <2>4 DEF OnceInOrder, InOrder
  <1>4. CASE PollTake \/ PollTakeThrows
    <2>1. /\ pipe # <<>> /\ pipe' = Tail(pipe) /\ UNCHANGED <<queue, delivered>>
          /\ (at' = "taken" /\ cur' = Head(pipe)) \/ at' = "test"
      BY <1>4 DEF PollTake, PollTakeThrows, Step, appVars
    <2>2. hist'.taken = hist.taken + 1
      <3>1. CASE PollTake
        <4> DEFINE b == IF Head(pipe).kind = "bad" THEN 1 ELSE 0
        <4>1. hist' = Took(b, 0, {reta})
          BY <3>1 DEF PollTake
        <4>2. b \in Nat /\ {reta} \in SUBSET (Tables \cup {<<>>})
          BY DEF TypeInv
        <4> QED
          BY <1>1, <4>1, <4>2, TookEffect
      <3>2. CASE PollTakeThrows
        <4>1. hist' = Took(0, 1, hist.tables) /\ hist.tables \in SUBSET (Tables \cup {<<>>})
          BY <1>1, <3>2 DEF PollTakeThrows, HistType
        <4> QED
          BY <1>1, <4>1, TookEffect
      <3> QED
        BY <1>4, <3>1, <3>2
    <2>3. /\ Len(Tail(pipe)) = Len(pipe) - 1 /\ Len(pipe) >= 1 /\ Head(pipe) = pipe[1]
          /\ \A i \in 1 .. Len(pipe) - 1 : Tail(pipe)[i] = pipe[i + 1]
      <3>1. Len(pipe) # 0
        BY <1>1, <2>1, EmptySeq
      <3>2. /\ Len(Tail(pipe)) = Len(pipe) - 1
            /\ \A i \in 1 .. Len(Tail(pipe)) : Tail(pipe)[i] = pipe[i + 1]
        BY <1>1, <2>1, HeadTailProperties
      <3>3. Head(pipe) = pipe[1]
        BY <2>1
      <3> QED
        BY <1>1, <3>1, <3>2, <3>3
    <2>4. ASSUME NEW i \in 1 .. Len(pipe') PROVE pipe'[i].id = hist'.taken + i
      <3>1. i \in 1 .. Len(pipe) - 1 /\ i + 1 \in 1 .. Len(pipe)
        BY <1>1, <2>1, <2>3
      <3>2. pipe'[i] = pipe[i + 1] /\ pipe[i + 1].id = hist.taken + (i + 1)
        BY <1>2, <2>1, <2>3, <3>1
      <3>3. hist.taken + (i + 1) = (hist.taken + 1) + i
        <4>1. i \in Nat /\ hist.taken \in Nat
          BY <1>1
        <4>2. \A m, k \in Nat : m + (k + 1) = (m + 1) + k
          OBVIOUS
        <4> QED
          BY <4>1, <4>2, Zenon
      <3> QED
        BY <2>2, <3>2, <3>3, Zenon
    <2>5. at' \in Handling => cur'.id = hist'.taken
      <3>1. 1 \in 1 .. Len(pipe)
        BY <1>1, <2>3
      <3>2. pipe[1].id = hist.taken + 1
        BY <1>2, <3>1
      <3> QED
        BY <2>1, <2>2, <2>3, <3>2 DEF Handling
    <2>6. \A q \in Queues : Received(q)' = Received(q)
      BY <2>1 DEF Received
    <2>7. ASSUME NEW q \in Queues, NEW f \in Range(Received(q)') PROVE f.id < hist'.taken
      <3>1. f.id \in Nat /\ f.id <= hist.taken
        BY <1>2, <1>3, <2>6, <2>7
      <3> QED
        BY <1>1, <2>2, <3>1
    <2>8. ASSUME NEW q \in Queues, NEW f \in Range(Received(q)') PROVE f.id <= hist'.taken
      <3>1. f.id \in Nat /\ f.id < hist'.taken /\ hist'.taken \in Nat
        BY <1>1, <1>3, <2>2, <2>6, <2>7
      <3> QED
        BY <3>1
    <2>9. OnceInOrder'
      BY <1>2, <2>6 DEF OnceInOrder
    <2> QED
      BY <2>4, <2>5, <2>7, <2>8, <2>9 DEF ReceivedInv
  <1>5. CASE PollTest \/ PollTimeout \/ PollDrop \/ Distribute \/ Lookup \/ PollCount
    <2>1. UNCHANGED <<pipe, queue, delivered, hist>>
      BY <1>5 DEF PollTest, PollTimeout, PollDrop, Distribute, Lookup, PollCount, Step, appVars
    <2>2. /\ at' \in Handling => at \in Handling /\ cur' = cur
          /\ at' \in Early => at \in Early
      <3>1. CASE PollTest \/ PollTimeout \/ PollDrop \/ PollCount
        BY <3>1 DEF PollTest, PollTimeout, PollDrop, PollCount, Step, AfterTest, AfterTimeout,
                    Handling, Early
      <3>2. CASE Distribute \/ Lookup
        BY <3>2 DEF Distribute, Lookup, Step, Handling, Early
      <3> QED
        BY <1>5, <3>1, <3>2
    <2> QED
      BY <2>1, <2>2, ReceivedSame
  <1>6. CASE Put
    <2>0. PICK z \in Queues : z = target
      BY <1>6 DEF Put, Step, TypeInv
    <2>1. /\ at = "put" /\ at' = "count" /\ UNCHANGED <<pipe, cur, hist, delivered>>
          /\ queue' = queue \/ queue' = [queue EXCEPT ![z] = Append(@, cur)]
      BY <1>6, <2>0 DEF Put, Step, appVars
    <2>2. cur \in Frame /\ cur.id = hist.taken
      BY <1>2, <2>1 DEF RouteInv, Handling
    <2>3. CASE queue' = queue
      BY <2>1, <2>3, ReceivedSame DEF Handling, Early
    <2>4. CASE queue' = [queue EXCEPT ![z] = Append(@, cur)]
      <3>1. /\ queue'[z] = Append(queue[z], cur)
            /\ \A q \in Queues \ {z} : queue'[q] = queue[q]
        BY <2>2, <2>4 DEF TypeInv
      <3>2. Received(z)' = Append(Received(z), cur)
        <4>1. delivered[z] \o Append(queue[z], cur)
                = Append(delivered[z] \o queue[z], cur)
          BY <1>3, <2>2, ReceivedMoves
        <4> QED
          BY <2>1, <2>2, <3>1, <4>1 DEF Received
      <3>3. \A q \in Queues \ {z} : Received(q)' = Received(q)
        BY <2>1, <3>1 DEF Received
      <3>4. \A q \in Queues : \A f \in Range(Received(q)) : f.id < cur.id
        BY <1>2, <2>1, <2>2 DEF Early
      <3>5. \A q \in Queues : cur \notin Range(Received(q))
        BY <1>3, <2>2, <3>4, NewerLast
      <3>6. /\ InOrder(Received(z)')
            /\ Range(Received(z)') = Range(Received(z)) \cup {cur}
        BY <1>3, <2>2, <3>2, <3>4, NewerLast
      <3>7. \A q \in Queues : InOrder(Received(q)')
        BY <1>3, <3>3, <3>6
      <3>8. ASSUME NEW q \in Queues, NEW r \in Queues, q < r
            PROVE  Range(Received(q)') \cap Range(Received(r)') = {}
        <4>1. Range(Received(q)) \cap Range(Received(r)) = {}
          BY <1>2, <3>8 DEF OnceInOrder
        <4>2. q # r
          BY <3>8, VNicRxAssumption DEF Queues
        <4>3. CASE q = z
          BY <3>3, <3>5, <3>6, <4>1, <4>2, <4>3
        <4>4. CASE r = z
          BY <3>3, <3>5, <3>6, <4>1, <4>2, <4>4
        <4>5. CASE q # z /\ r # z
          BY <3>3, <4>1, <4>5
        <4> QED
          BY <4>3, <4>4, <4>5
      <3>9. OnceInOrder'
        BY <3>7, <3>8 DEF OnceInOrder, InOrder
      <3>10. ASSUME NEW q \in Queues, NEW f \in Range(Received(q)') PROVE f.id <= hist'.taken
        <4>1. f \in Range(Received(q)) \/ f = cur
          BY <3>3, <3>6, <3>10
        <4> QED
          BY <1>1, <1>2, <2>1, <2>2, <4>1
      <3> QED
        BY <1>2, <2>1, <2>2, <3>9, <3>10 DEF ReceivedInv, Early
    <2> QED
      BY <2>1, <2>3, <2>4
  <1>7. ASSUME NEW f \in Frame, PutRx(f) PROVE ReceivedInv'
    <2>1. /\ f.id = hist.injected + 1 /\ pipe' = Append(pipe, f)
          /\ hist' = [hist EXCEPT !.injected = @ + 1]
          /\ UNCHANGED <<at, cur, queue, delivered>>
      BY <1>7 DEF PutRx, pollVars, appVars
    <2>2. hist'.taken = hist.taken
      BY <1>1, <2>1 DEF HistType
    <2>3. /\ Len(pipe') = Len(pipe) + 1 /\ pipe'[Len(pipe) + 1] = f
          /\ \A i \in 1 .. Len(pipe) : pipe'[i] = pipe[i]
      BY <1>1, <2>1, AppendProperties
    <2>4. f.id = hist.taken + (Len(pipe) + 1)
      <3>1. hist.injected = hist.taken + Len(pipe) /\ hist.injected \in Nat
        BY <1>1 DEF CountInv, HistType
      <3>2. f.id = hist.injected + 1
        BY <2>1
      <3>3. hist.injected + 1 = hist.taken + (Len(pipe) + 1)
        BY <1>1, <3>1
      <3> QED
        BY <3>2, <3>3, Zenon
    <2>5. ASSUME NEW i \in 1 .. Len(pipe') PROVE pipe'[i].id = hist.taken + i
      <3>1. i = Len(pipe) + 1 \/ i \in 1 .. Len(pipe)
        BY <1>1, <2>3
      <3> QED
        BY <1>2, <2>3, <2>4, <3>1
    <2>6. \A q \in Queues : Received(q)' = Received(q)
      BY <2>1 DEF Received
    <2> QED
      BY <2>1, <2>2, <2>5, <2>6, ReceivedKept
  <1>8. ASSUME NEW b \in BOOLEAN, SetUp(b) PROVE ReceivedInv'
    <2>1. hist' = [hist EXCEPT !.whileDown = 0] /\ UNCHANGED <<at, cur, pipe, queue, delivered>>
      BY <1>8 DEF SetUp, pollVars, appVars
    <2>2. hist'.taken = hist.taken
      BY <1>1, <2>1 DEF HistType
    <2> QED
      BY <2>1, <2>2, ReceivedSame
  <1>9. ASSUME NEW t \in Tables, UpdateReta(t) PROVE ReceivedInv'
    <2>1. /\ hist' = [hist EXCEPT !.tables = IF at = "taken" THEN @ \cup {t} ELSE @]
          /\ UNCHANGED <<at, cur, pipe, queue, delivered>>
      BY <1>9 DEF UpdateReta, pollVars, appVars
    <2>2. hist'.taken = hist.taken
      BY <1>1, <2>1 DEF HistType
    <2> QED
      BY <2>1, <2>2, ReceivedSame
  <1>10. ASSUME NEW q \in Queues, Rx(q) PROVE ReceivedInv'
    <2> DEFINE m == Min({MaxSegments, Len(queue[q])})
    <2>1. /\ queue[q] # <<>> /\ UNCHANGED <<at, cur, pipe, hist>>
          /\ delivered' = [delivered EXCEPT ![q] = delivered[q] \o SubSeq(queue[q], 1, m)]
          /\ queue' = [queue EXCEPT ![q] = SubSeq(queue[q], m + 1, Len(queue[q]))]
      BY <1>10 DEF Rx, Kept, pollVars
    <2>2. Len(queue[q]) \in Nat /\ m \in 1 .. Len(queue[q])
      BY <1>3, <2>1, Burst, LenProperties
    <2> HIDE DEF m
    <2>3. m \in 0 .. Len(queue[q])
      BY <2>2
    <2>4. /\ delivered'[q] = delivered[q] \o SubSeq(queue[q], 1, m)
          /\ queue'[q] = SubSeq(queue[q], m + 1, Len(queue[q]))
          /\ \A r \in Queues \ {q} : delivered'[r] = delivered[r] /\ queue'[r] = queue[r]
      BY <2>1 DEF TypeInv
    <2>5. Received(q)' = Received(q)
      <3>1. (delivered[q] \o SubSeq(queue[q], 1, m)) \o SubSeq(queue[q], m + 1, Len(queue[q]))
              = delivered[q] \o queue[q]
        BY <1>3, <2>3, ReceivedMoves
      <3> QED
        BY <2>4, <3>1 DEF Received
    <2>6. \A r \in Queues : Received(r)' = Received(r)
      BY <2>4, <2>5 DEF Received
    <2> QED
      BY <1>2, <2>1, <2>6, ReceivedKept
  <1>11. ASSUME NEW q \in Queues, NEW m \in 1 .. out[q], FreeRx(q, m) PROVE ReceivedInv'
    BY <1>11, ReceivedSame DEF FreeRx, pollVars
  <1>12. CASE Start \/ RequestStop \/ UNCHANGED vars
    <2>1. /\ UNCHANGED <<pipe, queue, delivered, hist, cur>>
          /\ at' = at \/ at' = "test"
      BY <1>12 DEF Start, RequestStop, vars, pollVars, appVars
    <2> QED
      BY <2>1, ReceivedSame DEF Handling, Early
  <1>13. CASE JoinAndDrain
    <2>1. /\ UNCHANGED <<pipe, delivered, hist>> /\ at' = "off"
          /\ queue' = [q \in Queues |-> <<>>]
      BY <1>13 DEF JoinAndDrain, appVars
    <2>2. ASSUME NEW q \in Queues
          PROVE  /\ InOrder(Received(q)) => InOrder(Received(q)')
                 /\ Range(Received(q)') \subseteq Range(Received(q))
      <3>1. Received(q)' = delivered[q] \o <<>>
        BY <2>1 DEF Received
      <3>2. Received(q)' = delivered[q] /\ Received(q) = delivered[q] \o queue[q]
        BY <1>3, <3>1, ReceivedMoves DEF Received
      <3>3. /\ InOrder(delivered[q] \o queue[q]) => InOrder(delivered[q])
            /\ Range(delivered[q]) \subseteq Range(delivered[q] \o queue[q])
        BY <1>3, ReceivedMoves
      <3> QED
        BY <3>2, <3>3, Zenon
    <2>3. \A i \in 1 .. Len(pipe') : pipe'[i].id = hist.taken + i
      BY <1>2, <2>1
    <2>4. at' \notin Handling /\ at' \notin Early /\ hist'.taken = hist.taken
      BY <2>1 DEF Handling, Early
    <2> QED
      BY <2>2, <2>3, <2>4, ReceivedKept
  <1> QED
    BY <1>4, <1>5, <1>6, <1>7, <1>8, <1>9, <1>10, <1>11, <1>12, <1>13 DEF Next, Poll, App

-----------------------------------------------------------------------------
(* The theorems. *)

\* All parts together; each rests on some of the others.
PortInv == TypeInv /\ CountInv /\ DownInv /\ RouteInv /\ ReceivedInv

\* It holds before the first start().
LEMMA PortInit == ASSUME Init PROVE PortInv
  <1>1. pipe = <<>> /\ pipe \in Seq(Frame) /\ Len(pipe) = 0 /\ <<>> \in Seq(Frame)
    BY EmptySeq DEF Init
  <1>2. /\ at = "off" /\ cur = NoFrame /\ up = FALSE
        /\ hist = [injected |-> 0, taken |-> 0, bad |-> 0, lost |-> 0, whileDown |-> 0,
                   tables |-> {}]
        /\ stats = [processed |-> 0, dropped |-> 0, errors |-> 0]
    BY DEF Init
  <1>3. hist \in HistType /\ stats \in StatsType
    BY <1>2 DEF HistType, StatsType
  <1>4. /\ hist.injected = 0 /\ hist.taken = 0 /\ hist.bad = 0 /\ hist.lost = 0
        /\ hist.whileDown = 0 /\ stats.processed = 0 /\ stats.dropped = 0 /\ stats.errors = 0
    BY <1>2
  <1>5. reta \in Tables \cup {<<>>} /\ (config.rss => reta \in Tables)
    <2>1. CASE config.rss
      BY <2>1, Zenon DEF Init
    <2>2. CASE ~config.rss
      BY <2>2, Zenon DEF Init
    <2> QED
      BY <2>1, <2>2
  <1>6. /\ queue \in [Queues -> Seq(Frame)] /\ delivered \in [Queues -> Seq(Frame)]
        /\ out \in [Queues -> Nat]
    BY <1>1 DEF Init
  <1>7. TypeInv
    BY <1>1, <1>2, <1>3, <1>5, <1>6 DEF TypeInv, Waiting
  <1>8. CountInv
    <2>1. at \in Waiting /\ at \notin Handling
      BY <1>2 DEF Waiting, Handling
    <2>2. 0 = 0 + 0 /\ 0 = 0 + 0 + 0
      OBVIOUS
    <2> QED
      BY <1>1, <1>4, <2>1, <2>2 DEF CountInv
  <1>9. DownInv /\ RouteInv
    <2>1. at \notin {"taken", "lookup", "put"} /\ 0 <= 1
      BY <1>2
    <2>2. DownInv
      BY <1>4, <2>1 DEF DownInv
    <2>3. RouteInv
      BY <2>1, Zenon DEF RouteInv, RoutedByOneTable
    <2> QED
      BY <2>2, <2>3
  <1>10. ReceivedInv
    <2>1. \A q \in Queues : Received(q) = <<>> /\ Len(Received(q)) = 0 /\ Range(Received(q)) = {}
      <3>1. \A q \in Queues : Received(q) = <<>> \o <<>>
        BY DEF Init, Received
      <3>2. <<>> \o <<>> = <<>> /\ Len(<<>>) = 0
        BY <1>1, ConcatEmptySeq
      <3>3. Range(<<>>) = {}
        BY DEF Range
      <3> QED
        BY <3>1, <3>2, <3>3, Zenon
    <2>2. OnceInOrder
      BY <2>1 DEF OnceInOrder
    <2> QED
      BY <1>1, <1>2, <2>1, <2>2 DEF ReceivedInv, Handling
  <1> QED
    BY <1>7, <1>8, <1>9, <1>10 DEF PortInv

\* Every step keeps it.
LEMMA PortStep == ASSUME PortInv, [Next]_vars PROVE PortInv'
  <1>1. TypeInv'
    <2>1. CASE Poll
      BY <2>1, PollTypes DEF PortInv
    <2>2. CASE ~Poll
      BY <2>2, OtherTypes DEF PortInv
    <2> QED
      BY <2>1, <2>2
  <1>2. CountInv' /\ DownInv' /\ RouteInv' /\ ReceivedInv'
    BY CountStep, DownStep, RouteStep, ReceivedStep DEF PortInv
  <1> QED
    BY <1>1, <1>2 DEF PortInv

\* So it holds for ever.
LEMMA PortSafe == Spec => []PortInv
  <1>1. Init => PortInv
    BY PortInit
  <1>2. PortInv /\ [Next]_vars => PortInv'
    BY PortStep
  <1> QED
    BY <1>1, <1>2, PTL DEF Spec

\* Every frame taken from the pipe is counted exactly once by the poll loop,
\* for any number of queues, frames and tables.
THEOREM FramesAreCounted == Spec => []EveryFrameCounted
  <1>1. PortInv => EveryFrameCounted
    BY DEF PortInv, CountInv, Waiting, EveryFrameCounted
  <1> QED
    BY <1>1, PortSafe, PTL

\* No frame is received twice, and each queue hands out its frames in the order
\* of the pipe, through updates of the table, link flaps and restarts.
THEOREM FramesStayInOrder == Spec => []OnceInOrder
  <1>1. PortInv => OnceInOrder
    BY DEF PortInv, ReceivedInv
  <1> QED
    BY <1>1, PortSafe, PTL

\* distribute() sends a frame where one table sends it, however updateReta()
\* interleaves with the lookup.
THEOREM RoutingIsConsistent == Spec => []RoutedByOneTable
  <1>1. PortInv => RoutedByOneTable
    BY DEF PortInv, RouteInv
  <1> QED
    BY <1>1, PortSafe, PTL

\* The poll loop takes at most one frame while the link is down.
THEOREM DownStopsThePoll == Spec => []DownPausesPolling
  <1>1. PortInv => DownPausesPolling
    BY DEF PortInv, DownInv, DownPausesPolling
  <1> QED
    BY <1>1, PortSafe, PTL

-----------------------------------------------------------------------------
(* The port and its queues. *)

\* What the port does to a queue is a step of RxChannel, or none.
LEMMA ChannelUse ==
  ASSUME TypeInv, RouteInv, Next, NEW q \in Queues
  PROVE  Channel(q)!Next \/ UNCHANGED <<queue[q], out[q]>>
  <1>1. /\ queue[q] \in Seq(Frame) /\ Len(queue[q]) \in Nat /\ out[q] \in Nat
        /\ queue \in [Queues -> Seq(Frame)] /\ out \in [Queues -> Nat]
    BY LenProperties DEF TypeInv
  <1>2. CASE Put
    <2>1. /\ at = "put" /\ out' = out
          /\ \/ queue' = queue
             \/ HasDescriptor(target) /\ queue' = [queue EXCEPT ![target] = Append(@, cur)]
      BY <1>2 DEF Put, Step, appVars
    <2>2. cur \in Frame
      BY <2>1 DEF RouteInv
    <2>3. CASE target = q /\ HasDescriptor(target)
               /\ queue' = [queue EXCEPT ![target] = Append(@, cur)]
      <3>1. queue'[q] = Append(queue[q], cur) /\ Len(queue[q]) + out[q] < QueueSize
        BY <1>1, <2>3 DEF HasDescriptor
      <3>2. Channel(q)!Accept(cur)
        BY <2>1, <3>1 DEF Channel!Accept
      <3> QED
        BY <2>2, <3>2 DEF Channel!Next
    <2>4. CASE target # q \/ queue' = queue
      BY <1>1, <2>1, <2>4
    <2> QED
      BY <2>1, <2>3, <2>4
  <1>3. ASSUME NEW r \in Queues, Rx(r)
        PROVE  Channel(q)!Next \/ UNCHANGED <<queue[q], out[q]>>
    <2> DEFINE m == Min({MaxSegments, Len(queue[r])})
    <2>1. /\ queue[r] # <<>>
          /\ queue' = [queue EXCEPT ![r] = SubSeq(queue[r], m + 1, Len(queue[r]))]
          /\ out' = [out EXCEPT ![r] = out[r] + m]
      BY <1>3 DEF Rx, Kept
    <2>2. CASE r = q
      <3>1. m \in 1 .. Len(queue[q])
        BY <1>1, <2>1, <2>2, Burst
      <3> HIDE DEF m
      <3>2. Channel(q)!Take(m)
        BY <1>1, <2>1, <2>2 DEF Channel!Take
      <3> QED
        BY <3>1, <3>2 DEF Channel!Next
    <2> HIDE DEF m
    <2>3. CASE r # q
      BY <1>1, <2>1, <2>3
    <2> QED
      BY <2>2, <2>3
  <1>4. ASSUME NEW r \in Queues, NEW m \in 1 .. out[r], FreeRx(r, m)
        PROVE  Channel(q)!Next \/ UNCHANGED <<queue[q], out[q]>>
    <2>1. queue' = queue /\ out' = [out EXCEPT ![r] = out[r] - m]
      BY <1>4 DEF FreeRx
    <2>2. CASE r = q
      <3>1. Channel(q)!GiveBack(m)
        BY <1>1, <2>1, <2>2 DEF Channel!GiveBack
      <3> QED
        BY <2>2, <3>1 DEF Channel!Next
    <2>3. CASE r # q
      BY <1>1, <2>1, <2>3
    <2> QED
      BY <2>2, <2>3
  <1>5. CASE JoinAndDrain
    <2>1. out[q] = 0 /\ out' = out /\ queue'[q] = <<>>
      BY <1>5 DEF JoinAndDrain, appVars
    <2>2. CASE queue[q] = <<>>
      BY <2>1, <2>2
    <2>3. CASE queue[q] # <<>>
      <3> DEFINE n == Len(queue[q])
      <3>1. n \in 1 .. Len(queue[q]) /\ n + 1 \in Int /\ n \in Int /\ n < n + 1
        BY <1>1, <2>3, EmptySeq
      <3>2. SubSeq(queue[q], n + 1, n) = <<>>
        BY <3>1, SubSeqEmpty
      <3>3. Channel(q)!Discard(n)
        BY <2>1, <3>2 DEF Channel!Discard
      <3> HIDE DEF n
      <3> QED
        BY <3>1, <3>3 DEF Channel!Next
    <2> QED
      BY <2>2, <2>3
  <1>6. CASE \/ (\E f \in Frame : PutRx(f)) \/ (\E b \in BOOLEAN : SetUp(b))
             \/ PollTest \/ PollTake \/ PollTakeThrows \/ PollTimeout \/ PollDrop
             \/ Distribute \/ Lookup \/ PollCount
             \/ (\E t \in Tables : UpdateReta(t)) \/ Start \/ RequestStop
    <2>1. queue' = queue /\ out' = out
      BY <1>6 DEF PutRx, SetUp, PollTest, PollTake, PollTakeThrows, PollTimeout, PollDrop,
                  Distribute, Lookup, PollCount, Step, UpdateReta, Start, RequestStop, appVars
    <2> QED
      BY <2>1
  <1> QED
    BY <1>2, <1>3, <1>4, <1>5, <1>6 DEF Next, Poll, App

\* The poll loop, the applications and stop() use every RX queue as RxChannel
\* allows, which is what RxQueue implements.
THEOREM PortUsesChannels == Spec => UsesChannels
  <1>1. Init => \A q \in Queues : Channel(q)!Init
    <2> SUFFICES ASSUME Init, NEW q \in Queues PROVE Channel(q)!Init
      OBVIOUS
    <2>1. queue[q] = <<>> /\ out[q] = 0 /\ QueueSize \in Nat \ {0}
      BY VNicRxAssumption DEF Init
    <2> QED
      BY <2>1 DEF Channel!Init
  <1>2. PortInv /\ [Next]_vars
          => [\A q \in Queues : [Channel(q)!Next]_<<queue[q], out[q]>>]_vars
    <2> SUFFICES ASSUME PortInv, Next, NEW q \in Queues
                 PROVE  [Channel(q)!Next]_<<queue[q], out[q]>>
      OBVIOUS
    <2> QED
      BY ChannelUse DEF PortInv
  <1> QED
    BY <1>1, <1>2, PortSafe, PTL DEF Spec, UsesChannels

-----------------------------------------------------------------------------
(* The example program. *)

Places == {"none", "test", "work", "free", "exited"}

\* main() stops the port only after the threads have ended, and the consumer
\* holds descriptors only between rx() and freeRx(), where its loop does not
\* end.  StopIsQuiet says nothing of the program before that.
ExampleInv ==
  /\ main \in {"configure", "start", "join", "stop", "returned"}
  /\ worker \in [Workers -> Places]
  /\ \A q \in Queues : out[q] # 0 => q = 0 /\ worker["consumer"] = "free"
  /\ main = "configure" => up = FALSE /\ hist.whileDown = 0
  /\ main \in {"configure", "start"} => port = "stopped" /\ \A w \in Workers : worker[w] = "none"
  /\ main = "join" => port = "started"
  /\ main = "stop" => port = "joining" /\ \A w \in Workers : worker[w] = "exited"
  /\ main = "returned" => port = "stopped"

\* A thread moves while main() joins or is gone, and the port is as main()
\* left it.
LEMMA ThreadMoves ==
  ASSUME ExampleInv, NEW w \in Workers, NEW b \in Places, NEW a \in {"test", "work", "free"},
         Move(w, a, b), port' = port,
         \A q \in Queues : out'[q] # 0 => q = 0 /\ worker'["consumer"] = "free"
  PROVE  ExampleInv'
  <1>1. worker[w] = a /\ worker' = [worker EXCEPT ![w] = b] /\ main' = main
    BY DEF Move
  <1>2. main \notin {"configure", "start", "stop"}
    BY <1>1 DEF ExampleInv
  <1>3. worker' \in [Workers -> Places]
    BY <1>1 DEF ExampleInv
  <1> QED
    BY <1>1, <1>2, <1>3 DEF ExampleInv

\* The producer, the TX threads, and the test of any loop leave the consumer's
\* descriptors alone.
LEMMA OtherThread ==
  ASSUME ExampleInv, NEW w \in Workers, NEW b \in Places, NEW a \in {"test", "work"},
         Move(w, a, b), port' = port, out' = out
  PROVE  ExampleInv'
  <1>1. worker[w] = a /\ worker' = [worker EXCEPT ![w] = b] /\ worker \in [Workers -> Places]
        /\ "consumer" \in Workers
    BY DEF Move, ExampleInv, Workers
  <1>2. worker["consumer"] = "free" => worker'["consumer"] = "free"
    BY <1>1
  <1>3. \A q \in Queues : out'[q] # 0 => q = 0 /\ worker'["consumer"] = "free"
    BY <1>2 DEF ExampleInv
  <1> QED
    BY <1>3, ThreadMoves

\* The consumer takes with rx() and returns all of it with freeRx().
LEMMA ConsumerStep ==
  ASSUME TypeInv, ExampleInv, Consume \/ Free
  PROVE  ExampleInv' /\ [Next]_vars
  <1>1. /\ "consumer" \in Workers /\ worker \in [Workers -> Places] /\ out \in [Queues -> Nat] /\ 0 \in Queues
        /\ \A q \in Queues : out[q] # 0 => q = 0
    BY DefaultQueue DEF TypeInv, ExampleInv, Workers
  <1>2. CASE Move("consumer", "work", AfterRx) /\ Rx(0)
    <2>1. PICK m \in Nat : out' = [out EXCEPT ![0] = @ + m]
      <3>1. queue[0] \in Seq(Frame) /\ queue[0] # <<>>
        BY <1>1, <1>2 DEF TypeInv, Rx
      <3>2. Min({MaxSegments, Len(queue[0])}) \in 1 .. Len(queue[0]) /\ Len(queue[0]) \in Nat
        BY <3>1, Burst, LenProperties
      <3>3. out' = [out EXCEPT ![0] = @ + Min({MaxSegments, Len(queue[0])})]
        BY <1>2 DEF Rx
      <3>4. Min({MaxSegments, Len(queue[0])}) \in Nat
        BY <3>2
      <3> QED
        BY <3>4, <3>3, Zenon
    <2>2. worker'["consumer"] = "free" /\ port' = port
      BY <1>1, <1>2 DEF Move, AfterRx, Rx, portVars
    <2>3. \A q \in Queues : out'[q] # 0 => q = 0 /\ worker'["consumer"] = "free"
      BY <1>1, <2>1, <2>2
    <2>4. ExampleInv'
      BY <1>1, <1>2, <2>2, <2>3, ThreadMoves DEF AfterRx, Places
    <2> QED
      BY <1>1, <1>2, <2>4 DEF Next, App
  <1>3. CASE Move("consumer", "work", "test") /\ UNCHANGED vars
    BY <1>1, <1>3, OtherThread DEF Places, vars, portVars, appVars
  <1>4. CASE Free
    <2>1. Move("consumer", "free", "test") /\ FreeRx(0, out[0])
      BY <1>4 DEF Free
    <2>2. PICK m \in Nat : m = out[0] /\ m \in 1 .. out[0]
      BY <1>1, <2>1 DEF FreeRx
    <2>3. out' = [out EXCEPT ![0] = m - m] /\ m - m = 0 /\ port' = port
      <3>1. out' = [out EXCEPT ![0] = out[0] - out[0]] /\ port' = port
        BY <2>1 DEF FreeRx, portVars
      <3> QED
        BY <2>2, <3>1
    <2>4. \A q \in Queues : out'[q] = 0
      BY <1>1, <2>3
    <2>5. ExampleInv'
      BY <1>1, <2>1, <2>3, <2>4, ThreadMoves DEF Places
    <2>6. App(0)
      BY <2>1, <2>2 DEF App
    <2> QED
      BY <1>1, <2>5, <2>6 DEF Next
  <1> QED
    BY <1>2, <1>3, <1>4 DEF Consume

\* A step of a worker of the example.
LEMMA ThreadStep ==
  ASSUME TypeInv, ExampleInv, NEW w \in Workers, WorkerStep(w)
  PROVE  ExampleInv' /\ [Next]_vars
  <1>1. CASE Test(w)
    <2>1. PICK b \in Places : Move(w, "test", b)
      BY <1>1 DEF Test, Places
    <2>2. UNCHANGED vars /\ port' = port /\ out' = out
      BY <1>1 DEF Test, vars, portVars, appVars
    <2> QED
      BY <2>1, <2>2, OtherThread
  <1>2. CASE w = "producer" /\ Produce
    <2>1. Move(w, "work", "test") /\ ((\E f \in Frame : PutRx(f)) \/ UNCHANGED vars)
      BY <1>2 DEF Produce
    <2>2. port' = port /\ out' = out
      BY <2>1 DEF PutRx, vars, portVars, appVars
    <2> QED
      BY <2>1, <2>2, OtherThread DEF Places, Next
  <1>3. CASE w = "consumer" /\ (Consume \/ Free)
    BY <1>3, ConsumerStep
  <1>4. CASE w = "txProducer" /\ Transmit
    <2>1. Move(w, "work", "test") /\ UNCHANGED vars /\ port' = port /\ out' = out
      BY <1>4 DEF Transmit, vars, portVars, appVars
    <2> QED
      BY <2>1, OtherThread DEF Places
  <1>5. CASE w = "txConsumer" /\ TxConsume
    <2>1. Move(w, "work", "test") /\ UNCHANGED vars /\ port' = port /\ out' = out
      BY <1>5 DEF TxConsume, AfterTxTimeout, vars, portVars, appVars
    <2> QED
      BY <2>1, OtherThread DEF Places
  <1> QED
    BY <1>1, <1>2, <1>3, <1>4, <1>5 DEF WorkerStep, Workers

\* A step of its main().
LEMMA MainMoves ==
  ASSUME TypeInv, ExampleInv, MainStep
  PROVE  ExampleInv' /\ [Next]_vars
  <1>1. CASE ConfigureAll
    <2>1. /\ port' = port /\ out' = out /\ worker' = worker /\ hist' = hist /\ main = "configure"
          /\ (main' = "start" /\ up' = TRUE) \/ (main' = "returned" /\ up' = up)
      BY <1>1 DEF ConfigureAll, MainTo, portVars, appVars
    <2>2. ExampleInv'
      BY <2>1 DEF ExampleInv
    <2>3. up = FALSE /\ hist = [hist EXCEPT !.whileDown = 0]
      BY <2>1 DEF TypeInv, ExampleInv, HistType
    <2>4. up' = TRUE => SetUp(TRUE)
      BY <1>1, <2>1, <2>3 DEF ConfigureAll, SetUp
    <2>5. up' = up => UNCHANGED vars
      BY <1>1 DEF ConfigureAll, vars
    <2> QED
      BY <2>1, <2>2, <2>4, <2>5 DEF Next
  <1>2. CASE StartAll
    <2>1. CASE MainTo("start", "join") /\ Start /\ worker' = [w \in Workers |-> "test"]
      <3>1. main' = "join" /\ port' = "started" /\ out' = out
        BY <2>1 DEF MainTo, Start, appVars
      <3>2. \A q \in Queues : out[q] = 0
        BY <2>1 DEF MainTo, ExampleInv, Workers
      <3> QED
        BY <2>1, <3>1, <3>2 DEF ExampleInv, Places, Next
    <2>2. CASE MainTo("start", "returned") /\ UNCHANGED <<vars, worker>>
      BY <2>2 DEF MainTo, ExampleInv, vars, portVars, appVars
    <2> QED
      BY <1>2, <2>1, <2>2 DEF StartAll
  <1>3. CASE Join
    <2>1. /\ main' = "stop" /\ port' = "joining" /\ out' = out /\ worker' = worker
          /\ \A w \in Workers : worker[w] = "exited"
      BY <1>3 DEF Join, MainTo, RequestStop, appVars
    <2> QED
      BY <1>3, <2>1 DEF ExampleInv, Join, Next
  <1>4. CASE Stopped
    <2>1. main' = "returned" /\ port' = "stopped" /\ out' = out /\ worker' = worker
      BY <1>4 DEF Stopped, MainTo, JoinAndDrain, appVars
    <2> QED
      BY <1>4, <2>1 DEF ExampleInv, Stopped, Next
  <1> QED
    BY <1>1, <1>2, <1>3, <1>4 DEF MainStep

\* Every step of the example.
LEMMA ExampleStep ==
  ASSUME TypeInv, ExampleInv, [ExampleNext]_exampleVars
  PROVE  ExampleInv' /\ [Next]_vars
  <1>1. CASE PollStep
    <2>1. Poll /\ main' = main /\ worker' = worker
      BY <1>1 DEF PollStep
    <2>2. port' = port /\ out' = out
      BY <2>1 DEF Poll, PollTest, PollTake, PollTakeThrows, PollTimeout, PollDrop, Distribute, Lookup,
                  Put, PollCount, Step, portVars, appVars
    <2>3. main # "configure"
      <3>1. at # "off"
        BY <2>1 DEF Poll, PollTest, PollTake, PollTakeThrows, PollTimeout, PollDrop, Distribute, Lookup,
                    Put, PollCount, Step
      <3> QED
        BY <3>1 DEF TypeInv, ExampleInv
    <2> QED
      BY <2>1, <2>2, <2>3 DEF ExampleInv, Next
  <1>2. CASE Signal \/ Ended \/ UNCHANGED exampleVars
    <2>1. UNCHANGED <<vars, main, worker>>
      BY <1>2 DEF Signal, Ended, exampleVars
    <2> QED
      BY <2>1 DEF ExampleInv, vars, portVars, appVars
  <1> QED
    BY <1>1, <1>2, MainMoves, ThreadStep DEF ExampleNext

\* The invariants of the port and of the example hold in the example.
LEMMA ExampleSafe == ExampleSpec => [](PortInv /\ ExampleInv)
  <1>1. ExampleInit => PortInv /\ ExampleInv
    <2> SUFFICES ASSUME ExampleInit PROVE PortInv /\ ExampleInv
      OBVIOUS
    <2>1. PortInv
      BY PortInit DEF ExampleInit
    <2>2. ExampleInv
      BY DEF ExampleInit, Init, ExampleInv, Places
    <2> QED
      BY <2>1, <2>2
  <1>2. PortInv /\ ExampleInv /\ [ExampleNext]_exampleVars => PortInv' /\ ExampleInv'
    <2> SUFFICES ASSUME PortInv, ExampleInv, [ExampleNext]_exampleVars PROVE PortInv' /\ ExampleInv'
      OBVIOUS
    <2>1. TypeInv
      BY DEF PortInv
    <2> QED
      BY <2>1, ExampleStep, PortStep
  <1> QED
    BY <1>1, <1>2, PTL DEF ExampleSpec

\* The program uses the port as VNicRx lets an application use it, so all that
\* is proved of the port holds in the program.
THEOREM ExampleUsesThePort == ExampleSpec => Spec
  <1>1. ExampleInit => Init
    BY DEF ExampleInit
  <1>2. PortInv /\ ExampleInv /\ [ExampleNext]_exampleVars => [Next]_vars
    <2> SUFFICES ASSUME PortInv, ExampleInv, [ExampleNext]_exampleVars PROVE [Next]_vars
      OBVIOUS
    <2>1. TypeInv
      BY DEF PortInv
    <2> QED
      BY <2>1, ExampleStep
  <1> QED
    BY <1>1, <1>2, ExampleSafe, PTL DEF ExampleSpec, Spec

\* Among it: in the example every frame of the pipe is delivered or counted as
\* lost, in order and once, by one table, to the end of the shutdown.
THEOREM ExampleAccountsForFrames ==
  ExampleSpec => [](EveryFrameCounted /\ OnceInOrder /\ RoutedByOneTable)
  BY ExampleUsesThePort, FramesAreCounted, FramesStayInOrder, RoutingIsConsistent, PTL

\* When main() of the example calls stop(), its threads have ended and every
\* descriptor is back, whenever the signal came.
THEOREM ExampleStopsQuietly == ExampleSpec => []StopIsQuiet
  <1>1. PortInv /\ ExampleInv => StopIsQuiet
    <2> SUFFICES ASSUME ExampleInv, port = "joining" PROVE StopIsQuiet
      BY DEF StopIsQuiet
    <2>1. \A w \in Workers : worker[w] = "exited"
      BY DEF ExampleInv
    <2>2. worker["consumer"] = "exited"
      BY <2>1 DEF Workers
    <2>3. \A q \in Queues : out[q] = 0
      BY <2>2 DEF ExampleInv
    <2> QED
      BY <2>1, <2>3 DEF StopIsQuiet
  <1> QED
    BY <1>1, ExampleSafe, PTL

=============================================================================
