------------------------------- MODULE VNicRx -------------------------------
(***************************************************************************)
(* The receive path of the port: Link's RX pipe, the poll loop of          *)
(* vnic/vnic.cpp, RSS distribution through the RETA of utils/rcu.h, the RX *)
(* queues and the applications behind them, with stop() and start() around *)
(* the poll thread.                                                        *)
(*                                                                         *)
(* An RX queue is what RxQueue shows it to be when the applications return *)
(* their descriptors before stop(): a FIFO that accepts a packet when one  *)
(* of its descriptors is neither queued nor out.  A pipe is a Fifo.        *)
(*                                                                         *)
(* A frame is its number, its kind and its RSS hash.  The kind says what   *)
(* the pure code makes of its bytes: bad (parse() or validate() fails),    *)
(* plain (no IP header, so no hash), or part of a flow.                    *)
(***************************************************************************)
EXTENDS Naturals, Sequences, FiniteSets, Functions, FiniteSetsExt

CONSTANTS QueueCount,   \* RX queues of a port that has any
          QueueSize,    \* RxQueue::Config::size
          Depth,        \* Link::Config::rxQueueDepth
          MaxSegments,  \* kMaxSegments: the largest burst of rx()
          Hashes,       \* hashes of the flows
          Tables,       \* RETAs given to configure() and updateReta()
          MaxFrames     \* bound: frames injected in a behaviour

Queues == 0 .. QueueCount - 1

\* Config::validate and updateReta: the size is a power of two, entries in range.
\* A table is indexed from 0.
ASSUME VNicRxAssumption ==
    /\ QueueCount \in Nat /\ QueueSize \in Nat \ {0} /\ Depth \in Nat \ {0}
    /\ MaxSegments \in Nat \ {0} /\ Hashes \subseteq Nat
    /\ \A t \in Tables : LET n == Cardinality(DOMAIN t)
                          IN  /\ n \in Nat \ {0} /\ t \in [0 .. n - 1 -> Queues]
                              /\ \E w \in 0 .. n : n = 2^w
    /\ QueueCount > 0 /\ Tables # {}
    /\ MaxFrames \in Nat

\* Only the hash of a flow is computed, and only with RSS.
Frame == [id : 1 .. MaxFrames, kind : {"bad", "plain"}, hash : {0}]
         \cup [id : 1 .. MaxFrames, kind : {"flow"}, hash : Hashes]
NoFrame == [id |-> 0, kind |-> "plain", hash |-> 0]

VARIABLES config,    \* config_: number of RX queues, and whether RSS is enabled
          pipe,      \* link_.rxQueue_
          up,        \* link_.up_
          port,      \* the controller: started, joining in stop(), stopped
          stopReq,   \* the stop token
          at,        \* where the poll thread is; "off" when there is none
          cur,       \* the frame in its buffer
          mask,      \* reta.size() - 1, read under the shared lock
          target,    \* desc.queueId
          accepted,  \* did put() succeed?
          reta,      \* reta_, or the empty function
          queue,     \* used_ of each RX queue
          out,       \* descriptors the applications hold, per queue
          delivered, \* frames handed to the applications, per queue
          stats,     \* the port's processed, dropped and errors counters
          hist       \* counts of what happened, for the properties

pollVars == <<at, cur, mask, target, accepted>>
appVars == <<out, delivered>>
portVars == <<config, port, stopReq>>
vars == <<portVars, pipe, up, pollVars, reta, queue, appVars, stats, hist>>

Init == /\ config \in [count : {0, QueueCount}, rss : BOOLEAN]
        /\ config.rss => config.count > 0
        /\ pipe = <<>> /\ up = FALSE
        /\ port = "stopped" /\ stopReq = FALSE
        /\ at = "off" /\ cur = NoFrame /\ mask = 0 /\ target = 0 /\ accepted = FALSE
        /\ IF config.rss THEN reta \in Tables ELSE reta = <<>>
        /\ queue = [q \in Queues |-> <<>>]
        /\ out = [q \in Queues |-> 0]
        /\ delivered = [q \in Queues |-> <<>>]
        /\ stats = [processed |-> 0, dropped |-> 0, errors |-> 0]
        /\ hist = [injected |-> 0, taken |-> 0, bad |-> 0, lost |-> 0, whileDown |-> 0,
                   tables |-> {}]

-----------------------------------------------------------------------------
(* The link. *)

\* putRx(): one push; what does not fit is refused.
PutRx(f) == /\ f.id = hist.injected + 1
            /\ f.hash # 0 => config.rss
            /\ Len(pipe) < Depth
            /\ pipe' = Append(pipe, f)
            /\ hist' = [hist EXCEPT !.injected = @ + 1]
            /\ UNCHANGED <<portVars, up, pollVars, reta, queue, appVars, stats>>

\* up() and down(); calls that change nothing are left out.
SetUp(b) == /\ up # b
            /\ up' = b
            /\ hist' = [hist EXCEPT !.whileDown = 0]
            /\ UNCHANGED <<portVars, pipe, pollVars, reta, queue, appVars, stats>>

-----------------------------------------------------------------------------
(* poll(). *)

\* One step of the poll thread.
Step(from, to) == /\ at = from /\ at' = to
                  /\ UNCHANGED <<portVars, up, reta, appVars>>

\* Mutant: isUp() is not asked.
AfterTestIgnoringLink == IF stopReq THEN "exited" ELSE "take"

\* Mutant: while the link is down the stop token is not looked at.
AfterTestLinkFirst == IF ~up THEN "test" ELSE IF stopReq THEN "exited" ELSE "take"

\* While the link is down the loop sleeps and comes back.
AfterTest == IF stopReq THEN "exited" ELSE IF up THEN "take" ELSE "test"

\* The head of the loop.
PollTest == Step("test", AfterTest) /\ UNCHANGED <<pipe, cur, mask, target, accepted, queue, stats, hist>>

\* A frame leaves the pipe: is it bad, is it lost, which tables has it seen?
Took(bad, lost, tables) ==
    [hist EXCEPT !.taken = @ + 1, !.whileDown = IF up THEN @ ELSE @ + 1,
                 !.bad = @ + bad, !.lost = @ + lost, !.tables = tables]

\* takeRx() gets a frame; the link is not looked at again.
PollTake == /\ Step("take", "taken")
            /\ pipe # <<>>
            /\ pipe' = Tail(pipe) /\ cur' = Head(pipe)
            /\ hist' = Took(IF Head(pipe).kind = "bad" THEN 1 ELSE 0, 0, {reta})
            /\ UNCHANGED <<mask, target, accepted, queue, stats>>

\* std::bad_alloc while copying it: the frame has left the pipe.
PollTakeThrows == /\ Step("take", "test")
                  /\ pipe # <<>>
                  /\ pipe' = Tail(pipe)
                  /\ stats' = [stats EXCEPT !.errors = @ + 1]
                  /\ hist' = Took(0, 1, hist.tables)
                  /\ UNCHANGED <<cur, mask, target, accepted, queue>>

\* Mutant: a timeout ends the loop.
AfterTimeoutLeaving == "exited"

AfterTimeout == "test"

\* 100 ms without a frame.
PollTimeout == /\ Step("take", AfterTimeout)
               /\ pipe = <<>>
               /\ UNCHANGED <<pipe, cur, mask, target, accepted, queue, stats, hist>>

\* parse() or validate() fails.
PollDrop == /\ Step("taken", "test")
            /\ cur.kind = "bad"
            /\ stats' = [stats EXCEPT !.errors = @ + 1, !.dropped = @ + 1]
            /\ cur' = NoFrame
            /\ UNCHANGED <<pipe, mask, target, accepted, queue, hist>>

\* distribute(): no queue at all, the default queue, or the reader's lock of
\* the RETA is taken and its size read.
Distribute == /\ cur.kind # "bad"
              /\ \/ /\ Step("taken", "count")
                    /\ config.count = 0
                    /\ accepted' = FALSE /\ UNCHANGED <<mask, target>>
                 \/ /\ Step("taken", "put")
                    /\ config.count > 0 /\ ~(config.rss /\ cur.kind = "flow")
                    /\ target' = 0 /\ UNCHANGED <<mask, accepted>>
                 \/ /\ Step("taken", "lookup")
                    /\ config.rss /\ cur.kind = "flow"
                    /\ mask' = Cardinality(DOMAIN reta) - 1 /\ UNCHANGED <<target, accepted>>
              /\ UNCHANGED <<pipe, cur, queue, stats, hist>>

\* Mutant: the hash is not used.
IndexFirst(hash, m) == 0

\* hash & mask, for a mask of the form 2^w - 1.
Index(hash, m) == hash % (m + 1)

\* reta[hash & mask]; the lock is released.
Lookup == /\ Step("lookup", "put")
          /\ target' = reta[Index(cur.hash, mask)]
          /\ UNCHANGED <<pipe, cur, mask, accepted, queue, stats, hist>>

\* Mutant: descriptors with the applications count as free.
HasDescriptorQueuedOnly(q) == Len(queue[q]) < QueueSize

HasDescriptor(q) == Len(queue[q]) + out[q] < QueueSize

\* RxQueue::put().  It refuses when no descriptor is free; also when the frame
\* needs too many segments or malloc fails.
Put == /\ Step("put", "count")
       /\ \/ /\ HasDescriptor(target)
             /\ queue' = [queue EXCEPT ![target] = Append(@, cur)]
             /\ accepted' = TRUE
          \/ accepted' = FALSE /\ UNCHANGED queue
       /\ UNCHANGED <<pipe, cur, mask, target, stats, hist>>

\* Mutant: a refused frame is not counted.
CountedAccepted == IF accepted THEN [stats EXCEPT !.processed = @ + 1] ELSE stats

Counted == IF accepted THEN [stats EXCEPT !.processed = @ + 1]
           ELSE [stats EXCEPT !.dropped = @ + 1]

\* The counters move when the frame may already be with an application.
PollCount == /\ Step("count", "test")
             /\ stats' = Counted
             /\ cur' = NoFrame /\ accepted' = FALSE /\ target' = 0 /\ mask' = 0
             /\ UNCHANGED <<pipe, queue, hist>>

-----------------------------------------------------------------------------
(* Applications: rx() and freeRx(). *)

\* Mutant: the frames stay queued.
KeptAll(q, m) == queue[q]

\* What tryPopSome() leaves in used_.
Kept(q, m) == SubSeq(queue[q], m + 1, Len(queue[q]))

Rx(q) == /\ port # "stopped"
         /\ queue[q] # <<>>
         /\ LET m == Min({MaxSegments, Len(queue[q])})
            IN  /\ delivered' = [delivered EXCEPT ![q] = @ \o SubSeq(queue[q], 1, m)]
                /\ queue' = [queue EXCEPT ![q] = Kept(q, m)]
                /\ out' = [out EXCEPT ![q] = @ + m]
         /\ UNCHANGED <<portVars, pipe, up, pollVars, reta, stats, hist>>

FreeRx(q, m) == /\ m \in 1 .. out[q]
                /\ out' = [out EXCEPT ![q] = @ - m]
                /\ UNCHANGED <<portVars, pipe, up, pollVars, reta, queue, delivered, stats, hist>>

-----------------------------------------------------------------------------
(* The controller. *)

\* Rcu::write excludes readers.
UpdateReta(t) == /\ at # "lookup" /\ reta # t
                 /\ reta' = t
                 /\ hist' = [hist EXCEPT !.tables = IF at = "taken" THEN @ \cup {t} ELSE @]
                 /\ UNCHANGED <<portVars, pipe, up, pollVars, queue, appVars, stats>>

Start == /\ port = "stopped"
         /\ port' = "started" /\ stopReq' = FALSE /\ at' = "test"
         /\ UNCHANGED <<config, pipe, up, cur, mask, target, accepted, reta, queue, appVars,
                        stats, hist>>

\* stop() asks the thread to stop ...
RequestStop == /\ port = "started"
               /\ port' = "joining" /\ stopReq' = TRUE
               /\ UNCHANGED <<config, pipe, up, pollVars, reta, queue, appVars, stats, hist>>

\* ... joins it, and the queues drop what nobody took.
JoinAndDrain == /\ port = "joining" /\ at = "exited"
                /\ \A q \in Queues : out[q] = 0
                /\ port' = "stopped" /\ at' = "off"
                /\ queue' = [q \in Queues |-> <<>>]
                /\ UNCHANGED <<config, stopReq, pipe, up, cur, mask, target, accepted, reta,
                               appVars, stats, hist>>

-----------------------------------------------------------------------------

Poll == \/ PollTest \/ PollTake \/ PollTakeThrows \/ PollTimeout \/ PollDrop
        \/ Distribute \/ Lookup \/ Put \/ PollCount

App(q) == Rx(q) \/ \E m \in 1 .. out[q] : FreeRx(q, m)

Next == \/ \E f \in Frame : PutRx(f)
        \/ \E b \in BOOLEAN : SetUp(b)
        \/ Poll
        \/ \E q \in Queues : App(q)
        \/ config.rss /\ \E t \in Tables : UpdateReta(t)
        \/ Start \/ RequestStop \/ JoinAndDrain

Spec == Init /\ [][Next]_vars

\* The poll thread keeps running, waits are bounded, the applications return
\* what they hold, and stop() goes on once it can.
Fairness == /\ WF_vars(Poll) /\ WF_vars(JoinAndDrain)
            /\ WF_vars(\E q \in Queues : FreeRx(q, out[q]))

FairSpec == Spec /\ Fairness

-----------------------------------------------------------------------------
(* Properties. *)

\* Between frames, every frame taken from the pipe has been counted once:
\* processed, dropped, or lost to an allocation failure, which only shows up
\* among the errors.  Frames stay in the pipe until they are taken.
EveryFrameCounted ==
    /\ hist.injected = hist.taken + Len(pipe)
    /\ at \in {"off", "test", "take", "exited"} =>
          /\ hist.taken = stats.processed + stats.dropped + hist.lost
          /\ stats.errors = hist.bad + hist.lost

Received(q) == delivered[q] \o queue[q]

\* Each queue hands out frames in the order they came in, and no frame is
\* received twice, by one queue or by two, through updates of the RETA, link
\* flaps and restarts of the port.
OnceInOrder == /\ \A q \in Queues : LET r == Received(q)
                                   IN  \A i \in 2 .. Len(r) : r[i - 1].id < r[i].id
               /\ \A q, r \in Queues : q < r => Range(Received(q)) \cap Range(Received(r)) = {}

Channel(q) == INSTANCE RxChannel WITH Items <- Frame, size <- QueueSize, queue <- queue[q],
                                      out <- out[q]

\* The port uses each RX queue only as RxChannel allows.
UsesChannels == /\ \A q \in Queues : Channel(q)!Init
                /\ [][\A q \in Queues : [Channel(q)!Next]_<<queue[q], out[q]>>]_vars

\* Where a table sends a frame.
Route(t, f) == IF config.rss /\ f.kind = "flow"
               THEN t[f.hash % Cardinality(DOMAIN t)] ELSE 0

\* A frame goes where one single table sends it, a table that was in force
\* while the frame was being handled, and frames without a hash go to queue 0.
RoutedByOneTable == at = "put" => \E t \in hist.tables : target = Route(t, cur)

\* A link that is down gives up at most the one frame the poll loop was
\* already waiting for.  link.h says none, but the loop does not test isUp()
\* again after the wait.
DownPausesPolling == hist.whileDown <= 1

\* stop() returns, however busy the pipe is.
StopReturns == port = "joining" ~> port = "stopped"

\* With the link up and the port started, the frames in the pipe are taken, all
\* of them once no more come (at most MaxFrames do).
PipeIsServed == pipe # <<>> ~> (pipe = <<>> \/ ~up \/ port # "started")

=============================================================================
