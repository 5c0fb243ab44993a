------------------------------ MODULE RxQueue -------------------------------
(***************************************************************************)
(* queue/rx_queue.cpp: one RX queue, with its memory pool, its two         *)
(* descriptor lists and the threads that work on it:                       *)
(*   - the port's poll thread, the only caller of put();                   *)
(*   - application threads, which take() descriptors and free() them;      *)
(*   - one control thread, which configures, starts and stops the queue.   *)
(* Each operation on a Fifo is one step (module Fifo shows that it is      *)
(* atomic), each operation on a queue is the sequence of its steps.        *)
(*                                                                         *)
(* A descriptor is the number of the packet it carries.  chain[p] is the   *)
(* list of pool blocks hanging off desc.buffer of packet p, abstracted to  *)
(* the set of its blocks.  The descriptors on free_ carry nothing, so free *)
(* counts them.  A configure() of the port destroys the queue and puts a   *)
(* fresh one in its place; applications may still hold descriptors of the  *)
(* old one then, and return them to the new one.                           *)
(***************************************************************************)
EXTENDS Integers, Sequences, FiniteSets, Functions

CONSTANTS Block,             \* addresses malloc can return
          Apps,              \* application threads
          Sizes,             \* descriptor counts given to configure()
          DefaultSize,       \* Config::size of a fresh queue
          BufferSize,        \* kPacketBufferSize
          MaxSegments,       \* kMaxSegments
          Lengths,           \* packet lengths offered to put()
          MaxPackets,        \* bound: packets offered in a behaviour
          WordSize,          \* 2^64, the modulus of live_
          TakeWhileStopping, \* do applications call rx() during stop()?
          FreeAfterStop      \* do they return descriptors after stop()?

ASSUME RxQueueAssumption == /\ IsFiniteSet(Block)
                            /\ IsFiniteSet(Apps)
                            /\ Sizes \subseteq Nat
                            /\ DefaultSize \in Nat \ {0}
                            /\ BufferSize \in Nat \ {0}
                            /\ MaxSegments \in Nat \ {0}
                            /\ Lengths \subseteq Nat
                            /\ MaxPackets \in Nat
                            /\ WordSize \in Nat \ {0}
                            /\ TakeWhileStopping \in BOOLEAN
                            /\ FreeAfterStop \in BOOLEAN

Packets == 1 .. MaxPackets

VARIABLES state,      \* Stateful::state_; "Destroyed" inside the destructor
          ctl,        \* where the control thread is inside start(), stop() or ~RxQueue
          filled,     \* i of the loop in startImpl
          size,       \* config_.size
          cap,        \* capacity of both lists, 0 (no limit) until configured
          free,       \* length of free_
          used,       \* used_, front first
          chain,      \* blocks hanging off each packet's descriptor
          allocated,  \* blocks malloc has handed out and free() not taken back
          live,       \* memPool_.live_ before it is reduced to its width
          debt,       \* history: blocks the queues before this one left out there
          offered,    \* packets offered to put() so far
          put,        \* the poll thread inside put(): position and segments needed
          processed,  \* stats_: processedPackets
          overflows,  \* stats_: overflows
          held,       \* descriptors each application has taken
          returning,  \* descriptors whose chains a free() call still has to release
          ret         \* all the descriptors of that call, to be pushed on free_

poolVars == <<chain, allocated, live, debt>>
ctlVars == <<state, ctl, filled, size, cap>>
putVars == <<offered, put, processed, overflows>>
appVars == <<held, returning, ret>>
vars == <<ctlVars, free, used, poolVars, putVars, appVars>>

Smaller(a, b) == IF a < b THEN a ELSE b

Idle == [at |-> "idle", need |-> 0]

Init == /\ state = "Stopped" /\ ctl = "idle" /\ filled = 0 /\ size = DefaultSize /\ cap = 0
        /\ free = 0 /\ used = <<>>
        /\ chain = [p \in Packets |-> {}] /\ allocated = {} /\ live = 0 /\ debt = 0
        /\ offered = 0 /\ put = Idle /\ processed = 0 /\ overflows = 0
        /\ held = [a \in Apps |-> {}]
        /\ returning = [a \in Apps |-> {}]
        /\ ret = [a \in Apps |-> {}]

-----------------------------------------------------------------------------
(* The memory pool and the two lists. *)

\* Pool::allocate for the packet being received.
Allocate(p, b) == /\ b \notin allocated
                  /\ allocated' = allocated \cup {b}
                  /\ chain' = [chain EXCEPT ![p] = @ \cup {b}]
                  /\ live' = live + 1
                  /\ UNCHANGED debt

\* releaseChain, and the guard of put(): every block of the chain goes back to
\* the allocator, and is taken off the count of the pool it is returned to.
Release(p) == /\ allocated' = allocated \ chain[p]
              /\ live' = live - Cardinality(chain[p])
              /\ chain' = [chain EXCEPT ![p] = {}]
              /\ UNCHANGED debt

\* Pool::liveBlocks.
LiveBlocks == live % WordSize

\* Fifo::isFullLocked for a list of n descriptors.
Full(n) == cap # 0 /\ n >= cap

\* free_.pushAll of n descriptors: what does not fit is lost.
Push(n) == free' = IF Full(free) THEN free
                   ELSE IF cap = 0 THEN free + n ELSE Smaller(cap, free + n)

-----------------------------------------------------------------------------
(* put(), run by the poll thread between start() and the join in stop(). *)

Segments(bytes) == (bytes + BufferSize - 1) \div BufferSize

\* The poll thread exists: VNic::startImpl creates it after every queue has
\* started, VNic::stopImpl joins it before any queue stops.
Polling == state = "Started" /\ ctl = "idle"

\* Length checks.  An empty packet is refused without a trace.
PutBegin(bytes) == /\ Polling
                   /\ put.at = "idle"
                   /\ offered < MaxPackets
                   /\ bytes # 0
                   /\ offered' = offered + 1
                   /\ \/ /\ Segments(bytes) > MaxSegments
                         /\ overflows' = overflows + 1
                         /\ UNCHANGED put
                      \/ /\ Segments(bytes) <= MaxSegments
                         /\ put' = [at |-> "alloc", need |-> Segments(bytes)]
                         /\ UNCHANGED overflows
                   /\ UNCHANGED <<ctlVars, free, used, poolVars, processed, appVars>>

\* Mutant: the loop ends one segment early.
LastSegmentEarly == Cardinality(chain[offered]) + 2 >= put.need

LastSegment == Cardinality(chain[offered]) + 1 = put.need

\* One turn of the allocation loop; the last one also links the chain.
PutAlloc == /\ put.at = "alloc"
            /\ \E b \in Block : Allocate(offered, b)
            /\ put' = IF LastSegment THEN [put EXCEPT !.at = "slot"] ELSE put
            /\ UNCHANGED <<ctlVars, free, used, offered, processed, overflows, appVars>>

\* Mutant: no guard.
GiveUpKeeping == UNCHANGED poolVars /\ put' = Idle

\* An early return: buffersGuard gives back the blocks allocated so far.
GiveUp == Release(offered) /\ put' = Idle

\* malloc fails.
PutAllocFails == /\ put.at = "alloc"
                 /\ GiveUp
                 /\ UNCHANGED <<ctlVars, free, used, offered, processed, overflows, appVars>>

\* Mutant: the last descriptor is never used.
HasSlotReserving == free > 1

HasSlot == free > 0

\* free_.pop(0).
PutSlot == /\ put.at = "slot"
           /\ \/ /\ HasSlot
                 /\ free' = free - 1
                 /\ put' = [put EXCEPT !.at = "push"]
                 /\ UNCHANGED <<poolVars, overflows>>
              \/ /\ ~HasSlot
                 /\ overflows' = overflows + 1
                 /\ GiveUp
                 /\ UNCHANGED free
           /\ UNCHANGED <<ctlVars, used, offered, processed, appVars>>

\* Mutant: pushes in front.
EnqueueFront(p) == <<p>> \o used

Enqueue(p) == Append(used, p)

\* used_.push.
PutPush == /\ put.at = "push"
           /\ \/ /\ ~Full(Len(used))
                 /\ used' = Enqueue(offered)
                 /\ put' = [put EXCEPT !.at = "count"]
              \/ /\ Full(Len(used))
                 /\ put' = [put EXCEPT !.at = "undo"]
                 /\ UNCHANGED used
           /\ UNCHANGED <<ctlVars, free, poolVars, offered, processed, overflows, appVars>>

\* The used list was full: slotGuard pushes the slot back without looking at
\* the result, then buffersGuard releases the chain.
PutUndo == /\ put.at = "undo"
           /\ Push(1)
           /\ GiveUp
           /\ UNCHANGED <<ctlVars, used, offered, processed, overflows, appVars>>

\* The counters move after the packet is already visible to take().
PutCount == /\ put.at = "count"
            /\ processed' = processed + 1
            /\ put' = Idle
            /\ UNCHANGED <<ctlVars, free, used, poolVars, offered, overflows, appVars>>

-----------------------------------------------------------------------------
(* take() and free(), run by application threads. *)

\* The application threads that examples/base-nic joins before stop() make no
\* call while stop() runs; others may.  No thread calls into a queue that is
\* being destroyed.
MayTake == /\ state # "Destroyed"
           /\ state = "Stopping" => TakeWhileStopping

\* Mutant: the descriptors are copied, not popped.
LeftAll(n) == used

Left(n) == SubSeq(used, n + 1, Len(used))

Take(a) == /\ MayTake
           /\ used # <<>>
           /\ LET n == Smaller(MaxSegments, Len(used))
              IN  /\ held' = [held EXCEPT ![a] = @ \cup {used[i] : i \in 1 .. n}]
                  /\ used' = Left(n)
           /\ UNCHANGED <<ctlVars, free, poolVars, putVars, returning, ret>>

\* free(descs) is called with some of the descriptors the thread holds.
FreeBegin(a, D) == /\ state # "Destroyed"
                   /\ ret[a] = {}
                   /\ D # {} /\ D \subseteq held[a]
                   /\ held' = [held EXCEPT ![a] = @ \ D]
                   /\ returning' = [returning EXCEPT ![a] = D]
                   /\ ret' = [ret EXCEPT ![a] = D]
                   /\ UNCHANGED <<ctlVars, free, used, poolVars, putVars>>

\* releaseChain(desc.buffer) for one of them.
FreeRelease(a, p) == /\ p \in returning[a]
                     /\ Release(p)
                     /\ returning' = [returning EXCEPT ![a] = @ \ {p}]
                     /\ UNCHANGED <<ctlVars, free, used, putVars, held, ret>>

\* Mutant: one descriptor per call goes back.
ReturnedOne(a) == 1

Returned(a) == Cardinality(ret[a])

\* free_.pushAll(descs).
FreePush(a) == /\ ret[a] # {} /\ returning[a] = {}
               /\ Push(Returned(a))
               /\ ret' = [ret EXCEPT ![a] = {}]
               /\ UNCHANGED <<ctlVars, used, poolVars, putVars, held, returning>>

-----------------------------------------------------------------------------
(* configure(), start(), stop() and the destructor, run by the control thread. *)

Configurable == ctl = "idle" /\ state \in {"Stopped", "Configured", "Error"}

\* Mutant: a size of zero is not refused.
isValidAny(s) == s >= 0

isValid(s) == s > 0

\* Stateful::configure and configureImpl.
Configure(s) == /\ Configurable
                /\ \/ isValid(s) /\ state' = "Configured" /\ size' = s /\ cap' = s
                   \/ ~isValid(s) /\ state' = "Error" /\ UNCHANGED <<size, cap>>
                /\ UNCHANGED <<ctl, filled, free, used, poolVars, putVars, appVars>>

\* start(): a stopped queue is first configured with config_ again.
Start == /\ ctl = "idle"
         /\ state \in {"Stopped", "Configured"}
         /\ state' = "Started" /\ ctl' = "fill" /\ filled' = 0
         /\ cap' = IF state = "Stopped" THEN size ELSE cap
         /\ UNCHANGED <<size, free, used, poolVars, putVars, appVars>>

\* The end of the loop: size descriptors are in.
FillDone == filled >= size

\* The loop of startImpl: one free_.push per turn; a full list ends it and the
\* guard empties both lists.
StartFill == /\ ctl = "fill"
             /\ \/ /\ FillDone
                   /\ ctl' = "idle"
                   /\ UNCHANGED <<filled, free>>
                \/ /\ ~FillDone /\ ~Full(free)
                   /\ free' = free + 1 /\ filled' = filled + 1
                   /\ UNCHANGED ctl
                \/ /\ ~FillDone /\ Full(free)
                   /\ ctl' = "drainFree"
                   /\ UNCHANGED <<filled, free>>
             /\ UNCHANGED <<state, size, cap, used, poolVars, putVars, appVars>>

\* Everything the application took is back, or it does not care.
MayStop == FreeAfterStop \/ \A a \in Apps : held[a] = {} /\ ret[a] = {}

\* stop() of the queue runs once the poll thread is joined.
Stop == /\ Polling
        /\ put.at = "idle"
        /\ MayStop
        /\ state' = "Stopping" /\ ctl' = "drainFree"
        /\ UNCHANGED <<filled, size, cap, free, used, poolVars, putVars, appVars>>

\* VNic::configureQueues clears rxQueues_: ~RxQueue runs stopImpl.  No thread
\* is inside a call on the queue.
Destroy == /\ Configurable
           /\ \A a \in Apps : ret[a] = {}
           /\ state' = "Destroyed" /\ ctl' = "drainFree"
           /\ UNCHANGED <<filled, size, cap, free, used, poolVars, putVars, appVars>>

\* while (!free_.isEmpty()) free_.pop(), of stopImpl and of startImpl's guard.
\* Nobody else pops free_ now, so the test and the pop are one step.
DrainFree == /\ ctl = "drainFree"
             /\ \/ /\ free > 0
                   /\ free' = free - 1
                   /\ UNCHANGED ctl
                \/ /\ free = 0
                   /\ ctl' = "drainUsed"
                   /\ UNCHANGED free
             /\ UNCHANGED <<state, filled, size, cap, used, poolVars, putVars, appVars>>

\* while (!used_.isEmpty()): when it ends, stop() has succeeded or start() failed.
DrainTest == /\ ctl = "drainUsed"
             /\ \/ /\ used # <<>>
                   /\ ctl' = "drainPop"
                   /\ UNCHANGED state
                \/ /\ used = <<>> /\ state # "Destroyed"
                   /\ state' = IF state = "Stopping" THEN "Stopped" ELSE "Error"
                   /\ ctl' = "idle"
             /\ UNCHANGED <<filled, size, cap, free, used, poolVars, putVars, appVars>>

\* Mutant: looks at the front without popping it.
PoppedNothing == used

Popped == Tail(used)

\* releaseChain(used_.pop().buffer): the pop blocks while the list is empty.
DrainPop == /\ ctl = "drainPop"
            /\ used # <<>>
            /\ Release(Head(used))
            /\ used' = Popped
            /\ ctl' = "drainUsed"
            /\ UNCHANGED <<state, filled, size, cap, free, putVars, appVars>>

\* The destructor is done and resize() constructs a fresh queue, with a fresh
\* pool: blocks that are still out were counted by the old one.
Renew == /\ ctl = "drainUsed" /\ state = "Destroyed" /\ used = <<>>
         /\ state' = "Stopped" /\ ctl' = "idle" /\ filled' = 0
         /\ size' = DefaultSize /\ cap' = 0
         /\ live' = 0 /\ debt' = Cardinality(allocated)
         /\ processed' = 0 /\ overflows' = 0
         /\ UNCHANGED <<free, used, chain, allocated, offered, put, appVars>>

-----------------------------------------------------------------------------

Poller == \/ \E bytes \in Lengths : PutBegin(bytes)
          \/ PutAlloc \/ PutAllocFails \/ PutSlot \/ PutPush \/ PutUndo \/ PutCount

App(a) == \/ Take(a)
          \/ \E D \in SUBSET held[a] : FreeBegin(a, D)
          \/ \E p \in returning[a] : FreeRelease(a, p)
          \/ FreePush(a)

Control == \/ \E s \in Sizes : Configure(s)
           \/ Start \/ StartFill \/ Stop \/ Destroy
           \/ DrainFree \/ DrainTest \/ DrainPop \/ Renew

Next == Poller \/ (\E a \in Apps : App(a)) \/ Control

Spec == Init /\ [][Next]_vars

\* Threads inside a call keep running; nobody has to make a call.
Fairness == /\ WF_vars(PutAlloc \/ PutAllocFails \/ PutSlot \/ PutPush \/ PutUndo \/ PutCount)
            /\ WF_vars(StartFill \/ DrainFree \/ DrainTest \/ DrainPop \/ Renew)
            /\ \A a \in Apps : WF_vars((\E p \in returning[a] : FreeRelease(a, p)) \/ FreePush(a))

FairSpec == Spec /\ Fairness

-----------------------------------------------------------------------------
(* Properties. *)

\* Types; config_.size is never zero, and the pool may be in debt.
TypeOK == /\ state \in {"Stopped", "Configured", "Started", "Stopping", "Error", "Destroyed"}
          /\ ctl \in {"idle", "fill", "drainFree", "drainUsed", "drainPop"}
          /\ filled \in Nat /\ size \in Nat \ {0} /\ cap \in Nat /\ free \in Nat
          /\ used \in Seq(Packets)
          /\ chain \in [Packets -> SUBSET Block]
          /\ allocated \subseteq Block
          /\ live \in Int /\ debt \in Nat
          /\ offered \in 0 .. MaxPackets
          /\ put \in [at : {"idle", "alloc", "slot", "push", "undo", "count"}, need : Nat]
          /\ processed \in Nat /\ overflows \in Nat
          /\ held \in [Apps -> SUBSET Packets]
          /\ returning \in [Apps -> SUBSET Packets]
          /\ ret \in [Apps -> SUBSET Packets]

\* The packet put() still owns.
InPut == IF put.at \in {"alloc", "slot", "push", "undo"} THEN {offered} ELSE {}

\* The packets whose buffers somebody is responsible for.
Owned == Range(used) \cup InPut \cup UNION {held[a] \cup returning[a] : a \in Apps}

\* No leak and no early release: the blocks out of the pool are exactly those
\* hanging off descriptors somebody will release, on every path through put,
\* free, stop, the destructor and the scope guards.  liveBlocks() is their
\* number, modulo 2^64 and less the blocks that were out when the queue was put
\* in the place of an older one.
NoBlockLeaked == /\ allocated = UNION {chain[p] : p \in Owned}
                 /\ LiveBlocks = (Cardinality(allocated) - debt) % WordSize

\* A block hangs off one descriptor only.
ChainsDisjoint == \A p, q \in Packets : p # q => chain[p] \cap chain[q] = {}

\* A descriptor with buffers is in one place: used_, one application, or put().
OnePlace == /\ IsInjective(used)
            /\ Range(used) \cap InPut = {}
            /\ \A a \in Apps : /\ held[a] \cap returning[a] = {}
                               /\ (held[a] \cup returning[a]) \cap (Range(used) \cup InPut) = {}
            /\ \A a, b \in Apps : a # b =>
                  (held[a] \cup returning[a]) \cap (held[b] \cup returning[b]) = {}

\* No double release: whoever releases a chain is the only one who can, however
\* put, take, free, stop and the scope guards interleave.
SoleOwner == ChainsDisjoint /\ OnePlace

\* put() looks for a slot only with as many segments as the length asks for,
\* and a packet that is queued or delivered keeps its chain, of at most
\* kMaxSegments segments, until it is freed.
ChainsComplete == /\ put.at \in {"slot", "push", "undo"} =>
                        Cardinality(chain[offered]) = put.need
                  /\ \A p \in Range(used) \cup UNION {held[a] : a \in Apps} :
                        Cardinality(chain[p]) \in 1 .. MaxSegments

\* Packets leave used_ in the order put() accepted them: what the applications
\* already have is older than what is queued, which is itself in order.
DeliveredInOrder == /\ \A i, j \in DOMAIN used : i < j => used[i] < used[j]
                    /\ \A a \in Apps, p \in Range(used) : \A q \in held[a] \cup ret[a] : q < p

\* Descriptors the applications have and have not pushed back.
Out == UNION {held[a] \cup ret[a] : a \in Apps}

SlotInPut == IF put.at \in {"push", "undo"} THEN 1 ELSE 0

\* When the applications return everything before stop(), no descriptor is
\* ever lost or invented: the queue's size is always accounted for, so neither
\* QueueUsedListFull nor QueueFreeListFull can happen, and start(), with or
\* without a configure() before it, finds the free list empty and succeeds.
SlotsConserved ==
    /\ Polling => free + Len(used) + SlotInPut + Cardinality(Out) = size
    /\ state = "Started" => ctl \in {"idle", "fill"}

\* put() drops a packet for want of a descriptor only when all of them are
\* queued or in the applications' hands.
OverflowMeansExhausted ==
    [][put.at = "slot" /\ overflows' # overflows => Len(used) + Cardinality(Out) >= size]_vars

Channel == INSTANCE RxChannel WITH Items <- Packets, queue <- used, out <- Cardinality(Out)

\* The two lists, the pool and the scope guards together are a FIFO with a
\* fixed number of descriptors, and every step of put, take, free, configure,
\* start and stop is one of its steps or invisible.
ImplementsChannel == Channel!Spec

\* stop() returns: Started --stop--> Stopped.
StopReturns == state = "Stopping" ~> state = "Stopped"

-----------------------------------------------------------------------------
(* The inductive invariant behind NoBlockLeaked and SoleOwner. *)

\* Blocks are out of the pool only in the chains of owned packets.
PoolInv == /\ ChainsDisjoint
           /\ \A p \in Packets \ Owned : chain[p] = {}
           /\ allocated = UNION {chain[p] : p \in Packets}
           /\ live = Cardinality(allocated) - debt

\* Places are exclusive and only packets already offered are anywhere.
PlaceInv == /\ OnePlace
            /\ \A p \in Owned : p <= offered
            /\ \A a \in Apps : returning[a] \subseteq ret[a]
            /\ put.at # "idle" => offered > 0

IInv == TypeOK /\ PoolInv /\ PlaceInv

=============================================================================
