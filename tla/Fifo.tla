-------------------------------- MODULE Fifo --------------------------------
(***************************************************************************)
(* utils/fifo.h: the mutex and condition variable queue under the link's   *)
(* pipes and the RX queues' descriptor lists.                              *)
(*                                                                         *)
(* Every section that runs with mutex_ held is one step, because no other  *)
(* thread can observe its middle.  What is not atomic is kept apart:       *)
(*   - a producer unlocks before it notifies (push, pushAll, pushSome);    *)
(*   - a consumer that finds the queue empty releases the mutex and joins  *)
(*     the condition variable's wait set; once notified, timed out or      *)
(*     spuriously woken it still has to win the mutex and test again.      *)
(* Elements are numbered in the order they are pushed.  A push on a full   *)
(* queue and a tryPopSome on an empty one change nothing: they are         *)
(* stuttering steps.                                                       *)
(***************************************************************************)
EXTENDS Naturals, Sequences, FiniteSets

CONSTANTS Threads,     \* threads that share the queue
          SpanSize,    \* N of the popSome / tryPopSome overloads on spans
          Limits,      \* kinds of pop in use: "one" pop, "span" / "all" popSome
          Capacities,  \* capacities given to configure() / reserve(); 0 = unbounded
          MaxPush      \* bound: elements pushed in a behaviour

ASSUME FifoAssumption == /\ IsFiniteSet(Threads)
                         /\ SpanSize \in Nat \ {0}
                         /\ Limits \subseteq {"one", "span", "all"} /\ "one" \in Limits
                         /\ Capacities \subseteq Nat
                         /\ MaxPush \in Nat

VARIABLES queue,     \* queue_, front first
          capacity,  \* config_.capacity
          pc,        \* where each thread is
          call,      \* the pop overload a blocked thread is in
          pushed,    \* history: elements ever pushed
          popped     \* history: elements ever popped

vars == <<queue, capacity, pc, call, pushed, popped>>

\* pop(), pop(timeout) and the four popSome overloads.
Calls == [timed : BOOLEAN, limit : Limits]

Waiters == {t \in Threads : pc[t] = "waiting"}
Woken == {t \in Threads : pc[t] = "woken"}
Notifiers == {t \in Threads : pc[t] = "notifyOne"}
Broadcasters == {t \in Threads : pc[t] = "notifyAll"}

Init == /\ queue = <<>>
        /\ capacity = 0
        /\ pc = [t \in Threads |-> "idle"]
        /\ call = [t \in Threads |-> [timed |-> FALSE, limit |-> "one"]]
        /\ pushed = 0
        /\ popped = 0

-----------------------------------------------------------------------------
(* Producers. *)

isFullLocked == capacity # 0 /\ Len(queue) >= capacity

\* push / emplace: the locked section; notify_one follows outside the lock.
Push(t) == /\ pc[t] = "idle"
           /\ pushed < MaxPush
           /\ ~isFullLocked
           /\ queue' = Append(queue, pushed + 1)
           /\ pushed' = pushed + 1
           /\ pc' = [pc EXCEPT ![t] = "notifyOne"]
           /\ UNCHANGED <<capacity, call, popped>>

\* How many of n elements pushAll / pushSome store before the queue is full.
Room(n) == IF capacity = 0 \/ Len(queue) + n <= capacity THEN n
           ELSE IF Len(queue) >= capacity THEN 0
           ELSE capacity - Len(queue)

\* Mutant: notify_one for the whole batch.
AfterBatchOne == "notifyOne"

AfterBatch == "notifyAll"

\* pushAll / pushSome: what does not fit is left out, all waiters are notified.
PushAll(t) == /\ pc[t] = "idle"
              /\ \E n \in 0 .. (MaxPush - pushed) :
                    /\ queue' = queue \o [i \in 1 .. Room(n) |-> pushed + i]
                    /\ pushed' = pushed + Room(n)
              /\ pc' = [pc EXCEPT ![t] = AfterBatch]
              /\ UNCHANGED <<capacity, call, popped>>

\* condVar_.notify_one() after unlocking.
NotifyOne(t) == /\ pc[t] = "notifyOne"
                /\ \/ /\ Waiters = {}
                      /\ pc' = [pc EXCEPT ![t] = "idle"]
                   \/ \E w \in Waiters : 
                         pc' = [pc EXCEPT ![t] = "idle", ![w] = "woken"]
                /\ UNCHANGED <<queue, capacity, call, pushed, popped>>

\* condVar_.notify_all() after unlocking.
NotifyAll(t) == /\ pc[t] = "notifyAll"
                /\ pc' = [u \in Threads |-> IF u = t THEN "idle"
                                            ELSE IF pc[u] = "waiting" THEN "woken"
                                            ELSE pc[u]]
                /\ UNCHANGED <<queue, capacity, call, pushed, popped>>

-----------------------------------------------------------------------------
(* Consumers. *)

\* Number of elements a call removes from a queue that is not empty.
Taken(limit) == IF limit = "one" THEN 1
                ELSE IF limit = "span" /\ SpanSize < Len(queue) THEN SpanSize
                ELSE Len(queue)

\* Mutant: elements leave at the back.
RemainingOldest(n) == SubSeq(queue, 1, Len(queue) - n)

Remaining(n) == SubSeq(queue, n + 1, Len(queue))

Dequeue(t, limit) == /\ queue' = Remaining(Taken(limit))
                     /\ popped' = popped + Taken(limit)
                     /\ pc' = [pc EXCEPT ![t] = "idle"]
                     /\ UNCHANGED <<capacity, pushed>>

\* The wait predicate does not hold: the thread goes elsewhere.
Leave(t, where) == /\ queue = <<>>
                   /\ pc' = [pc EXCEPT ![t] = where]
                   /\ UNCHANGED <<queue, capacity, pushed, popped>>

\* pop / popSome: with the predicate true at once nothing waits.
Pop(t, c) == /\ pc[t] = "idle"
             /\ \/ queue # <<>> /\ Dequeue(t, c.limit) /\ UNCHANGED call
                \/ Leave(t, "waiting") /\ call' = [call EXCEPT ![t] = c]

\* Mutant: a woken thread spins until there is a whole span to take.
AvailableSpan == Len(queue) >= SpanSize

Available == queue # <<>>

\* A woken thread owns the mutex again: it takes, or waits once more.
Wake(t) == /\ pc[t] = "woken"
           /\ \/ Available /\ Dequeue(t, call[t].limit)
              \/ Leave(t, "waiting")
           /\ UNCHANGED call

\* condition variables may return without a notification.
SpuriousWakeup(t) == /\ pc[t] = "waiting"
                     /\ pc' = [pc EXCEPT ![t] = "woken"]
                     /\ UNCHANGED <<queue, capacity, call, pushed, popped>>

\* The deadline of wait_for passes: the thread leaves the wait set ...
Expire(t) == /\ pc[t] = "waiting"
             /\ call[t].timed
             /\ pc' = [pc EXCEPT ![t] = "expired"]
             /\ UNCHANGED <<queue, capacity, call, pushed, popped>>

\* Mutant: an expired wait starts again.
AfterTimeoutWaiting == "waiting"

AfterTimeout == "idle"

\* ... and evaluates the predicate one last time under the mutex.
LastLook(t) == /\ pc[t] = "expired"
               /\ \/ queue # <<>> /\ Dequeue(t, call[t].limit)
                  \/ Leave(t, AfterTimeout)
               /\ UNCHANGED call

TryPopSome(t) == /\ pc[t] = "idle"
                 /\ queue # <<>>
                 /\ Dequeue(t, "span")
                 /\ UNCHANGED call

\* configure() / reserve(): the elements already queued stay, even above c.
Reserve(t, c) == /\ pc[t] = "idle"
                 /\ capacity' = c
                 /\ UNCHANGED <<queue, pc, call, pushed, popped>>

Next == \E t \in Threads : \/ Push(t) \/ PushAll(t)
                           \/ NotifyOne(t) \/ NotifyAll(t)
                           \/ \E c \in Calls : Pop(t, c)
                           \/ Wake(t) \/ SpuriousWakeup(t)
                           \/ Expire(t) \/ LastLook(t)
                           \/ TryPopSome(t)
                           \/ \E c \in Capacities : Reserve(t, c)

\* A thread inside an operation keeps being scheduled and wins the mutex; no
\* thread has to call anything.  Deadlines are absolute (wait_for turns into
\* wait_until), so early wakeups do not postpone them: strong fairness.
Fairness == \A t \in Threads : /\ WF_vars(NotifyOne(t)) /\ WF_vars(NotifyAll(t))
                               /\ WF_vars(Wake(t))
                               /\ SF_vars(Expire(t)) /\ WF_vars(LastLook(t))

Spec == Init /\ [][Next]_vars
FairSpec == Spec /\ Fairness

-----------------------------------------------------------------------------
(* Properties. *)

\* Types of the queue, the threads' positions and the history counters.
TypeOK == /\ queue \in Seq(Nat)
          /\ capacity \in Nat
          /\ pc \in [Threads -> {"idle", "notifyOne", "notifyAll", "waiting", "woken", "expired"}]
          /\ call \in [Threads -> Calls]
          /\ pushed \in Nat
          /\ popped \in Nat

\* What is queued is exactly what was pushed and not yet popped, in push order:
\* whatever mix of pop, popSome, tryPopSome and timeouts empties the queue,
\* nothing is lost, duplicated or overtaken.
FifoOrder == /\ popped + Len(queue) = pushed
             /\ \A i \in 1 .. Len(queue) : queue[i] = popped + i

\* No lost wakeup: while some thread sits in the wait set, every queued element
\* is matched by a thread already woken or by a notification still to be sent,
\* although push() notifies after it has released the mutex and other consumers
\* may take elements meanwhile.
NoLostWakeup == Waiters # {} =>
                   \/ Broadcasters # {}
                   \/ Len(queue) <= Cardinality(Woken) + Cardinality(Notifiers)

\* A thread blocked in pop() does not sleep on while elements stay queued.
BlockedPopIsServed == \A t \in Threads :
    (pc[t] = "waiting" /\ queue # <<>>) ~> (pc[t] # "waiting" \/ queue = <<>>)

\* A timed pop returns, with an element or without.
TimedPopReturns == \A t \in Threads :
    (pc[t] = "waiting" /\ call[t].timed) ~> (pc[t] = "idle")

=============================================================================
