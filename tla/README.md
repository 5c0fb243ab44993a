# TLA+ models of vnic

vnic is a network interface card in user space. A host feeds frames into an
in-memory link. A poll thread parses and checks them, chooses an RX queue by RSS
and stores them there for the applications. Applications send chains of buffers
through TX queues back to the link. This directory holds the models of that
code, the TLC configurations that check them and the proofs TLAPS checks.
`PROJECT.json` lists components, runs, mutants, the lines each definition
stands for, findings, hazards and theorems.

## 1. Inventory

| Part | State | Operations | Shared with |
|---|---|---|---|
| `utils/fifo.h` | queue, capacity, wait set | push, pushAll/Some, pop (timed or not), popSome, tryPopSome, reserve | all threads |
| `utils/memory_pool.h` | live blocks | allocate, deallocate | poll thread, applications |
| `queue/rx_queue.cpp` | state, `free_`, `used_`, pool, counters | put, take, free, configure, start, stop | poll thread, applications, control |
| `queue/tx_queue.cpp` | link pointer, counters | put, configure, start, stop | applications, control |
| `link/link.cpp`, `utils/allocator.h` | two pipes, `up_`, frame memory | putRx/Tx, takeRx/Tx, up, down, configure, drain | host, poll thread, applications |
| `utils/stateful.h` | the state of an automaton | configure, start, stop by compare-and-swap | controllers |
| `vnic/vnic.cpp`, control | config, queues, RETA, thread | configure, start, stop, updateReta, destructor | controllers |
| `vnic/vnic.cpp`, data | counters, RETA | poll, distribute, rx, freeRx, tx | poll thread, applications |
| `utils/rcu.h` | a table under a shared mutex | read, write | poll thread, controllers |
| `parser`, `validate` | the parsed headers | parse, reset, the checks | none |
| `rss/hash.cpp`, `packet/five_tuple.cpp` | none | symmetric order, hash input, three hashes | none |
| `stats/stats.h` | ten counters | add, reset | all threads |
| `examples/base-nic/main.cpp` | `g_running`, four threads | configure, start, the loops, join, stop | signal handler |

What makes it hard: producers that notify after unlocking; scope guards that
must undo a half-finished put or start; exceptions that nobody catches;
descriptors that outlive `stop()` or their queue; a state published before the
work it announces; a table replaced while it is read; tests (`isUp`, `isEmpty`,
the size of a vector) that are stale when their result is used; and size
arithmetic on header fields that come from the frame.

What each part should guarantee:

* Fifo: order, no loss, no lost wakeup.
* RX queue: every buffer has one owner and none leaks; descriptors are
  conserved; overflow means exhaustion; stop and restart work.
* Link: memory is exactly what is in flight; frames come out as they went in.
* Control plane: one transition at a time, all-or-nothing start, a poll thread
  only while the port is started, a RETA that fits the queues.
* Receive path: every frame counted once, delivered at most once and in order,
  by a single table.
* Transmit path: bursts are sent as prefixes, counters agree with the wire.
* Parser: no read behind the frame, no leftovers, no false rejection.
* RSS: both directions of a connection meet; the hashes are the textbook ones.
* Statistics: a counter holds what happened since the last reset.
* Example: nothing is out and nobody is inside the port when it is stopped, and
  the program ends.

## 2. Modules

A `\* Mutant: ...` definition is a plausible bug, used to show that a property
can fail. It is part of no specification.

**Fifo.** A section under `mutex_` is one step, since nobody can see its middle.
The notification after the unlock is a step of its own (`NotifyOne`,
`NotifyAll`). A consumer that finds nothing joins the wait set. It is woken by a
notification, spuriously, or by its timeout, and tests again. Elements are
numbers in push order.

**RxQueue.** Three kinds of threads. The poll thread's `put` is the sequence
`PutBegin`, `PutAlloc` (once per block), `PutSlot`, `PutPush`, `PutCount`, with
`PutAllocFails` and `PutUndo` as the scope guards. Applications `Take`, and free
with `FreeBegin`, `FreeRelease`, `FreePush`, because `free()` gives back the
chains before the slots. Control runs `Configure`, `Start`/`StartFill` and
`Stop`/`DrainFree`/`DrainTest`/`DrainPop`; the test and the pop of the drain are
apart, as in the code. `configure()` of the port may also destroy the queue and
put a new one in its place (`Renew`) while applications still hold descriptors
of the old one. A chain is the set of its blocks; `live_` is a counter of its
width. Two constants say what the applications do: `TakeWhileStopping` and
`FreeAfterStop`. The example program joins its threads before `stop()`, which is
`FALSE` for both.

**RxChannel.** What an RX queue promises: a FIFO with a fixed number of
descriptors, each free, queued or out.

**Link.** One pipe with its memory; RX and TX run the same `put` and `take`.
The copy in `take` may throw after the pop. `configure()` changes the depth with
frames in the pipe; the destructor drains it.

**TxPath.** `tx()` over a burst and `TxQueue::put` on top of Link, whose actions
it uses, with consumers at the other end and a controller that configures the
port, replaces its queues and at last destroys it. Chains are linked buffers, so
a chain can be too long, cyclic or disagree with its length. Dropped packets are
counted, dropped bytes are not.

**VNicControl.** Controllers run calls one queue at a time. The compare-and-swap
of `stateful.h` opens a call; the states in between (`Publish`, `StartQueue`,
`Spawn`, `Undo`, `RequestStop`, `Join`, `StopQueue`, the steps of `configure()`)
are the points where others interleave. Every allocation in these calls may
throw; the exception leaves the automaton where it was. A table is the set of
its entries. `StopDuringStart` and `UpdateDuringConfigure` say whether callers
overlap these calls.

**Lifecycle.** What `stateful.h` documents: which state may follow which, and a
poll thread that begins in Started and is over before the port rests or fails.
`FollowsLifecycle` says that VNicControl implements it. This is not plain from
the code, where only the first step of a call compares and the last ones store.

**VNicRx.** The configuration (with or without queues and RSS), pipe, link flag,
poll loop (`PollTest` to `PollCount`, with `PollTakeThrows` for an exception out
of `takeRx()`), RETA, queues, applications, start and stop. A queue here is an
`RxChannel`: `UsesChannels` says that the port uses it only so, and
`ImplementsChannel` in RxQueue that the real queue behaves so. This is how the
two levels compose, and both are proved. The descriptors are returned before
`stop()` ends, as the channel demands.

**Example.** `main()` of the example program and its four threads around VNicRx.
A signal may come at any time. The TX pipe is a count of frames.

**Parser, Rss, Classify.** Frames are the fields the code branches on, with the
real header sizes. `reach` is the end of what has been read. A Parser may be
reused for the next frame (`parser.h`); the fresh one of the poll loop is a
special case. Rss has hash input, symmetry and placement, for an arbitrary hash
function. Classify composes them: what the parser accepts gives the 5-tuple
(`Get5Tuple`), the tuple the hash, the hash and the table the queue.

**SoftHash, HashCalls.** The three hash functions, parameterised by byte and word
width. A word is the set of its one bits; a loop of the code is a function from
the locals before a round to those after it. Beside them are the textbook
definitions of the two bit-serial ones: a matrix built from the key, and the
remainder of a polynomial division. HashCalls hands them every key and input;
MCClassify composes it with the frames.

**Stats.** Counters, threads that add to several of them per event, and
`reset()`. All accesses are relaxed atomics, so the adds of one call, and the
stores of one reset, take effect in any order; two calls of one thread are
assumed not to be reordered with each other.

## 3. Runs

| Run | What it shows | Bounds |
|---|---|---|
| `fifo` | order; no lost wakeup; blocked pops are served, timed pops return | 3 threads, 3 pushes, unbounded or capacity 2, pops of one and of a span |
| `rx_queue_ownership` | no leak, one owner, complete chains, order; applications do as they like, also while the queue is replaced | 4 blocks, 2 applications, 3 packets of 1, 2 or too many segments, sizes 0 (the default), 1 and 2 |
| `rx_queue_quiesced` | refines RxChannel; slots conserved and restart works; overflow means exhausted; stop returns | 3 blocks, 4 packets, otherwise the same |
| `vnic_control` | one transition, rollback, thread, RETA; refines Lifecycle; calls return; exceptions anywhere | 3 controllers, up to 3 queues |
| `vnic_rx` | accounting, order, routing, link, use of channels; stop returns, the pipe is served | none or 2 queues of 1, with and without RSS, pipe of 2, 3 frames, tables of 1 and 2 entries, any number of flaps and restarts |
| `tx_path` | prefix bursts, counters, whole chains, memory and content of frames | 2 applications, 2 consumers, 3 blocks, 2 queues, 2 calls, bursts of 2, depth 0 (no limit) and 1 |
| `classify` | bounds, no leftovers, no false rejection; both directions meet; Toeplitz and CRC are exact | sizes at and around each boundary; IPv4 and IPv6 flows; all keys and inputs at 2-bit bytes and 2-byte words |
| `stats` | counters hold what happened since the last reset | 2 threads, 4 events, 2 resets, counters modulo 4 |
| `example` | quiet stop; the program ends | 2 queues of 1, pipes of 1, 2 frames |

The bounds are enough for the case each property is about: a third thread that
steals an element between a notification and the wakeup; a second application
that frees while the first takes; a chain that fails at its second block with
both other blocks in use; a third queue whose start fails; a third controller
that updates the table while two others race for the automaton; a RETA that
changes size while a frame is being handled; a burst that fails in its middle
while the other application has the last block; a second reset that overlaps an
event the first one also overlapped; a counter that wraps. Toeplitz keys are one
word longer than the longest input, as in the code (40 and 36 bytes), so the
window reaches the end of the key. The largest runs are `stats` (1.3 million
states), `vnic_rx` and `tx_path` (400,000 each).

Symmetry is used only where a run checks invariants alone. Deadlock is checked
but for three runs: in `rx_queue_ownership` and `rx_queue_stop_blocks` `stop()`
can block, in `stats` events and resets run out.

Runs that find a violation, each with a finding in `PROJECT.json`:

| Run | What happens |
|---|---|
| `rx_queue_stop_blocks` | `rx()` during `stop()` takes the last descriptor between `isEmpty()` and `pop()`; `stop()` waits for ever |
| `vnic_control_stop_race` | `stop()` overtakes a `start()` that has published Started; the poll thread runs in a stopped port |
| `vnic_control_reta_race` | `configure()` between check and write of `updateReta()`; the table names a queue that is gone |

More differences showed up while modelling and have no run of their own:

* A descriptor freed after `stop()` stays on `free_`, so the next `start()` finds
  the list full and fails (`rx_queue.cpp:150`). The second part of
  `SlotsConserved` excludes this under the discipline of `rx_queue_quiesced`;
  with `FreeAfterStop = TRUE` it happens.
* `liveBlocks()` of a new queue is off by the blocks that were out when it
  replaced the old one: they are freed through the new pool. `NoBlockLeaked`
  states the count with this difference.
* An exception through `configure()` leaves the port in Configuring, from which
  no call but the destructor leads out. One through `start()` leaves it Started
  without a thread; `stop()` and `configure()` recover it.
* `link.h:37` says the poll loop does not read while the link is down. The loop
  tests `isUp()` before it waits in `takeRx()`, so it can read one frame after
  `down()`. `DownPausesPolling` shows it is never more than one.
* `hash.h:43` says ASYMMETRIC gives the two directions different hashes. With
  SIMPLE_XOR over addresses alone they are equal, because XOR of whole words
  does not depend on their order.
* `dock/architecture.md` says that the protocol number is part of the hash
  input; the code hashes addresses and ports only, and so does Rss.

### Fairness

Only threads inside a call are assumed to go on, and only calls that do not wait
for another thread's decision. Fifo: weak fairness for notifications and for
woken threads; strong fairness for the expiry of a timed wait, because time
passes also while the thread is woken in vain. RxQueue: weak fairness for the
steps of put, free, start and stop; nobody has to offer, take or free a packet.
VNicControl: weak fairness of each call and of the poll thread's exit after
`request_stop`. VNicRx: the poll thread runs (its waits are bounded by 100 ms),
the control thread joins when it can, and applications return what they hold,
which is the discipline the model of the queues there assumes. Example: `main()`,
the poll thread and each worker go on, since all their waits are timed or joins;
the descriptors are returned by the consumer's own step, and a signal need not
come.

## 4. Proofs

Each theorem holds for every value of the constants that the named `ASSUME`s of
the modules allow; TLC evaluates these in every run. Every invariant and action
property of the runs has a theorem, and so has each refinement. An inductive invariant is the property with what a state in
the middle of a call needs added; below is what had to be added and why.

**PartProofs: Fifo.** `FifoIsOrdered`: order, for any threads, capacities and
number of pushes. `FifoOrder` with `TypeOK` is inductive; the work is in what a
burst appends and what a removal leaves. `FifoKeepsItsCapacity` is an action
property: a step that lengthens a limited queue leaves it within its capacity.
It is not an invariant, since `reserve()` may go below the present length.
`FifoLosesNoWakeup`: `NoLostWakeup` is inductive beside `TypeOK`. It counts:
while someone waits, the elements are no more than the threads woken or about to
notify. A removal takes an element away with the woken thread; a push adds an
element and a notifier; a notification turns a notifier and a waiter into a
woken thread.

**PartProofs: Stats.** `ResetKeepsTheCount`, for any threads, kinds of events
and width of the counters. `CountsSinceReset` speaks of quiet states only.
`StatsInv` says of each counter, at any time, that value and adds under way
together are the events after `reset()` and some of those beside it (`Balance`);
a counter that `reset()` has yet to store is behind by such events alone. An add
moves one unit from what is under way to the value, modulo the width.

**PartProofs: the hashes.** `ToeplitzCorrect` and `CrcCorrect`, for any widths of
byte and word, any polynomial, key and input; Toeplitz for inputs one word
shorter than the key, as in the code. Both are inductions over the rounds of the
inner loop (`IterateSteps`). After n rounds of `key320_hash_calc` the window holds
the key bits from n on, as far as they have entered, and the hash has flipped
once for each input bit read that meets a key bit (`ToeplitzRound`). After n
rounds of `crc32_calc` the dividend less the register at position n, less the
bits not yet read, is a multiple of the generator, and each round adds one term
to the quotient or none (`CrcRound`). `RemainderIsUnique` shows that this fixes
the result: at the first place where two quotients differ the dividends would
differ too, since the generator begins with a one.

**RxQueueProofs: buffers.** `QueueTypes`, `BuffersHaveOneOwner`, `NoBufferLeaks`,
`ChainsAreWhole` and `DeliveryIsOrdered`, for any pool, applications, sizes,
lengths and both values of the two usage constants. `IInv` adds to the first
three that a packet nobody owns has an empty chain, that all allocated blocks
are in some chain, that only packets already offered are anywhere (so a new one
is fresh), and that what is being released is part of what is being returned.
There is one lemma per kind of thread, with one step per action. `PoolMove`,
`PoolRelease` and `PoolAllocate` are the three things an action can do to the
pool. `ChainInv` adds how many segments `put()` has and still needs at each of
its steps, `OrderInv` that everything queued or out is older than the packet
`put()` works on.

**RxQueueProofs: descriptors.** `QueueImplementsChannel` is the refinement of
RxChannel, `DescriptorsAreConserved` and `OverflowIsExhaustion` the two
properties of descriptors. They assume `TakeWhileStopping = FALSE` and
`FreeAfterStop = FALSE`; without the first `stop()` may block, without the second
a restart fails. Beside `IInv` and `OrderInv`, `SlotInv` says at each point of the
queue's life where its descriptors are, and `HandsApart` that no two
applications hold the same one, so that their number is a sum. Each action is
shown to keep this and to be a step of the channel or to leave it unchanged.

**VNicControlProofs.** `TransitionsAreExclusive`, `TransitionsAreAllOrNothing`,
`PollingIsSafe` and `TablesNameQueues`, for any controllers, configurations and
tables, with an exception or a failure at any step. They assume that nobody
calls `stop()` before `start()` has returned, the last one also that
`updateReta()` does not overlap `configure()`; the two violation runs show what
happens otherwise. `IInv` is `Phase` (the state of the automaton tells which call
is under way), two of the properties themselves, `RunInv` (which queues run, and
whether there is a thread, at each step of a call, exceptions included) and
`TableInv` (queues and configuration agree, and without such overlap so does the
table). `PortFollowsLifecycle`, under the first assumption, is the refinement of
Lifecycle: `Phase` says that each store finds the state its call has set, and
`RunInv` that no thread is left when a call ends in Stopped or Error.

**TxPathProofs: the link.** `LinkMemoryIsExact` and `LinkKeepsFrames`: the blocks
allocated are those in the pipe and in the hands of calls, none of them twice,
and a consumer gets the frame that was pushed at its place. `LInv` adds that a
thread has at most one block in its hands and that `promised` names the frame in
the block.

**TxPathProofs: the calls.** `FramesAreGathered`: whatever the heap of buffers,
cycles included, a frame on the wire is the whole chain of its descriptor.
`CallInv` says that a call between copy and push has exactly the frame of its
descriptor in hand, and that calls under way have different numbers. That the
walk of `put()` follows the chain (`NthSteps`, `GatherIsChain`) is an induction
over the number of segments.

**TxCountProofs.** `BurstsArePrefixes`: `BurstPrefix` is inductive beside `TxInv`,
since it says of a call under way how much of its burst is on the wire.
`CountersAgree`: so is `CountersMatchWire`, which adds to the counters what the
calls in flight have yet to count. Each step of a call moves one packet and its
bytes from one term of the equation to another (`Flight`, `FlightMoves`); a
`configure()` moves the sum over the queues to the replaced ones.

**VNicRxProofs: the port.** `FramesAreCounted`, `FramesStayInOrder`,
`RoutingIsConsistent`, `DownStopsThePoll` and `PortUsesChannels`. `CountInv`: the
frame being handled is the only one not counted. `ReceivedInv`: that frame is the
last one taken, and until `put()` newer than all any queue has received; this is
why no frame is received twice. `RouteInv`: the mask read and the table looked up
belong together, because the lock is held. `DownInv`: while the loop is about to
wait, or the link is up, no frame has been taken from a link that is down. The
last theorem uses the types alone; with `QueueImplementsChannel` it makes the
port over abstract queues stand for the port over RxQueue.

**VNicRxProofs: the example.** `ExampleUsesThePort`: each step of the program is a
step of the port or leaves it unchanged, so the theorems above hold in it
(`ExampleAccountsForFrames`).
`ExampleStopsQuietly` needs `ExampleInv`: which threads exist at each line of
`main()`, and that descriptors are out only while the consumer is between `rx()`
and `freeRx()`, where its loop cannot end.

**ClassifyProofs.** `FramesAreReadInBounds`, `ParserShowsItsFrame` and
`WellFormedAreAccepted`, for every set of frames and every configuration.
`ParserInv` says for each step of `parse()` which headers lie within the frame
and are stored, and that nothing else is: the bounds of the next read follow
from it, and at the end it is the meaning of the frame. `SymmetricHash` and
`FlowsMeet` hold for any hash function, because a flow and its reversal have one
canonical tuple. `PlacedByTable` adds that all flows seen since the last update
were placed by the present table. `HashInputFits` bounds the input of the hash by
the 36 bytes of its buffer, the length the proof about Toeplitz asks for.

**SequenceLemmas.** What appending to and cutting off a sequence does to its
elements, its order and the absence of repetition; induction over numbers and
over finite sets, stated with a set in place of a predicate and proved from the
least element; iteration; and how a sum over a finite set changes with one term.

Only model-checked: liveness, since the prover treats neither fairness nor
`ENABLED`. Types are proved within the inductive invariants; only those of RxQueue
are a property of their own.

## 5. Not modelled

* Text: printing of headers, descriptors and errors (`parser.cpp` 16-199,
  `error_codes.h`), `ParseMac`, and the clock, which have no state.
* The bytes of headers: an unaligned load is a read of so many bytes.
* In the example, the building and printing of packets.
* Memory ordering weaker than sequential consistency, but for the counters. The
  flags shared between running threads are atomics, the lists and the RETA are
  under a mutex. The vectors of queues are under neither: they change only in
  `configure()`, and a call that overlaps it (as in `vnic_control_reta_race`) is
  modelled by the order of its reads and writes alone.
Every other operation that changes state is an action of some module.
