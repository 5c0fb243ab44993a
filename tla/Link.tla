-------------------------------- MODULE Link --------------------------------
(***************************************************************************)
(* link/link.cpp: one pipe of the in-memory link, with the memory of its   *)
(* frames (utils/allocator.h).  The RX and the TX pipe run the same code,  *)
(* put() and take(); any number of threads put and take.  TxPath composes  *)
(* the pipe with the threads that use it.                                  *)
(***************************************************************************)
EXTENDS Naturals, Sequences, FiniteSets, Functions

CONSTANTS Putters, Takers,  \* threads inside putRx/putTx and takeRx/takeTx
          Block,            \* addresses malloc can return
          NoFrame           \* content of a block that is not allocated

\* A thread that puts and takes counts as two.
ASSUME LinkAssumption == Putters \cap Takers = {}

VARIABLES alive,      \* the destructor has not run
          depth,      \* capacity of the Fifo; 0 before configure() is no limit
          pipe,       \* the Fifo: blocks, front first
          allocated,  \* blocks malloc has handed out and free() not taken back
          data,       \* the frame copied into each block
          putting,    \* the block a thread inside put() has filled
          taking,     \* the block a thread inside take() has popped
          promised,   \* which frame that should be: an index of pushed
          pushed,     \* frames pushed, in order
          popped      \* how many of them were popped

linkVars == <<alive, depth, pipe, allocated, data, putting, taking, promised, pushed, popped>>

LinkInit == /\ alive = TRUE /\ depth = 0 /\ pipe = <<>> /\ allocated = {}
            /\ data = [b \in Block |-> NoFrame]
            /\ putting = [p \in Putters |-> {}]
            /\ taking = [t \in Takers |-> {}] /\ promised = [t \in Takers |-> 0]
            /\ pushed = <<>> /\ popped = 0

-----------------------------------------------------------------------------

\* put(): allocate and copy.  An empty frame or a failing malloc changes nothing.
Allocate(p, b, f) == /\ alive
                     /\ putting[p] = {}
                     /\ b \notin allocated
                     /\ allocated' = allocated \cup {b}
                     /\ data' = [data EXCEPT ![b] = f]
                     /\ putting' = [putting EXCEPT ![p] = {b}]
                     /\ UNCHANGED <<alive, depth, pipe, taking, promised, pushed, popped>>

Full == depth # 0 /\ Len(pipe) >= depth

\* put(): the push, and guard.cancel().
Push(p) == /\ putting[p] # {} /\ ~Full
           /\ \E b \in putting[p] : /\ pipe' = Append(pipe, b)
                                    /\ pushed' = Append(pushed, data[b])
           /\ putting' = [putting EXCEPT ![p] = {}]
           /\ UNCHANGED <<alive, depth, allocated, data, taking, promised, popped>>

\* Mutant: the memory is not given back.
DeallocateNot(bs) == UNCHANGED <<allocated, data>>

\* Allocator::deallocate(): free(), which may overwrite the block.
Deallocate(bs) == /\ allocated' = allocated \ bs
                  /\ data' = [b \in Block |-> IF b \in bs THEN NoFrame ELSE data[b]]

\* put(): the pipe is full; the guard frees the block.
PushFails(p) == /\ putting[p] # {} /\ Full
                /\ Deallocate(putting[p])
                /\ putting' = [putting EXCEPT ![p] = {}]
                /\ UNCHANGED <<alive, depth, pipe, taking, promised, pushed, popped>>

\* Mutant: the newest frame leaves first.
FirstNewest == Len(pipe)

First == 1

\* take(): the pop.
Pop(t) == /\ taking[t] = {}
          /\ pipe # <<>>
          /\ taking' = [taking EXCEPT ![t] = {pipe[First]}]
          /\ promised' = [promised EXCEPT ![t] = popped + 1]
          /\ popped' = popped + 1
          /\ pipe' = SubSeq(pipe, 1, First - 1) \o SubSeq(pipe, First + 1, Len(pipe))
          /\ UNCHANGED <<alive, depth, allocated, data, putting, pushed>>

\* take(): after the copy, or std::bad_alloc in it, the guard frees the block.
Copied(t) == /\ taking[t] # {}
             /\ Deallocate(taking[t])
             /\ taking' = [taking EXCEPT ![t] = {}]
             /\ promised' = [promised EXCEPT ![t] = 0]
             /\ UNCHANGED <<alive, depth, pipe, putting, pushed, popped>>

\* configure(): a depth of zero is refused; frames in the pipe stay.
ConfigureLink(d) == /\ alive
                    /\ d # 0
                    /\ depth' = d
                    /\ UNCHANGED <<alive, pipe, allocated, data, putting, taking, promised, pushed,
                                   popped>>

\* ~Link: drain() frees what is left in the pipe.  Nobody uses the link any more.
Drain == /\ alive
         /\ \A p \in Putters : putting[p] = {}
         /\ \A t \in Takers : taking[t] = {}
         /\ alive' = FALSE
         /\ Deallocate(Range(pipe))
         /\ pipe' = <<>> /\ popped' = Len(pushed)
         /\ UNCHANGED <<depth, putting, taking, promised, pushed>>

-----------------------------------------------------------------------------
(* Properties. *)

\* What each thread inside put() or take() holds.
Hands == [h \in Putters \cup Takers |-> IF h \in Putters THEN putting[h] ELSE taking[h]]

\* The memory out of malloc is exactly what is in the pipe or in the hands of
\* one thread inside put() or take(): nothing leaks when a push is refused or a
\* copy throws, and nothing is freed while somebody still reads it.
MemoryExact == /\ allocated = Range(pipe) \cup UNION Range(Hands)
               /\ IsInjective(pipe)
               /\ \A h \in DOMAIN Hands : Range(pipe) \cap Hands[h] = {}
               /\ \A h, k \in DOMAIN Hands : h # k => Hands[h] \cap Hands[k] = {}

\* What take() copies is the frame put() copied in, in the order of the pushes:
\* no block is reused between the push and the end of the copy, whatever the
\* depth and however often it is changed.
FramesIntact == /\ \A i \in DOMAIN pipe : data[pipe[i]] = pushed[popped + i]
                /\ \A t \in Takers : \A b \in taking[t] : data[b] = pushed[promised[t]]
                /\ popped + Len(pipe) = Len(pushed)

=============================================================================
