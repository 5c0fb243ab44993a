------------------------------- MODULE TxPath -------------------------------
(***************************************************************************)
(* The transmit path: VNic::tx(), TxQueue::put() and, through Link, the    *)
(* TX pipe with its memory.  Application threads send bursts of            *)
(* descriptors through any TX queue, consumers take frames from the pipe,  *)
(* and the port is configured between the calls.                           *)
(*                                                                         *)
(* A descriptor points to a chain of buffers in Heap, which the            *)
(* applications leave alone during a call.  Walking and copying a chain    *)
(* touches nothing shared, so put() is one step up to the push.  The       *)
(* descriptors of a burst are chosen as tx() reaches them.                 *)
(***************************************************************************)
EXTENDS Link, FiniteSetsExt

CONSTANTS Queues,       \* TX queues
          Buffers, Null,
          Heap,         \* packet bytes and next buffer of each buffer
          Descriptors,  \* buffer and totalLength
          MaxBurst,     \* bound: descriptors in a burst
          MaxSegments,  \* kMaxSegments
          Depths,       \* pipe depths given to configure()
          MaxCalls      \* bound: calls of tx()

ASSUME TxPathAssumption ==
    /\ IsFiniteSet(Putters) /\ IsFiniteSet(Queues) /\ Depths \subseteq Nat /\ Null \notin Buffers
    /\ \A b \in Buffers : Heap[b].next \in Buffers \cup {Null} /\ Heap[b].bytes \in Seq(Nat)
    /\ Descriptors \subseteq [buffer : Buffers \cup {Null}, totalLength : Nat]
    /\ {MaxBurst, MaxSegments, MaxCalls} \subseteq Nat \ {0}

Apps == Putters

VARIABLES linked,   \* queues whose link_ is set
          call,     \* the tx() call of each application
          calls,    \* calls made so far
          results,  \* what each finished call returned, for the properties
          stats,    \* the port's transmit counters
          qstats,   \* the counters of each TX queue
          replaced  \* what the queues replaced by configure() had counted

txVars == <<linked, call, calls, results, stats, qstats, replaced>>
vars == <<linkVars, txVars>>

\* A result of tx(): a number of packets, or a failure.
Failure == MaxBurst + 1
Pending == MaxBurst + 2

NoDesc == [buffer |-> Null, totalLength |-> 0]

\* number: which call it is; size: descriptors in the burst; i, desc: the current one.
Idle == [at |-> "idle", number |-> 0, queue |-> Null, size |-> 0, i |-> 1, desc |-> NoDesc]

Zero == [packets |-> 0, bytes |-> 0, dropped |-> 0]

Init == /\ LinkInit /\ linked = {}
        /\ call = [a \in Apps |-> Idle] /\ calls = 0
        /\ results = [c \in 1 .. MaxCalls |-> Pending]
        /\ stats = Zero /\ qstats = [q \in Queues |-> Zero] /\ replaced = Zero

-----------------------------------------------------------------------------
(* TxQueue::put(): checks and gathering. *)

\* The buffer reached after m steps along a chain.
Nth(b, m) == LET step[j \in Nat] == IF j = 0 THEN b
                                    ELSE IF step[j - 1] = Null THEN Null ELSE Heap[step[j - 1]].next
             IN  step[m]

\* The number of segments of a chain, when it ends within kMaxSegments.
Ends(b) == {m \in 1 .. MaxSegments : Nth(b, m) = Null}
Segments(b) == Min(Ends(b))

\* A sequence of sequences, one after the other.
Joined(s) == MapThenFoldSet(\o, <<>>, LAMBDA i : s[i], Min, DOMAIN s)

\* Mutant: every segment is copied in front of the last one.
GatherBackwards(b) == Joined([m \in 1 .. Segments(b) |-> Heap[Nth(b, Segments(b) - m)].bytes])

\* The bytes of its segments, one after the other.
Gather(b) == Joined([m \in 1 .. Segments(b) |-> Heap[Nth(b, m - 1)].bytes])

\* Does put() get as far as the link's copy of a frame that is not empty?
Sendable(q, d) == /\ d.buffer # Null            \* TxDescriptorNull
                  /\ Ends(d.buffer) # {}        \* TxSegmentLimitExceeded
                  /\ Len(Gather(d.buffer)) = d.totalLength  \* TxLengthMismatch
                  /\ q \in linked               \* TxLinkUnavailable
                  /\ d.totalLength > 0          \* LinkPacketEmpty

-----------------------------------------------------------------------------
(* tx(). *)

\* A call with a bad queue id returns at once and is left out.
Tx(a, q, n) == /\ alive
               /\ call[a].at = "idle" /\ calls < MaxCalls
               /\ calls' = calls + 1
               /\ call' = [call EXCEPT ![a] = [Idle EXCEPT !.at = "next", !.number = calls + 1,
                                                           !.queue = q, !.size = n]]
               /\ UNCHANGED <<linkVars, linked, results, stats, qstats, replaced>>

More(a) == call[a].at = "next" /\ call[a].i <= call[a].size

\* put() of the next descriptor, up to the copy into the link's memory.
Put(a, d, b) == /\ More(a)
                /\ Sendable(call[a].queue, d)
                /\ Allocate(a, b, [number |-> call[a].number, i |-> call[a].i, desc |-> d,
                                   bytes |-> Gather(d.buffer)])
                /\ call' = [call EXCEPT ![a] = [@ EXCEPT !.at = "push", !.desc = d]]
                /\ UNCHANGED <<linked, calls, results, stats, qstats, replaced>>

\* put() fails before: a descriptor that is not sendable, or no memory.
Refuse(a) == /\ More(a)
             /\ call' = [call EXCEPT ![a].at = "refused"]
             /\ UNCHANGED <<linkVars, linked, calls, results, stats, qstats, replaced>>

\* link_->putTx() pushes the frame or finds the pipe full.
PutTx(a) == /\ call[a].at = "push"
            /\ \/ Push(a) /\ call' = [call EXCEPT ![a].at = "pushed"]
               \/ PushFails(a) /\ call' = [call EXCEPT ![a] = [@ EXCEPT !.at = "refused", !.desc = NoDesc]]
            /\ UNCHANGED <<linked, calls, results, stats, qstats, replaced>>

Counted(s, n) == [s EXCEPT !.packets = @ + 1, !.bytes = @ + n]

\* Mutant: a refused descriptor is not counted.
DroppedNot(s) == s

Dropped(s) == [s EXCEPT !.dropped = @ + 1]

\* put() counts in the queue ...
CountInQueue(a) == /\ \/ /\ call[a].at = "pushed"
                         /\ qstats' = [qstats EXCEPT ![call[a].queue] = Counted(@, call[a].desc.totalLength)]
                         /\ call' = [call EXCEPT ![a].at = "count"]
                      \/ /\ call[a].at = "refused"
                         /\ qstats' = [qstats EXCEPT ![call[a].queue] = Dropped(@)]
                         /\ call' = [call EXCEPT ![a].at = "drop"]
                   /\ UNCHANGED <<linkVars, linked, calls, results, stats, replaced>>

\* ... and tx() in the port; on to the next descriptor.
Count(a) == /\ call[a].at = "count"
            /\ stats' = Counted(stats, call[a].desc.totalLength)
            /\ call' = [call EXCEPT ![a] = [@ EXCEPT !.at = "next", !.i = call[a].i + 1,
                                                !.desc = NoDesc]]
            /\ UNCHANGED <<linkVars, linked, calls, results, qstats, replaced>>

\* Mutant: the burst goes on after a failure.
AfterDropGoOn(a) == [call[a] EXCEPT !.at = "next", !.i = @ + 1]

\* break.
AfterDrop(a) == Idle

\* The first failure ends the burst; tx() reports it only if nothing was sent.
Drop(a) == /\ call[a].at = "drop"
           /\ stats' = [stats EXCEPT !.dropped = @ + 1]
           /\ results' = [results EXCEPT ![call[a].number] =
                             IF call[a].i = 1 THEN Failure ELSE call[a].i - 1]
           /\ call' = [call EXCEPT ![a] = AfterDrop(a)]
           /\ UNCHANGED <<linkVars, linked, calls, qstats, replaced>>

\* The whole burst was sent.
Return(a) == /\ call[a].at = "next" /\ ~More(a)
             /\ results' = [results EXCEPT ![call[a].number] = call[a].size]
             /\ call' = [call EXCEPT ![a] = Idle]
             /\ UNCHANGED <<linkVars, linked, calls, stats, qstats, replaced>>

\* takeTx() by a consumer on the other side.
TakeTx(t) == (Pop(t) \/ Copied(t)) /\ UNCHANGED txVars

-----------------------------------------------------------------------------
(* The controller, which calls nothing while a tx() runs. *)

Quiet == \A a \in Apps : call[a].at = "idle"

Sum(field) == SumFunction([q \in Queues |-> qstats[q][field]])

\* VNic::configure(): the link is configured, and the queues are replaced by
\* new ones, which have no link and have counted nothing.
Configure(d) == /\ Quiet
                /\ ConfigureLink(d)
                /\ linked' = {}
                /\ qstats' = [q \in Queues |-> Zero]
                /\ replaced' = [f \in DOMAIN Zero |-> replaced[f] + Sum(f)]
                /\ UNCHANGED <<call, calls, results, stats>>

\* VNic::configure(id): the queue gets the link.
ConfigureQueue(q) == /\ alive /\ Quiet
                     /\ linked' = linked \cup {q}
                     /\ UNCHANGED <<linkVars, call, calls, results, stats, qstats, replaced>>

\* The port is destroyed, and the link with it.
Destroy == Quiet /\ Drain /\ UNCHANGED txVars

\* It is gone.
Gone == ~alive /\ UNCHANGED vars

Next == \/ \E a \in Apps : \/ \E q \in Queues, n \in 0 .. MaxBurst : Tx(a, q, n)
                           \/ \E d \in Descriptors, b \in Block : Put(a, d, b)
                           \/ Refuse(a) \/ PutTx(a) \/ CountInQueue(a) \/ Count(a) \/ Drop(a) \/ Return(a)
        \/ \E t \in Takers : TakeTx(t)
        \/ \E d \in Depths : Configure(d)
        \/ \E q \in Queues : ConfigureQueue(q)
        \/ Destroy \/ Gone

Spec == Init /\ [][Next]_vars

-----------------------------------------------------------------------------
(* Properties. *)

\* Where on the wire the descriptors of call c are.
WireOf(c) == {j \in DOMAIN pushed : pushed[j].number = c}

\* What a call puts on the wire is a prefix of its burst, in order and once
\* each, however the calls of other threads mix in, and tx() returns how long
\* it is, or an error when it is empty and not the whole burst.
BurstPrefix ==
    /\ \A c \in 1 .. calls :
          /\ {pushed[j].i : j \in WireOf(c)} = 1 .. Cardinality(WireOf(c))
          /\ \A j, k \in WireOf(c) : j < k => pushed[j].i < pushed[k].i
          /\ results[c] # Pending =>
                Cardinality(WireOf(c)) = IF results[c] = Failure THEN 0 ELSE results[c]
    /\ \A a \in Apps : call[a].at # "idle" =>
          Cardinality(WireOf(call[a].number)) =
             IF call[a].at \in {"pushed", "count"} THEN call[a].i ELSE call[a].i - 1

\* The calls at one of the steps, and the bytes they have in hand.
InFlight(steps) == {a \in Apps : call[a].at \in steps}
BytesInFlight(steps) ==
    SumFunction([a \in Apps |-> IF call[a].at \in steps THEN call[a].desc.totalLength ELSE 0])

BytesOnWire == SumFunction([j \in DOMAIN pushed |-> Len(pushed[j].bytes)])

\* The port's and the queues' counters agree with the wire, up to the calls
\* that have yet to count: packets, and bytes although they are counted from
\* totalLength and not from what was copied.
CountersMatchWire ==
    /\ Len(pushed) = stats.packets + Cardinality(InFlight({"pushed", "count"}))
    /\ Len(pushed) = replaced.packets + Sum("packets") + Cardinality(InFlight({"pushed"}))
    /\ BytesOnWire = stats.bytes + BytesInFlight({"pushed", "count"})
    /\ BytesOnWire = replaced.bytes + Sum("bytes") + BytesInFlight({"pushed"})
    /\ replaced.dropped + Sum("dropped") = stats.dropped + Cardinality(InFlight({"drop"}))

\* The chains of at most kMaxSegments buffers that start at b and end.
Chains(b) == {p \in UNION {[1 .. m -> Buffers] : m \in 1 .. MaxSegments} :
                 /\ p[1] = b
                 /\ \A j \in 1 .. Len(p) - 1 : Heap[p[j]].next = p[j + 1]
                 /\ Heap[p[Len(p)]].next = Null}

\* A frame on the wire is the whole chain of its descriptor, as long as it
\* says and not empty, even when applications hand over chains that are too
\* long or never end.
GatheredWhole ==
    \A j \in DOMAIN pushed : \E p \in Chains(pushed[j].desc.buffer) :
       /\ pushed[j].bytes = Joined([m \in DOMAIN p |-> Heap[p[m]].bytes])
       /\ Len(pushed[j].bytes) = pushed[j].desc.totalLength
       /\ pushed[j].bytes # <<>>

=============================================================================
