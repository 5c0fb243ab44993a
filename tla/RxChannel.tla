----------------------------- MODULE RxChannel ------------------------------
(***************************************************************************)
(* What an RX queue promises to the port and to the applications: a FIFO   *)
(* of packets with a fixed number of descriptors, each of them free,       *)
(* queued or with an application.  RxQueue implements it as long as the    *)
(* applications return their descriptors before stop(), and VNicRx uses    *)
(* one such channel per queue.                                             *)
(***************************************************************************)
EXTENDS Naturals, Sequences

CONSTANT Items

VARIABLES size,   \* number of descriptors
          queue,  \* packets accepted and not yet taken
          out     \* number of descriptors applications hold

chan == <<size, queue, out>>

Init == size \in Nat \ {0} /\ queue = <<>> /\ out = 0

\* put() succeeds; a put() that fails changes nothing.
Accept(x) == /\ Len(queue) + out < size
             /\ queue' = Append(queue, x)
             /\ UNCHANGED <<size, out>>

\* take() hands out the oldest m packets.
Take(m) == /\ queue' = SubSeq(queue, m + 1, Len(queue))
           /\ out' = out + m
           /\ UNCHANGED size

\* free() gives m descriptors back.
GiveBack(m) == /\ out' = out - m
               /\ UNCHANGED <<size, queue>>

\* stop() drops the oldest m packets when nobody holds a descriptor.
Discard(m) == /\ out = 0
              /\ queue' = SubSeq(queue, m + 1, Len(queue))
              /\ UNCHANGED <<size, out>>

\* configure() of an empty queue.
Resize == /\ queue = <<>> /\ out = 0
          /\ size' \in Nat \ {0}
          /\ UNCHANGED <<queue, out>>

Next == \/ \E x \in Items : Accept(x)
        \/ \E m \in 1 .. Len(queue) : Take(m) \/ Discard(m)
        \/ \E m \in 1 .. out : GiveBack(m)
        \/ Resize

Spec == Init /\ [][Next]_chan

=============================================================================
