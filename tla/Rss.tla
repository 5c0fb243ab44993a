--------------------------------- MODULE Rss --------------------------------
(***************************************************************************)
(* Which queue the frames of a flow go to: the 5-tuple, its hash and the   *)
(* redirection table (five_tuple.h, hash.cpp, VNic::distribute), while the *)
(* table is replaced between frames.                                       *)
(*                                                                         *)
(* Addresses and ports are numbers in host order, so memcmp on in6_addr    *)
(* and the comparisons behind ntohl and ntohs are all <; the hash input is *)
(* made of their bytes in network order.  The hash function is a constant: *)
(* nothing below depends on which one it is.                               *)
(***************************************************************************)
EXTENDS Naturals, Sequences

CONSTANTS Tuples,        \* the flows, closed under reversal
          Protocols,     \* Config::Rss::protocol, as a set of flags
          HashFunc,      \* Config::Rss::hf
          Key,           \* Config::Rss::key
          Symmetry,      \* Config::Rss::symmetry
          ByteBase,      \* 256
          Hash(_, _, _), \* hash function, key, input -> hash
          Retas,         \* the tables updateReta installs: sequences of queues
          NotSeen        \* no frame of the flow was seen under this table

VARIABLES reta,    \* the redirection table
          placed   \* hash and queue the last frame of each flow got

vars == <<reta, placed>>

FiveTuple == [version : {4, 6}, saddr : Nat, daddr : Nat, sport : Nat, dport : Nat]

\* The same connection seen from the other end
Reversed(t) == [t EXCEPT !.saddr = t.daddr, !.daddr = t.saddr,
                         !.sport = t.dport, !.dport = t.sport]

ASSUME RssAssumption ==
  /\ \A t \in Tuples : t \in FiveTuple /\ Reversed(t) \in Tuples
  /\ ByteBase \in Nat \ {0, 1}
  /\ \A r \in Retas : r \in Seq(Nat)

-----------------------------------------------------------------------------
\* x in n bytes, network order
Bytes(x, n) == [i \in 1..n |-> (x \div ByteBase^(n - i)) % ByteBase]

HasIp == Protocols \cap {"IPV4", "IPV6"} # {}
HasL4 == Protocols \cap {"TCP", "UDP", "SCTP"} # {}

AddressBytes(t) == IF t.version = 6 THEN 16 ELSE 4

\* Addresses, then ports; the protocol number is not part of it
BuildHashInput(t) ==
  IF ~HasIp THEN <<>>
  ELSE Bytes(t.saddr, AddressBytes(t)) \o Bytes(t.daddr, AddressBytes(t))
       \o (IF HasL4 THEN Bytes(t.sport, 2) \o Bytes(t.dport, 2) ELSE <<>>)

\* Mutant: equal addresses count as ordered, whatever the ports are.
OutOfOrderAddresses(t) == t.saddr > t.daddr

OutOfOrder(t) == t.saddr > t.daddr \/ (t.saddr = t.daddr /\ t.sport > t.dport)

\* Lower address first; between equal addresses the lower port, and swapping
\* the equal addresses too changes nothing
MakeSymmetric(t) == IF OutOfOrder(t) THEN Reversed(t) ELSE t

CalcHash(t) ==
  LET input == BuildHashInput(IF Symmetry = "SYMMETRIC" THEN MakeSymmetric(t) ELSE t)
  IN  IF Len(input) = 0 THEN 0 ELSE Hash(HashFunc, Key, input)

\* The entry under the low bits of the hash.  The size of the table is a
\* power of two, so the mask size - 1 is the remainder.
QueueOf(r, h) == IF r = <<>> THEN 0 ELSE r[1 + (h % Len(r))]

Init ==
  /\ reta \in Retas
  /\ placed = [t \in Tuples |-> NotSeen]

\* distribute() on a frame of flow t
Distribute(t) ==
  /\ placed' = [placed EXCEPT ![t] = [hash |-> CalcHash(t),
                                      queue |-> QueueOf(reta, CalcHash(t))]]
  /\ UNCHANGED reta

\* updateReta: flows are placed anew under the new table
UpdateReta(r) ==
  /\ reta' = r
  /\ placed' = [t \in Tuples |-> NotSeen]

Next ==
  \/ \E t \in Tuples : Distribute(t)
  \/ \E r \in Retas : UpdateReta(r)

Spec == Init /\ [][Next]_vars

-----------------------------------------------------------------------------
(* Properties *)

Seen(t) == placed[t] # NotSeen

\* With a symmetric hash both directions of a connection get the same hash
\* and, under one table, meet in the same queue.
DirectionsMeet ==
  Symmetry = "SYMMETRIC" =>
    \A t \in Tuples :
      Seen(t) /\ Seen(Reversed(t)) => placed[t] = placed[Reversed(t)]

=============================================================================
