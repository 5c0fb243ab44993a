----------------------------- MODULE MCClassify -----------------------------
(* Frames around every boundary of the parser and of the checks, frames of *)
(* connections between few hosts, hashed by the software hashes at two bits*)
(* per byte, and a probe of these hashes on every key and input.           *)
EXTENDS Classify, HashCalls, TLC

ASSUME ByteWidth == ByteBase = 2^ByteBits

-----------------------------------------------------------------------------
(* Frames *)

Plain == [size |-> 0, dst |-> "own", tagged |-> FALSE, vid |-> 0,
          type |-> "other", version |-> 0, ihl |-> 0, proto |-> "other",
          totLen |-> 0, sums |-> TRUE, hln |-> 0, pln |-> 0,
          hosts |-> <<27, 198>>, ports |-> <<1, 14>>]

\* The sizes at which some header or limit just fits, and one less
Fits == {14, 18, 22, 26, 34, 38, 42, 46, 54, 58, 60, 74, 78, 114, 118}
Sizes == Fits \cup { n - 1 : n \in Fits } \cup {119}

Outer == { [Plain EXCEPT !.size = s, !.tagged = t[1], !.vid = t[2]] :
             s \in Sizes, t \in {<<FALSE, 0>>, <<TRUE, 5>>, <<TRUE, 6>>} }

Whole == { f \in Outer : f.size >= 33 /\ f.vid # 6 }

\* Total length as far as the frame's end, one more, and below the header
Ipv4 == { [f EXCEPT !.type = "ip", !.version = 4, !.ihl = h, !.proto = p,
                    !.totLen = l, !.sums = b] :
            f \in Whole, h \in {4, 5, 15}, p \in {"tcp", "udp", "icmp"},
            l \in {19, 46, 100}, b \in BOOLEAN }

Ipv6 == { [f EXCEPT !.type = "ip6", !.version = 6, !.proto = p, !.dst = d] :
            f \in Whole, p \in {"tcp", "icmp", "other"}, d \in {"own", "group", "other"} }

Arp == { [f EXCEPT !.type = "arp", !.hln = h, !.pln = 4] :
           f \in Outer, h \in {0, 6, 16} }

\* The version field contradicts the EtherType
Wrong == { [f EXCEPT !.type = t, !.version = 5] : f \in Outer, t \in {"ip", "ip6"} }

\* One direction of a TCP connection is tagged and carries IP options
Tcp(h, p) == { [Plain EXCEPT !.size = 100, !.type = "ip", !.version = 4, !.ihl = i, !.proto = "tcp",
                             !.tagged = i > 5, !.vid = 5, !.totLen = 80, !.hosts = h, !.ports = p] :
                 i \in {5, 15} }

Udp6(h, p) == [Plain EXCEPT !.size = 100, !.type = "ip6", !.version = 6, !.proto = "udp",
                            !.hosts = h, !.ports = p]

\* Two hosts, a host that talks to itself, and frames without ports
MCFlowFrames ==
  Tcp(<<27, 198>>, <<1, 14>>) \cup Tcp(<<198, 27>>, <<14, 1>>) \cup Tcp(<<27, 27>>, <<1, 14>>)
  \cup Tcp(<<27, 27>>, <<14, 1>>)
  \cup {Udp6(<<27, 3000>>, <<3, 9>>), Udp6(<<3000, 27>>, <<9, 3>>)}
  \cup { [f EXCEPT !.proto = "icmp"] : f \in Tcp(<<27, 198>>, <<1, 14>>) }

MCFrames == Outer \cup Ipv4 \cup Ipv6 \cup Arp \cup Wrong \cup MCFlowFrames

-----------------------------------------------------------------------------
(* Flows *)

\* The flows are hashed to words of four bytes, as in the code.
Wide == INSTANCE SoftHash WITH WordBytes <- 4, KeyBytes <- 40, Polynomial <- {2, 4, 5, 7}

MCHash(hf, k, input) == Wide!SoftwareHash(hf, k, input)

Flow(v, h, p) == [version |-> v, saddr |-> h[1], daddr |-> h[2], sport |-> p[1], dport |-> p[2]]

MCTuples ==
  LET oneWay == {Flow(4, <<27, 198>>, <<1, 14>>), Flow(4, <<27, 27>>, <<1, 14>>),
                 Flow(6, <<27, 3000>>, <<3, 9>>), Flow(4, <<27, 198>>, <<0, 0>>)}
  IN  oneWay \cup {Reversed(t) : t \in oneWay}

MCRetas == {<<>>, <<0, 1>>, <<1, 0, 2, 3>>}

MCKey == [i \in 1..40 |-> (7 * i + i * i) % 4]

-----------------------------------------------------------------------------
(* A behaviour is about boundaries, about flows, or about the hashes. *)

NoKey == [i \in 1..KeyBytes |-> 0]

Probing == ~enabled /\ pc = "idle" /\ parser = Empty

MCInit == /\ ClassifyInit
          /\ enabled \/ reta = <<>>
          /\ HashInit
          /\ key = NoKey \/ Probing

Probe == Probing /\ HashNext /\ UNCHANGED classifyVars

Receive == key = NoKey /\ data = <<>> /\ ClassifyNext /\ UNCHANGED hashVars

MCNext == Probe \/ Receive

MCSpec == MCInit /\ [][MCNext]_<<classifyVars, hashVars>>

=============================================================================
