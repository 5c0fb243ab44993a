--------------------------- MODULE ClassifyProofs ---------------------------
(***************************************************************************)
(* poll() on a received frame, for every set of frames, configuration,     *)
(* hash function, table and set of flows: the parser and the checks stay   *)
(* within the frame, show and accept what they should, and symmetric RSS   *)
(* keeps the two directions of a connection together.                      *)
(***************************************************************************)
EXTENDS Classify, SequenceTheorems, TLAPS

-----------------------------------------------------------------------------
(* The parser and the checks. *)

ParserType ==
  [l1 : {"None", "Eth", "Vlan"}, vlanId : Nat, l2 : {"None", "Ipv4", "Ipv6", "Arp", "Unknown"},
   l3 : {"None", "tcp", "udp", "icmp", "Unknown"}, l2Offset : Nat, ihl : Nat, totLen : Nat,
   arpAddresses : BOOLEAN, hosts : Nat \X Nat, ports : Nat \X Nat]

\* Nothing of frame f behind the Ethernet header is in parser p yet.
Bare(p) == p.l2 = "None" /\ p.l3 = "None" /\ ~p.arpAddresses

\* The Ethernet header and its tag are.
Tagged(f, p) == /\ p.l1 = (IF f.tagged THEN "Vlan" ELSE "Eth")
                /\ f.tagged => p.vlanId = f.vid
                /\ p.l2Offset = Behind(f) /\ f.size >= Behind(f)

\* And the IP header, which has the length it says.
StoredIp(f, p) == /\ f.type \in {"ip", "ip6"} /\ WholeL2(f)
                  /\ p.l2 = (IF f.type = "ip" THEN "Ipv4" ELSE "Ipv6") /\ p.hosts = f.hosts
                  /\ f.type = "ip" => p.ihl = f.ihl /\ p.totLen = f.totLen
                  /\ ~p.arpAddresses

\* And the L4 header.
StoredL4(f, p) == /\ WholeL4(f)
                  /\ p.l3 = (IF f.proto = "other" THEN "Unknown" ELSE f.proto)
                  /\ f.proto \in {"tcp", "udp"} => p.ports = f.ports

\* Or an ARP header.
StoredArp(f, p) == /\ f.type = "arp" /\ WholeL2(f)
                   /\ p.l2 = "Arp" /\ p.l3 = "None"
                   /\ p.arpAddresses <=> f.hln = 6 /\ f.pln = 4

\* What a parser p shows of frame f when it is done: as in ShowsThisFrame.
Tuple(p) ==
  LET hosts == IF p.l2 \in {"Ipv4", "Ipv6"} THEN p.hosts ELSE <<0, 0>>
      ports == IF p.l3 \in {"tcp", "udp"} THEN p.ports ELSE <<0, 0>>
  IN  [version |-> CASE p.l2 = "Ipv4" -> 4 [] p.l2 = "Ipv6" -> 6 [] OTHER -> 0,
       saddr |-> hosts[1], daddr |-> hosts[2], sport |-> ports[1], dport |-> ports[2]]

Shows(f, p) ==
  /\ p.l1 = (IF f.size < EthHdr THEN "None"
             ELSE IF f.tagged /\ f.size >= Behind(f) THEN "Vlan" ELSE "Eth")
  /\ p.l1 = "Vlan" => p.vlanId = f.vid
  /\ p.l2 \in {"Ipv4", "Ipv6", "Arp"} <=> WholeL2(f)
  /\ p.l3 # "None" <=> WholeL2(f) /\ WholeL4(f) /\ f.type # "arp"
  /\ p.l3 \notin {"None", "Unknown"} => p.l3 = f.proto
  /\ p.l3 \in {"tcp", "udp", "icmp", "Unknown"} =>
       Tuple(p) = [version |-> Ip[f.type].version,
                   saddr |-> f.hosts[1], daddr |-> f.hosts[2],
                   sport |-> IF f.proto \in {"tcp", "udp"} THEN f.ports[1] ELSE 0,
                   dport |-> IF f.proto \in {"tcp", "udp"} THEN f.ports[2] ELSE 0]
  /\ p.arpAddresses <=> WholeL2(f) /\ f.type = "arp" /\ f.hln = 6 /\ f.pln = 4

\* What the parser holds at step s.
Holding(s, f, p, v) ==
  /\ s = "tag" => Bare(p) /\ p.l1 = "Eth" /\ f.size >= EthHdr
  /\ s \in {"ip", "ip6", "arp", "other"} => Bare(p) /\ Tagged(f, p) /\ s = f.type
  /\ s = "l4" => Tagged(f, p) /\ StoredIp(f, p) /\ p.l3 = "None" /\ (f.type = "ip" => f.ihl * 4 >= IpHdr)
  /\ s = "validate" => Tagged(f, p) /\ ((StoredIp(f, p) /\ StoredL4(f, p)) \/ StoredArp(f, p))
  /\ s = "done" => Shows(f, p) /\ (v = "accepted" <=> WellFormed(f))

Steps == {"idle", "tag", "ip", "ip6", "arp", "other", "l4", "validate", "done"}

ParserInv ==
  /\ pc \in Steps /\ parser \in ParserType /\ reach \in Nat
  /\ frame \in (IF pc = "idle" THEN {NoFrame} ELSE Frames)
  /\ pc # "idle" => reach <= frame.size /\ Holding(pc, frame, parser, verdict)

\* It implies the properties.
LEMMA ParserInvImplies == ParserInv => ReadsInBounds /\ ShowsThisFrame /\ AcceptsWellFormed
  <1> SUFFICES ASSUME ParserInv PROVE ReadsInBounds /\ ShowsThisFrame /\ AcceptsWellFormed
    OBVIOUS
  <1>1. ReadsInBounds
    BY DEF ParserInv, ReadsInBounds
  <1>2. Received => Shows(frame, parser) /\ (verdict = "accepted" <=> WellFormed(frame))
    BY DEF ParserInv, Received, Holding
  <1>3. Get5Tuple = Tuple(parser)
    BY DEF Get5Tuple, Tuple, Hosts, Ports
  <1>4. ShowsThisFrame
    BY <1>2, <1>3 DEF ShowsThisFrame, Shows, VlanId
  <1> QED
    BY <1>1, <1>2, <1>4 DEF AcceptsWellFormed

\* The fields of a frame.
LEMMA FrameFields ==
  ASSUME NEW f \in Frames
  PROVE  /\ f.size \in Nat /\ f.vid \in Nat /\ f.version \in Nat /\ f.ihl \in Nat /\ f.totLen \in Nat
         /\ f.hln \in Nat /\ f.pln \in Nat /\ f.tagged \in BOOLEAN /\ f.sums \in BOOLEAN
         /\ f.type \in {"ip", "ip6", "arp", "other"} /\ f.proto \in {"tcp", "udp", "icmp", "other"}
         /\ f.hosts \in Nat \X Nat /\ f.ports \in Nat \X Nat
         /\ f.dst \in {"own", "group", "other"}
  <1>1. f \in FrameType
    BY ParserAssumption
  <1> QED
    BY <1>1 DEF FrameType

\* The fields of the parser.
LEMMA ParserFields ==
  ASSUME NEW p \in ParserType
  PROVE  /\ p.l1 \in {"None", "Eth", "Vlan"} /\ p.vlanId \in Nat
         /\ p.l2 \in {"None", "Ipv4", "Ipv6", "Arp", "Unknown"}
         /\ p.l3 \in {"None", "tcp", "udp", "icmp", "Unknown"}
         /\ p.l2Offset \in Nat /\ p.ihl \in Nat /\ p.totLen \in Nat
         /\ p.arpAddresses \in BOOLEAN /\ p.hosts \in Nat \X Nat /\ p.ports \in Nat \X Nat
  BY DEF ParserType

\* Load() within the frame stays within it.
LEMMA LoadInside ==
  ASSUME NEW o \in Nat, NEW n \in Nat, NEW s \in Nat, reach \in Nat, reach <= s, o + n <= s, Load(o, n)
  PROVE  reach' \in Nat /\ reach' <= s
  <1>1. PICK r \in Nat, m \in Nat : r = reach /\ m = o + n
    OBVIOUS
  <1>2. reach' = Max({r, m})
    BY <1>1 DEF Load
  <1>3. Max({r, m}) = IF r >= m THEN r ELSE m
    BY DEF Max
  <1> QED
    BY <1>1, <1>2, <1>3

\* A frame handed over to a parser that forgets the last one.
LEMMA EmptyParser == /\ Empty \in ParserType /\ [Empty EXCEPT !.l1 = "Eth"] \in ParserType
                     /\ Empty.l1 = "None" /\ Empty.l2 = "None" /\ Empty.l3 = "None" /\ Empty.vlanId = 0
                     /\ ~Empty.arpAddresses
  BY DEF Empty, ParserType

\* A frame of which no L2 header was stored is not shown and not accepted.
LEMMA CutShort ==
  ASSUME NEW f \in Frames, NEW p \in ParserType, ~WholeL2(f),
         p.l2 \in {"None", "Unknown"}, p.l3 = "None", ~p.arpAddresses,
         p.l1 = "Vlan" => p.vlanId = f.vid,
         p.l1 = (IF f.size < EthHdr THEN "None"
                 ELSE IF f.tagged /\ f.size >= Behind(f) THEN "Vlan" ELSE "Eth")
  PROVE  Shows(f, p) /\ ~WellFormed(f)
  BY DEF Shows, WellFormed

\* A new frame.
LEMMA ParseStep ==
  ASSUME ParserInv, NEW f \in Frames, Parse(f)
  PROVE  ParserInv'
  <1>1. f.size \in Nat /\ frame' = f
    BY FrameFields DEF Parse
  <1>2. CASE f.size < EthHdr
    <2>1. pc' = "done" /\ verdict' = "ParseEthernetTooShort" /\ parser' = Empty /\ reach' = 0
      BY <1>1, <1>2 DEF Parse, Reset, EthHdr
    <2>2. ~WholeL2(f)
      BY <1>1, <1>2, FrameFields DEF WholeL2, Behind, EthHdr, VlanTag
    <2>3. Shows(f, Empty) /\ ~WellFormed(f)
      BY <1>2, <2>2, EmptyParser, CutShort
    <2>4. Holding("done", f, Empty, "ParseEthernetTooShort")
      BY <2>3 DEF Holding
    <2> QED
      BY <1>1, <2>1, <2>4, EmptyParser DEF ParserInv, Steps
  <1>3. CASE f.size >= EthHdr
    <2> DEFINE p == [Empty EXCEPT !.l1 = "Eth"]
    <2>1. pc' = "tag" /\ parser' = p /\ reach' = EthHdr
      BY <1>1, <1>3 DEF Parse, Reset, EthHdr
    <2>2. p \in ParserType /\ p.l1 = "Eth" /\ p.l2 = "None" /\ p.l3 = "None" /\ ~p.arpAddresses
      BY DEF Empty, ParserType
    <2> HIDE DEF p
    <2>3. Holding("tag", f, p, verdict')
      BY <1>3, <2>2 DEF Holding, Bare
    <2> QED
      BY <1>1, <1>3, <2>1, <2>2, <2>3 DEF ParserInv, Steps, EthHdr
  <1> QED
    BY <1>1, <1>2, <1>3 DEF EthHdr

\* The frame and the parser in the middle of parse().
LEMMA Underway ==
  ASSUME ParserInv, pc # "idle"
  PROVE  /\ frame \in Frames /\ parser \in ParserType /\ reach \in Nat /\ reach <= frame.size
         /\ Holding(pc, frame, parser, verdict)
  BY DEF ParserInv

\* The next state, from what is stored.
LEMMA Onward ==
  ASSUME ParserInv, pc # "idle", NEW s \in Steps \ {"idle"}, NEW p \in ParserType, NEW v,
         pc' = s, parser' = p, frame' = frame, verdict' = v,
         reach' \in Nat, reach' <= frame.size, Holding(s, frame, p, v)
  PROVE  ParserInv'
  BY DEF ParserInv, Steps

\* The VLAN tag.
LEMMA VlanStep ==
  ASSUME ParserInv, ParseVlan
  PROVE  ParserInv'
  <1>1. PICK f \in Frames, p \in ParserType : f = frame /\ p = parser
    BY Underway DEF ParseVlan
  <1>2. /\ pc = "tag" /\ Bare(p) /\ p.l1 = "Eth" /\ f.size >= EthHdr /\ reach \in Nat /\ reach <= f.size
    BY <1>1, Underway DEF ParseVlan, Holding
  <1>3. f.size \in Nat /\ f.vid \in Nat /\ f.type \in {"ip", "ip6", "arp", "other"}
    BY FrameFields
  <1>4. CASE ~f.tagged
    <2> DEFINE p1 == [p EXCEPT !.l2Offset = EthHdr]
    <2>1. pc' = f.type /\ parser' = p1 /\ UNCHANGED <<frame, verdict, reach>>
      BY <1>1, <1>4 DEF ParseVlan, Go
    <2>2. p1 \in ParserType /\ p1.l1 = "Eth" /\ p1.l2 = p.l2 /\ p1.l3 = p.l3
          /\ p1.l2Offset = EthHdr
      BY <1>2 DEF ParserType, EthHdr
    <2>3. p1.arpAddresses = p.arpAddresses
      BY DEF ParserType
    <2> HIDE DEF p1
    <2>4. Holding(f.type, f, p1, verdict)
      BY <1>2, <1>3, <1>4, <2>2, <2>3 DEF Holding, Bare, Tagged, Behind, EthHdr
    <2> QED
      BY <1>1, <1>2, <1>3, <2>1, <2>2, <2>4, Onward DEF Steps
  <1>5. CASE f.tagged /\ ~(f.size >= EthHdr + VlanTag)
    <2>1. pc' = "done" /\ parser' = p /\ verdict' = "ParseTruncated" /\ UNCHANGED <<frame, reach>>
      BY <1>1, <1>5 DEF ParseVlan, Finish, Holds
    <2>2. ~WholeL2(f)
      BY <1>3, <1>5 DEF WholeL2, Behind, EthHdr, VlanTag
    <2>3. Shows(f, p) /\ ~WellFormed(f)
      <3>1. p.l1 = (IF f.size < EthHdr THEN "None"
                    ELSE IF f.tagged /\ f.size >= Behind(f) THEN "Vlan" ELSE "Eth")
        BY <1>2, <1>3, <1>5 DEF Behind, EthHdr, VlanTag
      <3>2. p.l2 = "None" /\ p.l3 = "None" /\ ~p.arpAddresses /\ p.l1 # "Vlan"
        BY <1>2 DEF Bare
      <3> QED
        BY <2>2, <3>1, <3>2, CutShort
    <2>4. Holding("done", f, p, "ParseTruncated")
      BY <2>3 DEF Holding
    <2> QED
      BY <1>1, <1>2, <2>1, <2>4, Onward DEF Steps
  <1>6. CASE f.tagged /\ f.size >= EthHdr + VlanTag
    <2>1. PICK o \in Nat : o = EthHdr + VlanTag
      BY DEF EthHdr, VlanTag
    <2> DEFINE p1 == [p EXCEPT !.l1 = "Vlan", !.vlanId = f.vid, !.l2Offset = o]
    <2>2. /\ pc' = f.type /\ parser' = p1 /\ UNCHANGED <<frame, verdict>>
          /\ Load(EthHdr, VlanTag)
      BY <1>1, <1>6, <2>1 DEF ParseVlan, Go, Holds
    <2>3. p1 \in ParserType /\ p1.l1 = "Vlan" /\ p1.vlanId = f.vid /\ p1.l2 = p.l2 /\ p1.l3 = p.l3
          /\ p1.l2Offset = o
      BY <1>3 DEF ParserType
    <2>4. p1.arpAddresses = p.arpAddresses
      BY DEF ParserType
    <2> HIDE DEF p1
    <2>5. Holding(f.type, f, p1, verdict)
      BY <1>2, <1>3, <1>6, <2>1, <2>3, <2>4 DEF Holding, Bare, Tagged, Behind
    <2>6. reach' \in Nat /\ reach' <= f.size
      BY <1>2, <1>3, <1>6, <2>2, LoadInside DEF EthHdr, VlanTag
    <2> QED
      BY <1>1, <1>2, <1>3, <2>2, <2>3, <2>5, <2>6, Onward DEF Steps
  <1> QED
    BY <1>4, <1>5, <1>6

\* What the tag says is what Shows asks of it.
LEMMA TaggedShows ==
  ASSUME NEW f \in Frames, NEW p \in ParserType, Tagged(f, p)
  PROVE  /\ p.l1 = (IF f.size < EthHdr THEN "None"
                    ELSE IF f.tagged /\ f.size >= Behind(f) THEN "Vlan" ELSE "Eth")
         /\ p.l1 = "Vlan" => p.vlanId = f.vid
  <1>1. f.size \in Nat
    BY FrameFields
  <1> QED
    BY <1>1 DEF Tagged, Behind, EthHdr, VlanTag

\* An EtherType that is not known.
LEMMA UnsupportedStep ==
  ASSUME ParserInv, ParseUnsupported
  PROVE  ParserInv'
  <1>1. PICK f \in Frames, p \in ParserType : f = frame /\ p = parser
    BY Underway DEF ParseUnsupported
  <1>2. pc = "other" /\ Bare(p) /\ Tagged(f, p) /\ f.type = "other" /\ reach \in Nat /\ reach <= f.size
    BY <1>1, Underway DEF ParseUnsupported, Holding
  <1> DEFINE p1 == [p EXCEPT !.l2 = "Unknown"]
  <1>3. pc' = "done" /\ parser' = p1 /\ verdict' = "ParseUnsupportedEtherType" /\ UNCHANGED <<frame, reach>>
    BY <1>1 DEF ParseUnsupported, Finish
  <1>4. p1 \in ParserType /\ p1.l1 = p.l1 /\ p1.vlanId = p.vlanId /\ p1.l2 = "Unknown" /\ p1.l3 = p.l3
    BY DEF ParserType
  <1>5. p1.arpAddresses = p.arpAddresses
    BY DEF ParserType
  <1> HIDE DEF p1
  <1>6. ~WholeL2(f)
    BY <1>2 DEF WholeL2
  <1>7. Shows(f, p1) /\ ~WellFormed(f)
    BY <1>2, <1>4, <1>5, <1>6, TaggedShows, CutShort DEF Bare
  <1>8. Holding("done", f, p1, "ParseUnsupportedEtherType")
    BY <1>7 DEF Holding
  <1> QED
    BY <1>1, <1>2, <1>3, <1>4, <1>8, Onward DEF Steps

\* The IP header is missing or wrong.
LEMMA BadIp ==
  ASSUME ParserInv, pc \in {"ip", "ip6", "arp"}, NEW v, v # "accepted", ~WholeL2(frame),
         Finish(v, parser), reach' \in Nat, reach' <= frame.size
  PROVE  ParserInv'
  <1>1. PICK f \in Frames, p \in ParserType : f = frame /\ p = parser
    BY Underway
  <1>2. Bare(p) /\ Tagged(f, p)
    BY <1>1, Underway DEF Holding
  <1>3. pc' = "done" /\ parser' = p /\ verdict' = v /\ frame' = frame
    BY <1>1 DEF Finish
  <1>4. Shows(f, p) /\ ~WellFormed(f)
    BY <1>1, <1>2, TaggedShows, CutShort DEF Bare
  <1>5. Holding("done", f, p, v)
    BY <1>4 DEF Holding
  <1> QED
    BY <1>1, <1>3, <1>5, Onward DEF Steps

\* An IPv4 header that says it is shorter than it can be.
LEMMA ShortIhl ==
  ASSUME NEW f \in Frames, NEW p \in ParserType, Tagged(f, p), StoredIp(f, p), p.l3 = "None",
         f.type = "ip", ~(f.ihl * 4 >= IpHdr)
  PROVE  Shows(f, p) /\ ~WellFormed(f)
  <1>1. ~WholeL4(f)
    BY DEF WholeL4
  <1>2. WholeL2(f) /\ p.l2 = "Ipv4" /\ ~p.arpAddresses
    BY DEF StoredIp
  <1> QED
    BY <1>1, <1>2, TaggedShows DEF Shows, WellFormed

\* parseIpv4 and parseIpv6.
LEMMA IpStep ==
  ASSUME ParserInv, ParseIp
  PROVE  ParserInv'
  <1>1. pc \in {"ip", "ip6"}
    BY DEF ParseIp, Ip
  <1>2. PICK f \in Frames, p \in ParserType : f = frame /\ p = parser
    BY <1>1, Underway
  <1>3. Bare(p) /\ Tagged(f, p) /\ f.type = pc /\ reach \in Nat /\ reach <= f.size
    BY <1>1, <1>2, Underway DEF Holding
  <1>4. /\ f.size \in Nat /\ f.version \in Nat /\ f.ihl \in Nat /\ f.totLen \in Nat
        /\ f.hosts \in Nat \X Nat
    BY FrameFields
  <1>5. p.l2Offset = Behind(f) /\ Behind(f) \in Nat /\ f.size >= Behind(f)
    BY <1>3 DEF Tagged, Behind, EthHdr, VlanTag
  <1>6. PICK h \in Nat, n \in Nat, l \in {"Ipv4", "Ipv6"}, i \in Nat, t \in Nat :
           /\ h = Ip[pc].hdr /\ n = Ip[pc].version /\ l = Ip[pc].l2
           /\ h = (IF pc = "ip" THEN IpHdr ELSE 40) /\ n = (IF pc = "ip" THEN 4 ELSE 6)
           /\ l = (IF pc = "ip" THEN "Ipv4" ELSE "Ipv6")
           /\ i = (IF pc = "ip" THEN f.ihl ELSE 0) /\ t = (IF pc = "ip" THEN f.totLen ELSE 0)
    <2>1. CASE pc = "ip"
      BY <1>4, <2>1 DEF Ip, IpHdr
    <2>2. CASE pc = "ip6"
      BY <1>4, <2>2 DEF Ip, IpHdr
    <2> QED
      BY <1>1, <2>1, <2>2
  <1> DEFINE p1 == [p EXCEPT !.l2 = l, !.hosts = f.hosts, !.ihl = i, !.totLen = t]
  <1>7. /\ p1 \in ParserType /\ p1.l1 = p.l1 /\ p1.vlanId = p.vlanId /\ p1.l2 = l /\ p1.l3 = p.l3
        /\ p1.l2Offset = p.l2Offset /\ p1.hosts = f.hosts /\ p1.ihl = i /\ p1.totLen = t
    BY <1>4 DEF ParserType
  <1>8. p1.arpAddresses = p.arpAddresses
    BY DEF ParserType
  <1>9. \/ ~(f.size >= Behind(f) + h) /\ Finish("ParseIpTooShort", parser) /\ UNCHANGED reach
        \/ /\ f.size >= Behind(f) + h /\ Load(Behind(f), h)
           /\ \/ f.version # n /\ Finish("ParseInvalidIpVersion", parser)
              \/ f.version = n /\ pc = "ip" /\ f.ihl * 4 < IpHdr /\ Finish("ParseInvalidIpv4HeaderLength", p1)
              \/ f.version = n /\ ~(pc = "ip" /\ f.ihl * 4 < IpHdr) /\ Go("l4", p1)
    BY <1>2, <1>5, <1>6 DEF ParseIp, Holds
  <1> HIDE DEF p1
  <1>10. WholeL2(f) <=> f.size >= Behind(f) + h /\ f.version = n
    BY <1>1, <1>3, <1>4, <1>5, <1>6 DEF WholeL2, Ip, IpHdr
  <1>11. CASE ~(f.size >= Behind(f) + h) /\ Finish("ParseIpTooShort", parser) /\ UNCHANGED reach
    BY <1>1, <1>2, <1>3, <1>10, <1>11, BadIp
  <1>12. ASSUME f.size >= Behind(f) + h, Load(Behind(f), h) PROVE reach' \in Nat /\ reach' <= f.size
    BY <1>3, <1>4, <1>5, <1>12, LoadInside
  <1>13. CASE f.size >= Behind(f) + h /\ Load(Behind(f), h) /\ f.version # n
              /\ Finish("ParseInvalidIpVersion", parser)
    BY <1>1, <1>2, <1>10, <1>12, <1>13, BadIp
  <1>14. Tagged(f, p1)
    BY <1>3, <1>7 DEF Tagged
  <1>15. ASSUME WholeL2(f) PROVE StoredIp(f, p1) /\ p1.l3 = "None"
    BY <1>1, <1>3, <1>6, <1>7, <1>8, <1>15 DEF StoredIp, Bare
  <1>16. CASE f.size >= Behind(f) + h /\ Load(Behind(f), h) /\ f.version = n /\ pc = "ip"
              /\ f.ihl * 4 < IpHdr /\ Finish("ParseInvalidIpv4HeaderLength", p1)
    <2>1. ~(f.ihl * 4 >= IpHdr)
      BY <1>4, <1>16 DEF IpHdr
    <2>2. Shows(f, p1) /\ ~WellFormed(f)
      BY <1>3, <1>7, <1>10, <1>14, <1>15, <1>16, <2>1, ShortIhl
    <2>3. Holding("done", f, p1, "ParseInvalidIpv4HeaderLength")
      BY <2>2 DEF Holding
    <2> QED
      BY <1>1, <1>2, <1>7, <1>12, <1>16, <2>3, Onward DEF Steps, Finish
  <1>17. CASE f.size >= Behind(f) + h /\ Load(Behind(f), h) /\ f.version = n
              /\ ~(pc = "ip" /\ f.ihl * 4 < IpHdr) /\ Go("l4", p1)
    <2>1. f.type = "ip" => f.ihl * 4 >= IpHdr
      BY <1>3, <1>4, <1>17 DEF IpHdr
    <2>2. Holding("l4", f, p1, verdict)
      BY <1>10, <1>14, <1>15, <1>17, <2>1 DEF Holding
    <2> QED
      BY <1>1, <1>2, <1>7, <1>12, <1>17, <2>2, Onward DEF Steps, Go
  <1> QED
    BY <1>9, <1>11, <1>13, <1>16, <1>17

\* Everything a frame with an IP header is asked for is shown.
LEMMA IpShows ==
  ASSUME NEW f \in Frames, NEW p \in ParserType, Tagged(f, p), StoredIp(f, p), StoredL4(f, p)
  PROVE  Shows(f, p)
  <1>1. f.proto \in {"tcp", "udp", "icmp", "other"}
    BY FrameFields
  <1>2. /\ f.type \in {"ip", "ip6"} /\ WholeL2(f) /\ WholeL4(f) /\ p.hosts = f.hosts /\ ~p.arpAddresses
        /\ p.l2 = (IF f.type = "ip" THEN "Ipv4" ELSE "Ipv6")
        /\ p.l3 = (IF f.proto = "other" THEN "Unknown" ELSE f.proto)
        /\ f.proto \in {"tcp", "udp"} => p.ports = f.ports
    BY DEF StoredIp, StoredL4
  <1>3. Ip[f.type].version = (IF f.type = "ip" THEN 4 ELSE 6)
    <2>1. Ip["ip"].version = 4 /\ Ip["ip6"].version = 6
      BY DEF Ip
    <2> QED
      BY <1>2, <2>1
  <1>4. Tuple(p) = [version |-> Ip[f.type].version,
                    saddr |-> f.hosts[1], daddr |-> f.hosts[2],
                    sport |-> IF f.proto \in {"tcp", "udp"} THEN f.ports[1] ELSE 0,
                    dport |-> IF f.proto \in {"tcp", "udp"} THEN f.ports[2] ELSE 0]
    <2>1. CASE f.proto \in {"tcp", "udp"}
      BY <1>2, <1>3, <2>1 DEF Tuple
    <2>2. CASE f.proto \in {"icmp", "other"}
      BY <1>2, <1>3, <2>2 DEF Tuple
    <2> QED
      BY <1>1, <2>1, <2>2
  <1>5. p.l3 # "None" /\ (p.l3 \notin {"None", "Unknown"} => p.l3 = f.proto)
    BY <1>1, <1>2
  <1>6. p.l2 \in {"Ipv4", "Ipv6", "Arp"} /\ f.type # "arp"
    BY <1>2
  <1> QED
    BY <1>2, <1>4, <1>5, <1>6, TaggedShows DEF Shows

\* The ARP branch shows fields of this frame only.
LEMMA ArpShows ==
  ASSUME NEW f \in Frames, NEW p \in ParserType, Tagged(f, p), StoredArp(f, p)
  PROVE  Shows(f, p)
  BY TaggedShows DEF Shows, StoredArp

\* The switch on the protocol.
LEMMA L4Step ==
  ASSUME ParserInv, ParseL4
  PROVE  ParserInv'
  <1>1. PICK f \in Frames, p \in ParserType : f = frame /\ p = parser
    BY Underway DEF ParseL4
  <1>2. /\ pc = "l4" /\ Tagged(f, p) /\ StoredIp(f, p) /\ p.l3 = "None"
        /\ f.type = "ip" => f.ihl * 4 >= IpHdr
        /\ reach \in Nat /\ reach <= f.size
    BY <1>1, Underway DEF ParseL4, Holding
  <1>3. /\ f.size \in Nat /\ f.ihl \in Nat /\ f.proto \in {"tcp", "udp", "icmp", "other"}
        /\ f.ports \in Nat \X Nat
    BY FrameFields
  <1>4. PICK o \in Nat : /\ o = L4Offset
                         /\ o = Behind(f) + (IF f.type = "ip" THEN f.ihl * 4 ELSE Ip.ip6.hdr)
    <2>1. Behind(f) \in Nat /\ Ip.ip6.hdr = 40
      BY DEF Behind, EthHdr, VlanTag, Ip
    <2>2. /\ p.l2Offset = Behind(f) /\ (p.l2 = "Ipv4" <=> f.type = "ip")
          /\ f.type = "ip" => p.ihl = f.ihl
      BY <1>2 DEF Tagged, StoredIp
    <2>3. L4Offset = Behind(f) + (IF f.type = "ip" THEN f.ihl * 4 ELSE Ip.ip6.hdr)
      BY <1>1, <2>2 DEF L4Offset
    <2>4. L4Offset \in Nat
      BY <1>3, <2>1, <2>3
    <2> QED
      BY <2>3, <2>4
  <1>5. CASE f.proto = "other"
    <2> DEFINE p1 == [p EXCEPT !.l3 = "Unknown"]
    <2>1. pc' = "validate" /\ parser' = p1 /\ UNCHANGED <<frame, verdict, reach>>
      BY <1>1, <1>5 DEF ParseL4, Go
    <2>2. /\ p1 \in ParserType /\ p1.l1 = p.l1 /\ p1.vlanId = p.vlanId /\ p1.l2 = p.l2 /\ p1.l3 = "Unknown"
          /\ p1.l2Offset = p.l2Offset /\ p1.hosts = p.hosts /\ p1.ihl = p.ihl /\ p1.totLen = p.totLen
      BY DEF ParserType
    <2>3. p1.arpAddresses = p.arpAddresses
      BY DEF ParserType
    <2> HIDE DEF p1
    <2>4. Tagged(f, p1) /\ StoredIp(f, p1)
      BY <1>2, <2>2, <2>3 DEF Tagged, StoredIp
    <2>5. StoredL4(f, p1)
      BY <1>2, <1>5, <2>2 DEF StoredL4, WholeL4
    <2>6. Holding("validate", f, p1, verdict)
      BY <2>4, <2>5 DEF Holding
    <2> QED
      BY <1>1, <1>2, <2>1, <2>2, <2>6, Onward DEF Steps
  <1>6. CASE f.proto # "other"
    <2>1. PICK h \in Nat : h = L4Hdr[f.proto]
      <3>1. L4Hdr["tcp"] = 20 /\ L4Hdr["udp"] = 8 /\ L4Hdr["icmp"] = 8
        BY DEF L4Hdr
      <3> QED
        BY <1>3, <1>6, <3>1
    <2>2. WholeL4(f) <=> f.size >= o + h
      BY <1>2, <1>3, <1>4, <1>6, <2>1 DEF WholeL4, StoredIp
    <2>3. CASE ~(f.size >= o + h)
      <3>1. pc' = "done" /\ parser' = p /\ verdict' = "ParseL4TooShort" /\ UNCHANGED <<frame, reach>>
        BY <1>1, <1>4, <1>6, <2>1, <2>3 DEF ParseL4, Finish, Holds
      <3>2. Shows(f, p) /\ ~WellFormed(f)
        <4>1. ~WholeL4(f) /\ WholeL2(f) /\ p.l2 \in {"Ipv4", "Ipv6"} /\ f.type # "arp" /\ ~p.arpAddresses
          BY <1>2, <2>2, <2>3 DEF StoredIp
        <4> QED
          BY <1>2, <4>1, TaggedShows DEF Shows, WellFormed
      <3>3. Holding("done", f, p, "ParseL4TooShort")
        BY <3>2 DEF Holding
      <3> QED
        BY <1>1, <1>2, <3>1, <3>3, Onward DEF Steps
    <2>4. CASE f.size >= o + h
      <3>1. PICK t \in Nat \X Nat : t = (IF f.proto = "icmp" THEN p.ports ELSE f.ports)
        BY <1>3, ParserFields
      <3> DEFINE p1 == [p EXCEPT !.l3 = f.proto, !.ports = t]
      <3>2. pc' = "validate" /\ parser' = p1 /\ UNCHANGED <<frame, verdict>> /\ Load(o, h)
        BY <1>1, <1>4, <1>6, <2>1, <2>4, <3>1 DEF ParseL4, Go, Holds
      <3>3. /\ p1 \in ParserType /\ p1.l1 = p.l1 /\ p1.vlanId = p.vlanId /\ p1.l2 = p.l2 /\ p1.l3 = f.proto
            /\ p1.l2Offset = p.l2Offset /\ p1.hosts = p.hosts /\ p1.ihl = p.ihl /\ p1.totLen = p.totLen
            /\ p1.ports = t
        BY <1>3, <1>6 DEF ParserType
      <3>4. p1.arpAddresses = p.arpAddresses
        BY DEF ParserType
      <3> HIDE DEF p1
      <3>5. Tagged(f, p1) /\ StoredIp(f, p1)
        BY <1>2, <3>3, <3>4 DEF Tagged, StoredIp
      <3>6. StoredL4(f, p1)
        BY <1>6, <2>2, <2>4, <3>1, <3>3 DEF StoredL4
      <3>7. Holding("validate", f, p1, verdict)
        BY <3>5, <3>6 DEF Holding
      <3>8. reach' \in Nat /\ reach' <= f.size
        BY <1>2, <1>3, <2>4, <3>2, LoadInside
      <3> QED
        BY <1>1, <1>2, <3>2, <3>3, <3>7, <3>8, Onward DEF Steps
    <2> QED
      BY <2>3, <2>4
  <1> QED
    BY <1>5, <1>6

\* parseArp.
LEMMA ArpStep ==
  ASSUME ParserInv, ParseArp
  PROVE  ParserInv'
  <1>1. PICK f \in Frames, p \in ParserType : f = frame /\ p = parser
    BY Underway DEF ParseArp
  <1>2. /\ pc = "arp" /\ Bare(p) /\ Tagged(f, p) /\ f.type = "arp" /\ reach \in Nat /\ reach <= f.size
    BY <1>1, Underway DEF ParseArp, Holding
  <1>3. f.size \in Nat /\ f.hln \in Nat /\ f.pln \in Nat
    BY FrameFields
  <1>4. p.l2Offset = Behind(f) /\ Behind(f) \in Nat /\ f.size >= Behind(f)
    BY <1>2 DEF Tagged, Behind, EthHdr, VlanTag
  <1>5. PICK n \in Nat : n = ArpLength /\ n = 8 + 2 * (f.hln + f.pln)
    BY <1>1, <1>3 DEF ArpLength, ArpHdr
  <1>6. WholeL2(f) <=> f.size >= Behind(f) + n
    BY <1>2, <1>3, <1>4, <1>5 DEF WholeL2, ArpHdr
  <1>7. CASE ~(f.size >= Behind(f) + 8)
    <2>1. Finish("ParseArpTooShort", parser) /\ UNCHANGED reach
      BY <1>1, <1>4, <1>7 DEF ParseArp, Holds, ArpHdr
    <2>2. ~WholeL2(f)
      BY <1>3, <1>4, <1>5, <1>6, <1>7
    <2> QED
      BY <1>1, <1>2, <2>1, <2>2, BadIp
  <1>8. CASE f.size >= Behind(f) + 8 /\ ~(f.size >= Behind(f) + n)
    <2>1. Finish("ParseInvalidArpHeaderLength", parser) /\ Load(Behind(f), 8)
      BY <1>1, <1>4, <1>5, <1>8 DEF ParseArp, Holds, ArpHdr
    <2>2. reach' \in Nat /\ reach' <= f.size
      BY <1>2, <1>3, <1>4, <1>8, <2>1, LoadInside
    <2> QED
      BY <1>1, <1>2, <1>6, <1>8, <2>1, <2>2, BadIp
  <1>9. CASE f.size >= Behind(f) + 8 /\ f.size >= Behind(f) + n
    <2>1. PICK k \in BOOLEAN, m \in Nat : /\ k = (f.hln = 6 /\ f.pln = 4)
                                          /\ m = ArpHdr + (IF f.hln = 6 /\ f.pln = 4 THEN 20 ELSE 0)
      <3>1. (f.hln = 6 /\ f.pln = 4) \in BOOLEAN
        OBVIOUS
      <3>2. ArpHdr + (IF f.hln = 6 /\ f.pln = 4 THEN 20 ELSE 0) \in Nat
        BY DEF ArpHdr
      <3> QED
        BY <3>1, <3>2, Zenon
    <2> DEFINE p1 == [p EXCEPT !.l2 = "Arp", !.arpAddresses = k]
    <2>2. /\ Load(Behind(f), m) /\ pc' = "validate" /\ parser' = p1 /\ UNCHANGED <<frame, verdict>>
      <3>1. Holds(parser.l2Offset, ArpHdr) /\ Holds(parser.l2Offset, ArpLength)
        BY <1>1, <1>4, <1>5, <1>9 DEF Holds, ArpHdr
      <3> QED
        BY <1>1, <1>4, <2>1, <3>1 DEF ParseArp, Go
    <2>3. /\ p1 \in ParserType /\ p1.l1 = p.l1 /\ p1.vlanId = p.vlanId /\ p1.l2 = "Arp" /\ p1.l3 = p.l3
          /\ p1.l2Offset = p.l2Offset
      BY DEF ParserType
    <2>4. p1.arpAddresses = k
      BY DEF ParserType
    <2> HIDE DEF p1
    <2>5. Tagged(f, p1)
      BY <1>2, <2>3 DEF Tagged
    <2>6. StoredArp(f, p1)
      BY <1>2, <1>6, <1>9, <2>1, <2>3, <2>4 DEF StoredArp, Bare
    <2>7. Holding("validate", f, p1, verdict)
      BY <2>5, <2>6 DEF Holding
    <2>8. reach' \in Nat /\ reach' <= f.size
      <3>1. Behind(f) + m <= f.size
        BY <1>3, <1>4, <1>5, <1>9, <2>1 DEF ArpHdr
      <3> QED
        BY <1>2, <1>3, <1>4, <2>1, <2>2, <3>1, LoadInside
    <2> QED
      BY <1>1, <1>2, <2>2, <2>3, <2>7, <2>8, Onward DEF Steps
  <1> QED
    BY <1>7, <1>8, <1>9

\* The checks pass exactly on a well-formed frame.
LEMMA VerdictIsRight ==
  ASSUME frame \in Frames, parser \in ParserType, Tagged(frame, parser),
         (StoredIp(frame, parser) /\ StoredL4(frame, parser)) \/ StoredArp(frame, parser)
  PROVE  Verdict = "accepted" <=> WellFormed(frame)
  <1>1. PICK f \in Frames, p \in ParserType : f = frame /\ p = parser
    OBVIOUS
  <1>2. /\ f.size \in Nat /\ f.vid \in Nat /\ f.ihl \in Nat /\ f.totLen \in Nat
        /\ f.type \in {"ip", "ip6", "arp", "other"}
    BY FrameFields
  <1>3. WholeL2(f) /\ WholeL4(f)
    BY <1>1 DEF StoredIp, StoredL4, StoredArp, WholeL4
  <1>4. /\ p.l2Offset = Behind(f) /\ Behind(f) \in Nat \ {0} /\ f.size >= Behind(f)
        /\ p.l1 = (IF f.tagged THEN "Vlan" ELSE "Eth") /\ (f.tagged => p.vlanId = f.vid)
    BY <1>1 DEF Tagged, Behind, EthHdr, VlanTag
  <1>5. MinFrameSize \in Nat /\ Mtu \in Nat
    BY ParserAssumption
  <1>6. L2HeaderBytes = Behind(f)
    BY <1>1, <1>4 DEF L2HeaderBytes
  <1>7. CheckFrameSize <=> f.size \in MinFrameSize .. (Behind(f) + Mtu)
    BY <1>1, <1>2, <1>4, <1>5, <1>6 DEF CheckFrameSize
  <1>8. CheckDstMac <=> Promiscuous \/ f.dst # "other"
    BY <1>1, <1>4 DEF CheckDstMac, HasEth
  <1>9. CheckVlanFilter <=> (f.tagged => VlanAllowList = {} \/ f.vid \in VlanAllowList)
    BY <1>1, <1>4 DEF CheckVlanFilter, VlanId
  <1>10. (p.l2 = "Ipv4" <=> f.type = "ip") /\ (f.type = "ip" => p.ihl = f.ihl /\ p.totLen = f.totLen)
    BY <1>1 DEF StoredIp, StoredArp
  <1>11. CheckIpTotalLength /\ CheckIpv4Checksum
           <=> (f.type = "ip" => f.totLen \in (f.ihl * 4) .. (f.size - Behind(f)) /\ f.sums)
    <2>1. CASE f.type = "ip"
      <3>1. f.ihl * 4 >= IpHdr
        BY <1>3, <2>1 DEF WholeL4
      <3>2. PICK x \in Nat : x = f.ihl * 4
        BY <1>2
      <3>3. CheckIpTotalLength <=> f.totLen \in x .. (f.size - Behind(f))
        BY <1>1, <1>2, <1>4, <1>10, <2>1, <3>1, <3>2 DEF CheckIpTotalLength, Holds
      <3>4. CheckIpv4Checksum <=> f.size >= Behind(f) + x /\ f.sums
        BY <1>1, <1>4, <1>10, <2>1, <3>1, <3>2 DEF CheckIpv4Checksum, ChecksumReadable, Holds
      <3>5. f.totLen \in x .. (f.size - Behind(f)) => f.size >= Behind(f) + x
        BY <1>2, <1>4, <3>2
      <3> QED
        BY <2>1, <3>2, <3>3, <3>4, <3>5
    <2>2. CASE f.type # "ip"
      BY <1>1, <1>10, <2>2 DEF CheckIpTotalLength, CheckIpv4Checksum
    <2> QED
      BY <2>1, <2>2
  <1>12. Verdict = "accepted" <=> /\ CheckFrameSize /\ CheckDstMac /\ CheckVlanFilter
                                  /\ CheckIpTotalLength /\ CheckIpv4Checksum
    BY DEF Verdict
  <1> QED
    BY <1>1, <1>3, <1>7, <1>8, <1>9, <1>11, <1>12 DEF WellFormed

\* validate().
LEMMA ValidateStep ==
  ASSUME ParserInv, Validate
  PROVE  ParserInv'
  <1>1. PICK f \in Frames, p \in ParserType : f = frame /\ p = parser
    BY Underway DEF Validate
  <1>2. /\ pc = "validate" /\ Tagged(f, p) /\ ((StoredIp(f, p) /\ StoredL4(f, p)) \/ StoredArp(f, p))
        /\ reach \in Nat /\ reach <= f.size
    BY <1>1, Underway DEF Validate, Holding
  <1>3. f.size \in Nat /\ p.ihl \in Nat /\ p.l2Offset \in Nat
    BY FrameFields, ParserFields
  <1>4. pc' = "done" /\ verdict' = Verdict /\ parser' = p /\ frame' = frame
    BY <1>1 DEF Validate, Finish
  <1>5. Shows(f, p) /\ (Verdict = "accepted" <=> WellFormed(f))
    BY <1>1, <1>2, IpShows, ArpShows, VerdictIsRight
  <1>6. PICK v : v = Verdict
    OBVIOUS
  <1>7. Holding("done", f, p, v)
    BY <1>5, <1>6 DEF Holding
  <1>8. reach' \in Nat /\ reach' <= f.size
    <2>1. PICK x \in Nat : x = p.ihl * 4
      BY <1>3
    <2>2. \/ reach' = reach
          \/ Load(p.l2Offset, x) /\ f.size >= p.l2Offset + x
      BY <1>1, <2>1 DEF Validate, ChecksumReadable, Holds
    <2> QED
      BY <1>2, <1>3, <2>1, <2>2, LoadInside
  <1> QED
    BY <1>1, <1>2, <1>4, <1>6, <1>7, <1>8, Onward DEF Steps

\* Between two frames.
LEMMA NextFrameStep ==
  ASSUME ParserInv, NextFrame
  PROVE  ParserInv'
  BY DEF ParserInv, NextFrame, Steps

\* One step of handling a frame, or none.
LEMMA ParserStep ==
  ASSUME ParserInv, [ClassifyNext]_classifyVars
  PROVE  ParserInv'
  <1>1. CASE Handle
    <2>1. ASSUME NEW f \in Arriving, Parse(f) PROVE ParserInv'
      BY <2>1, ParseStep, ClassifyAssumption DEF Arriving
    <2>2. CASE ParseSteps
      BY <2>2, VlanStep, UnsupportedStep, IpStep, L4Step, ArpStep, ValidateStep DEF ParseSteps
    <2> QED
      BY <1>1, <2>1, <2>2 DEF Handle
  <1>2. CASE DropFrame \/ DistributeFrame
    BY <1>2, NextFrameStep DEF DropFrame, DistributeFrame
  <1>3. CASE Update \/ UNCHANGED classifyVars
    <2>1. UNCHANGED parserVars
      BY <1>3 DEF Update, classifyVars
    <2> QED
      BY <2>1 DEF parserVars, ParserInv
  <1> QED
    BY <1>1, <1>2, <1>3 DEF ClassifyNext

\* The invariant of the parser holds in every state.
LEMMA ParserInvHolds == ClassifySpec => []ParserInv
  <1>1. ClassifyInit => ParserInv
    BY EmptyParser DEF ClassifyInit, ParserInit, ParserInv, Steps
  <1>2. ParserInv /\ [ClassifyNext]_classifyVars => ParserInv'
    BY ParserStep
  <1> QED
    BY <1>1, <1>2, PTL DEF ClassifySpec

\* parse() and the checks read within the frame, for every set of frames: any
\* combination of size, tag, EtherType, version, ihl, protocol, total length
\* and ARP address lengths.
THEOREM FramesAreReadInBounds == ClassifySpec => []ReadsInBounds
  BY ParserInvHolds, ParserInvImplies, PTL

\* A parser that is reused for frame after frame shows the last one, all of it
\* and nothing of the ones before, for every set of frames.
THEOREM ParserShowsItsFrame == ClassifySpec => []ShowsThisFrame
  BY ParserInvHolds, ParserInvImplies, PTL

\* poll() accepts a frame exactly when it is well-formed, for every set of
\* frames, MTU, minimum size, VLAN allow-list and address filter.
THEOREM WellFormedAreAccepted == ClassifySpec => []AcceptsWellFormed
  BY ParserInvHolds, ParserInvImplies, PTL

-----------------------------------------------------------------------------
(* The two directions of a connection. *)

\* What a frame of flow t gets under table r
Place(r, t) == [hash |-> CalcHash(t), queue |-> QueueOf(r, CalcHash(t))]

\* Every flow seen since the last updateReta was placed by the present table.
\* DirectionsMeet alone is not inductive: a frame compares with one placed
\* earlier, about which it says nothing.
PlacedByTable ==
  /\ DOMAIN placed = Tuples
  /\ \A t \in Tuples : placed[t] = NotSeen \/ placed[t] = Place(reta, t)

\* MakeSymmetric maps the two directions of a connection to one tuple.
LEMMA OneCanonicalTuple ==
  ASSUME NEW t \in FiveTuple
  PROVE  MakeSymmetric(Reversed(t)) = MakeSymmetric(t)
  <1>1. /\ Reversed(t).saddr = t.daddr /\ Reversed(t).daddr = t.saddr
        /\ Reversed(t).sport = t.dport /\ Reversed(t).dport = t.sport
    BY DEF Reversed, FiveTuple
  <1>2. Reversed(Reversed(t)) = t
    BY DEF Reversed, FiveTuple
  <1>3. /\ t.saddr \in Nat /\ t.daddr \in Nat
        /\ t.sport \in Nat /\ t.dport \in Nat
    BY DEF FiveTuple
  <1>4. CASE OutOfOrder(t)
    <2>1. ~OutOfOrder(Reversed(t))
      BY <1>1, <1>3, <1>4 DEF OutOfOrder
    <2> QED
      BY <1>4, <2>1 DEF MakeSymmetric
  <1>5. CASE OutOfOrder(Reversed(t))
    <2>1. ~OutOfOrder(t)
      BY <1>1, <1>3, <1>5 DEF OutOfOrder
    <2> QED
      BY <1>2, <1>5, <2>1 DEF MakeSymmetric
  <1>6. CASE ~OutOfOrder(t) /\ ~OutOfOrder(Reversed(t))
    <2>1. t.saddr = t.daddr /\ t.sport = t.dport
      BY <1>1, <1>3, <1>6 DEF OutOfOrder
    <2>2. Reversed(t) = t
      BY <2>1 DEF Reversed, FiveTuple
    <2> QED
      BY <2>2
  <1> QED
    BY <1>4, <1>5, <1>6

\* CalcHash in SYMMETRIC mode gives both directions the same hash.
THEOREM SymmetricHash ==
  ASSUME Symmetry = "SYMMETRIC", NEW t \in FiveTuple
  PROVE  CalcHash(Reversed(t)) = CalcHash(t)
  BY OneCanonicalTuple DEF CalcHash

\* distribute() and updateReta keep every seen flow where the table puts it,
\* whatever the parser hands over.
LEMMA PlacedByTableHolds == ClassifySpec => []PlacedByTable
  <1>1. ClassifyInit => PlacedByTable
    BY DEF ClassifyInit, Init, PlacedByTable
  <1>2. PlacedByTable /\ [ClassifyNext]_classifyVars => PlacedByTable'
    <2> SUFFICES ASSUME PlacedByTable, [ClassifyNext]_classifyVars PROVE PlacedByTable'
      OBVIOUS
    <2>1. ASSUME NEW t, Distribute(t) PROVE PlacedByTable'
      BY <2>1 DEF Distribute, PlacedByTable, Place
    <2>2. ASSUME NEW r \in Retas, UpdateReta(r) PROVE PlacedByTable'
      BY <2>2 DEF UpdateReta, PlacedByTable
    <2>3. CASE UNCHANGED vars
      BY <2>3 DEF vars, PlacedByTable, Place
    <2>4. UNCHANGED vars \/ Distribute(Get5Tuple) \/ \E r \in Retas : UpdateReta(r)
      BY DEF ClassifyNext, Handle, DropFrame, DistributeFrame, Update, classifyVars
    <2> QED
      BY <2>1, <2>2, <2>3, <2>4
  <1> QED
    BY <1>1, <1>2, PTL DEF ClassifySpec

\* Under SYMMETRIC, accepted frames of both directions of a connection that
\* distribute() handles under one table get the same hash and the same queue.
THEOREM FlowsMeet == ClassifySpec => []DirectionsMeet
  <1>1. PlacedByTable => DirectionsMeet
    <2> SUFFICES ASSUME PlacedByTable, Symmetry = "SYMMETRIC", NEW t \in Tuples,
                        Seen(t), Seen(Reversed(t))
                 PROVE  placed[t] = placed[Reversed(t)]
      BY DEF DirectionsMeet
    <2>1. t \in FiveTuple /\ Reversed(t) \in Tuples
      BY RssAssumption
    <2>2. placed[t] = Place(reta, t) /\ placed[Reversed(t)] = Place(reta, Reversed(t))
      BY <2>1 DEF PlacedByTable, Seen
    <2>3. CalcHash(Reversed(t)) = CalcHash(t)
      BY <2>1, SymmetricHash
    <2> QED
      BY <2>2, <2>3 DEF Place
  <1> QED
    BY <1>1, PlacedByTableHolds, PTL

-----------------------------------------------------------------------------
(* The input of the hash. *)

\* x in n bytes is a sequence of length n.
LEMMA BytesLength ==
  ASSUME NEW x, NEW n \in Nat, NEW S, \A i \in 1 .. n : Bytes(x, n)[i] \in S
  PROVE  Bytes(x, n) \in Seq(S) /\ Len(Bytes(x, n)) = n
  <1> DEFINE s == Bytes(x, n)
  <1>1. s = [i \in 1 .. n |-> s[i]]
    BY DEF Bytes
  <1>2. \A i \in 1 .. n : s[i] \in S
    OBVIOUS
  <1> HIDE DEF s
  <1>3. s \in [1 .. n -> S]
    BY <1>1, <1>2
  <1>4. s \in Seq(S)
    BY <1>3, SeqDef
  <1>5. Len(s) \in Nat /\ 1 .. Len(s) = 1 .. n
    BY <1>3, <1>4, LenProperties
  <1> QED
    BY <1>4, <1>5 DEF s

\* BuildHashInput writes at most the 36 bytes CalcHash reserves for it, and
\* that is the longest input for which a Toeplitz key of 40 bytes suffices.
THEOREM HashInputFits ==
  ASSUME NEW t \in FiveTuple
  PROVE  Len(BuildHashInput(t)) \in 0 .. 16 + 16 + 2 + 2
  <1> DEFINE n == AddressBytes(t)
             a == Bytes(t.saddr, n)
             b == Bytes(t.daddr, n)
             c == Bytes(t.sport, 2)
             e == Bytes(t.dport, 2)
             S == {a[i] : i \in 1 .. n} \cup {b[i] : i \in 1 .. n}
                    \cup {c[i] : i \in 1 .. 2} \cup {e[i] : i \in 1 .. 2}
  <1>1. n \in {4, 16} /\ n \in Nat /\ 2 \in Nat
    BY DEF AddressBytes
  <1>2. BuildHashInput(t) = IF ~HasIp THEN <<>>
                            ELSE a \o b \o (IF HasL4 THEN c \o e ELSE <<>>)
    BY DEF BuildHashInput
  <1>3. /\ \A i \in 1 .. n : a[i] \in S /\ b[i] \in S
        /\ \A i \in 1 .. 2 : c[i] \in S /\ e[i] \in S
    OBVIOUS
  <1> HIDE DEF n, S
  <1>4. a \in Seq(S) /\ Len(a) = n
    BY <1>1, <1>3, BytesLength, Zenon
  <1>5. b \in Seq(S) /\ Len(b) = n
    BY <1>1, <1>3, BytesLength, Zenon
  <1>6. c \in Seq(S) /\ Len(c) = 2
    BY <1>1, <1>3, BytesLength, Zenon
  <1>7. e \in Seq(S) /\ Len(e) = 2
    BY <1>1, <1>3, BytesLength, Zenon
  <1> HIDE DEF a, b, c, e
  <1>8. Len(a \o b) = 2 * n /\ a \o b \in Seq(S)
    BY <1>1, <1>4, <1>5, ConcatProperties
  <1>9. Len(c \o e) = 4 /\ c \o e \in Seq(S)
    BY <1>6, <1>7, ConcatProperties
  <1>10. Len(<<>>) = 0 /\ <<>> \in Seq(S)
    OBVIOUS
  <1>11. Len(a \o b \o (c \o e)) = 2 * n + 4
    BY <1>1, <1>8, <1>9, ConcatProperties
  <1>12. Len(a \o b \o <<>>) = 2 * n
    BY <1>1, <1>8, <1>10, ConcatProperties
  <1>13. Len(BuildHashInput(t)) \in {0, 2 * n, 2 * n + 4}
    BY <1>2, <1>10, <1>11, <1>12, Zenon
  <1>14. n = 4 \/ n = 16
    BY <1>1
  <1>15. CASE n = 4
    <2>1. Len(BuildHashInput(t)) \in {0, 8, 12}
      BY <1>13, <1>15
    <2> QED
      BY <2>1
  <1>16. CASE n = 16
    <2>1. Len(BuildHashInput(t)) \in {0, 32, 36}
      BY <1>13, <1>16
    <2> QED
      BY <2>1
  <1> QED
    BY <1>14, <1>15, <1>16

=============================================================================
