------------------------------- MODULE Parser -------------------------------
(***************************************************************************)
(* One Parser object, used for one frame after another, and the checks     *)
(* VNic::validate runs on what it parsed (parser.cpp, validate.cpp).       *)
(* parser.h allows the reuse; the poll loop, which takes a fresh Parser    *)
(* for each frame, is the case in which each frame is the first.           *)
(*                                                                         *)
(* A frame is the fields the code branches on: its size, whether it carries*)
(* a VLAN tag, the EtherType behind the tag, the IP or ARP header's fields,*)
(* whether the words of the IPv4 header add up to all ones, and the        *)
(* addresses and ports.  Header sizes are the real ones, in bytes.  What   *)
(* becomes of a frame that is accepted is in Classify.                     *)
(***************************************************************************)
EXTENDS Naturals, FiniteSets, FiniteSetsExt

CONSTANTS Frames,        \* the frames the link may deliver
          NoFrame,       \* no frame is being received
          MinFrameSize,  \* kMinFrameSize, 60
          Mtu,           \* VNic::Config::mtu
          Promiscuous,   \* VNic::Config::promiscuousEnabled
          VlanAllowList  \* VNic::Config::vlanAllowList, as a set

VARIABLES pc,       \* where the poll loop is with the current frame
          frame,    \* the frame being received
          parser,   \* the Parser's members
          reach,    \* one past the last byte of the frame that was read
          verdict   \* what became of the frame

parserVars == <<pc, frame, parser, reach, verdict>>

EthHdr == 14
VlanTag == 4
IpHdr == 20
ArpHdr == 8

\* version, sizeof the fixed header and L2Protocol behind the EtherTypes of IP
Ip == [ip  |-> [version |-> 4, hdr |-> IpHdr, l2 |-> "Ipv4"],
       ip6 |-> [version |-> 6, hdr |-> 40, l2 |-> "Ipv6"]]

\* sizeof(tcphdr), sizeof(udphdr), sizeof(icmphdr)
L4Hdr == [tcp |-> 20, udp |-> 8, icmp |-> 8]

FrameType ==
  [size : Nat, dst : {"own", "group", "other"}, tagged : BOOLEAN, vid : Nat,
   type : {"ip", "ip6", "arp", "other"}, version : Nat, ihl : Nat,
   proto : {"tcp", "udp", "icmp", "other"}, totLen : Nat, sums : BOOLEAN,
   hln : Nat, pln : Nat, hosts : Nat \X Nat, ports : Nat \X Nat]

ASSUME ParserAssumption ==
  /\ \A f \in Frames : f \in FrameType
  /\ NoFrame \notin Frames
  /\ MinFrameSize \in Nat /\ Mtu \in Nat
  /\ Promiscuous \in BOOLEAN
  /\ VlanAllowList \subseteq Nat

-----------------------------------------------------------------------------
\* Parser::reset, and a freshly constructed Parser
Empty == [l1 |-> "None", vlanId |-> 0, l2 |-> "None", l3 |-> "None", l2Offset |-> 0, ihl |-> 0,
          totLen |-> 0, arpAddresses |-> FALSE, hosts |-> <<0, 0>>, ports |-> <<0, 0>>]

\* Mutant: the transport header of the last frame stays.
ResetKeepingL3(p) == [Empty EXCEPT !.l3 = p.l3, !.ports = p.ports]

Reset(p) == Empty

ParserInit ==
  pc = "idle" /\ frame = NoFrame /\ parser = Empty /\ reach = 0 /\ verdict = "none"

\* Reading the n bytes at offset o
Load(o, n) == reach' = Max({reach, o + n})

\* The next step, with what the parser holds then, or the end of the frame
Go(step, p) == pc' = step /\ parser' = p /\ UNCHANGED <<frame, verdict>>
Finish(v, p) == pc' = "done" /\ verdict' = v /\ parser' = p /\ UNCHANGED frame

\* Does the frame have n bytes behind offset o?
Holds(o, n) == frame.size >= o + n

\* parse() begins: it resets, then wants a whole Ethernet header
Parse(f) ==
  /\ pc = "idle" /\ frame' = f
  /\ \/ /\ f.size < EthHdr
        /\ pc' = "done" /\ verdict' = "ParseEthernetTooShort"
        /\ parser' = Reset(parser) /\ reach' = 0
     \/ /\ f.size >= EthHdr
        /\ pc' = "tag" /\ verdict' = verdict
        /\ parser' = [Reset(parser) EXCEPT !.l1 = "Eth"] /\ reach' = EthHdr

\* An 802.1Q or 802.1ad tag.  Only one is looked behind.
ParseVlan ==
  /\ pc = "tag"
  /\ \/ /\ ~frame.tagged
        /\ Go(frame.type, [parser EXCEPT !.l2Offset = EthHdr]) /\ UNCHANGED reach
     \/ /\ frame.tagged /\ ~Holds(EthHdr, VlanTag)
        /\ Finish("ParseTruncated", parser) /\ UNCHANGED reach
     \/ /\ frame.tagged /\ Holds(EthHdr, VlanTag)
        /\ Go(frame.type, [parser EXCEPT !.l1 = "Vlan", !.vlanId = frame.vid,
                                         !.l2Offset = EthHdr + VlanTag])
        /\ Load(EthHdr, VlanTag)

ParseUnsupported ==
  /\ pc = "other"
  /\ Finish("ParseUnsupportedEtherType", [parser EXCEPT !.l2 = "Unknown"])
  /\ UNCHANGED reach

\* parseIpv4 and parseIpv6 up to the L4 header; their error codes are one here.
\* The version is checked before the header is stored, ihl after.
ParseIp ==
  /\ pc \in DOMAIN Ip
  /\ LET v == Ip[pc]
         stored == [parser EXCEPT !.l2 = v.l2, !.hosts = frame.hosts,
                                  !.ihl = IF pc = "ip" THEN frame.ihl ELSE 0,
                                  !.totLen = IF pc = "ip" THEN frame.totLen ELSE 0]
     IN  \/ /\ ~Holds(parser.l2Offset, v.hdr)
            /\ Finish("ParseIpTooShort", parser) /\ UNCHANGED reach
         \/ /\ Holds(parser.l2Offset, v.hdr)
            /\ Load(parser.l2Offset, v.hdr)
            /\ IF frame.version # v.version THEN Finish("ParseInvalidIpVersion", parser)
               ELSE IF pc = "ip" /\ frame.ihl * 4 < IpHdr
                 THEN Finish("ParseInvalidIpv4HeaderLength", stored)
               ELSE Go("l4", stored)

L4Offset == parser.l2Offset + (IF parser.l2 = "Ipv4" THEN parser.ihl * 4 ELSE Ip.ip6.hdr)

\* The switch on the protocol that ends both parseIpv4 and parseIpv6
ParseL4 ==
  /\ pc = "l4"
  /\ \/ /\ frame.proto = "other"
        /\ Go("validate", [parser EXCEPT !.l3 = "Unknown"]) /\ UNCHANGED reach
     \/ /\ frame.proto # "other" /\ ~Holds(L4Offset, L4Hdr[frame.proto])
        /\ Finish("ParseL4TooShort", parser) /\ UNCHANGED reach
     \/ /\ frame.proto # "other" /\ Holds(L4Offset, L4Hdr[frame.proto])
        /\ Load(L4Offset, L4Hdr[frame.proto])
        /\ Go("validate", [parser EXCEPT !.l3 = frame.proto,
                              !.ports = IF frame.proto = "icmp" THEN @ ELSE frame.ports])

\* Mutant: the address lengths are not checked.
ArpLengthTrusting == ArpHdr

ArpLength == ArpHdr + 2 * (frame.hln + frame.pln)

\* parseArp.  The four addresses are copied only when they are the Ethernet
\* and IPv4 ones; they end at byte 20 behind the header.
ParseArp ==
  /\ pc = "arp"
  /\ \/ /\ ~Holds(parser.l2Offset, ArpHdr)
        /\ Finish("ParseArpTooShort", parser) /\ UNCHANGED reach
     \/ /\ Holds(parser.l2Offset, ArpHdr) /\ ~Holds(parser.l2Offset, ArpLength)
        /\ Load(parser.l2Offset, ArpHdr)
        /\ Finish("ParseInvalidArpHeaderLength", parser)
     \/ /\ Holds(parser.l2Offset, ArpHdr) /\ Holds(parser.l2Offset, ArpLength)
        /\ LET known == frame.hln = 6 /\ frame.pln = 4
           IN  /\ Load(parser.l2Offset, ArpHdr + (IF known THEN 20 ELSE 0))
               /\ Go("validate", [parser EXCEPT !.l2 = "Arp", !.arpAddresses = known])

-----------------------------------------------------------------------------
\* eth(), vlanId(), ipv4() and ipv6(), tcp() and udp(): a header of another
\* protocol is not shown
HasEth == parser.l1 \in {"Eth", "Vlan"}
VlanId == IF parser.l1 = "Vlan" THEN parser.vlanId ELSE 0
Hosts == IF parser.l2 \in {"Ipv4", "Ipv6"} THEN parser.hosts ELSE <<0, 0>>
Ports == IF parser.l3 \in {"tcp", "udp"} THEN parser.ports ELSE <<0, 0>>

\* Mutant: the tag counts against the MTU.
L2HeaderBytesUntagged == EthHdr

\* parser.l2Offset() if it is set, the bare Ethernet header otherwise
L2HeaderBytes == IF parser.l2Offset # 0 THEN parser.l2Offset ELSE EthHdr

CheckFrameSize == frame.size >= MinFrameSize /\ frame.size <= L2HeaderBytes + Mtu

\* Own address, broadcast or multicast
CheckDstMac == Promiscuous \/ ~HasEth \/ frame.dst # "other"

CheckVlanFilter ==
  parser.l1 # "Vlan" \/ VlanAllowList = {} \/ VlanId \in VlanAllowList

CheckIpTotalLength ==
  parser.l2 = "Ipv4" => /\ parser.ihl * 4 >= IpHdr
                        /\ parser.totLen >= parser.ihl * 4
                        /\ Holds(parser.l2Offset, parser.totLen)

\* The header fits, so its words may be added up
ChecksumReadable == parser.ihl * 4 >= IpHdr /\ Holds(parser.l2Offset, parser.ihl * 4)

CheckIpv4Checksum == parser.l2 = "Ipv4" => ChecksumReadable /\ frame.sums

\* VNic::validate: the first check that fails names the error.  CheckFcs
\* always passes: the link carries no FCS.
Verdict ==
  IF ~CheckFrameSize
    THEN IF frame.size > L2HeaderBytes + Mtu THEN "FrameTooLong" ELSE "FrameTooShort"
  ELSE IF ~CheckDstMac THEN "DstMacMismatch"
  ELSE IF ~CheckVlanFilter THEN "VlanRejected"
  ELSE IF ~CheckIpTotalLength THEN "IpTotalLengthInvalid"
  ELSE IF ~CheckIpv4Checksum THEN "Ipv4ChecksumInvalid"
  ELSE "accepted"

\* validate() on a parsed frame.  The checksum is the only check that reads
\* the frame again, and it runs when all the others have passed.
Validate ==
  /\ pc = "validate"
  /\ Finish(Verdict, parser)
  /\ IF Verdict \in {"accepted", "Ipv4ChecksumInvalid"} /\ parser.l2 = "Ipv4" /\ ChecksumReadable
       THEN Load(parser.l2Offset, parser.ihl * 4)
       ELSE UNCHANGED reach

\* On to the next frame.  A Parser that is reused keeps what it holds.
NextFrame ==
  /\ pc = "done" /\ pc' = "idle"
  /\ frame' = NoFrame /\ verdict' = "none" /\ reach' = 0
  /\ UNCHANGED parser

ParseSteps ==
  ParseVlan \/ ParseUnsupported \/ ParseIp \/ ParseL4 \/ ParseArp \/ Validate

\* The zero tuple for a frame that is not IP
Get5Tuple ==
  [version |-> CASE parser.l2 = "Ipv4" -> 4 [] parser.l2 = "Ipv6" -> 6 [] OTHER -> 0,
   saddr |-> Hosts[1], daddr |-> Hosts[2], sport |-> Ports[1], dport |-> Ports[2]]

-----------------------------------------------------------------------------
(* What a frame holds, stated of the frame alone *)

Behind(f) == EthHdr + (IF f.tagged THEN VlanTag ELSE 0)

\* The L2 header is one the parser knows and is there in full
WholeL2(f) ==
  /\ f.size >= Behind(f)
  /\ \/ f.type = "ip" /\ f.version = 4 /\ f.size >= Behind(f) + IpHdr
     \/ f.type = "ip6" /\ f.version = 6 /\ f.size >= Behind(f) + Ip.ip6.hdr
     \/ f.type = "arp" /\ f.size >= Behind(f) + ArpHdr + 2 * (f.hln + f.pln)

\* So is the L4 header, where there has to be one
WholeL4(f) ==
  \/ f.type = "arp"
  \/ /\ f.type = "ip" => f.ihl * 4 >= IpHdr
     /\ \/ f.proto = "other"
        \/ f.size >= Behind(f) + (IF f.type = "ip" THEN f.ihl * 4 ELSE Ip.ip6.hdr)
                              + L4Hdr[f.proto]

\* Every rule a received frame has to obey to reach a queue
WellFormed(f) ==
  /\ WholeL2(f) /\ WholeL4(f)
  /\ f.size \in MinFrameSize..(Behind(f) + Mtu)
  /\ Promiscuous \/ f.dst # "other"
  /\ f.tagged => VlanAllowList = {} \/ f.vid \in VlanAllowList
  /\ f.type = "ip" => /\ f.totLen \in (f.ihl * 4)..(f.size - Behind(f))
                      /\ f.sums

Received == pc = "done"

-----------------------------------------------------------------------------
(* Properties *)

\* parse() and the checks behind it never load a byte behind the end of the
\* frame, whatever lengths its headers claim.
ReadsInBounds == frame # NoFrame => reach <= frame.size

\* What the accessors and the 5-tuple show after parse() is what this frame
\* holds, also when it was cut short and whatever frame the same Parser saw
\* before.
ShowsThisFrame ==
  Received =>
    /\ parser.l1 = (IF frame.size < EthHdr THEN "None"
                    ELSE IF frame.tagged /\ frame.size >= Behind(frame)
                      THEN "Vlan" ELSE "Eth")
    /\ VlanId = (IF parser.l1 = "Vlan" THEN frame.vid ELSE 0)
    /\ parser.l2 \in {"Ipv4", "Ipv6", "Arp"} <=> WholeL2(frame)
    /\ parser.l3 # "None" <=> /\ WholeL2(frame) /\ WholeL4(frame)
                              /\ frame.type # "arp"
    /\ parser.l3 \notin {"None", "Unknown"} => parser.l3 = frame.proto
    /\ parser.l3 \in {"tcp", "udp", "icmp", "Unknown"} =>
         Get5Tuple = [version |-> Ip[frame.type].version,
                      saddr |-> frame.hosts[1], daddr |-> frame.hosts[2],
                      sport |-> IF frame.proto \in {"tcp", "udp"} THEN frame.ports[1] ELSE 0,
                      dport |-> IF frame.proto \in {"tcp", "udp"} THEN frame.ports[2] ELSE 0]
    /\ parser.arpAddresses <=> /\ WholeL2(frame) /\ frame.type = "arp"
                               /\ frame.hln = 6 /\ frame.pln = 4

\* parse() followed by VNic::validate lets through exactly the well-formed
\* frames: none that breaks a rule, and every one that breaks none.
AcceptsWellFormed ==
  Received => (verdict = "accepted" <=> WellFormed(frame))

=============================================================================
