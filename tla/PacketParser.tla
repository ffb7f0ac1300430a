---------------------------- MODULE PacketParser ----------------------------
(***************************************************************************)
(* The packet parser (kernel/packet_filter/packet_parser.c) and the match  *)
(* of a rule's fields against its result (rule_engine.c): a frame is       *)
(* parsed layer by layer into struct pf_parsed_packet, each layer with its *)
(* own error, and a rule is then matched against what was parsed.          *)
(*                                                                         *)
(* A frame is its header fields and its length: the fields of a header are *)
(* there when the frame is long enough.  16-bit fields are two bytes in    *)
(* network order; addresses are sets of bits.                              *)
(*                                                                         *)
(* Of the len bytes of a frame only the first headlen lie at skb->data,    *)
(* the rest in fragments.  The parser compares its offsets with skb->len   *)
(* and reads at skb->data, with nothing pulled: what it reads behind the   *)
(* linear part is not the frame, and the run is not followed further.      *)
(***************************************************************************)
EXTENDS Integers, Sequences

CONSTANTS
  Frames,  \* frames that arrive
  Rules    \* rules they are matched against

Byte  == 0 .. 255
Flags == {"src_ip", "dst_ip", "src_port", "dst_port", "protocol", "src_mac",
          "dst_mac", "interface"}

\* A 16-bit field is two bytes; the two lengths an IPv4 and a TCP header
\* give in words of four bytes have four bits each; skb_headlen is at most
\* skb->len.
ASSUME FramesAssumption ==
  \A f \in Frames :
    /\ f.len \in Nat /\ f.headlen \in 0 .. f.len
    /\ f.ihl \in 0 .. 15 /\ f.doff \in 0 .. 15
    /\ {f.total_length, f.udp_length, f.src_port, f.dst_port} \subseteq Byte \X Byte

\* Of a rule's match flags the engine looks at these bits and no others.
ASSUME RulesAssumption ==
  \A r \in Rules :
    /\ r.flags \subseteq Flags /\ r.enabled \in BOOLEAN
    /\ {r.src_first, r.src_last, r.dst_first, r.dst_last} \subseteq Byte \X Byte

VARIABLES
  frame,     \* the frame, skb
  at,        \* the layer parsed next; "match" and "done" when none is, and
             \* "fault" after a read behind the linear part
  packet,    \* struct pf_parsed_packet
  result,    \* what pf_parse_packet returns
  rule,      \* the rule matched last
  matched    \* ... and whether it matched

vars == <<frame, at, packet, result, rule, matched>>

matchVars == <<rule, matched>>

-----------------------------------------------------------------------------
(* Headers.                                                                *)

EthernetHeader == 14
Ipv4Header     == 20
TcpHeader      == 20
UdpHeader      == 8
IcmpHeader     == 8

\* ntohs; and the number a little-endian machine sees without it.
Ntohs(bytes) == bytes[1] * 256 + bytes[2]
Raw(bytes)   == bytes[2] * 256 + bytes[1]

\* Faulty: the whole length is compared, wherever the header starts.
HasDataFromStart(offset, length) ==
  /\ offset <= frame.len
  /\ length <= frame.len

HasData(offset, length) ==
  /\ offset <= frame.len
  /\ length <= frame.len - offset

\* pf_reset_parsed_packet.
EmptyPacket ==
  [protocol |-> "unknown",
   ethernet_valid |-> FALSE, ipv4_valid |-> FALSE, transport_valid |-> FALSE,
   ethernet_header_length |-> 0, ip_header_length |-> 0,
   transport_header_length |-> 0, payload_offset |-> 0, payload_length |-> 0,
   src_mac |-> {}, dst_mac |-> {}, src_ip |-> {}, dst_ip |-> {},
   src_port |-> <<0, 0>>, dst_port |-> <<0, 0>>]

IsIpv4 == frame.ethertype = "ipv4"

\* Faulty: options are taken to be there.
Ipv4ResultWithoutOptions(offset) ==
  IF ~ HasData(offset, Ipv4Header) THEN "truncated"
  ELSE IF frame.version # 4 \/ frame.ihl < 5 THEN "invalid"
  ELSE "success"

Ipv4Result(offset) ==
  IF ~ HasData(offset, Ipv4Header) THEN "truncated"
  ELSE IF frame.version # 4 \/ frame.ihl < 5 THEN "invalid"
  ELSE IF ~ HasData(offset, frame.ihl * 4) THEN "truncated"
  ELSE "success"

\* pf_validate_ipv4, of a header that was parsed.
ValidIpv4 == Ntohs(frame.total_length) >= frame.ihl * 4

TcpResult(offset) ==
  IF ~ HasData(offset, TcpHeader) THEN "truncated"
  ELSE IF frame.doff < 5 THEN "invalid"
  ELSE IF ~ HasData(offset, frame.doff * 4) THEN "truncated"
  ELSE "success"

ValidUdp == Ntohs(frame.udp_length) >= UdpHeader

UdpResult(offset) ==
  IF ~ HasData(offset, UdpHeader) THEN "truncated"
  ELSE IF ~ ValidUdp THEN "invalid"
  ELSE "success"

IcmpResult(offset) == IF HasData(offset, IcmpHeader) THEN "success" ELSE "truncated"

\* Faulty: a protocol that is supported and has no case.
ProtocolWithoutIcmp(number) ==
  CASE number = 6  -> "tcp"
    [] number = 17 -> "udp"
    [] OTHER       -> "unknown"

ProtocolFromIpHeader(number) ==
  CASE number = 6  -> "tcp"
    [] number = 17 -> "udp"
    [] number = 1  -> "icmp"
    [] OTHER       -> "unknown"

ProtocolSupported(number) == number \in {6, 17, 1}

TransportResult(protocol, offset) ==
  CASE protocol = "tcp"  -> TcpResult(offset)
    [] protocol = "udp"  -> UdpResult(offset)
    [] protocol = "icmp" -> IcmpResult(offset)
    [] OTHER             -> "unsupported"

\* The header of a protocol, and the length its parser reports.
TransportHeader(protocol) ==
  CASE protocol = "tcp" -> TcpHeader [] protocol = "udp" -> UdpHeader
    [] protocol = "icmp" -> IcmpHeader [] OTHER -> 0

TransportLength(protocol) ==
  IF protocol = "tcp" THEN frame.doff * 4 ELSE TransportHeader(protocol)

\* How far into a header its parser looks: nowhere when pf_packet_data gives
\* no pointer, else as far as the field that makes it give up, or to the end.
EthernetLook == IF HasData(0, EthernetHeader) THEN EthernetHeader ELSE 0

Ipv4Look(offset) ==
  IF ~ HasData(offset, Ipv4Header) THEN 0
  ELSE IF Ipv4Result(offset) # "success" THEN 1
  ELSE Ipv4Header

TransportLook(protocol, offset) ==
  IF ~ HasData(offset, TransportHeader(protocol)) THEN 0
  ELSE IF protocol = "tcp" /\ TcpResult(offset) # "success" THEN 14
  ELSE TransportHeader(protocol)

\* Whether what is looked at lies in the linear part.
Linear(offset, length) == length = 0 \/ offset + length <= frame.headlen

-----------------------------------------------------------------------------
(* Parsing.                                                                *)

Return(code) == result' = code /\ at' = "match"

GoOn(layer) == at' = layer /\ UNCHANGED result

NoRule == [flags |-> {}]

Init ==
  /\ frame \in Frames
  /\ at = "ethernet"
  /\ packet = EmptyPacket
  /\ result = "none"
  /\ rule = NoRule
  /\ matched = FALSE

ParseEthernet ==
  /\ at = "ethernet"
  /\ Linear(0, EthernetLook)
  /\ IF ~ HasData(0, EthernetHeader)
     THEN Return("truncated") /\ UNCHANGED packet
     ELSE /\ packet' = [packet EXCEPT !.ethernet_valid = TRUE,
                                      !.ethernet_header_length = EthernetHeader,
                                      !.src_mac = frame.src_mac,
                                      !.dst_mac = frame.dst_mac]
          /\ IF IsIpv4 THEN GoOn("ipv4") ELSE Return("unsupported")
  /\ UNCHANGED <<frame, matchVars>>

\* pf_parse_ipv4 stores the addresses of every header it accepts.
ParseIpv4 ==
  LET code   == Ipv4Result(packet.ethernet_header_length)
      parsed == [packet EXCEPT !.src_ip = frame.src_ip, !.dst_ip = frame.dst_ip]
  IN
  /\ at = "ipv4"
  /\ Linear(packet.ethernet_header_length, Ipv4Look(packet.ethernet_header_length))
  /\ \/ code # "success" /\ Return(code) /\ UNCHANGED packet
     \/ code = "success" /\ ~ ValidIpv4 /\ Return("invalid") /\ packet' = parsed
     \/ /\ code = "success"
        /\ ValidIpv4
        /\ packet' = [parsed EXCEPT !.ipv4_valid = TRUE,
                                    !.ip_header_length = frame.ihl * 4]
        /\ GoOn("transport")
  /\ UNCHANGED <<frame, matchVars>>

TransportOffset == packet.ethernet_header_length + packet.ip_header_length

\* The ports are stored once nothing but the UDP length can still be wrong.
ParseTransport ==
  LET protocol == ProtocolFromIpHeader(frame.protocol)
      code     == TransportResult(protocol, TransportOffset)
      named    == [packet EXCEPT !.protocol = protocol]
      stored   == protocol = "udp" /\ code = "invalid"
      ported   == IF protocol \in {"tcp", "udp"} /\ (stored \/ code = "success")
                  THEN [named EXCEPT !.src_port = frame.src_port,
                                     !.dst_port = frame.dst_port]
                  ELSE named
  IN
  /\ at = "transport"
  /\ Linear(TransportOffset, TransportLook(protocol, TransportOffset))
  /\ \/ code # "success" /\ Return(code) /\ packet' = ported
     \/ /\ code = "success"
        /\ packet' = [ported EXCEPT !.transport_valid = TRUE,
                                    !.transport_header_length = TransportLength(protocol)]
        /\ GoOn("payload")
  /\ UNCHANGED <<frame, matchVars>>

\* Faulty: the result is forgotten.
SetPayloadSilently ==
  /\ at = "payload"
  /\ GoOn("match")
  /\ UNCHANGED <<frame, packet, matchVars>>

SetPayload ==
  LET offset == TransportOffset + packet.transport_header_length
  IN
  /\ at = "payload"
  /\ packet' = [packet EXCEPT !.payload_offset = offset,
                              !.payload_length = IF offset < frame.len
                                                 THEN frame.len - offset ELSE 0]
  /\ Return("success")
  /\ UNCHANGED <<frame, matchVars>>

\* pf_packet_data gives a pointer to a header that is not, or not as far as
\* it is looked at, in the linear part.
ReadFragment ==
  /\ \/ at = "ethernet" /\ ~ Linear(0, EthernetLook)
     \/ /\ at = "ipv4"
        /\ ~ Linear(packet.ethernet_header_length, Ipv4Look(packet.ethernet_header_length))
     \/ /\ at = "transport"
        /\ ~ Linear(TransportOffset,
                    TransportLook(ProtocolFromIpHeader(frame.protocol), TransportOffset))
  /\ at' = "fault"
  /\ UNCHANGED <<frame, packet, result, matchVars>>

-----------------------------------------------------------------------------
(* Matching.                                                               *)

\* Faulty: a validator that leaves the transport header out.
ValidUpToIpv4 == packet.ethernet_valid /\ packet.ipv4_valid

\* pf_validate_packet.
ValidPacket ==
  /\ packet.ethernet_valid
  /\ packet.ipv4_valid
  /\ packet.transport_valid
  /\ packet.protocol # "unknown"

AddressMatch(address, of, mask) == address \cap mask = of \cap mask

\* Faulty: ports compared as they lie in memory.
RawPortMatch(port, first, last) == Raw(first) <= Raw(port) /\ Raw(port) <= Raw(last)

PortMatch(port, first, last) ==
  /\ Ntohs(first) <= Ntohs(last)
  /\ Ntohs(port) >= Ntohs(first)
  /\ Ntohs(port) <= Ntohs(last)

\* Only TCP and UDP packets have ports.
PortsMatch(flag, r, port, first, last) ==
  flag \in r.flags => packet.protocol \in {"tcp", "udp"} /\ PortMatch(port, first, last)

ProtocolMatch(r) ==
  "protocol" \in r.flags => \/ r.protocol = 0
                            \/ /\ r.protocol \in {6, 17, 1}
                               /\ packet.protocol = ProtocolFromIpHeader(r.protocol)

\* An empty interface name in the rule stands for every interface, but a
\* packet without a device, skb->dev = NULL, has none.
InterfaceMatch(r) ==
  "interface" \in r.flags => frame.dev # "none" /\ r.interface \in {"", frame.dev}

\* pf_rule_engine_rule_matches.  The rule's direction takes no part in it.
RuleMatches(r) ==
  /\ r.enabled
  /\ "src_ip" \in r.flags => AddressMatch(packet.src_ip, r.src_ip, r.src_mask)
  /\ "dst_ip" \in r.flags => AddressMatch(packet.dst_ip, r.dst_ip, r.dst_mask)
  /\ PortsMatch("src_port", r, packet.src_port, r.src_first, r.src_last)
  /\ PortsMatch("dst_port", r, packet.dst_port, r.dst_first, r.dst_last)
  /\ ProtocolMatch(r)
  /\ "src_mac" \in r.flags => AddressMatch(packet.src_mac, r.src_mac, r.src_mac_mask)
  /\ "dst_mac" \in r.flags => AddressMatch(packet.dst_mac, r.dst_mac, r.dst_mac_mask)
  /\ InterfaceMatch(r)

\* pf_rule_engine_validate_rule, as far as it concerns the match fields.
ValidRule(r) ==
  /\ r.protocol \in {0, 6, 17, 1}
  /\ "src_port" \in r.flags => Ntohs(r.src_first) <= Ntohs(r.src_last)
  /\ "dst_port" \in r.flags => Ntohs(r.dst_first) <= Ntohs(r.dst_last)

\* A rule the engine accepted meets a packet, whatever became of its parsing:
\* the engine asks neither for the result nor for pf_validate_packet.
Match ==
  /\ at = "match"
  /\ \E r \in Rules :
       /\ ValidRule(r)
       /\ rule' = r
       /\ matched' = RuleMatches(r)
  /\ at' = "done"
  /\ UNCHANGED <<frame, packet, result>>

Next == ParseEthernet \/ ParseIpv4 \/ ParseTransport \/ SetPayload \/ ReadFragment \/ Match

Spec == Init /\ [][Next]_vars

-----------------------------------------------------------------------------
(* Properties.                                                             *)

Parsed == at \in {"match", "done"}

\* Every variable has its type, and there is a result when parsing is over.
TypeOK ==
  /\ frame.len \in Nat /\ frame.headlen \in 0 .. frame.len
  /\ at \in {"ethernet", "ipv4", "transport", "payload", "match", "done",
             "fault"}
  /\ DOMAIN packet = DOMAIN EmptyPacket
  /\ packet.protocol \in {"unknown", "tcp", "udp", "icmp"}
  /\ packet.payload_length \in 0 .. frame.len
  /\ result \in {"none", "success", "truncated", "unsupported", "invalid"}
  /\ result = "none" <=> ~ Parsed
  /\ matched \in BOOLEAN

\* Where the headers end that the frame claims to have.
HeadersEnd ==
  IF ~ IsIpv4 THEN EthernetHeader
  ELSE IF frame.ihl < 5 THEN EthernetHeader + 1
  ELSE EthernetHeader + frame.ihl * 4
         + TransportHeader(ProtocolFromIpHeader(frame.protocol))

\* "The parser must verify that enough packet data is available before
\* accessing headers" (docs/packet-flow.md:1561).  It does so of every frame
\* that is linear and of every frame whose headers are, whatever lengths they
\* claim: only where the linear part ends inside the headers does it read
\* behind it.
LinearHeadersSuffice ==
  at = "fault" => frame.headlen < frame.len /\ frame.headlen < HeadersEnd

\* The headers parsed so far, options included, lie inside the frame one
\* after another, and after a success the payload is exactly what is left.
HeadersFit ==
  /\ TransportOffset + packet.transport_header_length <= frame.len
  /\ result = "success" =>
       /\ packet.payload_offset >= EthernetHeader + Ipv4Header + UdpHeader
       /\ packet.payload_offset + packet.payload_length = frame.len

\* pf_validate_packet accepts what pf_parse_packet parsed to the end, and
\* nothing it gave up on, at whatever layer it did.
ValidIffSuccess == Parsed => (ValidPacket <=> result = "success")

\* pf_parse_packet and pf_packet_protocol_supported agree: "unsupported" is
\* the answer for another ethertype or protocol, and for no other reason.
UnsupportedIsExact ==
  Parsed /\ packet.ethernet_valid =>
    (result = "unsupported" <=>
       \/ ~ IsIpv4
       \/ packet.ipv4_valid /\ ~ ProtocolSupported(frame.protocol))

\* How much of itself a frame shows, by its own lengths: addresses of every
\* IPv4 header that is there, ports of every TCP and UDP header that is.
ShowsEthernet == EthernetHeader <= frame.len

ShowsAddresses ==
  /\ IsIpv4
  /\ frame.version = 4
  /\ frame.ihl >= 5
  /\ EthernetHeader + frame.ihl * 4 <= frame.len

ShowsProtocol == ShowsAddresses /\ Ntohs(frame.total_length) >= frame.ihl * 4

ShowsPorts ==
  /\ ShowsProtocol
  /\ \/ /\ frame.protocol = 6
        /\ frame.doff >= 5
        /\ EthernetHeader + frame.ihl * 4 + frame.doff * 4 <= frame.len
     \/ /\ frame.protocol = 17
        /\ EthernetHeader + frame.ihl * 4 + UdpHeader <= frame.len

\* The fields rules are about; what the frame does not show is zero.
Seen ==
  [dev      |-> frame.dev,
   src_mac  |-> IF ShowsEthernet THEN frame.src_mac ELSE {},
   dst_mac  |-> IF ShowsEthernet THEN frame.dst_mac ELSE {},
   src_ip   |-> IF ShowsAddresses THEN frame.src_ip ELSE {},
   dst_ip   |-> IF ShowsAddresses THEN frame.dst_ip ELSE {},
   protocol |-> IF ShowsProtocol THEN frame.protocol ELSE 0,
   src_port |-> IF ShowsPorts THEN frame.src_port ELSE <<0, 0>>,
   dst_port |-> IF ShowsPorts THEN frame.dst_port ELSE <<0, 0>>]

Agree(address, of, mask) == \A bit \in mask : bit \in address <=> bit \in of

InRange(f, port, first, last) ==
  f.protocol \in {6, 17} /\ Ntohs(port) \in Ntohs(first) .. Ntohs(last)

\* What a rule says of such fields.
Satisfies(f, r) ==
  LET holds == [src_ip    |-> Agree(f.src_ip, r.src_ip, r.src_mask),
                dst_ip    |-> Agree(f.dst_ip, r.dst_ip, r.dst_mask),
                src_port  |-> InRange(f, f.src_port, r.src_first, r.src_last),
                dst_port  |-> InRange(f, f.dst_port, r.dst_first, r.dst_last),
                protocol  |-> r.protocol \in {0, f.protocol},
                src_mac   |-> Agree(f.src_mac, r.src_mac, r.src_mac_mask),
                dst_mac   |-> Agree(f.dst_mac, r.dst_mac, r.dst_mac_mask),
                interface |-> f.dev # "none" /\ r.interface \in {"", f.dev}]
  IN  r.enabled /\ \A flag \in r.flags : holds[flag]

\* Parsing and matching together decide every frame by what it shows, at
\* whatever layer the parser gave up: byte order, masks, port ranges and
\* layers without ports included.  No rule meets a field of another frame or
\* one half filled in, and a frame parsed to the end is decided by its own
\* fields.
MatchIsOnFrame ==
  at = "done" =>
    /\ matched <=> Satisfies(Seen, rule)
    /\ result = "success" => (matched <=> Satisfies(frame, rule))

=============================================================================
