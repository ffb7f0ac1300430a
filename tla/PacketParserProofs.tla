-------------------------- MODULE PacketParserProofs --------------------------
(***************************************************************************)
(* Theorems about PacketParser, for every set of frames and of rules.      *)
(* ParserInv says layer by layer what a valid bit of the parsed packet     *)
(* stands for, and SeenInv, on top of it, what each of its fields holds    *)
(* when parsing ends anywhere; the properties the runs check follow.       *)
(***************************************************************************)
EXTENDS PacketParser, TLAPS

Protocols == {"unknown", "tcp", "udp", "icmp"}
Layers    == {"ethernet", "ipv4", "transport", "payload", "match", "done", "fault"}
Results   == {"none", "success", "truncated", "unsupported", "invalid"}

\* The fields a parsed packet has.
Fields == DOMAIN EmptyPacket

\* The types of the variables, save for what the layers below say.
ParserTypes ==
  /\ frame \in Frames
  /\ at \in Layers
  /\ DOMAIN packet = Fields
  /\ packet = [x \in Fields |-> packet[x]]
  /\ packet.protocol \in Protocols
  /\ {packet.ethernet_valid, packet.ipv4_valid, packet.transport_valid} \subseteq BOOLEAN
  /\ packet.payload_length \in 0 .. frame.len
  /\ result \in Results
  /\ matched \in BOOLEAN

\* Each valid bit: the header is there, and its fields are the frame's.
EthernetParsed ==
  IF packet.ethernet_valid
  THEN /\ packet.ethernet_header_length = EthernetHeader
       /\ EthernetHeader <= frame.len
       /\ packet.src_mac = frame.src_mac
       /\ packet.dst_mac = frame.dst_mac
  ELSE packet.ethernet_header_length = 0

Ipv4Parsed ==
  IF packet.ipv4_valid
  THEN /\ packet.ethernet_valid
       /\ IsIpv4
       /\ ShowsProtocol
       /\ frame.ihl >= 5
       /\ packet.ip_header_length = frame.ihl * 4
       /\ TransportOffset <= frame.len
       /\ packet.src_ip = frame.src_ip
       /\ packet.dst_ip = frame.dst_ip
  ELSE packet.ip_header_length = 0

TransportParsed ==
  IF packet.transport_valid
  THEN /\ packet.ipv4_valid
       /\ packet.protocol = ProtocolFromIpHeader(frame.protocol)
       /\ packet.protocol # "unknown"
       /\ packet.transport_header_length \in Nat
       /\ packet.transport_header_length >= UdpHeader
       /\ TransportOffset + packet.transport_header_length <= frame.len
       /\ packet.protocol \in {"tcp", "udp"} =>
            packet.src_port = frame.src_port /\ packet.dst_port = frame.dst_port
  ELSE packet.transport_header_length = 0

\* How far the parser is, and what it answers when it stops.
Progress ==
  /\ at = "ethernet"  => ~ packet.ethernet_valid
  /\ at = "ipv4"      => packet.ethernet_valid /\ IsIpv4 /\ ~ packet.ipv4_valid
  /\ at = "transport" => packet.ipv4_valid /\ ~ packet.transport_valid
  /\ at = "payload"   => packet.transport_valid
  /\ result = "none" <=> ~ Parsed
  /\ Parsed => (packet.transport_valid <=> result = "success")
  /\ result = "success" =>
       /\ packet.payload_offset = TransportOffset + packet.transport_header_length
       /\ packet.payload_length = frame.len - packet.payload_offset

ParserInv ==
  /\ ParserTypes
  /\ LinearHeadersSuffice
  /\ EthernetParsed
  /\ Ipv4Parsed
  /\ TransportParsed
  /\ Progress
  /\ ~ packet.ethernet_valid => ~ packet.ipv4_valid
  /\ ~ packet.ipv4_valid => ~ packet.transport_valid
  /\ UnsupportedIsExact

\* What is read off the frame alone does not change.
LEMMA FrameStays ==
  ASSUME frame' = frame
  PROVE  /\ ShowsEthernet' <=> ShowsEthernet
         /\ ShowsAddresses' <=> ShowsAddresses
         /\ ShowsProtocol' <=> ShowsProtocol
         /\ ShowsPorts' <=> ShowsPorts
         /\ Seen' = Seen
         /\ HeadersEnd' = HeadersEnd
<1>1. (ShowsEthernet' <=> ShowsEthernet) /\ (ShowsAddresses' <=> ShowsAddresses)
  BY DEF ShowsEthernet, ShowsAddresses, IsIpv4
<1>2. ShowsProtocol' <=> ShowsProtocol
  BY <1>1 DEF ShowsProtocol
<1>3. ShowsPorts' <=> ShowsPorts
  BY <1>2 DEF ShowsPorts
<1>4. Seen' = Seen
  BY <1>1, <1>2, <1>3 DEF Seen
<1>5. HeadersEnd' = HeadersEnd
  BY DEF HeadersEnd, IsIpv4
<1> QED
  BY <1>1, <1>2, <1>3, <1>4, <1>5

\* The fields by their names.
LEMMA FieldNames ==
  Fields = {"protocol", "ethernet_valid", "ipv4_valid", "transport_valid",
            "ethernet_header_length", "ip_header_length", "transport_header_length",
            "payload_offset", "payload_length", "src_mac", "dst_mac", "src_ip", "dst_ip",
            "src_port", "dst_port"}
BY DEF Fields, EmptyPacket

\* Initially nothing is parsed.
LEMMA InitParserInv == Init => ParserInv
<1> SUFFICES ASSUME Init PROVE ParserInv
  OBVIOUS
<1>1. frame.len \in Nat
  BY FramesAssumption DEF Init
<1>2. ParserTypes
  <2>1. EmptyPacket = [x \in Fields |-> EmptyPacket[x]]
    BY FieldNames DEF EmptyPacket
  <2>2. /\ EmptyPacket.protocol = "unknown" /\ EmptyPacket.payload_length = 0
        /\ ~ EmptyPacket.ethernet_valid /\ ~ EmptyPacket.ipv4_valid
        /\ ~ EmptyPacket.transport_valid
        /\ {EmptyPacket.ethernet_valid, EmptyPacket.ipv4_valid,
            EmptyPacket.transport_valid} \subseteq BOOLEAN
    BY DEF EmptyPacket
  <2>3. DOMAIN packet = Fields /\ packet = [x \in Fields |-> packet[x]]
    BY <2>1 DEF Init, Fields
  <2>4. frame \in Frames /\ at \in Layers /\ result \in Results /\ matched \in BOOLEAN
    BY DEF Init, Layers, Results
  <2>5. packet.protocol \in Protocols /\ packet.payload_length \in 0 .. frame.len
    BY <1>1, <2>2 DEF Init, Protocols
  <2>6. QED
    BY <2>2, <2>3, <2>4, <2>5 DEF Init, ParserTypes
<1>3. LinearHeadersSuffice
  BY DEF Init, LinearHeadersSuffice
<1>4. EthernetParsed /\ Ipv4Parsed /\ TransportParsed
  BY DEF Init, EthernetParsed, Ipv4Parsed, TransportParsed, EmptyPacket
<1>5. Progress
  BY DEF Init, Progress, Parsed, EmptyPacket
<1>6. UnsupportedIsExact
  BY DEF Init, UnsupportedIsExact, Parsed
<1>7. QED
  BY <1>2, <1>3, <1>4, <1>5, <1>6 DEF ParserInv, Init, EmptyPacket

\* pf_parse_ethernet preserves the invariant.
LEMMA EthernetStep == ParserInv /\ ParseEthernet => ParserInv'
<1> SUFFICES ASSUME ParserInv, ParseEthernet PROVE ParserInv'
  OBVIOUS
<1>0. frame.len \in Nat /\ frame' = frame /\ matched' = matched /\ at = "ethernet"
  BY FramesAssumption DEF ParserInv, ParserTypes, ParseEthernet, matchVars
<1>1. LinearHeadersSuffice'
  BY DEF ParseEthernet, Return, GoOn, LinearHeadersSuffice
<1>2. ~ packet.ethernet_valid /\ ~ packet.ipv4_valid /\ ~ packet.transport_valid
      /\ result = "none"
  BY <1>0 DEF ParserInv, Progress, Parsed
<1>3. CASE ~ HasData(0, EthernetHeader)
  <2>1. packet' = packet /\ result' = "truncated" /\ at' = "match"
    BY <1>3 DEF ParseEthernet, Return
  <2>2. ParserTypes'
    BY <1>0, <2>1 DEF ParserInv, ParserTypes, Layers, Results
  <2>3. QED
    BY <1>0, <1>1, <1>2, <2>1, <2>2
    DEF ParserInv, EthernetParsed, Ipv4Parsed, TransportParsed, Progress, Parsed,
        TransportOffset, IsIpv4, UnsupportedIsExact
<1>4. CASE HasData(0, EthernetHeader)
  <2>1. packet' = [packet EXCEPT !.ethernet_valid = TRUE,
                                 !.ethernet_header_length = EthernetHeader,
                                 !.src_mac = frame.src_mac, !.dst_mac = frame.dst_mac]
    BY <1>4 DEF ParseEthernet
  <2>2. IF IsIpv4 THEN at' = "ipv4" /\ result' = result
        ELSE at' = "match" /\ result' = "unsupported"
    BY <1>4 DEF ParseEthernet, Return, GoOn
  <2>3. /\ packet'.ethernet_valid /\ packet'.ethernet_header_length = EthernetHeader
        /\ packet'.src_mac = frame.src_mac /\ packet'.dst_mac = frame.dst_mac
        /\ \A x \in Fields \ {"ethernet_valid", "ethernet_header_length", "src_mac",
                               "dst_mac"} : packet'[x] = packet[x]
        /\ DOMAIN packet' = Fields /\ packet' = [x \in Fields |-> packet'[x]]
    BY <2>1, FieldNames DEF ParserInv, ParserTypes
  <2>4. ParserTypes'
    BY <1>0, <1>2, <2>2, <2>3, FieldNames DEF ParserInv, ParserTypes, Layers, Results
  <2>5. EthernetHeader <= frame.len
    BY <1>0, <1>4 DEF HasData, EthernetHeader
  <2>6. EthernetParsed' /\ Ipv4Parsed' /\ TransportParsed'
    BY <1>0, <1>2, <2>3, <2>5, FieldNames, FrameStays
    DEF ParserInv, EthernetParsed, Ipv4Parsed, TransportParsed
  <2>7. QED
    BY <1>0, <1>1, <1>2, <2>2, <2>3, <2>4, <2>6, FieldNames
    DEF ParserInv, Progress, Parsed, IsIpv4, UnsupportedIsExact
<1>5. QED
  BY <1>3, <1>4

\* pf_parse_ipv4 preserves the invariant.
LEMMA Ipv4Step == ParserInv /\ ParseIpv4 => ParserInv'
<1> SUFFICES ASSUME ParserInv, ParseIpv4 PROVE ParserInv'
  OBVIOUS
<1> DEFINE code   == Ipv4Result(packet.ethernet_header_length)
           parsed == [packet EXCEPT !.src_ip = frame.src_ip, !.dst_ip = frame.dst_ip]
<1>0. /\ frame.len \in Nat /\ frame.ihl \in Nat
      /\ frame' = frame /\ matched' = matched /\ at = "ipv4"
  BY FramesAssumption DEF ParserInv, ParserTypes, ParseIpv4, matchVars
<1>1. /\ packet.ethernet_valid /\ IsIpv4 /\ result = "none"
      /\ packet.ethernet_header_length = 14
      /\ ~ packet.ipv4_valid /\ ~ packet.transport_valid
  BY <1>0 DEF ParserInv, Progress, Parsed, EthernetParsed, EthernetHeader
<1>2. LinearHeadersSuffice'
  BY DEF ParseIpv4, Return, GoOn, LinearHeadersSuffice
<1>3. code \in {"success", "truncated", "invalid"}
  BY DEF Ipv4Result
<1>4. CASE /\ at' = "match" /\ result' \in {"truncated", "invalid"}
           /\ packet' \in {packet, parsed}
  <2>1. /\ \A x \in Fields \ {"src_ip", "dst_ip"} : packet'[x] = packet[x]
        /\ DOMAIN packet' = Fields /\ packet' = [x \in Fields |-> packet'[x]]
    BY <1>4, FieldNames DEF ParserInv, ParserTypes
  <2>2. ParserTypes'
    BY <1>0, <1>4, <2>1, FieldNames DEF ParserInv, ParserTypes, Layers, Results
  <2>3. EthernetParsed' /\ Ipv4Parsed' /\ TransportParsed'
    BY <1>0, <1>1, <2>1, FieldNames, FrameStays
    DEF ParserInv, EthernetParsed, Ipv4Parsed, TransportParsed
  <2>4. QED
    BY <1>0, <1>1, <1>2, <1>4, <2>1, <2>2, <2>3, FieldNames
    DEF ParserInv, Progress, Parsed, IsIpv4, UnsupportedIsExact
<1>5. CASE /\ code = "success"
           /\ ValidIpv4
           /\ packet' = [parsed EXCEPT !.ipv4_valid = TRUE,
                                       !.ip_header_length = frame.ihl * 4]
           /\ at' = "transport" /\ result' = result
  <2>1. /\ packet'.ipv4_valid /\ packet'.ip_header_length = frame.ihl * 4
        /\ packet'.src_ip = frame.src_ip /\ packet'.dst_ip = frame.dst_ip
        /\ \A x \in Fields \ {"src_ip", "dst_ip", "ipv4_valid", "ip_header_length"} :
             packet'[x] = packet[x]
        /\ DOMAIN packet' = Fields /\ packet' = [x \in Fields |-> packet'[x]]
    BY <1>5, FieldNames DEF ParserInv, ParserTypes
  <2>2. frame.ihl >= 5 /\ 14 + frame.ihl * 4 <= frame.len
    BY <1>0, <1>1, <1>5 DEF Ipv4Result, HasData
  <2>3. ParserTypes'
    BY <1>0, <1>1, <1>5, <2>1, FieldNames DEF ParserInv, ParserTypes, Layers, Results
  <2>6. ShowsProtocol'
    <3>1. ShowsProtocol
      BY <1>1, <1>5, <2>2 DEF Ipv4Result, ShowsProtocol, ShowsAddresses, EthernetHeader,
         ValidIpv4
    <3> QED
      BY <1>0, <3>1, FrameStays
  <2>4. EthernetParsed' /\ Ipv4Parsed' /\ TransportParsed'
    BY <1>0, <1>1, <2>1, <2>2, <2>6, FieldNames, FrameStays
    DEF ParserInv, EthernetParsed, Ipv4Parsed, TransportParsed, TransportOffset, IsIpv4
  <2>5. QED
    BY <1>0, <1>1, <1>2, <1>5, <2>1, <2>3, <2>4, FieldNames
    DEF ParserInv, Progress, Parsed, IsIpv4, UnsupportedIsExact
<1>6. QED
  BY <1>3, <1>4, <1>5 DEF ParseIpv4, Return, GoOn

\* pf_packet_protocol_supported and pf_protocol_from_ip_header agree.
LEMMA SupportedIsNamed ==
  ASSUME NEW number
  PROVE  /\ ProtocolFromIpHeader(number) \in Protocols
         /\ ProtocolSupported(number) <=> ProtocolFromIpHeader(number) # "unknown"
BY DEF ProtocolFromIpHeader, ProtocolSupported, Protocols

\* What a transport parser answers, and what a success says.
LEMMA TransportAnswers ==
  ASSUME frame.len \in Nat, frame.doff \in Nat, NEW protocol \in Protocols,
         NEW offset \in Nat
  PROVE  /\ TransportResult(protocol, offset)
              \in {"success", "truncated", "invalid", "unsupported"}
         /\ TransportResult(protocol, offset) = "unsupported" <=> protocol = "unknown"
         /\ TransportResult(protocol, offset) = "success" =>
              /\ TransportLength(protocol) \in Nat
              /\ TransportLength(protocol) >= 8
              /\ offset + TransportLength(protocol) <= frame.len
<1>1. CASE protocol = "unknown"
  BY <1>1 DEF TransportResult
<1>2. CASE protocol = "tcp"
  BY <1>2 DEF TransportResult, TcpResult, HasData, TransportLength
<1>3. CASE protocol = "udp"
  BY <1>3 DEF TransportResult, UdpResult, HasData, TransportLength, TransportHeader, UdpHeader
<1>4. CASE protocol = "icmp"
  BY <1>4 DEF TransportResult, IcmpResult, HasData, TransportLength, TransportHeader, IcmpHeader
<1>5. QED
  BY <1>1, <1>2, <1>3, <1>4 DEF Protocols

\* pf_parse_tcp, pf_parse_udp and pf_parse_icmp preserve the invariant.
LEMMA TransportStep == ParserInv /\ ParseTransport => ParserInv'
<1> SUFFICES ASSUME ParserInv, ParseTransport PROVE ParserInv'
  OBVIOUS
<1> DEFINE protocol == ProtocolFromIpHeader(frame.protocol)
           code     == TransportResult(protocol, TransportOffset)
           named    == [packet EXCEPT !.protocol = protocol]
           stored   == protocol = "udp" /\ code = "invalid"
           ported   == IF protocol \in {"tcp", "udp"} /\ (stored \/ code = "success")
                       THEN [named EXCEPT !.src_port = frame.src_port,
                                          !.dst_port = frame.dst_port]
                       ELSE named
<1>0. /\ frame.len \in Nat /\ frame.doff \in Nat /\ frame.ihl \in Nat
      /\ frame' = frame /\ matched' = matched /\ at = "transport"
  BY FramesAssumption DEF ParserInv, ParserTypes, ParseTransport, matchVars
<1>1. /\ packet.ethernet_valid /\ packet.ipv4_valid /\ ~ packet.transport_valid
      /\ IsIpv4 /\ result = "none"
      /\ TransportOffset \in Nat
  BY <1>0 DEF ParserInv, Progress, Parsed, Ipv4Parsed, EthernetParsed, TransportOffset,
              EthernetHeader
<1>2. /\ protocol \in Protocols
      /\ ProtocolSupported(frame.protocol) <=> protocol # "unknown"
  BY SupportedIsNamed
<1>3. /\ code \in {"success", "truncated", "invalid", "unsupported"}
      /\ code = "unsupported" <=> protocol = "unknown"
      /\ code = "success" => /\ TransportLength(protocol) \in Nat
                             /\ TransportLength(protocol) >= 8
                             /\ TransportOffset + TransportLength(protocol) <= frame.len
  BY <1>0, <1>1, <1>2, TransportAnswers
<1>4. LinearHeadersSuffice'
  BY DEF ParseTransport, Return, GoOn, LinearHeadersSuffice
<1> HIDE DEF protocol, code
<1>5. /\ ported.protocol = protocol
      /\ code = "success" /\ protocol \in {"tcp", "udp"} =>
           ported.src_port = frame.src_port /\ ported.dst_port = frame.dst_port
      /\ \A x \in Fields \ {"protocol", "src_port", "dst_port"} : ported[x] = packet[x]
      /\ DOMAIN ported = Fields /\ ported = [x \in Fields |-> ported[x]]
  BY FieldNames DEF ParserInv, ParserTypes
<1> HIDE DEF ported
<1>6. CASE code # "success" /\ result' = code /\ at' = "match" /\ packet' = ported
  <2>1. ParserTypes'
    BY <1>0, <1>1, <1>2, <1>3, <1>5, <1>6, FieldNames
    DEF ParserInv, ParserTypes, Layers, Results
  <2>2. EthernetParsed' /\ Ipv4Parsed' /\ TransportParsed'
    BY <1>0, <1>1, <1>5, <1>6, FieldNames, FrameStays
    DEF ParserInv, EthernetParsed, Ipv4Parsed, TransportParsed, TransportOffset, IsIpv4
  <2>3. QED
    BY <1>0, <1>1, <1>2, <1>3, <1>4, <1>5, <1>6, <2>1, <2>2, FieldNames
    DEF ParserInv, Progress, Parsed, IsIpv4, UnsupportedIsExact
<1>7. CASE /\ code = "success" /\ at' = "payload" /\ result' = result
           /\ packet' = [ported EXCEPT !.transport_valid = TRUE,
                                       !.transport_header_length = TransportLength(protocol)]
  <2>1. /\ packet'.protocol = protocol
        /\ protocol \in {"tcp", "udp"} =>
             packet'.src_port = frame.src_port /\ packet'.dst_port = frame.dst_port
        /\ packet'.transport_valid
        /\ packet'.transport_header_length = TransportLength(protocol)
        /\ \A x \in Fields \ {"protocol", "src_port", "dst_port", "transport_valid",
                               "transport_header_length"} : packet'[x] = packet[x]
        /\ DOMAIN packet' = Fields /\ packet' = [x \in Fields |-> packet'[x]]
    BY <1>5, <1>7, FieldNames
  <2>2. ParserTypes'
    BY <1>0, <1>1, <1>2, <1>7, <2>1, FieldNames DEF ParserInv, ParserTypes, Layers, Results
  <2>3. EthernetParsed' /\ Ipv4Parsed'
    BY <1>0, <1>1, <2>1, FieldNames, FrameStays
    DEF ParserInv, EthernetParsed, Ipv4Parsed, TransportOffset, IsIpv4
  <2>4. TransportOffset' = TransportOffset
    BY <2>1, FieldNames DEF TransportOffset
  <2>5. TransportParsed'
    BY <1>0, <1>1, <1>2, <1>3, <1>7, <2>1, <2>4, FieldNames
    DEF TransportParsed, UdpHeader, protocol
  <2>6. QED
    BY <1>0, <1>1, <1>4, <1>7, <2>1, <2>2, <2>3, <2>5, FieldNames
    DEF ParserInv, Progress, Parsed, IsIpv4, UnsupportedIsExact
<1>8. QED
  BY <1>3, <1>6, <1>7 DEF ParseTransport, Return, GoOn, protocol, code, ported

\* pf_calculate_payload preserves the invariant.
LEMMA PayloadStep == ParserInv /\ SetPayload => ParserInv'
<1> SUFFICES ASSUME ParserInv, SetPayload PROVE ParserInv'
  OBVIOUS
<1> DEFINE offset == TransportOffset + packet.transport_header_length
           left   == IF offset < frame.len THEN frame.len - offset ELSE 0
<1>0. /\ frame.len \in Nat /\ frame.ihl \in Nat
      /\ frame' = frame /\ matched' = matched /\ at = "payload"
      /\ at' = "match" /\ result' = "success"
  BY FramesAssumption DEF ParserInv, ParserTypes, SetPayload, Return, matchVars
<1>1. /\ packet.ethernet_valid /\ packet.ipv4_valid /\ packet.transport_valid
      /\ IsIpv4 /\ result = "none"
      /\ offset \in Nat /\ offset <= frame.len
      /\ packet.protocol # "unknown"
      /\ packet.protocol = ProtocolFromIpHeader(frame.protocol)
  BY <1>0 DEF ParserInv, Progress, Parsed, Ipv4Parsed, EthernetParsed, TransportParsed,
              TransportOffset, EthernetHeader
<1>2. left = frame.len - offset /\ left \in 0 .. frame.len
  BY <1>0, <1>1
<1> HIDE DEF offset, left
<1>3. /\ packet'.payload_offset = offset /\ packet'.payload_length = left
      /\ \A x \in Fields \ {"payload_offset", "payload_length"} : packet'[x] = packet[x]
      /\ DOMAIN packet' = Fields /\ packet' = [x \in Fields |-> packet'[x]]
  BY FieldNames DEF ParserInv, ParserTypes, SetPayload, offset, left
<1>4. ParserTypes'
  BY <1>0, <1>2, <1>3, FieldNames DEF ParserInv, ParserTypes, Layers, Results
<1>5. /\ EthernetParsed' /\ Ipv4Parsed' /\ TransportParsed'
      /\ TransportOffset' + packet'.transport_header_length = offset
  BY <1>0, <1>1, <1>3, FieldNames, FrameStays
  DEF ParserInv, EthernetParsed, Ipv4Parsed, TransportParsed, TransportOffset, IsIpv4, offset
<1>6. Progress'
  BY <1>0, <1>1, <1>2, <1>3, <1>5, FieldNames DEF Progress, Parsed
<1>7. ProtocolSupported(frame.protocol)
  BY <1>1, SupportedIsNamed
<1>8. QED
  BY <1>0, <1>1, <1>3, <1>4, <1>5, <1>6, <1>7, FieldNames
  DEF ParserInv, LinearHeadersSuffice, Parsed, IsIpv4, UnsupportedIsExact

\* Where the parser looks behind the linear part, that part ends inside the
\* headers: ReadFragment preserves the invariant.
LEMMA FragmentStep == ParserInv /\ ReadFragment => ParserInv'
<1> SUFFICES ASSUME ParserInv, ReadFragment PROVE ParserInv'
  OBVIOUS
<1> DEFINE protocol == ProtocolFromIpHeader(frame.protocol)
<1>0. /\ frame.len \in Nat /\ frame.headlen \in Nat /\ frame.ihl \in Nat
      /\ at' = "fault" /\ UNCHANGED <<frame, packet, result, rule, matched>>
  BY FramesAssumption DEF ParserInv, ParserTypes, ReadFragment, matchVars
<1>1. TransportHeader(protocol) \in Nat
  BY DEF TransportHeader, TcpHeader, UdpHeader, IcmpHeader
<1>2. ~ IsIpv4 => HeadersEnd = 14
  BY DEF HeadersEnd, EthernetHeader
<1>3. IsIpv4 => HeadersEnd \in Nat /\ HeadersEnd >= 15
  BY <1>0, <1>1 DEF HeadersEnd, EthernetHeader
<1>4. IsIpv4 /\ frame.ihl >= 5 =>
        HeadersEnd = 14 + frame.ihl * 4 + TransportHeader(protocol)
  BY <1>0, <1>1 DEF HeadersEnd, EthernetHeader
<1>5. frame.headlen < frame.len /\ frame.headlen < HeadersEnd
  <2>1. CASE at = "ethernet"
    <3>1. ~ Linear(0, EthernetLook)
      BY <2>1 DEF ReadFragment
    <3>2. 14 <= frame.len /\ frame.headlen < 14
      BY <1>0, <3>1 DEF Linear, EthernetLook, HasData, EthernetHeader
    <3>3. HeadersEnd >= 14 /\ HeadersEnd \in Nat
      BY <1>0, <1>1 DEF HeadersEnd, EthernetHeader
    <3> QED
      BY <1>0, <3>2, <3>3
  <2>2. CASE at = "ipv4"
    <3>1. ~ Linear(14, Ipv4Look(14)) /\ IsIpv4
      BY <2>2 DEF ReadFragment, ParserInv, Progress, EthernetParsed, EthernetHeader
    <3>2. HasData(14, 20) /\ 34 <= frame.len
      BY <1>0, <3>1 DEF Linear, Ipv4Look, HasData, Ipv4Header
    <3>3. CASE Ipv4Result(14) # "success"
      <4>1. Ipv4Look(14) = 1
        BY <3>2, <3>3 DEF Ipv4Look, Ipv4Header
      <4> QED
        BY <1>0, <1>3, <3>1, <3>2, <4>1 DEF Linear
    <3>4. CASE Ipv4Result(14) = "success"
      <4>1. Ipv4Look(14) = 20 /\ frame.ihl >= 5
        BY <1>0, <3>2, <3>4 DEF Ipv4Look, Ipv4Header, Ipv4Result
      <4> QED
        BY <1>0, <1>1, <1>4, <3>1, <3>2, <4>1 DEF Linear
    <3> QED
      BY <3>3, <3>4
  <2>3. CASE at = "transport"
    <3>1. /\ ~ Linear(TransportOffset, TransportLook(protocol, TransportOffset))
          /\ IsIpv4 /\ frame.ihl >= 5 /\ TransportOffset = 14 + frame.ihl * 4
      BY <2>3 DEF ReadFragment, ParserInv, Progress, EthernetParsed, Ipv4Parsed,
         TransportOffset, EthernetHeader
    <3>2. /\ HasData(TransportOffset, TransportHeader(protocol))
          /\ TransportLook(protocol, TransportOffset) <= TransportHeader(protocol)
          /\ TransportLook(protocol, TransportOffset) \in Nat
      BY <1>1, <3>1 DEF Linear, TransportLook, TransportHeader, TcpHeader
    <3>3. TransportOffset + TransportHeader(protocol) <= frame.len
      BY <1>0, <1>1, <3>1, <3>2 DEF HasData
    <3>4. frame.headlen < TransportOffset + TransportLook(protocol, TransportOffset)
      BY <1>0, <3>1, <3>2 DEF Linear
    <3> HIDE DEF protocol
    <3> QED
      BY <1>0, <1>1, <1>4, <3>1, <3>2, <3>3, <3>4
  <2> QED
    BY <2>1, <2>2, <2>3 DEF ReadFragment
<1>6. LinearHeadersSuffice'
  BY <1>0, <1>5, FrameStays DEF LinearHeadersSuffice
<1>7. ~ Parsed /\ ~ Parsed'
  BY <1>0 DEF ReadFragment, Parsed
<1>8. ParserTypes'
  BY <1>0 DEF ParserInv, ParserTypes, Layers
<1> QED
  BY <1>0, <1>6, <1>7, <1>8, FrameStays
  DEF ParserInv, EthernetParsed, Ipv4Parsed, TransportParsed, TransportOffset, Progress,
      IsIpv4, UnsupportedIsExact

\* pf_rule_engine_rule_matches preserves the invariant.
LEMMA MatchStep == ParserInv /\ Match => ParserInv'
<1> SUFFICES ASSUME ParserInv, Match PROVE ParserInv'
  OBVIOUS
<1>1. /\ at = "match" /\ at' = "done" /\ UNCHANGED <<frame, packet, result>>
      /\ matched' \in BOOLEAN
  BY DEF Match, RuleMatches
<1>2. ParserTypes'
  BY <1>1 DEF ParserInv, ParserTypes, Layers
<1> QED
  BY <1>1, <1>2, FrameStays
  DEF ParserInv, LinearHeadersSuffice, EthernetParsed, Ipv4Parsed, TransportParsed,
      TransportOffset, Progress, Parsed, IsIpv4, UnsupportedIsExact

\* Every step preserves it.
LEMMA ParserStep == ParserInv /\ [Next]_vars => ParserInv'
<1>1. ASSUME ParserInv, UNCHANGED vars PROVE ParserInv'
  <2>1. UNCHANGED <<frame, at, packet, result, rule, matched>>
    BY <1>1 DEF vars, matchVars
  <2>2. ParserTypes' /\ EthernetParsed' /\ Ipv4Parsed' /\ TransportParsed'
    BY <1>1, <2>1, FrameStays
    DEF ParserInv, ParserTypes, EthernetParsed, Ipv4Parsed, TransportParsed,
        TransportOffset, IsIpv4
  <2>3. Progress' /\ UnsupportedIsExact' /\ LinearHeadersSuffice'
    BY <1>1, <2>1, FrameStays
    DEF ParserInv, Progress, Parsed, TransportOffset, IsIpv4, UnsupportedIsExact,
        LinearHeadersSuffice
  <2>4. QED
    BY <1>1, <2>1, <2>2, <2>3 DEF ParserInv
<1>2. QED
  BY <1>1, EthernetStep, Ipv4Step, TransportStep, PayloadStep, FragmentStep, MatchStep
  DEF Next

\* The invariant holds in every state.
LEMMA ParserInvHolds == Spec => []ParserInv
  BY InitParserInv, ParserStep, PTL DEF Spec

-----------------------------------------------------------------------------
(* What the fields of a parsed packet hold.                                *)

\* What a layer fills in is empty until then.
Unfilled ==
  /\ ~ packet.ethernet_valid => packet.src_mac = {} /\ packet.dst_mac = {}
  /\ at \in {"ethernet", "ipv4"} => packet.src_ip = {} /\ packet.dst_ip = {}
  /\ at \in {"ethernet", "ipv4", "transport"} =>
       /\ packet.protocol = "unknown"
       /\ packet.src_port = <<0, 0>> /\ packet.dst_port = <<0, 0>>

\* The fields rules look at are what the frame shows.
IsSeen ==
  /\ packet.src_mac = Seen.src_mac /\ packet.dst_mac = Seen.dst_mac
  /\ packet.src_ip = Seen.src_ip /\ packet.dst_ip = Seen.dst_ip
  /\ packet.protocol = ProtocolFromIpHeader(Seen.protocol)
  /\ packet.src_port = Seen.src_port /\ packet.dst_port = Seen.dst_port

SeenInv ==
  /\ Unfilled
  /\ at \in {"payload", "match", "done"} => IsSeen
  /\ MatchIsOnFrame

\* The fields of what a frame shows, by how much it shows.
LEMMA SeenFields ==
  /\ Seen.dev = frame.dev
  /\ Seen.src_mac = IF ShowsEthernet THEN frame.src_mac ELSE {}
  /\ Seen.dst_mac = IF ShowsEthernet THEN frame.dst_mac ELSE {}
  /\ Seen.src_ip = IF ShowsAddresses THEN frame.src_ip ELSE {}
  /\ Seen.dst_ip = IF ShowsAddresses THEN frame.dst_ip ELSE {}
  /\ Seen.protocol = IF ShowsProtocol THEN frame.protocol ELSE 0
  /\ Seen.src_port = IF ShowsPorts THEN frame.src_port ELSE <<0, 0>>
  /\ Seen.dst_port = IF ShowsPorts THEN frame.dst_port ELSE <<0, 0>>
BY DEF Seen

\* What shows more shows less.
LEMMA ShowsNest ==
  ASSUME frame.len \in Nat, frame.ihl \in Nat
  PROVE  /\ ShowsPorts => ShowsProtocol
         /\ ShowsProtocol => ShowsAddresses
         /\ ShowsAddresses => ShowsEthernet /\ IsIpv4
BY DEF ShowsPorts, ShowsProtocol, ShowsAddresses, ShowsEthernet, EthernetHeader

\* No protocol of a header is taken for the 0 that stands for none.
LEMMA NoProtocol == ProtocolFromIpHeader(0) = "unknown"
BY DEF ProtocolFromIpHeader

\* pf_parse_ethernet fills in the addresses or leaves nothing.
LEMMA SeenEthernet == ParserInv /\ SeenInv /\ ParseEthernet => SeenInv'
<1> SUFFICES ASSUME ParserInv, SeenInv, ParseEthernet PROVE SeenInv'
  OBVIOUS
<1>0. /\ frame.len \in Nat /\ frame.ihl \in Nat /\ frame' = frame /\ at = "ethernet"
      /\ ~ packet.ethernet_valid /\ DOMAIN packet = Fields
  BY FramesAssumption DEF ParserInv, ParserTypes, Progress, ParseEthernet
<1>1. /\ packet.src_mac = {} /\ packet.dst_mac = {} /\ packet.src_ip = {}
      /\ packet.dst_ip = {} /\ packet.protocol = "unknown"
      /\ packet.src_port = <<0, 0>> /\ packet.dst_port = <<0, 0>>
  BY <1>0 DEF SeenInv, Unfilled
<1>2. Seen' = Seen
  BY <1>0, FrameStays
<1>3. HasData(0, EthernetHeader) <=> ShowsEthernet
  BY <1>0 DEF HasData, ShowsEthernet, EthernetHeader
<1>4. CASE ~ ShowsEthernet
  <2>1. packet' = packet /\ at' = "match"
    BY <1>3, <1>4 DEF ParseEthernet, Return
  <2>2. IsSeen
    BY <1>0, <1>1, <1>4, SeenFields, ShowsNest, NoProtocol DEF IsSeen
  <2>3. IsSeen'
    BY <1>2, <2>1, <2>2 DEF IsSeen
  <2> QED
    BY <1>1, <2>1, <2>3 DEF SeenInv, Unfilled, MatchIsOnFrame
<1>5. CASE ShowsEthernet
  <2>1. packet' = [packet EXCEPT !.ethernet_valid = TRUE,
                                 !.ethernet_header_length = EthernetHeader,
                                 !.src_mac = frame.src_mac, !.dst_mac = frame.dst_mac]
    BY <1>3, <1>5 DEF ParseEthernet
  <2>2. IF IsIpv4 THEN at' = "ipv4" ELSE at' = "match"
    BY <1>3, <1>5 DEF ParseEthernet, Return, GoOn
  <2>3. /\ packet'.ethernet_valid
        /\ packet'.src_mac = frame.src_mac /\ packet'.dst_mac = frame.dst_mac
        /\ packet'.src_ip = {} /\ packet'.dst_ip = {} /\ packet'.protocol = "unknown"
        /\ packet'.src_port = <<0, 0>> /\ packet'.dst_port = <<0, 0>>
    BY <1>0, <1>1, <2>1, FieldNames
  <2>4. Unfilled'
    BY <2>3 DEF Unfilled
  <2>5. ~ IsIpv4 => IsSeen'
    BY <1>0, <1>2, <1>5, <2>3, SeenFields, ShowsNest, NoProtocol DEF IsSeen
  <2> QED
    BY <2>2, <2>4, <2>5 DEF SeenInv, MatchIsOnFrame
<1> QED
  BY <1>4, <1>5

\* pf_parse_ipv4 and pf_validate_ipv4 accept a header as far as it shows.
LEMMA SeenIpv4 == ParserInv /\ SeenInv /\ ParseIpv4 => SeenInv'
<1> SUFFICES ASSUME ParserInv, SeenInv, ParseIpv4 PROVE SeenInv'
  OBVIOUS
<1> DEFINE parsed == [packet EXCEPT !.src_ip = frame.src_ip, !.dst_ip = frame.dst_ip]
<1>0. /\ frame.len \in Nat /\ frame.ihl \in Nat /\ frame' = frame /\ at = "ipv4"
      /\ packet.ethernet_valid /\ IsIpv4 /\ DOMAIN packet = Fields
      /\ packet.ethernet_header_length = 14 /\ 14 <= frame.len
      /\ packet.src_mac = frame.src_mac /\ packet.dst_mac = frame.dst_mac
  BY FramesAssumption
  DEF ParserInv, ParserTypes, Progress, ParseIpv4, EthernetParsed, EthernetHeader
<1>1. /\ packet.src_ip = {} /\ packet.dst_ip = {} /\ packet.protocol = "unknown"
      /\ packet.src_port = <<0, 0>> /\ packet.dst_port = <<0, 0>>
  BY <1>0 DEF SeenInv, Unfilled
<1>2. Seen' = Seen /\ ShowsEthernet
  BY <1>0, FrameStays DEF ShowsEthernet, EthernetHeader
<1>3. Ipv4Result(14) = "success" <=> ShowsAddresses
  BY <1>0 DEF Ipv4Result, HasData, ShowsAddresses, EthernetHeader, Ipv4Header
<1>4. ShowsProtocol <=> ShowsAddresses /\ ValidIpv4
  BY DEF ShowsProtocol, ValidIpv4
<1>5. CASE ~ ShowsAddresses
  <2>1. packet' = packet /\ at' = "match"
    BY <1>0, <1>3, <1>5 DEF ParseIpv4, Return
  <2>2. IsSeen'
    BY <1>0, <1>1, <1>2, <1>5, <2>1, SeenFields, ShowsNest, NoProtocol DEF IsSeen
  <2>3. Unfilled'
    BY <1>0, <2>1 DEF Unfilled
  <2> QED
    BY <2>1, <2>2, <2>3 DEF SeenInv, MatchIsOnFrame
<1>6. CASE ShowsAddresses /\ ~ ShowsProtocol
  <2>1. packet' = parsed /\ at' = "match"
    BY <1>0, <1>3, <1>4, <1>6 DEF ParseIpv4, Return
  <2>2. /\ packet'.src_ip = frame.src_ip /\ packet'.dst_ip = frame.dst_ip
        /\ \A x \in Fields \ {"src_ip", "dst_ip"} : packet'[x] = packet[x]
    BY <1>0, <2>1, FieldNames
  <2>3. IsSeen'
    BY <1>0, <1>1, <1>2, <1>6, <2>2, SeenFields, ShowsNest, NoProtocol, FieldNames DEF IsSeen
  <2>4. Unfilled'
    BY <1>0, <2>1, <2>2, FieldNames DEF Unfilled
  <2> QED
    BY <2>1, <2>3, <2>4 DEF SeenInv, MatchIsOnFrame
<1>7. CASE ShowsProtocol
  <2>1. /\ packet' = [parsed EXCEPT !.ipv4_valid = TRUE,
                                    !.ip_header_length = frame.ihl * 4]
        /\ at' = "transport"
    BY <1>0, <1>3, <1>4, <1>7 DEF ParseIpv4, GoOn
  <2>2. \A x \in Fields \ {"src_ip", "dst_ip", "ipv4_valid", "ip_header_length"} :
          packet'[x] = packet[x]
    BY <1>0, <2>1, FieldNames
  <2> QED
    BY <1>0, <1>1, <2>1, <2>2, FieldNames DEF SeenInv, Unfilled, MatchIsOnFrame
<1> QED
  BY <1>4, <1>5, <1>6, <1>7

\* pf_parse_tcp and pf_parse_udp store ports as far as they show.
LEMMA SeenTransport == ParserInv /\ SeenInv /\ ParseTransport => SeenInv'
<1> SUFFICES ASSUME ParserInv, SeenInv, ParseTransport PROVE SeenInv'
  OBVIOUS
<1> DEFINE protocol == ProtocolFromIpHeader(frame.protocol)
           code     == TransportResult(protocol, TransportOffset)
           named    == [packet EXCEPT !.protocol = protocol]
           stored   == protocol = "udp" /\ code = "invalid"
           ported   == IF protocol \in {"tcp", "udp"} /\ (stored \/ code = "success")
                       THEN [named EXCEPT !.src_port = frame.src_port,
                                          !.dst_port = frame.dst_port]
                       ELSE named
<1>0. /\ frame.len \in Nat /\ frame.ihl \in Nat /\ frame.doff \in Nat /\ frame' = frame
      /\ at = "transport" /\ DOMAIN packet = Fields
      /\ packet.ethernet_valid /\ ShowsProtocol
      /\ TransportOffset = 14 + frame.ihl * 4
      /\ packet.src_mac = frame.src_mac /\ packet.dst_mac = frame.dst_mac
      /\ packet.src_ip = frame.src_ip /\ packet.dst_ip = frame.dst_ip
  BY FramesAssumption
  DEF ParserInv, ParserTypes, Progress, ParseTransport, EthernetParsed, Ipv4Parsed,
      EthernetHeader, TransportOffset
<1>1. packet.src_port = <<0, 0>> /\ packet.dst_port = <<0, 0>>
  BY <1>0 DEF SeenInv, Unfilled
<1>2. Seen' = Seen /\ ShowsAddresses /\ ShowsEthernet
  BY <1>0, FrameStays, ShowsNest
<1>3. ShowsPorts <=> protocol \in {"tcp", "udp"} /\ (stored \/ code = "success")
  <2>1. CASE frame.protocol = 6
    <3>1. protocol = "tcp"
      BY <2>1 DEF ProtocolFromIpHeader
    <3>2. code = "success" <=>
            frame.doff >= 5 /\ 14 + frame.ihl * 4 + frame.doff * 4 <= frame.len
      BY <1>0, <3>1 DEF TransportResult, TcpResult, HasData, TcpHeader
    <3> QED
      BY <1>0, <2>1, <3>1, <3>2 DEF ShowsPorts, EthernetHeader
  <2>2. CASE frame.protocol = 17
    <3>1. protocol = "udp"
      BY <2>2 DEF ProtocolFromIpHeader
    <3>2. code \in {"success", "invalid"} <=> 14 + frame.ihl * 4 + 8 <= frame.len
      BY <1>0, <3>1 DEF TransportResult, UdpResult, HasData, UdpHeader
    <3> QED
      BY <1>0, <2>2, <3>1, <3>2 DEF ShowsPorts, EthernetHeader, UdpHeader
  <2>3. CASE frame.protocol \notin {6, 17}
    BY <2>3 DEF ProtocolFromIpHeader, ShowsPorts
  <2> QED
    BY <2>1, <2>2, <2>3
<1>4. /\ packet' = ported /\ at' = "match"
      \/ /\ at' = "payload"
         /\ packet' = [ported EXCEPT !.transport_valid = TRUE,
                                     !.transport_header_length = TransportLength(protocol)]
  BY DEF ParseTransport, Return, GoOn
<1> HIDE DEF code
<1>5. /\ ported.protocol = protocol
      /\ ported.src_port = Seen.src_port /\ ported.dst_port = Seen.dst_port
      /\ \A x \in Fields \ {"protocol", "src_port", "dst_port"} : ported[x] = packet[x]
      /\ DOMAIN ported = Fields
  BY <1>0, <1>1, <1>3, SeenFields, FieldNames
<1> HIDE DEF ported, protocol
<1>6. /\ packet'.protocol = protocol
      /\ packet'.src_port = Seen.src_port /\ packet'.dst_port = Seen.dst_port
      /\ \A x \in {"ethernet_valid", "src_mac", "dst_mac", "src_ip", "dst_ip"} :
           packet'[x] = packet[x]
  BY <1>4, <1>5, FieldNames
<1>7. protocol = ProtocolFromIpHeader(Seen.protocol)
  BY <1>0, SeenFields DEF protocol
<1>8. IsSeen'
  BY <1>0, <1>2, <1>6, <1>7, SeenFields DEF IsSeen
<1> QED
  BY <1>0, <1>4, <1>6, <1>8 DEF SeenInv, Unfilled, MatchIsOnFrame

\* AND with a mask on both sides compares exactly the bits of the mask.
LEMMA MaskedBits ==
  ASSUME NEW address, NEW of, NEW mask
  PROVE  AddressMatch(address, of, mask) <=> Agree(address, of, mask)
<1>1. ASSUME AddressMatch(address, of, mask), NEW bit \in mask
      PROVE  bit \in address <=> bit \in of
  BY <1>1 DEF AddressMatch
<1>2. ASSUME Agree(address, of, mask)
      PROVE  AddressMatch(address, of, mask)
  BY <1>2 DEF AddressMatch, Agree
<1>3. QED
  BY <1>1, <1>2 DEF Agree

\* ntohs of two bytes is a number.
LEMMA NtohsType == ASSUME NEW bytes \in Byte \X Byte PROVE Ntohs(bytes) \in Nat
<1>1. bytes[1] \in Nat /\ bytes[2] \in Nat
  BY DEF Byte
<1>2. \A high, low \in Nat : high * 256 + low \in Nat
  OBVIOUS
<1>3. bytes[1] * 256 + bytes[2] \in Nat
  BY <1>1, <1>2
<1>4. QED
  BY <1>3 DEF Ntohs

\* Of the protocols a rule can name, none is taken for another.
LEMMA NamesAreDistinct ==
  ASSUME NEW m, NEW n, m \in {6, 17, 1}
  PROVE  ProtocolFromIpHeader(m) = ProtocolFromIpHeader(n) <=> m = n
BY DEF ProtocolFromIpHeader

\* What a rule says of some fields, flag by flag.
LEMMA FlagByFlag ==
  ASSUME NEW f, NEW r, r.flags \subseteq Flags
  PROVE  Satisfies(f, r) <=>
           /\ r.enabled
           /\ "src_ip" \in r.flags => Agree(f.src_ip, r.src_ip, r.src_mask)
           /\ "dst_ip" \in r.flags => Agree(f.dst_ip, r.dst_ip, r.dst_mask)
           /\ "src_port" \in r.flags => InRange(f, f.src_port, r.src_first, r.src_last)
           /\ "dst_port" \in r.flags => InRange(f, f.dst_port, r.dst_first, r.dst_last)
           /\ "protocol" \in r.flags => r.protocol \in {0, f.protocol}
           /\ "src_mac" \in r.flags => Agree(f.src_mac, r.src_mac, r.src_mac_mask)
           /\ "dst_mac" \in r.flags => Agree(f.dst_mac, r.dst_mac, r.dst_mac_mask)
           /\ "interface" \in r.flags => f.dev # "none" /\ r.interface \in {"", f.dev}
<1> DEFINE holds == [src_ip    |-> Agree(f.src_ip, r.src_ip, r.src_mask),
                     dst_ip    |-> Agree(f.dst_ip, r.dst_ip, r.dst_mask),
                     src_port  |-> InRange(f, f.src_port, r.src_first, r.src_last),
                     dst_port  |-> InRange(f, f.dst_port, r.dst_first, r.dst_last),
                     protocol  |-> r.protocol \in {0, f.protocol},
                     src_mac   |-> Agree(f.src_mac, r.src_mac, r.src_mac_mask),
                     dst_mac   |-> Agree(f.dst_mac, r.dst_mac, r.dst_mac_mask),
                     interface |-> f.dev # "none" /\ r.interface \in {"", f.dev}]
<1>1. Satisfies(f, r) <=> r.enabled /\ \A flag \in r.flags : holds[flag]
  BY DEF Satisfies
<1>2. /\ holds["src_ip"] = Agree(f.src_ip, r.src_ip, r.src_mask)
      /\ holds["dst_ip"] = Agree(f.dst_ip, r.dst_ip, r.dst_mask)
      /\ holds["src_port"] = InRange(f, f.src_port, r.src_first, r.src_last)
      /\ holds["dst_port"] = InRange(f, f.dst_port, r.dst_first, r.dst_last)
      /\ holds["protocol"] = (r.protocol \in {0, f.protocol})
      /\ holds["src_mac"] = Agree(f.src_mac, r.src_mac, r.src_mac_mask)
      /\ holds["dst_mac"] = Agree(f.dst_mac, r.dst_mac, r.dst_mac_mask)
      /\ holds["interface"] = (f.dev # "none" /\ r.interface \in {"", f.dev})
  OBVIOUS
<1> HIDE DEF holds
<1>3. (\A flag \in r.flags : holds[flag]) <=> \A flag \in Flags : flag \in r.flags => holds[flag]
  OBVIOUS
<1>4. QED
  BY <1>1, <1>2, <1>3 DEF Flags

\* pf_rule_engine_rule_matches, of a packet parsed as far as it went, is what
\* the rule says of what the frame shows.
LEMMA MatchesSeen ==
  ASSUME ParserInv, IsSeen, NEW r \in Rules, ValidRule(r)
  PROVE  RuleMatches(r) <=> Satisfies(Seen, r)
<1>1. packet.protocol \in {"tcp", "udp"} <=> Seen.protocol \in {6, 17}
  BY DEF IsSeen, ProtocolFromIpHeader
<1>2. r.flags \subseteq Flags /\ r.enabled \in BOOLEAN
  BY RulesAssumption
<1>3. {Ntohs(packet.src_port), Ntohs(packet.dst_port), Ntohs(r.src_first),
       Ntohs(r.src_last), Ntohs(r.dst_first), Ntohs(r.dst_last)} \subseteq Nat
  <2>1. <<0, 0>> \in Byte \X Byte
    BY DEF Byte
  <2>2. packet.src_port \in Byte \X Byte /\ packet.dst_port \in Byte \X Byte
    BY <2>1, FramesAssumption, SeenFields DEF ParserInv, ParserTypes, IsSeen
  <2> QED
    BY <2>2, RulesAssumption, NtohsType
<1>4. "src_port" \in r.flags =>
        (PortsMatch("src_port", r, packet.src_port, r.src_first, r.src_last)
           <=> InRange(Seen, Seen.src_port, r.src_first, r.src_last))
  BY <1>1, <1>3 DEF IsSeen, PortsMatch, PortMatch, InRange, ValidRule
<1>5. "dst_port" \in r.flags =>
        (PortsMatch("dst_port", r, packet.dst_port, r.dst_first, r.dst_last)
           <=> InRange(Seen, Seen.dst_port, r.dst_first, r.dst_last))
  BY <1>1, <1>3 DEF IsSeen, PortsMatch, PortMatch, InRange, ValidRule
<1>6. "protocol" \in r.flags => (ProtocolMatch(r) <=> r.protocol \in {0, Seen.protocol})
  BY NamesAreDistinct DEF IsSeen, ProtocolMatch, ValidRule
<1>7. "interface" \in r.flags =>
        (InterfaceMatch(r) <=> Seen.dev # "none" /\ r.interface \in {"", Seen.dev})
  BY SeenFields DEF InterfaceMatch
<1>8. QED
  BY <1>2, <1>4, <1>5, <1>6, <1>7, FlagByFlag, MaskedBits
  DEF IsSeen, RuleMatches, PortsMatch, ProtocolMatch, InterfaceMatch

\* After a success nothing a rule asks for is hidden.
LEMMA SuccessShowsAll ==
  ASSUME ParserInv, IsSeen, Parsed, result = "success", NEW r \in Rules
  PROVE  Satisfies(Seen, r) <=> Satisfies(frame, r)
<1>0. frame.len \in Nat /\ frame.ihl \in Nat /\ r.flags \subseteq Flags
  BY FramesAssumption, RulesAssumption DEF ParserInv, ParserTypes
<1>1. /\ ShowsProtocol /\ ShowsAddresses /\ ShowsEthernet
      /\ packet.protocol = ProtocolFromIpHeader(frame.protocol)
      /\ packet.protocol \in {"tcp", "udp"} =>
           packet.src_port = frame.src_port /\ packet.dst_port = frame.dst_port
  BY <1>0, ShowsNest DEF ParserInv, Progress, TransportParsed, Ipv4Parsed
<1>2. frame.protocol \in {6, 17} =>
        Seen.src_port = frame.src_port /\ Seen.dst_port = frame.dst_port
  BY <1>1 DEF IsSeen, ProtocolFromIpHeader
<1>3. /\ Seen.dev = frame.dev /\ Seen.protocol = frame.protocol
      /\ Seen.src_mac = frame.src_mac /\ Seen.dst_mac = frame.dst_mac
      /\ Seen.src_ip = frame.src_ip /\ Seen.dst_ip = frame.dst_ip
  BY <1>1, SeenFields
<1>4. /\ InRange(Seen, Seen.src_port, r.src_first, r.src_last)
           <=> InRange(frame, frame.src_port, r.src_first, r.src_last)
      /\ InRange(Seen, Seen.dst_port, r.dst_first, r.dst_last)
           <=> InRange(frame, frame.dst_port, r.dst_first, r.dst_last)
  BY <1>2, <1>3 DEF InRange
<1> QED
  BY <1>0, <1>3, <1>4, FlagByFlag

\* A match decides by what the frame shows.
LEMMA SeenMatch == ParserInv /\ SeenInv /\ Match => SeenInv'
<1> SUFFICES ASSUME ParserInv, SeenInv, Match PROVE SeenInv'
  OBVIOUS
<1>1. PICK r \in Rules : ValidRule(r) /\ rule' = r /\ matched' = RuleMatches(r)
  BY DEF Match
<1>2. at = "match" /\ at' = "done" /\ UNCHANGED <<frame, packet, result>>
  BY DEF Match
<1>3. IsSeen /\ Parsed
  BY <1>2 DEF SeenInv, Parsed
<1>4. matched' <=> Satisfies(Seen, r)
  BY <1>1, <1>3, MatchesSeen
<1>5. result = "success" => (Satisfies(Seen, r) <=> Satisfies(frame, r))
  BY <1>3, SuccessShowsAll
<1>6. Seen' = Seen
  BY <1>2, FrameStays
<1>7. /\ Satisfies(Seen, rule)' <=> Satisfies(Seen, r)
      /\ Satisfies(frame, rule)' <=> Satisfies(frame, r)
  <2>1. \A f, q : Satisfies(f, q) <=> Satisfies(f, q)'
    BY DEF Satisfies, InRange
  <2> QED
    BY <1>1, <1>2, <1>6 DEF Satisfies, InRange
<1>8. MatchIsOnFrame'
  BY <1>2, <1>4, <1>5, <1>7 DEF MatchIsOnFrame
<1>9. IsSeen' /\ Unfilled'
  BY <1>2, <1>3, <1>6 DEF IsSeen, SeenInv, Unfilled
<1> QED
  BY <1>8, <1>9 DEF SeenInv

\* The payload is no field of a rule, and a read of a fragment is the end.
LEMMA SeenOthers == ParserInv /\ SeenInv /\ (SetPayload \/ ReadFragment) => SeenInv'
<1> SUFFICES ASSUME ParserInv, SeenInv, SetPayload \/ ReadFragment PROVE SeenInv'
  OBVIOUS
<1>1. CASE SetPayload
  <2>1. at = "payload" /\ at' = "match" /\ frame' = frame
    BY <1>1 DEF SetPayload, Return
  <2>2. /\ packet'.src_mac = packet.src_mac /\ packet'.dst_mac = packet.dst_mac
        /\ packet'.src_ip = packet.src_ip /\ packet'.dst_ip = packet.dst_ip
        /\ packet'.protocol = packet.protocol
        /\ packet'.src_port = packet.src_port /\ packet'.dst_port = packet.dst_port
        /\ packet'.ethernet_valid = packet.ethernet_valid
    BY <1>1, FieldNames DEF SetPayload, ParserInv, ParserTypes
  <2>3. IsSeen'
    BY <2>1, <2>2, FrameStays DEF SeenInv, IsSeen
  <2> QED
    BY <2>1, <2>2, <2>3 DEF SeenInv, Unfilled, MatchIsOnFrame
<1>2. CASE ReadFragment
  BY <1>2 DEF ReadFragment, SeenInv, Unfilled, MatchIsOnFrame
<1> QED
  BY <1>1, <1>2

\* It holds in every state.
LEMMA SeenInvHolds == Spec => []SeenInv
<1>1. Init => SeenInv
  BY DEF Init, SeenInv, Unfilled, EmptyPacket, MatchIsOnFrame
<1>2. ASSUME SeenInv, UNCHANGED vars PROVE SeenInv'
  <2>1. UNCHANGED <<frame, at, packet, result, rule, matched>>
    BY <1>2 DEF vars, matchVars
  <2>2. Seen' = Seen
    BY <2>1, FrameStays
  <2>3. Unfilled' /\ (at' \in {"payload", "match", "done"} => IsSeen')
    BY <1>2, <2>1, <2>2 DEF SeenInv, Unfilled, IsSeen
  <2>4. MatchIsOnFrame'
    BY <1>2, <2>1, <2>2, ZenonT(60) DEF SeenInv, MatchIsOnFrame, Satisfies, InRange
  <2> QED
    BY <2>3, <2>4 DEF SeenInv
<1>3. ParserInv /\ SeenInv /\ [Next]_vars => SeenInv'
  BY <1>2, SeenEthernet, SeenIpv4, SeenTransport, SeenMatch, SeenOthers DEF Next
<1>4. QED
  BY <1>1, <1>3, ParserInvHolds, PTL DEF Spec

-----------------------------------------------------------------------------
(* The properties.                                                         *)

\* Every variable has its type, and there is a result when parsing is over.
THEOREM ParserTypesHold == Spec => []TypeOK
<1>1. ParserInv => TypeOK
  BY FramesAssumption DEF ParserInv, ParserTypes, Progress, Fields, Layers, Results,
     Protocols, TypeOK
<1>2. QED
  BY <1>1, ParserInvHolds, PTL

\* For every frame, whatever lengths its headers claim: the parser reads behind
\* the linear part only where that part ends inside the headers.
THEOREM FragmentReadsHold == Spec => []LinearHeadersSuffice
<1>1. ParserInv => LinearHeadersSuffice
  BY DEF ParserInv
<1>2. QED
  BY <1>1, ParserInvHolds, PTL

\* The parsed headers lie inside the frame one after another, and after a
\* success the payload is what is left.
THEOREM HeadersHold == Spec => []HeadersFit
<1>1. ASSUME ParserInv PROVE HeadersFit
  <2>1. frame.len \in Nat /\ frame.ihl \in Nat
    BY <1>1, FramesAssumption DEF ParserInv, ParserTypes
  <2>2. TransportOffset + packet.transport_header_length <= frame.len
    BY <1>1, <2>1
    DEF ParserInv, EthernetParsed, Ipv4Parsed, TransportParsed, TransportOffset,
        EthernetHeader
  <2>3. ASSUME result = "success"
        PROVE  /\ packet.payload_offset >= EthernetHeader + Ipv4Header + UdpHeader
               /\ packet.payload_offset + packet.payload_length = frame.len
    BY <1>1, <2>1, <2>3
    DEF ParserInv, EthernetParsed, Ipv4Parsed, TransportParsed, TransportOffset, Progress,
        Parsed, EthernetHeader, Ipv4Header, UdpHeader
  <2>4. QED
    BY <2>2, <2>3 DEF HeadersFit
<1>2. QED
  BY <1>1, ParserInvHolds, PTL

\* pf_validate_packet accepts exactly what was parsed to the end.
THEOREM ValidityHolds == Spec => []ValidIffSuccess
<1>1. ParserInv => ValidIffSuccess
  BY DEF ParserInv, ValidIffSuccess, ValidPacket, TransportParsed, Progress
<1>2. QED
  BY <1>1, ParserInvHolds, PTL

\* "unsupported" is the answer for another ethertype or protocol, and only
\* for those.
THEOREM UnsupportedHolds == Spec => []UnsupportedIsExact
<1>1. ParserInv => UnsupportedIsExact
  BY DEF ParserInv
<1>2. QED
  BY <1>1, ParserInvHolds, PTL

\* For every frame, parsed to the end or given up at any layer: a rule matches
\* what the parser left if and only if it is satisfied by what the frame shows,
\* and after a success by the frame's own fields.
THEOREM MatchingHolds == Spec => []MatchIsOnFrame
<1>1. SeenInv => MatchIsOnFrame
  BY DEF SeenInv
<1>2. QED
  BY <1>1, SeenInvHolds, PTL

=============================================================================
