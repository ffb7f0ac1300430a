--------------------------- MODULE MCPacketParser ---------------------------
(* Frames and rules around the boundaries of PacketParser for TLC.         *)
EXTENDS PacketParser

Ports == {<<0, 80>>, <<1, 0>>, <<31, 144>>}

WellFormed ==
  [len |-> 60, headlen |-> 60, dev |-> "eth0", ethertype |-> "ipv4", version |-> 4, ihl |-> 5,
   total_length |-> <<0, 46>>, protocol |-> 6, doff |-> 5, udp_length |-> <<0, 26>>,
   src_mac |-> {1}, dst_mac |-> {2}, src_ip |-> {1, 2}, dst_ip |-> {2},
   src_port |-> <<0, 80>>, dst_port |-> <<1, 0>>]

\* Every length next to a boundary, with every header claim next to one.
BoundaryFrames ==
  {[WellFormed EXCEPT !.len = len, !.headlen = len, !.ethertype = type, !.version = version,
                      !.ihl = ihl, !.total_length = total, !.protocol = protocol,
                      !.doff = doff, !.udp_length = udp] :
     len \in {0, 13, 14, 33, 34, 37, 38, 41, 42, 45, 46, 53, 54, 57, 58, 61, 62},
     type \in {"ipv4", "other"}, version \in {4, 6}, ihl \in {4, 5, 6},
     total \in {<<0, 19>>, <<0, 20>>, <<1, 0>>}, protocol \in {6, 17, 1, 2},
     doff \in {4, 5, 6}, udp \in {<<0, 7>>, <<0, 8>>, <<7, 0>>}}

\* Frames whose linear part ends next to a boundary.
FragmentedFrames ==
  {[WellFormed EXCEPT !.headlen = headlen, !.ethertype = type, !.ihl = ihl,
                      !.protocol = protocol, !.doff = doff] :
     headlen \in {0, 13, 14, 15, 33, 34, 37, 38, 41, 42, 45, 46, 47, 48, 51, 52, 53,
                 54, 57, 58},
     type \in {"ipv4", "other"}, ihl \in {4, 5, 6}, protocol \in {6, 17, 1, 2},
     doff \in {4, 5, 6}}

\* Well-formed frames that rules tell apart.
AddressedFrames ==
  {[WellFormed EXCEPT !.protocol = protocol, !.dev = dev, !.src_ip = ip,
                      !.src_mac = mac, !.src_port = src, !.dst_port = dst] :
     protocol \in {6, 17, 1}, dev \in {"eth0", "eth1", "none"}, ip \in {{1}, {1, 2}},
     mac \in {{}, {1}}, src \in Ports, dst \in Ports}

MCFrames == BoundaryFrames \cup FragmentedFrames \cup AddressedFrames

AnyRule ==
  [enabled |-> TRUE, flags |-> {}, protocol |-> 0, interface |-> "",
   src_ip |-> {1}, src_mask |-> {1, 2}, dst_ip |-> {2, 3}, dst_mask |-> {2},
   src_mac |-> {1}, src_mac_mask |-> {1}, dst_mac |-> {}, dst_mac_mask |-> {},
   src_first |-> <<0, 80>>, src_last |-> <<1, 0>>,
   dst_first |-> <<1, 0>>, dst_last |-> <<1, 0>>]

\* Each field alone, all together, switched off, ranges the wrong way round,
\* a protocol the engine refuses.
MCRules ==
  {[AnyRule EXCEPT !.flags = flags] :
     flags \in {{f} : f \in {"src_ip", "dst_ip", "src_port", "dst_port", "src_mac",
                              "dst_mac"}}
              \cup {{}, {"src_ip", "src_port", "dst_port", "protocol", "src_mac"}}}
  \cup {[AnyRule EXCEPT !.flags = {"protocol"}, !.protocol = p] : p \in {6, 17, 1, 2}}
  \cup {[AnyRule EXCEPT !.flags = {"interface"}, !.interface = i] : i \in {"", "eth1"}}
  \cup {[AnyRule EXCEPT !.enabled = FALSE],
        [AnyRule EXCEPT !.flags = {"src_port"}, !.src_last = <<0, 79>>]}

=============================================================================
