------------------------------ MODULE FlowNode ------------------------------
(***************************************************************************)
(* The flow-aggregation key and the FlowNode matcher of                   *)
(* src/src/flow_generator/flow_node.rs.                                    *)
(*                                                                         *)
(* A packet is a record of the LookupKey fields the matcher and the hash  *)
(* read, plus its TapPort and optional tunnel.  A node is a record of the  *)
(* fields of FlowNode that match_node reads: the canonical FlowKey, the   *)
(* flow's ether type and tunnel type, and is_l2_end of the two peers.     *)
(*                                                                         *)
(* Data abstraction: an IP address is its 32-bit lane (u32::from_le_bytes *)
(* of an IPv4 address, the XOR fold of an IPv6 address), so IPs are small *)
(* naturals; MAC addresses are small naturals too (their XOR is computed   *)
(* with Bitwise).  jenkins64(lhs) ^ jenkins64(rhs) is abstracted as the    *)
(* pair <<lhs, rhs>>: a collision-free hash.  A hash collision only adds  *)
(* nodes of another flow to a bucket, and match_node rejects those on the *)
(* tuple comparison.                                                       *)
(***************************************************************************)
EXTENDS Naturals, Sequences, Bitwise

CONSTANTS
    Ips,          \* IP lanes (u32 values)
    Macs,         \* MAC addresses (u64 values)
    Ports,        \* L4 ports
    TapPorts,     \* TapPort values; the low 32 bits are the interface field
    Tiers,        \* tunnel tiers a packet may carry
    TridentType,  \* the agent type, a configuration constant
    ConfigIgnore  \* <<ignore_l2_end, ignore_mac>> from the flow configuration

ASSUME /\ Ips \subseteq Nat /\ Macs \subseteq Nat /\ Ports \subseteq Nat
       /\ TapPorts \subseteq Nat /\ Tiers \subseteq Nat
       /\ TridentType \in {"TtProcess", "TtHyperVCompute", "TtHyperVNetwork"}
       /\ ConfigIgnore \in BOOLEAN \X BOOLEAN

TapTypes    == {"Tor", "Isp"}
EthTypes    == {"Ipv4", "Ipv6", "Arp", "Dot1Q"}
Protos      == {"Tcp", "Udp"}
TunnelTypes == {"None", "VxLan", "TencentGre", "Ipip"}
Directions  == {"ClientToServer", "ServerToClient"}

\* meta_packet.tunnel: None, or Some(TunnelInfo) with a type and a tier
NoTunnel == [tunnel_type |-> "None", tier |-> 0]
Tunnels  == {NoTunnel} \cup [tunnel_type : TunnelTypes \ {"None"}, tier : Tiers]

Packets ==
    [tap_type : TapTypes, tap_port : TapPorts, eth_type : EthTypes,
     proto : Protos, src_mac : Macs, dst_mac : Macs, src_ip : Ips,
     dst_ip : Ips, src_port : Ports, dst_port : Ports,
     l2_end_0 : BOOLEAN, l2_end_1 : BOOLEAN, tunnel : Tunnels]

Nodes ==
    [tap_type : TapTypes, tap_port : TapPorts, eth_type : EthTypes,
     proto : Protos, mac_src : Macs, mac_dst : Macs, ip_src : Ips,
     ip_dst : Ips, port_src : Ports, port_dst : Ports,
     tunnel_type : TunnelTypes, is_l2_end : [{0, 1} -> BOOLEAN]]

-----------------------------------------------------------------------------
(* FlowMapKey::new and its helpers.                                        *)

\* the larger IP lane in the high half: direction-symmetric
l3_hash(p) == IF p.src_ip >= p.dst_ip THEN <<p.src_ip, p.dst_ip>>
                                      ELSE <<p.dst_ip, p.src_ip>>

l4_hash(p) == IF p.src_port >= p.dst_port THEN <<p.src_port, p.dst_port>>
                                          ELSE <<p.dst_port, p.src_port>>

\* u16::from(tap_type): Tor is 3, Isp(n) is n (the model's Isp is Isp(7))
TapTypeCode(t) == IF t = "Tor" THEN 3 ELSE 7

\* (tap_type << 24 | tap_port): the observation point half of the key
TapHalf(p) == <<TapTypeCode(p.tap_type), p.tap_port>>

\* The 64-bit words are kept as tuples of their packed fields.
FlowMapKey(p) ==
    CASE p.eth_type \in {"Ipv4", "Ipv6"} ->
            [lhs |-> l3_hash(p), rhs |-> TapHalf(p) \o l4_hash(p)]
      [] p.eth_type = "Arp" ->
            [lhs |-> l3_hash(p), rhs |-> TapHalf(p) \o <<p.src_mac ^^ p.dst_mac>>]
      [] OTHER ->
            [lhs |-> TapHalf(p), rhs |-> <<p.src_mac ^^ p.dst_mac>>]

-----------------------------------------------------------------------------
(* FlowNode::match_node and its helpers.                                   *)

is_hyper_v(tt) == tt \in {"TtHyperVCompute", "TtHyperVNetwork"}

\* tap_port.split_fields().0: the interface field in the low 32 bits; the
\* modelled TapPorts are below 2^31 (TLC's integers), so it is the value itself
InterfaceField(tap_port) == tap_port

\* the MAC-match policy: None, Dst, Src or All
mac_match(p, config_ignore, tt) ==
    LET ignore_mac == /\ p.tunnel # NoTunnel
                      /\ \/ is_hyper_v(tt) /\ p.tunnel.tier < 2
                         \/ p.tunnel.tunnel_type = "TencentGre"
                         \/ p.tunnel.tunnel_type = "Ipip"
        is_from_isp == p.tap_type # "Tor"
        is_from_trident == p.tap_type = "Tor" /\ InterfaceField(p.tap_port) > 0
    IN IF is_from_isp \/ ignore_mac \/ config_ignore[2] THEN "None"
       ELSE IF ~config_ignore[1] /\ is_from_trident
            THEN IF ~p.l2_end_0 /\ ~p.l2_end_1 THEN "None"
                 ELSE IF ~p.l2_end_0 THEN "Dst"
                 ELSE "Src"
       ELSE "All"

mac_match_with_direction(p, flow_mac_src, flow_mac_dst, match_mac, dir) ==
    LET src_mac == IF dir = "ClientToServer" THEN flow_mac_src ELSE flow_mac_dst
        dst_mac == IF dir = "ClientToServer" THEN flow_mac_dst ELSE flow_mac_src
    IN CASE match_mac = "Dst" -> dst_mac = p.dst_mac
         [] match_mac = "Src" -> src_mac = p.src_mac
         [] match_mac = "All" -> dst_mac = p.dst_mac /\ src_mac = p.src_mac
         [] match_mac = "None" -> TRUE

\* mutant: the peers are not swapped for a server-to-client packet
endpoint_match_unswapped(is_l2_end, p, dir) ==
    \/ p.tunnel = NoTunnel
    \/ p.l2_end_0 = is_l2_end[0] /\ p.l2_end_1 = is_l2_end[1]

\* with a tunnel, the L2End flags tell apart the two hair-pinned inner flows
endpoint_match_with_direction(is_l2_end, p, dir) ==
    \/ p.tunnel = NoTunnel
    \/ dir = "ClientToServer" /\ p.l2_end_0 = is_l2_end[0] /\ p.l2_end_1 = is_l2_end[1]
    \/ dir = "ServerToClient" /\ p.l2_end_0 = is_l2_end[1] /\ p.l2_end_1 = is_l2_end[0]

\* The result of match_node: whether it matched, and the direction it wrote
\* into meta_packet ("Unchanged" where it returned before writing one).
Reject        == [matched |-> FALSE, direction |-> "Unchanged"]
Result(b, d)  == [matched |-> b, direction |-> d]

\* mutant: the source IP comparison lost from the forward 4-tuple check
SameTupleNoSrcIp(n, p) == /\ n.ip_dst = p.dst_ip
                          /\ n.port_src = p.src_port /\ n.port_dst = p.dst_port

SameTuple(n, p)    == /\ n.ip_src = p.src_ip /\ n.ip_dst = p.dst_ip
                      /\ n.port_src = p.src_port /\ n.port_dst = p.dst_port
ReverseTuple(n, p) == /\ n.ip_src = p.dst_ip /\ n.ip_dst = p.src_ip
                      /\ n.port_src = p.dst_port /\ n.port_dst = p.src_port

\* packet tunnel type differs from the flow's (None on both sides is equal)
TunnelDiffers(n, p) == n.tunnel_type # p.tunnel.tunnel_type

\* mutant: the direction is never written into meta_packet
IpMatchNoDirection(n, p, config_ignore, tt, dir) ==
    Result(/\ endpoint_match_with_direction(n.is_l2_end, p, dir)
           /\ mac_match_with_direction(p, n.mac_src, n.mac_dst,
                                       mac_match(p, config_ignore, tt), dir),
           "Unchanged")

\* Both orientations through the IP path: set the direction, then require
\* the endpoint policy and the MAC policy under it.
IpMatch(n, p, config_ignore, tt, dir) ==
    Result(/\ endpoint_match_with_direction(n.is_l2_end, p, dir)
           /\ mac_match_with_direction(p, n.mac_src, n.mac_dst,
                                       mac_match(p, config_ignore, tt), dir),
           dir)

\* Non-IP ether types: same ether type, then MACs and IPs exactly in one of
\* the two orientations, which gives the direction.
OtherEthMatch(n, p) ==
    IF p.eth_type # n.eth_type THEN Reject
    ELSE IF /\ n.mac_src = p.src_mac /\ n.mac_dst = p.dst_mac
            /\ n.ip_src = p.src_ip /\ n.ip_dst = p.dst_ip
    THEN Result(TRUE, "ClientToServer")
    ELSE IF /\ n.mac_src = p.dst_mac /\ n.mac_dst = p.src_mac
            /\ n.ip_src = p.dst_ip /\ n.ip_dst = p.src_ip
    THEN Result(TRUE, "ServerToClient")
    ELSE Reject

match_node(n, p, config_ignore, tt) ==
    IF n.tap_port # p.tap_port \/ n.tap_type # p.tap_type THEN Reject
    \* "other ethernet type": the code tests flow.eth_type against Ipv4 and
    \* the packet's eth_type against Ipv6
    ELSE IF n.eth_type # "Ipv4" /\ p.eth_type # "Ipv6" THEN OtherEthMatch(n, p)
    ELSE IF n.eth_type # p.eth_type \/ n.proto # p.proto THEN Reject
    ELSE IF TunnelDiffers(n, p) /\ ~is_hyper_v(tt) THEN Reject
    ELSE IF SameTuple(n, p) THEN IpMatch(n, p, config_ignore, tt, "ClientToServer")
    ELSE IF ReverseTuple(n, p) THEN IpMatch(n, p, config_ignore, tt, "ServerToClient")
    ELSE Reject

\* match_node under this configuration
Matches(n, p) == match_node(n, p, ConfigIgnore, TridentType).matched

=============================================================================
