----------------------------- MODULE MCFlowMap -----------------------------
(* Model-checking instances of FlowMap.                                    *)
EXTENDS FlowMap

MCNoIgnore == <<FALSE, FALSE>>

\* One trident-fed Tor tap port, IPv4 TCP between two hosts, two MACs, and
\* the tunnel cases the MAC policy treats differently.
MCTrafficTor ==
    [tap_type : {"Tor"}, tap_port : {1}, eth_type : {"Ipv4"}, proto : {"Tcp"},
     src_mac : Macs, dst_mac : Macs, src_ip : Ips, dst_ip : Ips,
     src_port : Ports, dst_port : Ports,
     l2_end_0 : BOOLEAN, l2_end_1 : BOOLEAN,
     tunnel : {NoTunnel, [tunnel_type |-> "VxLan", tier |-> 1],
               [tunnel_type |-> "TencentGre", tier |-> 1]}]

\* The same traffic without packets whose source and destination IP are equal.
MCTrafficTorTwoHosts == {p \in MCTrafficTor : p.src_ip # p.dst_ip}

\* The ether types the IPv4 run leaves out, the three observation points
\* the MAC policy distinguishes (trident-fed Tor, local Tor, ISP),
\* UDP (TCP is the IPv4 run's), and tunnels of both tiers.
MCTrafficMixed ==
    {p \in [tap_type : TapTypes, tap_port : {0, 1}, eth_type : {"Ipv6", "Arp", "Dot1Q"},
           proto : {"Udp"}, src_mac : Macs, dst_mac : Macs, src_ip : Ips,
           dst_ip : Ips, src_port : Ports, dst_port : Ports,
           l2_end_0 : BOOLEAN, l2_end_1 : BOOLEAN,
           tunnel : {NoTunnel, [tunnel_type |-> "VxLan", tier |-> 2],
                     [tunnel_type |-> "Ipip", tier |-> 1]}] :
        p.tap_type = "Isp" => p.tap_port = 0}
=============================================================================
