---------------------------- MODULE MCFlowTimeMap ----------------------------
(* Model-checking instances of FlowTimeMap.                                 *)
EXTENDS FlowTimeMap, MCFlowMap

\* IPv4 TCP between two hosts at a trident-fed Tor port, plain or carried
\* in a VXLAN tunnel: the tunnel type is not hashed, so a plain and a
\* tunnelled packet of one 4-tuple share a bucket and open two nodes.
MCTimeTraffic ==
  {p \in
    [tap_type : {"Tor"}, tap_port : {1}, eth_type : {"Ipv4"}, proto : {"Tcp"},
     src_mac : Macs, dst_mac : Macs, src_ip : Ips, dst_ip : Ips,
     src_port : Ports, dst_port : Ports,
     l2_end_0 : BOOLEAN, l2_end_1 : BOOLEAN,
     tunnel : {NoTunnel, [tunnel_type |-> "VxLan", tier |-> 1]}] :
        p.src_ip # p.dst_ip}

\* The same traffic without the tunnel: no two flows share a bucket, so no
\* two nodes share a FlowTimeKey.
MCTimeTrafficPlain == {p \in MCTimeTraffic : p.tunnel = NoTunnel}
=============================================================================
