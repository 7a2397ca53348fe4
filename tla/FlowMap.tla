------------------------------ MODULE FlowMap ------------------------------
(***************************************************************************)
(* The flow map that owns FlowNodes: a packet is hashed with FlowMapKey,  *)
(* the nodes of its bucket are tried in order with match_node, and the     *)
(* first that matches takes the packet; when none does a node is born     *)
(* from the packet.  The reaper flushes expired nodes.                     *)
(*                                                                         *)
(* The map itself (flow_map.rs) is not among the sources: the lookup loop, *)
(* node creation and eviction follow spec.md sections 4.2, 3 and 7.  The  *)
(* matcher and the hash they call are FlowNode's, translated from the     *)
(* source.  All buckets are kept as one sequence in insertion order; the  *)
(* bucket of a key is the subsequence of nodes with that key, in order.   *)
(***************************************************************************)
EXTENDS FlowNode, Sequences, SequencesExt, FiniteSets

CONSTANTS
    Traffic,   \* the packets the capture may deliver, a subset of Packets
    MaxFlows   \* flows the map holds before it force-evicts the oldest

ASSUME Traffic \subseteq Packets /\ MaxFlows \in Nat \ {0}

VARIABLES
    nodes,     \* Seq of node records, oldest first
    l2end      \* the topology: which MACs are layer-2 endpoints at the tap

vars == <<nodes, l2end>>

\* The capture sets l2_end_0/1 when the source/destination MAC is a layer-2
\* endpoint at the tap, a fact of the topology that Init fixes.
Observed(p) == p.l2_end_0 = l2end[p.src_mac] /\ p.l2_end_1 = l2end[p.dst_mac]

Seen == {p \in Traffic : Observed(p)}

\* A node of the map: the matcher's view of FlowNode, the bucket it is
\* indexed under, the directions it has counted packets in, and (history
\* only) the packet it was born from.
MapNodes == [tap_type : TapTypes, tap_port : TapPorts, eth_type : EthTypes,
             proto : Protos, mac_src : Macs, mac_dst : Macs, ip_src : Ips,
             ip_dst : Ips, port_src : Ports, port_dst : Ports,
             tunnel_type : TunnelTypes, is_l2_end : [{0, 1} -> BOOLEAN],
             key : {FlowMapKey(p) : p \in Traffic},
             dirs : SUBSET Directions, first : Traffic]

TypeOK ==
    /\ nodes \in Seq(MapNodes) /\ Len(nodes) <= MaxFlows
    /\ l2end \in [Macs -> BOOLEAN]

\* A node is born from the packet that found no match: the first-seen
\* direction is client-to-server, and each peer's is_l2_end is the packet's.
NewNode(p) ==
    [tap_type |-> p.tap_type, tap_port |-> p.tap_port, eth_type |-> p.eth_type,
     proto |-> p.proto, mac_src |-> p.src_mac, mac_dst |-> p.dst_mac,
     ip_src |-> p.src_ip, ip_dst |-> p.dst_ip,
     port_src |-> p.src_port, port_dst |-> p.dst_port,
     tunnel_type |-> p.tunnel.tunnel_type,
     is_l2_end |-> [i \in {0, 1} |-> IF i = 0 THEN p.l2_end_0 ELSE p.l2_end_1],
     key |-> FlowMapKey(p), dirs |-> {"ClientToServer"}, first |-> p]

\* The bucket's Vec is searched with position(|n| n.match_node(..)):
\* the first node under the packet's key that matches.
Lookup(p) == SelectInSeq(nodes, LAMBDA n : n.key = FlowMapKey(p) /\ Matches(n, p))

Init == nodes = <<>> /\ l2end \in [Macs -> BOOLEAN]

\* A packet of a known flow: the matching node counts it in the direction
\* match_node assigned.
UpdateFlow(p) ==
    LET i == Lookup(p)
        d == match_node(nodes[i], p, ConfigIgnore, TridentType).direction
    IN /\ i > 0
       /\ nodes' = [nodes EXCEPT ![i].dirs = @ \cup {d}]
       /\ UNCHANGED l2end

\* A packet no node takes: a node is born; at MaxFlows the oldest node is
\* flushed first to make room.
NewFlow(p) ==
    /\ Lookup(p) = 0
    /\ LET kept == IF Len(nodes) < MaxFlows THEN nodes ELSE Tail(nodes)
       IN /\ nodes' = Append(kept, NewNode(p))
          /\ UNCHANGED l2end

ReceivePacket(p) == UpdateFlow(p) \/ NewFlow(p)

\* The reaper flushes a node whose timeout expired; timeouts depend on the
\* TCP state and are not modelled, so any node may be the one that expires.
FlowTimeout(i) ==
    /\ nodes' = RemoveAt(nodes, i)
    /\ UNCHANGED l2end

Next ==
    \/ \E p \in Seen : ReceivePacket(p)
    \/ \E i \in 1..Len(nodes) : FlowTimeout(i)

Spec == Init /\ [][Next]_vars

-----------------------------------------------------------------------------
(* Properties.                                                             *)

\* The reply of a node's first packet, as the capture sees it: every
\* source/destination field swapped, the tunnel the same.
Reply(p) == [p EXCEPT !.src_mac = p.dst_mac, !.dst_mac = p.src_mac,
                      !.src_ip = p.dst_ip, !.dst_ip = p.src_ip,
                      !.src_port = p.dst_port, !.dst_port = p.src_port,
                      !.l2_end_0 = p.l2_end_1, !.l2_end_1 = p.l2_end_0]

\* Whatever match_node accepts, the hash agrees with: a packet the matcher
\* would give to a node is hashed to that node's bucket.  Otherwise the
\* lookup never reaches the node and a duplicate flow is born.
MatchImpliesSameBucket ==
    \A i \in 1..Len(nodes) : \A p \in Seen :
        Matches(nodes[i], p) => FlowMapKey(p) = nodes[i].key

\* A flow's node accepts the reply of its first packet, server to client.
\* The reply carries swapped L2End flags, so match_node derives a different
\* MAC policy for it (Src for Dst) and compares the endpoint flags with the
\* peers swapped; both must line up with what the node took from the first
\* packet.  Flows whose two ends are the same address and port cannot be
\* told apart by direction and are left out.
ReplyMatchesOwnFlow ==
    \A i \in 1..Len(nodes) :
        LET r == Reply(nodes[i].first)
        IN  ~SameTuple(nodes[i], r) =>
                match_node(nodes[i], r, ConfigIgnore, TridentType)
                    = Result(TRUE, "ServerToClient")

\* The comment on FlowMapKey: match_node identifies a flow uniquely within
\* the map.  At most one node of a bucket accepts any packet.
UniqueMatch ==
    \A p \in Seen :
        Cardinality({i \in 1..Len(nodes) :
                        nodes[i].key = FlowMapKey(p) /\ Matches(nodes[i], p)}) <= 1

=============================================================================
