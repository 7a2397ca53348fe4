---------------------------- MODULE FlowTimeMap ----------------------------
(***************************************************************************)
(* FlowMap with its time index: every node carries a timestamp_key, and    *)
(* the time set holds one FlowTimeKey (timestamp_key, map_key) per node,   *)
(* ordered by timestamp then key (FlowTimeKey and FlowNode.timestamp_key  *)
(* of src/src/flow_generator/flow_node.rs).  The time set, the reaper that *)
(* walks it and the eviction at capacity belong to flow_map.rs, which is   *)
(* not among the sources: they follow spec.md 3, 4.2 and 7 and the comment *)
(* on FlowTimeKey, which calls it the unique identifier of a node in the  *)
(* time set and says match_node is needed because the map key alone may   *)
(* be shared.  The reaper finds a key's node in the key's bucket by       *)
(* comparing timestamp_key, the field's stated use.                       *)
(*                                                                         *)
(* stamp[i] is the timestamp_key of nodes[i]; now is the capture clock.   *)
(***************************************************************************)
EXTENDS FlowMap

CONSTANTS
    MaxTime,   \* the last tick of the clock
    Timeout    \* ticks after its timestamp_key a node expires

VARIABLES
    stamp,     \* Seq of timestamp_key, parallel to nodes
    time_set,  \* the set of FlowTimeKeys
    now        \* the capture timestamp of the packet at hand

tvars == <<nodes, l2end, stamp, time_set, now>>

\* FlowTimeKey::new(timestamp, map_key)
FlowTimeKey(ts, key) == [timestamp_key |-> ts, map_key |-> key]

\* the derived Ord on FlowMapKey(u64), for which the abstract hash's
\* lexicographic order stands
RECURSIVE SeqLess(_, _)
SeqLess(a, b) ==
    IF a = <<>> \/ b = <<>> THEN a = <<>> /\ b # <<>>
    ELSE \/ Head(a) < Head(b)
         \/ Head(a) = Head(b) /\ SeqLess(Tail(a), Tail(b))

\* the derived Ord on FlowTimeKey: timestamp_key first, then map_key
TimeKeyLess(a, b) ==
    \/ a.timestamp_key < b.timestamp_key
    \/ a.timestamp_key = b.timestamp_key
       /\ SeqLess(a.map_key.lhs \o a.map_key.rhs, b.map_key.lhs \o b.map_key.rhs)

\* the first FlowTimeKey of the set
Oldest(s) == CHOOSE k \in s : \A o \in s \ {k} : TimeKeyLess(k, o)

\* the node a time key leads to: the first node of its bucket whose
\* timestamp_key is the key's (0 when none is)
NodeOf(k) == SelectInSeq([i \in DOMAIN nodes |-> <<nodes[i].key, stamp[i]>>],
                         LAMBDA e : e = <<k.map_key, k.timestamp_key>>)

TInit == Init /\ stamp = <<>> /\ time_set = {} /\ now = 0

\* the clock moves on to the next packet's timestamp
Tick ==
    /\ now < MaxTime
    /\ now' = now + 1
    /\ UNCHANGED <<nodes, l2end, stamp, time_set>>

\* a packet of a known flow: recent_time moves, timestamp_key does not
TUpdateFlow(p) ==
    /\ UpdateFlow(p)
    /\ UNCHANGED <<stamp, time_set, now>>

\* mutant: the evicted node leaves its timestamp_key behind
TNewFlowKeepsStamp(p) ==
    /\ Lookup(p) = 0
    /\ LET full == Len(nodes) >= MaxFlows /\ time_set # {}
           k    == Oldest(time_set)
           j    == IF full THEN NodeOf(k) ELSE 0
       IN /\ nodes' = Append(IF j > 0 THEN RemoveAt(nodes, j) ELSE nodes, NewNode(p))
          /\ stamp' = Append(stamp, now)
          /\ time_set' = (IF full THEN time_set \ {k} ELSE time_set)
                         \cup {FlowTimeKey(now, FlowMapKey(p))}
    /\ UNCHANGED <<l2end, now>>

\* A packet no node takes: at capacity the node of the oldest time key is
\* flushed with its key (when the time set holds none, nothing can be
\* evicted); the new node is inserted under FlowTimeKey(now).
TNewFlow(p) ==
    /\ Lookup(p) = 0
    /\ LET full == Len(nodes) >= MaxFlows /\ time_set # {}
           k    == Oldest(time_set)
           j    == IF full THEN NodeOf(k) ELSE 0
           keptN == IF j > 0 THEN RemoveAt(nodes, j) ELSE nodes
           keptS == IF j > 0 THEN RemoveAt(stamp, j) ELSE stamp
           keptT == IF full THEN time_set \ {k} ELSE time_set
       IN /\ nodes' = Append(keptN, NewNode(p))
          /\ stamp' = Append(keptS, now)
          /\ time_set' = keptT \cup {FlowTimeKey(now, FlowMapKey(p))}
    /\ UNCHANGED <<l2end, now>>

\* FlowNode::reset_timestamp_key: the node's timestamp_key is overwritten
reset_timestamp_key(i, ts) == [stamp EXCEPT ![i] = ts]

\* The timer refresh of a live node (a TCP state change resets its
\* timeout): its old time key leaves the set before reset_timestamp_key(now)
\* overwrites the stamp it was built from, and the new key enters.
Refresh(i) ==
    /\ stamp[i] < now
    /\ stamp' = reset_timestamp_key(i, now)
    /\ time_set' = (time_set \ {FlowTimeKey(stamp[i], nodes[i].key)})
                   \cup {FlowTimeKey(now, nodes[i].key)}
    /\ UNCHANGED <<nodes, l2end, now>>

\* mutant: the reaper flushes the oldest key without checking its expiry
ReapUnexpired ==
    /\ time_set # {}
    /\ LET k == Oldest(time_set)
           j == NodeOf(k)
       IN /\ time_set' = time_set \ {k}
          /\ nodes' = IF j > 0 THEN RemoveAt(nodes, j) ELSE nodes
          /\ stamp' = IF j > 0 THEN RemoveAt(stamp, j) ELSE stamp
    /\ UNCHANGED <<l2end, now>>

\* The reaper's cursor takes the oldest key once it has expired and flushes
\* the node it leads to, removing both.
Reap ==
    /\ time_set # {}
    /\ LET k == Oldest(time_set)
           j == NodeOf(k)
       IN /\ k.timestamp_key + Timeout <= now
          /\ time_set' = time_set \ {k}
          /\ nodes' = IF j > 0 THEN RemoveAt(nodes, j) ELSE nodes
          /\ stamp' = IF j > 0 THEN RemoveAt(stamp, j) ELSE stamp
    /\ UNCHANGED <<l2end, now>>

TNext ==
    \/ \E p \in Seen : TUpdateFlow(p) \/ TNewFlow(p)
    \/ \E i \in 1..Len(nodes) : Refresh(i)
    \/ Reap
    \/ Tick

TSpec == TInit /\ [][TNext]_tvars

-----------------------------------------------------------------------------
(* Properties.                                                             *)

TTypeOK ==
    /\ nodes \in Seq(MapNodes) /\ l2end \in [Macs -> BOOLEAN]
    /\ stamp \in Seq(0..MaxTime) /\ Len(stamp) = Len(nodes)
    /\ time_set \subseteq [timestamp_key : 0..MaxTime,
                           map_key : {FlowMapKey(p) : p \in Traffic}]
    /\ now \in 0..MaxTime

\* spec.md 8: every node is indexed in the time set at its timestamp_key,
\* and no key serves two nodes, so every node will be reaped.
NoOrphans ==
    /\ \A i \in 1..Len(nodes) : FlowTimeKey(stamp[i], nodes[i].key) \in time_set
    /\ Cardinality(time_set) = Len(nodes)

\* The flows of the map, each named by the packet it was born from, with
\* its timestamp_key.
FlowsOfMap == [f \in {nodes[i].first : i \in 1..Len(nodes)} |->
                 stamp[CHOOSE i \in 1..Len(nodes) : nodes[i].first = f]]

Table == INSTANCE FlowTable WITH Flows <- Traffic, table <- FlowsOfMap

\* spec.md 4.2 and 7: through the time index, the map keeps the lifetime
\* promises of FlowTable: at capacity the reaper's cursor and the forced
\* eviction flush a flow no other is older than, the reaper flushes only
\* expired flows, and a refresh moves a flow to the current time.
ImplementsFlowTable == Table!Spec

=============================================================================
