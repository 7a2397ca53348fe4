# TLA+ models of the sophon flow generator and L7 parsers

This directory holds TLA+ models of parts of the repository and the TLC
configurations that check them. Each model is translated from the Rust
source. `PROJECT.json` lists:
- every component, and what is modelled of it;
- every run and what it shows;
- the mutants that show each property can fail;
- the source lines behind each definition;
- the findings, and the hazards the code is exposed to.

Run a check from this directory:

    tlc -workers 2 -config MCFlowMap.cfg MCFlowMap

## The system and its parts

| Part | Source | What it does |
|---|---|---|
| Flow aggregation | `src/src/flow_generator/flow_node.rs` | `FlowMapKey::new` hashes a packet's lookup key into a direction-symmetric 64-bit bucket key. `FlowNode::match_node` decides whether a node of the bucket owns the packet, and in which direction. |
| Flow map | not among the sources; described in `spec.md` 4.2 | Owns the nodes. It tries them in bucket order, creates a node when none matches, force-evicts the oldest node at capacity, and flushes expired nodes. |
| PostgreSQL parser | `src/agent/src/flow_generator/protocol_logs/sql/postgresql.rs` | Walks `tag | length | body` blocks and classifies requests (`Q`, `P`) and responses (`C`, `E`). It counts requests, responses and errors in `L7PerfStats`, and computes an RRT (request-response time) through the flow's `L7PerfCache`. |
| Dubbo parser | `src/src/flow_generator/protocol_logs/rpc/dubbo.rs` | 16-byte header, a best-effort walk of the first Hessian string parameters, and mapping of the response status. |
| Queue debug mirror | `src/agent/crates/public/src/queue/{mod.rs,debug.rs}` | `DebugSender` copies what a producer sends into a debug queue while a debugger has enabled it, then sends to the real overwrite queue. The overwrite queue itself is not among the sources. |
| eBPF sample | `src/src/ebpf/samples/rust/src/main.rs` | A sample program that prints what the tracer delivers. |
| Error types, crate root | `src/src/error.rs`, `src/src/lib.rs` | Declarations only. |

How the parts interact:
- The capture hands each packet to the flow map.
- The flow map hashes the packet with `FlowMapKey::new` and asks each node of the bucket `match_node`.
- The matching node, or a new node, carries the flow's L7 parser.
- For each payload the parser is called in one of two ways:
  - while the protocol is unknown, `check_payload` and then `parse_payload`;
  - once the flow is identified, `parse_payload` alone.

  Either way `reset()` follows every payload.
- At flush time the caller takes the parser's `perf_stats()`.
- The records go to a session collector, which is not among the sources (`spec.md` 4.4). It pairs a request and a response of one session with `merge_log` / `DubboInfo::merge`, and exports the result, converted to its protobuf form.
- Records go to the exporter through queues built with `bounded_with_debug`.

## Modules

### FlowNode: hash and matcher

- **Packets and nodes.** A packet is a record of the `LookupKey` fields that the hash and the matcher read, plus its `tap_port` and its optional tunnel (`tunnel_type`, `tier`). A node is a record of the `FlowNode` fields that `match_node` reads:
  - the canonical flow key (MACs, IPs, ports, proto, tap);
  - the flow's ether type and tunnel type;
  - `is_l2_end` of its two peers.
- **The hash.**
  - IP addresses are their 32-bit lanes, and MACs are small naturals; the MAC XOR is computed with `Bitwise`.
  - `l3_hash` and `l4_hash` sort the two values, as the code does.
  - `jenkins64(lhs) ^ jenkins64(rhs)` is abstracted as the pair `<<lhs, rhs>>`, a collision-free hash. A collision only puts another flow's node into the bucket, and the matcher rejects such a node on the 4-tuple.
- **The matcher.** `match_node` keeps every early return of the code in the code's order:
  - the tap check;
  - the non-IP path entered by `flow.eth_type != Ipv4 && packet eth_type != Ipv6`;
  - the ether type and protocol checks;
  - the tunnel check with the Hyper-V exemption;
  - the forward 4-tuple, then the reverse 4-tuple.

  It returns whether the node matched and the direction it wrote.
- **Helpers.** The MAC policy (`mac_match`), `mac_match_with_direction` and `endpoint_match_with_direction` are translated line by line.
- **The interface field.** `TapPort::split_fields().0` is the low 32 bits of the tap port. The modelled tap ports are below 2^31, so the model uses the value itself.

### FlowMap: the map around the matcher

The map is modelled from `spec.md`, because `flow_map.rs` is not among the sources.

- **State.**
  - All buckets are kept in one sequence, `nodes`, in insertion order; a bucket is the subsequence of nodes that share its key.
  - `l2end` is the topology, chosen in `Init`: which MACs are layer-2 endpoints at the tap. A packet's `l2_end_0`/`l2_end_1` flags must agree with it (`Observed`), because the capture derives them from the topology.
- **Actions.**
  - `UpdateFlow`: the first node under the packet's key that matches takes the packet and counts it in the direction `match_node` wrote.
  - `NewFlow`: no node matches, so a node is born from the packet. At `MaxFlows` the oldest node is evicted first.
  - `FlowTimeout`: any node may expire. Timeouts depend on TCP state and timers, which are not modelled.

### PostgresqlLog and PostgresqlSession: the PostgreSQL parser

**PostgresqlLog** holds the parser logic.

- **Payloads.** A payload is a sequence of blocks.
  - A readable block is a tag and an abstract body. The body names the branch of the handler that its bytes take:
    - `Q`: NUL-terminated or not;
    - `P`: SQL, not SQL, or NULs missing;
    - `C`: `INSERT oid rows`, `INSERT n` cut short, `DELETE n`-like, or `CREATE TABLE`-like;
    - `E`: client-class code, server-class code, fewer than two fields, a code field not starting with `C`, or no NUL after the code.
  - `B` and `D` stand for the tags that only the request side recognises and ignores, and for those both sides ignore. `Z` stands for a tag that only the response side ignores, and `u` for a tag neither side knows.
  - `!` is a block that `read_block` rejects; the walk stops there.
  - The SSL request is a payload whose only block is unreadable: its length field overruns the eight bytes. It is also flagged so that `check_is_ssl_req` can test for it.
- **Parser state.** A record of:
  - `info`: `msg_type`, `ignore`, `req_type`, `context`, `resp_type`, `result`, `affected_rows`, `status` and whether an RRT was set. The query text (`context`) is the block it was read from. The SQLSTATE (`result`) is its class. `affected_rows` is 1 where the tag carries a count;
  - `perf_stats`, which is `None` when `has_stats` is false;
  - `parsed`;
  - `pending`: the flow's `L7PerfCache` entry, a stored request timestamp.
- **Operators.** `on_req_block`, `on_resp_block`, `walk` (the loop of `parse`, RECURSIVE), `parse`, `check_payload`, `parse_payload` and `reset` each compute the code's new state. A handler that fails leaves behind the changes it made before the `?`, as the code does.
- **Defaults.** `reset()` installs `PostgreInfo::default()`, whose `ignore` is false; only `PostgresqlLog::default()` sets it to true. `LogMessageType::default()` is the constant `MsgTypeDefault`; it is `Other` in the configurations.
- **Not in the sources.** `cal_rrt`, the `L7PerfStats` counters and `get_code_desc` are modelled from `spec.md` 4.3:
  - a request stores its timestamp;
  - a response that finds one takes it and records an RRT.

**PostgresqlSession** drives one parser packet by packet.

| Action | What it does | Where it comes from |
|---|---|---|
| `Probe` | `check_payload`, then `parse_payload` on the same payload, then `reset()` | The test helper `check_and_parse` in `postgresql.rs`, the only caller in the sources |
| `Parse` | `parse_payload` alone, then `reset()` | An identified flow, per `spec.md` |
| `TakeStats` | `perf_stats()` | The flush |

Whether a packet is probed is left open. Ghost variables record:
- the last packet and what `parse_payload` returned for it;
- whether that returned Ok;
- how many `Q`/`P` and `C`/`E` blocks were delivered since the last flush.

### PostgresqlAggregation: request-response pairing behind the parser

**PostgresqlAggregation** hands every record that `parse_payload` returns to the session collector. This is the same collector, modelled from `spec.md` 4.4, as in `DubboAggregation`.
- `PostgreInfo::session_id` is `None`, so the whole flow is one session key with at most one waiting half.
- **From the code.**
  - `merge_log` copies the request or the response fields, chosen by the other record's `msg_type`.
  - `ToSendLog` is `From<PostgreInfo> for L7ProtocolSendLog`.
  - `get_request_str` (not under `src/`) follows `spec.md` 6.
- **Actions.**
  - `AProbe` is `Probe`, then the hand-over.
  - `AParse` is `Parse`, then the hand-over.
  - `ATakeStats` is `TakeStats`.
  - `Timeout` flushes the waiting half alone.
- **State kept small.** The collector's output is `emitted`, the logs exported by the last step, not the whole export sequence. Every exported log is in `emitted` in the state right after its export, which is where the invariants check it. A full sequence made the state space grow without bound in practice: more than five million states.

### DubboLog and DubboSession: the Dubbo parser

**DubboLog** holds the parser logic.

- **Packets.** A packet is a record of what `DubboLog::parse` reads:
  - the L4 protocol and the flow direction;
  - whether the payload is shorter than the header;
  - the magic, flag and status bytes and the request id;
  - the body length, as the u32 split into its top bit and low 31 bits (TLC's integers are 32-bit signed);
  - the body bytes after the header.
- **The header.** `AsI32` is the `as i32` cast of the body length.
- **The body walk.** `BodyLoop` is the `while` loop of `get_req_body_info`, RECURSIVE, with the code's 0-based `para_index`. The strings of `DubboInfo` are kept as the byte sequences they are decoded from.
- **The parse.** `parse` keeps the code's order:
  - the protocol check, before `reset_logs`;
  - `reset_logs`;
  - the header check;
  - `request` or `response`, chosen by the flow direction, never by the flag's data type.
- **The panic.** A request with an empty body panics at `payload[0]` (`Panics`).
- **Constants.** The Hessian and header constants come from `consts.rs`, which is not among the sources.

**DubboSession** keeps one `DubboLog` for a flow and parses the flow's packets one after another.

**Reference.** `StringParams` is a reference reading of the body, taken from `spec.md` 4.3. The body walk is checked against it.

### DubboAggregation: request-response pairing behind the parser

**DubboAggregation** composes `DubboSession` with the session collector that pairs what the parser returns. That collector is not under `src/`, so it is modelled from `spec.md` 4.4 and marked spec-modelled in the map.
- **From the code.**
  - `info` is `DubboLog::info`, the clone of the info handed out after each Ok parse.
  - `merge` is `DubboInfo::merge`, which copies only `resp_msg_size` into `self`.
  - `ToFlowLog` is `From<DubboInfo> for flow_log::DubboInfo`. The modelled request ids are below 2^31, so `request_id as u32` keeps them.
- **From the spec.**
  - `waiting` holds, per request id (the session key), the half that waits for its other half.
  - `Collect` takes a half in one of three ways:
    - it waits;
    - it completes the session, and the response is merged into the request and exported;
    - a half of the same type flushes the waiting one, which is exported alone.
  - `Timeout(k)` flushes a waiting half alone.
  - `AParse` is `Parse` followed, on an Ok result, by `Collect`.
- **History.** Each half carries the packet it was parsed from. No action reads it.

### FlowTimeMap: the time index of the map

`FlowTimeMap` extends `FlowMap` with the time set that the reaper and the eviction walk. `FlowTimeKey` and the node's `timestamp_key` are translated from `flow_node.rs`; the set and its users follow `spec.md` 4.2 and 7.

- **State.** `stamp[i]` is the `timestamp_key` of `nodes[i]`. `time_set` is the set of `FlowTimeKey`s. `now` is the capture timestamp of the packet at hand.
- **Order.** `TimeKeyLess` is the derived `Ord` of `FlowTimeKey`: `timestamp_key` first, then the map key. `Oldest` is the first key of the set.
- **Finding a key's node.** `NodeOf(k)` returns the first node of the key's bucket whose `timestamp_key` equals the key's. This is the field's stated use (flow_node.rs:122); the lookup itself is in flow_map.rs, so it is modelled from the spec.
- **Actions.**
  - `Tick`: the clock moves on.
  - `TUpdateFlow`: a known flow takes a packet. The time key does not move.
  - `TNewFlow`: at capacity, the node of the oldest key is flushed together with the key. The new node is then inserted under `FlowTimeKey(now, key)`.
  - `Refresh(i)`: the node's old key leaves the set, `reset_timestamp_key` (flow_node.rs:50-52, the only part in the sources) overwrites the stamp, and the new key enters.
  - `Reap`: the oldest key, once expired, is removed together with its node.

### FlowTable: what the map promises, and the refinement

`FlowTable` is the flow map's lifetime contract from `spec.md` 3, 4.2 and 7, with no buckets and no time index. It is the table from each live flow to the time of its last refresh.
- `Born(f)` adds a new flow, stamped with the current time. At capacity, it first flushes one of the oldest flows.
- `Refresh(f)` moves a flow's stamp to the current time.
- `Expire(f)` flushes a flow only once its timeout has passed.

`FlowTimeMap` maps onto it with `Table == INSTANCE FlowTable WITH Flows <- Traffic, table <- FlowsOfMap`. `FlowsOfMap` sends the packet each node was born from to that node's `timestamp_key`. `ImplementsFlowTable == Table!Spec` is checked as a property.

The refinement holds only on plain traffic. On tunnel traffic it fails for the reason `flowtime_orphan` shows: an orphaned node is older than a node that is evicted in its place, and it is never reaped.

### OverwriteQueue, QueueSpec and DebugSender: the queue and its debug mirror

**OverwriteQueue** models the overwrite queue as a record: the ring's contents in FIFO order, the capacity, whether the Receiver is gone, and the drop counter. `overwrite_queue.rs` is not among the sources, so the queue follows `spec.md` 4.1 and 5.
- `send_all` returns `Terminated` once the Receiver is gone, and `BatchTooLarge` when the batch is larger than the capacity.
- Otherwise it appends the batch and overwrites the oldest elements.
- Each operator is one critical section of the queue's mutex.

**QueueSpec** is what the queue promises, with no ring and no mirror:
- a batch is accepted whole or refused whole, with the reason given;
- the consumer gets each producer's accepted elements in order, possibly skipping some (overwritten), never twice;
- `delivered` counts the elements received.

**DebugSender** translates `debug.rs`, with the threads around it:
- producers holding clones of one `DebugSender`;
- the consumer of the primary queue;
- the `QueueDebugger` (not among the sources), which toggles the flag and drains the debug queue.

A call is split into the steps at which another thread can run:
- `Begin` is the `Relaxed` load of `enabled`. The flag's stores are the sequence `hist`, in modification order. A load may return any store no older than the last one that thread read, which is read-read coherence and all that `Relaxed` promises.
- `DebugSend` is one `send_all` of a `QUEUE_LEN` chunk on the debug queue, or `send`'s single mirror. Its error is only logged.
- `PrimarySend` is one enqueue. `send_in_batch` enqueues one sub-batch per step and stops at the first error. The sub-batching is in overwrite_queue.rs, so `PrimaryBatches` is modelled from `spec.md` 4.1.

The consumer's `Recv` is `recv_n`, `DropReceiver` drops the Receiver, and `Toggle` and `DebugRecv` are the debugger's actions.

**Refinement.** `QS == INSTANCE QueueSpec WITH accepted <- acc, delivered <- nrecv, open <- ~main.closed, ...` maps the detailed state onto the abstract one. `QueueRefinement == QS!Spec` is checked as a property, which shows that `DebugSender` implements `QueueSpec`. The flow map is refined in the same way (`FlowTable` above).

## Runs

| Run | Config | Expect | What it shows |
|---|---|---|---|
| flowmap_tor | `MCFlowMap.cfg` | pass | IPv4/TCP at a Tor tap: two IPs, two MACs, one port, no tunnel or a VXLAN or TencentGRE tunnel, every topology, two flows in the map. |
| flowmap_mixed | `MCFlowMapMixed.cfg` | pass | IPv6/UDP, ARP and 802.1Q at Tor ports 0 and 1 and at an ISP tap, with VXLAN tier 2 and IPIP tunnels, on a Hyper-V agent, one flow in the map. |
| flowmap_unique | `MCFlowMapUnique.cfg` | violation | `UniqueMatch`: two nodes of one bucket accept the same packet. |
| pg_session | `MCPostgresql.cfg` (module `MCPostgresqlAggregation`) | pass | Well-formed traffic, each record handed to the collector, with timeouts at any point: every request and response body form, alone, after an ignored block, or before unreadable bytes, plus the SSL request; four packets. |
| pg_rrt_without_response | `MCPostgresqlRrt.cfg` | violation | `RrtCountsResponses`: a query and a truncated `INSERT n` completion. |
| pg_failed_parse_counts | `MCPostgresqlFailed.cfg` | violation | `FailedParseCountsNothing`: a query block followed by a tag the request side does not know. |
| dubbo_session | `MCDubbo.cfg` (module `MCDubboAggregation`) | pass | Four packets in any order on one parser, each Ok result handed to the collector, with timeouts at any point: requests with zero, two and four string parameters, responses 20/70/40, a server heartbeat (status 0), a short payload, a wrong magic, a UDP payload, all under request id 1, and a request and a response under request id 2. Also the body walk of every request body of one to five bytes over the string tags 0, 1, 2 and the int tag 0x90 (1,364 bodies). |
| dubbo_stale_head | `MCDubboHead.cfg` | violation | `HeadOfPacket`: a request after a response reports the response's status and code. |
| dubbo_header_only_panic | `MCDubboPanic.cfg` | violation | `NoPanic`: a request that is the 16-byte header alone. |
| debug_sender | `MCDebugSender.cfg` | pass | Two producers, one call each, of `send`, `send_all` or `send_in_batch` over three elements, with sub-batches of two. The queues have capacity 2. The debugger toggles the flag up to twice, and the consumer receives one or two at a time and may drop its Receiver. |
| flowtime_index | `MCFlowTimeMap.cfg` | pass | Three IPs, IPv4/TCP with no tunnel, at a trident-fed Tor port. Two flows fit in the map, and the clock runs to 4 with a timeout of 1: creation, eviction at capacity, refresh and reaping, checked against `FlowTable`. |
| flowtime_orphan | `MCFlowTimeMapOrphan.cfg` | violation | `NoOrphans`: a plain and a VXLAN flow of one 4-tuple are created at the same timestamp. |

The flow-map runs check three properties:
- `MatchImpliesSameBucket`: whatever the matcher would accept hashes to the node's bucket.
- `ReplyMatchesOwnFlow`: every node accepts the reply of the packet it was born from, server to client. This rests on the tunnel L2-end swap and the Src/Dst policy swap.
- `TypeOK`.

`flowtime_index` checks two properties:
- `ImplementsFlowTable`: the map with its time index implements `FlowTable`. Eviction takes an oldest flow, a refresh restamps the right flow, and the reaper never flushes a flow before its timeout. A reaper that skips the expiry test breaks it.
- `TTypeOK`, which includes one `timestamp_key` per node.

`pg_session` checks five properties:
- `CountedOnce`: no request or response block is counted twice. A probed payload is walked by `check_payload` and then served from the cache.
- `OutputFromPayload`: every record describes the packet it was returned for, in its direction and with one of that payload's tags.
- `ParsedIsSurfaced`: every Ok parse of a non-SSL payload returns exactly one record.
- `ExportedDescribesSession`: every exported log has the request type and query that a fresh parser reads from its own request packet, and the status, SQLSTATE and row count it reads from its own response packet. This holds after probing, caching, resets and merging. A `merge_log` keyed on the receiver's own `msg_type` breaks it.
- `TypeOK`.

`dubbo_session` checks five properties:
- `InfoOfPacket`: the info of every parsed packet equals what a fresh `DubboLog::default()` reports for it, as the test builds one per packet. `reset_logs` must clear every field that `request` and `response` set.
- `BodyWalkMatchesReference`: every parsed request's four fields are the first four string parameters of the reference reading.
- `BodyWalkExhaustive`: the same, for every body of up to five bytes, on the flow's parser before its first packet. TLC does not cache definitions that use RECURSIVE operators, so the 1,364 walks are guarded by `npk = 0` and run in the initial state only. `InfoOfPacket` carries the result to later packets, since it reduces every packet to a fresh parser.
- `ExportedDescribesSession`: every exported log has the request fields a fresh parser reads from its own request packet and the response size of its own response packet, and both packets carry its id. This holds after the parser has been reused, after merging, and with the two sessions interleaved. A `merge` that did not copy the size breaks it.
- `TypeOK`.

`debug_sender` checks three properties:
- `QueueRefinement`: the primary queue, as seen through the producers' results and the consumer, is `QueueSpec`. This holds whatever the mirror and the flag do.
- `DebugNeverTooLarge`: chunking by `QUEUE_LEN` keeps the debug queue from refusing a mirror as too large.
- `TypeOK`, which includes `size() <= capacity` for both queues.

Every property of a passing run has a mutant in `PROJECT.json`: a plausible bug in the code that TLC finds. For example:
- the peers not swapped for a reply;
- a 4-tuple comparison losing the source IP;
- `reset` not clearing `parsed`;
- `check_payload` not caching its result.

## Findings

1. **A packet can match two nodes** (`flowmap_unique`, flow_node.rs:56).
   - The comment says `match_node` identifies a flow uniquely. The MAC policy, however, is derived from each packet's L2-end flags.
   - With only the destination MAC an L2 end, a node is opened by a packet from MAC 1 to MAC 1, whose policy is None (flow_node.rs:295-296).
   - A packet of the same 4-tuple from MAC 1 to MAC 2 gets policy Dst (297-298), fails the destination-MAC check (319) and opens a second node.
   - A later packet from MAC 1 to MAC 1, policy None, matches both. The order of the bucket decides which node takes it.
2. **An RRT is recorded for an uncounted response** (`pg_rrt_without_response`, postgresql.rs:358). A truncated `INSERT n` completion returns `Ok(true)` before `inc_resp`, yet the RRT is recorded, so `rrt_count > response_count`. An `E` with fewer than two fields (line 394) does the same.
3. **A failed parse still counts** (`pg_failed_parse_counts`, postgresql.rs:305).
   - `request_count` is incremented for a `Q` block even when a later block fails the parse.
   - Under probe-then-parse the failed payload is counted twice.
   - `spec.md` section 7 says a failed parse increments no counter.

4. **A request can report the previous response's status** (`dubbo_stale_head`, dubbo.rs:62).
   - `reset_logs` does not clear `status`, `status_code` or `msg_type`, and `request` sets neither `status` nor `status_code`.
   - In TLC's trace, a response with status 20 sets status Ok and code 20. The next request on the same parser then reports status Ok with code 20, where a fresh parser reports code 0.
   - After a response with status 40, the same path makes a request report `ClientError` with code 40.
   - The test does not see this, because it builds a fresh parser for every packet (line 279).
5. **A header-only request panics** (`dubbo_header_only_panic`, dubbo.rs:78). The request has valid magic, so it passes `parse_headers`, and then `get_req_body_info` reads `payload[0]` of the empty body.

6. **Two nodes can share one time key** (`flowtime_orphan`, flow_node.rs:44).
   - `FlowTimeKey::new` takes only the timestamp and the `FlowMapKey`, and the map key leaves out the tunnel.
   - A plain flow and a VXLAN flow of one 4-tuple, created at the same capture timestamp, therefore get equal keys, so the set holds one entry for two nodes.
   - The comment at flow_node.rs:29 calls the key the node's unique identifier, and `spec.md` 8 says every node is reaped.
   - The node without a key is never reaped or evicted.

## Bounds and why they are enough

**Flow map.**
- Two IPs, two MACs and one port give:
  - flows with distinct and with equal endpoints;
  - both orientations of each flow;
  - every L2-end topology;
  - MAC pairs that differ only in the destination.
- Two tap ports make `is_from_trident` both true and false.
- Tiers 1 and 2 sit on both sides of the Hyper-V `tier < 2` test.
- Two nodes are enough for a bucket to hold two flows and for the eviction at capacity to happen.
- For `flowtime_index`, three IPs give three flows, so a third flow must evict one of two. With a clock to 4 and a timeout of 1, a flow can be refreshed and then reaped, and an older and a newer flow can coexist.

**PostgreSQL.**
- Four packets reach these sequences:
  - probe, probe;
  - request then response;
  - stats taken between a request and its response;
  - a stale cache read by the next packet.
- Payloads of at most two blocks reach every branch of both handlers, an ignored block before a surfaced one, and a walk stopped by unreadable bytes.

**Dubbo.**
- Four packets reach, on one parser:
  - a long request, then a short one (a field left over from the first);
  - a response, then a request (the status carried over);
  - a rejected payload between two parsed ones;
  - two requests under one id (a flush), a response before its request, and the two sessions interleaved, with a timeout between any two packets.
- Bodies of up to five bytes over tags 0–2 reach every boundary of the walk:
  - zero-length strings;
  - a parameter ending exactly at the end of the body;
  - a parameter running past it;
  - an unknown tag;
  - the fifth parameter never read.

**Queue.**
- Capacity 2 with three-element vectors makes both queues overwrite, and lets `send_all` of three be refused as `BatchTooLarge` while `send_in_batch` of two succeeds.
- Two producers interleave their chunks and sub-batches.
- Two toggles give the flag an off-on-off history, so a load can return a stale store.
- One call per producer keeps the run under a minute; two calls each exceed ten minutes.

**Flow time index.**
- Three IPs give more flows than the map's two slots, so eviction at capacity happens. A plain and a VXLAN packet of one 4-tuple share a bucket.
- Clock values 0 to 3 (0 to 4 in `flowtime_index`) with a timeout of 1 let keys expire, be refreshed to a later time, and tie at one timestamp.
- The traffic of `flowmap_tor` or `flowmap_mixed` on the time model runs for minutes to hours (hundreds of packets per state), so the matcher properties stay on `FlowMap`.

**Deadlock.** The PostgreSQL configurations disable deadlock checking. The behaviour ends when the flow's packets are exhausted; a parser stops for good when its flow ends. The same holds for the Dubbo configurations, and a Dubbo parser also stops for good when it panics. In the queue runs, the producers stop after `MaxCalls` calls. In the time-index runs, the clock stops at `MaxTime`.

## Fairness and liveness

Every module is checked for safety only, and no specification assumes fairness.
- The flow map and the parsers get no progress guarantee from the code, because whatever packets arrive drives them.
- In `DebugSender`, a call's steps are never blocked. The overwrite queue never waits for room, so under weak fairness every call would return by the shape of the actions. That is a fact about the queue modelled from `spec.md`, not about debug.rs, so no liveness property is kept.

## Not modelled, and why

- `reset_flow_stat_info` and the per-peer packet and byte metrics: counters no property compares.
- The error text (`get_code_desc`'s message, a function of the SQLSTATE) and `is_tls`: data that no property reads. The bytes of the query text, SQLSTATE and row count are abstracted as described above.
- A body length with the top bit set (dubbo.rs:232): it is cast to i32 unchecked and reported as a negative size. That takes one packet, which a unit test reaches, so no run is kept for it.
- Whether a toggle of the debug flag reaches the next send. The flag is loaded `Relaxed`, and nothing orders the debugger's store before a producer's call. The model lets a load return any coherent store, and the queue properties hold for every such choice.
- The wrap of `timestamp_key` (`as_nanos() as u64`, after the year 2554): it needs a 64-bit nanosecond clock.
- The session collectors' bookkeeping (that every half is exported once or still waits). The collectors are not among the sources, and that bookkeeping holds whatever the parsers return, so it says nothing about the code.
- Whether `send_in_batch` is atomic. Its sub-batching is in overwrite_queue.rs, and `spec.md` promises no atomicity. `QueueRefinement` takes each sub-batch as its own batch, so a partly delivered call is permitted, not flagged.
- The eBPF sample, the error enums and the crate root: I/O or declarations only.

## Plan for the next sittings

1. **Flow map.** Check `ImplementsFlowTable` on tunnel traffic once `FlowTimeKey` carries the tunnel. Today that check fails, as `flowtime_orphan` shows.
2. **Queue.** Larger instances of `debug_sender`, with two calls per producer, once symmetry or a smaller state makes them fit.
