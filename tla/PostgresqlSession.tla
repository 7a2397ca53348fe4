------------------------- MODULE PostgresqlSession -------------------------
(***************************************************************************)
(* One PostgresqlLog driven packet by packet, the way check_and_parse in  *)
(* postgresql.rs drives it: a packet is either probed (check_payload and  *)
(* then parse_payload on the same payload) or, once the flow is known,    *)
(* parsed directly; reset() follows every packet.  The flush takes the    *)
(* perf stats out between packets.  Which packets are probed is the       *)
(* caller's choice, so it is left open.                                    *)
(***************************************************************************)
EXTENDS PostgresqlLog, FiniteSets

CONSTANTS
    ReqPayloads,   \* payloads a client may send
    RespPayloads,  \* payloads a server may send
    MaxPackets     \* packets per behaviour

Directions == {"ClientToServer", "ServerToClient"}

VARIABLES
    log,      \* the parser state (PostgresqlLog fields and the cache entry)
    pk,       \* the last packet: [pl, dir]
    out,      \* what parse_payload returned for it
    ok,       \* whether parse_payload returned Ok for it
    sent,     \* request/response blocks delivered since the stats were taken
    npk       \* packets so far

vars == <<log, pk, out, ok, sent, npk>>

NoPk == [pl |-> Payload(<<>>), dir |-> "ClientToServer"]

\* blocks of a payload a request or a response counter stands for
Surfaced(pl, tags) == Len(SelectSeq(pl.blocks, LAMBDA b : b.tag \in tags))

Traffic == ({[pl |-> p, dir |-> "ClientToServer"] : p \in ReqPayloads}
            \cup {[pl |-> p, dir |-> "ServerToClient"] : p \in RespPayloads})

Stats(s) == s.perf

Init ==
    /\ log = InitLog /\ pk = NoPk /\ out = <<>> /\ ok = TRUE
    /\ sent = [req |-> 0, resp |-> 0] /\ npk = 0

Deliver(k, r) ==
    /\ pk' = k /\ out' = r.out /\ ok' = r.ok /\ npk' = npk + 1
    /\ sent' = [req |-> sent.req + Surfaced(k.pl, {"Q", "P"}),
                resp |-> sent.resp + Surfaced(k.pl, {"C", "E"})]

\* check_payload, then parse_payload on the same payload, then reset
Probe(k) ==
    LET c == check_payload(log, k.pl)
        r == parse_payload(c.s, k.pl, k.dir)
    IN /\ npk < MaxPackets
       /\ log' = reset(r.s)
       /\ Deliver(k, r)

\* parse_payload on a flow already identified, then reset
Parse(k) ==
    LET r == parse_payload(log, k.pl, k.dir)
    IN /\ npk < MaxPackets
       /\ log' = reset(r.s)
       /\ Deliver(k, r)

\* the flush takes perf_stats out
TakeStats ==
    /\ log.has_stats
    /\ log' = [log EXCEPT !.has_stats = FALSE, !.perf = NoStats]
    /\ sent' = [req |-> 0, resp |-> 0]
    /\ UNCHANGED <<pk, out, ok, npk>>

Next == \/ \E k \in Traffic : Probe(k) \/ Parse(k)
        \/ TakeStats

Spec == Init /\ [][Next]_vars

-----------------------------------------------------------------------------
(* Properties.                                                             *)

TypeOK ==
    /\ log.perf \in [Counters -> 0..4 * MaxPackets] /\ log.has_stats \in BOOLEAN
    /\ log.parsed \in BOOLEAN /\ log.pending \in BOOLEAN
    /\ log.info.msg_type \in {"Request", "Response", "Other"}
    /\ pk \in Traffic \cup {NoPk} /\ ok \in BOOLEAN
    /\ \A i \in DOMAIN out : out[i].msg_type \in {"Request", "Response"}
    /\ npk \in 0..MaxPackets

\* Each request or response block is counted at most once, although a
\* probed payload is walked by check_payload and then handed again to
\* parse_payload, which must answer from the cache.
CountedOnce ==
    /\ Stats(log).request_count <= sent.req
    /\ Stats(log).response_count <= sent.resp

\* What parse_payload returns describes the packet it was given: the
\* record's msg_type is the packet's direction, and its tag is the tag of a
\* block of that payload (never a record cached from an earlier packet).
OutputFromPayload ==
    \A i \in DOMAIN out :
        /\ out[i].msg_type = MsgTypeOf(pk.dir)
        /\ out[i].msg_type = "Request" =>
               \E j \in DOMAIN pk.pl.blocks : pk.pl.blocks[j].tag = out[i].req_type
        /\ out[i].msg_type = "Response" =>
               \E j \in DOMAIN pk.pl.blocks : pk.pl.blocks[j].tag = out[i].resp_type

\* Every Ok parse of a non-SSL payload surfaces its record: the ignore flag
\* suppresses a record only where no Q/P/C/E block was parsed, which is
\* exactly when the walk fails.
ParsedIsSurfaced ==
    ok /\ ~pk.pl.ssl /\ npk > 0 => Len(out) = 1

\* Every RRT sample of the period belongs to a counted response.
RrtCountsResponses == Stats(log).rrt_count <= Stats(log).response_count

\* A packet whose parse failed changes no perf counter (spec.md section 7:
\* misidentified traffic does not pollute the metrics).
FailedParseCountsNothing ==
    [][(npk' # npk /\ ~ok') => Stats(log') = Stats(log)]_vars

=============================================================================
