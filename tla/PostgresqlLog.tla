--------------------------- MODULE PostgresqlLog ---------------------------
(***************************************************************************)
(* The PostgreSQL parser of                                                *)
(* src/agent/src/flow_generator/protocol_logs/sql/postgresql.rs: the block *)
(* walker, check_payload, parse_payload and reset, with the perf counters *)
(* and the per-flow L7PerfCache entry the walker feeds.                    *)
(*                                                                         *)
(* Data abstraction: a payload is a sequence of blocks.  A readable block  *)
(* is a tag and an abstract body that says which branch of the code the   *)
(* bytes take (NUL-terminated or not, SQL or not, which CommandComplete   *)
(* form, which ErrorResponse form).  A block read_block rejects (length   *)
(* below 4, longer than what is left, fewer than 5 bytes left) is the tag *)
(* "!": the walk stops there.  The SSL-request sentinel is flagged on the *)
(* payload; as blocks it is a single unreadable block (tag 0, length      *)
(* 0x804D2 overruns the 8 bytes).  The query text (context) is the block *)
(* it was read from, <<tag, body>>; the SQLSTATE (result) is its class;   *)
(* affected_rows is 1 where the tag carries a row count.  The error text  *)
(* is a function of the SQLSTATE (get_code_desc) and is left out.         *)
(***************************************************************************)
EXTENDS Naturals, Sequences

CONSTANTS
    MsgTypeDefault  \* LogMessageType::default(), what reset() leaves

ASSUME MsgTypeDefault \in {"Request", "Response", "Other"}

\* The bodies that select the branches of on_req_block / on_resp_block.
QBodies == {"term", "noterm"}                    \* ends with 0x0 or not
PBodies == {"sql", "notsql", "nonul"}            \* query looks like SQL / not / missing NULs
CBodies == {"insert", "insert_short", "rows", "other"}
EBodies == {"client", "server", "short", "badcode", "nocode"}

Blocks ==
    [tag : {"Q"}, body : QBodies] \cup [tag : {"P"}, body : PBodies]
    \cup [tag : {"C"}, body : CBodies] \cup [tag : {"E"}, body : EBodies]
    \cup [tag : {"B", "D", "Z", "u", "!"}, body : {"_"}]

\* 'B' | 'F' | 'C' | 'D' | ... on the request side, 'Z' | ... | 'D' | ... on
\* the response side: recognised, not surfaced.  "u" is a tag neither side knows.
ReqIgnorable  == {"B", "C", "D"}
RespIgnorable == {"Z", "D"}

Payload(bs) == [ssl |-> FALSE, blocks |-> bs]
SslReq      == [ssl |-> TRUE, blocks |-> <<[tag |-> "!", body |-> "_"]>>]

Counters == {"request_count", "response_count", "err_client_count",
             "err_server_count", "rrt_count"}
NoStats  == [c \in Counters |-> 0]       \* L7PerfStats::default()

\* PostgreInfo::default(): ignore is false here; only
\* PostgresqlLog::default() sets it to true.
DefaultInfo == [msg_type |-> MsgTypeDefault, ignore |-> FALSE,
                req_type |-> "none", context |-> <<>>, resp_type |-> "none",
                result |-> "", affected_rows |-> 0, status |-> "Ok", rrt |-> FALSE]

\* The parser: info, perf_stats and parsed; pending is the L7PerfCache
\* entry of this flow (a request timestamp is stored).  perf_stats is None
\* when has_stats is false, and then perf holds the zeros it restarts from.
InitLog == [info |-> [DefaultInfo EXCEPT !.ignore = TRUE], has_stats |-> FALSE,
            perf |-> NoStats, parsed |-> FALSE, pending |-> FALSE]

Inc(s, c) == [s EXCEPT !.perf[c] = @ + 1]

-----------------------------------------------------------------------------
(* The block handlers.  Each takes the parser state and a block and gives  *)
(* [s, err, parsed]: the new state, whether it returned Err (the state    *)
(* changes made before the error stay), and its Ok(bool).                  *)

Ret(s, err, parsed) == [s |-> s, err |-> err, parsed |-> parsed]

\* strip_string_end_with_zero: Ok (the text without its last byte) when
\* the data ends with 0x0, L7ProtocolUnknown otherwise
strip_string_end_with_zero(body) == body = "term"

on_req_block(s, b) ==
    CASE b.tag = "Q" ->
            LET s1 == [s EXCEPT !.info.req_type = "Q"]
            IN IF ~strip_string_end_with_zero(b.body)
               THEN Ret(s1, TRUE, FALSE)
               ELSE Ret(Inc([s1 EXCEPT !.info.context = <<"Q", b.body>>,
                                       !.info.ignore = FALSE], "request_count"),
                        FALSE, TRUE)
      [] b.tag = "P" ->
            LET s0 == [s EXCEPT !.info.req_type = "P", !.info.ignore = FALSE]
                \* the query is read when the statement and query end in NULs
                s1 == IF b.body = "nonul" THEN s0
                      ELSE [s0 EXCEPT !.info.context = <<"P", b.body>>]
            IN IF b.body = "sql" THEN Ret(Inc(s1, "request_count"), FALSE, TRUE)
                                 ELSE Ret(s1, TRUE, FALSE)
      [] b.tag \in ReqIgnorable -> Ret(s, FALSE, FALSE)
      [] OTHER -> Ret(s, TRUE, FALSE)

\* get_code_desc: the SQLSTATE class decides the status
CodeStatus(body) == IF body = "client" THEN "ClientError" ELSE "ServerError"

on_resp_block(s, b) ==
    CASE b.tag = "C" ->
            LET s1 == [s EXCEPT !.info.status = "Ok", !.info.ignore = FALSE,
                                !.info.resp_type = "C"]
                \* "INSERT oid rows" and "DELETE rows" etc. carry a row count
                s2 == IF b.body \in {"insert", "rows"}
                      THEN [s1 EXCEPT !.info.affected_rows = 1] ELSE s1
            IN IF b.body = "insert_short"      \* "INSERT n": no second space
               THEN Ret(s1, FALSE, TRUE)
               ELSE Ret(Inc(s2, "response_count"), FALSE, TRUE)
      [] b.tag = "E" ->
            LET s1 == [s EXCEPT !.info.status = "ClientError",
                                !.info.resp_type = "E", !.info.ignore = FALSE]
                st == CodeStatus(b.body)
                s2 == [s1 EXCEPT !.info.result = b.body, !.info.status = st]
                errc == IF st = "ClientError" THEN "err_client_count"
                                              ELSE "err_server_count"
            IN CASE b.body = "short" -> Ret(s1, FALSE, TRUE)   \* < 2 NULs
                 [] b.body \in {"badcode", "nocode"} -> Ret(s1, TRUE, FALSE)
                 [] OTHER -> Ret(Inc(Inc(s2, errc), "response_count"), FALSE, TRUE)
      [] b.tag \in RespIgnorable -> Ret(s, FALSE, FALSE)
      [] OTHER -> Ret(s, TRUE, FALSE)

-----------------------------------------------------------------------------
(* The walker, the RRT bookkeeping and the parser interface.               *)

\* parse's loop: read blocks until the buffer ends or read_block fails; an
\* Err of a handler leaves at once (the ? operator).  one is at_lease_one_block.
RECURSIVE walk(_, _, _)
walk(s, bs, one) ==
    IF bs = <<>> \/ Head(bs).tag = "!"
    THEN [s |-> s, err |-> FALSE, one |-> one]
    ELSE LET r == IF s.info.msg_type = "Request" THEN on_req_block(s, Head(bs))
                                                 ELSE on_resp_block(s, Head(bs))
         IN IF r.err THEN [s |-> r.s, err |-> TRUE, one |-> one]
                     ELSE walk(r.s, Tail(bs), one \/ r.parsed)

\* info.cal_rrt(param, None) and update_rrt: a request stores its timestamp
\* in the flow's L7PerfCache entry; a response that finds one takes it and
\* yields an RRT, which perf_stats records.
cal_rrt(s) ==
    IF s.info.msg_type = "Request" THEN [s EXCEPT !.pending = TRUE]
    ELSE IF s.pending
         THEN [s EXCEPT !.pending = FALSE, !.info.rrt = TRUE,
                        !.perf.rrt_count = @ + 1]
         ELSE s

\* mutant: the at_lease_one_block test dropped; a walk without error is Ok
parse_any_block(s, pl) ==
    LET w == walk(s, pl.blocks, FALSE)
    IN IF w.err THEN [s |-> w.s, ok |-> FALSE]
       ELSE [s |-> IF w.s.info.ignore THEN w.s ELSE cal_rrt(w.s), ok |-> TRUE]

\* parse: the walk, then at least one surfaced block or L7ProtocolUnknown,
\* and the RRT when the info is not ignored.
parse(s, pl) ==
    LET w == walk(s, pl.blocks, FALSE)
    IN IF w.err \/ ~w.one THEN [s |-> w.s, ok |-> FALSE]
       ELSE [s |-> IF w.s.info.ignore THEN w.s ELSE cal_rrt(w.s), ok |-> TRUE]

\* payload.len() == 8 && msg_type == Request && the bytes are SSL_REQ
check_is_ssl_req(s, pl) == pl.ssl /\ s.info.msg_type = "Request"

EnsureStats(s) == [s EXCEPT !.has_stats = TRUE]

\* set_msg_type: ClientToServer is a Request, ServerToClient a Response
MsgTypeOf(dir) == IF dir = "ClientToServer" THEN "Request" ELSE "Response"

\* mutant: the parse result is not cached (parsed never set)
check_payload_uncached(s, pl) ==
    LET s1 == [s EXCEPT !.info.msg_type = "Request"]
        p  == parse(EnsureStats(s1), pl)
    IN IF check_is_ssl_req(s1, pl) THEN [s |-> s1, r |-> TRUE]
       ELSE [s |-> p.s, r |-> p.ok]

\* mutant: set_msg_type forgotten; the walk runs with the msg_type left over
check_payload_no_msg_type(s, pl) ==
    LET p == parse(EnsureStats(s), pl)
    IN IF check_is_ssl_req(s, pl) THEN [s |-> s, r |-> TRUE]
       ELSE IF p.ok THEN [s |-> [p.s EXCEPT !.parsed = TRUE], r |-> TRUE]
       ELSE [s |-> p.s, r |-> FALSE]

\* check_payload always parses as a request; success caches the result.
check_payload(s, pl) ==
    LET s1 == [s EXCEPT !.info.msg_type = "Request"]
        p  == parse(EnsureStats(s1), pl)
    IN IF check_is_ssl_req(s1, pl) THEN [s |-> s1, r |-> TRUE]
       ELSE IF p.ok THEN [s |-> [p.s EXCEPT !.parsed = TRUE], r |-> TRUE]
       ELSE [s |-> p.s, r |-> FALSE]

Emit(s) == IF s.info.ignore THEN <<>> ELSE <<s.info>>

\* parse_payload: the cached result when check_payload parsed, whatever
\* payload it is given now; otherwise the SSL test (with the msg_type left
\* by the previous call), then a parse in the packet's direction.
parse_payload(s, pl, dir) ==
    IF s.parsed THEN [s |-> s, ok |-> TRUE, out |-> Emit(s)]
    ELSE IF check_is_ssl_req(s, pl) THEN [s |-> s, ok |-> TRUE, out |-> <<>>]
    ELSE LET p == parse([EnsureStats(s) EXCEPT !.info.msg_type = MsgTypeOf(dir)], pl)
         IN [s |-> p.s, ok |-> p.ok, out |-> IF p.ok THEN Emit(p.s) ELSE <<>>]

\* mutant: reset clears the info but not the parsed flag
reset_keeps_parsed(s) == [s EXCEPT !.info = DefaultInfo]

reset(s) == [s EXCEPT !.info = DefaultInfo, !.parsed = FALSE]

=============================================================================
