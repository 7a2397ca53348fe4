------------------------ MODULE PostgresqlAggregation ------------------------
(***************************************************************************)
(* Session aggregation (spec.md 4.4) behind the PostgresqlLog of a flow.  *)
(* Every record parse_payload returns is handed, with its message type,  *)
(* to the collector, which pairs a request and a response with           *)
(* PostgreInfo::merge_log and exports the result as an L7ProtocolSendLog. *)
(* PostgreInfo::session_id is None: a PostgreSQL session is implicit and  *)
(* sequential (spec.md glossary), so the whole flow is one session key   *)
(* and holds at most one waiting half.  The collector is not among the    *)
(* sources; after spec.md 4.4 a waiting half is merged once with the      *)
(* other half, or flushed alone on a timeout or when a half of the same   *)
(* type takes its place.                                                   *)
(*                                                                         *)
(* For the properties, every half also carries (as history only) the     *)
(* packet it was returned for; the collector's output is kept as the     *)
(* logs the last step exported, so that the state space stays that of the *)
(* parser.                                                                 *)
(***************************************************************************)
EXTENDS PostgresqlSession

VARIABLES
    waiting,    \* the half that waits for its other half, or NoHalf
    emitted     \* the logs exported by the last step

cvars == <<waiting, emitted>>
avars == <<vars, cvars>>

NoHalf == [msg_type |-> "None"]

\* mutant: the fields are chosen by the receiver's own message type
merge_log_by_self(self, other) ==
    CASE self.msg_type = "Request" ->
            [self EXCEPT !.req_type = other.req_type, !.context = other.context]
      [] self.msg_type = "Response" ->
            [self EXCEPT !.resp_type = other.resp_type, !.result = other.result,
                         !.status = other.status, !.affected_rows = other.affected_rows]
      [] OTHER -> self

\* PostgreInfo::merge_log: the other info's message type decides which
\* side's fields are copied into self (error_message goes with result).
merge_log(self, other) ==
    CASE other.msg_type = "Request" ->
            [self EXCEPT !.req_type = other.req_type, !.context = other.context]
      [] other.msg_type = "Response" ->
            [self EXCEPT !.resp_type = other.resp_type, !.result = other.result,
                         !.status = other.status, !.affected_rows = other.affected_rows]
      [] OTHER -> self

\* get_request_str: the human name of the request type (spec.md 6)
get_request_str(t) ==
    CASE t = "Q" -> "simple_query" [] t = "P" -> "prepared" [] OTHER -> ""

\* From<PostgreInfo> for L7ProtocolSendLog.  The modelled row counts are
\* below 2^32, where affected_rows as u32 keeps the value.
ToSendLog(p) ==
    [row_effect |-> p.affected_rows, req_type |-> get_request_str(p.req_type),
     resource |-> p.context, status |-> p.status, result |-> p.result]

\* an exported log and the packets of its halves (history only)
Export(p, req, resp) == [log |-> ToSendLog(p), req |-> req, resp |-> resp]

\* the collector exports log e in this step, or nothing
Exports(e) == emitted' = <<e>>
NoExport   == emitted' = <<>>

Alone(h) == Export(h.info, IF h.msg_type = "Request" THEN {h.pkt} ELSE {},
                           IF h.msg_type = "Response" THEN {h.pkt} ELSE {})

\* The collector takes one half: it waits, or it completes the session and
\* the response is merged into the request, or it flushes a half of the
\* same type that waited before it.
Collect(h) ==
    CASE waiting.msg_type = "None" ->
            /\ waiting' = h
            /\ NoExport
      [] waiting.msg_type # h.msg_type ->
            LET req  == IF h.msg_type = "Request" THEN h ELSE waiting
                resp == IF h.msg_type = "Request" THEN waiting ELSE h
            IN /\ waiting' = NoHalf
               /\ Exports(Export(merge_log(req.info, resp.info), {req.pkt}, {resp.pkt}))
      [] OTHER ->
            /\ waiting' = h
            /\ Exports(Alone(waiting))

\* the record parse_payload returned for packet k, if any, goes to the collector
Hand(k) ==
    IF out' = <<>>
    THEN UNCHANGED waiting /\ NoExport
    ELSE Collect([msg_type |-> out'[1].msg_type, info |-> out'[1], pkt |-> k])

AInit ==
    /\ Init
    /\ waiting = NoHalf
    /\ emitted = <<>>

AProbe(k) == Probe(k) /\ Hand(k)

AParse(k) == Parse(k) /\ Hand(k)

ATakeStats == TakeStats /\ UNCHANGED waiting /\ NoExport

\* the waiting half times out and is exported alone
Timeout ==
    /\ waiting.msg_type # "None"
    /\ waiting' = NoHalf
    /\ Exports(Alone(waiting))
    /\ UNCHANGED vars

ANext == \/ \E k \in Traffic : AProbe(k) \/ AParse(k)
         \/ ATakeStats
         \/ Timeout

ASpec == AInit /\ [][ANext]_avars

-----------------------------------------------------------------------------
(* Properties.                                                             *)

\* What parse_payload reports for packet k on a parser that has seen nothing.
Fresh(k) == parse_payload(InitLog, k.pl, k.dir).out

ReqSide(l)  == <<l.req_type, l.resource>>
RespSide(l) == <<l.status, l.result, l.row_effect>>

\* Every exported log describes its own session, after the parser was
\* probed, reused and reset across packets and the halves were merged: its
\* request type and query are what a fresh parser reads from its request
\* packet, its status, SQLSTATE and row count what it reads from its
\* response packet (spec.md 8, scenarios 1 and 2).
ExportedDescribesSession ==
    \A i \in DOMAIN emitted :
        LET e == emitted[i] IN
        /\ \A q \in e.req :
              Fresh(q) # <<>> /\ ReqSide(e.log) = ReqSide(ToSendLog(Fresh(q)[1]))
        /\ \A s \in e.resp :
              Fresh(s) # <<>> /\ RespSide(e.log) = RespSide(ToSendLog(Fresh(s)[1]))

=============================================================================
