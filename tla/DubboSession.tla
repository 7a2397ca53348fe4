---------------------------- MODULE DubboSession ----------------------------
(***************************************************************************)
(* One DubboLog kept with its flow and handed the flow's packets one after *)
(* another, as the flow's L7 parser is.  parse starts with reset_logs, so  *)
(* what it reports should depend on the packet alone.                      *)
(***************************************************************************)
EXTENDS DubboLog

CONSTANTS
    Packets,     \* the packets the flow may carry
    MaxPackets   \* packets per behaviour

VARIABLES
    dlog,     \* the DubboLog: info, status, status_code, msg_type
    res,      \* the result of the last parse: [ok, head]
    pkt,      \* the last packet
    crashed,  \* the parser thread panicked
    npk       \* packets so far

vars == <<dlog, res, pkt, crashed, npk>>

Init ==
    /\ dlog = DefaultLog /\ res = [ok |-> FALSE, head |-> "None"]
    /\ pkt = (CHOOSE p \in Packets : TRUE) /\ crashed = FALSE /\ npk = 0

Parse(p) ==
    /\ ~crashed /\ npk < MaxPackets
    /\ npk' = npk + 1 /\ pkt' = p
    /\ IF Panics(p)
       THEN /\ crashed' = TRUE
            /\ UNCHANGED <<dlog, res>>
       ELSE LET r == parse(dlog, p)
            IN /\ dlog' = r.log /\ res' = [ok |-> r.ok, head |-> r.head]
               /\ UNCHANGED crashed

Next == \E p \in Packets : Parse(p)

Spec == Init /\ [][Next]_vars

-----------------------------------------------------------------------------
(* Properties.                                                             *)

TypeOK ==
    /\ dlog.msg_type \in {"Request", "Response", "Other"}
    /\ dlog.status \in {"Ok", "ClientError", "ServerError"}
    /\ res.ok \in BOOLEAN /\ crashed \in BOOLEAN /\ npk \in 0..MaxPackets
    /\ \A f \in {"dubbo_version", "service_name", "service_version", "method_name"} :
           dlog.info[f] \in Seq(Int)

\* What a fresh DubboLog::default() reports for the packet, as the test
\* builds one per packet.
Fresh(p) == parse(DefaultLog, p)

\* The info of a parsed packet carries no field of an earlier packet:
\* reset_logs clears everything request and response set.
InfoOfPacket == res.ok => dlog.info = Fresh(pkt).log.info

\* The reference reading of a request body (spec.md 4.3): a run of string
\* parameters, each a tag whose value is its length followed by that many
\* bytes; the first four are the version, service, service version and
\* method; an unknown tag or a parameter longer than what is left ends it.
StringTags == {BC_STRING_CHUNK, BC_STRING} \cup (0..31) \cup (48..51)

RECURSIVE StringParams(_)
StringParams(b) ==
    IF b = <<>> \/ b[1] \notin StringTags \/ Len(b) - 1 < b[1] THEN <<>>
    ELSE <<SubSeq(b, 2, b[1] + 1)>> \o StringParams(SubSeq(b, b[1] + 2, Len(b)))

RefField(b, i) == IF i <= Len(StringParams(b)) THEN StringParams(b)[i] ELSE <<>>

\* the four fields of a request's info are the reference reading of body
FieldsOfBody(info, b) ==
    /\ info.dubbo_version = RefField(b, 1)
    /\ info.service_name = RefField(b, 2)
    /\ info.service_version = RefField(b, 3)
    /\ info.method_name = RefField(b, 4)

\* get_req_body_info reads the body of every request of the session as the
\* reference does, whatever the parser held from earlier packets.
BodyWalkMatchesReference ==
    res.ok /\ pkt.dir = "ClientToServer" => FieldsOfBody(dlog.info, pkt.body)

\* The head of a parsed packet (msg_type, status, code) is the packet's own.
HeadOfPacket == res.ok => res.head = Fresh(pkt).head

\* No packet the capture delivers makes the parser panic.
NoPanic == ~crashed

=============================================================================
