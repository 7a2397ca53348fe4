-------------------------- MODULE DubboAggregation --------------------------
(***************************************************************************)
(* Session aggregation (spec.md 4.4) behind the DubboLog of a flow.  Every *)
(* Ok parse hands DubboLog::info (a clone of the info) and the message     *)
(* type to the collector, which pairs a request and a response of one      *)
(* session, merges them with DubboInfo::merge and exports the result as a *)
(* flow_log::DubboInfo.  A Dubbo session is its request_id (spec.md        *)
(* glossary).  The collector is not among the sources; after spec.md 4.4  *)
(* a session key holds one waiting half, merged once with the other half, *)
(* or flushed alone on a timeout or when a half of the same type takes    *)
(* its key.                                                                *)
(*                                                                         *)
(* For the properties, every half also carries (as history only) the     *)
(* packet it was parsed from.                                              *)
(***************************************************************************)
EXTENDS DubboSession

CONSTANT RequestIds   \* the request ids the flow's packets carry

VARIABLES
    waiting,    \* per request id: the half that waits for its other half
    exported    \* the exported logs, in export order

avars == <<vars, waiting, exported>>

NoHalf == [msg_type |-> "None"]

\* DubboLog::info
info(log) == log.info

\* mutant: the response size is not copied
merge_keeps_self(self, other) == self

\* DubboInfo::merge: the response's size is copied into the request's info
merge(self, other) == [self EXCEPT !.resp_msg_size = other.resp_msg_size]

\* From<DubboInfo> for flow_log::DubboInfo.  The modelled ids are below
\* 2^31, where request_id as u32 keeps the value.
ToFlowLog(f) ==
    [serial_id |-> f.serial_id, type |-> f.data_type, id |-> f.request_id,
     req_body_len |-> f.req_msg_size, version |-> f.dubbo_version,
     service_name |-> f.service_name, service_version |-> f.service_version,
     method_name |-> f.method_name, resp_body_len |-> f.resp_msg_size]

\* an exported log and the halves it was made of (history only)
Export(f, req, resp) == [log |-> ToFlowLog(f), req |-> req, resp |-> resp]

Alone(h) == Export(h.info, IF h.msg_type = "Request" THEN {h.pkt} ELSE {},
                           IF h.msg_type = "Response" THEN {h.pkt} ELSE {})

\* The collector takes one half: it waits, or it completes the session and
\* the response is merged into the request, or it flushes a half of the
\* same type that waited under its key.
Collect(h) ==
    LET k == h.info.request_id
        w == waiting[k]
    IN CASE w.msg_type = "None" ->
                /\ waiting' = [waiting EXCEPT ![k] = h]
                /\ UNCHANGED exported
         [] w.msg_type # h.msg_type ->
                LET req  == IF h.msg_type = "Request" THEN h ELSE w
                    resp == IF h.msg_type = "Request" THEN w ELSE h
                IN /\ waiting' = [waiting EXCEPT ![k] = NoHalf]
                   /\ exported' = Append(exported,
                                    Export(merge(req.info, resp.info), {req.pkt}, {resp.pkt}))
         [] OTHER ->
                /\ waiting' = [waiting EXCEPT ![k] = h]
                /\ exported' = Append(exported, Alone(w))

AInit ==
    /\ Init
    /\ waiting = [k \in RequestIds |-> NoHalf]
    /\ exported = <<>>

\* a packet is parsed; an Ok parse hands its info to the collector
AParse(p) ==
    /\ Parse(p)
    /\ IF ~crashed' /\ res'.ok
       THEN Collect([msg_type |-> dlog'.msg_type, info |-> info(dlog'), pkt |-> p])
       ELSE UNCHANGED <<waiting, exported>>

\* the half waiting under a key times out and is exported alone
Timeout(k) ==
    /\ waiting[k].msg_type # "None"
    /\ waiting' = [waiting EXCEPT ![k] = NoHalf]
    /\ exported' = Append(exported, Alone(waiting[k]))
    /\ UNCHANGED vars

ANext == (\E p \in Packets : AParse(p)) \/ (\E k \in RequestIds : Timeout(k))

ASpec == AInit /\ [][ANext]_avars

-----------------------------------------------------------------------------
(* Properties.                                                             *)

ReqSide(f) == <<f.version, f.service_name, f.service_version, f.method_name, f.req_body_len>>

\* Every exported log describes its own session, after the parser was
\* reused across packets and the halves were merged: its request fields
\* are those a fresh parser reads from its request packet, its response
\* size that of its response packet, and both packets carry its id.
ExportedDescribesSession ==
    \A i \in DOMAIN exported :
        LET e == exported[i] IN
        /\ \A q \in e.req :
              /\ q.request_id = e.log.id
              /\ ReqSide(e.log) = ReqSide(ToFlowLog(Fresh(q).log.info))
        /\ \A s \in e.resp :
              /\ s.request_id = e.log.id
              /\ e.log.resp_body_len = Fresh(s).log.info.resp_msg_size

=============================================================================
