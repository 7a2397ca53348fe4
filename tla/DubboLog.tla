------------------------------ MODULE DubboLog ------------------------------
(***************************************************************************)
(* The Dubbo parser of src/src/flow_generator/protocol_logs/rpc/dubbo.rs:  *)
(* DubboHeader::parse_headers, DubboLog::parse with request/response,      *)
(* reset_logs, set_status, get_req_body_info and get_req_param_len.        *)
(*                                                                         *)
(* A packet is a record of what parse reads: the L4 protocol, the flow     *)
(* direction, whether the payload is shorter than the 16-byte header, the  *)
(* two magic bytes, the flag and status bytes, the request id, the body    *)
(* length as the u32 read big-endian (its top bit and its low 31 bits, so  *)
(* that TLC's integers hold it), and the body bytes after the header.      *)
(* The strings of DubboInfo are the byte sequences they are decoded from.  *)
(***************************************************************************)
EXTENDS Integers, Sequences, Bitwise

\* consts.rs (not among the sources): the Dubbo header and the Hessian tags
DUBBO_HEADER_LEN  == 16
DUBBO_MAGIC_HIGH  == 218    \* 0xda
DUBBO_MAGIC_LOW   == 187    \* 0xbb
BC_STRING_CHUNK   == 82     \* 'R'
BC_STRING         == 83     \* 'S'
BC_STRING_DIRECT  == 0
STRING_DIRECT_MAX == 31
BODY_PARAM_MIN    == 1
BODY_PARAM_MAX    == 5

\* BODY_PARAM_DUBBO_VERSION .. BODY_PARAM_METHOD_NAME
ParamField(n) == CASE n = 1 -> "dubbo_version" [] n = 2 -> "service_name"
                   [] n = 3 -> "service_version" [] n = 4 -> "method_name"

\* read_u32_be(..) as i32: the top bit becomes the sign (2^31 is written
\* 2147483647 + 1, which TLC's 32-bit integers cannot hold)
AsI32(len) == IF len.hi THEN len.lo - 2147483647 - 1 ELSE len.lo

\* DubboLog::default(): every field zero or empty
DefaultInfo == [serial_id |-> 0, data_type |-> 0, request_id |-> 0,
                req_msg_size |-> 0, dubbo_version |-> <<>>, service_name |-> <<>>,
                service_version |-> <<>>, method_name |-> <<>>, resp_msg_size |-> 0]
DefaultLog  == [info |-> DefaultInfo, status |-> "Ok", status_code |-> 0,
                msg_type |-> "Other"]

\* mutant: method_name left out of the reset
reset_logs_keeps_method(log) ==
    [log EXCEPT !.info = [@ EXCEPT !.serial_id = 0, !.data_type = 0,
                                   !.request_id = 0, !.req_msg_size = -1,
                                   !.dubbo_version = <<>>, !.service_name = <<>>,
                                   !.service_version = <<>>, !.resp_msg_size = -1]]

reset_logs(log) ==
    [log EXCEPT !.info = [@ EXCEPT !.serial_id = 0, !.data_type = 0,
                                   !.request_id = 0, !.req_msg_size = -1,
                                   !.dubbo_version = <<>>, !.service_name = <<>>,
                                   !.service_version = <<>>, !.method_name = <<>>,
                                   !.resp_msg_size = -1]]

\* get_req_param_len: the length is the tag itself, or None (-1)
get_req_param_len(tag) ==
    IF \/ tag = BC_STRING_CHUNK \/ tag = BC_STRING
       \/ BC_STRING_DIRECT <= tag /\ tag <= STRING_DIRECT_MAX
       \/ 48 <= tag /\ tag <= 51
    THEN tag ELSE -1

\* mutant: a parameter that ends exactly at the end of the body is refused
RECURSIVE BodyLoopStrict(_, _, _, _, _)
BodyLoopStrict(info, payload, n, para_index, para_tag) ==
    LET para_len == get_req_param_len(para_tag)
        next     == para_index + para_len
        info2    == [info EXCEPT ![ParamField(n)] =
                                    SubSeq(payload, para_index + 1, next)]
    IN IF n >= BODY_PARAM_MAX \/ para_len < 0 \/ Len(payload) <= next THEN info
       ELSE BodyLoopStrict(info2, payload, n + 1, next + 1, payload[next + 1])

\* The while loop of get_req_body_info from parameter n, with para_index
\* (0-based) and para_tag; payload[a..b] is SubSeq(payload, a + 1, b).
RECURSIVE BodyLoop(_, _, _, _, _)
BodyLoop(info, payload, n, para_index, para_tag) ==
    LET para_len == get_req_param_len(para_tag)
        next     == para_index + para_len
        info2    == [info EXCEPT ![ParamField(n)] =
                                    SubSeq(payload, para_index + 1, next)]
    IN IF n >= BODY_PARAM_MAX \/ para_len < 0 \/ Len(payload) < next THEN info
       ELSE IF Len(payload) <= next THEN info2
       ELSE BodyLoop(info2, payload, n + 1, next + 1, payload[next + 1])

\* payload[0] of an empty body is out of bounds: the caller checks Len > 0
get_req_body_info(info, payload) ==
    BodyLoop(info, payload, BODY_PARAM_MIN, 1, payload[1])

\* mutant: an unknown status code reported as NotExist
set_status_not_exist(code) ==
    CASE code = 20 -> "Ok"
      [] code \in {30, 40, 90} -> "ClientError"
      [] code \in {31, 50, 60, 70, 80, 100} -> "ServerError"
      [] OTHER -> "NotExist"

set_status(code) ==
    CASE code = 20 -> "Ok"
      [] code \in {30, 40, 90} -> "ClientError"
      [] code \in {31, 50, 60, 70, 80, 100} -> "ServerError"
      [] OTHER -> "Ok"

\* DubboHeader::parse_headers: Err on a short payload or a wrong magic
HeaderOk(pkt) ==
    ~pkt.short /\ pkt.magic = <<DUBBO_MAGIC_HIGH, DUBBO_MAGIC_LOW>>

parse_headers(pkt) ==
    [serial_id |-> pkt.flag & 31, data_type |-> pkt.flag & 128,
     status_code |-> pkt.status, request_id |-> pkt.request_id,
     data_length |-> AsI32(pkt.body_length)]

request(log, pkt, h) ==
    [log EXCEPT !.msg_type = "Request",
                !.info = get_req_body_info(
                           [@ EXCEPT !.data_type = h.data_type,
                                     !.req_msg_size = h.data_length,
                                     !.serial_id = h.serial_id,
                                     !.request_id = h.request_id], pkt.body)]

response(log, h) ==
    [log EXCEPT !.msg_type = "Response",
                !.info = [@ EXCEPT !.data_type = h.data_type,
                                   !.resp_msg_size = h.data_length,
                                   !.serial_id = h.serial_id,
                                   !.request_id = h.request_id],
                !.status_code = h.status_code,
                !.status = set_status(h.status_code)]

\* A request whose body is empty panics in get_req_body_info.
Panics(pkt) ==
    pkt.proto = "Tcp" /\ HeaderOk(pkt) /\ pkt.dir = "ClientToServer" /\ pkt.body = <<>>

\* L7LogParse::parse: the new parser state and the result, the
\* AppProtoHead or an error.
parse(log, pkt) ==
    LET log1 == reset_logs(log)
        h    == parse_headers(pkt)
        log2 == IF pkt.dir = "ClientToServer" THEN request(log1, pkt, h)
                                               ELSE response(log1, h)
    IN IF pkt.proto # "Tcp"
       THEN [log |-> log, ok |-> FALSE, head |-> "InvalidIpProtocol"]
       ELSE IF ~HeaderOk(pkt)
       THEN [log |-> log1, ok |-> FALSE, head |-> "DubboHeaderParseFailed"]
       ELSE [log |-> log2, ok |-> TRUE,
             head |-> [msg_type |-> log2.msg_type, status |-> log2.status,
                       code |-> log2.status_code]]

=============================================================================
