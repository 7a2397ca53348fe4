------------------------------- MODULE MCDubbo -------------------------------
(* Packets for DubboSession.                                               *)
EXTENDS DubboSession

Magic == <<DUBBO_MAGIC_HIGH, DUBBO_MAGIC_LOW>>
Len8  == [hi |-> FALSE, lo |-> 8]

Pkt(proto, dir, short, magic, flag, status, len, body) ==
    [proto |-> proto, dir |-> dir, short |-> short, magic |-> magic,
     flag |-> flag, status |-> status, request_id |-> 1,
     body_length |-> len, body |-> body]

\* Request bodies: a non-string first tag (0x90, an int), the version and
\* service only, and all four string parameters.
MCBodies == {<<144>>, <<1, 9, 1, 8>>, <<1, 9, 1, 8, 1, 7, 1, 6>>}

\* A flow's traffic: requests (flag 0xc2), responses with status OK (20),
\* SERVICE_ERROR (70) and BAD_REQUEST (40), a heartbeat event the server
\* sends (flag 0xe2, status 0), and payloads the header parse or the
\* protocol check rejects.
MCSessionPackets ==
    {Pkt("Tcp", "ClientToServer", FALSE, Magic, 194, 0, Len8, b) : b \in MCBodies}
    \cup {Pkt("Tcp", "ServerToClient", FALSE, Magic, 2, s, Len8, <<4>>) : s \in {20, 70, 40}}
    \cup {Pkt("Tcp", "ServerToClient", FALSE, Magic, 226, 0, Len8, <<78>>),
          Pkt("Tcp", "ClientToServer", TRUE, Magic, 194, 0, Len8, <<>>),
          Pkt("Tcp", "ServerToClient", FALSE, <<218, 0>>, 2, 20, Len8, <<>>),
          Pkt("Udp", "ClientToServer", FALSE, Magic, 194, 0, Len8, <<1, 9>>)}

\* Every request body of up to five bytes over the string tags 0, 1, 2
\* and the int tag 0x90.
MCBodyBytes == {0, 1, 2, 144}
MCWalkPackets ==
    {Pkt("Tcp", "ClientToServer", FALSE, Magic, 194, 0, Len8, b) :
        b \in UNION {[1..n -> MCBodyBytes] : n \in 1..5}}

\* get_req_body_info, on the flow's parser before its first packet, reads
\* every body of up to five bytes over these tags as the reference does:
\* zero-length strings, a parameter ending exactly at the end of the body
\* or running past it, an unknown tag, and a fifth parameter that is never
\* read.  (Later packets are covered by InfoOfPacket, which reduces them
\* to a fresh parser; the 1,364 bodies are parsed in the states with
\* npk = 0 only.)
BodyWalkExhaustive ==
    npk = 0 =>
        \A p \in MCWalkPackets :
            LET r == parse(dlog, p) IN r.ok => FieldsOfBody(r.log.info, p.body)

\* A request that is the header alone.
MCHeaderOnly == {Pkt("Tcp", "ClientToServer", FALSE, Magic, 194, 0, Len8, <<>>)}
====
