---------------------------- MODULE MCPostgresql ----------------------------
(* Traffic for PostgresqlSession.                                          *)
EXTENDS PostgresqlSession

Blk(t, b) == [tag |-> t, body |-> b]
Stop      == Blk("!", "_")

\* The surfaced request and response blocks, every branch of their handlers.
ReqSignificant  == {Blk("Q", b) : b \in QBodies} \cup {Blk("P", b) : b \in PBodies}
RespSignificant == {Blk("C", b) : b \in CBodies} \cup {Blk("E", b) : b \in EBodies}

\* Well-formed PostgreSQL traffic: one surfaced block per payload, alone,
\* after a Bind/Describe/DataRow-like block, or before bytes read_block
\* rejects; a tag neither side knows only alone; and the SSL request.
MCReqPayloads ==
    {Payload(<<b>>) : b \in ReqSignificant \cup {Blk("B", "_"), Blk("u", "_")}}
    \cup {Payload(<<Blk("D", "_"), b>>) : b \in ReqSignificant}
    \cup {Payload(<<b, Stop>>) : b \in ReqSignificant}
    \cup {SslReq}

MCRespPayloads ==
    {Payload(<<b>>) : b \in RespSignificant \cup {Blk("Z", "_"), Blk("u", "_")}}
    \cup {Payload(<<Blk("D", "_"), b>>) : b \in RespSignificant}
    \cup {Payload(<<b, Blk("Z", "_")>>) : b \in RespSignificant}

\* A query, and a CommandComplete "INSERT n" cut before the row count.
MCReqQuery        == {Payload(<<Blk("Q", "term")>>)}
MCRespInsertShort == {Payload(<<Blk("C", "insert_short")>>)}

\* A query followed by a tag the request side does not know: traffic of
\* another protocol that starts like a PostgreSQL query.
MCReqQueryThenUnknown == {Payload(<<Blk("Q", "term"), Blk("u", "_")>>)}
MCRespRows            == {Payload(<<Blk("C", "rows")>>)}
====
