------------------------- MODULE MCDubboAggregation -------------------------
(* Packets for DubboAggregation: the session traffic of MCDubbo (request  *)
(* id 1), and a request and its response under request id 2, so that two  *)
(* sessions interleave and a request id repeats.                          *)
EXTENDS DubboAggregation, MCDubbo

MCAggPackets ==
    MCSessionPackets
    \cup {[p EXCEPT !.request_id = 2] :
            p \in {Pkt("Tcp", "ClientToServer", FALSE, Magic, 194, 0, Len8, <<1, 9, 1, 8>>),
                   Pkt("Tcp", "ServerToClient", FALSE, Magic, 2, 20, Len8, <<4>>)}}
====
