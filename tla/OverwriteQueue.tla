--------------------------- MODULE OverwriteQueue ---------------------------
(***************************************************************************)
(* The overwrite queue behind queue::bounded (overwrite_queue.rs is not    *)
(* among the sources; modelled from spec.md 4.1 and 5).  A queue is a      *)
(* record: the ring's contents in FIFO order, its capacity, whether the    *)
(* Receiver was dropped, and the StatsHandle drop counter.  Every          *)
(* operator is one critical section of the queue's mutex, so it is one     *)
(* step of whoever calls it.                                               *)
(***************************************************************************)
EXTENDS Naturals, Sequences

\* bounded(size): an empty ring of capacity size
bounded(size) == [buf |-> <<>>, cap |-> size, closed |-> FALSE, dropped |-> 0]

\* The result of a send: the new queue and Ok or the error variant.
QRet(q, err) == [q |-> q, err |-> err]

\* mutant: one element too few overwritten when the ring overflows
send_all_short_drop(q, msgs) ==
    LET all  == q.buf \o msgs
        over == IF Len(all) > q.cap THEN Len(all) - q.cap - 1 ELSE 0
    IN IF q.closed THEN QRet(q, "Terminated")
       ELSE IF Len(msgs) > q.cap THEN QRet(q, "BatchTooLarge")
       ELSE QRet([q EXCEPT !.buf = SubSeq(all, over + 1, Len(all)),
                           !.dropped = @ + over], "Ok")

\* Sender::send_all: Terminated once the Receiver is gone, BatchTooLarge
\* when the batch exceeds the capacity; otherwise the batch is appended and
\* the oldest elements are overwritten to make room, counted as drops.
send_all(q, msgs) ==
    LET all  == q.buf \o msgs
        over == IF Len(all) > q.cap THEN Len(all) - q.cap ELSE 0
    IN IF q.closed THEN QRet(q, "Terminated")
       ELSE IF Len(msgs) > q.cap THEN QRet(q, "BatchTooLarge")
       ELSE QRet([q EXCEPT !.buf = SubSeq(all, over + 1, Len(all)),
                           !.dropped = @ + over], "Ok")

\* Sender::send: a batch of one
send(q, msg) == send_all(q, <<msg>>)

\* mutant: the read index advanced one short; the last element stays
recv_n_keeps_last(q, max) ==
    LET n == IF Len(q.buf) < max THEN Len(q.buf) ELSE max
    IN [items |-> SubSeq(q.buf, 1, n), q |-> [q EXCEPT !.buf = SubSeq(@, n, Len(@))]]

\* Receiver::recv_n(max): up to max elements from the head, in order
recv_n(q, max) ==
    LET n == IF Len(q.buf) < max THEN Len(q.buf) ELSE max
    IN [items |-> SubSeq(q.buf, 1, n), q |-> [q EXCEPT !.buf = SubSeq(@, n + 1, Len(@))]]

\* dropping the Receiver terminates the queue; what it held is never read
drop_receiver(q) == [q EXCEPT !.closed = TRUE]

\* msgs.chunks(n): consecutive pieces of at most n elements
Chunks(msgs, n) ==
    [i \in 1..((Len(msgs) + n - 1) \div n) |->
        SubSeq(msgs, (i - 1) * n + 1, IF i * n < Len(msgs) THEN i * n ELSE Len(msgs))]

=============================================================================
