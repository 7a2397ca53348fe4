---------------------------- MODULE DebugSender ----------------------------
(***************************************************************************)
(* queue::bounded_with_debug and DebugSender of                            *)
(* src/agent/crates/public/src/queue/debug.rs, with the threads around it: *)
(* producers holding clones of one DebugSender, the single consumer of the *)
(* primary queue, and the QueueDebugger, which toggles the enabled flag    *)
(* and drains the debug queue (QueueDebugger is not among the sources:    *)
(* modelled from spec.md 4.1 and 5).                                       *)
(*                                                                         *)
(* A call is split where another thread can run: the Relaxed load of the  *)
(* flag, each send_all of a chunk on the debug queue, and each enqueue on  *)
(* the primary queue (send_in_batch enqueues one sub-batch at a time).     *)
(* The flag's stores form a modification order, hist; a Relaxed load     *)
(* returns any store no older than the last one this thread read (read-  *)
(* read coherence), which is all the memory model promises.               *)
(* Message <<p, c, j>> is element j of producer p's call number c.        *)
(***************************************************************************)
EXTENDS Naturals, Sequences, OverwriteQueue

CONSTANTS
    Producers,   \* threads holding a clone of the DebugSender
    Size,        \* the size given to bounded_with_debug
    QUEUE_LEN,   \* crate::debug::QUEUE_LEN, the debug queue's capacity
    BatchLens,   \* lengths of the vectors given to send_all / send_in_batch
    BatchSizes,  \* batch_size arguments of send_in_batch
    RecvMax,     \* largest max of the consumer's recv_n
    MaxCalls,    \* calls per producer
    MaxToggles   \* flag stores by the debugger

ASSUME /\ BatchSizes \subseteq Nat \ {0} /\ BatchLens \subseteq Nat \ {0}
       /\ QUEUE_LEN > 0 /\ Size > 0 /\ RecvMax > 0

Kinds == {"send", "send_all", "send_in_batch"}

VARIABLES
    main,    \* the primary overwrite queue
    dbg,     \* the debug queue the QueueDebugger reads
    hist,    \* the stores to the enabled flag, oldest first
    seen,    \* per producer: the index in hist of its last load
    pc,      \* per producer: idle, debug (mirroring) or primary
    call,    \* per producer: the call in progress
    calls,   \* per producer: calls begun
    acc,     \* per producer: the elements the primary queue accepted
    res,     \* per producer: the result of its last primary enqueue
    dres,    \* per producer: the result of its last debug send
    next,    \* per producer: index in acc after the last element received
    nrecv    \* elements the consumer has received

vars == <<main, dbg, hist, seen, pc, call, calls, acc, res, dres, next, nrecv>>

NoCall == [kind |-> "none", dchunks |-> <<>>, pchunks |-> <<>>]

CallMsgs(p, c, n) == [j \in 1..n |-> <<p, c, j>>]

\* format!("{:?}", msg): the debug queue holds renderings, not the values
Render(msgs) == [i \in DOMAIN msgs |-> [text |-> msgs[i]]]

\* bounded_with_debug: the primary queue, the debug queue of QUEUE_LEN and
\* the flag, false
Init ==
    /\ main = bounded(Size) /\ dbg = bounded(QUEUE_LEN)
    /\ hist = <<FALSE>> /\ seen = [p \in Producers |-> 1]
    /\ pc = [p \in Producers |-> "idle"] /\ call = [p \in Producers |-> NoCall]
    /\ calls = [p \in Producers |-> 0] /\ acc = [p \in Producers |-> <<>>]
    /\ res = [p \in Producers |-> "none"] /\ dres = [p \in Producers |-> "none"]
    /\ next = [p \in Producers |-> 1] /\ nrecv = 0

-----------------------------------------------------------------------------
(* The producer side: send, send_all and send_in_batch.                   *)

\* mutant: the vector mirrored in one send_all, without chunks
send_debug_unchunked(kind, msgs) == <<msgs>>

\* What send_debug (or send's single mirror) will hand to the debug queue:
\* send mirrors its one message; send_all and send_in_batch go through
\* send_debug, which sends msgs.chunks(QUEUE_LEN) one send_all each.
send_debug(kind, msgs) ==
    IF kind = "send" THEN <<msgs>> ELSE Chunks(msgs, QUEUE_LEN)

\* what the primary sender gets: one enqueue, or send_in_batch's sub-batches
PrimaryBatches(kind, msgs, bs) ==
    IF kind = "send_in_batch" THEN Chunks(msgs, bs) ELSE <<msgs>>

\* A call begins with the Relaxed load of the flag: when it reads true the
\* call mirrors, otherwise it goes straight to the primary send.
Begin(p, kind, n, bs) ==
    /\ pc[p] = "idle" /\ calls[p] < MaxCalls
    /\ LET msgs == CallMsgs(p, calls[p] + 1, n)
       IN \E i \in seen[p]..Len(hist) :
            /\ seen' = [seen EXCEPT ![p] = i]
            /\ pc' = [pc EXCEPT ![p] = IF hist[i] THEN "debug" ELSE "primary"]
            /\ call' = [call EXCEPT ![p] =
                          [kind |-> kind,
                           dchunks |-> IF hist[i] THEN send_debug(kind, msgs) ELSE <<>>,
                           pchunks |-> PrimaryBatches(kind, msgs, bs)]]
    /\ calls' = [calls EXCEPT ![p] = @ + 1]
    /\ UNCHANGED <<main, dbg, hist, acc, res, dres, next, nrecv>>

\* One mirror send on the debug queue; its error is only logged.
DebugSend(p) ==
    /\ pc[p] = "debug"
    /\ LET r == IF call[p].kind = "send"
                THEN send(dbg, Render(Head(call[p].dchunks))[1])
                ELSE send_all(dbg, Render(Head(call[p].dchunks)))
       IN /\ dbg' = r.q
          /\ dres' = [dres EXCEPT ![p] = r.err]
    /\ call' = [call EXCEPT ![p].dchunks = Tail(@)]
    /\ pc' = [pc EXCEPT ![p] = IF Tail(call[p].dchunks) = <<>> THEN "primary" ELSE "debug"]
    /\ UNCHANGED <<main, hist, seen, calls, acc, res, next, nrecv>>

\* One enqueue on the primary queue; the call returns after the last one or
\* at the first error, with that result.
PrimarySend(p) ==
    /\ pc[p] = "primary"
    /\ LET batch == Head(call[p].pchunks)
           r     == IF call[p].kind = "send" THEN send(main, batch[1])
                                               ELSE send_all(main, batch)
           done  == r.err # "Ok" \/ Tail(call[p].pchunks) = <<>>
       IN /\ main' = r.q
          /\ res' = [res EXCEPT ![p] = r.err]
          /\ acc' = [acc EXCEPT ![p] = IF r.err = "Ok" THEN @ \o batch ELSE @]
          /\ pc' = [pc EXCEPT ![p] = IF done THEN "idle" ELSE "primary"]
          /\ call' = [call EXCEPT ![p] = IF done THEN NoCall
                                         ELSE [@ EXCEPT !.pchunks = Tail(@)]]
    /\ UNCHANGED <<dbg, hist, seen, calls, dres, next, nrecv>>

-----------------------------------------------------------------------------
(* The consumer and the debugger.                                          *)

\* the position in acc[p] of a received element of p
PosIn(p, m) == CHOOSE i \in DOMAIN acc[p] : acc[p][i] = m

\* Receiver::recv_n(max) on the primary queue
Recv(max) ==
    /\ ~main.closed /\ main.buf # <<>>
    /\ LET r == recv_n(main, max)
           of(p) == {i \in DOMAIN r.items : r.items[i][1] = p}
       IN /\ main' = r.q
          /\ nrecv' = nrecv + Len(r.items)
          /\ next' = [p \in Producers |->
                        IF of(p) = {} THEN next[p]
                        ELSE 1 + PosIn(p, r.items[CHOOSE i \in of(p) :
                                                    \A j \in of(p) : j <= i])]
    /\ UNCHANGED <<dbg, hist, seen, pc, call, calls, acc, res, dres>>

\* the consumer drops its Receiver
DropReceiver ==
    /\ ~main.closed
    /\ main' = drop_receiver(main)
    /\ UNCHANGED <<dbg, hist, seen, pc, call, calls, acc, res, dres, next, nrecv>>

\* QueueDebugger: a Relaxed store of the negated flag
Toggle ==
    /\ Len(hist) <= MaxToggles
    /\ hist' = Append(hist, ~hist[Len(hist)])
    /\ UNCHANGED <<main, dbg, seen, pc, call, calls, acc, res, dres, next, nrecv>>

\* QueueDebugger: drains the debug queue for its subscriber
DebugRecv ==
    /\ dbg.buf # <<>>
    /\ dbg' = recv_n(dbg, QUEUE_LEN).q
    /\ UNCHANGED <<main, hist, seen, pc, call, calls, acc, res, dres, next, nrecv>>

Next ==
    \/ \E p \in Producers :
          \/ \E kind \in Kinds, bs \in BatchSizes :
                \E n \in IF kind = "send" THEN {1} ELSE BatchLens : Begin(p, kind, n, bs)
          \/ DebugSend(p)
          \/ PrimarySend(p)
    \/ \E max \in 1..RecvMax : Recv(max)
    \/ DropReceiver \/ Toggle \/ DebugRecv

Spec == Init /\ [][Next]_vars

-----------------------------------------------------------------------------
(* Properties.                                                             *)

\* every slice of a call's vector: what one enqueue may carry
AllBatches ==
    UNION {{SubSeq(CallMsgs(p, c, n), a, b) : a, b \in 1..n} :
           p \in Producers, c \in 1..MaxCalls, n \in BatchLens \cup {1}}

Results == {"none", "Ok", "Terminated", "BatchTooLarge"}

\* The types, and spec.md 8: size() never exceeds the capacity, on the
\* primary queue nor on the debug queue.
TypeOK ==
    /\ Len(main.buf) <= main.cap /\ Len(dbg.buf) <= dbg.cap
    /\ pc \in [Producers -> {"idle", "debug", "primary"}]
    /\ \A p \in Producers : seen[p] \in 1..Len(hist)
    /\ calls \in [Producers -> 0..MaxCalls]
    /\ res \in [Producers -> Results] /\ dres \in [Producers -> Results]

\* The primary queue, seen through its Senders' results and its Receiver,
\* is the lossy per-producer FIFO of QueueSpec, whatever the debug mirror
\* does: an Ok send was accepted whole, a refusal was for the reason given,
\* and the consumer gets each producer's elements once, in order.
QS == INSTANCE QueueSpec WITH
        accepted <- acc, next <- next, delivered <- nrecv, res <- res,
        open <- ~main.closed, Capacity <- Size, Batches <- AllBatches

QueueRefinement == QS!Spec

\* send_debug cuts a vector into QUEUE_LEN chunks so that the debug queue
\* never refuses a mirror as BatchTooLarge, however long the vector.
DebugNeverTooLarge == \A p \in Producers : dres[p] # "BatchTooLarge"

=============================================================================
