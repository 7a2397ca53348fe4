----------------------------- MODULE QueueSpec -----------------------------
(***************************************************************************)
(* What a queue::bounded channel promises its producers and its consumer   *)
(* (spec.md 4.1, 5 and 8), with no ring, no capacity arithmetic and no    *)
(* debug mirror:                                                           *)
(*   - a send of a batch either accepts the whole batch, or is refused    *)
(*     with Terminated (the Receiver is gone) or BatchTooLarge (the batch *)
(*     exceeds the capacity), and the caller is told which;               *)
(*   - the consumer receives accepted elements of each producer in the    *)
(*     order they were accepted; elements may be skipped (overwritten),   *)
(*     never received twice and never invented.                           *)
(* next[p] is the index in accepted[p] from which the consumer may still  *)
(* receive; delivered counts the elements the consumer has taken.         *)
(***************************************************************************)
EXTENDS Naturals, Sequences, FiniteSets, Functions

CONSTANTS
    Producers,  \* the cloned senders
    Batches,    \* the batches a producer may hand to one enqueue
    Capacity    \* the size given to bounded

VARIABLES accepted, next, delivered, res, open

avars == <<accepted, next, delivered, res, open>>

Results == {"none", "Ok", "Terminated", "BatchTooLarge"}

Init ==
    /\ accepted = [p \in Producers |-> <<>>]
    /\ next = [p \in Producers |-> 1]
    /\ delivered = 0
    /\ res = [p \in Producers |-> "none"]
    /\ open = TRUE

\* the whole batch is accepted
Put(p, ms) ==
    /\ open /\ Len(ms) <= Capacity
    /\ accepted' = [accepted EXCEPT ![p] = @ \o ms]
    /\ res' = [res EXCEPT ![p] = "Ok"]
    /\ UNCHANGED <<next, delivered, open>>

\* the whole batch is refused, Terminated taking precedence
Refuse(p, ms) ==
    /\ ~open \/ Len(ms) > Capacity
    /\ res' = [res EXCEPT ![p] = IF open THEN "BatchTooLarge" ELSE "Terminated"]
    /\ UNCHANGED <<accepted, next, delivered, open>>

\* the indices a producer's stream may still be received from
Upto(p) == next[p]..(Len(accepted[p]) + 1)

\* One receive takes, from each producer, elements later than any it took:
\* at least one from each producer it advances, and no more than the
\* positions it advances over (the rest were overwritten).
Receive ==
    /\ open
    /\ \E f \in [Producers -> UNION {Upto(p) : p \in Producers}] :
          LET moved == {p \in Producers : f[p] # next[p]}
              span  == FoldFunction(+, 0, [p \in Producers |-> f[p] - next[p]])
          IN /\ \A p \in Producers : f[p] \in Upto(p)
             /\ moved # {}
             /\ next' = f
             /\ delivered' \in (delivered + Cardinality(moved))..(delivered + span)
    /\ UNCHANGED <<accepted, res, open>>

Close ==
    /\ open
    /\ open' = FALSE
    /\ UNCHANGED <<accepted, next, delivered, res>>

Next ==
    \/ \E p \in Producers, ms \in Batches : Put(p, ms) \/ Refuse(p, ms)
    \/ Receive
    \/ Close

Spec == Init /\ [][Next]_avars

=============================================================================
