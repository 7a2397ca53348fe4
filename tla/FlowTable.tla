----------------------------- MODULE FlowTable -----------------------------
(***************************************************************************)
(* What the flow map promises about the lifetime of its flows (spec.md    *)
(* 3, 4.2 and 7), without buckets or a time index: a table from each live *)
(* flow to the time of its last refresh.  A flow is born stamped with the *)
(* current time; when the table is full, the oldest flow is flushed to   *)
(* make room.  A flow is refreshed to the current time.  A flow is only   *)
(* ever flushed by the reaper once its timeout has expired.                *)
(***************************************************************************)
EXTENDS Naturals, FiniteSets

CONSTANTS
    Flows,     \* the flows that may exist
    MaxFlows,  \* flows the table holds
    MaxTime,   \* the last tick of the clock
    Timeout    \* ticks after its last refresh a flow expires

VARIABLES
    table,     \* live flow -> time of its last refresh
    now        \* the clock

vars == <<table, now>>

Live == DOMAIN table

\* the flows no other live flow is older than
OldestFlows == {f \in Live : \A g \in Live : table[f] <= table[g]}

Init == table = [f \in {} |-> 0] /\ now = 0

Tick ==
    /\ now < MaxTime
    /\ now' = now + 1
    /\ UNCHANGED table

\* a new flow f; at capacity one of the oldest flows is flushed first
Born(f) ==
    /\ f \notin Live
    /\ \/ /\ Cardinality(Live) < MaxFlows
          /\ table' = [g \in Live \cup {f} |-> IF g = f THEN now ELSE table[g]]
       \/ /\ Cardinality(Live) >= MaxFlows
          /\ \E o \in OldestFlows :
                table' = [g \in (Live \ {o}) \cup {f} |-> IF g = f THEN now ELSE table[g]]
    /\ UNCHANGED now

Refresh(f) ==
    /\ f \in Live /\ table[f] < now
    /\ table' = [table EXCEPT ![f] = now]
    /\ UNCHANGED now

\* the reaper flushes an expired flow
Expire(f) ==
    /\ f \in Live /\ table[f] + Timeout <= now
    /\ table' = [g \in Live \ {f} |-> table[g]]
    /\ UNCHANGED now

Next ==
    \/ Tick
    \/ \E f \in Flows : Born(f) \/ Refresh(f) \/ Expire(f)

Spec == Init /\ [][Next]_vars

=============================================================================
