--------------------------- MODULE MCDebugSender ---------------------------
(* Two producers of up to two calls each, a primary queue of two and a    *)
(* debug queue of two, so that a vector of three needs two mirror chunks,  *)
(* overflows both queues and exceeds the primary capacity.                 *)
EXTENDS DebugSender

CONSTANTS p1, p2

MCProducers == {p1, p2}

=============================================================================
