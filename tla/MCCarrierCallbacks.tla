------------------------- MODULE MCCarrierCallbacks -------------------------
(* Two handlers and one job, created by the executor or by a route.  Beside *)
(* the executor's report there is an event with the same sequence number,   *)
(* and its successor.                                                       *)
EXTENDS CarrierCallbacks, TLC

CONSTANTS e1, e2

MCPrice == <<[base |-> 1, budget |-> 1]>>
MCSequence == [e \in EventIds |-> IF e = e2 THEN 2 ELSE 1]

Symmetry == Permutations(Handlers)
=============================================================================
