------------------------- MODULE MCOrderConcurrency -------------------------
(* Two goroutines and two milestones: enough for every pair of handlers to  *)
(* overlap at every point, and for a stale copy of one milestone to be      *)
(* saved by a handler that works on the other.                              *)
EXTENDS OrderConcurrency, TLC

MCTerms == {<<[base |-> 1, budget |-> 1], [base |-> 1, budget |-> 2]>>}

Symmetry == Permutations(Requests)
=============================================================================
