-------------------------- MODULE MCOrderLifecycle --------------------------
(* Two milestones.  The first is priced exactly at its budget, so that one  *)
(* usage charge overruns it and one top-up pays for that; the second can be *)
(* refunded in part or twice over.                                          *)
EXTENDS OrderLifecycle

MCTerms == {<<[base |-> 1, budget |-> 1], [base |-> 2, budget |-> 2]>>}
=============================================================================
