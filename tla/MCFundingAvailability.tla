----------------------- MODULE MCFundingAvailability -----------------------
(***************************************************************************)
(* Two milestones, three requests of one buyer that overlap and operations   *)
(* on the orders they leave.  29 cents is an amount the gateway reads as   *)
(* 28, so orders of 14 and 15 cents tell the two readings apart.           *)
(***************************************************************************)
EXTENDS FundingAvailability, TLC

Split(first, second) ==
  (1 :> [base |-> 2, budget |-> first]) @@ (2 :> [base |-> 3, budget |-> second])

\* Requests are interchangeable, and no liveness is checked.
MCSymmetry == Permutations(Requests)

MCTermSets == {Split(6, 8), Split(6, 9), Split(0, 0)}
=============================================================================
