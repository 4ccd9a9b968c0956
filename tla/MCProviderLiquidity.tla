------------------------ MODULE MCProviderLiquidity -------------------------
(* Three calls, so that a third call can work with what two overlapping    *)
(* ones left in the pool.  With a buffer of one half and units of two      *)
(* cents a reservation for 2 needs 3 cents and a channel of 4.             *)
EXTENDS ProviderLiquidity, TLC

Symmetry == Permutations(Calls)
=============================================================================
