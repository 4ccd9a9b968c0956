--------------------------- MODULE MCBuyerDeposits ---------------------------
(* A payment of 3 units is worth one cent and a half.  A cell paid to the  *)
(* first address can pay for its sweep and leaves change; one paid to the  *)
(* second has too little capacity, but two of them together have enough.   *)
EXTENDS BuyerDeposits

MCPayments == {[index |-> 1, raw |-> 3, capacity |-> 4], [index |-> 2, raw |-> 3, capacity |-> 2]}
=============================================================================
