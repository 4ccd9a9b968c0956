--------------------------- MODULE ReservationLife ---------------------------
(***************************************************************************)
(* What the liquidity reservation of an award promises: it is made once,   *)
(* then decided, and given back at most once.  ProviderLiquidity shows     *)
(* that the pool's operations keep to this, Award that AwardRFQ also       *)
(* decides every reservation it made.                                      *)
(***************************************************************************)
CONSTANT Calls
VARIABLE status

Init == status = [c \in Calls |-> "none"]

Become(c, from, to) ==
  /\ status[c] \in from
  /\ status' = [status EXCEPT ![c] = to]

Reserve(c) == Become(c, {"none"}, "reserved")
Attach(c) == Become(c, {"reserved"}, "active")
Release(c) == Become(c, {"reserved", "active"}, "released")

Next == \E c \in Calls : Reserve(c) \/ Attach(c) \/ Release(c)

Decide(c) == Attach(c) \/ Become(c, {"reserved"}, "released")

Spec == Init /\ [][Next]_status

FairSpec == Spec /\ \A c \in Calls : WF_status(Decide(c))
=============================================================================
