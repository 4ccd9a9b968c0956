------------------------- MODULE ProviderLiquidity --------------------------
(***************************************************************************)
(* The payment-rail liquidity of one provider: its carrier and settlement  *)
(* bindings, the liquidity pool, and the reservations AwardRFQ takes from  *)
(* it (platform/provider_settlement.go).                                   *)
(*                                                                         *)
(* Reserving, warming and recovering each take a snapshot of the pool      *)
(* under App.mu, give the lock up while the provisioner talks to the       *)
(* payment nodes, possibly for minutes, and take it again to write the     *)
(* answer into the pool.  The answer was computed from the snapshot, so    *)
(* each of them is two steps here.  The other operations hold App.mu       *)
(* throughout and are one step.                                            *)
(*                                                                         *)
(* A binding is named by the order of its registration; the newest one is  *)
(* the one activeCarrierBindingLocked and activeSettlementBindingLocked    *)
(* return.                                                                 *)
(***************************************************************************)
EXTENDS Integers, Sequences, FiniteSets, FiniteSetsExt, Functions

CONSTANTS
  Calls,            \* calls to reserve, warm or recover
  Budgets,          \* total budgets of the bids that are awarded
  Minimums,         \* amounts a warm-up asks for
  BufferBPS,        \* safety buffer on a reservation, in basis points
  CentsPerUnit,     \* cents in one unit of channel funding
  MinFundingUnits,  \* smallest channel that is opened
  MaxCarrierBindings, MaxSettlementBindings   \* bounds: registrations

ASSUME ConstAssumption ==
  /\ Budgets \subseteq Nat /\ Minimums \subseteq Nat
  /\ BufferBPS \in Nat
  /\ CentsPerUnit \in Nat \ {0} /\ MinFundingUnits \in Nat \ {0}
  /\ MaxCarrierBindings \in Nat /\ MaxSettlementBindings \in Nat

VARIABLES
  carriers,         \* statuses of the carrier bindings, oldest first
  bindings,         \* statuses of the settlement bindings, oldest first
  pool,             \* the liquidity pool; status "none" before there is one
  call,             \* progress of each call, with its snapshot of the pool
  reservation,      \* the reservation made by each reserving call
  funded,           \* cents of all the channels opened on the payment network
  stale,            \* history: an answer was written over a pool that had moved
  reverified,       \* history: a binding was verified again
  recovered         \* history: a recovery succeeded

vars == <<carriers, bindings, pool, call, reservation, funded,
          stale, reverified, recovered>>
historyVars == <<stale, reverified, recovered>>

BindingStatuses == {"pending_verification", "active", "suspended"}
PoolStatuses == {"none", "healthy", "disconnected", "recovering", "suspended"}

Pool == [status : PoolStatuses, total : Int, reserved : Int, available : Int]
NoPool == [status |-> "none", total |-> 0, reserved |-> 0, available |-> 0]

Call == [pc : {"new", "provisioning", "returned"}, kind : {"none", "reserve", "warm", "recover"},
         need : Int, seen : Pool]

Reservation == [status : {"none", "reserved", "active", "released"}, cents : Int]

Init ==
  /\ carriers = <<>> /\ bindings = <<>>
  /\ pool = NoPool
  /\ call = [c \in Calls |-> [pc |-> "new", kind |-> "none", need |-> 0, seen |-> NoPool]]
  /\ reservation = [c \in Calls |-> [status |-> "none", cents |-> 0]]
  /\ funded = 0
  /\ stale = FALSE /\ reverified = FALSE /\ recovered = FALSE

-----------------------------------------------------------------------------
(* The status of the binding in force. *)
activeBinding(list) == IF list = <<>> THEN "none" ELSE list[Len(list)]

(* Registering is refused while any binding, however old, is active. *)
Registered(list, limit) ==
  /\ Len(list) < limit
  /\ \A i \in 1 .. Len(list) : list[i] # "active"

RegisterCarrierBinding ==
  /\ Registered(carriers, MaxCarrierBindings)
  /\ carriers' = Append(carriers, "pending_verification")
  /\ UNCHANGED <<bindings, pool, call, reservation, funded, historyVars>>

VerifyCarrierBinding(i) ==
  /\ carriers' = [carriers EXCEPT ![i] = "active"]
  /\ UNCHANGED <<bindings, pool, call, reservation, funded, historyVars>>

SuspendCarrierBinding(i) ==
  /\ carriers' = [carriers EXCEPT ![i] = "suspended"]
  /\ UNCHANGED <<bindings, pool, call, reservation, funded, historyVars>>

RegisterProviderSettlementBinding ==
  /\ Registered(bindings, MaxSettlementBindings)
  /\ bindings' = Append(bindings, "pending_verification")
  /\ UNCHANGED <<carriers, pool, call, reservation, funded, historyVars>>

(* Verifying stores a new, empty pool whatever the old one held. *)
VerifyProviderSettlementBinding(i) ==
  /\ bindings' = [bindings EXCEPT ![i] = "active"]
  /\ pool' = [NoPool EXCEPT !.status = "healthy"]
  /\ reverified' = (reverified \/ pool.total # 0 \/ pool.reserved # 0)
  /\ UNCHANGED <<carriers, call, reservation, funded, stale, recovered>>

SuspendProviderSettlementBinding(i) ==
  /\ bindings' = [bindings EXCEPT ![i] = "suspended"]
  /\ pool' = [pool EXCEPT !.status = "suspended"]
  /\ UNCHANGED <<carriers, call, reservation, funded, historyVars>>

ReportProviderSettlementDisconnect ==
  /\ pool.status # "none"
  /\ pool' = [pool EXCEPT !.status = "disconnected"]
  /\ UNCHANGED <<carriers, bindings, call, reservation, funded, historyVars>>

-----------------------------------------------------------------------------
(* The first half of the calls: check, take a snapshot, give up the lock.  *)
Ask(c, kind, need, seen) ==
  /\ call[c].pc = "new"
  /\ call' = [call EXCEPT ![c] = [pc |-> "provisioning", kind |-> kind, need |-> need, seen |-> seen]]
  /\ UNCHANGED <<carriers, bindings, reservation, funded, historyVars>>

neededReserve(budget) == budget + (budget * BufferBPS) \div 10000

(* A provider without a carrier binding needs no reservation. *)
BeginReserve(c, budget) ==
  /\ activeBinding(carriers) \in {"pending_verification", "active"}
  /\ activeBinding(bindings) = "active"
  /\ pool.status \notin {"disconnected", "recovering", "suspended"}
  /\ Ask(c, "reserve", neededReserve(budget), pool)
  /\ UNCHANGED pool

BeginWarm(c, minimum) ==
  /\ activeBinding(bindings) = "active"
  /\ pool.status \notin {"none", "disconnected", "recovering", "suspended"}
  /\ Ask(c, "warm", Max({minimum, pool.available}), pool)
  /\ UNCHANGED pool

(* The snapshot a recovery works on offers everything as available. *)
BeginRecover(c) ==
  /\ activeBinding(bindings) = "active"
  /\ pool.status # "none"
  /\ pool' = [pool EXCEPT !.status = "recovering"]
  /\ Ask(c, "recover", pool.reserved, [pool' EXCEPT !.available = pool.total])

-----------------------------------------------------------------------------
neededReserveToFundingUnits(need) ==
  Max({MinFundingUnits, (need + CentsPerUnit - 1) \div CentsPerUnit})

fundingCents(need) == neededReserveToFundingUnits(need) * CentsPerUnit

(* EnsureProviderLiquidity: a channel that both nodes report as ready is   *)
(* reused when the snapshot has enough available, otherwise a channel for  *)
(* the whole need is opened on top of the snapshot's total.                *)
Reuses(c, ready) == ready /\ call[c].seen.available >= call[c].need

\* Fault: what is available is counted on top of the total.
totalCountedTwice(c, ready) ==
  LET seen == call[c].seen
  IN  IF Reuses(c, ready) THEN seen.total + seen.available
                          ELSE seen.total + fundingCents(call[c].need)

totalSpendable(c, ready) ==
  LET seen == call[c].seen
  IN  IF Reuses(c, ready) THEN Max({seen.total, seen.reserved + seen.available})
                          ELSE seen.total + fundingCents(call[c].need)

ProvisionerAnswers(c, ready) ==
  /\ call[c].pc = "provisioning"
  /\ ready => funded > 0
  /\ call' = [call EXCEPT ![c].pc = "returned"]
  /\ funded' = IF Reuses(c, ready) THEN funded ELSE funded + fundingCents(call[c].need)

(* The pool moved between the two halves of the call. *)
Moved(c) == pool.total # call[c].seen.total \/ pool.reserved # call[c].seen.reserved

(* The second half of a reservation: the answer has to cover the snapshot, *)
(* and is then written into the pool as it is now.                         *)
FinishReserve(c, ready) ==
  LET total == totalSpendable(c, ready)
      need  == call[c].need
  IN  /\ call[c].kind = "reserve"
      /\ ProvisionerAnswers(c, ready)
      /\ IF total >= call[c].seen.reserved + need
           THEN /\ pool' = [status |-> "healthy", total |-> total, reserved |-> pool.reserved + need,
                            available |-> total - (pool.reserved + need)]
                /\ reservation' = [reservation EXCEPT ![c] = [status |-> "reserved", cents |-> need]]
                /\ stale' = (stale \/ Moved(c))
           ELSE UNCHANGED <<pool, reservation, stale>>
      /\ UNCHANGED <<carriers, bindings, reverified, recovered>>

(* Warming and recovering write the same fields and clamp at zero. *)
Refreshed(total) ==
  [status |-> "healthy", total |-> total, reserved |-> pool.reserved,
   available |-> Max({total - pool.reserved, 0})]

FinishWarm(c, ready) ==
  /\ call[c].kind = "warm"
  /\ ProvisionerAnswers(c, ready)
  /\ pool' = Refreshed(totalSpendable(c, ready))
  /\ stale' = (stale \/ Moved(c))
  /\ UNCHANGED <<carriers, bindings, reservation, reverified, recovered>>

(* The orders are resumed first; if a Save fails the pool is not stored.   *)
FinishRecover(c, ready, saved) ==
  /\ call[c].kind = "recover"
  /\ ProvisionerAnswers(c, ready)
  /\ saved \/ \E d \in Calls : reservation[d].status = "active"
  /\ IF saved THEN /\ pool' = Refreshed(totalSpendable(c, ready))
                   /\ stale' = (stale \/ Moved(c))
                   /\ recovered' = TRUE
              ELSE UNCHANGED <<pool, stale, recovered>>
  /\ UNCHANGED <<carriers, bindings, reservation, reverified>>

(* The provisioner gives up, before or after it has opened a channel; only *)
(* a recovery says so in the pool.                                         *)
ProvisioningFails(c, opened) ==
  /\ call[c].pc = "provisioning"
  /\ call' = [call EXCEPT ![c].pc = "returned"]
  /\ pool' = IF call[c].kind = "recover" THEN [pool EXCEPT !.status = "disconnected"] ELSE pool
  /\ funded' = IF opened THEN funded + fundingCents(call[c].need) ELSE funded
  /\ UNCHANGED <<carriers, bindings, reservation, historyVars>>

-----------------------------------------------------------------------------
\* Fault: a reservation that was given back is attached after all.
attachReleased(c) ==
  /\ reservation[c].status # "none"
  /\ reservation' = [reservation EXCEPT ![c].status = "active"]
  /\ UNCHANGED <<carriers, bindings, pool, call, funded, historyVars>>

(* AwardRFQ goes on to create the order and attaches the reservation to    *)
(* it, or releases the reservation when it fails on the way.               *)
attachProviderSettlementReservation(c) ==
  /\ reservation[c].status = "reserved"
  /\ reservation' = [reservation EXCEPT ![c].status = "active"]
  /\ UNCHANGED <<carriers, bindings, pool, call, funded, historyVars>>

\* Fault: a released reservation can be released again.
releaseTwice(c) ==
  LET left == Max({pool.reserved - reservation[c].cents, 0})
  IN  /\ reservation[c].status # "none"
      /\ reservation' = [reservation EXCEPT ![c].status = "released"]
      /\ pool' = [pool EXCEPT !.reserved = left, !.available = pool.total - left]
      /\ UNCHANGED <<carriers, bindings, call, funded, historyVars>>

(* The end of a failed award, or of an order that was completed. *)
releaseProviderSettlementReservation(c) ==
  LET left == Max({pool.reserved - reservation[c].cents, 0})
  IN  /\ reservation[c].status \in {"reserved", "active"}
      /\ reservation' = [reservation EXCEPT ![c].status = "released"]
      /\ pool' = [pool EXCEPT !.reserved = left, !.available = pool.total - left]
      /\ UNCHANGED <<carriers, bindings, call, funded, historyVars>>

Binding ==
  \/ RegisterCarrierBinding
  \/ \E i \in 1 .. Len(carriers) : VerifyCarrierBinding(i) \/ SuspendCarrierBinding(i)
  \/ RegisterProviderSettlementBinding
  \/ \E i \in 1 .. Len(bindings) :
       VerifyProviderSettlementBinding(i) \/ SuspendProviderSettlementBinding(i)
  \/ ReportProviderSettlementDisconnect

Begin(c) ==
  \/ \E b \in Budgets : BeginReserve(c, b)
  \/ \E m \in Minimums : BeginWarm(c, m)
  \/ BeginRecover(c)

Finish(c) ==
  \/ \E ready \in BOOLEAN : FinishReserve(c, ready) \/ FinishWarm(c, ready)
  \/ \E ready, saved \in BOOLEAN : FinishRecover(c, ready, saved)
  \/ \E opened \in BOOLEAN : ProvisioningFails(c, opened)

Return(c) == attachProviderSettlementReservation(c) \/ releaseProviderSettlementReservation(c)

Next == Binding \/ \E c \in Calls : Begin(c) \/ Finish(c) \/ Return(c)

Spec == Init /\ [][Next]_vars

-----------------------------------------------------------------------------
(* Every variable keeps its type. *)
TypeOK ==
  /\ carriers \in Seq(BindingStatuses) /\ bindings \in Seq(BindingStatuses)
  /\ pool \in Pool
  /\ call \in [Calls -> Call]
  /\ reservation \in [Calls -> Reservation]
  /\ funded \in Nat
  /\ stale \in BOOLEAN /\ reverified \in BOOLEAN /\ recovered \in BOOLEAN

Held == {c \in Calls : reservation[c].status \in {"reserved", "active"}}
Outstanding == SumFunctionOnSet([c \in Calls |-> reservation[c].cents], Held)

ReservedIsOutstanding == ~reverified => pool.reserved = Outstanding

CoveredUnlessStale == ~stale => pool.reserved <= pool.total /\ pool.available >= 0

AvailableIsRest ==
  \/ pool.available = pool.total - pool.reserved
  \/ pool.available = 0 /\ pool.reserved > pool.total

(* The pool's books balance however the calls overlap.  What it counts as  *)
(* reserved is the sum of the reservations still held, until a binding is  *)
(* verified again and the pool starts from zero; it promises no more than  *)
(* it has, as long as no reservation was written from an outdated snapshot *)
(* (maybeReserveProviderSettlementLiquidity checked the cover); and what   *)
(* is available is what is left, or nothing when it is overdrawn.          *)
PoolBooks == ReservedIsOutstanding /\ CoveredUnlessStale /\ AvailableIsRest

(* The reservations are backed by channels that really were funded, also   *)
(* after a verification has emptied the pool, unless a snapshot was        *)
(* outdated or a recovery has rewritten the total.                         *)
BackedByChannels == ~stale /\ ~recovered => Outstanding <= funded /\ pool.total <= funded

(* The operations of the pool take each reservation through the life that  *)
(* ReservationLife describes: made once, given back at most once.          *)
Life == INSTANCE ReservationLife WITH status <- [c \in Calls |-> reservation[c].status]
FollowsReservationLife == Life!Spec
=============================================================================
