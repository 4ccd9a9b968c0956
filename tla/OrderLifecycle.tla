--------------------------- MODULE OrderLifecycle ---------------------------
(***************************************************************************)
(* One order from creation to completion, with the handlers of             *)
(* platform.App that change it, each taken as one step: SettleMilestone,   *)
(* RecordUsageCharge, OpenDispute, ResolveDispute, TopUpMilestone,         *)
(* RateOrder, and the provider-settlement operations that pause and resume *)
(* the order.  It is the behaviour of the program when requests for one    *)
(* order arrive one at a time; OrderConcurrency takes the handlers apart.  *)
(*                                                                         *)
(* Failures inside a handler are outcomes of its step: a Save that returns *)
(* an error leaves the earlier Saves of the handler in place, and a failed *)
(* publish makes SettleMilestone return before it releases the liquidity   *)
(* reservation.  RecoverProviderSettlement gives up App.mu around the call *)
(* to the provisioner and is therefore two steps.                          *)
(***************************************************************************)
EXTENDS Workflow, Sequences

CONSTANTS
  InitialTerms,     \* the priced milestone lists an order may be created with
  Amounts,          \* cents a request may carry (usage, top-up, refund)
  MaxUsage,         \* bound: usage cents recorded on a milestone
  MaxBudget,        \* bound: budget cents of a milestone
  MaxDisputes,      \* bound: dispute records of the order
  MaxRecoveries     \* bound: recovery calls in flight at once

ASSUME ConstAssumption ==
  /\ InitialTerms \subseteq [Milestones -> Terms]
  /\ Amounts \subseteq Int
  /\ MaxUsage \in Nat /\ MaxBudget \in Nat
  /\ MaxDisputes \in Nat /\ MaxRecoveries \in Nat

VARIABLES
  order,            \* the stored order
  disputes,         \* dispute records in creation order
  pool,             \* Status of the provider's liquidity pool
  binding,          \* Status of the provider's settlement binding
  reservation,      \* Status of the order's liquidity reservation
  recovering,       \* RecoverProviderSettlement calls awaiting the provisioner
  rated,            \* the buyer has rated the order
  paid,             \* history: cents paid out per milestone
  refunded,         \* history: cents refunded per milestone
  publishFailed     \* history: some publish after a saved settlement failed

vars == <<order, disputes, pool, binding, reservation, recovering, rated,
          paid, refunded, publishFailed>>
railVars == <<pool, binding, reservation, recovering>>
moneyVars == <<paid, refunded>>

PoolStatuses == {"healthy", "disconnected", "recovering", "suspended"}

Dispute == [ms : Milestones, status : {"open", "resolved"}]

Init ==
  /\ \E terms \in InitialTerms : order = CreateOrder(terms)
  /\ disputes = <<>>
  /\ pool = "healthy"
  /\ binding = "active"
  /\ reservation \in {"none", "active"}     \* awarded without or with a carrier
  /\ recovering = 0
  /\ rated = FALSE
  /\ paid = [m \in Milestones |-> 0]
  /\ refunded = [m \in Milestones |-> 0]
  /\ publishFailed = FALSE

-----------------------------------------------------------------------------
(* The reservation is released when this settlement completes the order,   *)
(* but only after a successful publish.                                    *)
SettleMilestone(m, published) ==
  /\ Payable(order.ms[m])
  /\ order' = Settle(order, m)
  /\ paid' = [paid EXCEPT ![m] = @ + order.ms[m].base]
  /\ publishFailed' = (publishFailed \/ ~published)
  /\ reservation' = IF /\ published
                       /\ isLastMilestoneSettled(order'.ms)
                       /\ order'.status = "completed"
                       /\ reservation # "none"
                      THEN "released" ELSE reservation
  /\ UNCHANGED <<disputes, pool, binding, recovering, rated, refunded>>

RecordUsageCharge(m, amount) ==
  /\ amount > 0
  /\ AcceptsUsage(order.ms[m])
  /\ order.ms[m].usage + amount <= MaxUsage
  /\ order' = RecordUsage(order, m, amount)
  /\ UNCHANGED <<disputes, rated, publishFailed, railVars, moneyVars>>

\* Fault: the order is saved first, and the record is lost when its Save fails.
OpenDisputeOrderFirst(m, refund, saved) ==
  /\ CanDispute(order.ms[m], refund)
  /\ Len(disputes) < MaxDisputes
  /\ disputes' = IF saved THEN Append(disputes, [ms |-> m, status |-> "open"]) ELSE disputes
  /\ order' = Freeze(order, m)
  /\ refunded' = IF saved THEN [refunded EXCEPT ![m] = @ + refund] ELSE refunded
  /\ UNCHANGED <<rated, paid, publishFailed, railVars>>

(* The dispute record is saved before the order; when the second Save      *)
(* fails the record stays behind and no money moves.                       *)
OpenDispute(m, refund, saved) ==
  /\ CanDispute(order.ms[m], refund)
  /\ Len(disputes) < MaxDisputes
  /\ disputes' = Append(disputes, [ms |-> m, status |-> "open"])
  /\ order' = IF saved THEN Freeze(order, m) ELSE order
  /\ refunded' = IF saved THEN [refunded EXCEPT ![m] = @ + refund] ELSE refunded
  /\ UNCHANGED <<rated, paid, publishFailed, railVars>>

(* The record is named by its id; only the milestone's own dispute status  *)
(* is tested, never the record's.                                          *)
ResolveDispute(d, saved) ==
  /\ CanResolve(order.ms[disputes[d].ms])
  /\ disputes' = [disputes EXCEPT ![d].status = "resolved"]
  /\ order' = IF saved THEN Resolve(order, disputes[d].ms) ELSE order
  /\ UNCHANGED <<rated, publishFailed, railVars, moneyVars>>

TopUpMilestone(m, additional) ==
  /\ additional > 0
  /\ order.ms[m].budget + additional <= MaxBudget
  /\ order' = TopUp(order, m, additional)
  /\ UNCHANGED <<disputes, rated, publishFailed, railVars, moneyVars>>

RateOrder ==
  /\ order.status = "completed"
  /\ ~rated
  /\ rated' = TRUE
  /\ UNCHANGED <<order, disputes, publishFailed, railVars, moneyVars>>

-----------------------------------------------------------------------------
\* Fault: orders whose reservation was released are paused too.
DisconnectReleasedToo(saved) ==
  /\ pool' = "disconnected"
  /\ order' = IF reservation # "none" /\ saved THEN RailDown(order) ELSE order
  /\ UNCHANGED <<disputes, binding, reservation, recovering, rated, publishFailed, moneyVars>>

(* The pool is marked first; the order is then saved, or its Save fails.   *)
ReportProviderSettlementDisconnect(saved) ==
  /\ pool' = "disconnected"
  /\ order' = IF reservation = "active" /\ saved THEN RailDown(order) ELSE order
  /\ UNCHANGED <<disputes, binding, reservation, recovering, rated, publishFailed, moneyVars>>

RecoverBegin ==
  /\ binding = "active"
  /\ recovering < MaxRecoveries
  /\ recovering' = recovering + 1
  /\ pool' = "recovering"
  /\ UNCHANGED <<order, disputes, binding, reservation, rated, publishFailed, moneyVars>>

RecoverFail ==
  /\ recovering > 0
  /\ recovering' = recovering - 1
  /\ pool' = "disconnected"
  /\ UNCHANGED <<order, disputes, binding, reservation, rated, publishFailed, moneyVars>>

(* The orders are resumed first; if a Save fails the pool is not stored.   *)
RecoverFinish(saved) ==
  /\ recovering > 0
  /\ recovering' = recovering - 1
  /\ pool' = IF reservation # "active" \/ saved THEN "healthy" ELSE pool
  /\ order' = IF reservation = "active" /\ saved THEN RailUp(order) ELSE order
  /\ UNCHANGED <<disputes, binding, reservation, rated, publishFailed, moneyVars>>

(* Verifying replaces the pool by a fresh healthy one and resumes no order. *)
VerifyProviderSettlementBinding ==
  /\ binding' = "active"
  /\ pool' = "healthy"
  /\ UNCHANGED <<order, disputes, reservation, recovering, rated, publishFailed, moneyVars>>

SuspendProviderSettlementBinding ==
  /\ binding' = "suspended"
  /\ pool' = "suspended"
  /\ UNCHANGED <<order, disputes, reservation, recovering, rated, publishFailed, moneyVars>>

-----------------------------------------------------------------------------
OrderStep ==
  \/ \E m \in Milestones, ok \in BOOLEAN : SettleMilestone(m, ok)
  \/ \E m \in Milestones, a \in Amounts : RecordUsageCharge(m, a)
  \/ \E m \in Milestones, a \in Amounts, ok \in BOOLEAN : OpenDispute(m, a, ok)
  \/ \E d \in 1 .. Len(disputes), ok \in BOOLEAN : ResolveDispute(d, ok)
  \/ \E m \in Milestones, a \in Amounts : TopUpMilestone(m, a)
  \/ RateOrder

RailStep ==
  \/ \E ok \in BOOLEAN : ReportProviderSettlementDisconnect(ok)
  \/ RecoverBegin
  \/ RecoverFail
  \/ \E ok \in BOOLEAN : RecoverFinish(ok)
  \/ VerifyProviderSettlementBinding
  \/ SuspendProviderSettlementBinding

Next == OrderStep \/ RailStep

Spec == Init /\ [][Next]_vars

-----------------------------------------------------------------------------
(* Every variable keeps its type. *)
TypeOK ==
  /\ order \in Order
  /\ disputes \in Seq(Dispute)
  /\ pool \in PoolStatuses
  /\ binding \in {"active", "suspended"}
  /\ reservation \in {"none", "active", "released"}
  /\ recovering \in Nat
  /\ rated \in BOOLEAN
  /\ paid \in [Milestones -> Nat]
  /\ refunded \in [Milestones -> Nat]
  /\ publishFailed \in BOOLEAN

(* The stored order is always well formed: its milestones start in order,  *)
(* work never stalls, a paused milestone can be resumed, and a completed   *)
(* order has nothing left to do (core/workflow.go with platform/app.go).   *)
StoredOrderInv == OrderInv(order)

(* A milestone can be settled, disputed, settled again and disputed again; *)
(* over all of that the refunds granted by OpenDispute never exceed what   *)
(* SettleMilestone paid out.                                               *)
RefundsCovered == \A m \in Milestones : refunded[m] <= paid[m]

(* Only an order in which every milestone was paid out can be rated by     *)
(* RateOrder, whatever disputes and outages came between.                  *)
RatedWasPaid == rated => \A m \in Milestones : paid[m] >= order.ms[m].base

(* A milestone frozen by OpenDispute always has a dispute record through   *)
(* which ResolveDispute can thaw it, even when one of the Saves failed.    *)
FrozenIsResolvable ==
  \A m \in Milestones : order.ms[m].dispute = "frozen" =>
     \E d \in 1 .. Len(disputes) : disputes[d].ms = m

(* A finished order has given its reservation back. *)
ReservationReturned ==
  order.status = "completed" /\ isLastMilestoneSettled(order.ms) /\ ~publishFailed
     => reservation # "active"

(* An order that waits for the rail holds one. *)
RailWaitIsRecoverable ==
  order.status = "awaiting_payment_rail" => reservation = "active"

(* The liquidity reservation follows the order: a finished order has given *)
(* it back, unless a publish error cut SettleMilestone short, and an order *)
(* that waits for the payment rail holds it, for that is how               *)
(* RecoverProviderSettlement finds the order again.                        *)
ReservationFollowsOrder == ReservationReturned /\ RailWaitIsRecoverable

(* A settlement is final: the only way a settled milestone is reopened is  *)
(* OpenDispute, and it comes with a refund.  No top-up, usage charge or    *)
(* outage reopens it.                                                      *)
SettlementIsFinal ==
  [][\A m \in Milestones :
       order.ms[m].state = "settled" /\ order'.ms[m].state # "settled"
          => refunded'[m] > refunded[m]]_vars
=============================================================================
