------------------------ MODULE OrderLifecycleProofs ------------------------
(***************************************************************************)
(* The safety properties of OrderLifecycle, proved for every number of     *)
(* milestones, every price list and every bound, and those of              *)
(* FundingAvailability, which checks buyers against sums over such orders. *)
(*                                                                         *)
(* RefundsCovered is not inductive: that the next refund is covered        *)
(* depends on a settled milestone still having its last payout             *)
(* unrefunded.  LedgerInv adds exactly that, and the payouts behind every  *)
(* finished milestone, which RatedWasPaid rests on.                        *)
(***************************************************************************)
EXTENDS OrderLifecycle, FundingAvailability, WorkflowProofs

LedgerInv ==
  \A m \in Milestones :
     /\ refunded[m] <= paid[m]
     /\ order.ms[m].state = "settled" => refunded[m] + order.ms[m].settled <= paid[m]
     /\ Done(order.ms[m]) => paid[m] >= order.ms[m].base

IInv ==
  /\ TypeOK
  /\ StoredOrderInv
  /\ LedgerInv
  /\ RatedWasPaid
  /\ FrozenIsResolvable
  /\ ReservationReturned
  /\ RailWaitIsRecoverable

-----------------------------------------------------------------------------
(* The natural-number fields of the stored order. *)
LEMMA MilestoneNats ==
  ASSUME TypeOK, NEW m \in Milestones
  PROVE  /\ order.ms[m] \in Milestone
         /\ order.ms[m].base \in Nat /\ order.ms[m].settled \in Nat
         /\ order.ms[m].usage \in Nat /\ order.ms[m].budget \in Nat
         /\ paid[m] \in Nat /\ refunded[m] \in Nat
<1>1. order \in Order /\ paid \in [Milestones -> Nat] /\ refunded \in [Milestones -> Nat]
  BY DEF TypeOK
<1>2. order.ms[m] \in Milestone
  BY <1>1, OrderParts
<1> QED
  BY <1>1, <1>2 DEF Milestone

(* A newly created order satisfies the inductive invariant. *)
LEMMA InitInv == Init => IInv
<1> SUFFICES ASSUME Init PROVE IInv
  OBVIOUS
<1>1. PICK terms \in InitialTerms : order = CreateOrder(terms)
  BY DEF Init
<1>2. terms \in [Milestones -> Terms]
  BY ConstAssumption
<1>3. OrderInv(order)
  BY <1>1, <1>2, CreateOrderInv
<1>4. order \in Order
  BY <1>3 DEF OrderInv
<1>5. TypeOK
  <2>1. disputes \in Seq(Dispute)
    <3>1. disputes = <<>>
      BY DEF Init
    <3> QED
      BY <3>1
  <2>2. /\ pool \in PoolStatuses
        /\ binding \in {"active", "suspended"}
        /\ reservation \in {"none", "active", "released"}
        /\ recovering \in Nat /\ rated \in BOOLEAN /\ publishFailed \in BOOLEAN
    BY Zenon DEF Init, PoolStatuses
  <2>3. paid \in [Milestones -> Nat] /\ refunded \in [Milestones -> Nat]
    BY DEF Init
  <2> QED
    BY <1>4, <2>1, <2>2, <2>3 DEF TypeOK
<1>6. \A m \in Milestones : /\ order.ms[m].state # "settled"
                            /\ order.ms[m].dispute = "none"
  BY <1>1 DEF CreateOrder
<1>7. order.status = "running"
  BY <1>1 DEF CreateOrder
<1>8. \A m \in Milestones : paid[m] = 0 /\ refunded[m] = 0
  BY DEF Init
<1>9. LedgerInv /\ RatedWasPaid /\ FrozenIsResolvable
  BY <1>6, <1>8 DEF LedgerInv, Done, RatedWasPaid, FrozenIsResolvable, Init
<1>10. ReservationReturned /\ RailWaitIsRecoverable
  BY <1>7 DEF ReservationReturned, RailWaitIsRecoverable
<1> QED
  BY <1>3, <1>5, <1>9, <1>10 DEF IInv, StoredOrderInv

(* A handler that settles nothing, disputes nothing and leaves the money   *)
(* and the reservation alone keeps the invariant, provided the order it    *)
(* saves is well formed and no new completion or rail wait appears.        *)
LEMMA QuietStep ==
  ASSUME IInv, TypeOK', OrderInv(order'),
         Quiet(order, order'), Monotone(order, order'),
         paid' = paid, refunded' = refunded, rated' = rated,
         publishFailed' = publishFailed, reservation' = reservation,
         Len(disputes') >= Len(disputes),
         Len(disputes) \in Nat, Len(disputes') \in Nat,
         \A d \in 1 .. Len(disputes) : disputes'[d].ms = disputes[d].ms,
         order'.status = "completed" => order.status = "completed",
         order'.status = "awaiting_payment_rail" =>
            order.status = "awaiting_payment_rail" \/ reservation = "active"
  PROVE  IInv'
<1>1. LedgerInv'
  BY DEF IInv, LedgerInv, Quiet, Monotone
<1>2. RatedWasPaid'
  BY DEF IInv, RatedWasPaid, Monotone
<1>3. FrozenIsResolvable'
  <2> SUFFICES ASSUME NEW m \in Milestones, order'.ms[m].dispute = "frozen"
               PROVE  \E d \in 1 .. Len(disputes') : disputes'[d].ms = m
    BY DEF FrozenIsResolvable
  <2>1. PICK d \in 1 .. Len(disputes) : disputes[d].ms = m
    BY DEF IInv, FrozenIsResolvable, Quiet
  <2>2. d \in 1 .. Len(disputes') /\ disputes'[d].ms = m
    BY <2>1
  <2> QED
    BY <2>2
<1>4. ReservationReturned'
  BY DEF IInv, ReservationReturned, Quiet, isLastMilestoneSettled
<1>5. RailWaitIsRecoverable'
  BY DEF IInv, RailWaitIsRecoverable
<1> QED
  BY <1>1, <1>2, <1>3, <1>4, <1>5 DEF IInv, StoredOrderInv

(* SettleMilestone preserves the inductive invariant. *)
LEMMA SettleMilestoneInv ==
  ASSUME IInv, NEW m \in Milestones, NEW published \in BOOLEAN,
         SettleMilestone(m, published)
  PROVE  IInv'
<1> DEFINE y == FlagAnomalies(PaidOut(order.ms[m]))
<1>0. TypeOK /\ OrderInv(order) /\ order \in Order
  BY DEF IInv, StoredOrderInv, TypeOK
<1>1. OrderInv(order')
  BY <1>0, SettleInv DEF SettleMilestone
<1>2. /\ order' \in Order
      /\ order'.status = IF \A k \in Milestones : k = m \/ order.ms[k].state = "settled"
                            THEN "completed" ELSE order.status
      /\ \A k \in Milestones :
           order'.ms[k] = IF k = m THEN y
                          ELSE IF IsNextPending(order.ms, m, k) THEN Started(order.ms[k])
                          ELSE order.ms[k]
  BY <1>0, SettleFields, Zenon DEF SettleMilestone
<1>3. /\ y.state = "settled" /\ y.settled = order.ms[m].base
      /\ y.base = order.ms[m].base /\ y.dispute = order.ms[m].dispute
  BY <1>0, MilestoneNats, SettledFields
<1>4. \A k \in Milestones :
        /\ Started(order.ms[k]).state = "running"
        /\ Started(order.ms[k]).dispute = order.ms[k].dispute
        /\ Started(order.ms[k]).base = order.ms[k].base
  BY <1>0, MilestoneNats DEF Started, Milestone
<1>5. \A k \in Milestones :
        /\ order.ms[k].base \in Nat /\ order.ms[k].settled \in Nat
        /\ paid[k] \in Nat /\ refunded[k] \in Nat
  BY <1>0, MilestoneNats
<1> HIDE DEF y
<1>6. /\ \A k \in Milestones : paid'[k] = IF k = m THEN paid[k] + order.ms[m].base ELSE paid[k]
      /\ paid' \in [Milestones -> Nat]
  BY <1>0, <1>5 DEF SettleMilestone, TypeOK
<1>7. TypeOK'
  BY <1>0, <1>2, <1>6 DEF SettleMilestone, TypeOK
<1>8. LedgerInv'
  <2> SUFFICES ASSUME NEW k \in Milestones
               PROVE  /\ refunded'[k] <= paid'[k]
                      /\ order'.ms[k].state = "settled" =>
                            refunded'[k] + order'.ms[k].settled <= paid'[k]
                      /\ Done(order'.ms[k]) => paid'[k] >= order'.ms[k].base
    BY DEF LedgerInv
  <2>1. refunded' = refunded
    BY DEF SettleMilestone
  <2>2. /\ refunded[k] <= paid[k]
        /\ order.ms[k].state = "settled" => refunded[k] + order.ms[k].settled <= paid[k]
        /\ Done(order.ms[k]) => paid[k] >= order.ms[k].base
    BY DEF IInv, LedgerInv
  <2>3. CASE k = m
    BY <2>1, <2>2, <2>3, <1>2, <1>3, <1>5, <1>6
  <2>4. CASE k # m
    BY <2>1, <2>2, <2>4, <1>2, <1>4, <1>6 DEF Done
  <2> QED
    BY <2>3, <2>4
<1>9. RatedWasPaid'
  <2>1. \A k \in Milestones : order'.ms[k].base = order.ms[k].base /\ paid'[k] >= paid[k]
    BY <1>2, <1>3, <1>4, <1>5, <1>6
  <2>2. rated' = rated
    BY DEF SettleMilestone
  <2>3. \A k \in Milestones : paid'[k] \in Nat
    BY <1>6
  <2> QED
    BY <2>1, <2>2, <2>3, <1>5 DEF IInv, RatedWasPaid
<1>10. FrozenIsResolvable'
  BY <1>2, <1>3, <1>4 DEF IInv, FrozenIsResolvable, SettleMilestone
<1>11. ReservationReturned'
  BY <1>0, Zenon DEF ReservationReturned, SettleMilestone, TypeOK
<1>12. RailWaitIsRecoverable'
  <2> SUFFICES ASSUME order'.status = "awaiting_payment_rail"
               PROVE  reservation' = "active"
    BY DEF RailWaitIsRecoverable
  <2>1. order.status = "awaiting_payment_rail"
    BY <1>2
  <2>2. reservation' = reservation
    BY DEF SettleMilestone
  <2> QED
    BY <2>1, <2>2 DEF IInv, RailWaitIsRecoverable
<1> QED
  BY <1>1, <1>7, <1>8, <1>9, <1>10, <1>11, <1>12 DEF IInv, StoredOrderInv

(* OpenDispute preserves the inductive invariant, whether or not its second
   Save succeeds. *)
LEMMA OpenDisputeInv ==
  ASSUME IInv, NEW m \in Milestones, NEW refund \in Int, NEW saved \in BOOLEAN,
         OpenDispute(m, refund, saved)
  PROVE  IInv'
<1> DEFINE rec == [ms |-> m, status |-> "open"]
<1>0. TypeOK /\ OrderInv(order) /\ order \in Order /\ disputes \in Seq(Dispute)
  BY DEF IInv, StoredOrderInv, TypeOK
<1>1. /\ disputes' = Append(disputes, rec) /\ rec \in Dispute
      /\ disputes' \in Seq(Dispute)
      /\ Len(disputes') = Len(disputes) + 1 /\ Len(disputes) \in Nat
      /\ disputes'[Len(disputes) + 1] = rec
      /\ \A d \in 1 .. Len(disputes) : disputes'[d] = disputes[d]
  <2>1. rec \in Dispute
    BY DEF Dispute
  <2>2. disputes' = Append(disputes, rec)
    BY DEF OpenDispute
  <2> HIDE DEF rec
  <2> QED
    BY <1>0, <2>1, <2>2
<1>2. CASE saved = FALSE
  <2>1. order' = order /\ refunded' = refunded
    BY <1>2 DEF OpenDispute
  <2>2. /\ paid' = paid /\ rated' = rated /\ publishFailed' = publishFailed
        /\ reservation' = reservation
    BY DEF OpenDispute, railVars
  <2>3. TypeOK'
    BY <1>0, <1>1, <2>1 DEF TypeOK, OpenDispute, railVars
  <2>4. Quiet(order, order') /\ Monotone(order, order')
    BY <2>1, <1>0, MilestoneNats DEF Quiet, Monotone
  <2> QED
    BY <1>0, <1>1, <2>1, <2>2, <2>3, <2>4, QuietStep DEF IInv, RailWaitIsRecoverable
<1>3. CASE saved = TRUE
  <2>1. order' = Freeze(order, m) /\ refunded' = [refunded EXCEPT ![m] = @ + refund]
    BY <1>3 DEF OpenDispute
  <2>2. order.ms[m].state = "settled" /\ refund > 0 /\ refund <= order.ms[m].settled
    BY DEF OpenDispute, CanDispute
  <2>3. OrderInv(order')
    BY <1>0, <2>1, <2>2, FreezeInv
  <2>4. /\ Monotone(order, order')
        /\ order'.status = order.status
        /\ order'.ms[m].state = "paused"
        /\ \A k \in Milestones : k # m => order'.ms[k] = order.ms[k]
    BY <1>0, <2>1, <2>2, FreezeFields
  <2>5. \A k \in Milestones :
          /\ order.ms[k].base \in Nat /\ order.ms[k].settled \in Nat
          /\ paid[k] \in Nat /\ refunded[k] \in Nat
    BY <1>0, MilestoneNats
  <2>6. /\ \A k \in Milestones : refunded'[k] = IF k = m THEN refunded[k] + refund ELSE refunded[k]
        /\ refunded' \in [Milestones -> Nat]
    BY <1>0, <2>1, <2>2, <2>5 DEF TypeOK
  <2>7. /\ paid' = paid /\ rated' = rated /\ publishFailed' = publishFailed
        /\ reservation' = reservation
    BY DEF OpenDispute, railVars
  <2>8. TypeOK'
    BY <1>0, <1>1, <2>3, <2>6 DEF TypeOK, OpenDispute, railVars, OrderInv
  <2>9. LedgerInv'
    BY <2>2, <2>4, <2>5, <2>6, <2>7 DEF IInv, LedgerInv, Monotone, Done
  <2>10. RatedWasPaid'
    BY <2>4, <2>7 DEF IInv, RatedWasPaid, Monotone
  <2>11. FrozenIsResolvable'
    <3> SUFFICES ASSUME NEW k \in Milestones, order'.ms[k].dispute = "frozen"
                 PROVE  \E d \in 1 .. Len(disputes') : disputes'[d].ms = k
      BY DEF FrozenIsResolvable
    <3>1. CASE k = m
      BY <3>1, <1>1
    <3>2. CASE k # m
      BY <3>2, <1>1, <2>4 DEF IInv, FrozenIsResolvable
    <3> QED
      BY <3>1, <3>2
  <2>12. ReservationReturned'
    BY <2>4 DEF ReservationReturned, isLastMilestoneSettled
  <2>13. RailWaitIsRecoverable'
    BY <2>4, <2>7 DEF IInv, RailWaitIsRecoverable
  <2> QED
    BY <2>3, <2>8, <2>9, <2>10, <2>11, <2>12, <2>13 DEF IInv, StoredOrderInv
<1> QED
  BY <1>2, <1>3, Zenon

(* RecordUsageCharge preserves the inductive invariant. *)
LEMMA RecordUsageChargeInv ==
  ASSUME IInv, NEW m \in Milestones, NEW amount \in Int, RecordUsageCharge(m, amount)
  PROVE  IInv'
<1>0. TypeOK /\ OrderInv(order) /\ order \in Order /\ Len(disputes) \in Nat
  BY DEF IInv, StoredOrderInv, TypeOK
<1>1. OrderInv(order')
  BY <1>0, RecordUsageInv DEF RecordUsageCharge
<1>2. /\ Monotone(order, order') /\ Quiet(order, order')
      /\ order'.status \in {order.status, "awaiting_budget"}
  BY <1>0, RecordUsageQuiet DEF RecordUsageCharge
<1>3. /\ UNCHANGED <<paid, refunded, rated, publishFailed, disputes>>
      /\ UNCHANGED <<pool, binding, reservation, recovering>>
  BY DEF RecordUsageCharge, railVars, moneyVars
<1>4. TypeOK'
  BY <1>0, <1>1, <1>3 DEF TypeOK, OrderInv
<1> QED
  BY <1>0, <1>1, <1>2, <1>3, <1>4, QuietStep

(* ResolveDispute preserves the inductive invariant, whether or not its
   second Save succeeds. *)
LEMMA ResolveDisputeInv ==
  ASSUME IInv, NEW d \in 1 .. Len(disputes), NEW saved \in BOOLEAN,
         ResolveDispute(d, saved)
  PROVE  IInv'
<1> DEFINE m == disputes[d].ms
<1>0. /\ TypeOK /\ OrderInv(order) /\ order \in Order
      /\ disputes \in Seq(Dispute) /\ Len(disputes) \in Nat
  BY DEF IInv, StoredOrderInv, TypeOK
<1>1. disputes[d] \in Dispute
  BY <1>0
<1>2. m \in Milestones
  BY <1>1 DEF Dispute
<1>3. /\ Len(disputes') = Len(disputes)
      /\ disputes' \in Seq(Dispute)
      /\ \A e \in 1 .. Len(disputes) : disputes'[e].ms = disputes[e].ms
  <2> DEFINE r == [disputes[d] EXCEPT !.status = "resolved"]
  <2>1. r \in Dispute /\ r.ms = disputes[d].ms
    BY <1>1 DEF Dispute
  <2>2. disputes' = [disputes EXCEPT ![d] = r]
    BY DEF ResolveDispute
  <2> HIDE DEF r
  <2> QED
    BY <1>0, <2>1, <2>2
<1>4. /\ UNCHANGED <<paid, refunded, rated, publishFailed>>
      /\ UNCHANGED <<pool, binding, reservation, recovering>>
  BY DEF ResolveDispute, railVars, moneyVars
<1>5. /\ OrderInv(order') /\ Monotone(order, order') /\ Quiet(order, order')
      /\ order'.status = order.status
  <2>1. CASE saved = TRUE
    <3>1. order' = Resolve(order, m) /\ CanResolve(order.ms[m])
      BY <2>1 DEF ResolveDispute
    <3> QED
      BY <3>1, <1>0, <1>2, ResolveInv, ResolveQuiet
  <2>2. CASE saved = FALSE
    <3>1. order' = order
      BY <2>2 DEF ResolveDispute
    <3> QED
      BY <3>1, <1>0, MilestoneNats DEF Quiet, Monotone
  <2> QED
    BY <2>1, <2>2, Zenon
<1>6. TypeOK'
  BY <1>0, <1>3, <1>4, <1>5 DEF TypeOK, OrderInv
<1> QED
  BY <1>0, <1>3, <1>4, <1>5, <1>6, QuietStep

(* TopUpMilestone preserves the inductive invariant. *)
LEMMA TopUpMilestoneInv ==
  ASSUME IInv, NEW m \in Milestones, NEW additional \in Int, TopUpMilestone(m, additional)
  PROVE  IInv'
<1>0. TypeOK /\ OrderInv(order) /\ order \in Order /\ Len(disputes) \in Nat
  BY DEF IInv, StoredOrderInv, TypeOK
<1>1. OrderInv(order')
  BY <1>0, TopUpInv DEF TopUpMilestone
<1>2. /\ Monotone(order, order') /\ Quiet(order, order')
      /\ order'.status \in {order.status, "running"}
  BY <1>0, TopUpQuiet DEF TopUpMilestone
<1>3. /\ UNCHANGED <<paid, refunded, rated, publishFailed, disputes>>
      /\ UNCHANGED <<pool, binding, reservation, recovering>>
  BY DEF TopUpMilestone, railVars, moneyVars
<1>4. TypeOK'
  BY <1>0, <1>1, <1>3 DEF TypeOK, OrderInv
<1> QED
  BY <1>0, <1>1, <1>2, <1>3, <1>4, QuietStep

(* RateOrder preserves the inductive invariant. *)
LEMMA RateOrderInv ==
  ASSUME IInv, RateOrder
  PROVE  IInv'
<1>1. /\ UNCHANGED <<order, disputes, publishFailed, paid, refunded>>
      /\ UNCHANGED <<pool, binding, reservation, recovering>>
      /\ rated' = TRUE
      /\ order.status = "completed"
  BY DEF RateOrder, railVars, moneyVars
<1>2. TypeOK'
  BY <1>1 DEF IInv, TypeOK
<1>3. \A m \in Milestones : paid[m] >= order.ms[m].base
  BY <1>1 DEF IInv, StoredOrderInv, OrderInv, CompletedIsDone, LedgerInv, Done
<1> QED
  BY <1>1, <1>2, <1>3 DEF IInv, StoredOrderInv, LedgerInv, RatedWasPaid,
       FrozenIsResolvable, ReservationReturned, RailWaitIsRecoverable

(* The provider-settlement handlers touch the order only through RailDown  *)
(* and RailUp, and only when it holds an active reservation.               *)
LEMMA RailStepInv ==
  ASSUME IInv, RailStep
  PROVE  IInv'
<1>0. TypeOK /\ OrderInv(order) /\ order \in Order /\ Len(disputes) \in Nat
  BY DEF IInv, StoredOrderInv, TypeOK
<1>1. UNCHANGED <<disputes, reservation, rated, paid, refunded, publishFailed>>
  BY DEF RailStep, ReportProviderSettlementDisconnect, RecoverBegin, RecoverFail,
         RecoverFinish, VerifyProviderSettlementBinding,
         SuspendProviderSettlementBinding, moneyVars
<1>2. /\ pool' \in PoolStatuses /\ binding' \in {"active", "suspended"}
      /\ recovering' \in Nat
  BY <1>0 DEF TypeOK, PoolStatuses, RailStep, ReportProviderSettlementDisconnect,
         RecoverBegin, RecoverFail, RecoverFinish, VerifyProviderSettlementBinding,
         SuspendProviderSettlementBinding
<1>3. \/ order' = order
      \/ order' = RailDown(order) /\ reservation = "active"
      \/ order' = RailUp(order)
  BY DEF RailStep, ReportProviderSettlementDisconnect, RecoverBegin, RecoverFail,
         RecoverFinish, VerifyProviderSettlementBinding, SuspendProviderSettlementBinding
<1>4. /\ OrderInv(order') /\ Monotone(order, order') /\ Quiet(order, order')
      /\ order'.status = "completed" => order.status = "completed"
      /\ order'.status = "awaiting_payment_rail" =>
            order.status = "awaiting_payment_rail" \/ reservation = "active"
  <2>1. CASE order' = order
    BY <2>1, <1>0, MilestoneNats DEF Quiet, Monotone
  <2>2. CASE order' = RailDown(order) /\ reservation = "active"
    BY <2>2, <1>0, RailDownInv, RailDownQuiet
  <2>3. CASE order' = RailUp(order)
    BY <2>3, <1>0, RailUpInv, RailUpQuiet
  <2> QED
    BY <1>3, <2>1, <2>2, <2>3
<1>5. TypeOK'
  BY <1>0, <1>1, <1>2, <1>4 DEF TypeOK, OrderInv
<1> QED
  BY <1>0, <1>1, <1>4, <1>5, QuietStep

(* A step that changes nothing preserves the inductive invariant. *)
LEMMA StutterInv ==
  ASSUME IInv, UNCHANGED vars
  PROVE  IInv'
BY DEF vars, IInv, TypeOK, StoredOrderInv, LedgerInv, RatedWasPaid,
       FrozenIsResolvable, ReservationReturned, RailWaitIsRecoverable

(* Every step preserves the inductive invariant. *)
LEMMA NextInv ==
  ASSUME IInv, [Next]_vars
  PROVE  IInv'
<1>0. \A a \in Amounts : a \in Int
  BY ConstAssumption
<1>1. CASE OrderStep
  <2>1. ASSUME NEW m \in Milestones, NEW ok \in BOOLEAN, SettleMilestone(m, ok)
        PROVE  IInv'
    BY <2>1, SettleMilestoneInv
  <2>2. ASSUME NEW m \in Milestones, NEW a \in Amounts, RecordUsageCharge(m, a)
        PROVE  IInv'
    BY <2>2, <1>0, RecordUsageChargeInv
  <2>3. ASSUME NEW m \in Milestones, NEW a \in Amounts, NEW ok \in BOOLEAN,
               OpenDispute(m, a, ok)
        PROVE  IInv'
    BY <2>3, <1>0, OpenDisputeInv
  <2>4. ASSUME NEW d \in 1 .. Len(disputes), NEW ok \in BOOLEAN, ResolveDispute(d, ok)
        PROVE  IInv'
    BY <2>4, ResolveDisputeInv
  <2>5. ASSUME NEW m \in Milestones, NEW a \in Amounts, TopUpMilestone(m, a)
        PROVE  IInv'
    BY <2>5, <1>0, TopUpMilestoneInv
  <2>6. CASE RateOrder
    BY <2>6, RateOrderInv
  <2> QED
    BY <1>1, <2>1, <2>2, <2>3, <2>4, <2>5, <2>6 DEF OrderStep
<1>2. CASE RailStep
  BY <1>2, RailStepInv
<1>3. CASE UNCHANGED vars
  BY <1>3, StutterInv
<1> QED
  BY <1>1, <1>2, <1>3 DEF Next

(* The inductive invariant holds in every reachable state. *)
LEMMA Invariance == Spec => []IInv
<1>1. Init => IInv
  BY InitInv
<1>2. IInv /\ [Next]_vars => IInv'
  BY NextInv
<1> QED
  BY <1>1, <1>2, PTL DEF Spec

-----------------------------------------------------------------------------
(* Every variable keeps its type under every sequence of handler calls. *)
THEOREM TypeCorrect == Spec => []TypeOK
<1>1. IInv => TypeOK
  BY DEF IInv
<1> QED
  BY <1>1, Invariance, PTL

(* The order that the handlers of platform/app.go and                      *)
(* provider_settlement.go leave in the store is always well formed.        *)
THEOREM OrderWellFormed == Spec => []StoredOrderInv
<1>1. IInv => StoredOrderInv
  BY DEF IInv
<1> QED
  BY <1>1, Invariance, PTL

(* However often a milestone is settled and disputed, OpenDispute refunds  *)
(* no more than SettleMilestone paid out.                                  *)
THEOREM RefundsAreCovered == Spec => []RefundsCovered
<1>1. IInv => RefundsCovered
  BY DEF IInv, LedgerInv, RefundsCovered
<1> QED
  BY <1>1, Invariance, PTL

(* RateOrder accepts a rating only after every milestone was paid out. *)
THEOREM RatingFollowsPayment == Spec => []RatedWasPaid
<1>1. IInv => RatedWasPaid
  BY DEF IInv
<1> QED
  BY <1>1, Invariance, PTL

(* A frozen milestone can be thawed by ResolveDispute, also after a failed *)
(* Save in OpenDispute or ResolveDispute.                                  *)
THEOREM FreezeHasRecord == Spec => []FrozenIsResolvable
<1>1. IInv => FrozenIsResolvable
  BY DEF IInv
<1> QED
  BY <1>1, Invariance, PTL

(* Completion releases the reservation, and an order that waits for the    *)
(* payment rail is one that RecoverProviderSettlement will find.           *)
THEOREM ReservationSound == Spec => []ReservationFollowsOrder
<1>1. IInv => ReservationFollowsOrder
  BY DEF IInv, ReservationFollowsOrder
<1> QED
  BY <1>1, Invariance, PTL

(* Among all handlers only OpenDispute takes a milestone out of the        *)
(* settled state, and only together with a refund.                         *)
LEMMA ReopenRefunds ==
  ASSUME IInv, [Next]_vars, NEW m \in Milestones,
         order.ms[m].state = "settled", order'.ms[m].state # "settled"
  PROVE  refunded'[m] > refunded[m]
<1>0. /\ TypeOK /\ OrderInv(order) /\ order \in Order /\ disputes \in Seq(Dispute)
      /\ \A a \in Amounts : a \in Int
  BY ConstAssumption DEF IInv, StoredOrderInv, TypeOK
<1>1. ASSUME NEW k \in Milestones, NEW ok \in BOOLEAN, SettleMilestone(k, ok)
      PROVE  FALSE
  <2>1. /\ Payable(order.ms[k])
        /\ order'.ms[m] = IF m = k THEN FlagAnomalies(PaidOut(order.ms[k]))
                          ELSE IF IsNextPending(order.ms, k, m) THEN Started(order.ms[m])
                          ELSE order.ms[m]
    BY <1>0, <1>1, SettleFields, Zenon DEF SettleMilestone
  <2> QED
    BY <2>1 DEF Payable, IsNextPending
<1>2. ASSUME NEW k \in Milestones, NEW a \in Amounts, RecordUsageCharge(k, a)
      PROVE  FALSE
  BY <1>0, <1>2, RecordUsageQuiet, ZenonT(30) DEF RecordUsageCharge, Quiet
<1>3. ASSUME NEW k \in Milestones, NEW a \in Amounts, NEW ok \in BOOLEAN, OpenDispute(k, a, ok)
      PROVE  refunded'[m] > refunded[m]
  <2>1. ok = TRUE /\ order' = Freeze(order, k) /\ order.ms[k].state = "settled"
    BY <1>3 DEF OpenDispute, CanDispute
  <2>2. m = k
    BY <2>1, <1>0, FreezeFields
  <2>3. refunded' = [refunded EXCEPT ![k] = @ + a] /\ a > 0
    BY <1>3, <2>1, Zenon DEF OpenDispute, CanDispute
  <2>4. refunded \in [Milestones -> Nat]
    BY <1>0 DEF TypeOK
  <2> QED
    BY <1>0, <2>2, <2>3, <2>4
<1>4. ASSUME NEW d \in 1 .. Len(disputes), NEW ok \in BOOLEAN, ResolveDispute(d, ok)
      PROVE  FALSE
  <2>1. disputes[d] \in Dispute
    BY <1>0
  <2>2. disputes[d].ms \in Milestones
    BY <2>1 DEF Dispute
  <2> QED
    BY <1>0, <1>4, <2>2, ResolveQuiet DEF ResolveDispute, Quiet
<1>5. ASSUME NEW k \in Milestones, NEW a \in Amounts, TopUpMilestone(k, a)
      PROVE  FALSE
  BY <1>0, <1>5, TopUpQuiet, ZenonT(30) DEF TopUpMilestone, Quiet
<1>6. CASE RateOrder
  BY <1>6 DEF RateOrder
<1>7. CASE RailStep
  <2>1. order' = order \/ order' = RailDown(order) \/ order' = RailUp(order)
    BY <1>7, Zenon DEF RailStep, ReportProviderSettlementDisconnect, RecoverBegin, RecoverFail,
         RecoverFinish, VerifyProviderSettlementBinding, SuspendProviderSettlementBinding
  <2> QED
    BY <1>0, <2>1, RailDownQuiet, RailUpQuiet DEF Quiet
<1>8. CASE UNCHANGED vars
  BY <1>8 DEF vars
<1> QED
  BY <1>1, <1>2, <1>3, <1>4, <1>5, <1>6, <1>7, <1>8 DEF Next, OrderStep

(* No handler but OpenDispute reopens a settled milestone. *)
THEOREM SettlementFinality == Spec => SettlementIsFinal
<1>1. IInv /\ [Next]_vars =>
        [\A m \in Milestones :
            order.ms[m].state = "settled" /\ order'.ms[m].state # "settled"
               => refunded'[m] > refunded[m]]_vars
  BY ReopenRefunds, Zenon
<1> QED
  BY <1>1, Invariance, PTL DEF Spec, SettlementIsFinal

-----------------------------------------------------------------------------
(***************************************************************************)
(* FundingAvailability.  FundsInv says what a request that passed its      *)
(* check still knows when it stores its order: the amount it holds was     *)
(* paid in, or was its limit, and covers what the buyer has promised, its  *)
(* own order included, up to the growth charged to it.  It rests on the    *)
(* statuses orders can have: the two checks count those, by name.          *)
(***************************************************************************)

(* The statuses of a stored order: nothing makes it a draft or fails it. *)
LiveStatuses == {"running", "awaiting_budget", "awaiting_payment_rail", "completed"}
LiveOrder(o) == OrderInv(o) /\ o.status \in LiveStatuses

(* What a request may have stored. *)
Slot == {None} \cup [stored : {TRUE}, buyer : Buyers, mode : Modes, order : Order]
SoundSlot(s) == s \in Slot /\ (s.stored => LiveOrder(s.order))
SoundBook(ord) == ord \in [Requests -> Slot] /\ \A r \in Requests : SoundSlot(ord[r])

(* What a buyer has promised, as a function of the stored orders ord. *)
Kept(ord) == {r \in Requests : ord[r].stored}
KeptFor(ord, b, mode) == {r \in Kept(ord) : ord[r].buyer = b /\ ord[r].mode = mode}
Costs(ord, mode) == [r \in Kept(ord) |-> Cost(ord[r].order, mode)]
Owed(ord, b, mode) == {r \in KeptFor(ord, b, mode) : Open(ord[r].order, mode)}
PromisedIn(ord, b, mode) == SumFunctionOnSet(Costs(ord, mode), Owed(ord, b, mode))

-----------------------------------------------------------------------------
(* The sums are finite. *)
LEMMA FundsFinite ==
  /\ IsFiniteSet(Milestones) /\ IsFiniteSet(Requests) /\ IsFiniteSet(Buyers)
  /\ \A S \in SUBSET Requests : IsFiniteSet(S)
<1>1. IsFiniteSet(Milestones)
  <2>1. 1 \in Int /\ N \in Int
    BY NAssumption
  <2> QED
    BY <2>1, FS_Interval DEF Milestones
<1> QED
  BY <1>1, FundingAssumption, FS_Subset, Zenon

(* What a milestone may cost is what the gateway counts as unsettled, and  *)
(* what ops sees at risk is no more.                                       *)
LEMMA MayCostIs ==
  ASSUME NEW ms \in Milestone
  PROVE  /\ MayCost(ms) \in Nat /\ MayCost(ms) = Unsettled(ms)
         /\ AtRisk(ms) \in Int /\ AtRisk(ms) <= Unsettled(ms)
<1>1. ms.budget \in Nat /\ ms.settled \in Nat
  BY DEF Milestone
<1>2. Max({0, ms.budget - ms.settled})
        = IF 0 >= ms.budget - ms.settled THEN 0 ELSE ms.budget - ms.settled
  <2>1. ms.budget - ms.settled \in Int /\ 0 \in Int
    BY <1>1
  <2> QED
    BY <2>1, MaxOfTwo, Zenon
<1> QED
  BY <1>1, <1>2 DEF MayCost, Unsettled, AtRisk, Exposed

(* The same for an order. *)
LEMMA OrderSums ==
  ASSUME NEW o \in Order
  PROVE  /\ \A mode \in Modes : Cost(o, mode) \in Nat
         /\ UnsettledOf(o) \in Nat /\ UnsettledOf(o) = Cost(o, "prepaid")
         /\ BudgetOf(o) = Cost(o, "credit")
         /\ AtRiskOf(o) \in Int /\ AtRiskOf(o) <= UnsettledOf(o)
<1> DEFINE c(mode) == [m \in Milestones |-> IF mode = "prepaid" THEN MayCost(o.ms[m]) ELSE o.ms[m].budget]
           u == [m \in Milestones |-> Unsettled(o.ms[m])]
           a == [m \in Milestones |-> AtRisk(o.ms[m])]
           d == [m \in Milestones |-> o.ms[m].budget]
<1>1. \A m \in Milestones : o.ms[m] \in Milestone
  BY OrderParts
<1>2. \A m \in Milestones : o.ms[m].budget \in Nat
  BY <1>1 DEF Milestone
<1>3. \A m \in Milestones : /\ MayCost(o.ms[m]) \in Nat /\ MayCost(o.ms[m]) = Unsettled(o.ms[m])
                            /\ AtRisk(o.ms[m]) \in Int /\ AtRisk(o.ms[m]) <= Unsettled(o.ms[m])
  BY <1>1, MayCostIs, Zenon
<1>4. IsFiniteSet(Milestones)
  BY FundsFinite, Zenon
<1>5. \A mode \in Modes : \A m \in Milestones : c(mode)[m] \in Nat
  BY <1>2, <1>3
<1>6. \A m \in Milestones : u[m] \in Nat
  BY <1>3
<1>7. c("prepaid") = u /\ c("credit") = d
  BY <1>3
<1>8. \A m \in Milestones : a[m] \in Int /\ u[m] \in Int /\ a[m] <= u[m]
  BY <1>3
<1> HIDE DEF c, u, a, d
<1>9. \A mode \in Modes : SumFunctionOnSet(c(mode), Milestones) \in Nat
  <2> TAKE mode \in Modes
  <2>1. \A m \in Milestones : c(mode)[m] \in Nat
    BY <1>5, Zenon
  <2> QED
    BY <2>1, <1>4, SumOfNats, Zenon
<1>10. SumFunctionOnSet(u, Milestones) \in Nat
  BY <1>4, <1>6, SumOfNats, Zenon
<1>11. SumFunctionOnSet(a, Milestones) \in Int
  BY <1>4, <1>8, SumInt, Zenon
<1>12. SumFunctionOnSet(a, Milestones) <= SumFunctionOnSet(u, Milestones)
  BY <1>4, <1>8, SumAtMost, Zenon
<1> QED
  BY <1>7, <1>9, <1>10, <1>11, <1>12, Zenon DEF Cost, UnsettledOf, BudgetOf, AtRiskOf, c, u, a, d

(* What is stored is a live order of a buyer. *)
LEMMA SlotParts ==
  ASSUME NEW s, SoundSlot(s)
  PROVE  /\ s.stored \in BOOLEAN
         /\ s.stored => /\ s.buyer \in Buyers /\ s.mode \in Modes /\ s.order \in Order
                        /\ OrderInv(s.order) /\ s.order.status \in LiveStatuses
<1>1. CASE s = None
  BY <1>1 DEF None
<1>2. CASE s \in [stored : {TRUE}, buyer : Buyers, mode : Modes, order : Order]
  <2>1. s.stored = TRUE /\ s.buyer \in Buyers /\ s.mode \in Modes /\ s.order \in Order
    BY <1>2, Zenon
  <2> QED
    BY <2>1, Zenon DEF SoundSlot, LiveOrder
<1> QED
  BY <1>1, <1>2, Zenon DEF SoundSlot, Slot

(* The same for all stored orders. *)
LEMMA BookParts ==
  ASSUME NEW ord, SoundBook(ord)
  PROVE  /\ Kept(ord) \in SUBSET Requests /\ IsFiniteSet(Kept(ord))
         /\ \A r \in Kept(ord) : /\ ord[r].buyer \in Buyers /\ ord[r].mode \in Modes
                                 /\ ord[r].order \in Order
                                 /\ ord[r].order.status \in LiveStatuses
<1>1. \A r \in Requests : SoundSlot(ord[r])
  BY Zenon DEF SoundBook
<1>2. Kept(ord) \in SUBSET Requests
  BY DEF Kept
<1>3. \A r \in Kept(ord) : SoundSlot(ord[r]) /\ ord[r].stored
  BY <1>1 DEF Kept
<1> QED
  BY <1>2, <1>3, FundsFinite, SlotParts, Zenon

(* What is owed is a natural number, over a finite set of requests. *)
LEMMA OwedIsNat ==
  ASSUME NEW ord, SoundBook(ord), NEW b, NEW mode \in Modes
  PROVE  /\ IsFiniteSet(Owed(ord, b, mode)) /\ Owed(ord, b, mode) \in SUBSET Kept(ord)
         /\ \A r \in Kept(ord) : Costs(ord, mode)[r] \in Nat
         /\ PromisedIn(ord, b, mode) \in Nat
<1>1. Owed(ord, b, mode) \in SUBSET Kept(ord)
  BY DEF Owed, KeptFor
<1>2. IsFiniteSet(Owed(ord, b, mode))
  BY <1>1, BookParts, FS_Subset, Zenon
<1>3. \A r \in Kept(ord) : ord[r].order \in Order
  BY BookParts, Zenon
<1>4. \A r \in Kept(ord) : Cost(ord[r].order, mode) \in Nat
  BY <1>3, OrderSums, Zenon
<1>5. \A r \in Kept(ord) : Costs(ord, mode)[r] \in Nat
  BY <1>4 DEF Costs
<1>6. \A r \in Owed(ord, b, mode) : Costs(ord, mode)[r] \in Nat
  BY <1>1, <1>5
<1> QED
  BY <1>1, <1>2, <1>5, <1>6, SumOfNats, Zenon DEF PromisedIn

(* The two checks count exactly what the buyer has promised. *)
LEMMA ChecksCountPromises ==
  ASSUME SoundBook(orders), NEW b
  PROVE  /\ buyerCommittedPrepaidCents(b) = PromisedIn(orders, b, "prepaid")
         /\ usedCents(b) = PromisedIn(orders, b, "credit")
<1>1. \A r \in Kept(orders) : orders[r].order \in Order /\ orders[r].order.status \in LiveStatuses
  BY BookParts, Zenon
<1>2. Stored = Kept(orders)
  BY DEF Stored, Kept
<1>3. \A r \in Kept(orders) : /\ UnsettledOf(orders[r].order) = Cost(orders[r].order, "prepaid")
                              /\ BudgetOf(orders[r].order) = Cost(orders[r].order, "credit")
  BY <1>1, OrderSums, Zenon
<1>4. /\ [r \in Kept(orders) |-> UnsettledOf(orders[r].order)] = Costs(orders, "prepaid")
      /\ [r \in Kept(orders) |-> BudgetOf(orders[r].order)] = Costs(orders, "credit")
  BY <1>3 DEF Costs
<1>5. \A r \in Kept(orders) :
         /\ IsPrepaidCommitted(orders[r].order) <=> Open(orders[r].order, "prepaid")
         /\ CreditActive(orders[r].order) <=> Open(orders[r].order, "credit")
  BY <1>1 DEF IsPrepaidCommitted, CreditActive, Open, LiveStatuses
<1>6. \A mode : OrdersOf(b, mode) = KeptFor(orders, b, mode)
  BY <1>2, Zenon DEF OrdersOf, KeptFor
<1>7. \A mode : KeptFor(orders, b, mode) \in SUBSET Kept(orders)
  BY DEF KeptFor
<1>8. /\ {r \in KeptFor(orders, b, "prepaid") : IsPrepaidCommitted(orders[r].order)} = Owed(orders, b, "prepaid")
      /\ {r \in KeptFor(orders, b, "credit") : CreditActive(orders[r].order)} = Owed(orders, b, "credit")
  BY <1>5, <1>7 DEF Owed
<1> QED
  BY <1>2, <1>4, <1>6, <1>8, Zenon DEF buyerCommittedPrepaidCents, usedCents, PromisedIn

(* A new order is open, and may cost its budgets. *)
LEMMA NewOrderCosts ==
  ASSUME NEW terms \in TermSets, NEW mode \in Modes
  PROVE  /\ CreateOrder(terms) \in Order /\ LiveOrder(CreateOrder(terms))
         /\ Open(CreateOrder(terms), mode)
         /\ Cost(CreateOrder(terms), mode) = totalMilestoneBudgetCents(terms)
         /\ totalMilestoneBudgetCents(terms) \in Nat
<1> DEFINE o == CreateOrder(terms)
<1>1. terms \in [Milestones -> Terms]
  BY FundingAssumption
<1>2. OrderInv(o) /\ o \in Order
  BY <1>1, CreateOrderInv, Zenon DEF OrderInv
<1>3. o.status = "running"
  BY DEF CreateOrder
<1>4. Open(o, mode) /\ LiveOrder(o)
  BY <1>2, <1>3 DEF Open, LiveOrder, LiveStatuses
<1>5. \A m \in Milestones : /\ terms[m].budget \in Nat
                            /\ o.ms[m].budget = terms[m].budget /\ o.ms[m].settled = 0
                            /\ o.ms[m].state # "settled"
  BY <1>1 DEF CreateOrder, Terms
<1>6. \A m \in Milestones : MayCost(o.ms[m]) = terms[m].budget
  <2> TAKE m \in Milestones
  <2>1. terms[m].budget - 0 \in Int /\ 0 \in Int
    BY <1>5
  <2>2. Max({0, terms[m].budget - 0}) = IF 0 >= terms[m].budget - 0 THEN 0 ELSE terms[m].budget - 0
    BY <2>1, MaxOfTwo, Zenon
  <2>3. MayCost(o.ms[m]) = Max({0, terms[m].budget - 0})
    BY <1>5, Zenon DEF MayCost
  <2> QED
    BY <1>5, <2>2, <2>3
<1>7. [m \in Milestones |-> IF mode = "prepaid" THEN MayCost(o.ms[m]) ELSE o.ms[m].budget]
        = [m \in Milestones |-> terms[m].budget]
  BY <1>5, <1>6
<1>8. Cost(o, mode) = totalMilestoneBudgetCents(terms)
  BY <1>7, Zenon DEF Cost, totalMilestoneBudgetCents
<1>9. Cost(o, mode) \in Nat
  BY <1>2, OrderSums, Zenon
<1> QED
  BY <1>2, <1>4, <1>8, <1>9, Zenon

(* Storing an order in an empty slot adds its budgets to what is owed. *)
Storing(ord, r, b, mode, terms) == [ord EXCEPT ![r] = Placed(b, mode, CreateOrder(terms))]

LEMMA StoringAdds ==
  ASSUME NEW ord, SoundBook(ord), NEW r \in Requests, ord[r] = None,
         NEW b \in Buyers, NEW mode \in Modes, NEW terms \in TermSets,
         NEW new, new = Storing(ord, r, b, mode, terms)
  PROVE  /\ SoundBook(new)
         /\ PromisedIn(new, b, mode) = PromisedIn(ord, b, mode) + totalMilestoneBudgetCents(terms)
<1> DEFINE o == CreateOrder(terms)
<1>1. /\ o \in Order /\ LiveOrder(o) /\ Open(o, mode)
      /\ Cost(o, mode) = totalMilestoneBudgetCents(terms)
      /\ totalMilestoneBudgetCents(terms) \in Nat
  BY NewOrderCosts, Zenon
<1> HIDE DEF o
<1>2. ord \in [Requests -> Slot] /\ \A x \in Requests : SoundSlot(ord[x])
  BY Zenon DEF SoundBook
<1>3. Placed(b, mode, o) \in Slot /\ SoundSlot(Placed(b, mode, o))
  BY <1>1, Zenon DEF Placed, Slot, SoundSlot
<1>4. new \in [Requests -> Slot] /\ new[r] = Placed(b, mode, o)
      /\ \A x \in Requests : x # r => new[x] = ord[x]
  BY <1>2, <1>3 DEF o, Storing
<1>5. SoundBook(new)
  BY <1>2, <1>3, <1>4, Zenon DEF SoundBook
<1>6. ~ ord[r].stored /\ new[r].stored /\ new[r].buyer = b /\ new[r].mode = mode /\ new[r].order = o
  <2>1. ~ ord[r].stored
    BY ONLY ord[r] = None DEF None
  <2>2. new[r].stored /\ new[r].buyer = b /\ new[r].mode = mode /\ new[r].order = o
    BY ONLY <1>4 DEF Placed
  <2> QED
    BY <2>1, <2>2, Zenon
<1>6a. \A x : /\ x \in Owed(new, b, mode) <=> /\ x \in Requests /\ new[x].stored
                                              /\ new[x].buyer = b /\ new[x].mode = mode
                                              /\ Open(new[x].order, mode)
              /\ x \in Owed(ord, b, mode) <=> /\ x \in Requests /\ ord[x].stored
                                              /\ ord[x].buyer = b /\ ord[x].mode = mode
                                              /\ Open(ord[x].order, mode)
  BY Zenon DEF Owed, KeptFor, Kept
<1>7. Owed(new, b, mode) = Owed(ord, b, mode) \cup {r} /\ r \notin Owed(ord, b, mode)
  <2>1. r \in Owed(new, b, mode) /\ r \notin Owed(ord, b, mode)
    BY <1>1, <1>6, <1>6a, Zenon
  <2>2. \A x : x # r => (x \in Owed(new, b, mode) <=> x \in Owed(ord, b, mode))
    <3> TAKE x
    <3> HAVE x # r
    <3>1. x \in Requests => new[x] = ord[x]
      BY <1>4, Zenon
    <3> QED
      BY <1>6a, <3>1, Zenon
  <2> QED
    BY ONLY <2>1, <2>2
<1>8. \A x \in Owed(ord, b, mode) : Costs(new, mode)[x] = Costs(ord, mode)[x]
  <2> TAKE x \in Owed(ord, b, mode)
  <2>1. x \in Requests /\ ord[x].stored /\ x # r
    BY <1>6, <1>6a, Zenon
  <2>2. new[x] = ord[x]
    BY <1>4, <2>1, Zenon
  <2>3. x \in Kept(ord) /\ x \in Kept(new)
    BY <2>1, <2>2, Zenon DEF Kept
  <2> QED
    BY ONLY <2>2, <2>3 DEF Costs
<1>9. Costs(new, mode)[r] = totalMilestoneBudgetCents(terms)
  <2>1. r \in Kept(new)
    BY <1>6, Zenon DEF Kept
  <2>2. Costs(new, mode)[r] = Cost(new[r].order, mode)
    BY ONLY <2>1 DEF Costs
  <2> QED
    BY <1>1, <1>6, <2>2, Zenon
<1> DEFINE S == Owed(ord, b, mode)
           f == Costs(ord, mode)
           g == Costs(new, mode)
<1>10. IsFiniteSet(S) /\ \A x \in S : f[x] \in Int /\ g[x] = f[x]
  <2>1. IsFiniteSet(S) /\ S \in SUBSET Kept(ord) /\ \A x \in Kept(ord) : f[x] \in Nat
    BY OwedIsNat, Zenon
  <2>2. \A x \in S : g[x] = f[x]
    BY <1>8, Zenon
  <2> HIDE DEF S, f, g
  <2> QED
    BY ONLY <2>1, <2>2
<1>11. g[r] \in Int /\ \A x \in S : g[x] \in Int
  <2>1. g[r] \in Nat
    BY <1>1, <1>9, Zenon
  <2> HIDE DEF S, f, g
  <2> QED
    BY ONLY <1>10, <2>1
<1>12. r \notin S
  BY <1>7, Zenon
<1> HIDE DEF S, f, g
<1>13. SumFunctionOnSet(f, S) = SumFunctionOnSet(g, S)
  BY <1>10, SumEqual, Zenon
<1>14. SumFunctionOnSet(g, S \cup {r}) = g[r] + SumFunctionOnSet(g, S)
  BY <1>10, <1>11, <1>12, SumAdd, Zenon
<1>15. PromisedIn(new, b, mode) = SumFunctionOnSet(g, S \cup {r}) /\ PromisedIn(ord, b, mode) = SumFunctionOnSet(f, S)
  BY <1>7, Zenon DEF PromisedIn, S, f, g
<1>16. PromisedIn(ord, b, mode) \in Nat
  BY OwedIsNat, Zenon
<1>17. g[r] = totalMilestoneBudgetCents(terms)
  BY <1>9 DEF g
<1> QED
  BY ONLY <1>1, <1>5, <1>13, <1>14, <1>15, <1>16, <1>17

(* What the exposure counts is a part of what the gateway holds back. *)
LEMMA HeldBack ==
  ASSUME SoundBook(orders)
  PROVE  ExposureIsHeldBack
<1> DEFINE A == {r \in Stored : orders[r].mode = "prepaid" /\ IsPrepaidCommitted(orders[r].order)}
           E == {r \in Stored : orders[r].mode = "prepaid" /\ CreditActive(orders[r].order)}
           u == [r \in Stored |-> UnsettledOf(orders[r].order)]
           a == [r \in Stored |-> AtRiskOf(orders[r].order)]
           key == [r \in A |-> orders[r].buyer]
           part == [b \in Buyers |-> buyerCommittedPrepaidCents(b)]
<1>1. Stored = Kept(orders)
  BY Zenon DEF Stored, Kept
<1>2. /\ IsFiniteSet(Stored)
      /\ \A r \in Stored : orders[r].buyer \in Buyers /\ orders[r].order \in Order
  BY <1>1, BookParts, Zenon
<1>3. \A r \in Stored : /\ UnsettledOf(orders[r].order) \in Nat /\ AtRiskOf(orders[r].order) \in Int
                        /\ AtRiskOf(orders[r].order) <= UnsettledOf(orders[r].order)
  BY <1>2, OrderSums, Zenon
<1>4. \A r \in Stored : u[r] \in Nat /\ a[r] \in Int /\ a[r] <= u[r]
  BY <1>3, Zenon
<1>5. E \in SUBSET A /\ A \in SUBSET Stored
  BY DEF IsPrepaidCommitted, CreditActive
<1>6. key \in [A -> Buyers]
  BY <1>2, <1>5
<1>7. \A b \in Buyers : {r \in OrdersOf(b, "prepaid") : IsPrepaidCommitted(orders[r].order)}
                          = {r \in A : key[r] = b}
  BY DEF OrdersOf
<1>8. \A b \in Buyers : part[b] = Share(u, A, key, b)
  <2> TAKE b \in Buyers
  <2>1. part[b] = buyerCommittedPrepaidCents(b)
    BY Zenon
  <2>2. buyerCommittedPrepaidCents(b)
          = SumFunctionOnSet(u, {r \in OrdersOf(b, "prepaid") : IsPrepaidCommitted(orders[r].order)})
    BY Zenon DEF buyerCommittedPrepaidCents
  <2> HIDE DEF A, u, key, part
  <2> QED
    BY <1>7, <2>1, <2>2, Zenon DEF Share
<1>9. Exposure("prepaid") = SumFunctionOnSet(a, E)
  BY Zenon DEF Exposure
<1>10. ExposureIsHeldBack <=> Exposure("prepaid") <= SumFunctionOnSet(part, Buyers)
  BY Zenon DEF ExposureIsHeldBack
<1> HIDE DEF A, E, u, a, key, part
<1>11. IsFiniteSet(A) /\ IsFiniteSet(E) /\ IsFiniteSet(Buyers)
  BY <1>2, <1>5, FS_Subset, FundsFinite, Zenon
<1>12. /\ \A r \in E : a[r] \in Int /\ u[r] \in Int /\ a[r] <= u[r]
       /\ \A r \in A : u[r] \in Nat
       /\ \A r \in A : u[r] \in Int
  BY ONLY <1>4, <1>5
<1>13. SumFunctionOnSet(a, E) <= SumFunctionOnSet(u, E)
  BY <1>11, <1>12, SumAtMost, Zenon
<1>14. SumFunctionOnSet(u, E) <= SumFunctionOnSet(u, A)
  BY ONLY <1>5, <1>11, <1>12, SumOfPart, Zenon
<1>15. SumFunctionOnSet(part, Buyers) = SumFunctionOnSet(u, A)
  BY ONLY <1>6, <1>8, <1>11, <1>12, SumByKey
<1>16. SumFunctionOnSet(a, E) \in Int /\ SumFunctionOnSet(u, E) \in Int /\ SumFunctionOnSet(u, A) \in Int
  BY <1>11, <1>12, SumInt, Zenon
<1> QED
  BY ONLY <1>9, <1>10, <1>13, <1>14, <1>15, <1>16

-----------------------------------------------------------------------------
PaidOf(recs) == SumFunctionOnSet(recs, DOMAIN recs)

(* The float never credits more than was paid in, and what was paid in     *)
(* only grows.                                                             *)
LEMMA PaidSums ==
  ASSUME NEW recs \in Seq(TopUpRecords)
  PROVE  /\ Credited(recs) \in Int /\ PaidOf(recs) \in Int /\ Credited(recs) <= PaidOf(recs)
         /\ \A cents \in TopUpRecords : /\ PaidOf(Append(recs, cents)) \in Int
                                        /\ PaidOf(recs) <= PaidOf(Append(recs, cents))
<1> DEFINE f == [i \in DOMAIN recs |-> parseAmountToCents(recs[i])]
           D == DOMAIN recs
<1>1. Len(recs) \in Nat /\ D = 1 .. Len(recs) /\ \A i \in D : recs[i] \in TopUpRecords
  OBVIOUS
<1>2. \A c \in TopUpRecords : c \in Nat
  BY FundingAssumption
<1>3. \A i \in D : recs[i] \in Int
  BY <1>1, <1>2
<1>4. \A i \in D : f[i] \in Int /\ recs[i] \in Int /\ f[i] <= recs[i]
  BY <1>3 DEF parseAmountToCents
<1>5. IsFiniteSet(D)
  <2>1. 1 \in Int /\ Len(recs) \in Int
    BY <1>1
  <2> QED
    BY <1>1, <2>1, FS_Interval
<1>6. Credited(recs) = SumFunctionOnSet(f, D) /\ PaidOf(recs) = SumFunctionOnSet(recs, D)
  BY Zenon DEF Credited, PaidOf
<1>7. ASSUME NEW cents \in TopUpRecords
      PROVE  PaidOf(Append(recs, cents)) = cents + PaidOf(recs)
  <2> DEFINE new == Append(recs, cents)
             z == Len(recs) + 1
  <2>1. DOMAIN new = D \cup {z} /\ z \notin D /\ new[z] = cents /\ \A i \in D : new[i] = recs[i]
    BY <1>1
  <2>2. PaidOf(new) = SumFunctionOnSet(new, D \cup {z})
    BY <2>1, Zenon DEF PaidOf
  <2>3. \A i \in D : recs[i] \in Int /\ new[i] = recs[i]
    BY <1>3, <2>1, Zenon
  <2>4. new[z] \in Int /\ \A i \in D : new[i] \in Int
    BY <1>2, <2>1, <2>3
  <2> HIDE DEF new, z, D
  <2>5. SumFunctionOnSet(recs, D) = SumFunctionOnSet(new, D)
    BY <1>5, <2>3, SumEqual, Zenon
  <2>6. SumFunctionOnSet(new, D \cup {z}) = new[z] + SumFunctionOnSet(new, D)
    BY <1>5, <2>1, <2>4, SumAdd, Zenon
  <2> QED
    BY <1>6, <2>1, <2>2, <2>5, <2>6, Zenon DEF new
<1> HIDE DEF f, D
<1>8. SumFunctionOnSet(f, D) <= SumFunctionOnSet(recs, D)
  BY <1>4, <1>5, SumAtMost, Zenon
<1>9. SumFunctionOnSet(f, D) \in Int /\ SumFunctionOnSet(recs, D) \in Int
  BY <1>4, <1>5, SumInt, Zenon
<1> QED
  BY ONLY <1>2, <1>6, <1>7, <1>8, <1>9

-----------------------------------------------------------------------------
(* The progress of a request. *)
Held == {"fetched", "checked", "unlimited"}
Progress ==
  [pc : {"idle", "done"}]
    \cup [pc : {"begun"}, buyer : Buyers, mode : Modes, terms : TermSets]
    \cup [pc : Held, buyer : Buyers, mode : Modes, terms : TermSets, has : Int]

(* What a request holds against its buyer has been paid in, and what it    *)
(* checked still leaves room for its order, but for what was promised      *)
(* since it listed the orders.                                             *)
PaidInFirst(q, recs) ==
  q.pc \in {"fetched", "checked"} /\ q.mode = "prepaid" => q.has <= PaidOf(recs[q.buyer])
RoomLeft(q, ord, grown) ==
  q.pc = "checked" =>
     PromisedIn(ord, q.buyer, q.mode) + totalMilestoneBudgetCents(q.terms) <= q.has + grown

(* The inductive invariant behind the checks. *)
FundsInv ==
  /\ records \in [Buyers -> Seq(TopUpRecords)]
  /\ limit \in [Buyers -> [set : BOOLEAN, cents : Int, used : Int, available : Int]]
  /\ SoundBook(orders)
  /\ req \in [Requests -> Progress]
  /\ raised \in [Requests -> Nat]
  /\ \A r \in Requests : req[r].pc # "done" => orders[r] = None
  /\ \A r \in Requests : PaidInFirst(req[r], records)
  /\ \A r \in Requests : RoomLeft(req[r], orders, raised[r])

(* What a request knows at each stage. *)
LEMMA ProgressParts ==
  ASSUME NEW q \in Progress
  PROVE  /\ q.pc \in {"idle", "done", "begun"} \cup Held
         /\ q.pc \in {"begun"} \cup Held => /\ q.buyer \in Buyers /\ q.mode \in Modes
                                            /\ q.terms \in TermSets
         /\ q.pc \in Held => q.has \in Int
<1>1. CASE q \in [pc : {"idle", "done"}]
  BY <1>1 DEF Held
<1>2. CASE q \in [pc : {"begun"}, buyer : Buyers, mode : Modes, terms : TermSets]
  <2>1. q.pc = "begun" /\ q.buyer \in Buyers /\ q.mode \in Modes /\ q.terms \in TermSets
    BY <1>2
  <2> QED
    BY <2>1 DEF Held
<1>3. CASE q \in [pc : Held, buyer : Buyers, mode : Modes, terms : TermSets, has : Int]
  <2>1. q.pc \in Held /\ q.buyer \in Buyers /\ q.mode \in Modes /\ q.terms \in TermSets /\ q.has \in Int
    BY <1>3
  <2> QED
    BY <2>1, Zenon
<1> QED
  BY <1>1, <1>2, <1>3, Zenon DEF Progress

(* A request that holds an amount is well typed. *)
LEMMA HeldIsProgress ==
  ASSUME NEW pc \in Held, NEW b \in Buyers, NEW mode \in Modes, NEW terms \in TermSets, NEW has \in Int
  PROVE  [pc |-> pc, buyer |-> b, mode |-> mode, terms |-> terms, has |-> has] \in Progress
BY DEF Progress

(* The properties speak of these sums. *)
LEMMA PromisedNow ==
  /\ \A b, mode : Promised(b, mode) = PromisedIn(orders, b, mode)
  /\ \A b, mode : Promised(b, mode)' = PromisedIn(orders', b, mode)
  /\ \A b : PaidIn(b) = PaidOf(records[b])
BY Zenon DEF Promised, PromisedIn, Stored, OrdersOf, Kept, KeptFor, Costs, Owed, PaidIn, PaidOf

(* A request that checked before the step keeps its room: the growth is    *)
(* charged to it.                                                          *)
LEMMA GrowthIsCharged ==
  ASSUME FundsInv, SoundBook(orders'), RecordGrowth, req' \in [Requests -> Progress],
         \A r \in Requests : req'[r].pc = "checked" => \/ req'[r] = req[r]
                                                       \/ /\ req[r].pc # "checked"
                                                          /\ RoomLeft(req'[r], orders', 0)
  PROVE  raised' \in [Requests -> Nat] /\ \A r \in Requests : RoomLeft(req'[r], orders', raised'[r])
<1>1. \A r \in Requests : raised[r] \in Nat /\ req[r] \in Progress /\ req'[r] \in Progress
  BY DEF FundsInv
<1>2. ASSUME NEW r \in Requests
      PROVE  raised'[r] \in Nat /\ RoomLeft(req'[r], orders', raised'[r])
  <2>1. raised'[r] = IF req'[r].pc = "checked"
                       THEN IF req[r].pc = "checked"
                              THEN raised[r] + Growth(req[r].buyer, req[r].mode) ELSE 0
                       ELSE 0
    BY Zenon DEF RecordGrowth
  <2>2. CASE req'[r].pc # "checked"
    <3>1. raised'[r] = 0
      BY <2>1, <2>2, Zenon
    <3>2. RoomLeft(req'[r], orders', raised'[r])
      BY <2>2, Zenon DEF RoomLeft
    <3> QED
      BY <3>1, <3>2
  <2>3. CASE req'[r].pc = "checked" /\ req[r].pc # "checked"
    <3>1. raised'[r] = 0
      BY <2>1, <2>3, Zenon
    <3>2. RoomLeft(req'[r], orders', 0)
      BY <2>3, Zenon
    <3> QED
      BY <3>1, <3>2
  <2>4. CASE req'[r].pc = "checked" /\ req[r].pc = "checked"
    <3> DEFINE q == req[r]
               old == PromisedIn(orders, q.buyer, q.mode)
    <3>1. req'[r] = req[r] /\ raised'[r] = raised[r] + Growth(q.buyer, q.mode)
      BY <2>1, <2>4, Zenon
    <3>2. "checked" \in Held
      BY DEF Held
    <3>3. q \in Progress /\ q.pc = "checked"
      BY <1>1, <2>4, Zenon
    <3>4. q.mode \in Modes /\ q.terms \in TermSets /\ q.has \in Int
      <4>1. q.pc \in Held /\ q.pc \in {"begun"} \cup Held
        BY <3>2, <3>3, Zenon
      <4> QED
        BY <3>3, <4>1, ProgressParts, Zenon
    <3>5. old + totalMilestoneBudgetCents(q.terms) <= q.has + raised[r]
      <4>1. RoomLeft(q, orders, raised[r])
        BY Zenon DEF FundsInv
      <4> QED
        BY <3>3, <4>1, Zenon DEF RoomLeft
    <3>6. totalMilestoneBudgetCents(q.terms) \in Nat
      BY <3>4, NewOrderCosts, Zenon
    <3> SUFFICES ASSUME NEW b, b = q.buyer, NEW mode, mode = q.mode
                 PROVE  raised'[r] \in Nat /\ RoomLeft(req'[r], orders', raised'[r])
      BY Zenon
    <3> DEFINE new == PromisedIn(orders', b, mode)
    <3>7. old \in Nat /\ new \in Nat
      <4>1. SoundBook(orders)
        BY Zenon DEF FundsInv
      <4> QED
        BY <3>4, <4>1, OwedIsNat, Zenon
    <3>8. Growth(b, mode) = Max({0, new - old})
      BY PromisedNow, Zenon DEF Growth
    <3>9. Max({0, new - old}) = IF 0 >= new - old THEN 0 ELSE new - old
      <4>1. 0 \in Int /\ new - old \in Int
        BY <3>7
      <4> HIDE DEF new, old
      <4> QED
        BY <4>1, MaxOfTwo, Zenon
    <3>10. raised[r] \in Nat
      BY <1>1, Zenon
    <3>11. RoomLeft(req'[r], orders', raised'[r])
             <=> new + totalMilestoneBudgetCents(q.terms) <= q.has + raised'[r]
      BY <3>1, <3>3, Zenon DEF RoomLeft
    <3>12. raised'[r] = raised[r] + Growth(b, mode)
      BY <3>1, Zenon
    <3> DEFINE t == totalMilestoneBudgetCents(q.terms)
               h == q.has
    <3>13. t \in Nat /\ h \in Int /\ old + t <= h + raised[r]
           /\ (RoomLeft(req'[r], orders', raised'[r]) <=> new + t <= h + raised'[r])
      BY <3>4, <3>5, <3>6, <3>11, Zenon
    <3> HIDE DEF new, old, q, t, h
    <3> QED
      BY ONLY <3>7, <3>8, <3>9, <3>10, <3>12, <3>13
  <2> QED
    BY <2>2, <2>3, <2>4, Zenon
<1>3. raised' \in [Requests -> Nat]
  <2>1. raised' = [r \in Requests |-> raised'[r]]
    BY Zenon DEF RecordGrowth
  <2> QED
    BY <1>2, <2>1
<1> QED
  BY <1>2, <1>3, Zenon

(* A step of one request that stores nothing. *)
LEMMA RequestStep ==
  ASSUME FundsInv, NEW r \in Requests, NEW next \in Progress, Step(r, next),
         records' = records, limit' = limit, orders' = orders, RecordGrowth,
         req[r].pc \notin {"checked", "done"}, next.pc # "done",
         PaidInFirst(next, records), RoomLeft(next, orders, 0)
  PROVE  FundsInv'
<1>1. req \in [Requests -> Progress] /\ SoundBook(orders)
  BY Zenon DEF FundsInv
<1>2. /\ req' \in [Requests -> Progress] /\ req'[r] = next
      /\ \A s \in Requests : s # r => req'[s] = req[s]
  BY <1>1 DEF Step
<1>3. SoundBook(orders')
  BY <1>1, Zenon
<1>4. \A s \in Requests : req'[s].pc = "checked" => \/ req'[s] = req[s]
                                                    \/ /\ req[s].pc # "checked"
                                                       /\ RoomLeft(req'[s], orders', 0)
  <2> TAKE s \in Requests
  <2>1. CASE s = r
    <3>1. req[r].pc # "checked"
      OBVIOUS
    <3> QED
      BY <1>2, <2>1, <3>1, Zenon
  <2>2. CASE s # r
    BY <1>2, <2>2, Zenon
  <2> QED
    BY <2>1, <2>2, Zenon
<1>5. raised' \in [Requests -> Nat] /\ \A s \in Requests : RoomLeft(req'[s], orders', raised'[s])
  BY <1>2, <1>3, <1>4, GrowthIsCharged, Zenon
<1>6. \A s \in Requests : req'[s].pc # "done" => orders'[s] = None
  <2>1. req[r].pc # "done"
    OBVIOUS
  <2> QED
    BY <1>2, <2>1, Zenon DEF FundsInv
<1>7. \A s \in Requests : PaidInFirst(req'[s], records')
  BY <1>2, Zenon DEF FundsInv
<1>8. /\ records' \in [Buyers -> Seq(TopUpRecords)]
      /\ limit' \in [Buyers -> [set : BOOLEAN, cents : Int, used : Int, available : Int]]
  BY Zenon DEF FundsInv
<1> QED
  BY <1>2, <1>3, <1>5, <1>6, <1>7, <1>8, Zenon DEF FundsInv

(* The steps that look without storing. *)
LEMMA LookingSteps ==
  ASSUME FundsInv, NEW r \in Requests,
         \/ \E b \in Buyers, mode \in Modes, terms \in TermSets : handleCreateOrder(r, b, mode, terms)
         \/ FetchCredited(r) \/ FetchFails(r) \/ ensureBuyerPrepaidAvailability(r)
         \/ ReadLimit(r) \/ CheckCreditAvailability(r)
  PROVE  FundsInv'
<1> DEFINE q == req[r]
<1>1. q \in Progress /\ SoundBook(orders) /\ PaidInFirst(q, records)
  BY DEF FundsInv
<1>2. /\ q.pc \in {"begun"} \cup Held => q.buyer \in Buyers /\ q.mode \in Modes /\ q.terms \in TermSets
      /\ q.pc \in Held => q.has \in Int
  BY <1>1, ProgressParts, Zenon
<1>3. Fresh \in Progress /\ Fresh.pc = "idle"
  BY DEF Fresh, Progress
<1>4. PaidInFirst(Fresh, records) /\ RoomLeft(Fresh, orders, 0) /\ Fresh.pc # "done"
  BY <1>3 DEF PaidInFirst, RoomLeft
<1>5. ASSUME NEW b \in Buyers, NEW mode \in Modes, NEW terms \in TermSets,
             handleCreateOrder(r, b, mode, terms)
      PROVE  FundsInv'
  <2> DEFINE next == Begun(b, mode, terms)
  <2>1. next \in Progress /\ next.pc = "begun"
    BY Zenon DEF Begun, Progress
  <2>2. PaidInFirst(next, records) /\ RoomLeft(next, orders, 0) /\ next.pc # "done"
    BY <2>1, Zenon DEF PaidInFirst, RoomLeft
  <2>3. q.pc \notin {"checked", "done"} /\ Step(r, next) /\ RecordGrowth
        /\ records' = records /\ limit' = limit /\ orders' = orders
    BY <1>5, Zenon DEF handleCreateOrder
  <2> QED
    BY <2>1, <2>2, <2>3, RequestStep, Zenon
<1>6. CASE FetchCredited(r)
  <2> DEFINE next == [pc |-> "fetched", buyer |-> q.buyer, mode |-> "prepaid",
                      terms |-> q.terms, has |-> Credited(records[q.buyer])]
  <2>1. q.pc = "begun" /\ Step(r, next) /\ RecordGrowth
        /\ records' = records /\ limit' = limit /\ orders' = orders
    BY <1>6, Zenon DEF FetchCredited
  <2>2. q.buyer \in Buyers /\ q.terms \in TermSets
    BY <1>2, <2>1, Zenon
  <2>3. records[q.buyer] \in Seq(TopUpRecords)
    BY <2>2, Zenon DEF FundsInv
  <2>4. /\ Credited(records[q.buyer]) \in Int
        /\ Credited(records[q.buyer]) <= PaidOf(records[q.buyer])
    BY <2>3, PaidSums, Zenon
  <2>5. "fetched" \in Held /\ "prepaid" \in Modes
    BY DEF Held, Modes
  <2>6. next \in Progress
    BY <2>2, <2>4, <2>5, HeldIsProgress, Zenon
  <2>7. next.pc = "fetched" /\ next.has = Credited(records[q.buyer]) /\ next.buyer = q.buyer
    BY Zenon
  <2>8. PaidInFirst(next, records) /\ RoomLeft(next, orders, 0) /\ next.pc # "done"
        /\ q.pc \notin {"checked", "done"}
    <3> HIDE DEF next
    <3>1. PaidInFirst(next, records)
      BY <2>4, <2>7, Zenon DEF PaidInFirst
    <3> QED
      BY <2>1, <2>7, <3>1, Zenon DEF RoomLeft
  <2> QED
    BY <2>1, <2>6, <2>8, RequestStep, Zenon
<1>7. CASE FetchFails(r)
  <2>1. q.pc \notin {"checked", "done"} /\ Step(r, Fresh) /\ RecordGrowth
        /\ records' = records /\ limit' = limit /\ orders' = orders
    BY <1>7, Zenon DEF FetchFails
  <2> QED
    BY <1>3, <1>4, <2>1, RequestStep, Zenon
<1>8. ASSUME q.pc = "fetched", RecordGrowth,
             records' = records, limit' = limit, orders' = orders,
             Step(r, IF q.has - PromisedIn(orders, q.buyer, q.mode) < totalMilestoneBudgetCents(q.terms)
                       THEN Fresh ELSE Checked(r))
      PROVE  FundsInv'
  <2>1. q.pc \in Held
    BY <1>8, Zenon DEF Held
  <2>2. q.buyer \in Buyers /\ q.mode \in Modes /\ q.terms \in TermSets /\ q.has \in Int
    BY <1>2, <2>1, Zenon
  <2>3. q.pc \notin {"checked", "done"}
    BY <1>8, Zenon
  <2>4. CASE q.has - PromisedIn(orders, q.buyer, q.mode) < totalMilestoneBudgetCents(q.terms)
    <3>1. Step(r, Fresh)
      BY <1>8, <2>4, Zenon
    <3> QED
      BY <1>3, <1>4, <1>8, <2>3, <3>1, RequestStep, Zenon
  <2>5. CASE ~(q.has - PromisedIn(orders, q.buyer, q.mode) < totalMilestoneBudgetCents(q.terms))
    <3> DEFINE next == Checked(r)
    <3>1. Step(r, next)
      BY <1>8, <2>5, Zenon
    <3>2. /\ next.pc = "checked" /\ next.buyer = q.buyer /\ next.mode = q.mode
          /\ next.terms = q.terms /\ next.has = q.has
      BY DEF Checked
    <3>3. "checked" \in Held
      BY DEF Held
    <3>4. next \in Progress
      BY <2>2, <3>3, HeldIsProgress, Zenon DEF Checked
    <3>5. PaidInFirst(next, records)
      BY <1>1, <1>8, <3>2, Zenon DEF PaidInFirst
    <3>6. PromisedIn(orders, q.buyer, q.mode) \in Nat /\ totalMilestoneBudgetCents(q.terms) \in Nat
      BY <1>1, <2>2, OwedIsNat, NewOrderCosts, Zenon
    <3>7. PromisedIn(orders, q.buyer, q.mode) + totalMilestoneBudgetCents(q.terms) <= q.has + 0
      <4>1. q.has \in Int
        BY <2>2, Zenon
      <4> HIDE DEF q
      <4> QED
        BY ONLY <2>5, <3>6, <4>1
    <3>8. RoomLeft(next, orders, 0)
      BY <3>2, <3>7, Zenon DEF RoomLeft
    <3>9. next.pc # "done"
      BY <3>2, Zenon
    <3> HIDE DEF next
    <3> QED
      BY <1>8, <2>3, <3>1, <3>4, <3>5, <3>8, <3>9, RequestStep, Zenon
  <2> QED
    BY <2>4, <2>5, Zenon
<1>9. CASE ensureBuyerPrepaidAvailability(r)
  <2>1. buyerCommittedPrepaidCents(q.buyer) = PromisedIn(orders, q.buyer, "prepaid")
    BY <1>1, ChecksCountPromises, Zenon
  <2>2. q.mode = "prepaid"
    BY <1>9, Zenon DEF ensureBuyerPrepaidAvailability
  <2> QED
    BY <1>8, <1>9, <2>1, <2>2, Zenon DEF ensureBuyerPrepaidAvailability
<1>10. CASE CheckCreditAvailability(r)
  <2>1. usedCents(q.buyer) = PromisedIn(orders, q.buyer, "credit")
    BY <1>1, ChecksCountPromises, Zenon
  <2>2. q.mode = "credit"
    BY <1>10, Zenon DEF CheckCreditAvailability
  <2> QED
    BY <1>8, <1>10, <2>1, <2>2, Zenon DEF CheckCreditAvailability
<1>11. CASE ReadLimit(r)
  <2> DEFINE l == limit[q.buyer]
             pc == IF l.set THEN "fetched" ELSE "unlimited"
             next == [pc |-> pc, buyer |-> q.buyer, mode |-> "credit", terms |-> q.terms, has |-> l.cents]
  <2>1. q.pc = "begun" /\ Step(r, next) /\ RecordGrowth
        /\ records' = records /\ limit' = limit /\ orders' = orders
    BY <1>11, Zenon DEF ReadLimit
  <2>2. q.buyer \in Buyers /\ q.terms \in TermSets
    BY <1>2, <2>1, Zenon
  <2>3. l \in [set : BOOLEAN, cents : Int, used : Int, available : Int]
    BY <2>2, Zenon DEF FundsInv
  <2>4. l.cents \in Int
    BY <2>3
  <2>5. pc \in Held /\ "credit" \in Modes /\ pc # "checked" /\ pc # "done"
    BY DEF Held, Modes
  <2> HIDE DEF l, pc
  <2>6. next \in Progress
    BY <2>2, <2>4, <2>5, HeldIsProgress, Zenon
  <2>7. next.pc = pc /\ next.mode = "credit"
    OBVIOUS
  <2> HIDE DEF next
  <2>8. PaidInFirst(next, records) /\ RoomLeft(next, orders, 0) /\ next.pc # "done"
        /\ q.pc \notin {"checked", "done"}
    BY <2>1, <2>5, <2>7, Zenon DEF PaidInFirst, RoomLeft
  <2> QED
    BY <2>1, <2>6, <2>8, RequestStep, Zenon
<1> QED
  BY <1>5, <1>6, <1>7, <1>9, <1>10, <1>11, Zenon

(* The order that is stored takes what the check left for it. *)
LEMMA Stores ==
  ASSUME FundsInv, NEW r \in Requests, StoreOrder(r)
  PROVE  /\ req[r] \in Progress /\ req[r].pc # "done"
         /\ req[r].buyer \in Buyers /\ req[r].mode \in Modes /\ req[r].terms \in TermSets
         /\ SoundBook(orders')
         /\ PromisedIn(orders', req[r].buyer, req[r].mode)
              = PromisedIn(orders, req[r].buyer, req[r].mode) + totalMilestoneBudgetCents(req[r].terms)
<1> DEFINE q == req[r]
<1>1. q \in Progress /\ SoundBook(orders) /\ (q.pc # "done" => orders[r] = None)
  BY DEF FundsInv
<1>2. q.pc \in {"checked", "unlimited", "begun"}
  BY Zenon DEF StoreOrder, Unchecked
<1>3. q.pc \in {"begun"} \cup Held /\ q.pc # "done"
  BY <1>2, Zenon DEF Held
<1>4. q.buyer \in Buyers /\ q.mode \in Modes /\ q.terms \in TermSets
  BY <1>1, <1>3, ProgressParts, Zenon
<1>5. orders' = Storing(orders, r, q.buyer, q.mode, q.terms)
  BY Zenon DEF StoreOrder, Storing
<1>6. orders[r] = None
  BY <1>1, <1>3, Zenon
<1> HIDE DEF q
<1>7. /\ SoundBook(orders')
      /\ PromisedIn(orders', q.buyer, q.mode) = PromisedIn(orders, q.buyer, q.mode) + totalMilestoneBudgetCents(q.terms)
  BY ONLY <1>1, <1>4, <1>5, <1>6, r \in Requests, StoringAdds
<1> QED
  BY <1>1, <1>3, <1>4, <1>7, Zenon DEF q

(* Storing the order keeps the invariant. *)
LEMMA StoreStep ==
  ASSUME FundsInv, NEW r \in Requests, StoreOrder(r)
  PROVE  FundsInv'
<1>1. /\ req \in [Requests -> Progress]
      /\ records \in [Buyers -> Seq(TopUpRecords)]
      /\ limit \in [Buyers -> [set : BOOLEAN, cents : Int, used : Int, available : Int]]
      /\ orders \in [Requests -> Slot]
  BY Zenon DEF FundsInv, SoundBook
<1>2. /\ SoundBook(orders') /\ RecordGrowth /\ records' = records /\ limit' = limit
      /\ req' = [req EXCEPT ![r] = [pc |-> "done"]]
      /\ orders' = [orders EXCEPT ![r] = Placed(req[r].buyer, req[r].mode, CreateOrder(req[r].terms))]
  BY Stores, Zenon DEF StoreOrder, Step
<1>3. [pc |-> "done"] \in Progress
  BY DEF Progress
<1>4. /\ req' \in [Requests -> Progress] /\ req'[r] = [pc |-> "done"]
      /\ \A s \in Requests : s # r => req'[s] = req[s]
  BY ONLY <1>1, <1>2, <1>3, r \in Requests
<1>5. \A s \in Requests : s # r => orders'[s] = orders[s]
  BY ONLY <1>1, <1>2, r \in Requests
<1>6. req'[r].pc = "done"
  BY <1>4
<1>7. \A s \in Requests : req'[s].pc = "checked" => \/ req'[s] = req[s]
                                                    \/ /\ req[s].pc # "checked"
                                                       /\ RoomLeft(req'[s], orders', 0)
  BY <1>4, <1>6, Zenon
<1>8. raised' \in [Requests -> Nat] /\ \A s \in Requests : RoomLeft(req'[s], orders', raised'[s])
  BY <1>2, <1>4, <1>7, GrowthIsCharged, Zenon
<1>9. \A s \in Requests : req'[s].pc # "done" => orders'[s] = None
  BY <1>4, <1>5, <1>6, Zenon DEF FundsInv
<1>10. \A s \in Requests : PaidInFirst(req'[s], records')
  <2>1. PaidInFirst(req'[r], records')
    BY <1>6 DEF PaidInFirst
  <2> QED
    BY <1>2, <1>4, <2>1, Zenon DEF FundsInv
<1> QED
  BY <1>1, <1>2, <1>4, <1>8, <1>9, <1>10, Zenon DEF FundsInv

(* Steps that touch no request. *)
LEMMA NoRequestMoves ==
  ASSUME FundsInv, RecordGrowth, req' = req, SoundBook(orders'),
         \A r \in Requests : orders[r] = None => orders'[r] = None,
         records' \in [Buyers -> Seq(TopUpRecords)],
         \A b \in Buyers : PaidOf(records[b]) <= PaidOf(records'[b]),
         limit' \in [Buyers -> [set : BOOLEAN, cents : Int, used : Int, available : Int]]
  PROVE  FundsInv'
<1>1. req' \in [Requests -> Progress] /\ records \in [Buyers -> Seq(TopUpRecords)]
  BY Zenon DEF FundsInv
<1>2. \A s \in Requests : req'[s].pc = "checked" => \/ req'[s] = req[s]
                                                    \/ /\ req[s].pc # "checked"
                                                       /\ RoomLeft(req'[s], orders', 0)
  BY Zenon
<1>3. raised' \in [Requests -> Nat] /\ \A s \in Requests : RoomLeft(req'[s], orders', raised'[s])
  BY <1>1, <1>2, GrowthIsCharged, Zenon
<1>4. \A s \in Requests : req'[s].pc # "done" => orders'[s] = None
  BY Zenon DEF FundsInv
<1>5. ASSUME NEW s \in Requests
      PROVE  PaidInFirst(req'[s], records')
  <2> DEFINE q == req[s]
  <2>1. q \in Progress /\ PaidInFirst(q, records)
    BY <1>1 DEF FundsInv
  <2> SUFFICES ASSUME q.pc \in {"fetched", "checked"}, q.mode = "prepaid"
               PROVE  q.has <= PaidOf(records'[q.buyer])
    BY Zenon DEF PaidInFirst
  <2>2. q.pc \in Held
    BY Zenon DEF Held
  <2>3. q.buyer \in Buyers /\ q.has \in Int
    BY <2>1, <2>2, ProgressParts, Zenon
  <2>4. q.has <= PaidOf(records[q.buyer])
    BY <2>1, Zenon DEF PaidInFirst
  <2>5. records[q.buyer] \in Seq(TopUpRecords) /\ records'[q.buyer] \in Seq(TopUpRecords)
    BY <1>1, <2>3
  <2>6. PaidOf(records[q.buyer]) \in Int /\ PaidOf(records'[q.buyer]) \in Int
    BY <2>5, PaidSums, Zenon
  <2>7. PaidOf(records[q.buyer]) <= PaidOf(records'[q.buyer])
    BY <2>3, Zenon
  <2> HIDE DEF q
  <2> QED
    BY ONLY <2>3, <2>4, <2>6, <2>7
<1> QED
  BY <1>1, <1>3, <1>4, <1>5, Zenon DEF FundsInv

(* A deposit adds to what was paid in. *)
LEMMA CreditTopUpStep ==
  ASSUME FundsInv, NEW b \in Buyers, NEW cents \in TopUpRecords, CreditTopUp(b, cents)
  PROVE  FundsInv'
<1>1. /\ records \in [Buyers -> Seq(TopUpRecords)] /\ SoundBook(orders)
      /\ limit \in [Buyers -> [set : BOOLEAN, cents : Int, used : Int, available : Int]]
  BY Zenon DEF FundsInv
<1>2. /\ records' = [records EXCEPT ![b] = Append(records[b], cents)]
      /\ limit' = limit /\ orders' = orders /\ req' = req /\ RecordGrowth
  BY DEF CreditTopUp
<1>3. records[b] \in Seq(TopUpRecords) /\ Append(records[b], cents) \in Seq(TopUpRecords)
  BY <1>1
<1>4. /\ records' \in [Buyers -> Seq(TopUpRecords)] /\ records'[b] = Append(records[b], cents)
      /\ \A c \in Buyers : c # b => records'[c] = records[c]
  BY ONLY <1>1, <1>2, <1>3, b \in Buyers
<1>5. PaidOf(records[b]) <= PaidOf(records'[b])
  BY <1>3, <1>4, PaidSums, Zenon
<1>6. \A c \in Buyers : c # b => PaidOf(records[c]) \in Int /\ records'[c] = records[c]
  BY <1>1, <1>4, PaidSums
<1>7. \A c \in Buyers : PaidOf(records[c]) <= PaidOf(records'[c])
  BY ONLY <1>5, <1>6
<1>8. \A r \in Requests : orders[r] = None => orders'[r] = None
  BY <1>2, Zenon
<1> QED
  BY <1>1, <1>2, <1>4, <1>7, <1>8, NoRequestMoves, Zenon

(* Without a deposit the same has been paid in. *)
LEMMA SameRecords ==
  ASSUME FundsInv
  PROVE  \A b \in Buyers : PaidOf(records[b]) <= PaidOf(records[b])
<1>1. \A b \in Buyers : records[b] \in Seq(TopUpRecords)
  BY DEF FundsInv
<1>2. \A b \in Buyers : PaidOf(records[b]) \in Int
  BY <1>1, PaidSums, Zenon
<1> QED
  BY <1>2

(* Ops changes a limit: what requests have read stays as it was. *)
LEMMA SetCreditLimitStep ==
  ASSUME FundsInv, NEW b \in Buyers, NEW cents \in Limits, SetCreditLimit(b, cents)
  PROVE  FundsInv'
<1> DEFINE Limited == [set : BOOLEAN, cents : Int, used : Int, available : Int]
           l == [set |-> TRUE, cents |-> cents, used |-> usedCents(b), available |-> cents - usedCents(b)]
<1>1. records \in [Buyers -> Seq(TopUpRecords)] /\ SoundBook(orders) /\ limit \in [Buyers -> Limited]
  BY Zenon DEF FundsInv
<1>2. /\ limit' = [limit EXCEPT ![b] = l]
      /\ records' = records /\ orders' = orders /\ req' = req /\ RecordGrowth
  BY Zenon DEF SetCreditLimit
<1>3. usedCents(b) \in Nat
  <2>1. "credit" \in Modes
    BY DEF Modes
  <2>2. usedCents(b) = PromisedIn(orders, b, "credit")
    BY <1>1, ChecksCountPromises, Zenon
  <2> QED
    BY ONLY <1>1, <2>1, <2>2, OwedIsNat
<1>4. cents \in Int
  BY FundingAssumption
<1>5. l \in Limited
  BY <1>3, <1>4
<1> HIDE DEF l, Limited
<1>6. limit' \in [Buyers -> Limited]
  BY ONLY <1>1, <1>2, <1>5, b \in Buyers
<1>7. \A c \in Buyers : PaidOf(records[c]) <= PaidOf(records'[c])
  BY <1>2, SameRecords, Zenon
<1>8. \A r \in Requests : orders[r] = None => orders'[r] = None
  BY <1>2, Zenon
<1> QED
  BY <1>1, <1>2, <1>6, <1>7, <1>8, NoRequestMoves, Zenon DEF Limited

(* Saving a live order over another. *)
LEMMA SaveStep ==
  ASSUME FundsInv, NEW r \in Stored, NEW o, LiveOrder(o), SaveOrder(r, o)
  PROVE  FundsInv'
<1>1. /\ records \in [Buyers -> Seq(TopUpRecords)] /\ SoundBook(orders)
      /\ limit \in [Buyers -> [set : BOOLEAN, cents : Int, used : Int, available : Int]]
  BY Zenon DEF FundsInv
<1>2. /\ orders' = [orders EXCEPT ![r].order = o]
      /\ records' = records /\ limit' = limit /\ req' = req /\ RecordGrowth
  BY Zenon DEF SaveOrder
<1>3. r \in Requests /\ orders[r].stored
  BY DEF Stored
<1>4. orders \in [Requests -> Slot] /\ \A x \in Requests : SoundSlot(orders[x])
  BY <1>1, Zenon DEF SoundBook
<1> DEFINE s == [orders[r] EXCEPT !.order = o]
<1>5. orders[r] \in [stored : {TRUE}, buyer : Buyers, mode : Modes, order : Order]
  <2>1. orders[r] \in Slot /\ orders[r] # None
    BY <1>3, <1>4 DEF None
  <2> QED
    BY <2>1, Zenon DEF Slot
<1>6. o \in Order
  BY Zenon DEF LiveOrder, OrderInv
<1>7. s \in [stored : {TRUE}, buyer : Buyers, mode : Modes, order : Order] /\ s.order = o
  BY <1>5, <1>6, Zenon
<1>8. orders' = [orders EXCEPT ![r] = s]
  BY <1>2, Zenon
<1> HIDE DEF s
<1>9. s \in Slot /\ SoundSlot(s)
  BY <1>7, Zenon DEF Slot, SoundSlot
<1>10. orders' \in [Requests -> Slot] /\ orders'[r] = s /\ \A x \in Requests : x # r => orders'[x] = orders[x]
  BY ONLY <1>3, <1>4, <1>8, <1>9
<1>11. SoundBook(orders')
  BY <1>4, <1>9, <1>10, Zenon DEF SoundBook
<1>12. orders[r] # None
  BY <1>3 DEF None
<1>13. \A x \in Requests : orders[x] = None => orders'[x] = None
  BY <1>10, <1>12, Zenon
<1>14. \A c \in Buyers : PaidOf(records[c]) <= PaidOf(records'[c])
  BY <1>2, SameRecords, Zenon
<1> QED
  BY <1>1, <1>2, <1>11, <1>13, <1>14, NoRequestMoves, Zenon

(* No operation leaves an order in a status the checks do not know. *)
LEMMA StaysLive ==
  ASSUME NEW o, LiveOrder(o), NEW m \in Milestones
  PROVE  /\ Payable(o.ms[m]) => LiveOrder(Settle(o, m))
         /\ \A cents \in Int : cents > 0 /\ AcceptsUsage(o.ms[m]) => LiveOrder(RecordUsage(o, m, cents))
         /\ \A cents \in Int : cents > 0 => LiveOrder(TopUp(o, m, cents))
         /\ o.ms[m].state = "settled" => LiveOrder(Freeze(o, m))
         /\ CanResolve(o.ms[m]) => LiveOrder(Resolve(o, m))
         /\ LiveOrder(RailDown(o)) /\ LiveOrder(RailUp(o))
<1>1. OrderInv(o) /\ o.status \in LiveStatuses
  BY Zenon DEF LiveOrder
<1>2. "running" \in LiveStatuses /\ "awaiting_budget" \in LiveStatuses
      /\ "awaiting_payment_rail" \in LiveStatuses /\ "completed" \in LiveStatuses
  BY DEF LiveStatuses
<1>3. /\ Settle(o, m).status \in LiveStatuses
      /\ \A cents : RecordUsage(o, m, cents).status \in LiveStatuses
      /\ \A cents : TopUp(o, m, cents).status \in LiveStatuses
      /\ Freeze(o, m).status \in LiveStatuses /\ Resolve(o, m).status \in LiveStatuses
      /\ RailDown(o).status \in LiveStatuses /\ RailUp(o).status \in LiveStatuses
  <2>1. Settle(o, m).status \in LiveStatuses
    BY <1>1, <1>2, Zenon DEF Settle, SettleCore
  <2>2. \A cents : RecordUsage(o, m, cents).status \in LiveStatuses
    BY <1>1, <1>2 DEF RecordUsage
  <2>3. \A cents : TopUp(o, m, cents).status \in LiveStatuses
    BY <1>1, <1>2, Zenon DEF TopUp
  <2>4. Freeze(o, m).status \in LiveStatuses /\ Resolve(o, m).status \in LiveStatuses
    BY <1>1 DEF Freeze, Resolve
  <2>5. RailDown(o).status \in LiveStatuses /\ RailUp(o).status \in LiveStatuses
    BY <1>1, <1>2 DEF RailDown, RailUp
  <2> QED
    BY <2>1, <2>2, <2>3, <2>4, <2>5, Zenon
<1>4. /\ Payable(o.ms[m]) => OrderInv(Settle(o, m))
      /\ \A cents \in Int : cents > 0 /\ AcceptsUsage(o.ms[m]) => OrderInv(RecordUsage(o, m, cents))
      /\ \A cents \in Int : cents > 0 => OrderInv(TopUp(o, m, cents))
  BY <1>1, SettleInv, RecordUsageInv, TopUpInv, Zenon
<1>5. /\ o.ms[m].state = "settled" => OrderInv(Freeze(o, m))
      /\ CanResolve(o.ms[m]) => OrderInv(Resolve(o, m))
      /\ OrderInv(RailDown(o)) /\ OrderInv(RailUp(o))
  BY <1>1, FreezeInv, ResolveInv, RailDownInv, RailUpInv, Zenon
<1> QED
  BY <1>3, <1>4, <1>5, Zenon DEF LiveOrder

(* Operations on stored orders. *)
LEMMA OperationSteps ==
  ASSUME FundsInv, NEW r \in Requests,
         \/ ReportDisconnect(r) \/ RecoverRail(r)
         \/ \E m \in Milestones :
              \/ handleSettleMilestone(r, m) \/ handleResolveDispute(r, m)
              \/ \E cents \in UsageAmounts : handleRecordUsage(r, m, cents)
              \/ \E cents \in Additions :
                   handleTopUpMilestone(r, m, cents) \/ handleCreateDispute(r, m, cents)
  PROVE  FundsInv'
<1> DEFINE o == orders[r].order
<1>1. r \in Stored => LiveOrder(o)
  BY DEF FundsInv, SoundBook, SoundSlot, Stored
<1>2. UsageAmounts \subseteq Int /\ Additions \subseteq Int
  BY FundingAssumption, Zenon
<1>3. 1 \in Milestones
  BY NAssumption DEF Milestones
<1>4. CASE ReportDisconnect(r)
  <2>1. r \in Stored /\ SaveOrder(r, RailDown(o))
    BY <1>4, Zenon DEF ReportDisconnect
  <2> QED
    BY <1>1, <1>3, <2>1, StaysLive, SaveStep, Zenon
<1>5. CASE RecoverRail(r)
  <2>1. r \in Stored /\ SaveOrder(r, RailUp(o))
    BY <1>5, Zenon DEF RecoverRail
  <2> QED
    BY <1>1, <1>3, <2>1, StaysLive, SaveStep, Zenon
<1>6. ASSUME NEW m \in Milestones, handleSettleMilestone(r, m)
      PROVE  FundsInv'
  <2>1. r \in Stored /\ Payable(o.ms[m]) /\ SaveOrder(r, Settle(o, m))
    BY <1>6, Zenon DEF handleSettleMilestone, MilestoneOf
  <2> QED
    BY <1>1, <2>1, StaysLive, SaveStep, Zenon
<1>7. ASSUME NEW m \in Milestones, handleResolveDispute(r, m)
      PROVE  FundsInv'
  <2>1. r \in Stored /\ CanResolve(o.ms[m]) /\ SaveOrder(r, Resolve(o, m))
    BY <1>7, Zenon DEF handleResolveDispute, MilestoneOf
  <2> QED
    BY <1>1, <2>1, StaysLive, SaveStep, Zenon
<1>8. ASSUME NEW m \in Milestones, NEW cents \in UsageAmounts, handleRecordUsage(r, m, cents)
      PROVE  FundsInv'
  <2>1. r \in Stored /\ cents > 0 /\ AcceptsUsage(o.ms[m]) /\ SaveOrder(r, RecordUsage(o, m, cents))
    BY <1>8, Zenon DEF handleRecordUsage, MilestoneOf
  <2>2. cents \in Int
    BY <1>2
  <2> QED
    BY <1>1, <2>1, <2>2, StaysLive, SaveStep, Zenon
<1>9. ASSUME NEW m \in Milestones, NEW cents \in Additions, handleTopUpMilestone(r, m, cents)
      PROVE  FundsInv'
  <2>1. r \in Stored /\ cents > 0 /\ SaveOrder(r, TopUp(o, m, cents))
    BY <1>9, Zenon DEF handleTopUpMilestone
  <2>2. cents \in Int
    BY <1>2
  <2> QED
    BY <1>1, <2>1, <2>2, StaysLive, SaveStep, Zenon
<1>10. ASSUME NEW m \in Milestones, NEW cents \in Additions, handleCreateDispute(r, m, cents)
       PROVE  FundsInv'
  <2>1. r \in Stored /\ o.ms[m].state = "settled" /\ SaveOrder(r, Freeze(o, m))
    BY <1>10, Zenon DEF handleCreateDispute, MilestoneOf, CanDispute
  <2> QED
    BY <1>1, <2>1, StaysLive, SaveStep, Zenon
<1> QED
  BY <1>4, <1>5, <1>6, <1>7, <1>8, <1>9, <1>10, Zenon

(* The invariant holds before the first request. *)
LEMMA FundsStart == FundsInit => FundsInv
<1> SUFFICES ASSUME FundsInit PROVE FundsInv
  OBVIOUS
<1>1. /\ records \in [Buyers -> Seq(TopUpRecords)]
      /\ limit \in [Buyers -> [set : BOOLEAN, cents : Int, used : Int, available : Int]]
      /\ raised \in [Requests -> Nat]
  BY DEF FundsInit, NoLimit
<1>2. None \in Slot /\ ~ None.stored /\ Fresh \in Progress /\ Fresh.pc = "idle"
  BY DEF Slot, None, Fresh, Progress
<1>3. SoundSlot(None)
  BY <1>2, Zenon DEF SoundSlot
<1>4. \A r \in Requests : orders[r] = None /\ req[r] = Fresh
  BY DEF FundsInit
<1>5. orders \in [Requests -> Slot] /\ req \in [Requests -> Progress]
  BY <1>2 DEF FundsInit
<1>6. SoundBook(orders)
  BY <1>3, <1>4, <1>5, Zenon DEF SoundBook
<1>7. \A r \in Requests : PaidInFirst(req[r], records) /\ RoomLeft(req[r], orders, raised[r])
  BY <1>2, <1>4 DEF PaidInFirst, RoomLeft
<1> QED
  BY <1>1, <1>4, <1>5, <1>6, <1>7, Zenon DEF FundsInv

(* Every step keeps it. *)
LEMMA FundsSteps == FundsInv /\ [FundsNext]_fundsVars => FundsInv'
<1> SUFFICES ASSUME FundsInv, [FundsNext]_fundsVars PROVE FundsInv'
  OBVIOUS
<1>1. CASE UNCHANGED fundsVars
  <2>1. records' = records /\ limit' = limit /\ orders' = orders /\ req' = req /\ raised' = raised
    BY <1>1 DEF fundsVars
  <2> QED
    BY <2>1, Zenon DEF FundsInv
<1>2. ASSUME NEW r \in Requests,
             \/ \E b \in Buyers, mode \in Modes, terms \in TermSets : handleCreateOrder(r, b, mode, terms)
             \/ FetchCredited(r) \/ FetchFails(r) \/ ensureBuyerPrepaidAvailability(r)
             \/ ReadLimit(r) \/ CheckCreditAvailability(r)
      PROVE  FundsInv'
  BY <1>2, LookingSteps, Zenon
<1> QED
  BY <1>1, <1>2, StoreStep, OperationSteps, CreditTopUpStep, SetCreditLimitStep, Zenon DEF FundsNext

(* So it always holds. *)
LEMMA FundsHold == FundsSpec => []FundsInv
  BY FundsStart, FundsSteps, PTL DEF FundsSpec

(* A request is done by storing its order, in no other way. *)
LEMMA OnlyStoringFinishes ==
  ASSUME FundsInv, [FundsNext]_fundsVars, NEW r \in Requests,
         req[r].pc = "checked", req'[r].pc = "done"
  PROVE  StoreOrder(r)
<1>1. req \in [Requests -> Progress]
  BY Zenon DEF FundsInv
<1>2. ASSUME req' = req PROVE FALSE
  BY <1>2
<1>3. ASSUME NEW s \in Requests, NEW next, Step(s, next), next.pc # "done" PROVE FALSE
  BY <1>1, <1>3 DEF Step
<1>4. ASSUME NEW s \in Requests, StoreOrder(s) PROVE s = r
  BY <1>1, <1>4 DEF StoreOrder, Step
<1>5. Fresh.pc # "done" /\ \A s : Checked(s).pc # "done"
  BY Zenon DEF Fresh, Checked
<1>6. ASSUME NEW s \in Requests,
             \/ \E b \in Buyers, mode \in Modes, terms \in TermSets : handleCreateOrder(s, b, mode, terms)
             \/ FetchCredited(s) \/ FetchFails(s) \/ ensureBuyerPrepaidAvailability(s)
             \/ ReadLimit(s) \/ CheckCreditAvailability(s)
      PROVE  FALSE
  <2>1. ASSUME NEW b, NEW mode, NEW terms, handleCreateOrder(s, b, mode, terms) PROVE FALSE
    <3>1. Begun(b, mode, terms).pc # "done"
      BY Zenon DEF Begun
    <3> QED
      BY <1>3, <2>1, <3>1, Zenon DEF handleCreateOrder
  <2>2. CASE FetchCredited(s)
    <3> DEFINE next == [pc |-> "fetched", buyer |-> req[s].buyer, mode |-> "prepaid",
                        terms |-> req[s].terms, has |-> Credited(records[req[s].buyer])]
    <3>1. next.pc # "done"
      OBVIOUS
    <3> QED
      BY <1>3, <2>2, <3>1, Zenon DEF FetchCredited
  <2>3. CASE FetchFails(s)
    BY <1>3, <1>5, <2>3, Zenon DEF FetchFails
  <2>4. CASE ensureBuyerPrepaidAvailability(s)
    BY <1>3, <1>5, <2>4, Zenon DEF ensureBuyerPrepaidAvailability
  <2>5. CASE CheckCreditAvailability(s)
    BY <1>3, <1>5, <2>5, Zenon DEF CheckCreditAvailability
  <2>6. CASE ReadLimit(s)
    <3> DEFINE l == limit[req[s].buyer]
               next == [pc |-> IF l.set THEN "fetched" ELSE "unlimited", buyer |-> req[s].buyer,
                        mode |-> "credit", terms |-> req[s].terms, has |-> l.cents]
    <3>1. next.pc # "done"
      BY Zenon
    <3> QED
      BY <1>3, <2>6, <3>1, Zenon DEF ReadLimit
  <2> QED
    BY <1>6, <2>1, <2>2, <2>3, <2>4, <2>5, <2>6, Zenon
<1>7. ASSUME UNCHANGED fundsVars PROVE FALSE
  BY <1>2, <1>7 DEF fundsVars
<1>8. ASSUME NEW b, NEW cents, CreditTopUp(b, cents) \/ SetCreditLimit(b, cents) PROVE FALSE
  BY <1>2, <1>8, Zenon DEF CreditTopUp, SetCreditLimit
<1>9. ASSUME NEW s, NEW o, SaveOrder(s, o) PROVE FALSE
  BY <1>2, <1>9 DEF SaveOrder
<1>10. ASSUME NEW s, ReportDisconnect(s) \/ RecoverRail(s) PROVE FALSE
  BY <1>9, <1>10, Zenon DEF ReportDisconnect, RecoverRail
<1>11. ASSUME NEW s, NEW m, NEW cents,
              \/ handleSettleMilestone(s, m) \/ handleResolveDispute(s, m)
              \/ handleRecordUsage(s, m, cents)
              \/ handleTopUpMilestone(s, m, cents) \/ handleCreateDispute(s, m, cents)
       PROVE  FALSE
  BY <1>9, <1>11, Zenon DEF handleSettleMilestone, handleResolveDispute, handleRecordUsage,
                            handleTopUpMilestone, handleCreateDispute
<1> QED
  BY <1>4, <1>6, <1>7, <1>8, <1>10, <1>11, Zenon DEF FundsNext

(* What the stored order adds fits into what its request holds. *)
LEMMA StoredFits ==
  ASSUME FundsInv, [FundsNext]_fundsVars, NEW r \in Requests,
         req[r].pc = "checked", req'[r].pc = "done"
  PROVE  /\ req[r].buyer \in Buyers /\ req[r].has \in Int /\ raised[r] \in Nat
         /\ PromisedIn(orders', req[r].buyer, req[r].mode) \in Int
         /\ PromisedIn(orders', req[r].buyer, req[r].mode) <= req[r].has + raised[r]
<1> DEFINE q == req[r]
<1>1. StoreOrder(r)
  BY OnlyStoringFinishes, Zenon
<1>2. /\ q.buyer \in Buyers /\ q.mode \in Modes /\ q \in Progress /\ SoundBook(orders')
      /\ PromisedIn(orders', q.buyer, q.mode)
           = PromisedIn(orders, q.buyer, q.mode) + totalMilestoneBudgetCents(q.terms)
  BY <1>1, Stores, Zenon
<1>3. RoomLeft(q, orders, raised[r]) /\ raised[r] \in Nat
  BY Zenon DEF FundsInv
<1>4. q.pc \in Held
  BY Zenon DEF Held
<1>5. q.has \in Int
  BY <1>2, <1>4, ProgressParts, Zenon
<1>6. PromisedIn(orders', q.buyer, q.mode) \in Nat
  BY <1>2, OwedIsNat, Zenon
<1>7. PromisedIn(orders', q.buyer, q.mode) <= q.has + raised[r]
  BY <1>2, <1>3, Zenon DEF RoomLeft
<1>8. PromisedIn(orders', q.buyer, q.mode) \in Int
  BY ONLY <1>6
<1> QED
  BY <1>2, <1>3, <1>5, <1>7, <1>8, Zenon

(* For any buyers, requests and milestones: the prepaid exposure ops sees  *)
(* is held back from the buyers (GetFiberExposure,                         *)
(* buyerCommittedPrepaidCents).                                            *)
THEOREM ExposureCovered == FundsSpec => []ExposureIsHeldBack
<1>1. FundsInv => ExposureIsHeldBack
  BY HeldBack, Zenon DEF FundsInv
<1> QED
  BY <1>1, FundsHold, PTL

(* For any buyers, requests and milestones: a prepaid order that passed    *)
(* ensureBuyerPrepaidAvailability promises no more than was paid in, but   *)
(* for what was promised since the check.                                  *)
THEOREM PrepaidCovered == FundsSpec => PrepaidIsCovered
<1>1. ASSUME FundsInv, [FundsNext]_fundsVars, NEW r \in Requests,
             req[r].pc = "checked", req[r].mode = "prepaid", req'[r].pc = "done",
             NEW b \in {req[r].buyer}
      PROVE  Promised(b, "prepaid")' <= PaidIn(b) + raised[r]
  <2> DEFINE new == PromisedIn(orders', b, "prepaid")
  <2>1. b = req[r].buyer
    OBVIOUS
  <2>2. /\ b \in Buyers /\ req[r].has \in Int /\ raised[r] \in Nat
        /\ new \in Int /\ new <= req[r].has + raised[r]
    BY <1>1, <2>1, StoredFits, Zenon
  <2>3. PaidInFirst(req[r], records)
    BY <1>1, Zenon DEF FundsInv
  <2>4. req[r].pc \in {"fetched", "checked"}
    BY <1>1
  <2>5. req[r].has <= PaidOf(records[b])
    BY <1>1, <2>1, <2>3, <2>4, Zenon DEF PaidInFirst
  <2>6. PaidOf(records[b]) \in Int
    <3>1. records[b] \in Seq(TopUpRecords)
      BY <1>1, <2>2, Zenon DEF FundsInv
    <3> QED
      BY <3>1, PaidSums, Zenon
  <2>7. Promised(b, "prepaid")' = new /\ PaidIn(b) = PaidOf(records[b])
    BY PromisedNow, Zenon
  <2> HIDE DEF new
  <2> QED
    BY ONLY <2>2, <2>5, <2>6, <2>7
<1>2. FundsInv /\ [FundsNext]_fundsVars =>
        [\A r \in Requests :
           req[r].pc = "checked" /\ req[r].mode = "prepaid" /\ req'[r].pc = "done" =>
             \A b \in {req[r].buyer} :
                Promised(b, "prepaid")' <= PaidIn(b) + raised[r]]_fundsVars
  BY <1>1, Zenon
<1> QED
  BY <1>2, FundsHold, PTL DEF FundsSpec, PrepaidIsCovered

(* For any buyers, requests and milestones: a credit order that passed     *)
(* CheckCreditAvailability stays within the limit that was read, but for   *)
(* what was promised since the check.                                      *)
THEOREM CreditCovered == FundsSpec => CreditWithinLimit
<1>1. ASSUME FundsInv, [FundsNext]_fundsVars, NEW r \in Requests,
             req[r].pc = "checked", req[r].mode = "credit", req'[r].pc = "done",
             NEW b \in {req[r].buyer}
      PROVE  Promised(b, "credit")' <= req[r].has + raised[r]
  <2>1. b = req[r].buyer
    OBVIOUS
  <2>2. PromisedIn(orders', b, "credit") <= req[r].has + raised[r]
    BY <1>1, <2>1, StoredFits, Zenon
  <2> QED
    BY <2>2, PromisedNow, Zenon
<1>2. FundsInv /\ [FundsNext]_fundsVars =>
        [\A r \in Requests :
           req[r].pc = "checked" /\ req[r].mode = "credit" /\ req'[r].pc = "done" =>
             \A b \in {req[r].buyer} :
                Promised(b, "credit")' <= req[r].has + raised[r]]_fundsVars
  BY <1>1, Zenon
<1> QED
  BY <1>2, FundsHold, PTL DEF FundsSpec, CreditWithinLimit
=============================================================================
