------------------------------ MODULE Workflow ------------------------------
(***************************************************************************)
(* The order record of src/internal/core/workflow.go and the functions     *)
(* that rewrite it: the methods of core.Order, and the parts of            *)
(* platform.App that edit a loaded order before saving it.  Everything     *)
(* here is a pure operator from an order to an order; the modules that     *)
(* EXTEND this one decide when the handlers load, rewrite and save.        *)
(*                                                                         *)
(* A milestone keeps the sum of its usage charges instead of the list, and *)
(* its AnomalyFlags as the set of flag kinds.  Milestones are named by     *)
(* their position in the order.                                            *)
(***************************************************************************)
EXTENDS Integers

CONSTANT N                                  \* milestones in the order

ASSUME NAssumption == N \in Nat \ {0}       \* CreateOrder rejects an empty list

Milestones == 1 .. N

OrderStatuses == {"draft", "running", "awaiting_budget",
                  "awaiting_payment_rail", "completed", "failed"}
MilestoneStates == {"pending", "running", "paused", "settled"}
DisputeStatuses == {"none", "open", "frozen", "resolved"}

Disconnected == "provider_settlement_disconnected"
Flags == {Disconnected, "settlement_deviation", "zero_usage_settlement"}

Terms == [base : Nat, budget : Nat]         \* the priced terms of a milestone

Milestone == [state : MilestoneStates, base : Nat, budget : Nat, settled : Nat,
              usage : Nat, dispute : DisputeStatuses, flags : SUBSET Flags]

Order == [status : OrderStatuses, ms : [Milestones -> Milestone]]

-----------------------------------------------------------------------------
(* A new order: the first milestone runs, the others wait. *)
CreateOrder(terms) ==
  [status |-> "running",
   ms |-> [m \in Milestones |->
             [state   |-> IF m = 1 THEN "running" ELSE "pending",
              base    |-> terms[m].base,
              budget  |-> terms[m].budget,
              settled |-> 0,
              usage   |-> 0,
              dispute |-> "none",
              flags   |-> {}]]]

CurrentSpendCents(ms) == ms.base + ms.usage

\* Fault: a milestone still running counts as finished.
NoMilestonePending(ms) == \A m \in Milestones : ms[m].state # "pending"

isLastMilestoneSettled(ms) == \A m \in Milestones : ms[m].state = "settled"

\* Fault: a milestone that is already settled can be settled again.
PayableOnceStarted(ms) == ms.state # "pending"

(* The two operations that need a milestone in progress. *)
Payable(ms) == ms.state \in {"running", "paused"}
AcceptsUsage(ms) == ms.state \in {"running", "paused"}

(* core.Order.SettleMilestone: the base price is paid out, whatever was used. *)
PaidOut(ms) == [ms EXCEPT !.state = "settled", !.settled = ms.base]

SettleCore(o, m) ==
  LET ms == [o.ms EXCEPT ![m] = PaidOut(@)]
  IN  [status |-> IF isLastMilestoneSettled(ms) THEN "completed" ELSE o.status,
       ms     |-> ms]

(* reconciliation.Reconcile at the default threshold of one tenth: the set *)
(* of anomalies of a milestone.  The ratio |settled - cumulative| / base   *)
(* exceeds 1/10, with base the cumulative spend, or the settled amount     *)
(* when nothing was spent.                                                 *)
Reconcile(ms) ==
  LET cumulative == CurrentSpendCents(ms)
      gap        == IF ms.settled > cumulative THEN ms.settled - cumulative
                                               ELSE cumulative - ms.settled
      base       == IF cumulative = 0 THEN ms.settled ELSE cumulative
  IN  (IF 10 * gap > base THEN {"settlement_deviation"} ELSE {})
        \cup (IF cumulative = 0 /\ ms.settled > 0 THEN {"zero_usage_settlement"} ELSE {})

(* Anomalies REPLACE the flags the milestone had. *)
FlagAnomalies(ms) ==
  [ms EXCEPT !.flags = IF Reconcile(ms) = {} THEN @ ELSE Reconcile(ms)]

(* The first pending milestone after the settled one starts to run. *)
IsNextPending(ms, m, k) ==
  /\ k > m
  /\ ms[k].state = "pending"
  /\ \A j \in Milestones : m < j /\ j < k => ms[j].state # "pending"

Started(ms) == [ms EXCEPT !.state = "running"]

\* Fault: the next milestone is never started.
StayOnMilestone(ms, m) == ms

advanceNextMilestone(ms, m) ==
  [k \in Milestones |-> IF IsNextPending(ms, m, k) THEN Started(ms[k]) ELSE ms[k]]

(* What App.SettleMilestone saves. *)
Settle(o, m) ==
  LET settled == SettleCore(o, m)
  IN  [status |-> settled.status,
       ms     |-> advanceNextMilestone([settled.ms EXCEPT ![m] = FlagAnomalies(@)], m)]

(* core.Order.RecordUsageCharge: the charge is kept even when it overruns. *)
Charged(ms, amount) == [ms EXCEPT !.usage = @ + amount]
Overrun(ms) == CurrentSpendCents(ms) > ms.budget
Paused(ms) == [ms EXCEPT !.state = "paused"]

RecordUsage(o, m, amount) ==
  LET charged == Charged(o.ms[m], amount)
  IN  IF Overrun(charged)
        THEN [status |-> "awaiting_budget", ms |-> [o.ms EXCEPT ![m] = Paused(charged)]]
        ELSE [status |-> o.status,          ms |-> [o.ms EXCEPT ![m] = charged]]

\* Fault: the refund is not compared with the settled amount.
CanDisputeAnyAmount(ms, refund) == ms.state = "settled" /\ refund > 0

CanDispute(ms, refund) ==
  /\ ms.state = "settled"
  /\ refund > 0
  /\ refund <= ms.settled

Frozen(ms) == [ms EXCEPT !.dispute = "frozen", !.state = "paused"]
Freeze(o, m) == [status |-> o.status, ms |-> [o.ms EXCEPT ![m] = Frozen(@)]]

CanResolve(ms) == ms.dispute \in {"frozen", "open"}

Resolved(ms) == [ms EXCEPT !.dispute = "resolved"]
Resolve(o, m) == [status |-> o.status, ms |-> [o.ms EXCEPT ![m] = Resolved(@)]]

(* App.TopUpMilestone: any positive amount restarts a paused milestone. *)
Funded(ms, additional) == [ms EXCEPT !.budget = @ + additional]

TopUp(o, m, additional) ==
  LET funded == Funded(o.ms[m], additional)
  IN  IF o.ms[m].state = "paused"
        THEN [status |-> "running", ms |-> [o.ms EXCEPT ![m] = Started(funded)]]
        ELSE [status |-> o.status,  ms |-> [o.ms EXCEPT ![m] = funded]]

\* Fault: settled milestones are paused together with the running ones.
SeveredAll(ms) ==
  [ms EXCEPT !.state = IF @ = "pending" THEN @ ELSE "paused",
             !.flags = @ \cup {Disconnected}]

(* ReportProviderSettlementDisconnect, for one order with a reservation:   *)
(* every milestone is flagged, the running ones are paused.                *)
Severed(ms) ==
  [ms EXCEPT !.state = IF @ = "running" THEN "paused" ELSE @,
             !.flags = @ \cup {Disconnected}]

RailDown(o) == [status |-> "awaiting_payment_rail",
                ms     |-> [m \in Milestones |-> Severed(o.ms[m])]]

(* resumeProviderSettlementOrdersLocked, for one order with a reservation. *)
Reconnected(ms) ==
  IF ms.state = "paused" /\ Disconnected \in ms.flags
    THEN [ms EXCEPT !.state = "running", !.flags = @ \ {Disconnected}]
    ELSE ms

RailUp(o) ==
  [status |-> IF o.status = "awaiting_payment_rail" THEN "running" ELSE o.status,
   ms     |-> [m \in Milestones |-> Reconnected(o.ms[m])]]

-----------------------------------------------------------------------------
(* What every saved order satisfies, whichever handlers rewrote it.        *)

(* Work proceeds in order: nothing after a pending milestone has started. *)
PendingIsSuffix(o) ==
  \A m, k \in Milestones : m < k /\ o.ms[m].state = "pending" => o.ms[k].state = "pending"

(* An order with work left has a milestone that can be settled, so it can  *)
(* always move on: advanceNextMilestone never leaves a gap.                *)
NeverStalls(o) ==
  (\E m \in Milestones : o.ms[m].state = "pending")
     => \E m \in Milestones : Payable(o.ms[m])

(* A paused milestone has a reason that some handler can lift: the payment *)
(* rail is down, the budget is exhausted, or it was disputed.              *)
PausedHasCause(o) ==
  \A m \in Milestones : o.ms[m].state = "paused" =>
     \/ Disconnected \in o.ms[m].flags
     \/ Overrun(o.ms[m])
     \/ o.ms[m].dispute # "none"

(* The settled amount is the base price exactly where a settlement has     *)
(* happened, and a dispute only ever follows a settlement.                 *)
SettledIsBase(o) ==
  \A m \in Milestones :
     o.ms[m].state = "settled" \/ o.ms[m].dispute # "none"
        => o.ms[m].settled = o.ms[m].base

(* A completed order has no unfinished work: each milestone is settled or  *)
(* was reopened by a dispute after being settled.                          *)
CompletedIsDone(o) ==
  o.status = "completed" =>
     \A m \in Milestones : o.ms[m].state = "settled" \/ o.ms[m].dispute # "none"

OrderInv(o) ==
  /\ o \in Order
  /\ PendingIsSuffix(o)
  /\ NeverStalls(o)
  /\ PausedHasCause(o)
  /\ SettledIsBase(o)
  /\ CompletedIsDone(o)
=============================================================================
