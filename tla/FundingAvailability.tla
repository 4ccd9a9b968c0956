------------------------ MODULE FundingAvailability ------------------------
(***************************************************************************)
(* Whether a buyer can pay for a new order: the prepaid check of the       *)
(* gateway (ensureBuyerPrepaidAvailability) and the credit check of the    *)
(* platform (CheckCreditAvailability), both of which read, compute and     *)
(* only later create the order, without a lock across the three.           *)
(*                                                                         *)
(* Any number of create and award requests overlap.  While one is between  *)
(* its check and its order, other requests create orders, top milestones   *)
(* up, settle, dispute and resume work, ops changes the credit limit, and  *)
(* the settlement service credits deposits.  raised[r] records by how much *)
(* those steps raised what the buyer of r has promised since r looked.     *)
(*                                                                         *)
(* An order is its Workflow record together with its buyer and its funding *)
(* mode.  Amounts are cents; the settlement service sends a credited       *)
(* amount as decimal units, which the gateway reads back through a float.  *)
(***************************************************************************)
EXTENDS Workflow, Sequences, FiniteSets, FiniteSetsExt, Functions

CONSTANTS Buyers,        \* buyer organisations
          Requests,      \* requests to create or to award
          TermSets,      \* the milestone terms a request may ask for
          Limits,        \* the credit limits ops may set
          TopUpRecords,  \* amounts of settled buyer top-up records, in cents
          UsageAmounts,  \* the usage charges reported, in cents
          Additions,     \* what a milestone may be topped up with, in cents
          MaxCredits,    \* bound: top-up records per run
          MaxOps         \* bound: operations on existing orders and the limit

ASSUME FundingAssumption ==
  /\ IsFiniteSet(Buyers) /\ IsFiniteSet(Requests)
  /\ TermSets \subseteq [Milestones -> Terms]
  /\ TopUpRecords \subseteq 0 .. 100
  /\ Limits \subseteq Nat /\ UsageAmounts \subseteq Int /\ Additions \subseteq Int

VARIABLES records,   \* per buyer: the amounts of the settled top-ups, oldest first
          limit,     \* per buyer: NoLimit, or what SetCreditLimit stored
          orders,    \* request -> the order it stored, or None
          req,       \* request -> its progress
          raised,    \* request -> growth of promises since it listed the orders
          ops        \* operations taken so far

fundsVars == <<records, limit, orders, req, raised, ops>>

Modes == {"prepaid", "credit"}
NoLimit == [set |-> FALSE, cents |-> 0, used |-> 0, available |-> 0]
None == [stored |-> FALSE]
Fresh == [pc |-> "idle"]

Placed(b, mode, o) == [stored |-> TRUE, buyer |-> b, mode |-> mode, order |-> o]
Stored == {r \in Requests : orders[r].stored}
OrdersOf(b, mode) == {r \in Stored : orders[r].buyer = b /\ orders[r].mode = mode}

-----------------------------------------------------------------------------
(* strconv.ParseFloat times one hundred, truncated: of the amounts up to   *)
(* one unit, three have no exact binary fraction and lose their last cent. *)
LosesCent == {29, 57, 58}
parseAmountToCents(cents) == IF cents \in LosesCent THEN cents - 1 ELSE cents

Credited(recs) ==
  SumFunctionOnSet([i \in DOMAIN recs |-> parseAmountToCents(recs[i])], DOMAIN recs)

totalMilestoneBudgetCents(terms) ==
  SumFunctionOnSet([m \in Milestones |-> terms[m].budget], Milestones)

\* Fault: orders waiting for the payment rail do not count.
CommittedUnlessRailDown(o) == o.status \in {"running", "awaiting_budget"}

IsPrepaidCommitted(o) ==
  o.status \in {"running", "awaiting_budget", "awaiting_payment_rail"}

(* What is left of the budgets of the milestones that are not settled. *)
Unsettled(ms) ==
  IF ms.state # "settled" /\ ms.budget > ms.settled THEN ms.budget - ms.settled ELSE 0

UnsettledOf(o) == SumFunctionOnSet([m \in Milestones |-> Unsettled(o.ms[m])], Milestones)

buyerCommittedPrepaidCents(b) ==
  SumFunctionOnSet([r \in Stored |-> UnsettledOf(orders[r].order)],
                   {r \in OrdersOf(b, "prepaid") : IsPrepaidCommitted(orders[r].order)})

(* The credit in use: whole budgets, also of settled milestones, of the    *)
(* orders that are running or wait for budget.                             *)
CreditActive(o) == o.status \in {"running", "awaiting_budget"}

BudgetOf(o) == SumFunctionOnSet([m \in Milestones |-> o.ms[m].budget], Milestones)

usedCents(b) ==
  SumFunctionOnSet([r \in Stored |-> BudgetOf(orders[r].order)],
                   {r \in OrdersOf(b, "credit") : CreditActive(orders[r].order)})

\* Fault: settled milestones are still at risk.
StartedMilestone(ms) == ms.state # "pending"

(* GetFiberExposure: the milestones that are being worked on. *)
Exposed(ms) == ms.state \in {"running", "paused"}

AtRisk(ms) == IF Exposed(ms) THEN ms.budget - ms.settled ELSE 0
AtRiskOf(o) == SumFunctionOnSet([m \in Milestones |-> AtRisk(o.ms[m])], Milestones)

Exposure(mode) ==
  SumFunctionOnSet([r \in Stored |-> AtRiskOf(orders[r].order)],
                   {r \in Stored : orders[r].mode = mode /\ CreditActive(orders[r].order)})

-----------------------------------------------------------------------------
(* What a buyer has promised, counted without the code: all that open      *)
(* prepaid orders may still cost, or the budgets of running credit orders. *)
MayCost(ms) == IF ms.state = "settled" THEN 0 ELSE Max({0, ms.budget - ms.settled})
Cost(o, mode) ==
  SumFunctionOnSet([m \in Milestones |-> IF mode = "prepaid" THEN MayCost(o.ms[m]) ELSE o.ms[m].budget],
                   Milestones)
Open(o, mode) ==
  o.status \notin (IF mode = "prepaid" THEN {"completed"} ELSE {"completed", "awaiting_payment_rail"})

Promised(b, mode) ==
  SumFunctionOnSet([r \in Stored |-> Cost(orders[r].order, mode)],
                   {r \in OrdersOf(b, mode) : Open(orders[r].order, mode)})

(* The history of growth: every step that stores an order charges its      *)
(* growth to the requests whose view is older.                             *)
Growth(b, mode) == Max({0, Promised(b, mode)' - Promised(b, mode)})

RecordGrowth ==
  raised' = [r \in Requests |->
    IF req'[r].pc = "checked"
      THEN IF req[r].pc = "checked"
             THEN raised[r] + Growth(req[r].buyer, req[r].mode) ELSE 0
      ELSE 0]

Step(r, next) == req' = [req EXCEPT ![r] = next]

FundsInit ==
  /\ records = [b \in Buyers |-> <<>>]
  /\ limit = [b \in Buyers |-> NoLimit]
  /\ orders = [r \in Requests |-> None]
  /\ req = [r \in Requests |-> Fresh]
  /\ raised = [r \in Requests |-> 0]
  /\ ops = 0

-----------------------------------------------------------------------------
(* Requests.  A create and an award differ only in where the terms come    *)
(* from: the payload, or the bid that findBidBudgetCents looks up.         *)
Begun(b, mode, terms) ==
  [pc |-> "begun", buyer |-> b, mode |-> mode, terms |-> terms]

(* handleCreateOrder up to the funding checks; a prepaid request for no    *)
(* money at all is not checked.                                            *)
handleCreateOrder(r, b, mode, terms) ==
  /\ req[r].pc = "idle"
  /\ Step(r, Begun(b, mode, terms))
  /\ UNCHANGED <<records, limit, orders, ops>>
  /\ RecordGrowth

(* ensureBuyerPrepaidAvailability, first half: the settled top-ups are     *)
(* fetched from the settlement service.                                    *)
FetchCredited(r) ==
  /\ req[r].pc = "begun" /\ req[r].mode = "prepaid"
  /\ totalMilestoneBudgetCents(req[r].terms) > 0
  /\ Step(r, [pc |-> "fetched", buyer |-> req[r].buyer, mode |-> "prepaid",
              terms |-> req[r].terms, has |-> Credited(records[req[r].buyer])])
  /\ UNCHANGED <<records, limit, orders, ops>>
  /\ RecordGrowth

(* The settlement service does not answer: the request is refused. *)
FetchFails(r) ==
  /\ req[r].pc = "begun" /\ req[r].mode = "prepaid"
  /\ totalMilestoneBudgetCents(req[r].terms) > 0
  /\ Step(r, Fresh)
  /\ UNCHANGED <<records, limit, orders, ops>>
  /\ RecordGrowth

Checked(r) ==
  [pc |-> "checked", buyer |-> req[r].buyer, mode |-> req[r].mode,
   terms |-> req[r].terms, has |-> req[r].has]

(* ensureBuyerPrepaidAvailability, second half: the open prepaid orders    *)
(* are listed and what they may still cost is set against the credit.      *)
ensureBuyerPrepaidAvailability(r) ==
  /\ req[r].pc = "fetched" /\ req[r].mode = "prepaid"
  /\ Step(r, IF req[r].has - buyerCommittedPrepaidCents(req[r].buyer)
                  < totalMilestoneBudgetCents(req[r].terms)
               THEN Fresh ELSE Checked(r))
  /\ UNCHANGED <<records, limit, orders, ops>>
  /\ RecordGrowth

(* CheckCreditAvailability reads the limit under the lock, and lists the   *)
(* orders after letting go of it; without a limit there is no check.       *)
ReadLimit(r) ==
  /\ req[r].pc = "begun" /\ req[r].mode = "credit"
  /\ LET l == limit[req[r].buyer]
     IN  Step(r, [pc |-> IF l.set THEN "fetched" ELSE "unlimited",
                  buyer |-> req[r].buyer, mode |-> "credit",
                  terms |-> req[r].terms, has |-> l.cents])
  /\ UNCHANGED <<records, limit, orders, ops>>
  /\ RecordGrowth

\* Fault: the check uses the figure cached when the limit was set.
CheckCachedAvailability(r) ==
  /\ req[r].pc = "fetched" /\ req[r].mode = "credit"
  /\ Step(r, IF limit[req[r].buyer].available
                  < totalMilestoneBudgetCents(req[r].terms)
               THEN Fresh ELSE Checked(r))
  /\ UNCHANGED <<records, limit, orders, ops>>
  /\ RecordGrowth

CheckCreditAvailability(r) ==
  /\ req[r].pc = "fetched" /\ req[r].mode = "credit"
  /\ Step(r, IF req[r].has - usedCents(req[r].buyer)
                  < totalMilestoneBudgetCents(req[r].terms)
               THEN Fresh ELSE Checked(r))
  /\ UNCHANGED <<records, limit, orders, ops>>
  /\ RecordGrowth

(* App.CreateOrder stores the order; should the event not be published the *)
(* caller sees an error and the order stays.                               *)
Unchecked(r) ==
  \/ req[r].pc = "unlimited"
  \/ /\ req[r].pc = "begun" /\ req[r].mode = "prepaid"
     /\ totalMilestoneBudgetCents(req[r].terms) <= 0

StoreOrder(r) ==
  /\ req[r].pc = "checked" \/ Unchecked(r)
  /\ orders' = [orders EXCEPT ![r] =
                  Placed(req[r].buyer, req[r].mode, CreateOrder(req[r].terms))]
  /\ Step(r, [pc |-> "done"])
  /\ UNCHANGED <<records, limit, ops>>
  /\ RecordGrowth

-----------------------------------------------------------------------------
(* Everything else that moves money promised by a buyer.                   *)

(* The settlement service credits a deposit (saveBuyerTopUpFunding). *)
CreditTopUp(b, cents) ==
  /\ Len(records[b]) < MaxCredits
  /\ records' = [records EXCEPT ![b] = Append(@, cents)]
  /\ UNCHANGED <<limit, orders, req, ops>>
  /\ RecordGrowth

SetCreditLimit(b, cents) ==
  /\ ops < MaxOps /\ ops' = ops + 1
  /\ limit' = [limit EXCEPT ![b] =
       [set |-> TRUE, cents |-> cents, used |-> usedCents(b),
        available |-> cents - usedCents(b)]]
  /\ UNCHANGED <<records, orders, req>>
  /\ RecordGrowth

SaveOrder(r, o) ==
  /\ ops < MaxOps /\ ops' = ops + 1
  /\ orders' = [orders EXCEPT ![r].order = o]
  /\ UNCHANGED <<records, limit, req>>
  /\ RecordGrowth

MilestoneOf(r, m) == orders[r].order.ms[m]

handleSettleMilestone(r, m) ==
  /\ r \in Stored /\ Payable(MilestoneOf(r, m))
  /\ SaveOrder(r, Settle(orders[r].order, m))

handleRecordUsage(r, m, cents) ==
  /\ r \in Stored /\ cents > 0 /\ AcceptsUsage(MilestoneOf(r, m))
  /\ SaveOrder(r, RecordUsage(orders[r].order, m, cents))

(* No funding check guards a top-up. *)
handleTopUpMilestone(r, m, cents) ==
  /\ r \in Stored /\ cents > 0
  /\ SaveOrder(r, TopUp(orders[r].order, m, cents))

handleCreateDispute(r, m, refund) ==
  /\ r \in Stored /\ CanDispute(MilestoneOf(r, m), refund)
  /\ SaveOrder(r, Freeze(orders[r].order, m))

handleResolveDispute(r, m) ==
  /\ r \in Stored /\ CanResolve(MilestoneOf(r, m))
  /\ SaveOrder(r, Resolve(orders[r].order, m))

ReportDisconnect(r) ==
  /\ r \in Stored /\ orders[r].order.status # "awaiting_payment_rail"
  /\ SaveOrder(r, RailDown(orders[r].order))

RecoverRail(r) ==
  /\ r \in Stored /\ orders[r].order.status = "awaiting_payment_rail"
  /\ SaveOrder(r, RailUp(orders[r].order))

-----------------------------------------------------------------------------
FundsNext ==
  \/ \E r \in Requests :
       \/ \E b \in Buyers, mode \in Modes, terms \in TermSets :
            handleCreateOrder(r, b, mode, terms)
       \/ FetchCredited(r) \/ FetchFails(r) \/ ensureBuyerPrepaidAvailability(r)
       \/ ReadLimit(r) \/ CheckCreditAvailability(r) \/ StoreOrder(r)
       \/ ReportDisconnect(r) \/ RecoverRail(r)
       \/ \E m \in Milestones :
            \/ handleSettleMilestone(r, m) \/ handleResolveDispute(r, m)
            \/ \E cents \in UsageAmounts : handleRecordUsage(r, m, cents)
            \/ \E cents \in Additions :
                 handleTopUpMilestone(r, m, cents) \/ handleCreateDispute(r, m, cents)
  \/ \E b \in Buyers :
       \/ \E cents \in TopUpRecords : CreditTopUp(b, cents)
       \/ \E cents \in Limits : SetCreditLimit(b, cents)

FundsSpec == FundsInit /\ [][FundsNext]_fundsVars

-----------------------------------------------------------------------------
(* What the settlement service knows the buyer paid in, to the cent. *)
PaidIn(b) == SumFunctionOnSet(records[b], DOMAIN records[b])

(* A prepaid order that passed the check never promises more than the      *)
(* buyer paid in, except for what other requests promised in the meantime: *)
(* without a race the check of handleCreateOrder and handleAwardRFQ is     *)
(* sound, whichever states the buyer's other orders are in.                *)
PrepaidIsCovered ==
  [][\A r \in Requests :
       req[r].pc = "checked" /\ req[r].mode = "prepaid" /\ req'[r].pc = "done" =>
         \A b \in {req[r].buyer} :
            Promised(b, "prepaid")' <= PaidIn(b) + raised[r]]_fundsVars

(* A credit order that passed CheckCreditAvailability stays within the     *)
(* limit the check read, except for what other requests promised since the *)
(* check listed the orders: the figures cached with the limit never count. *)
CreditWithinLimit ==
  [][\A r \in Requests :
       req[r].pc = "checked" /\ req[r].mode = "credit" /\ req'[r].pc = "done" =>
         \A b \in {req[r].buyer} :
            Promised(b, "credit")' <= req[r].has + raised[r]]_fundsVars

(* The exposure ops sees for prepaid work (GetFiberExposure) never exceeds *)
(* what the gateway holds back from the buyers for it: the two come from   *)
(* different packages, over different sets of states.                      *)
ExposureIsHeldBack ==
  Exposure("prepaid") <= SumFunctionOnSet([b \in Buyers |-> buyerCommittedPrepaidCents(b)], Buyers)
=============================================================================
