-------------------------- MODULE OrderConcurrency --------------------------
(***************************************************************************)
(* The handlers of platform.App on one stored order when they overlap.     *)
(* Get and Save copy the order, so a handler rewrites its own copy; what   *)
(* another handler saved in between is overwritten.  OpenDispute,          *)
(* ResolveDispute, TopUpMilestone and the provider-settlement handlers     *)
(* hold App.mu from Get to Save; SettleMilestone and RecordUsageCharge do  *)
(* not.  SettleMilestone takes App.mu afterwards to release the liquidity  *)
(* reservation, and RateOrder reads the order before it takes App.mu.      *)
(*                                                                         *)
(* A handler that fails a check returns without a change, so only calls    *)
(* whose checks pass on the loaded copy are steps.  A call computes the    *)
(* order it will save when it loads; nothing else is read in between.      *)
(***************************************************************************)
EXTENDS Workflow

CONSTANTS
  Requests,         \* handler goroutines
  NoOne,            \* App.mu is free
  InitialTerms,     \* the priced milestone lists an order may be created with
  Amounts,          \* cents a request may carry
  MaxCalls          \* bound: handler calls in a behaviour

ASSUME ConstAssumption ==
  /\ NoOne \notin Requests
  /\ InitialTerms \subseteq [Milestones -> Terms]
  /\ Amounts \subseteq Int
  /\ MaxCalls \in Nat

VARIABLES
  store,            \* the order in the repository
  mu,               \* the holder of App.mu
  pc,               \* where each goroutine is
  call,             \* the call a goroutine works on, with its copy of the order
  records,          \* dispute records per milestone
  reservation,      \* Status of the order's liquidity reservation
  ratings,          \* ratings recorded for the order
  calls,            \* calls started
  paid,             \* history: cents paid out per milestone
  refunded,         \* history: cents refunded per milestone
  topped,           \* history: cents added by top-ups that returned success
  terms,            \* history: the terms the order was created with
  writer,           \* history: the handler that saved last
  stale             \* history: some handler saved over an order it had not read

vars == <<store, mu, pc, call, records, reservation, ratings, calls,
          paid, refunded, topped, terms, writer, stale>>
historyVars == <<paid, refunded, topped, terms, writer, stale>>

Unlocked == {"settle", "usage"}
\* Fault: TopUpMilestone does not take App.mu.
LockedWithoutTopUp == {"dispute", "resolve", "raildown", "railup"}

Locked == {"dispute", "resolve", "topup", "raildown", "railup"}
Ops == {"settle", "usage", "dispute", "resolve", "topup", "raildown", "railup", "rate"}

Zero == [m \in Milestones |-> 0]

Init ==
  /\ terms \in InitialTerms
  /\ store = CreateOrder(terms)
  /\ mu = NoOne
  /\ pc = [r \in Requests |-> "idle"]
  /\ call = [r \in Requests |-> [op |-> "rate", ms |-> 1, amount |-> 0,
                                 seen |-> store, result |-> store]]
  /\ records = Zero
  /\ reservation \in {"none", "active"}
  /\ ratings = 0
  /\ calls = 0
  /\ paid = Zero /\ refunded = Zero /\ topped = Zero
  /\ writer = "create"
  /\ stale = FALSE

-----------------------------------------------------------------------------
(* Get: under App.mu where the handler takes it first. *)
Load(r, op, m, amount, result) ==
  /\ pc[r] = "idle"
  /\ calls < MaxCalls
  /\ op \in Locked => mu = NoOne
  /\ mu' = IF op \in Locked THEN r ELSE mu
  /\ pc' = [pc EXCEPT ![r] = "loaded"]
  /\ call' = [call EXCEPT ![r] = [op |-> op, ms |-> m, amount |-> amount,
                                  seen |-> store, result |-> result]]
  /\ calls' = calls + 1
  /\ UNCHANGED <<store, records, reservation, ratings, historyVars>>

SettleMilestone(r, m) ==
  /\ Payable(store.ms[m])
  /\ Load(r, "settle", m, 0, Settle(store, m))

RecordUsageCharge(r, m, amount) ==
  /\ amount > 0
  /\ AcceptsUsage(store.ms[m])
  /\ Load(r, "usage", m, amount, RecordUsage(store, m, amount))

OpenDispute(r, m, refund) ==
  /\ CanDispute(store.ms[m], refund)
  /\ Load(r, "dispute", m, refund, Freeze(store, m))

ResolveDispute(r, m) ==
  /\ records[m] > 0
  /\ CanResolve(store.ms[m])
  /\ Load(r, "resolve", m, 0, Resolve(store, m))

TopUpMilestone(r, m, additional) ==
  /\ additional > 0
  /\ Load(r, "topup", m, additional, TopUp(store, m, additional))

(* What a reported disconnect, and a successful recovery, do to the order. *)
DisconnectOrder(r) ==
  /\ reservation = "active"
  /\ Load(r, "raildown", 1, 0, RailDown(store))

ResumeOrder(r) ==
  /\ reservation = "active"
  /\ Load(r, "railup", 1, 0, RailUp(store))

(* RateOrder checks the status on an unlocked read. *)
RateOrder(r) ==
  /\ store.status = "completed"
  /\ Load(r, "rate", 1, 0, store)

-----------------------------------------------------------------------------
Credit(f, r, op) ==
  IF call[r].op = op THEN [f EXCEPT ![call[r].ms] = @ + call[r].amount] ELSE f

(* Save replaces the stored order by the handler's copy. *)
Save(r) ==
  /\ pc[r] = "loaded"
  /\ call[r].op # "rate"
  /\ store' = call[r].result
  /\ stale' = (stale \/ store # call[r].seen)
  /\ writer' = call[r].op
  /\ paid' = IF call[r].op = "settle"
               THEN [paid EXCEPT ![call[r].ms] = @ + call[r].result.ms[call[r].ms].base]
               ELSE paid
  /\ refunded' = Credit(refunded, r, "dispute")
  /\ topped' = Credit(topped, r, "topup")
  /\ records' = IF call[r].op = "dispute"
                  THEN [records EXCEPT ![call[r].ms] = @ + 1] ELSE records
  /\ mu' = IF call[r].op \in Locked THEN NoOne ELSE mu
  /\ pc' = [pc EXCEPT ![r] = IF call[r].op = "settle" THEN "saved" ELSE "idle"]
  /\ UNCHANGED <<call, reservation, ratings, calls, terms>>

(* The end of SettleMilestone decides on its own copy whether the order is *)
(* complete; a failed publish skips this part.                             *)
FinishSettle(r, published) ==
  LET o == call[r].result
      completes == isLastMilestoneSettled(o.ms) /\ o.status = "completed"
  IN  /\ pc[r] = "saved"
      /\ published /\ completes => mu = NoOne
      /\ reservation' = IF published /\ completes /\ reservation # "none"
                          THEN "released" ELSE reservation
      /\ pc' = [pc EXCEPT ![r] = "idle"]
      /\ UNCHANGED <<store, mu, call, records, ratings, calls, historyVars>>

\* Fault: RateOrder does not look for an earlier rating.
FinishRateAgain(r) ==
  /\ pc[r] = "loaded"
  /\ call[r].op = "rate"
  /\ mu = NoOne
  /\ ratings' = ratings + 1
  /\ pc' = [pc EXCEPT ![r] = "idle"]
  /\ UNCHANGED <<store, mu, call, records, reservation, calls, historyVars>>

(* The end of RateOrder, under App.mu: one rating per order. *)
FinishRate(r) ==
  /\ pc[r] = "loaded"
  /\ call[r].op = "rate"
  /\ mu = NoOne
  /\ ratings' = IF ratings = 0 THEN 1 ELSE ratings
  /\ pc' = [pc EXCEPT ![r] = "idle"]
  /\ UNCHANGED <<store, mu, call, records, reservation, calls, historyVars>>

Begin(r) ==
  \/ \E m \in Milestones : SettleMilestone(r, m) \/ ResolveDispute(r, m)
  \/ \E m \in Milestones, a \in Amounts :
       RecordUsageCharge(r, m, a) \/ OpenDispute(r, m, a) \/ TopUpMilestone(r, m, a)
  \/ DisconnectOrder(r) \/ ResumeOrder(r) \/ RateOrder(r)

End(r) ==
  \/ Save(r)
  \/ \E published \in BOOLEAN : FinishSettle(r, published)
  \/ FinishRate(r)

(* The bound on calls is used up and every call has returned. *)
Quiescent ==
  /\ calls = MaxCalls
  /\ \A r \in Requests : pc[r] = "idle"
  /\ UNCHANGED vars

Next == (\E r \in Requests : Begin(r) \/ End(r)) \/ Quiescent

Spec == Init /\ [][Next]_vars

-----------------------------------------------------------------------------
Call == [op : Ops, ms : Milestones, amount : Int, seen : Order, result : Order]

(* Every variable keeps its type. *)
TypeOK ==
  /\ store \in Order
  /\ mu \in Requests \cup {NoOne}
  /\ pc \in [Requests -> {"idle", "loaded", "saved"}]
  /\ call \in [Requests -> Call]
  /\ records \in [Milestones -> Nat]
  /\ reservation \in {"none", "active", "released"}
  /\ ratings \in Nat /\ calls \in Nat
  /\ paid \in [Milestones -> Int] /\ refunded \in [Milestones -> Int]
  /\ topped \in [Milestones -> Int]
  /\ terms \in InitialTerms
  /\ writer \in Ops \cup {"create"}
  /\ stale \in BOOLEAN

(* Overlapping handlers lose each other's updates, but what they leave in  *)
(* the repository is always a well-formed order: work is in sequence, it   *)
(* never stalls, every pause can be lifted, completion means done.         *)
StoredOrderInv == OrderInv(store)

(* App.mu works between the handlers that take it: the copy such a handler *)
(* is about to save can only be outdated because of a handler that does    *)
(* not take App.mu.                                                        *)
LockedCopyFresh ==
  \A r \in Requests :
     pc[r] = "loaded" /\ call[r].op \in Locked /\ store # call[r].seen
        => writer \in Unlocked

(* Only an update saved over an unread one can upset the books.  Until     *)
(* that happens a refund was paid out before, each payout happened once    *)
(* per settlement, and a milestone's budget is its first budget plus the   *)
(* top-ups granted.                                                        *)
BooksExactUntilStale ==
  ~stale => \A m \in Milestones :
     /\ refunded[m] <= paid[m]
     /\ paid[m] <= (1 + records[m]) * terms[m].base
     /\ store.ms[m].budget = terms[m].budget + topped[m]

(* RateOrder reads the status before it takes App.mu, so a top-up may have *)
(* reopened the order; still every milestone was paid out, and the order   *)
(* has at most one rating.                                                 *)
RatedWasPaid ==
  /\ ratings <= 1
  /\ ratings = 1 => \A m \in Milestones : paid[m] >= terms[m].base

-----------------------------------------------------------------------------
(* What the tests say of overlapping and repeated calls.                   *)

(* A milestone that is already settled is not paid out again until a       *)
(* dispute reopens it (TestSettleMilestone_AlreadySettled).                *)
PaidOncePerSettlement ==
  \A m \in Milestones : paid[m] <= (1 + records[m]) * terms[m].base
=============================================================================
