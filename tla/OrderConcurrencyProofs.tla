----------------------- MODULE OrderConcurrencyProofs -----------------------
(***************************************************************************)
(* Handlers that overlap on one order, for any number of goroutines, calls *)
(* and milestones and any amounts: every property of OrderConcurrency that *)
(* holds.  Workflow's operators enter only through Effect, which says what *)
(* the order a call is about to save may differ in from the one it read.   *)
(***************************************************************************)
EXTENDS OrderConcurrency, WorkflowProofs

(* The copy a call made, and what it made of it. *)
Effect(cl) ==
  /\ OrderInv(cl.seen) /\ OrderInv(cl.result)
  /\ \A k \in Milestones :
       LET x == cl.seen.ms[k]
           y == cl.result.ms[k]
       IN  /\ y.base = x.base
           /\ y.budget = x.budget + (IF cl.op = "topup" /\ k = cl.ms THEN cl.amount ELSE 0)
           /\ cl.op = "settle" /\ k = cl.ms => Payable(x) /\ y.state = "settled"
           /\ cl.op = "dispute" /\ k = cl.ms =>
                x.state = "settled" /\ cl.amount \in 1 .. x.base /\ y.state # "settled"
           /\ ~(cl.op \in {"settle", "dispute"} /\ k = cl.ms) =>
                (y.state = "settled" <=> x.state = "settled")
           /\ Done(y) => Done(x) \/ (cl.op = "settle" /\ k = cl.ms)

Made(op, m, amount, result) ==
  [op |-> op, ms |-> m, amount |-> amount, seen |-> store, result |-> result]

(* Adding and comparing numbers. *)
LEMMA Larger ==
  0 \in Nat /\ \A p, b \in Nat : p + b >= p /\ p + b \in Nat
OBVIOUS

LEMMA Unaltered ==
  \A a : a \in Nat \/ a \in Int => a + 0 = a
OBVIOUS

LEMMA StaysBelow ==
  \A p, b \in Nat : \A a : a \in Nat \/ a \in Int => (a <= p => a + b <= p + b /\ a <= p + b)
OBVIOUS

-----------------------------------------------------------------------------
(* Each handler's effect. *)

LEMMA SettleEffect ==
  ASSUME OrderInv(store), NEW m \in Milestones, Payable(store.ms[m])
  PROVE  Effect(Made("settle", m, 0, Settle(store, m)))
<1> DEFINE p == Settle(store, m)
           y == FlagAnomalies(PaidOut(store.ms[m]))
<1>0. store \in Order /\ \A k \in Milestones : store.ms[k] \in Milestone
  BY OrderParts DEF OrderInv
<1>1. \A k \in Milestones : p.ms[k] = IF k = m THEN y
                                      ELSE IF IsNextPending(store.ms, m, k) THEN Started(store.ms[k])
                                      ELSE store.ms[k]
  BY <1>0, SettleFields
<1>2. y.state = "settled" /\ y.base = store.ms[m].base /\ y.budget = store.ms[m].budget
  BY <1>0, SettledFields
<1>3. \A k \in Milestones :
        /\ Started(store.ms[k]).base = store.ms[k].base
        /\ Started(store.ms[k]).budget = store.ms[k].budget
        /\ Started(store.ms[k]).dispute = store.ms[k].dispute
        /\ Started(store.ms[k]).state = "running"
  BY <1>0 DEF Started, Milestone
<1>4. OrderInv(p)
  BY SettleInv
<1>5. \A k \in Milestones : IsNextPending(store.ms, m, k) => store.ms[k].state = "pending"
  BY DEF IsNextPending
<1>6. \A k \in Milestones : store.ms[k].budget \in Nat
  BY <1>0 DEF Milestone
<1> HIDE DEF p, y
<1> QED
  BY <1>1, <1>2, <1>3, <1>4, <1>5, <1>6 DEF Effect, Made, Done, p

LEMMA UsageEffect ==
  ASSUME OrderInv(store), NEW m \in Milestones, AcceptsUsage(store.ms[m]),
         NEW amount \in Int, amount > 0
  PROVE  Effect(Made("usage", m, amount, RecordUsage(store, m, amount)))
<1> DEFINE p == RecordUsage(store, m, amount)
<1>0. store \in Order /\ \A k \in Milestones : store.ms[k] \in Milestone
  BY OrderParts DEF OrderInv
<1>1. OrderInv(p) /\ Monotone(store, p) /\ Quiet(store, p)
  BY <1>0, RecordUsageInv, RecordUsageQuiet
<1>2. \A k \in Milestones : p.ms[k].budget = store.ms[k].budget /\ store.ms[k].budget \in Nat
  BY <1>0 DEF RecordUsage, Charged, Paused, Order, Milestone
<1> HIDE DEF p
<1> QED
  BY <1>1, <1>2 DEF Effect, Made, Monotone, Quiet, p

LEMMA DisputeEffect ==
  ASSUME OrderInv(store), NEW m \in Milestones, NEW refund \in Int, CanDispute(store.ms[m], refund)
  PROVE  Effect(Made("dispute", m, refund, Freeze(store, m)))
<1> DEFINE p == Freeze(store, m)
<1>0. store \in Order /\ \A k \in Milestones : store.ms[k] \in Milestone
  BY OrderParts DEF OrderInv
<1>1. /\ OrderInv(p) /\ Monotone(store, p) /\ p.ms[m].state = "paused"
      /\ \A k \in Milestones : k # m => p.ms[k] = store.ms[k]
  BY <1>0, FreezeInv, FreezeFields DEF CanDispute
<1>2. \A k \in Milestones : p.ms[k].budget = store.ms[k].budget /\ store.ms[k].budget \in Nat
  BY <1>0 DEF Freeze, Frozen, Order, Milestone
<1>3. store.ms[m].state = "settled" /\ refund \in 1 .. store.ms[m].base
  BY <1>0, MilestoneParts DEF CanDispute, MilestoneOK, Milestone
<1> HIDE DEF p
<1> QED
  BY <1>1, <1>2, <1>3 DEF Effect, Made, Monotone, Done, p

LEMMA ResolveEffect ==
  ASSUME OrderInv(store), NEW m \in Milestones, CanResolve(store.ms[m])
  PROVE  Effect(Made("resolve", m, 0, Resolve(store, m)))
<1> DEFINE p == Resolve(store, m)
<1>0. store \in Order /\ \A k \in Milestones : store.ms[k] \in Milestone
  BY OrderParts DEF OrderInv
<1>1. OrderInv(p) /\ Monotone(store, p) /\ Quiet(store, p)
  BY <1>0, ResolveInv, ResolveQuiet
<1>2. \A k \in Milestones : p.ms[k].budget = store.ms[k].budget /\ store.ms[k].budget \in Nat
  BY <1>0 DEF Resolve, Resolved, Order, Milestone
<1> HIDE DEF p
<1> QED
  BY <1>1, <1>2 DEF Effect, Made, Monotone, Quiet, p

LEMMA TopUpEffect ==
  ASSUME OrderInv(store), NEW m \in Milestones, NEW additional \in Int, additional > 0
  PROVE  Effect(Made("topup", m, additional, TopUp(store, m, additional)))
<1> DEFINE p == TopUp(store, m, additional)
<1>0. store \in Order /\ \A k \in Milestones : store.ms[k] \in Milestone
  BY OrderParts DEF OrderInv
<1>1. OrderInv(p) /\ Monotone(store, p) /\ Quiet(store, p)
  BY <1>0, TopUpInv, TopUpQuiet
<1>2. \A k \in Milestones :
        /\ p.ms[k].budget = store.ms[k].budget + (IF k = m THEN additional ELSE 0)
        /\ store.ms[k].budget \in Nat
  BY <1>0 DEF TopUp, Funded, Started, Order, Milestone
<1> HIDE DEF p
<1> QED
  BY <1>1, <1>2, Zenon DEF Effect, Made, Monotone, Quiet, p

LEMMA RailEffect ==
  ASSUME OrderInv(store), NEW m \in Milestones
  PROVE  /\ Effect(Made("raildown", m, 0, RailDown(store)))
         /\ Effect(Made("railup", m, 0, RailUp(store)))
<1> DEFINE p == RailDown(store)
           q == RailUp(store)
<1>0. store \in Order /\ \A k \in Milestones : store.ms[k] \in Milestone
  BY OrderParts DEF OrderInv
<1>1. /\ OrderInv(p) /\ Monotone(store, p) /\ Quiet(store, p)
      /\ OrderInv(q) /\ Monotone(store, q) /\ Quiet(store, q)
  BY <1>0, RailDownInv, RailDownQuiet, RailUpInv, RailUpQuiet
<1>2. \A k \in Milestones : p.ms[k].budget = store.ms[k].budget /\ store.ms[k].budget \in Nat
  BY <1>0, Zenon DEF RailDown, Severed, Milestone
<1>3. \A k \in Milestones : q.ms[k].budget = store.ms[k].budget
  BY <1>0 DEF RailUp, Reconnected, Milestone
<1> HIDE DEF p, q
<1>4. Effect(Made("raildown", m, 0, p))
  BY <1>1, <1>2 DEF Effect, Made, Monotone, Quiet
<1>5. Effect(Made("railup", m, 0, q))
  BY <1>1, <1>2, <1>3 DEF Effect, Made, Monotone, Quiet
<1> QED
  BY <1>4, <1>5, Zenon DEF p, q
-----------------------------------------------------------------------------
(* The inductive invariant. *)

(* Whatever an order, stored or copied, shows as done was paid out. *)
PaidFor(o) ==
  \A k \in Milestones : /\ o.ms[k].base = terms[k].base
                        /\ Done(o.ms[k]) => paid[k] >= terms[k].base

AllPaid == \A k \in Milestones : paid[k] >= terms[k].base

CopyInv(r) ==
  pc[r] = "loaded" =>
    /\ Effect(call[r])
    /\ PaidFor(call[r].seen)
    /\ call[r].op = "rate" => AllPaid
    /\ call[r].op \in Locked => mu = r

(* The books of a milestone while every Save was made over the order that  *)
(* was read: one payout for the settlement it is in, and one for each      *)
(* dispute record.                                                         *)
ExactBooks(k) ==
  /\ refunded[k] <= paid[k]
  /\ store.ms[k].state = "settled" => refunded[k] + terms[k].base <= paid[k]
  /\ paid[k] <= (1 + records[k]) * terms[k].base
  /\ store.ms[k].state # "settled" => paid[k] <= records[k] * terms[k].base
  /\ store.ms[k].budget = terms[k].budget + topped[k]

CInv ==
  /\ TypeOK
  /\ paid \in [Milestones -> Nat]
  /\ StoredOrderInv /\ PaidFor(store)
  /\ \A r \in Requests : CopyInv(r)
  /\ LockedCopyFresh
  /\ RatedWasPaid
  /\ ~stale => \A k \in Milestones : ExactBooks(k)

(* The terms of the order are naturals. *)
LEMMA TermsNat ==
  ASSUME TypeOK, NEW k \in Milestones
  PROVE  terms[k] \in Terms /\ terms[k].base \in Nat /\ terms[k].budget \in Nat
BY ConstAssumption DEF TypeOK, Terms

LEMMA InitCInv == Init => CInv
<1> SUFFICES ASSUME Init PROVE CInv
  OBVIOUS
<1>1. terms \in [Milestones -> Terms] /\ store = CreateOrder(terms) /\ 1 \in Milestones
  BY ConstAssumption, NAssumption DEF Init, Milestones
<1>2. OrderInv(store) /\ store \in Order
  BY <1>1, CreateOrderInv DEF OrderInv
<1>3. TypeOK /\ paid \in [Milestones -> Nat]
  <2>1. \A r \in Requests : call[r] \in Call
    BY <1>1, <1>2 DEF Init, Call, Ops
  <2>2. call \in [Requests -> Call]
    BY <2>1 DEF Init
  <2>3. /\ records \in [Milestones -> Nat] /\ paid \in [Milestones -> Nat]
        /\ paid \in [Milestones -> Int] /\ refunded \in [Milestones -> Int]
        /\ topped \in [Milestones -> Int]
    BY DEF Init, Zero
  <2>4. mu \in Requests \cup {NoOne} /\ pc \in [Requests -> {"idle", "loaded", "saved"}]
    BY DEF Init
  <2> QED
    BY <1>2, <2>2, <2>3, <2>4, Zenon DEF Init, TypeOK
<1>4. \A k \in Milestones : /\ store.ms[k].base = terms[k].base
                            /\ store.ms[k].budget = terms[k].budget
                            /\ store.ms[k].state # "settled" /\ store.ms[k].dispute = "none"
                            /\ terms[k].base \in Nat /\ terms[k].budget \in Nat
  BY <1>1 DEF CreateOrder, Terms
<1>5. PaidFor(store) /\ \A k \in Milestones : ExactBooks(k)
  BY <1>4 DEF Init, Zero, PaidFor, Done, ExactBooks
<1> QED
  BY <1>2, <1>3, <1>5 DEF Init, CInv, CopyInv, StoredOrderInv, LockedCopyFresh, RatedWasPaid

LEMMA LoadInv ==
  ASSUME CInv, NEW r \in Requests, NEW op \in Ops, NEW m \in Milestones, NEW amount \in Int,
         NEW result, Effect(Made(op, m, amount, result)), op = "rate" => AllPaid,
         Load(r, op, m, amount, result)
  PROVE  CInv'
<1> DEFINE cl == Made(op, m, amount, result)
<1>0. /\ pc[r] = "idle" /\ pc' = [pc EXCEPT ![r] = "loaded"] /\ call' = [call EXCEPT ![r] = cl]
      /\ (op \in Locked => mu = NoOne) /\ mu' = IF op \in Locked THEN r ELSE mu
      /\ calls' = calls + 1
      /\ UNCHANGED <<store, records, reservation, ratings, paid, refunded, topped, terms, writer, stale>>
  BY DEF Load, Made, historyVars
<1>1. cl \in Call /\ cl.seen = store /\ cl.op = op
  BY Zenon DEF CInv, TypeOK, Call, Made, Effect, OrderInv
<1> HIDE DEF cl
<1>2. TypeOK' /\ paid' \in [Milestones -> Nat]
  BY <1>0, <1>1 DEF CInv, TypeOK
<1>3. UNCHANGED <<StoredOrderInv, RatedWasPaid, AllPaid>>
      /\ (\A o : PaidFor(o)' <=> PaidFor(o)) /\ \A k \in Milestones : ExactBooks(k)' <=> ExactBooks(k)
  BY <1>0 DEF StoredOrderInv, RatedWasPaid, AllPaid, PaidFor, ExactBooks
<1>4. \A s \in Requests : s # r => pc'[s] = pc[s] /\ call'[s] = call[s]
  BY <1>0 DEF CInv, TypeOK
<1>5. pc'[r] = "loaded" /\ call'[r] = cl
  BY <1>0 DEF CInv, TypeOK
<1>6. CopyInv(r)'
  BY <1>0, <1>1, <1>3, <1>5 DEF CInv, CopyInv, cl
<1>7. ASSUME NEW s \in Requests, s # r PROVE CopyInv(s)'
  <2>1. pc[s] = "loaded" /\ call[s].op \in Locked => mu = s
    BY DEF CInv, CopyInv
  <2>2. pc[s] = "loaded" /\ call[s].op \in Locked => mu' = s
    BY <1>0, <2>1, ConstAssumption
  <2> QED
    BY <1>3, <1>4, <1>7, <2>2 DEF CInv, CopyInv
<1>8. LockedCopyFresh'
  BY <1>0, <1>1, <1>4, <1>5 DEF CInv, LockedCopyFresh
<1> QED
  BY <1>0, <1>2, <1>3, <1>6, <1>7, <1>8 DEF CInv

LEMMA BeginInv ==
  ASSUME CInv, NEW r \in Requests, Begin(r)
  PROVE  CInv'
<1>0. OrderInv(store) /\ Amounts \subseteq Int /\ 1 \in Milestones
  BY ConstAssumption, NAssumption DEF CInv, StoredOrderInv, Milestones
<1>1. ASSUME NEW m \in Milestones, SettleMilestone(r, m) PROVE CInv'
  BY <1>0, <1>1, SettleEffect, LoadInv DEF SettleMilestone, Ops
<1>2. ASSUME NEW m \in Milestones, ResolveDispute(r, m) PROVE CInv'
  BY <1>0, <1>2, ResolveEffect, LoadInv DEF ResolveDispute, Ops
<1>3. ASSUME NEW m \in Milestones, NEW a \in Amounts, RecordUsageCharge(r, m, a) PROVE CInv'
  BY <1>0, <1>3, UsageEffect, LoadInv DEF RecordUsageCharge, Ops
<1>4. ASSUME NEW m \in Milestones, NEW a \in Amounts, OpenDispute(r, m, a) PROVE CInv'
  BY <1>0, <1>4, DisputeEffect, LoadInv DEF OpenDispute, Ops
<1>5. ASSUME NEW m \in Milestones, NEW a \in Amounts, TopUpMilestone(r, m, a) PROVE CInv'
  BY <1>0, <1>5, TopUpEffect, LoadInv DEF TopUpMilestone, Ops
<1>6. CASE DisconnectOrder(r)
  BY <1>0, <1>6, RailEffect, LoadInv DEF DisconnectOrder, Ops
<1>7. CASE ResumeOrder(r)
  BY <1>0, <1>7, RailEffect, LoadInv DEF ResumeOrder, Ops
<1>8. CASE RateOrder(r)
  <2>1. AllPaid
    BY <1>8 DEF RateOrder, CInv, StoredOrderInv, OrderInv, CompletedIsDone, PaidFor, Done, AllPaid
  <2>2. \A k \in Milestones : store.ms[k].budget \in Nat
    BY <1>0, OrderParts DEF OrderInv, Milestone
  <2>3. Effect(Made("rate", 1, 0, store))
    BY <1>0, <2>2 DEF Effect, Made
  <2> QED
    BY <1>0, <1>8, <2>1, <2>3, LoadInv DEF RateOrder, Ops
<1> QED
  BY <1>1, <1>2, <1>3, <1>4, <1>5, <1>6, <1>7, <1>8 DEF Begin

(* One more payout fits under one more record. *)
LEMMA OneMore ==
  ASSUME NEW n \in Nat, NEW b \in Nat
  PROVE  (1 + n) * b = n * b + b
OBVIOUS

LEMMA SaveInv ==
  ASSUME CInv, NEW r \in Requests, Save(r)
  PROVE  CInv'
<1> DEFINE cl == call[r]
           m == cl.ms
           x(k) == cl.seen.ms[k]
           y(k) == cl.result.ms[k]
<1>0. /\ pc[r] = "loaded" /\ cl.op # "rate" /\ store' = cl.result /\ writer' = cl.op
      /\ stale' = (stale \/ store # cl.seen)
      /\ mu' = IF cl.op \in Locked THEN NoOne ELSE mu
      /\ pc' = [pc EXCEPT ![r] = IF cl.op = "settle" THEN "saved" ELSE "idle"]
      /\ UNCHANGED <<call, reservation, ratings, calls, terms>>
  BY Zenon DEF Save
<1>1. /\ cl \in Call /\ m \in Milestones /\ cl.amount \in Int /\ cl.op \in Ops
      /\ Effect(cl) /\ PaidFor(cl.seen) /\ (cl.op \in Locked => mu = r)
  BY <1>0 DEF CInv, TypeOK, Call, CopyInv
<1>2. \A k \in Milestones : /\ y(k).base = terms[k].base /\ terms[k].base \in Nat
                            /\ terms[k].budget \in Nat
  BY <1>1, TermsNat, Zenon DEF CInv, Effect, PaidFor
<1>3. \A k \in Milestones :
        /\ paid'[k] = paid[k] + (IF cl.op = "settle" /\ k = m THEN terms[k].base ELSE 0)
        /\ refunded'[k] = refunded[k] + (IF cl.op = "dispute" /\ k = m THEN cl.amount ELSE 0)
        /\ topped'[k] = topped[k] + (IF cl.op = "topup" /\ k = m THEN cl.amount ELSE 0)
        /\ records'[k] = records[k] + (IF cl.op = "dispute" /\ k = m THEN 1 ELSE 0)
        /\ paid[k] \in Nat /\ refunded[k] \in Int /\ topped[k] \in Int /\ records[k] \in Nat
  <2>1. /\ paid \in [Milestones -> Nat] /\ refunded \in [Milestones -> Int]
        /\ topped \in [Milestones -> Int] /\ records \in [Milestones -> Nat]
    BY DEF CInv, TypeOK
  <2>2. paid' = IF cl.op = "settle" THEN [paid EXCEPT ![m] = @ + y(m).base] ELSE paid
    BY DEF Save
  <2>3. /\ refunded' = IF cl.op = "dispute" THEN [refunded EXCEPT ![m] = @ + cl.amount] ELSE refunded
        /\ topped' = IF cl.op = "topup" THEN [topped EXCEPT ![m] = @ + cl.amount] ELSE topped
        /\ records' = IF cl.op = "dispute" THEN [records EXCEPT ![m] = @ + 1] ELSE records
    BY Zenon DEF Save, Credit
  <2>4. m \in Milestones /\ y(m).base = terms[m].base /\ terms[m].base \in Nat /\ cl.amount \in Int
    BY <1>1, <1>2, Zenon
  <2> HIDE DEF cl, m, y
  <2>5. \A k \in Milestones : paid'[k] = paid[k] + (IF cl.op = "settle" /\ k = m THEN terms[k].base ELSE 0)
    BY <2>1, <2>2, <2>4
  <2>6. \A k \in Milestones : refunded'[k] = refunded[k] + (IF cl.op = "dispute" /\ k = m THEN cl.amount ELSE 0)
    BY <2>1, <2>3, <2>4
  <2>7. \A k \in Milestones : topped'[k] = topped[k] + (IF cl.op = "topup" /\ k = m THEN cl.amount ELSE 0)
    BY <2>1, <2>3, <2>4
  <2>8. \A k \in Milestones : records'[k] = records[k] + (IF cl.op = "dispute" /\ k = m THEN 1 ELSE 0)
    BY <2>1, <2>3, <2>4
  <2> QED
    BY <2>1, <2>5, <2>6, <2>7, <2>8, Zenon
<1>4. /\ paid' \in [Milestones -> Nat] /\ refunded' \in [Milestones -> Int]
      /\ topped' \in [Milestones -> Int] /\ records' \in [Milestones -> Nat]
  <2>1. /\ DOMAIN paid' = Milestones /\ DOMAIN refunded' = Milestones
        /\ DOMAIN topped' = Milestones /\ DOMAIN records' = Milestones
        /\ paid' = [k \in Milestones |-> paid'[k]]
        /\ refunded' = [k \in Milestones |-> refunded'[k]]
        /\ topped' = [k \in Milestones |-> topped'[k]]
        /\ records' = [k \in Milestones |-> records'[k]]
    BY ZenonT(30) DEF CInv, TypeOK, Save, Credit
  <2> QED
    BY <1>1, <1>2, <1>3, <2>1
<1>5. TypeOK'
  <2>1. store' \in Order
    BY <1>0, <1>1, ZenonT(30) DEF Effect, OrderInv
  <2> QED
    BY <1>0, <1>1, <1>4, <2>1 DEF CInv, TypeOK
<1>6. StoredOrderInv'
  BY <1>0, <1>1, Zenon DEF StoredOrderInv, Effect
<1>7. \A k \in Milestones : paid'[k] >= paid[k] /\ paid'[k] \in Nat
  <2> TAKE k \in Milestones
  <2>1. paid[k] \in Nat /\ (paid'[k] = paid[k] + terms[k].base \/ paid'[k] = paid[k] + 0)
    BY <1>3, Zenon
  <2>2. terms[k].base \in Nat /\ 0 \in Nat
    BY <1>2, StaysBelow, Zenon
  <2> QED
    BY <2>1, <2>2, Larger, Zenon
<1>8. \A o : PaidFor(o) => PaidFor(o)'
  <2> SUFFICES ASSUME NEW o, PaidFor(o), NEW k \in Milestones
               PROVE  /\ o.ms[k].base = terms'[k].base
                      /\ Done(o.ms[k]) => paid'[k] >= terms'[k].base
    BY Zenon DEF PaidFor
  <2>1. /\ o.ms[k].base = terms[k].base /\ terms' = terms
        /\ Done(o.ms[k]) => paid[k] >= terms[k].base
    BY <1>0, Zenon DEF PaidFor
  <2>2. paid'[k] >= paid[k] /\ paid'[k] \in Nat /\ paid[k] \in Nat /\ terms[k].base \in Nat
    BY <1>2, <1>3, <1>7, Zenon
  <2> QED
    BY <2>1, <2>2
<1>9. AllPaid => AllPaid'
  <2> SUFFICES ASSUME AllPaid, NEW k \in Milestones PROVE paid'[k] >= terms'[k].base
    BY Zenon DEF AllPaid
  <2>1. paid[k] >= terms[k].base /\ terms' = terms
    BY <1>0, Zenon DEF AllPaid
  <2>2. paid'[k] >= paid[k] /\ paid'[k] \in Nat /\ paid[k] \in Nat /\ terms[k].base \in Nat
    BY <1>2, <1>3, <1>7, Zenon
  <2> QED
    BY <2>1, <2>2
<1>10. PaidFor(store)'
  <2> SUFFICES ASSUME NEW k \in Milestones, Done(y(k)) PROVE paid'[k] >= terms[k].base
    <3>1. store' = cl.result /\ terms' = terms
      BY <1>0, Zenon
    <3> QED
      BY <1>2, <3>1, Zenon DEF PaidFor
  <2>1. CASE cl.op = "settle" /\ k = m
    <3>1. paid'[k] = paid[k] + terms[k].base /\ paid[k] \in Nat /\ terms[k].base \in Nat
      BY <2>1, <1>2, <1>3, Zenon
    <3> QED
      BY ONLY <3>1
  <2>2. CASE ~(cl.op = "settle" /\ k = m)
    <3>1. Done(x(k))
      BY <2>2, <1>1, Zenon DEF Effect
    <3>2. paid[k] >= terms[k].base
      BY <3>1, <1>1 DEF PaidFor
    <3>3. paid'[k] >= paid[k] /\ paid'[k] \in Nat /\ paid[k] \in Nat /\ terms[k].base \in Nat
      BY <1>2, <1>3, <1>7, Zenon
    <3> QED
      BY <3>2, <3>3
  <2> QED
    BY <2>1, <2>2
<1>11. \A s \in Requests : /\ s # r => pc'[s] = pc[s]
                           /\ pc'[r] # "loaded"
  BY <1>0 DEF CInv, TypeOK
<1>12. ASSUME NEW s \in Requests PROVE CopyInv(s)'
  <2>1. s # r /\ pc[s] = "loaded" /\ call[s].op \in Locked => mu' = s
    BY <1>0, <1>1, Zenon DEF CInv, CopyInv
  <2> QED
    BY <1>0, <1>8, <1>9, <1>11, <2>1, Zenon DEF CInv, CopyInv
<1>13. LockedCopyFresh'
  <2> SUFFICES ASSUME NEW s \in Requests, pc'[s] = "loaded", call[s].op \in Locked
               PROVE  writer' \in Unlocked
    BY <1>0 DEF LockedCopyFresh
  <2>1. s # r /\ pc[s] = "loaded" /\ mu = s
    BY <1>11 DEF CInv, CopyInv
  <2>2. cl.op \notin Locked
    BY <1>1, <2>1
  <2> QED
    BY <1>0, <1>1, <2>2, Zenon DEF Ops, Locked, Unlocked
<1>14. RatedWasPaid'
  BY <1>0, <1>9, Zenon DEF CInv, RatedWasPaid, AllPaid
<1>15. ASSUME ~stale', NEW k \in Milestones PROVE ExactBooks(k)'
  <2>1. ~stale /\ store = cl.seen
    BY <1>0, <1>15, Zenon
  <2>2. ExactBooks(k)
    BY <2>1 DEF CInv
  <2>3. store'.ms[k] = y(k) /\ store.ms[k] = x(k) /\ terms' = terms
    BY <1>0, <2>1
  <2>4. /\ y(k).budget = x(k).budget + (IF cl.op = "topup" /\ k = m THEN cl.amount ELSE 0)
        /\ cl.op = "settle" /\ k = m => x(k).state # "settled" /\ y(k).state = "settled"
        /\ cl.op = "dispute" /\ k = m =>
             x(k).state = "settled" /\ cl.amount \in 1 .. terms[k].base /\ y(k).state # "settled"
        /\ ~(cl.op \in {"settle", "dispute"} /\ k = m) =>
             (y(k).state = "settled" <=> x(k).state = "settled")
    BY <1>1, <1>2, ZenonT(30) DEF Effect, Payable
  <2>5. /\ (1 + records[k]) * terms[k].base = records[k] * terms[k].base + terms[k].base
        /\ (1 + (records[k] + 1)) * terms[k].base = (records[k] + 1) * terms[k].base + terms[k].base
        /\ (records[k] + 1) * terms[k].base = records[k] * terms[k].base + terms[k].base
        /\ records[k] * terms[k].base \in Nat /\ (records[k] + 1) * terms[k].base \in Nat
    <3>1. records[k] \in Nat /\ terms[k].base \in Nat
      BY <1>2, <1>3, Zenon
    <3>2. (1 + records[k]) * terms[k].base = records[k] * terms[k].base + terms[k].base
      BY <3>1, OneMore, Zenon
    <3>3. records[k] + 1 \in Nat
      BY <3>1
    <3>4. (1 + (records[k] + 1)) * terms[k].base = (records[k] + 1) * terms[k].base + terms[k].base
      BY <3>1, <3>3, OneMore, Zenon
    <3>5. records[k] + 1 = 1 + records[k] /\ records[k] * terms[k].base \in Nat
      BY <3>1
    <3>6. records[k] * terms[k].base + terms[k].base \in Nat
      BY <3>1, <3>5
    <3> QED
      BY <3>2, <3>4, <3>5, <3>6, Zenon
  <2>6. store.ms[k].budget \in Nat
    BY OrderParts, Zenon DEF CInv, TypeOK, Milestone
  <2>a. /\ paid[k] \in Nat /\ refunded[k] \in Int /\ topped[k] \in Int /\ records[k] \in Nat
        /\ terms[k].base \in Nat /\ terms[k].budget \in Nat
    BY <1>2, <1>3, Zenon
  <2> HIDE DEF cl, m, x, y
  <2>7. CASE cl.op = "settle" /\ k = m
    <3>1. /\ paid'[k] = paid[k] + terms[k].base /\ refunded'[k] = refunded[k]
          /\ topped'[k] = topped[k] /\ records'[k] = records[k]
      <4>1. /\ paid'[k] = paid[k] + terms[k].base /\ refunded'[k] = refunded[k] + 0
            /\ topped'[k] = topped[k] + 0 /\ records'[k] = records[k] + 0
        BY <1>3, <2>7, Zenon
      <4> QED
        BY <2>a, <4>1, Unaltered, Zenon
    <3>2. x(k).state # "settled" /\ y(k).state = "settled" /\ y(k).budget = x(k).budget
      BY <2>3, <2>4, <2>6, <2>7
    <3>3. refunded'[k] + terms[k].base <= paid'[k] /\ refunded'[k] <= paid'[k]
      <4>1. refunded[k] <= paid[k]
        BY <2>2, Zenon DEF ExactBooks
      <4> QED
        BY <2>a, <3>1, <4>1, StaysBelow, Zenon
    <3>4. paid'[k] <= (1 + records'[k]) * terms[k].base
      <4>1. paid[k] <= records[k] * terms[k].base
        BY <2>2, <2>3, <3>2, Zenon DEF ExactBooks
      <4>2. paid[k] + terms[k].base <= records[k] * terms[k].base + terms[k].base
        BY <2>a, <2>5, <4>1, StaysBelow, Zenon
      <4> QED
        BY <2>5, <3>1, <4>2, Zenon
    <3>5. y(k).budget = terms[k].budget + topped'[k]
      BY <2>2, <2>3, <3>1, <3>2, Zenon DEF ExactBooks
    <3> QED
      BY <2>3, <3>2, <3>3, <3>4, <3>5, Zenon DEF ExactBooks
  <2>8. CASE cl.op = "dispute" /\ k = m
    <3>1. /\ paid'[k] = paid[k] /\ refunded'[k] = refunded[k] + cl.amount
          /\ topped'[k] = topped[k] /\ records'[k] = records[k] + 1
      BY <1>2, <1>3, <2>8
    <3>2. /\ x(k).state = "settled" /\ y(k).state # "settled" /\ y(k).budget = x(k).budget
          /\ cl.amount \in 1 .. terms[k].base
      BY <2>3, <2>4, <2>6, <2>8
    <3>3. refunded'[k] <= paid'[k]
      BY <2>a, <2>2, <2>3, <3>1, <3>2 DEF ExactBooks
    <3>4. /\ paid'[k] <= records'[k] * terms[k].base
          /\ paid'[k] <= (1 + records'[k]) * terms[k].base
      <4>1. paid[k] <= (1 + records[k]) * terms[k].base
        BY <2>2, Zenon DEF ExactBooks
      <4>2. paid[k] <= (records[k] + 1) * terms[k].base
        BY <2>5, <4>1, Zenon
      <4>3. paid[k] <= (records[k] + 1) * terms[k].base + terms[k].base
        BY <2>a, <2>5, <4>2, StaysBelow, Zenon
      <4> QED
        BY <2>5, <3>1, <4>2, <4>3, Zenon
    <3>5. y(k).budget = terms[k].budget + topped'[k]
      BY <2>2, <2>3, <3>1, <3>2, Zenon DEF ExactBooks
    <3> QED
      BY <2>3, <3>2, <3>3, <3>4, <3>5 DEF ExactBooks
  <2>9. CASE ~(cl.op \in {"settle", "dispute"} /\ k = m)
    <3>1. /\ paid'[k] = paid[k] /\ refunded'[k] = refunded[k] /\ records'[k] = records[k]
      <4>1. /\ paid'[k] = paid[k] + 0 /\ refunded'[k] = refunded[k] + 0
            /\ records'[k] = records[k] + 0
        BY <1>3, <2>9, Zenon
      <4> QED
        BY <2>a, <4>1, Unaltered, Zenon
    <3>2. topped'[k] - topped[k] = y(k).budget - x(k).budget
      <4>1. /\ topped'[k] = topped[k] + (IF cl.op = "topup" /\ k = m THEN cl.amount ELSE 0)
            /\ y(k).budget = x(k).budget + (IF cl.op = "topup" /\ k = m THEN cl.amount ELSE 0)
            /\ x(k).budget \in Nat /\ cl.amount \in Int
        BY <1>1, <1>3, <2>3, <2>4, <2>6, Zenon
      <4> QED
        BY ONLY <2>a, <4>1
    <3>3. y(k).budget \in Int /\ (y(k).state = "settled" <=> x(k).state = "settled")
      <4>1. y(k).state = "settled" <=> x(k).state = "settled"
        BY <2>4, <2>9, Zenon
      <4>2. /\ y(k).budget = x(k).budget + (IF cl.op = "topup" /\ k = m THEN cl.amount ELSE 0)
            /\ x(k).budget \in Nat /\ cl.amount \in Int
        BY <1>1, <2>3, <2>4, <2>6, Zenon
      <4> QED
        BY ONLY <4>1, <4>2
    <3>4. topped'[k] \in Int /\ topped[k] \in Int
      BY <1>4, <2>a, Zenon
    <3>5. y(k).budget = terms[k].budget + topped'[k]
      <4>1. x(k).budget = terms[k].budget + topped[k] /\ x(k).budget \in Nat
        BY <2>2, <2>3, <2>6 DEF ExactBooks
      <4> QED
        BY <2>a, <3>2, <3>3, <3>4, <4>1
    <3> QED
      BY <2>2, <2>3, <3>1, <3>3, <3>5, Zenon DEF ExactBooks
  <2> QED
    BY <2>7, <2>8, <2>9, Zenon
<1> QED
  BY <1>4, <1>5, <1>6, <1>10, <1>12, <1>13, <1>14, <1>15 DEF CInv

LEMMA FinishInv ==
  ASSUME CInv, NEW r \in Requests, NEW published \in BOOLEAN,
         FinishSettle(r, published) \/ FinishRate(r)
  PROVE  CInv'
<1>0. /\ UNCHANGED <<store, mu, call, records, calls, paid, refunded, topped, terms, writer, stale>>
      /\ pc' = [pc EXCEPT ![r] = "idle"]
      /\ reservation' \in {reservation, "released"}
      /\ \/ ratings' = ratings
         \/ pc[r] = "loaded" /\ call[r].op = "rate" /\ ratings' = 1
  BY Zenon DEF FinishSettle, FinishRate, historyVars
<1>1. TypeOK' /\ paid' \in [Milestones -> Nat]
  BY <1>0 DEF CInv, TypeOK
<1>2. UNCHANGED <<StoredOrderInv, AllPaid>>
      /\ (\A o : PaidFor(o)' <=> PaidFor(o)) /\ \A k \in Milestones : ExactBooks(k)' <=> ExactBooks(k)
  BY <1>0, Zenon DEF StoredOrderInv, AllPaid, PaidFor, ExactBooks
<1>3. \A s \in Requests : pc'[s] = "loaded" => pc[s] = "loaded"
  BY <1>0 DEF CInv, TypeOK
<1>4. \A s \in Requests : CopyInv(s)'
  BY <1>0, <1>2, <1>3, Zenon DEF CInv, CopyInv
<1>5. LockedCopyFresh'
  BY <1>0, <1>3, Zenon DEF CInv, LockedCopyFresh
<1>6. RatedWasPaid'
  <2>1. ratings <= 1 /\ (ratings = 1 => AllPaid)
    BY Zenon DEF CInv, AllPaid, RatedWasPaid
  <2>2. pc[r] = "loaded" /\ call[r].op = "rate" => AllPaid
    BY Zenon DEF CInv, CopyInv
  <2>3. ratings' <= 1
    <3>1. ratings' \in {ratings, 1}
      BY <1>0, Zenon
    <3> QED
      BY ONLY <2>1, <3>1
  <2>4. ratings' = 1 => AllPaid
    BY <1>0, <2>1, <2>2, Zenon
  <2>5. AllPaid => AllPaid'
    BY <1>2, Zenon
  <2> QED
    BY <2>3, <2>4, <2>5, Zenon DEF AllPaid, RatedWasPaid
<1> QED
  BY <1>0, <1>1, <1>2, <1>4, <1>5, <1>6, Zenon DEF CInv

LEMMA NextCInv == CInv /\ [Next]_vars => CInv'
<1> SUFFICES ASSUME CInv, [Next]_vars PROVE CInv'
  OBVIOUS
<1>1. CASE UNCHANGED vars
  BY <1>1, Zenon DEF vars, CInv, TypeOK, StoredOrderInv, PaidFor, CopyInv, AllPaid, LockedCopyFresh,
     RatedWasPaid, ExactBooks
<1>2. ASSUME NEW r \in Requests, Begin(r) PROVE CInv'
  BY <1>2, BeginInv
<1>3. ASSUME NEW r \in Requests, End(r) PROVE CInv'
  BY <1>3, SaveInv, FinishInv, ZenonT(30) DEF End
<1> QED
  BY <1>1, <1>2, <1>3 DEF Next, Quiescent

-----------------------------------------------------------------------------
LEMMA CInvAlways == Spec => []CInv
BY InitCInv, NextCInv, PTL DEF Spec

(* However the handlers overlap and lose each other's updates, what is     *)
(* stored is a well-formed order (the handlers of platform.App): for any   *)
(* number of goroutines, calls and milestones.                             *)
THEOREM OverlapWellFormed == Spec => []StoredOrderInv
<1>1. CInv => StoredOrderInv
  BY DEF CInv
<1> QED
  BY <1>1, CInvAlways, PTL

(* The copy of a handler that holds App.mu is outdated only by a handler   *)
(* that does not take it.                                                  *)
THEOREM LockProtects == Spec => []LockedCopyFresh
<1>1. CInv => LockedCopyFresh
  BY DEF CInv
<1> QED
  BY <1>1, CInvAlways, PTL

(* An order has at most one rating, and a rated order has paid out every   *)
(* milestone, although RateOrder reads the order without App.mu.           *)
THEOREM OverlapRatedWasPaid == Spec => []RatedWasPaid
<1>1. CInv => RatedWasPaid
  BY DEF CInv
<1> QED
  BY <1>1, CInvAlways, PTL

(* As long as no handler saved over an order it had not read, refunds are  *)
(* covered, a settlement was paid once and the budget is exact.            *)
THEOREM BooksExact == Spec => []BooksExactUntilStale
<1>1. CInv => BooksExactUntilStale
  BY Zenon DEF CInv, ExactBooks, BooksExactUntilStale
<1> QED
  BY <1>1, CInvAlways, PTL
=============================================================================
