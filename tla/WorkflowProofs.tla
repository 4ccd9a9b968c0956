--------------------------- MODULE WorkflowProofs ---------------------------
(***************************************************************************)
(* Every operator of Workflow maps a well-formed order to a well-formed    *)
(* order.  Each proof first says, field by field, what the operator does   *)
(* to a milestone, and then argues about the invariant from those facts    *)
(* alone.  The second half are lemmas on sums over finite sets that the    *)
(* other proof modules share.                                              *)
(***************************************************************************)
EXTENDS Workflow, FiniteSets, FiniteSetsExt, Functions, FiniteSetTheorems,
        WellFoundedInduction, TLAPS

(* A non-empty set of naturals has a least member. *)
LEMMA LeastMember ==
  ASSUME NEW T \in SUBSET Nat, T # {}
  PROVE  \E x \in T : \A y \in T : x <= y
<1> DEFINE R == OpToRel(<, Nat)
<1>1. IsWellFoundedOn(R, Nat)
  BY NatLessThanWellFounded, Zenon
<1>2. \A x, y \in Nat : <<y, x>> \in R <=> y < x
  BY DEF OpToRel
<1> HIDE DEF R
<1>3. PICK x \in T : \A y \in T : ~ (<<y, x>> \in R)
  BY <1>1, WFMin, Zenon
<1>4. \A y \in T : x <= y
  <2> TAKE y \in T
  <2>1. x \in Nat /\ y \in Nat
    OBVIOUS
  <2>2. ~ (y < x)
    BY <1>2, <1>3, <2>1, Zenon
  <2> QED
    BY <2>1, <2>2
<1> QED
  BY <1>4

(* A new order is well formed (CreateOrder in platform/app.go). *)
LEMMA CreateOrderInv ==
  ASSUME NEW terms \in [Milestones -> Terms]
  PROVE  OrderInv(CreateOrder(terms))
<1> DEFINE o == CreateOrder(terms)
<1>1. o \in Order
  BY DEF CreateOrder, Order, Milestone, Terms, OrderStatuses, MilestoneStates,
         DisputeStatuses, Flags
<1>2. /\ o.status = "running"
      /\ \A m \in Milestones :
           /\ o.ms[m].state = IF m = 1 THEN "running" ELSE "pending"
           /\ o.ms[m].dispute = "none"
  BY DEF CreateOrder
<1>3. 1 \in Milestones /\ \A m \in Milestones : m \in Int /\ m >= 1
  BY NAssumption DEF Milestones
<1> HIDE DEF o
<1>4. PendingIsSuffix(o)
  BY <1>2, <1>3 DEF PendingIsSuffix
<1>5. NeverStalls(o)
  BY <1>2, <1>3 DEF NeverStalls, Payable
<1>6. PausedHasCause(o) /\ SettledIsBase(o) /\ CompletedIsDone(o)
  BY <1>2 DEF PausedHasCause, SettledIsBase, CompletedIsDone
<1> QED
  BY <1>1, <1>4, <1>5, <1>6 DEF OrderInv, o

(* Replacing one milestone and the status gives an order again. *)
LEMMA PointUpdate ==
  ASSUME NEW o \in Order, NEW m \in Milestones, NEW x \in Milestone,
         NEW st \in OrderStatuses
  PROVE  LET p == [status |-> st, ms |-> [o.ms EXCEPT ![m] = x]] IN
         /\ p \in Order
         /\ p.status = st
         /\ \A k \in Milestones : p.ms[k] = IF k = m THEN x ELSE o.ms[k]
BY DEF Order

(* An order is a status and a function from milestones to milestones. *)
LEMMA OrderParts ==
  ASSUME NEW o \in Order
  PROVE  /\ o.status \in OrderStatuses
         /\ o.ms \in [Milestones -> Milestone]
         /\ \A m \in Milestones : o.ms[m] \in Milestone
BY DEF Order

(* What a settlement does to the milestone itself. *)
LEMMA SettledFields ==
  ASSUME NEW x \in Milestone
  PROVE  LET y == FlagAnomalies(PaidOut(x)) IN
         /\ y \in Milestone
         /\ y.state = "settled"
         /\ y.settled = x.base
         /\ y.base = x.base
         /\ y.usage = x.usage
         /\ y.budget = x.budget
         /\ y.dispute = x.dispute
<1> DEFINE z == PaidOut(x)
<1>1. /\ z \in Milestone
      /\ z.state = "settled" /\ z.settled = x.base /\ z.base = x.base
      /\ z.usage = x.usage /\ z.budget = x.budget /\ z.dispute = x.dispute
  BY Zenon DEF PaidOut, Milestone, MilestoneStates
<1>2. Reconcile(z) \in SUBSET Flags
  BY DEF Reconcile, Flags
<1> HIDE DEF z
<1>3. /\ FlagAnomalies(z) \in Milestone
      /\ FlagAnomalies(z).state = z.state
      /\ FlagAnomalies(z).settled = z.settled
      /\ FlagAnomalies(z).base = z.base
      /\ FlagAnomalies(z).usage = z.usage
      /\ FlagAnomalies(z).budget = z.budget
      /\ FlagAnomalies(z).dispute = z.dispute
  BY <1>1, <1>2 DEF FlagAnomalies, Milestone
<1> QED
  BY <1>1, <1>3 DEF z

(* What App.SettleMilestone saves: the settled milestone, its successor    *)
(* started, and the order completed when nothing else was left.            *)
LEMMA SettleFields ==
  ASSUME NEW o \in Order, NEW m \in Milestones
  PROVE  LET p == Settle(o, m) IN
         /\ p \in Order
         /\ p.status = IF \A k \in Milestones : k = m \/ o.ms[k].state = "settled"
                          THEN "completed" ELSE o.status
         /\ \A k \in Milestones :
              p.ms[k] = IF k = m THEN FlagAnomalies(PaidOut(o.ms[m]))
                        ELSE IF IsNextPending(o.ms, m, k) THEN Started(o.ms[k])
                        ELSE o.ms[k]
<1> DEFINE s == SettleCore(o, m)
           f == [s.ms EXCEPT ![m] = FlagAnomalies(@)]
           p == Settle(o, m)
           y == FlagAnomalies(PaidOut(o.ms[m]))
<1>1. /\ o.ms \in [Milestones -> Milestone]
      /\ o.status \in OrderStatuses
      /\ \A k \in Milestones : o.ms[k] \in Milestone
  BY OrderParts
<1>2. PaidOut(o.ms[m]).state = "settled"
  BY <1>1 DEF PaidOut, Milestone
<1>3. s.ms = [o.ms EXCEPT ![m] = PaidOut(o.ms[m])]
  BY DEF SettleCore
<1>4. s.status = IF \A k \in Milestones : k = m \/ o.ms[k].state = "settled"
                   THEN "completed" ELSE o.status
  <2> DEFINE ms == [o.ms EXCEPT ![m] = PaidOut(@)]
  <2>1. \A k \in Milestones : ms[k] = IF k = m THEN PaidOut(o.ms[m]) ELSE o.ms[k]
    BY <1>1
  <2>2. s.status = IF isLastMilestoneSettled(ms) THEN "completed" ELSE o.status
    BY DEF SettleCore
  <2>3. isLastMilestoneSettled(ms) <=> \A k \in Milestones : k = m \/ o.ms[k].state = "settled"
    <3> HIDE DEF ms
    <3> QED BY <2>1, <1>2 DEF isLastMilestoneSettled
  <2> QED
    BY <2>2, <2>3
<1>5. \A k \in Milestones : f[k] = IF k = m THEN y ELSE o.ms[k]
  BY <1>1, <1>3
<1>6. y \in Milestone /\ y.state = "settled"
  BY <1>1, SettledFields
<1>7. /\ p.status = s.status
      /\ p.ms = advanceNextMilestone(f, m)
      /\ p = [status |-> s.status, ms |-> advanceNextMilestone(f, m)]
  BY DEF Settle
<1> HIDE DEF f, s, p, y
<1>8. \A k \in Milestones : IsNextPending(f, m, k) <=> k # m /\ IsNextPending(o.ms, m, k)
  BY <1>5 DEF IsNextPending, Milestones
<1>9. \A k \in Milestones :
        p.ms[k] = IF k = m THEN y
                  ELSE IF IsNextPending(o.ms, m, k) THEN Started(o.ms[k])
                  ELSE o.ms[k]
  BY <1>5, <1>7, <1>8 DEF advanceNextMilestone
<1>10. \A k \in Milestones : Started(o.ms[k]) \in Milestone
  BY <1>1 DEF Started, Milestone, MilestoneStates
<1>11. p.ms \in [Milestones -> Milestone]
  <2>1. \A k \in Milestones : p.ms[k] \in Milestone
    BY <1>1, <1>6, <1>9, <1>10
  <2> QED
    BY <2>1, <1>7 DEF advanceNextMilestone
<1>12. p \in Order
  <2>1. s.status \in OrderStatuses
    BY <1>1, <1>4 DEF OrderStatuses
  <2> QED
    BY <2>1, <1>7, <1>11 DEF Order
<1> QED
  BY <1>4, <1>7, <1>9, <1>12 DEF p, y

-----------------------------------------------------------------------------
(* SettleMilestone keeps the order well formed: settling m starts the next *)
(* pending milestone, so no gap opens, and completing means all settled.   *)
LEMMA SettleInv ==
  ASSUME NEW o, OrderInv(o), NEW m \in Milestones, Payable(o.ms[m])
  PROVE  OrderInv(Settle(o, m))
<1> DEFINE p == Settle(o, m)
           y == FlagAnomalies(PaidOut(o.ms[m]))
<1>0. o \in Order
  BY DEF OrderInv
<1>1. \A k \in Milestones : o.ms[k] \in Milestone
  BY <1>0, OrderParts
<1>2. /\ p \in Order
      /\ p.status = IF \A k \in Milestones : k = m \/ o.ms[k].state = "settled"
                       THEN "completed" ELSE o.status
      /\ \A k \in Milestones :
           p.ms[k] = IF k = m THEN y
                     ELSE IF IsNextPending(o.ms, m, k) THEN Started(o.ms[k])
                     ELSE o.ms[k]
  BY <1>0, SettleFields
<1>3. y.state = "settled" /\ y.settled = y.base /\ y.dispute = o.ms[m].dispute
  BY <1>1, SettledFields
<1>4. \A k \in Milestones :
        /\ Started(o.ms[k]).state = "running"
        /\ Started(o.ms[k]).dispute = o.ms[k].dispute
        /\ Started(o.ms[k]).settled = o.ms[k].settled
        /\ Started(o.ms[k]).base = o.ms[k].base
  BY <1>1 DEF Started, Milestone
<1> HIDE DEF p, y
<1>5. PendingIsSuffix(p)
  <2> SUFFICES ASSUME NEW j \in Milestones, NEW k \in Milestones, j < k,
                      p.ms[j].state = "pending"
               PROVE  p.ms[k].state = "pending"
    BY DEF PendingIsSuffix
  <2>1. j # m /\ ~ IsNextPending(o.ms, m, j) /\ o.ms[j].state = "pending"
    BY <1>2, <1>3, <1>4
  <2>2. o.ms[k].state = "pending"
    BY <2>1 DEF OrderInv, PendingIsSuffix
  <2>3. k # m
    BY <2>2 DEF Payable
  <2>4. ~ IsNextPending(o.ms, m, k)
    <3>1. m < j
      BY <2>1 DEF OrderInv, PendingIsSuffix, Payable, Milestones
    <3> QED
      BY <2>1, <3>1 DEF IsNextPending
  <2> QED
    BY <1>2, <2>2, <2>3, <2>4
<1>6. NeverStalls(p)
  <2> SUFFICES ASSUME NEW j \in Milestones, p.ms[j].state = "pending"
               PROVE  \E k \in Milestones : Payable(p.ms[k])
    BY DEF NeverStalls
  <2>1. j # m /\ o.ms[j].state = "pending"
    BY <1>2, <1>3, <1>4
  <2>2. m < j
    BY <2>1 DEF OrderInv, PendingIsSuffix, Payable, Milestones
  <2>3. PICK k \in Milestones : IsNextPending(o.ms, m, k)
    <3> DEFINE T == {i \in Milestones : m < i /\ o.ms[i].state = "pending"}
    <3>1. T \in SUBSET Nat /\ T # {}
      BY <2>1, <2>2 DEF Milestones
    <3>2. PICK i \in T : \A h \in T : i <= h
      BY <3>1, LeastMember, Zenon
    <3> QED
      BY <3>1, <3>2 DEF IsNextPending, Milestones
  <2> QED
    BY <1>2, <1>4, <2>3 DEF Payable, IsNextPending, Milestones
<1>7. PausedHasCause(p)
  BY <1>2, <1>3, <1>4 DEF OrderInv, PausedHasCause
<1>8. SettledIsBase(p)
  BY <1>2, <1>3, <1>4 DEF OrderInv, SettledIsBase
<1>9. CompletedIsDone(p)
  <2>1. CASE \A k \in Milestones : k = m \/ o.ms[k].state = "settled"
    BY <2>1, <1>2, <1>3 DEF CompletedIsDone, IsNextPending
  <2>2. CASE ~ \A k \in Milestones : k = m \/ o.ms[k].state = "settled"
    BY <2>2, <1>2, <1>3, <1>4 DEF OrderInv, CompletedIsDone, IsNextPending
  <2> QED
    BY <2>1, <2>2
<1> QED
  BY <1>2, <1>5, <1>6, <1>7, <1>8, <1>9 DEF OrderInv, p

(* The invariant as it reads for a single milestone. *)
MilestoneOK(x) ==
  /\ x.state = "paused" =>
       Disconnected \in x.flags \/ Overrun(x) \/ x.dispute # "none"
  /\ x.state = "settled" \/ x.dispute # "none" => x.settled = x.base

Done(x) == x.state = "settled" \/ x.dispute # "none"

(* Every milestone of a well-formed order is well formed by itself. *)
LEMMA MilestoneParts ==
  ASSUME NEW o, OrderInv(o), NEW m \in Milestones
  PROVE  o.ms[m] \in Milestone /\ MilestoneOK(o.ms[m])
<1>1. o \in Order
  BY DEF OrderInv
<1>2. o.ms[m] \in Milestone
  BY <1>1, OrderParts
<1> QED
  BY <1>2 DEF OrderInv, PausedHasCause, SettledIsBase, MilestoneOK

(* An update that starts or stops no milestone keeps the order well formed *)
(* as soon as the new milestone is.                                        *)
LEMMA PointInv ==
  ASSUME NEW o, OrderInv(o), NEW m \in Milestones,
         NEW x \in Milestone, NEW st \in OrderStatuses,
         x.state = "pending" <=> o.ms[m].state = "pending",
         Payable(o.ms[m]) => Payable(x),
         MilestoneOK(x),
         st = "completed" => o.status = "completed" /\ (Done(o.ms[m]) => Done(x))
  PROVE  OrderInv([status |-> st, ms |-> [o.ms EXCEPT ![m] = x]])
<1> DEFINE p == [status |-> st, ms |-> [o.ms EXCEPT ![m] = x]]
<1>1. o \in Order
  BY DEF OrderInv
<1>2. /\ p \in Order
      /\ p.status = st
      /\ \A k \in Milestones : p.ms[k] = IF k = m THEN x ELSE o.ms[k]
  BY <1>1, PointUpdate
<1> HIDE DEF p
<1>3. PendingIsSuffix(p)
  BY <1>2 DEF OrderInv, PendingIsSuffix
<1>4. NeverStalls(p)
  BY <1>2 DEF OrderInv, NeverStalls
<1>5. PausedHasCause(p)
  BY <1>2 DEF OrderInv, PausedHasCause, MilestoneOK
<1>6. SettledIsBase(p)
  BY <1>2 DEF OrderInv, SettledIsBase, MilestoneOK
<1>7. CompletedIsDone(p)
  BY <1>2 DEF OrderInv, CompletedIsDone, Done
<1> QED
  BY <1>2, <1>3, <1>4, <1>5, <1>6, <1>7 DEF OrderInv, p

(* RecordUsageCharge pauses only on an overrun, which explains the pause. *)
LEMMA RecordUsageInv ==
  ASSUME NEW o, OrderInv(o), NEW m \in Milestones, AcceptsUsage(o.ms[m]),
         NEW amount \in Int, amount > 0
  PROVE  OrderInv(RecordUsage(o, m, amount))
<1> DEFINE c == Charged(o.ms[m], amount)
<1>1. o.ms[m] \in Milestone /\ MilestoneOK(o.ms[m])
  BY MilestoneParts
<1>2. /\ c \in Milestone /\ c.usage = o.ms[m].usage + amount
      /\ c.state = o.ms[m].state /\ c.base = o.ms[m].base
      /\ c.budget = o.ms[m].budget /\ c.settled = o.ms[m].settled
      /\ c.dispute = o.ms[m].dispute /\ c.flags = o.ms[m].flags
  BY <1>1 DEF Charged, Milestone
<1>3. o.status \in OrderStatuses
  BY OrderParts DEF OrderInv
<1> HIDE DEF c
<1>4. CASE Overrun(c)
  <2>1. /\ Paused(c) \in Milestone /\ Paused(c).state = "paused"
        /\ Overrun(Paused(c)) /\ Paused(c).dispute = c.dispute
        /\ Paused(c).settled = c.settled /\ Paused(c).base = c.base
    BY <1>2, <1>4 DEF Paused, Milestone, MilestoneStates, Overrun, CurrentSpendCents
  <2>2. MilestoneOK(Paused(c))
    BY <1>1, <1>2, <2>1 DEF MilestoneOK
  <2>3. "awaiting_budget" \in OrderStatuses
    BY DEF OrderStatuses
  <2>4. OrderInv([status |-> "awaiting_budget", ms |-> [o.ms EXCEPT ![m] = Paused(c)]])
    BY <2>1, <2>2, <2>3, PointInv DEF AcceptsUsage, Payable
  <2> QED
    BY <1>4, <2>4 DEF RecordUsage, c
<1>5. CASE ~ Overrun(c)
  <2>1. MilestoneOK(c)
    BY <1>1, <1>2 DEF MilestoneOK, Overrun, CurrentSpendCents, Milestone
  <2>2. OrderInv([status |-> o.status, ms |-> [o.ms EXCEPT ![m] = c]])
    BY <1>2, <1>3, <2>1, PointInv DEF Payable, Done
  <2> QED
    BY <1>5, <2>2 DEF RecordUsage, c
<1> QED
  BY <1>4, <1>5

(* OpenDispute and ResolveDispute touch a milestone that was settled. *)
LEMMA FreezeInv ==
  ASSUME NEW o, OrderInv(o), NEW m \in Milestones, o.ms[m].state = "settled"
  PROVE  OrderInv(Freeze(o, m))
<1> DEFINE x == Frozen(o.ms[m])
<1>1. o.ms[m] \in Milestone /\ MilestoneOK(o.ms[m]) /\ o.status \in OrderStatuses
  BY MilestoneParts, OrderParts DEF OrderInv
<1>2. /\ x \in Milestone /\ x.state = "paused" /\ x.dispute = "frozen"
      /\ x.settled = o.ms[m].settled /\ x.base = o.ms[m].base
  BY <1>1, Zenon DEF Frozen, Milestone, MilestoneStates, DisputeStatuses
<1> HIDE DEF x
<1>3. OrderInv([status |-> o.status, ms |-> [o.ms EXCEPT ![m] = x]])
  BY <1>1, <1>2, PointInv DEF MilestoneOK, Payable, Done
<1> QED
  BY <1>3 DEF Freeze, x

(* Resolving a dispute keeps the order well formed. *)
LEMMA ResolveInv ==
  ASSUME NEW o, OrderInv(o), NEW m \in Milestones, CanResolve(o.ms[m])
  PROVE  OrderInv(Resolve(o, m))
<1> DEFINE x == Resolved(o.ms[m])
<1>1. o.ms[m] \in Milestone /\ MilestoneOK(o.ms[m]) /\ o.status \in OrderStatuses
  BY MilestoneParts, OrderParts DEF OrderInv
<1>2. /\ x \in Milestone /\ x.state = o.ms[m].state /\ x.dispute = "resolved"
      /\ x.settled = o.ms[m].settled /\ x.base = o.ms[m].base
  BY <1>1 DEF Resolved, Milestone, DisputeStatuses
<1> HIDE DEF x
<1>3. OrderInv([status |-> o.status, ms |-> [o.ms EXCEPT ![m] = x]])
  BY <1>1, <1>2, PointInv DEF MilestoneOK, Payable, Done, CanResolve
<1> QED
  BY <1>3 DEF Resolve, x

(* TopUpMilestone either only raises the budget or restarts the milestone. *)
LEMMA TopUpInv ==
  ASSUME NEW o, OrderInv(o), NEW m \in Milestones, NEW additional \in Int, additional > 0
  PROVE  OrderInv(TopUp(o, m, additional))
<1> DEFINE f == Funded(o.ms[m], additional)
<1>1. o.ms[m] \in Milestone /\ MilestoneOK(o.ms[m]) /\ o.status \in OrderStatuses
  BY MilestoneParts, OrderParts DEF OrderInv
<1>2. /\ f \in Milestone /\ f.state = o.ms[m].state /\ f.dispute = o.ms[m].dispute
      /\ f.settled = o.ms[m].settled /\ f.base = o.ms[m].base
  BY <1>1 DEF Funded, Milestone
<1> HIDE DEF f
<1>3. CASE o.ms[m].state = "paused"
  <2>1. /\ Started(f) \in Milestone /\ Started(f).state = "running"
        /\ Started(f).dispute = f.dispute
        /\ Started(f).settled = f.settled /\ Started(f).base = f.base
    BY <1>2 DEF Started, Milestone, MilestoneStates
  <2>2. MilestoneOK(Started(f))
    BY <1>1, <1>2, <2>1 DEF MilestoneOK
  <2>3. "running" \in OrderStatuses
    BY DEF OrderStatuses
  <2>4. OrderInv([status |-> "running", ms |-> [o.ms EXCEPT ![m] = Started(f)]])
    BY <1>3, <2>1, <2>2, <2>3, PointInv DEF Payable
  <2> QED
    BY <1>3, <2>4 DEF TopUp, f
<1>4. CASE o.ms[m].state # "paused"
  <2>1. MilestoneOK(f)
    BY <1>1, <1>2, <1>4 DEF MilestoneOK
  <2>2. OrderInv([status |-> o.status, ms |-> [o.ms EXCEPT ![m] = f]])
    BY <1>1, <1>2, <2>1, PointInv DEF Payable, Done
  <2> QED
    BY <1>4, <2>2 DEF TopUp, f
<1> QED
  BY <1>3, <1>4

(* The same for an operator that rewrites every milestone. *)
LEMMA MapInv ==
  ASSUME NEW o, OrderInv(o), NEW g, NEW st \in OrderStatuses,
         g \in [Milestones -> Milestone],
         \A m \in Milestones :
            /\ g[m].state = "pending" <=> o.ms[m].state = "pending"
            /\ Payable(o.ms[m]) => Payable(g[m])
            /\ MilestoneOK(g[m])
            /\ Done(o.ms[m]) => Done(g[m]),
         st = "completed" => o.status = "completed"
  PROVE  OrderInv([status |-> st, ms |-> g])
<1> DEFINE p == [status |-> st, ms |-> g]
<1>1. p \in Order /\ p.status = st /\ p.ms = g
  BY DEF Order
<1> HIDE DEF p
<1>2. PendingIsSuffix(p)
  BY <1>1 DEF OrderInv, PendingIsSuffix
<1>3. NeverStalls(p)
  BY <1>1 DEF OrderInv, NeverStalls
<1>4. PausedHasCause(p) /\ SettledIsBase(p)
  BY <1>1 DEF PausedHasCause, SettledIsBase, MilestoneOK
<1>5. CompletedIsDone(p)
  BY <1>1 DEF OrderInv, CompletedIsDone, Done
<1> QED
  BY <1>1, <1>2, <1>3, <1>4, <1>5 DEF OrderInv, p

(* A disconnect pauses running milestones and flags them, so that the      *)
(* pause has its cause; it cannot complete the order.                      *)
LEMMA RailDownInv ==
  ASSUME NEW o, OrderInv(o)
  PROVE  OrderInv(RailDown(o))
<1> DEFINE g == [m \in Milestones |-> Severed(o.ms[m])]
<1>1. ASSUME NEW m \in Milestones
      PROVE  /\ Severed(o.ms[m]) \in Milestone
             /\ Severed(o.ms[m]).state = "pending" <=> o.ms[m].state = "pending"
             /\ Payable(o.ms[m]) => Payable(Severed(o.ms[m]))
             /\ MilestoneOK(Severed(o.ms[m]))
             /\ Done(o.ms[m]) => Done(Severed(o.ms[m]))
  <2> DEFINE x == o.ms[m]
             y == Severed(x)
  <2>1. x \in Milestone /\ MilestoneOK(x)
    BY MilestoneParts
  <2> HIDE DEF x
  <2>2. /\ y \in Milestone /\ Disconnected \in y.flags
        /\ y.state = IF x.state = "running" THEN "paused" ELSE x.state
        /\ y.dispute = x.dispute /\ y.settled = x.settled /\ y.base = x.base
    BY <2>1, Zenon DEF Severed, Milestone, MilestoneStates, Flags
  <2> HIDE DEF y
  <2> QED
    BY <2>1, <2>2 DEF MilestoneOK, Done, Payable, x, y
<1>2. g \in [Milestones -> Milestone] /\ \A m \in Milestones : g[m] = Severed(o.ms[m])
  BY <1>1
<1>3. "awaiting_payment_rail" \in OrderStatuses
  BY DEF OrderStatuses
<1>4. RailDown(o) = [status |-> "awaiting_payment_rail", ms |-> g]
  BY DEF RailDown
<1> HIDE DEF g
<1> QED
  BY <1>1, <1>2, <1>3, <1>4, MapInv

(* Recovery restarts exactly the paused milestones that carry the flag. *)
LEMMA RailUpInv ==
  ASSUME NEW o, OrderInv(o)
  PROVE  OrderInv(RailUp(o))
<1> DEFINE g == [m \in Milestones |-> Reconnected(o.ms[m])]
           st == IF o.status = "awaiting_payment_rail" THEN "running" ELSE o.status
<1>1. ASSUME NEW m \in Milestones
      PROVE  /\ Reconnected(o.ms[m]) \in Milestone
             /\ Reconnected(o.ms[m]).state = "pending" <=> o.ms[m].state = "pending"
             /\ Payable(o.ms[m]) => Payable(Reconnected(o.ms[m]))
             /\ MilestoneOK(Reconnected(o.ms[m]))
             /\ Done(o.ms[m]) => Done(Reconnected(o.ms[m]))
  <2> DEFINE x == o.ms[m]
             y == Reconnected(x)
  <2>1. x \in Milestone /\ MilestoneOK(x)
    BY MilestoneParts
  <2> HIDE DEF x
  <2>2. CASE x.state = "paused" /\ Disconnected \in x.flags
    <3>1. /\ y \in Milestone /\ y.state = "running"
          /\ y.dispute = x.dispute /\ y.settled = x.settled /\ y.base = x.base
      BY <2>1, <2>2, Zenon DEF Reconnected, Milestone, MilestoneStates
    <3> HIDE DEF y
    <3> QED
      BY <2>1, <2>2, <3>1 DEF MilestoneOK, Done, Payable, x, y
  <2>3. CASE ~ (x.state = "paused" /\ Disconnected \in x.flags)
    BY <2>1, <2>3 DEF Reconnected, x
  <2> QED
    BY <2>2, <2>3
<1>2. g \in [Milestones -> Milestone] /\ \A m \in Milestones : g[m] = Reconnected(o.ms[m])
  BY <1>1
<1>3. st \in OrderStatuses /\ (st = "completed" => o.status = "completed")
  BY OrderParts DEF OrderInv, OrderStatuses
<1>4. RailUp(o) = [status |-> st, ms |-> g]
  BY DEF RailUp
<1> HIDE DEF g, st
<1> QED
  BY <1>1, <1>2, <1>3, <1>4, MapInv

-----------------------------------------------------------------------------
(* What no handler undoes: prices are fixed, usage and budget only grow,   *)
(* and a started milestone stays started.                                  *)
Monotone(o, p) ==
  \A k \in Milestones :
     /\ p.ms[k].base = o.ms[k].base
     /\ p.ms[k].usage >= o.ms[k].usage
     /\ p.ms[k].budget >= o.ms[k].budget
     /\ p.ms[k].state = "pending" => o.ms[k].state = "pending"

(* A step that neither settles nor disputes a milestone. *)
Quiet(o, p) ==
  \A k \in Milestones :
     /\ p.ms[k].state = "settled" <=> o.ms[k].state = "settled"
     /\ p.ms[k].state = "settled" => p.ms[k].settled = o.ms[k].settled
     /\ Done(p.ms[k]) => Done(o.ms[k])
     /\ p.ms[k].dispute = "frozen" => o.ms[k].dispute = "frozen"

(* Settling a milestone is monotone. *)
LEMMA SettleMonotone ==
  ASSUME NEW o \in Order, NEW m \in Milestones
  PROVE  Monotone(o, Settle(o, m))
<1> DEFINE p == Settle(o, m)
           y == FlagAnomalies(PaidOut(o.ms[m]))
<1>1. \A k \in Milestones : o.ms[k] \in Milestone
  BY OrderParts
<1>2. \A k \in Milestones :
        p.ms[k] = IF k = m THEN y
                  ELSE IF IsNextPending(o.ms, m, k) THEN Started(o.ms[k])
                  ELSE o.ms[k]
  BY SettleFields
<1>3. /\ y.state = "settled" /\ y.base = o.ms[m].base
      /\ y.usage = o.ms[m].usage /\ y.budget = o.ms[m].budget
  BY <1>1, SettledFields
<1>4. \A k \in Milestones :
        /\ Started(o.ms[k]).state = "running"
        /\ Started(o.ms[k]).base = o.ms[k].base
        /\ Started(o.ms[k]).usage = o.ms[k].usage
        /\ Started(o.ms[k]).budget = o.ms[k].budget
  BY <1>1 DEF Started, Milestone
<1>5. \A k \in Milestones : o.ms[k].usage \in Nat /\ o.ms[k].budget \in Nat
  BY <1>1 DEF Milestone
<1> HIDE DEF p, y
<1>6. Monotone(o, p)
  BY <1>2, <1>3, <1>4, <1>5 DEF Monotone
<1> QED
  BY <1>6 DEF p

(* A usage charge is monotone and quiet, and touches the order status only
   to wait for budget. *)
LEMMA RecordUsageQuiet ==
  ASSUME NEW o \in Order, NEW m \in Milestones, AcceptsUsage(o.ms[m]),
         NEW amount \in Int, amount > 0
  PROVE  LET p == RecordUsage(o, m, amount)
         IN  /\ Monotone(o, p) /\ Quiet(o, p)
             /\ p.status \in {o.status, "awaiting_budget"}
<1> DEFINE c == Charged(o.ms[m], amount)
           x == IF Overrun(c) THEN Paused(c) ELSE c
           p == RecordUsage(o, m, amount)
<1>1. o.ms \in [Milestones -> Milestone] /\ \A k \in Milestones : o.ms[k] \in Milestone
  BY OrderParts
<1>2. /\ c \in Milestone /\ c.usage = o.ms[m].usage + amount
      /\ c.base = o.ms[m].base /\ c.budget = o.ms[m].budget
      /\ c.settled = o.ms[m].settled
      /\ c.dispute = o.ms[m].dispute /\ c.state = o.ms[m].state
  BY <1>1 DEF Charged, Milestone
<1> HIDE DEF c
<1>3. /\ x.usage = c.usage /\ x.base = c.base /\ x.budget = c.budget
      /\ x.dispute = c.dispute /\ x.state \in {c.state, "paused"}
  BY <1>2 DEF Paused, Milestone
<1>4. /\ \A k \in Milestones : p.ms[k] = IF k = m THEN x ELSE o.ms[k]
      /\ p.status \in {o.status, "awaiting_budget"}
  BY <1>1 DEF RecordUsage, c
<1>5. \A k \in Milestones : o.ms[k].usage \in Nat /\ o.ms[k].budget \in Nat
  BY <1>1 DEF Milestone
<1> HIDE DEF x, p
<1>6. Monotone(o, p)
  BY <1>2, <1>3, <1>4, <1>5 DEF Monotone, AcceptsUsage
<1>7. Quiet(o, p)
  BY <1>2, <1>3, <1>4 DEF Quiet, Done, AcceptsUsage
<1> QED
  BY <1>4, <1>6, <1>7 DEF p

(* Opening a dispute is monotone and pauses exactly the disputed milestone. *)
LEMMA FreezeFields ==
  ASSUME NEW o \in Order, NEW m \in Milestones, o.ms[m].state = "settled"
  PROVE  LET p == Freeze(o, m)
         IN  /\ Monotone(o, p)
             /\ p.status = o.status
             /\ p.ms[m].state = "paused"
             /\ \A k \in Milestones : k # m => p.ms[k] = o.ms[k]
<1> DEFINE x == Frozen(o.ms[m])
           p == Freeze(o, m)
<1>1. o.ms \in [Milestones -> Milestone] /\ \A k \in Milestones : o.ms[k] \in Milestone
  BY OrderParts
<1>2. /\ x.usage = o.ms[m].usage /\ x.base = o.ms[m].base
      /\ x.budget = o.ms[m].budget /\ x.state = "paused"
  BY <1>1 DEF Frozen, Milestone
<1>3. /\ \A k \in Milestones : p.ms[k] = IF k = m THEN x ELSE o.ms[k]
      /\ p.status = o.status
  BY <1>1 DEF Freeze
<1>4. \A k \in Milestones : o.ms[k].usage \in Nat /\ o.ms[k].budget \in Nat
  BY <1>1 DEF Milestone
<1> HIDE DEF x, p
<1>5. Monotone(o, p)
  BY <1>2, <1>3, <1>4 DEF Monotone
<1> QED
  BY <1>2, <1>3, <1>5 DEF p

(* Resolving a dispute is monotone and quiet. *)
LEMMA ResolveQuiet ==
  ASSUME NEW o \in Order, NEW m \in Milestones, CanResolve(o.ms[m])
  PROVE  LET p == Resolve(o, m)
         IN  Monotone(o, p) /\ Quiet(o, p) /\ p.status = o.status
<1> DEFINE x == Resolved(o.ms[m])
           p == Resolve(o, m)
<1>1. o.ms \in [Milestones -> Milestone] /\ \A k \in Milestones : o.ms[k] \in Milestone
  BY OrderParts
<1>2. /\ x.usage = o.ms[m].usage /\ x.base = o.ms[m].base
      /\ x.budget = o.ms[m].budget /\ x.state = o.ms[m].state
      /\ x.dispute = "resolved" /\ x.settled = o.ms[m].settled
  BY <1>1 DEF Resolved, Milestone
<1>3. /\ \A k \in Milestones : p.ms[k] = IF k = m THEN x ELSE o.ms[k]
      /\ p.status = o.status
  BY <1>1 DEF Resolve
<1>4. \A k \in Milestones : o.ms[k].usage \in Nat /\ o.ms[k].budget \in Nat
  BY <1>1 DEF Milestone
<1> HIDE DEF x, p
<1>5. Monotone(o, p)
  BY <1>2, <1>3, <1>4 DEF Monotone
<1>6. Quiet(o, p)
  BY <1>2, <1>3 DEF Quiet, Done, CanResolve
<1> QED
  BY <1>3, <1>5, <1>6 DEF p

(* A top-up is monotone and quiet; the order keeps its status or runs. *)
LEMMA TopUpQuiet ==
  ASSUME NEW o \in Order, NEW m \in Milestones, NEW additional \in Int, additional > 0
  PROVE  LET p == TopUp(o, m, additional)
         IN  Monotone(o, p) /\ Quiet(o, p) /\ p.status \in {o.status, "running"}
<1> DEFINE f == Funded(o.ms[m], additional)
           x == IF o.ms[m].state = "paused" THEN Started(f) ELSE f
           p == TopUp(o, m, additional)
<1>1. o.ms \in [Milestones -> Milestone] /\ \A k \in Milestones : o.ms[k] \in Milestone
  BY OrderParts
<1>2. /\ f \in Milestone /\ f.state = o.ms[m].state /\ f.dispute = o.ms[m].dispute
      /\ f.settled = o.ms[m].settled /\ f.base = o.ms[m].base
      /\ f.usage = o.ms[m].usage /\ f.budget = o.ms[m].budget + additional
  BY <1>1 DEF Funded, Milestone
<1> HIDE DEF f
<1>3. /\ x.usage = f.usage /\ x.base = f.base /\ x.budget = f.budget
      /\ x.dispute = f.dispute /\ x.settled = f.settled
      /\ x.state = IF o.ms[m].state = "paused" THEN "running" ELSE o.ms[m].state
  BY <1>2 DEF Started, Milestone
<1>4. /\ \A k \in Milestones : p.ms[k] = IF k = m THEN x ELSE o.ms[k]
      /\ p.status \in {o.status, "running"}
  BY <1>1 DEF TopUp, f
<1>5. \A k \in Milestones : o.ms[k].usage \in Nat /\ o.ms[k].budget \in Nat
  BY <1>1 DEF Milestone
<1> HIDE DEF x, p
<1>6. Monotone(o, p)
  BY <1>2, <1>3, <1>4, <1>5 DEF Monotone
<1>7. Quiet(o, p)
  BY <1>2, <1>3, <1>4 DEF Quiet, Done
<1> QED
  BY <1>4, <1>6, <1>7 DEF p

(* Losing the rail is monotone and quiet, and the order waits for the rail. *)
LEMMA RailDownQuiet ==
  ASSUME NEW o \in Order
  PROVE  LET p == RailDown(o)
         IN  Monotone(o, p) /\ Quiet(o, p) /\ p.status = "awaiting_payment_rail"
<1> DEFINE p == RailDown(o)
<1>1. /\ p.status = "awaiting_payment_rail"
      /\ \A k \in Milestones : p.ms[k] = Severed(o.ms[k]) /\ o.ms[k] \in Milestone
  BY OrderParts DEF RailDown
<1>2. ASSUME NEW x \in Milestone
      PROVE  /\ Severed(x).base = x.base /\ Severed(x).settled = x.settled
             /\ Severed(x).usage = x.usage /\ Severed(x).budget = x.budget
             /\ Severed(x).dispute = x.dispute
             /\ Severed(x).state = IF x.state = "running" THEN "paused" ELSE x.state
             /\ x.usage \in Nat /\ x.budget \in Nat
  BY DEF Severed, Milestone
<1> HIDE DEF p
<1>3. Monotone(o, p) /\ Quiet(o, p)
  BY <1>1, <1>2 DEF Monotone, Quiet, Done
<1> QED
  BY <1>1, <1>3 DEF p

(* Resuming after a recovery is monotone and quiet. *)
LEMMA RailUpQuiet ==
  ASSUME NEW o \in Order
  PROVE  LET p == RailUp(o)
         IN  /\ Monotone(o, p) /\ Quiet(o, p)
             /\ p.status = IF o.status = "awaiting_payment_rail" THEN "running" ELSE o.status
<1> DEFINE p == RailUp(o)
<1>1. /\ p.status = IF o.status = "awaiting_payment_rail" THEN "running" ELSE o.status
      /\ \A k \in Milestones : p.ms[k] = Reconnected(o.ms[k]) /\ o.ms[k] \in Milestone
  BY OrderParts DEF RailUp
<1>2. ASSUME NEW x \in Milestone
      PROVE  /\ Reconnected(x).base = x.base /\ Reconnected(x).settled = x.settled
             /\ Reconnected(x).usage = x.usage /\ Reconnected(x).budget = x.budget
             /\ Reconnected(x).dispute = x.dispute
             /\ Reconnected(x).state # x.state =>
                  x.state = "paused" /\ Reconnected(x).state = "running"
             /\ x.usage \in Nat /\ x.budget \in Nat
  BY DEF Reconnected, Milestone
<1> HIDE DEF p
<1>3. Monotone(o, p) /\ Quiet(o, p)
  BY <1>1, <1>2 DEF Monotone, Quiet, Done
<1> QED
  BY <1>1, <1>3 DEF p

-----------------------------------------------------------------------------
(* Sums.  SumFunctionOnSet is defined by a CHOOSE of a recursive function  *)
(* on the parts of the set, so its recursion has to be derived first.      *)

(* The member a fold of the community modules takes out of a set first. *)
Pick(s) == CHOOSE x \in s : TRUE

(* g is the sum of f over each member of D, by the recursion the folds are *)
(* defined with.                                                           *)
IsSum(f, D, g) ==
  g = [s \in D |-> IF s = {} THEN 0 ELSE f[Pick(s)] + g[s \ {Pick(s)}]]

(* The parts of S with at most n members. *)
UpTo(S, n) == {s \in SUBSET S : Cardinality(s) <= n}

(* A sum is the value of the function that fulfils its recursion. *)
LEMMA SumIsChosen ==
  ASSUME NEW f, NEW S
  PROVE  SumFunctionOnSet(f, S) = (CHOOSE g : IsSum(f, SUBSET S, g))[S]
BY DEF SumFunctionOnSet, FoldFunctionOnSet, MapThenFoldSet, IsSum, Pick

(* The member picked is a member. *)
LEMMA PickIn ==
  ASSUME NEW s, s # {}
  PROVE  Pick(s) \in s
BY DEF Pick

(* Taking a member out of a finite set makes it smaller by one. *)
LEMMA Smaller ==
  ASSUME NEW S, IsFiniteSet(S), NEW s \in SUBSET S, NEW x \in s
  PROVE  /\ IsFiniteSet(s) /\ Cardinality(s) \in Nat \ {0}
         /\ IsFiniteSet(s \ {x}) /\ Cardinality(s \ {x}) = Cardinality(s) - 1
<1>1. IsFiniteSet(s)
  BY FS_Subset
<1>2. IsFiniteSet(s \ {x}) /\ Cardinality(s \ {x}) = Cardinality(s) - 1
  BY <1>1, FS_RemoveElement
<1>3. Cardinality(s) \in Nat /\ Cardinality(s \ {x}) \in Nat
  BY <1>1, <1>2, FS_CardinalityType
<1> QED
  BY <1>1, <1>2, <1>3

(* The recursion has a solution on the parts of a finite set with at most  *)
(* n members, for every n: the least n without one would contradict the    *)
(* solution for n - 1.                                                     *)
LEMMA SumExistsUpTo ==
  ASSUME NEW f, NEW S, IsFiniteSet(S)
  PROVE  \A n \in Nat : \E g : IsSum(f, UpTo(S, n), g)
<1> DEFINE Bad == {n \in Nat : ~ \E g : IsSum(f, UpTo(S, n), g)}
<1> SUFFICES ASSUME Bad # {} PROVE FALSE
  OBVIOUS
<1>1. PICK n \in Bad : \A m \in Bad : n <= m
  BY LeastMember, Zenon
<1>2. n # 0
  <2> DEFINE g == [s \in UpTo(S, 0) |-> 0]
  <2>1. \A s \in UpTo(S, 0) : s = {}
    <3> TAKE s \in UpTo(S, 0)
    <3>1. s \in SUBSET S /\ Cardinality(s) <= 0
      BY DEF UpTo
    <3>2. IsFiniteSet(s) /\ Cardinality(s) \in Nat
      BY <3>1, FS_Subset, FS_CardinalityType
    <3> QED
      BY <3>1, <3>2, FS_EmptySet
  <2>2. IsSum(f, UpTo(S, 0), g)
    BY <2>1 DEF IsSum
  <2> QED
    BY <2>2
<1>3. n - 1 \in Nat /\ n - 1 \notin Bad
  BY <1>1, <1>2
<1>4. PICK h : IsSum(f, UpTo(S, n - 1), h)
  BY <1>3
<1> DEFINE g == [s \in UpTo(S, n) |-> IF s = {} THEN 0 ELSE f[Pick(s)] + h[s \ {Pick(s)}]]
<1>5. \A s \in UpTo(S, n) : s # {} => s \ {Pick(s)} \in UpTo(S, n - 1)
  <2> SUFFICES ASSUME NEW s \in UpTo(S, n), s # {}
               PROVE  s \ {Pick(s)} \in UpTo(S, n - 1)
    OBVIOUS
  <2>1. s \in SUBSET S /\ Cardinality(s) <= n /\ Pick(s) \in s
    BY PickIn DEF UpTo
  <2>2. Cardinality(s) \in Nat \ {0} /\ Cardinality(s \ {Pick(s)}) = Cardinality(s) - 1
    BY <2>1, Smaller
  <2> QED
    BY <2>1, <2>2, <1>3 DEF UpTo
<1>6. UpTo(S, n - 1) \subseteq UpTo(S, n)
  <2> SUFFICES ASSUME NEW s \in UpTo(S, n - 1) PROVE s \in UpTo(S, n)
    OBVIOUS
  <2>1. s \in SUBSET S /\ Cardinality(s) <= n - 1
    BY DEF UpTo
  <2>2. Cardinality(s) \in Nat
    BY <2>1, FS_Subset, FS_CardinalityType
  <2> QED
    BY <2>1, <2>2, <1>3 DEF UpTo
<1>7. \A s \in UpTo(S, n - 1) : g[s] = h[s]
  BY <1>4, <1>6, Zenon DEF IsSum
<1>8. \A s \in UpTo(S, n) : s # {} => g[s \ {Pick(s)}] = h[s \ {Pick(s)}]
  BY <1>5, <1>7, Zenon
<1>9. IsSum(f, UpTo(S, n), g)
  BY <1>8, Zenon DEF IsSum
<1> QED
  BY <1>9, <1>1

(* So it has one on all parts of a finite set. *)
LEMMA SumExists ==
  ASSUME NEW f, NEW S, IsFiniteSet(S)
  PROVE  \E g : IsSum(f, SUBSET S, g)
<1>1. Cardinality(S) \in Nat
  BY FS_CardinalityType
<1>2. \A s \in SUBSET S : Cardinality(s) <= Cardinality(S)
  <2> TAKE s \in SUBSET S
  <2> QED
    BY FS_Subset
<1>3. UpTo(S, Cardinality(S)) = SUBSET S
  <2>1. \A s \in SUBSET S : s \in UpTo(S, Cardinality(S))
    BY <1>2 DEF UpTo
  <2>2. \A s \in UpTo(S, Cardinality(S)) : s \in SUBSET S
    BY DEF UpTo
  <2> QED
    BY <2>1, <2>2, Zenon
<1> QED
  <2>1. \A n \in Nat : \E g : IsSum(f, UpTo(S, n), g)
    BY SumExistsUpTo, Zenon
  <2>2. \E g : IsSum(f, UpTo(S, Cardinality(S)), g)
    BY <1>1, <2>1, Zenon
  <2> QED
    BY <1>3, <2>2, Zenon

(* A non-empty family of parts of a finite set has a member none of whose  *)
(* parts with one member less is in the family: what takes the place of    *)
(* induction over finite sets below.                                       *)
LEMMA MinimalSet ==
  ASSUME NEW S, IsFiniteSet(S), NEW B \in SUBSET SUBSET S, B # {}
  PROVE  \E s \in B : \A x \in s : s \ {x} \notin B
<1> DEFINE T == {Cardinality(s) : s \in B}
<1>1. T \in SUBSET Nat /\ T # {}
  BY FS_Subset, FS_CardinalityType
<1>2. PICK n \in T : \A m \in T : n <= m
  BY <1>1, LeastMember, Zenon
<1>3. PICK s \in B : n = Cardinality(s)
  OBVIOUS
<1>4. ASSUME NEW x \in s, s \ {x} \in B PROVE FALSE
  <2>1. Cardinality(s) \in Nat /\ Cardinality(s \ {x}) = Cardinality(s) - 1
    BY Smaller, Zenon
  <2>2. Cardinality(s) <= Cardinality(s \ {x})
    BY <1>2, <1>3, <1>4
  <2> QED
    BY <2>1, <2>2
<1> QED
  BY <1>4

(* Any solution of the recursion gives the sums. *)
LEMMA SumOfParts ==
  ASSUME NEW f, NEW S, IsFiniteSet(S), NEW g, IsSum(f, SUBSET S, g),
         NEW T \in SUBSET S
  PROVE  g[T] = SumFunctionOnSet(f, T)
<1> DEFINE h == CHOOSE h : IsSum(f, SUBSET T, h)
           B == {s \in SUBSET T : g[s] # h[s]}
<1>1. IsFiniteSet(T)
  BY FS_Subset, Zenon
<1>2. IsSum(f, SUBSET T, h)
  BY <1>1, SumExists, Zenon
<1>3. SumFunctionOnSet(f, T) = h[T]
  BY SumIsChosen, Zenon
<1> HIDE DEF h
<1>4. ASSUME B # {} PROVE FALSE
  <2>1. PICK s \in B : \A x \in s : s \ {x} \notin B
    BY <1>1, <1>4, MinimalSet, Zenon
  <2>2. s # {} => g[s \ {Pick(s)}] = h[s \ {Pick(s)}]
    BY <2>1, PickIn, Zenon
  <2>3. s \in SUBSET S /\ s \in SUBSET T
    OBVIOUS
  <2>4. g[s] = IF s = {} THEN 0 ELSE f[Pick(s)] + g[s \ {Pick(s)}]
    BY <2>3, Zenon DEF IsSum
  <2>5. h[s] = IF s = {} THEN 0 ELSE f[Pick(s)] + h[s \ {Pick(s)}]
    BY <1>2, <2>3, Zenon DEF IsSum
  <2>6. g[s] = h[s]
    BY <2>2, <2>4, <2>5
  <2> QED
    BY <2>6
<1>5. g[T] = h[T]
  BY <1>4
<1> QED
  BY <1>3, <1>5, Zenon

(* A sum is the value of the member picked and the sum over the rest. *)
LEMMA SumUnfolds ==
  ASSUME NEW f, NEW S, IsFiniteSet(S)
  PROVE  /\ S = {} => SumFunctionOnSet(f, S) = 0
         /\ S # {} => SumFunctionOnSet(f, S) = f[Pick(S)] + SumFunctionOnSet(f, S \ {Pick(S)})
<1>1. PICK g : IsSum(f, SUBSET S, g)
  BY SumExists, Zenon
<1>2. \A T \in SUBSET S : g[T] = SumFunctionOnSet(f, T)
  BY <1>1, SumOfParts, Zenon
<1>3. g[S] = SumFunctionOnSet(f, S) /\ g[S \ {Pick(S)}] = SumFunctionOnSet(f, S \ {Pick(S)})
  BY <1>2, Zenon
<1>4. g[S] = IF S = {} THEN 0 ELSE f[Pick(S)] + g[S \ {Pick(S)}]
  BY <1>1, Zenon DEF IsSum
<1> QED
  BY <1>3, <1>4, Zenon

(* The sum over no members is zero. *)
LEMMA SumEmpty ==
  ASSUME NEW f
  PROVE  SumFunctionOnSet(f, {}) = 0
<1>1. IsFiniteSet({})
  BY FS_EmptySet, Zenon
<1> QED
  BY <1>1, SumUnfolds, Zenon

(* A sum of integers is an integer. *)
LEMMA SumInt ==
  ASSUME NEW f, NEW S, IsFiniteSet(S), \A x \in S : f[x] \in Int
  PROVE  SumFunctionOnSet(f, S) \in Int
<1> DEFINE B == {s \in SUBSET S : SumFunctionOnSet(f, s) \notin Int}
<1> SUFFICES ASSUME B # {} PROVE FALSE
  OBVIOUS
<1>2. PICK s \in B : \A x \in s : s \ {x} \notin B
  BY MinimalSet, Zenon
<1>3. IsFiniteSet(s)
  BY FS_Subset
<1>4. s # {}
  BY SumEmpty
<1>5. Pick(s) \in s /\ f[Pick(s)] \in Int
  BY <1>4, PickIn
<1>6. SumFunctionOnSet(f, s \ {Pick(s)}) \in Int
  BY <1>2, <1>5
<1>7. SumFunctionOnSet(f, s) = f[Pick(s)] + SumFunctionOnSet(f, s \ {Pick(s)})
  BY <1>3, <1>4, SumUnfolds
<1> QED
  BY <1>5, <1>6, <1>7

(* A sum of zeros is zero. *)
LEMMA SumZero ==
  ASSUME NEW f, NEW S, IsFiniteSet(S), \A x \in S : f[x] = 0
  PROVE  SumFunctionOnSet(f, S) = 0
<1> DEFINE B == {s \in SUBSET S : SumFunctionOnSet(f, s) # 0}
<1> SUFFICES ASSUME B # {} PROVE FALSE
  OBVIOUS
<1>2. PICK s \in B : \A x \in s : s \ {x} \notin B
  BY MinimalSet, Zenon
<1>3. IsFiniteSet(s)
  BY FS_Subset
<1>4. s # {}
  BY SumEmpty
<1>5. Pick(s) \in s /\ f[Pick(s)] = 0
  BY <1>4, PickIn
<1>6. SumFunctionOnSet(f, s \ {Pick(s)}) = 0
  BY <1>2, <1>5
<1>7. SumFunctionOnSet(f, s) = f[Pick(s)] + SumFunctionOnSet(f, s \ {Pick(s)})
  BY <1>3, <1>4, SumUnfolds
<1> QED
  BY <1>5, <1>6, <1>7

(* The order of summation does not matter: any member may be taken out     *)
(* first.                                                                  *)
LEMMA SumRemove ==
  ASSUME NEW f, NEW S, IsFiniteSet(S), \A x \in S : f[x] \in Int, NEW x \in S
  PROVE  SumFunctionOnSet(f, S) = f[x] + SumFunctionOnSet(f, S \ {x})
<1> DEFINE B == {s \in SUBSET S : \E y \in s : SumFunctionOnSet(f, s) # f[y] + SumFunctionOnSet(f, s \ {y})}
<1> SUFFICES ASSUME B # {} PROVE FALSE
  BY Zenon
<1>1. PICK s \in B : \A y \in s : s \ {y} \notin B
  BY MinimalSet, Zenon
<1>2. PICK y \in s : SumFunctionOnSet(f, s) # f[y] + SumFunctionOnSet(f, s \ {y})
  OBVIOUS
<1>3. Pick(s) \in s /\ IsFiniteSet(s)
  BY PickIn, FS_Subset
<1>4. SumFunctionOnSet(f, s) = f[Pick(s)] + SumFunctionOnSet(f, s \ {Pick(s)})
  BY <1>3, SumUnfolds
<1>5. y # Pick(s)
  BY <1>2, <1>4, Zenon
<1>6. SumFunctionOnSet(f, s \ {Pick(s)}) = f[y] + SumFunctionOnSet(f, (s \ {Pick(s)}) \ {y})
  BY <1>1, <1>3, <1>5, Zenon
<1>7. SumFunctionOnSet(f, s \ {y}) = f[Pick(s)] + SumFunctionOnSet(f, (s \ {y}) \ {Pick(s)})
  BY <1>1, <1>3, <1>5, Zenon
<1> DEFINE r == (s \ {Pick(s)}) \ {y}
<1>8. (s \ {y}) \ {Pick(s)} = r
  OBVIOUS
<1>9. r \in SUBSET S
  OBVIOUS
<1> HIDE DEF r
<1>10. SumFunctionOnSet(f, r) \in Int
  <2>1. IsFiniteSet(r) /\ \A z \in r : f[z] \in Int
    BY <1>9, FS_Subset
  <2> QED
    BY <2>1, SumInt
<1>11. f[y] \in Int /\ f[Pick(s)] \in Int
  BY <1>3
<1>12. SumFunctionOnSet(f, s) = f[Pick(s)] + (f[y] + SumFunctionOnSet(f, r))
  BY <1>4, <1>6, Zenon DEF r
<1>13. SumFunctionOnSet(f, s \ {y}) = f[Pick(s)] + SumFunctionOnSet(f, r)
  BY <1>7, <1>8, Zenon
<1> QED
  BY <1>2, <1>10, <1>11, <1>12, <1>13

(* A part of a finite set is finite, and so is its sum an integer. *)
LEMMA FinitePart ==
  ASSUME NEW S, IsFiniteSet(S), NEW f, \A x \in S : f[x] \in Int, NEW s \in SUBSET S
  PROVE  IsFiniteSet(s) /\ SumFunctionOnSet(f, s) \in Int
<1>1. IsFiniteSet(s)
  BY FS_Subset, Zenon
<1>2. \A x \in s : f[x] \in Int
  OBVIOUS
<1> QED
  BY <1>1, <1>2, SumInt, Zenon

(* Sums are compared term by term. *)
LEMMA SumAtMost ==
  ASSUME NEW f, NEW g, NEW S, IsFiniteSet(S),
         \A x \in S : f[x] \in Int /\ g[x] \in Int /\ f[x] <= g[x]
  PROVE  SumFunctionOnSet(f, S) <= SumFunctionOnSet(g, S)
<1> DEFINE B == {s \in SUBSET S : ~ (SumFunctionOnSet(f, s) <= SumFunctionOnSet(g, s))}
<1> SUFFICES ASSUME B # {} PROVE FALSE
  BY Zenon
<1>1. PICK s \in B : \A x \in s : s \ {x} \notin B
  BY MinimalSet, Zenon
<1>2. s # {}
  BY SumEmpty
<1>3. PICK x \in s : TRUE
  BY <1>2
<1> DEFINE r == s \ {x}
<1>4. IsFiniteSet(s) /\ SumFunctionOnSet(f, r) \in Int /\ SumFunctionOnSet(g, r) \in Int
  <2>1. s \in SUBSET S /\ r \in SUBSET S
    OBVIOUS
  <2>2. (\A y \in S : f[y] \in Int) /\ (\A y \in S : g[y] \in Int)
    OBVIOUS
  <2> HIDE DEF r
  <2> QED
    BY <2>1, <2>2, FinitePart, Zenon
<1>5. SumFunctionOnSet(f, r) <= SumFunctionOnSet(g, r)
  BY <1>1, Zenon
<1>6. SumFunctionOnSet(f, s) = f[x] + SumFunctionOnSet(f, r) /\ SumFunctionOnSet(g, s) = g[x] + SumFunctionOnSet(g, r)
  <2>1. (\A y \in s : f[y] \in Int) /\ (\A y \in s : g[y] \in Int)
    OBVIOUS
  <2> QED
    BY <1>3, <1>4, <2>1, SumRemove
<1>7. f[x] \in Int /\ g[x] \in Int /\ f[x] <= g[x]
  OBVIOUS
<1> HIDE DEF r
<1>8. SumFunctionOnSet(f, s) <= SumFunctionOnSet(g, s)
  BY <1>4, <1>5, <1>6, <1>7
<1> QED
  BY <1>8

(* Functions that agree on the set have the same sum. *)
LEMMA SumEqual ==
  ASSUME NEW f, NEW g, NEW S, IsFiniteSet(S), \A x \in S : f[x] \in Int /\ g[x] = f[x]
  PROVE  SumFunctionOnSet(f, S) = SumFunctionOnSet(g, S)
<1>1. (\A x \in S : f[x] \in Int /\ g[x] \in Int /\ f[x] <= g[x])
      /\ (\A x \in S : g[x] \in Int /\ f[x] \in Int /\ g[x] <= f[x])
  OBVIOUS
<1>2. SumFunctionOnSet(f, S) <= SumFunctionOnSet(g, S) /\ SumFunctionOnSet(g, S) <= SumFunctionOnSet(f, S)
  BY <1>1, SumAtMost, Zenon
<1>3. (\A x \in S : f[x] \in Int) /\ (\A x \in S : g[x] \in Int)
  OBVIOUS
<1>4. SumFunctionOnSet(f, S) \in Int /\ SumFunctionOnSet(g, S) \in Int
  BY <1>3, SumInt, Zenon
<1> QED
  BY <1>2, <1>4

(* Changing the value of one member changes the sum by the difference. *)
LEMMA SumUpdate ==
  ASSUME NEW f, NEW g, NEW S, IsFiniteSet(S), NEW z \in S,
         \A x \in S : f[x] \in Int /\ g[x] \in Int,
         \A x \in S : x # z => g[x] = f[x]
  PROVE  SumFunctionOnSet(g, S) = SumFunctionOnSet(f, S) + (g[z] - f[z])
<1> DEFINE r == S \ {z}
<1>1. r \in SUBSET S /\ (\A x \in S : f[x] \in Int) /\ (\A x \in S : g[x] \in Int)
  OBVIOUS
<1>2. \A x \in r : f[x] \in Int /\ g[x] = f[x]
  OBVIOUS
<1>3. SumFunctionOnSet(f, S) = f[z] + SumFunctionOnSet(f, r) /\ SumFunctionOnSet(g, S) = g[z] + SumFunctionOnSet(g, r)
  BY <1>1, SumRemove
<1> HIDE DEF r
<1>4. IsFiniteSet(r) /\ SumFunctionOnSet(f, r) \in Int
  BY <1>1, FinitePart, Zenon
<1>5. SumFunctionOnSet(f, r) = SumFunctionOnSet(g, r)
  BY <1>2, <1>4, SumEqual, Zenon
<1>6. f[z] \in Int /\ g[z] \in Int
  OBVIOUS
<1> QED
  BY <1>3, <1>4, <1>5, <1>6

(* A sum of naturals is a natural number, and no term exceeds it. *)
LEMMA SumOfNats ==
  ASSUME NEW f, NEW S, IsFiniteSet(S), \A x \in S : f[x] \in Nat
  PROVE  /\ SumFunctionOnSet(f, S) \in Nat
         /\ \A x \in S : f[x] <= SumFunctionOnSet(f, S)
<1>1. \A T \in SUBSET S : SumFunctionOnSet(f, T) \in Nat
  <2> DEFINE B == {s \in SUBSET S : SumFunctionOnSet(f, s) \notin Nat}
  <2> SUFFICES ASSUME B # {} PROVE FALSE
    BY Zenon
  <2>1. PICK s \in B : \A x \in s : s \ {x} \notin B
    BY MinimalSet, Zenon
  <2>2. PICK x \in s : TRUE
    BY SumEmpty
  <2>3. SumFunctionOnSet(f, s \ {x}) \in Nat
    BY <2>1, Zenon
  <2>4. IsFiniteSet(s) /\ (\A y \in s : f[y] \in Int)
    <3>1. \A y \in s : f[y] \in Int
      OBVIOUS
    <3> QED
      BY <3>1, FS_Subset, Zenon
  <2>5. SumFunctionOnSet(f, s) = f[x] + SumFunctionOnSet(f, s \ {x})
    BY <2>2, <2>4, SumRemove
  <2>6. f[x] \in Nat
    OBVIOUS
  <2>7. SumFunctionOnSet(f, s) \in Nat
    BY <2>3, <2>5, <2>6
  <2> QED
    BY <2>7
<1>2. ASSUME NEW x \in S PROVE f[x] <= SumFunctionOnSet(f, S)
  <2>1. \A y \in S : f[y] \in Int
    OBVIOUS
  <2>2. SumFunctionOnSet(f, S) = f[x] + SumFunctionOnSet(f, S \ {x})
    BY <2>1, SumRemove
  <2>3. S \ {x} \in SUBSET S
    OBVIOUS
  <2>4. SumFunctionOnSet(f, S \ {x}) \in Nat /\ f[x] \in Nat
    BY <1>1, <2>3, Zenon
  <2> QED
    BY <2>2, <2>4
<1> QED
  BY <1>1, <1>2, Zenon

(* A sum is the sum over a part and the sum over the rest. *)
LEMMA SumUnion ==
  ASSUME NEW f, NEW S, IsFiniteSet(S), \A x \in S : f[x] \in Int,
         NEW A \in SUBSET S
  PROVE  SumFunctionOnSet(f, S) = SumFunctionOnSet(f, A) + SumFunctionOnSet(f, S \ A)
<1> DEFINE C == S \ A
           B == {s \in SUBSET A : SumFunctionOnSet(f, C \cup s) # SumFunctionOnSet(f, C) + SumFunctionOnSet(f, s)}
<1>1. ASSUME B # {} PROVE FALSE
  <2>1. IsFiniteSet(A)
    BY FS_Subset, Zenon
  <2>2. PICK s \in B : \A x \in s : s \ {x} \notin B
    BY <1>1, <2>1, MinimalSet, Zenon
  <2>3. SumFunctionOnSet(f, C) \in Int
    <3>1. C \in SUBSET S
      OBVIOUS
    <3> QED
      BY <3>1, FinitePart, Zenon
  <2>4. s # {}
    <3> SUFFICES ASSUME s = {} PROVE FALSE
      OBVIOUS
    <3>1. C \cup s = C
      OBVIOUS
    <3>2. SumFunctionOnSet(f, s) = 0
      BY SumEmpty, Zenon
    <3>3. SumFunctionOnSet(f, C \cup s) = SumFunctionOnSet(f, C)
      BY <3>1, Zenon
    <3> HIDE DEF C
    <3>4. SumFunctionOnSet(f, C \cup s) = SumFunctionOnSet(f, C) + SumFunctionOnSet(f, s)
      BY <2>3, <3>2, <3>3
    <3> QED
      BY <3>4
  <2>5. PICK x \in s : TRUE
    BY <2>4
  <2> DEFINE r == s \ {x}
             u == C \cup s
             v == C \cup r
  <2>6. SumFunctionOnSet(f, v) = SumFunctionOnSet(f, C) + SumFunctionOnSet(f, r)
    BY <2>2, Zenon
  <2>7. u \ {x} = v /\ x \in u /\ u \in SUBSET S /\ s \in SUBSET S /\ r \in SUBSET S
    OBVIOUS
  <2>8. SumFunctionOnSet(f, u) # SumFunctionOnSet(f, C) + SumFunctionOnSet(f, s)
    OBVIOUS
  <2> HIDE DEF u, v, C
  <2>9. SumFunctionOnSet(f, u) = f[x] + SumFunctionOnSet(f, v)
    <3>1. IsFiniteSet(u) /\ \A y \in u : f[y] \in Int
      BY <2>7, FS_Subset
    <3> QED
      BY <2>7, <3>1, SumRemove
  <2>10. SumFunctionOnSet(f, s) = f[x] + SumFunctionOnSet(f, r)
    <3>1. IsFiniteSet(s) /\ \A y \in s : f[y] \in Int
      BY <2>7, FS_Subset
    <3> QED
      BY <3>1, SumRemove
  <2>11. f[x] \in Int /\ SumFunctionOnSet(f, r) \in Int
    BY <2>7, FinitePart
  <2> HIDE DEF r
  <2> QED
    BY <2>3, <2>6, <2>8, <2>9, <2>10, <2>11
<1>2. SumFunctionOnSet(f, C \cup A) = SumFunctionOnSet(f, C) + SumFunctionOnSet(f, A)
  BY <1>1, Zenon
<1>3. C \cup A = S
  OBVIOUS
<1>4. SumFunctionOnSet(f, C) \in Int /\ SumFunctionOnSet(f, A) \in Int
  <2>1. C \in SUBSET S
    OBVIOUS
  <2> QED
    BY <2>1, FinitePart, Zenon
<1>5. SumFunctionOnSet(f, S) = SumFunctionOnSet(f, C) + SumFunctionOnSet(f, A)
  BY <1>2, <1>3, Zenon
<1> HIDE DEF C
<1>6. SumFunctionOnSet(f, S) = SumFunctionOnSet(f, A) + SumFunctionOnSet(f, C)
  BY <1>4, <1>5
<1> QED
  BY <1>6 DEF C

(* An interval without its last number. *)
LEMMA DropLast ==
  ASSUME NEW a \in Int, NEW b \in Int, a <= b
  PROVE  (a .. b) \ {b} = a .. (b - 1) /\ b \in a .. b
OBVIOUS

(* Moving every value one place up an interval keeps the sum. *)
LEMMA SumShift ==
  ASSUME NEW a \in Int, NEW b \in Int, NEW f, NEW g,
         \A i \in a .. b : f[i] \in Int /\ g[i + 1] = f[i]
  PROVE  SumFunctionOnSet(g, (a + 1) .. (b + 1)) = SumFunctionOnSet(f, a .. b)
<1> DEFINE J(n) == a .. (a + n - 1)
           K(n) == (a + 1) .. (a + n)
           B == {n \in Nat : n <= b - a + 1 /\ SumFunctionOnSet(g, K(n)) # SumFunctionOnSet(f, J(n))}
<1>1. ASSUME B # {} PROVE FALSE
  <2>1. PICK n \in B : \A m \in B : n <= m
    BY <1>1, LeastMember, Zenon
  <2>2. n # 0
    <3>1. K(0) = {} /\ J(0) = {}
      OBVIOUS
    <3> QED
      BY <3>1, SumEmpty
  <2>3. n - 1 \in Nat /\ n - 1 \notin B /\ n \in Nat /\ n <= b - a + 1
    BY <2>1, <2>2
  <2>4. SumFunctionOnSet(g, K(n - 1)) = SumFunctionOnSet(f, J(n - 1))
    BY <2>3
  <2>5. K(n) \ {a + n} = K(n - 1) /\ a + n \in K(n)
    <3>1. a + 1 \in Int /\ a + n \in Int /\ a + 1 <= a + n /\ (a + n) - 1 = a + (n - 1)
      BY <2>3
    <3> QED
      BY <3>1, DropLast
  <2>6. J(n) \ {a + n - 1} = J(n - 1) /\ a + n - 1 \in J(n)
    <3>1. a + n - 1 \in Int /\ a <= a + n - 1 /\ (a + n - 1) - 1 = a + (n - 1) - 1
      BY <2>3
    <3> QED
      BY <3>1, DropLast
  <2>7. \A i \in J(n) : f[i] \in Int
    BY <2>3
  <2>8. \A i \in K(n) : g[i] \in Int
    <3> TAKE i \in K(n)
    <3>1. i - 1 \in a .. b /\ (i - 1) + 1 = i
      BY <2>3
    <3> QED
      BY <3>1, Zenon
  <2>9. g[a + n] = f[a + n - 1]
    <3>1. a + n - 1 \in a .. b /\ (a + n - 1) + 1 = a + n
      BY <2>3
    <3> QED
      BY <3>1
  <2>10. IsFiniteSet(K(n)) /\ IsFiniteSet(J(n))
    BY <2>3, FS_Interval
  <2>11. SumFunctionOnSet(g, K(n)) # SumFunctionOnSet(f, J(n))
    BY <2>1
  <2> HIDE DEF K, J
  <2>12. SumFunctionOnSet(g, K(n)) = g[a + n] + SumFunctionOnSet(g, K(n - 1))
    BY <2>5, <2>8, <2>10, SumRemove
  <2>13. SumFunctionOnSet(f, J(n)) = f[a + n - 1] + SumFunctionOnSet(f, J(n - 1))
    BY <2>6, <2>7, <2>10, SumRemove
  <2> QED
    BY <2>4, <2>9, <2>11, <2>12, <2>13
<1>2. CASE b - a + 1 \in Nat
  <2>1. SumFunctionOnSet(g, K(b - a + 1)) = SumFunctionOnSet(f, J(b - a + 1))
    <3>1. \A n \in Nat : n <= b - a + 1 => SumFunctionOnSet(g, K(n)) = SumFunctionOnSet(f, J(n))
      BY <1>1, Zenon
    <3>2. b - a + 1 <= b - a + 1
      OBVIOUS
    <3> HIDE DEF K, J
    <3> QED
      BY <1>2, <3>1, <3>2, Zenon
  <2>2. K(b - a + 1) = (a + 1) .. (b + 1) /\ J(b - a + 1) = a .. b
    OBVIOUS
  <2> QED
    BY <2>1, <2>2
<1>3. CASE b - a + 1 \notin Nat
  <2>1. (a + 1) .. (b + 1) = {} /\ a .. b = {}
    BY <1>3
  <2> QED
    BY <2>1, SumEmpty
<1> QED
  BY <1>2, <1>3

(* The sum over the members of S with the key k. *)
Share(f, S, key, k) == SumFunctionOnSet(f, {x \in S : key[x] = k})

(* Sums over the members with the same key, summed over the keys, give the *)
(* sum over all.                                                           *)
LEMMA SumByKey ==
  ASSUME NEW f, NEW S, IsFiniteSet(S), \A x \in S : f[x] \in Int,
         NEW K, IsFiniteSet(K), NEW key \in [S -> K],
         NEW part, \A k \in K : part[k] = Share(f, S, key, k)
  PROVE  SumFunctionOnSet(part, K) = SumFunctionOnSet(f, S)
<1> DEFINE Of(s) == {x \in S : key[x] \in s}
           B == {s \in SUBSET K : SumFunctionOnSet(part, s) # SumFunctionOnSet(f, Of(s))}
<1>0. \A k \in K : part[k] = SumFunctionOnSet(f, {x \in S : key[x] = k})
  BY Zenon DEF Share
<1>1. \A k \in K : part[k] \in Int
  <2> TAKE k \in K
  <2>1. {x \in S : key[x] = k} \in SUBSET S
    OBVIOUS
  <2>2. SumFunctionOnSet(f, {x \in S : key[x] = k}) \in Int
    BY <2>1, FinitePart
  <2> QED
    BY <1>0, <2>2, Zenon
<1>2. ASSUME B # {} PROVE FALSE
  <2>1. PICK s \in B : \A k \in s : s \ {k} \notin B
    BY <1>2, MinimalSet, Zenon
  <2>2. s # {}
    <3> SUFFICES ASSUME s = {} PROVE FALSE
      OBVIOUS
    <3>1. Of(s) = {}
      OBVIOUS
    <3> QED
      BY <3>1, SumEmpty
  <2>3. PICK k \in s : TRUE
    BY <2>2
  <2> DEFINE r == s \ {k}
             one == {x \in S : key[x] = k}
  <2>4. SumFunctionOnSet(part, r) = SumFunctionOnSet(f, Of(r))
    BY <2>1, Zenon
  <2>5. one \in SUBSET Of(s) /\ Of(s) \ one = Of(r) /\ Of(s) \in SUBSET S /\ Of(r) \in SUBSET S
    OBVIOUS
  <2>6. SumFunctionOnSet(part, s) # SumFunctionOnSet(f, Of(s)) /\ part[k] = SumFunctionOnSet(f, one)
    BY <1>0
  <2> HIDE DEF Of, one
  <2>7. SumFunctionOnSet(f, Of(s)) = SumFunctionOnSet(f, one) + SumFunctionOnSet(f, Of(r))
    <3>1. IsFiniteSet(Of(s)) /\ \A x \in Of(s) : f[x] \in Int
      BY <2>5, FS_Subset
    <3>2. SumFunctionOnSet(f, Of(s)) = SumFunctionOnSet(f, one) + SumFunctionOnSet(f, Of(s) \ one)
      BY <2>5, <3>1, SumUnion
    <3> QED
      BY <2>5, <3>2, Zenon
  <2>8. SumFunctionOnSet(part, s) = part[k] + SumFunctionOnSet(part, r)
    <3>1. IsFiniteSet(s) /\ \A x \in s : part[x] \in Int
      BY <1>1, FS_Subset
    <3> QED
      BY <3>1, SumRemove
  <2> QED
    BY <2>4, <2>6, <2>7, <2>8
<1>3. SumFunctionOnSet(part, K) = SumFunctionOnSet(f, Of(K))
  BY <1>2, Zenon
<1>4. Of(K) = S
  OBVIOUS
<1> QED
  BY <1>3, <1>4, Zenon

(* One more member adds its value. *)
LEMMA SumAdd ==
  ASSUME NEW f, NEW S, IsFiniteSet(S), \A x \in S : f[x] \in Int,
         NEW z, z \notin S, f[z] \in Int
  PROVE  SumFunctionOnSet(f, S \cup {z}) = f[z] + SumFunctionOnSet(f, S)
<1> DEFINE T == S \cup {z}
<1>1. IsFiniteSet(T)
  BY FS_AddElement, Zenon
<1>2. T \ {z} = S /\ z \in T /\ \A x \in T : f[x] \in Int
  OBVIOUS
<1> HIDE DEF T
<1>3. SumFunctionOnSet(f, T) = f[z] + SumFunctionOnSet(f, T \ {z})
  BY <1>1, <1>2, SumRemove
<1> QED
  BY <1>2, <1>3, Zenon DEF T

(* For naturals, the sum over a part is at most the whole. *)
LEMMA SumOfPart ==
  ASSUME NEW f, NEW S, IsFiniteSet(S), \A x \in S : f[x] \in Nat, NEW A \in SUBSET S
  PROVE  /\ SumFunctionOnSet(f, A) \in Nat /\ SumFunctionOnSet(f, S \ A) \in Nat
         /\ SumFunctionOnSet(f, S) = SumFunctionOnSet(f, A) + SumFunctionOnSet(f, S \ A)
         /\ SumFunctionOnSet(f, A) <= SumFunctionOnSet(f, S)
<1> DEFINE B == S \ A
<1>1. B \in SUBSET S
  OBVIOUS
<1>2. \A x \in S : f[x] \in Int
  OBVIOUS
<1> HIDE DEF B
<1>3. IsFiniteSet(A) /\ IsFiniteSet(B)
  BY <1>1, FS_Subset, Zenon
<1>4. SumFunctionOnSet(f, A) \in Nat
  <2>1. \A x \in A : f[x] \in Nat
    OBVIOUS
  <2> QED
    BY <1>3, <2>1, SumOfNats, Zenon
<1>5. SumFunctionOnSet(f, B) \in Nat
  <2>1. \A x \in B : f[x] \in Nat
    BY <1>1
  <2> QED
    BY <1>3, <2>1, SumOfNats, Zenon
<1>6. SumFunctionOnSet(f, S) = SumFunctionOnSet(f, A) + SumFunctionOnSet(f, B)
  BY <1>2, SumUnion DEF B
<1>7. SumFunctionOnSet(f, A) <= SumFunctionOnSet(f, S)
  BY <1>4, <1>5, <1>6
<1> QED
  BY <1>4, <1>5, <1>6, <1>7, Zenon DEF B

(* The larger of two numbers. *)
LEMMA MaxOfTwo ==
  ASSUME NEW a \in Int, NEW b \in Int
  PROVE  Max({a, b}) = IF a >= b THEN a ELSE b
<1> DEFINE m == IF a >= b THEN a ELSE b
<1>1. m \in {a, b} /\ \A y \in {a, b} : m >= y
  OBVIOUS
<1>2. \A x \in {a, b} : (\A y \in {a, b} : x >= y) => x = m
  OBVIOUS
<1> QED
  BY <1>1, <1>2 DEF Max
=============================================================================
