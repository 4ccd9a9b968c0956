------------------------- MODULE MarketplaceProofs --------------------------
(***************************************************************************)
(* The marketplace and the people that use it.                             *)
(*                                                                         *)
(* Awards, for any number of overlapping calls, any bids, prices and       *)
(* parties: AwardedIsBacked, OneWinner, AccessIsKept and the safety part   *)
(* of what ReservationLife promises.                                       *)
(*                                                                         *)
(* Accounts and sessions, for any number of overlapping requests: one      *)
(* account per address, and no request acts without a session.  A request  *)
(* carries what it learnt earlier; the inductive invariant gives every     *)
(* stage of a request its shape and says what of it still holds.           *)
(*                                                                         *)
(* The rate limiter: what a key is admitted in any stretch of a window,    *)
(* for every limit and window.                                             *)
(***************************************************************************)
EXTENDS Marketplace, Sessions, WorkflowProofs

Under == {"reserved", "listed", "ordered"}     \* the reservation is to be decided
Attached == {"attached", "saved", "awarded"}   \* it is attached

(* An award works for a bid that is stored; its progress fixes the state   *)
(* of its reservation and says whether its order is stored.                *)
CallInv(c) ==
  /\ pc[c] # "new" => pick[c] \in Bids /\ bids[pick[c]] # "absent"
  /\ \A b \in todo[c] : bids[b] # "absent"
  /\ pc[c] \in {"new", "checked"} => reservation[c] = "none"
  /\ pc[c] \in Under => reservation[c] = IF pick[c] \in CarrierBids THEN "reserved" ELSE "none"
  /\ pc[c] \in Attached /\ pick[c] \in CarrierBids => reservation[c] = "active"
  /\ pc[c] \in Attached \cup {"ordered"} => c \in orders
  /\ c \in orders => pc[c] \in Attached \cup {"ordered", "failed"}
  /\ reservation[c] = "active" => c \in orders

(* An awarded RFQ, also one that was read before, names a call that has    *)
(* stored it and will not touch its reservation again.                     *)
RFQInv(r) ==
  /\ r.status = "open" => r.bid = 0
  /\ r.status = "awarded" =>
       /\ r.order \in orders
       /\ pc[r.order] \in {"saved", "awarded", "failed"}
       /\ pick[r.order] = r.bid /\ r.bid \in Bids
       /\ r.bid \in CarrierBids => reservation[r.order] = "active"

WithinBudget == \A b \in Bids : bids[b] # "absent" \/ b \in submitting => TotalBudget(b) <= rfq.budget

AwardInv == TypeOK /\ WithinBudget /\ RFQInv(rfq) /\ \A c \in Calls : CallInv(c)

-----------------------------------------------------------------------------
(* A non-empty set of bids has a first one. *)
LEMMA MinIsMember ==
  ASSUME NEW S, S \subseteq Bids, S # {}
  PROVE  Min(S) \in S
<1> DEFINE R == OpToRel(<, Nat)
<1>1. IsWellFoundedOn(R, Nat)
  BY NatLessThanWellFounded, Zenon
<1>2. \A x, y \in Nat : <<y, x>> \in R <=> y < x
  BY DEF OpToRel
<1> HIDE DEF R
<1>3. S \subseteq Nat
  BY ConstAssumption DEF Bids
<1>4. PICK x \in S : \A y \in S : ~(<<y, x>> \in R)
  BY <1>1, <1>3, WFMin, Zenon
<1>5. ASSUME NEW y \in S PROVE x <= y
  <2>1. x \in Nat /\ y \in Nat /\ ~(y < x)
    BY <1>2, <1>3, <1>4, Zenon
  <2> QED
    BY <2>1
<1> QED
  BY <1>5 DEF Min

(* What CreateBid compares with the budget is positive. *)
LEMMA TotalPositive ==
  ASSUME TypeOK, NEW b \in Bids
  PROVE  TotalBudget(b) \in Nat \ {0}
<1>0. rfq.budget \in Nat \ {0} /\ Quoted[b] \in Nat
  BY ConstAssumption, Zenon DEF TypeOK
<1>1. CASE rfq.budget < SmallBudgetThresholdCents
  BY <1>0, <1>1 DEF TotalBudget, Total, DefaultMilestoneSplit
<1>2. CASE ~(rfq.budget < SmallBudgetThresholdCents)
  <2> DEFINE setup == (rfq.budget * SetupPercent) \div 100
             delivery == (rfq.budget * DeliveryPercent) \div 100
  <2>1. setup \in Int /\ delivery \in Int
    BY <1>0, ConstAssumption
  <2>2. DefaultMilestoneSplit(rfq.budget) = <<setup, rfq.budget - setup - delivery, delivery>>
    BY <1>2 DEF DefaultMilestoneSplit
  <2> HIDE DEF setup, delivery
  <2>3. Total(DefaultMilestoneSplit(rfq.budget)) = rfq.budget
    BY <1>0, <2>1, <2>2 DEF Total
  <2> QED
    BY <1>0, <2>3 DEF TotalBudget
<1> QED
  BY <1>1, <1>2

LEMMA InitAward == Init => AwardInv
<1> SUFFICES ASSUME Init PROVE AwardInv
  OBVIOUS
<1>1. PICK budget \in Budgets :
        rfq = [budget |-> budget, status |-> "open", bid |-> 0, order |-> NoCall]
  BY DEF Init
<1>2. TypeOK
  BY <1>1, Zenon DEF Init, TypeOK
<1>3. RFQInv(rfq)
  BY <1>1 DEF RFQInv
<1>4. WithinBudget
  BY DEF Init, WithinBudget
<1>5. \A c \in Calls : CallInv(c)
  BY DEF Init, CallInv, Under, Attached
<1> QED
  BY <1>2, <1>3, <1>4, <1>5 DEF AwardInv

(* A bid is within the budget when it is read as such, and the budget of   *)
(* the RFQ never changes.                                                  *)
LEMMA BudgetStep ==
  ASSUME AwardInv, rfq'.budget = rfq.budget, TypeOK',
         \A b \in Bids : (bids'[b] # "absent" \/ b \in submitting') =>
                          (bids[b] # "absent" \/ b \in submitting \/ TotalBudget(b) <= rfq.budget)
  PROVE  WithinBudget'
BY DEF AwardInv, WithinBudget, TotalBudget

LEMMA BidStep ==
  ASSUME AwardInv, NEW b \in Bids, CreateBid(b) \/ SaveBid(b)
  PROVE  AwardInv'
<1>1. TypeOK'
  BY DEF AwardInv, TypeOK, CreateBid, SaveBid, awardVars
<1>2. WithinBudget'
  BY <1>1, BudgetStep DEF AwardInv, TypeOK, CreateBid, SaveBid
<1>3. RFQInv(rfq)'
  BY DEF AwardInv, RFQInv, CreateBid, SaveBid, awardVars
<1>4. \A c \in Calls : CallInv(c)'
  BY DEF AwardInv, TypeOK, CallInv, CreateBid, SaveBid, awardVars
<1> QED
  BY <1>1, <1>2, <1>3, <1>4 DEF AwardInv

LEMMA BeginStep ==
  ASSUME AwardInv, NEW c \in Calls, NEW b \in Bids, AwardRFQ(c, b)
  PROVE  AwardInv'
<1>1. TypeOK'
  BY DEF AwardInv, TypeOK, AwardRFQ, Goto
<1>2. WithinBudget'
  BY <1>1, BudgetStep DEF AwardRFQ
<1>3. RFQInv(rfq)'
  BY DEF AwardInv, RFQInv, AwardRFQ
<1>4. \A d \in Calls : CallInv(d)'
  BY DEF AwardInv, TypeOK, CallInv, AwardRFQ, Goto, Under, Attached
<1> QED
  BY <1>1, <1>2, <1>3, <1>4 DEF AwardInv

(* The steps of an award but the ones that store bids or the RFQ. *)
LEMMA CallStep ==
  ASSUME AwardInv, NEW c \in Calls, NEW ok \in BOOLEAN, NEW saved \in BOOLEAN,
         \/ Reserve(c, ok) \/ ListByRFQ(c, ok) \/ CreateOrderFor(c, saved, ok)
         \/ AttachReservation(c) \/ PublishAward(c, ok)
  PROVE  AwardInv'
<1>0. /\ UNCHANGED <<rfq, bids, submitting, pick>>
      /\ orders \subseteq orders'
      /\ \A d \in Calls \ {c} : /\ pc'[d] = pc[d] /\ reservation'[d] = reservation[d]
                                /\ d \in orders' => d \in orders
  BY DEF AwardInv, TypeOK, Reserve, ListByRFQ, CreateOrderFor, AttachReservation, PublishAward,
         Abandon, Goto
<1>1. TypeOK'
  <2>1. CASE Reserve(c, ok)
    BY <2>1 DEF AwardInv, TypeOK, Reserve, Goto
  <2>2. CASE ListByRFQ(c, ok)
    <3>1. CASE ok
      BY <2>2, <3>1 DEF AwardInv, TypeOK, ListByRFQ, Goto
    <3>2. CASE ~ok
      BY <2>2, <3>2 DEF AwardInv, TypeOK, ListByRFQ, Abandon, Goto
    <3> QED
      BY <3>1, <3>2
  <2>3. CASE CreateOrderFor(c, saved, ok)
    BY <2>3, ZenonT(30) DEF AwardInv, TypeOK, CreateOrderFor, Abandon, Goto
  <2>4. CASE AttachReservation(c)
    BY <2>4 DEF AwardInv, TypeOK, AttachReservation, Goto
  <2>5. CASE PublishAward(c, ok)
    BY <2>5 DEF AwardInv, TypeOK, PublishAward, Goto
  <2> QED
    BY <2>1, <2>2, <2>3, <2>4, <2>5
<1>2. WithinBudget'
  BY <1>0, <1>1, BudgetStep
<1>3. CallInv(c)'
  <2>1. CASE Reserve(c, ok)
    BY <2>1 DEF AwardInv, TypeOK, CallInv, Reserve, Goto, Under, Attached
  <2>2. CASE ListByRFQ(c, ok)
    BY <2>2 DEF AwardInv, TypeOK, CallInv, ListByRFQ, Abandon, Goto, Under, Attached
  <2>3. CASE CreateOrderFor(c, saved, ok)
    BY <2>3 DEF AwardInv, TypeOK, CallInv, CreateOrderFor, Abandon, Goto, Under, Attached
  <2>4. CASE AttachReservation(c)
    BY <2>4 DEF AwardInv, TypeOK, CallInv, AttachReservation, Goto, Under, Attached
  <2>5. CASE PublishAward(c, ok)
    BY <2>5 DEF AwardInv, TypeOK, CallInv, PublishAward, Goto, Under, Attached
  <2> QED
    BY <2>1, <2>2, <2>3, <2>4, <2>5
<1>4. \A d \in Calls : CallInv(d)'
  <2>1. \A d \in Calls \ {c} : todo'[d] = todo[d]
    BY DEF AwardInv, TypeOK, Reserve, ListByRFQ, CreateOrderFor, AttachReservation, PublishAward
  <2> QED
    BY <1>0, <1>3, <2>1, ZenonT(30) DEF AwardInv, CallInv
<1>5. RFQInv(rfq)'
  <2>1. CASE rfq.status = "awarded" /\ rfq.order = c
    <3>1. PublishAward(c, ok)
      BY <2>1 DEF AwardInv, RFQInv, Reserve, ListByRFQ, CreateOrderFor, AttachReservation
    <3> QED
      BY <2>1, <3>1 DEF AwardInv, TypeOK, RFQInv, PublishAward, Goto
  <2>2. CASE ~(rfq.status = "awarded" /\ rfq.order = c)
    BY <1>0, <2>2 DEF AwardInv, TypeOK, RFQInv
  <2> QED
    BY <2>1, <2>2
<1> QED
  BY <1>1, <1>2, <1>4, <1>5 DEF AwardInv

LEMMA CandidateStep ==
  ASSUME AwardInv, NEW c \in Calls, NEW ok \in BOOLEAN, SaveCandidate(c, ok)
  PROVE  AwardInv'
<1> DEFINE b == Min(todo[c])
<1>0. /\ UNCHANGED <<rfq, submitting, pick, orders, overlapped>>
      /\ pc[c] = "listed" /\ todo[c] # {}
      /\ \/ /\ bids' = [bids EXCEPT ![b] = IF b = pick[c] THEN "awarded" ELSE "rejected"]
            /\ todo' = [todo EXCEPT ![c] = @ \ {b}]
            /\ UNCHANGED <<pc, reservation, failed>>
         \/ Abandon(c) /\ UNCHANGED <<bids, todo>>
  BY DEF SaveCandidate
<1>1. b \in Bids /\ bids[b] # "absent"
  BY <1>0, MinIsMember DEF AwardInv, TypeOK, CallInv
<1> HIDE DEF b
<1>2. TypeOK'
  <2>1. CASE UNCHANGED <<pc, reservation, failed>>
    BY <1>0, <1>1, <2>1 DEF AwardInv, TypeOK, Abandon, Goto
  <2>2. CASE Abandon(c) /\ UNCHANGED <<bids, todo>>
    BY <1>0, <2>2 DEF AwardInv, TypeOK, Abandon, Goto
  <2> QED
    BY <1>0, <2>1, <2>2
<1>3. \A k \in Bids : (bids'[k] # "absent") <=> (bids[k] # "absent")
  BY <1>0, <1>1 DEF AwardInv, TypeOK
<1>4. WithinBudget'
  BY <1>0, <1>2, <1>3, BudgetStep
<1>5. \A d \in Calls :
        /\ todo'[d] \subseteq todo[d]
        /\ \/ pc'[d] = pc[d] /\ reservation'[d] = reservation[d]
           \/ pc'[d] = "failed" /\ pc[d] = "listed" /\ reservation'[d] \in {"none", "released"}
  BY <1>0 DEF AwardInv, TypeOK, Abandon, Goto
<1>6. \A d \in Calls : CallInv(d)'
  BY <1>0, <1>3, <1>5 DEF AwardInv, TypeOK, CallInv, Under, Attached
<1>7. RFQInv(rfq)'
  BY <1>0, <1>5 DEF AwardInv, TypeOK, RFQInv
<1> QED
  BY <1>2, <1>4, <1>6, <1>7 DEF AwardInv

LEMMA SaveRFQStep ==
  ASSUME AwardInv, NEW c \in Calls, NEW ok \in BOOLEAN, SaveRFQ(c, ok)
  PROVE  AwardInv'
<1>0. c \in orders /\ pick[c] \in Bids /\ (pick[c] \in CarrierBids => reservation[c] = "active")
  BY DEF AwardInv, CallInv, SaveRFQ, Attached
<1>1. TypeOK'
  BY <1>0, Zenon DEF AwardInv, TypeOK, SaveRFQ, Goto
<1>2. WithinBudget'
  BY <1>1, BudgetStep DEF AwardInv, TypeOK, SaveRFQ
<1>3. \A d \in Calls : CallInv(d)'
  BY <1>0 DEF AwardInv, TypeOK, CallInv, SaveRFQ, Goto, Under, Attached
<1>4. RFQInv(rfq)'
  BY <1>0 DEF AwardInv, TypeOK, RFQInv, SaveRFQ, Goto
<1> QED
  BY <1>1, <1>2, <1>3, <1>4 DEF AwardInv

LEMMA AwardStep == AwardInv /\ [Next]_vars => AwardInv'
<1> SUFFICES ASSUME AwardInv, [Next]_vars PROVE AwardInv'
  OBVIOUS
<1>1. CASE UNCHANGED vars
  BY <1>1 DEF vars, AwardInv, TypeOK, WithinBudget, TotalBudget, RFQInv, CallInv
<1>2. ASSUME NEW b \in Bids, CreateBid(b) \/ SaveBid(b) PROVE AwardInv'
  BY <1>2, BidStep
<1>3. ASSUME NEW c \in Calls, NEW b \in Bids, AwardRFQ(c, b) PROVE AwardInv'
  BY <1>3, BeginStep
<1>4. ASSUME NEW c \in Calls, Continue(c) PROVE AwardInv'
  BY <1>4, CallStep, CandidateStep, SaveRFQStep, Zenon DEF Continue
<1> QED
  BY <1>1, <1>2, <1>3, <1>4 DEF Next

LEMMA BackedByInv == AwardInv => AwardedIsBacked
<1> SUFFICES ASSUME AwardInv PROVE AwardedIsBacked
  OBVIOUS
<1>1. ASSUME rfq.status = "awarded" PROVE TotalBudget(rfq.bid) \in 1 .. rfq.budget
  <2>1. rfq.order \in Calls /\ rfq.bid \in Bids /\ bids[rfq.bid] # "absent"
    BY <1>1 DEF AwardInv, TypeOK, RFQInv, CallInv
  <2>2. TotalBudget(rfq.bid) \in Nat \ {0} /\ TotalBudget(rfq.bid) <= rfq.budget
    BY <2>1, TotalPositive DEF AwardInv, WithinBudget
  <2> QED
    BY <2>2, ConstAssumption DEF AwardInv, TypeOK
<1> QED
  BY <1>1 DEF AwardInv, AwardedIsBacked, RFQInv, CallInv

(* An awarded RFQ names a stored order of the bid it names, within the     *)
(* budget and with its liquidity, whatever failed and whoever else was     *)
(* awarding, and an active reservation has an order (AwardRFQ): for any    *)
(* number of overlapping awards and any bids.                              *)
THEOREM AwardBacked == MarketSpec => []AwardedIsBacked
<1>1. MarketInit => AwardInv
  BY InitAward DEF MarketInit
<1>2. AwardInv /\ [MarketNext]_allVars => AwardInv'
  BY AwardStep, Zenon DEF MarketNext, allVars, vars, handleListRFQs, handleListRFQBids,
     handleCreateRFQMessage, AuthorizeMessage, CreateRFQMessage, handleCreateMessage
<1> QED
  BY <1>1, <1>2, BackedByInv, PTL DEF MarketSpec

-----------------------------------------------------------------------------
(* AwardRFQ makes, attaches and releases a reservation only as             *)
(* ReservationLife allows: no step attaches what was not reserved, gives   *)
(* back twice or reserves again.                                           *)
THEOREM KeepsReservationLife == Spec => Life!Spec
<1>1. Init => Life!Init
  BY DEF Init, Life!Init
<1>2. AwardInv /\ [Next]_vars => [Life!Next]_reservation
  <2> SUFFICES ASSUME AwardInv, [Next]_vars, reservation' # reservation PROVE Life!Next
    OBVIOUS
  <2>1. PICK c \in Calls : Continue(c)
    BY DEF Next, vars, CreateBid, SaveBid, AwardRFQ, awardVars
  <2>2. \/ \E ok \in BOOLEAN : Reserve(c, ok) \/ ListByRFQ(c, ok) \/ SaveCandidate(c, ok)
        \/ \E saved, published \in BOOLEAN : CreateOrderFor(c, saved, published)
        \/ AttachReservation(c)
    BY <2>1 DEF Continue, SaveRFQ, PublishAward
  <2>3. CASE Abandon(c) /\ pc[c] \in Under
    <3>1. reservation[c] = "reserved"
      BY <2>3 DEF AwardInv, TypeOK, CallInv, Abandon
    <3> QED
      BY <2>3, <3>1, Zenon DEF Abandon, Life!Next, Life!Release, Life!Become
  <2>4. CASE AttachReservation(c)
    <3>1. reservation[c] = "reserved"
      BY <2>4 DEF AwardInv, TypeOK, CallInv, AttachReservation, Under
    <3> QED
      BY <2>4, <3>1, Zenon DEF AttachReservation, Life!Next, Life!Attach, Life!Become
  <2>5. ASSUME NEW ok \in BOOLEAN, Reserve(c, ok) PROVE Life!Next
    <3>1. reservation[c] = "none" /\ reservation' = [reservation EXCEPT ![c] = "reserved"]
      BY <2>5, Zenon DEF AwardInv, CallInv, Reserve
    <3> QED
      BY <3>1, Zenon DEF Life!Next, Life!Reserve, Life!Become
  <2> QED
    BY <2>2, <2>3, <2>4, <2>5, Zenon DEF ListByRFQ, SaveCandidate, CreateOrderFor, Under
<1> QED
  BY <1>1, <1>2, InitAward, AwardStep, PTL DEF Spec, Life!Spec

-----------------------------------------------------------------------------
(* Access that was given stays. *)

RFQRecords == [budget : Budgets, status : {"open", "awarded"}, bid : Bids \cup {0},
               order : Calls \cup {NoCall}]

(* The buyer, the operators and everyone with a bid. *)
Party(a) == a \in {Buyer, Ops} \/ \E b \in Submitted : ProviderOf[b] = a

(* Copies of the RFQ that are shown or being looked at stay true of the    *)
(* orders they name; whoever may write is a party.                         *)
MarketInv ==
  /\ \A r \in shown.rfqs : RFQInv(r) /\ (r.status = "awarded" =>
                                           shown.to \in {Buyer, Ops, ProviderOf[r.bid]})
  /\ shown.rfqs \subseteq RFQRecords
  /\ writing.pc \in {"none", "authorize", "save"}
  /\ writing.pc = "authorize" /\ writing.rfq.bid # 0 => writing.rfq.bid \in Submitted
  /\ writing.pc = "save" => Party(writing.by)
  /\ \A a \in thread : Party(a)
  /\ \A m \in orderThread : m[1] \in orders /\ m[2] \in {Buyer, Ops, ProviderOf[pick[m[1]]]}

(* What no step of an award takes back. *)
Stable ==
  /\ orders \subseteq orders'
  /\ \A c \in orders : pick'[c] = pick[c]
  /\ \A c \in Calls : pc[c] \in {"saved", "awarded", "failed"} =>
       pc'[c] \in {"saved", "awarded", "failed"} /\ reservation'[c] = reservation[c]
  /\ Submitted \subseteq Submitted'

LEMMA AwardsAreStable == AwardInv /\ [Next]_vars => Stable
<1> SUFFICES ASSUME AwardInv, [Next]_vars PROVE Stable
  OBVIOUS
<1>0. orders \subseteq Calls /\ \A c \in orders : pc[c] # "new"
  BY DEF AwardInv, TypeOK, CallInv, Attached
<1>1. CASE UNCHANGED vars
  BY <1>1 DEF vars, Stable, Submitted
<1>2. ASSUME NEW b \in Bids, CreateBid(b) \/ SaveBid(b) PROVE Stable
  BY <1>2 DEF AwardInv, TypeOK, Stable, Submitted, CreateBid, SaveBid, awardVars
<1>3. ASSUME NEW c \in Calls, NEW b \in Bids, AwardRFQ(c, b) PROVE Stable
  BY <1>0, <1>3 DEF AwardInv, TypeOK, Stable, Submitted, AwardRFQ, Goto
<1>4. ASSUME NEW c \in Calls, NEW ok \in BOOLEAN, NEW saved \in BOOLEAN,
             \/ Reserve(c, ok) \/ ListByRFQ(c, ok) \/ CreateOrderFor(c, saved, ok)
             \/ AttachReservation(c) \/ SaveRFQ(c, ok) \/ PublishAward(c, ok)
      PROVE  Stable
  BY <1>4 DEF AwardInv, TypeOK, Stable, Submitted, Reserve, ListByRFQ, CreateOrderFor,
     AttachReservation, SaveRFQ, PublishAward, Abandon, Goto
<1>5. ASSUME NEW c \in Calls, NEW ok \in BOOLEAN, SaveCandidate(c, ok) PROVE Stable
  <2>1. \A k \in Bids : bids[k] # "absent" => bids'[k] # "absent"
    BY <1>5 DEF AwardInv, TypeOK, SaveCandidate
  <2> QED
    BY <1>5, <2>1 DEF AwardInv, TypeOK, Stable, Submitted, SaveCandidate, Abandon, Goto
<1> QED
  BY <1>1, <1>2, <1>3, <1>4, <1>5, Zenon DEF Next, Continue

LEMMA RFQStable ==
  ASSUME AwardInv, Stable, NEW r, RFQInv(r)
  PROVE  RFQInv(r)'
BY DEF AwardInv, TypeOK, Stable, RFQInv

LEMMA AwardKeepsMarket ==
  ASSUME AwardInv, MarketInv, Stable, UNCHANGED marketVars
  PROVE  MarketInv'
<1>1. UNCHANGED <<shown, writing, thread, orderThread>>
  BY DEF marketVars
<1>2. \A r \in shown.rfqs : RFQInv(r)'
  BY RFQStable, Zenon DEF MarketInv
<1>3. \A a : Party(a) => Party(a)'
  BY DEF Party, Stable
<1> QED
  BY <1>1, <1>2, <1>3 DEF MarketInv, Stable

LEMMA RequestKeepsMarket ==
  ASSUME AwardInv, MarketInv, UNCHANGED vars, NEW a \in Actors,
         \/ handleListRFQs(a) \/ handleListRFQBids(a) \/ handleCreateRFQMessage(a)
         \/ AuthorizeMessage \/ \E c \in Calls : handleCreateMessage(c, a)
         \/ \E saved \in BOOLEAN : CreateRFQMessage(saved)
  PROVE  MarketInv'
<1>0. /\ UNCHANGED <<orders, pick, Submitted>>
      /\ \A r : RFQInv(r)' <=> RFQInv(r)
      /\ \A b : Party(b)' <=> Party(b)
  BY DEF vars, Submitted, RFQInv, Party
<1>1. rfq \in RFQRecords /\ RFQInv(rfq) /\ (rfq.bid # 0 => rfq.bid \in Submitted)
  BY DEF AwardInv, TypeOK, RFQRecords, RFQInv, CallInv, Submitted
<1>2. CASE handleListRFQs(a)
  BY <1>0, <1>1, <1>2, Zenon DEF MarketInv, handleListRFQs, filterRFQsForActor, RFQRecords
<1>3. CASE handleListRFQBids(a)
  BY <1>0, <1>3, Zenon DEF MarketInv, handleListRFQBids
<1>4. CASE handleCreateRFQMessage(a)
  BY <1>0, <1>1, <1>4, Zenon DEF MarketInv, handleCreateRFQMessage
<1>5. CASE AuthorizeMessage
  BY <1>0, <1>5, Zenon DEF MarketInv, AuthorizeMessage, authorizeRFQForActor, Party, NoMessage
<1>6. ASSUME NEW c \in Calls, handleCreateMessage(c, a) PROVE MarketInv'
  <2>1. \A m \in orderThread' : m[1] \in orders /\ m[2] \in {Buyer, Ops, ProviderOf[pick[m[1]]]}
    <3>1. orderThread' = orderThread \cup {<<c, a>>} /\ c \in orders /\ a \in {Buyer, Ops, ProviderOf[pick[c]]}
      BY <1>6, Zenon DEF handleCreateMessage, authorizeOrderForActor
    <3>2. \A m \in orderThread : m[1] \in orders /\ m[2] \in {Buyer, Ops, ProviderOf[pick[m[1]]]}
      BY Zenon DEF MarketInv
    <3> QED
      BY ONLY <3>1, <3>2
  <2>2. UNCHANGED <<shown, writing, thread>>
    BY <1>6, Zenon DEF handleCreateMessage
  <2> QED
    BY <1>0, <2>1, <2>2, Zenon DEF MarketInv
<1>7. ASSUME NEW saved \in BOOLEAN, CreateRFQMessage(saved) PROVE MarketInv'
  <2>1. writing'.pc = "none"
    BY <1>7 DEF CreateRFQMessage, NoMessage
  <2>2. UNCHANGED <<shown, orderThread>> /\ \A b \in thread' : Party(b)
    BY <1>7, Zenon DEF MarketInv, CreateRFQMessage
  <2>3. writing'.pc \notin {"authorize", "save"} /\ writing'.pc \in {"none", "authorize", "save"}
    BY <2>1
  <2> QED
    BY <1>0, <2>2, <2>3, Zenon DEF MarketInv
<1> QED
  BY <1>2, <1>3, <1>4, <1>5, <1>6, <1>7, Zenon

(* Whoever was shown an award can open its order, every author keeps       *)
(* access to the thread, and an order's thread is its parties' alone: for  *)
(* any parties, bids and overlapping awards (the filters and the           *)
(* authorisation of the gateway).                                          *)
THEOREM AccessKept == MarketSpec => []AccessIsKept
<1>1. MarketInit => AwardInv /\ MarketInv
  <2>1. MarketInit => MarketInv
    <3> SUFFICES ASSUME MarketInit PROVE MarketInv
      OBVIOUS
    <3>1. shown.rfqs = {} /\ writing.pc = "none" /\ thread = {} /\ orderThread = {}
      BY Zenon DEF MarketInit, Nothing, NoMessage
    <3>2. writing.pc \notin {"authorize", "save"} /\ writing.pc \in {"none", "authorize", "save"}
      BY <3>1
    <3> QED
      BY <3>1, <3>2, Zenon DEF MarketInv
  <2> QED
    BY <2>1, InitAward, Zenon DEF MarketInit
<1>2. AwardInv /\ MarketInv /\ [MarketNext]_allVars => AwardInv' /\ MarketInv'
  <2> SUFFICES ASSUME AwardInv, MarketInv, [MarketNext]_allVars PROVE AwardInv' /\ MarketInv'
    OBVIOUS
  <2>1. CASE [Next]_vars /\ UNCHANGED marketVars
    BY <2>1, AwardStep, AwardsAreStable, AwardKeepsMarket
  <2>2. ASSUME UNCHANGED vars, NEW a \in Actors,
               \/ handleListRFQs(a) \/ handleListRFQBids(a) \/ handleCreateRFQMessage(a)
               \/ AuthorizeMessage \/ \E c \in Calls : handleCreateMessage(c, a)
               \/ \E saved \in BOOLEAN : CreateRFQMessage(saved)
        PROVE  AwardInv' /\ MarketInv'
    BY <2>2, AwardStep, RequestKeepsMarket
  <2>3. Buyer \in Actors
    BY DEF Actors
  <2>4. MarketNext /\ ~(Next /\ UNCHANGED marketVars) => UNCHANGED vars
    BY Zenon DEF MarketNext, handleListRFQs, handleListRFQBids, handleCreateRFQMessage,
       AuthorizeMessage, CreateRFQMessage, handleCreateMessage
  <2> QED
    BY <2>1, <2>2, <2>3, <2>4 DEF MarketNext, allVars
<1>3. AwardInv /\ MarketInv => AccessIsKept
  <2> SUFFICES ASSUME AwardInv, MarketInv PROVE AccessIsKept
    OBVIOUS
  <2>1. ShownAwardCanBeOpened
    BY Zenon DEF MarketInv, RFQInv, ShownAwardCanBeOpened, filterOrdersForActor, authorizeOrderForActor
  <2>2. AuthorsKeepAccess
    BY Zenon DEF MarketInv, Party, AuthorsKeepAccess, authorizeRFQForActor, filterOrdersForActor
  <2> QED
    BY <2>1, <2>2 DEF AccessIsKept
<1> QED
  BY <1>1, <1>2, <1>3, PTL DEF MarketSpec

-----------------------------------------------------------------------------
(* Awards that do not overlap. *)

Active(c) == pc[c] \notin {"new", "failed", "awarded"}

(* The bids an award has gone through are decided; a bid on its way is not *)
(* stored yet.                                                             *)
Progress ==
  /\ \A c \in Calls : pc[c] \in {"ordered", "attached"} => todo[c] = {}
  /\ \A b \in submitting : bids[b] = "absent"

(* At most one award is under way, and nothing is stored of others: orders *)
(* and awarded bids are its own, until they are the RFQ's.                 *)
Serial ==
  /\ \A c, d \in Calls : Active(c) /\ Active(d) => c = d
  /\ rfq.status = "awarded" =>
       /\ \A c \in Calls : Active(c) => c = rfq.order
       /\ \A c \in orders : c = rfq.order
       /\ \A b \in Bids : bids[b] = "awarded" <=> b = rfq.bid
  /\ rfq.status = "open" =>
       /\ \A c \in orders : pc[c] \in {"ordered", "attached"}
       /\ \A b \in Bids : bids[b] = "awarded" =>
            \E c \in Calls : pc[c] \in {"listed", "ordered", "attached"} /\ pick[c] = b
       /\ \A c \in Calls : pc[c] \in {"listed", "ordered", "attached"} =>
            pick[c] \in todo[c] \/ bids[pick[c]] = "awarded"

SerialInv == Progress /\ (~overlapped /\ ~failed => Serial)

LEMMA InitSerial == Init => SerialInv
BY DEF Init, SerialInv, Progress, Serial, Active

LEMMA ProgressStep ==
  ASSUME AwardInv, Progress, Next
  PROVE  Progress'
<1>1. ASSUME NEW b \in Bids, CreateBid(b) \/ SaveBid(b) PROVE Progress'
  BY <1>1 DEF AwardInv, TypeOK, Progress, CreateBid, SaveBid, awardVars
<1>2. ASSUME NEW c \in Calls, NEW b \in Bids, AwardRFQ(c, b) PROVE Progress'
  BY <1>2 DEF AwardInv, TypeOK, Progress, AwardRFQ, Goto
<1>3. ASSUME NEW c \in Calls, NEW ok \in BOOLEAN, NEW saved \in BOOLEAN,
             \/ Reserve(c, ok) \/ ListByRFQ(c, ok) \/ CreateOrderFor(c, saved, ok)
             \/ AttachReservation(c) \/ SaveRFQ(c, ok) \/ PublishAward(c, ok)
      PROVE  Progress'
  BY <1>3 DEF AwardInv, TypeOK, Progress, Reserve, ListByRFQ, CreateOrderFor,
     AttachReservation, SaveRFQ, PublishAward, Abandon, Goto
<1>4. ASSUME NEW c \in Calls, NEW ok \in BOOLEAN, SaveCandidate(c, ok) PROVE Progress'
  <2>1. Min(todo[c]) \in todo[c] /\ bids[Min(todo[c])] # "absent"
    BY <1>4, MinIsMember DEF AwardInv, TypeOK, CallInv, SaveCandidate
  <2> QED
    BY <1>4, <2>1 DEF AwardInv, TypeOK, Progress, SaveCandidate, Abandon, Goto
<1> QED
  BY <1>1, <1>2, <1>3, <1>4, Zenon DEF Next, Continue

LEMMA SerialStep ==
  ASSUME AwardInv, AwardInv', Progress, Serial, Next, ~overlapped', ~failed'
  PROVE  Serial'
<1>1. ASSUME NEW b \in Bids, CreateBid(b) \/ SaveBid(b) PROVE Serial'
  <2>1. UNCHANGED <<rfq, pc, pick, todo, orders>>
    BY <1>1, Zenon DEF CreateBid, SaveBid, awardVars
  <2>2. \A x \in Bids : bids'[x] = "awarded" <=> bids[x] = "awarded"
    BY <1>1 DEF AwardInv, TypeOK, Progress, CreateBid, SaveBid
  <2>3. \A c \in Calls : pc[c] \in {"listed", "ordered", "attached"} => pick[c] \in Bids
    BY DEF AwardInv, CallInv
  <2> QED
    BY <2>1, <2>2, <2>3 DEF Serial, Active
<1>2. ASSUME NEW c \in Calls, NEW b \in Bids, AwardRFQ(c, b) PROVE Serial'
  <2>1. \A d \in Calls : ~Active(d)
    BY <1>2, Zenon DEF AwardRFQ, Active
  <2>2. pc' = [pc EXCEPT ![c] = "checked"] /\ pick' = [pick EXCEPT ![c] = b]
        /\ UNCHANGED <<rfq, bids, todo, orders>> /\ rfq.status = "open" /\ pc[c] = "new"
    BY <1>2 DEF AwardRFQ, Goto
  <2> QED
    BY <2>1, <2>2 DEF AwardInv, TypeOK, Serial, Active
<1>3. ASSUME NEW c \in Calls, NEW ok \in BOOLEAN, Reserve(c, ok) PROVE Serial'
  BY <1>3 DEF AwardInv, TypeOK, Serial, Active, Reserve, Goto
<1>4. ASSUME NEW c \in Calls, NEW ok \in BOOLEAN, ListByRFQ(c, ok) PROVE Serial'
  <2>1. /\ pc[c] = "reserved" /\ pc' = [pc EXCEPT ![c] = "listed"]
        /\ todo' = [todo EXCEPT ![c] = {b \in Bids : bids[b] # "absent"}]
        /\ UNCHANGED <<rfq, bids, pick, orders>>
    BY <1>4 DEF ListByRFQ, Abandon, Goto
  <2>2. pick[c] \in Bids /\ bids[pick[c]] # "absent"
    BY <2>1, Zenon DEF AwardInv, CallInv
  <2> QED
    BY <2>1, <2>2 DEF AwardInv, TypeOK, Serial, Active
<1>5. ASSUME NEW c \in Calls, NEW ok \in BOOLEAN, SaveCandidate(c, ok) PROVE Serial'
  <2> DEFINE b == Min(todo[c])
  <2>1. /\ pc[c] = "listed" /\ UNCHANGED <<rfq, submitting, pick, orders, pc>>
        /\ bids' = [bids EXCEPT ![b] = IF b = pick[c] THEN "awarded" ELSE "rejected"]
        /\ todo' = [todo EXCEPT ![c] = @ \ {b}]
    <3>1. ok
      BY <1>5, Zenon DEF SaveCandidate, Abandon
    <3> QED
      BY <1>5, <3>1, Zenon DEF SaveCandidate
  <2>2. b \in Bids
    BY <1>5, MinIsMember DEF AwardInv, TypeOK, SaveCandidate
  <2> HIDE DEF b
  <2>3. rfq.status = "open"
    BY <2>1, Zenon DEF AwardInv, TypeOK, RFQInv, Serial, Active
  <2>4. \A d \in Calls : pc[d] \in {"listed", "ordered", "attached"} => d = c
    BY <2>1, Zenon DEF Serial, Active
  <2> QED
    BY <2>1, <2>2, <2>3, <2>4 DEF AwardInv, TypeOK, Serial, Active
<1>6. ASSUME NEW c \in Calls, NEW ok \in BOOLEAN, NEW saved \in BOOLEAN,
             CreateOrderFor(c, saved, ok)
      PROVE  Serial'
  <2>1. rfq.status = "open"
    BY <1>6, Zenon DEF AwardInv, TypeOK, RFQInv, Serial, Active, CreateOrderFor
  <2>2. /\ pc[c] = "listed" /\ pc' = [pc EXCEPT ![c] = "ordered"] /\ orders' = orders \cup {c}
        /\ UNCHANGED <<rfq, bids, todo, pick>>
    BY <1>6 DEF CreateOrderFor, Abandon, Goto
  <2> QED
    BY <2>1, <2>2 DEF AwardInv, TypeOK, Serial, Active
<1>7. ASSUME NEW c \in Calls, AttachReservation(c) PROVE Serial'
  BY <1>7 DEF AwardInv, TypeOK, RFQInv, Serial, Active, AttachReservation, Goto
<1>8. ASSUME NEW c \in Calls, NEW ok \in BOOLEAN, SaveRFQ(c, ok) PROVE Serial'
  <2>1. /\ pc[c] = "attached" /\ pc' = [pc EXCEPT ![c] = "saved"]
        /\ rfq' = [rfq EXCEPT !.status = "awarded", !.bid = pick[c], !.order = c]
        /\ UNCHANGED <<bids, todo, pick, orders>>
    BY <1>8, ZenonT(30) DEF SaveRFQ, Goto
  <2>2. rfq.status = "open"
    BY <2>1 DEF AwardInv, TypeOK, RFQInv, Serial, Active
  <2>3. \A d \in Calls : Active(d) => d = c
    BY <2>1 DEF Serial, Active
  <2>4. pick[c] \in Bids /\ bids[pick[c]] = "awarded"
    BY <2>1, <2>2 DEF AwardInv, CallInv, Progress, Serial
  <2>5. rfq'.status = "awarded" /\ rfq'.bid = pick[c] /\ rfq'.order = c
    BY <2>1 DEF AwardInv, TypeOK
  <2>6. \A d \in orders : d = c
    BY <2>2, <2>3 DEF AwardInv, TypeOK, Serial, Active
  <2>7. \A b \in Bids : bids[b] = "awarded" => b = pick[c]
    BY <2>2, <2>3, Zenon DEF Serial, Active
  <2> QED
    BY <2>1, <2>3, <2>4, <2>5, <2>6, <2>7 DEF AwardInv, TypeOK, Serial, Active
<1>9. ASSUME NEW c \in Calls, NEW ok \in BOOLEAN, PublishAward(c, ok) PROVE Serial'
  <2>1. /\ pc[c] = "saved" /\ pc' \in {[pc EXCEPT ![c] = "awarded"], [pc EXCEPT ![c] = "failed"]}
        /\ UNCHANGED <<rfq, bids, todo, pick, orders>>
    BY <1>9, Zenon DEF PublishAward, Goto
  <2>2. rfq.status # "open"
    BY <2>1, Zenon DEF AwardInv, CallInv, Attached, Serial
  <2> QED
    BY <2>1, <2>2 DEF AwardInv, TypeOK, Serial, Active
<1> QED
  BY <1>1, <1>2, <1>3, <1>4, <1>5, <1>6, <1>7, <1>8, <1>9 DEF Next, Continue

(* A set whose members are all equal has at most one. *)
LEMMA AtMostOne ==
  ASSUME NEW S, \A x, y \in S : x = y
  PROVE  Cardinality(S) <= 1
<1>1. CASE S = {}
  BY <1>1, FS_EmptySet
<1>2. CASE S # {}
  <2>1. PICK x \in S : S = {x}
    BY <1>2
  <2> QED
    BY <2>1, FS_Singleton
<1> QED
  BY <1>1, <1>2

(* Awards of one RFQ that do not overlap, and in which nothing fails, give *)
(* it one order and one winner, however many are tried and whichever bids  *)
(* arrive meanwhile (AwardRFQ, CreateBid).                                 *)
THEOREM AwardedOnce == MarketSpec => []OneWinner
<1>1. MarketInit => AwardInv /\ SerialInv
  BY InitAward, InitSerial DEF MarketInit
<1>2. AwardInv /\ SerialInv /\ [MarketNext]_allVars => AwardInv' /\ SerialInv'
  <2> SUFFICES ASSUME AwardInv, SerialInv, [MarketNext]_allVars PROVE AwardInv' /\ SerialInv'
    OBVIOUS
  <2>1. Next \/ UNCHANGED vars
    BY Zenon DEF MarketNext, allVars, handleListRFQs, handleListRFQBids,
       handleCreateRFQMessage, AuthorizeMessage, CreateRFQMessage, handleCreateMessage
  <2>2. AwardInv'
    BY <2>1, AwardStep
  <2>3. CASE UNCHANGED vars
    <3>1. Progress'
      BY <2>3 DEF vars, SerialInv, Progress
    <3>2. ~overlapped' /\ ~failed' => Serial'
      <4>1. \A c : Active(c)' <=> Active(c)
        BY <2>3, Zenon DEF vars, Active
      <4>2. /\ ~overlapped' /\ ~failed' => Serial
            /\ UNCHANGED <<rfq, bids, orders, pc, pick, todo>>
        BY <2>3, Zenon DEF vars, SerialInv
      <4> QED
        BY <4>1, <4>2, ZenonT(30) DEF Serial
    <3> QED
      BY <2>2, <3>1, <3>2, Zenon DEF SerialInv
  <2>4. CASE Next
    <3>1. ASSUME NEW b \in Bids, CreateBid(b) \/ SaveBid(b)
          PROVE  overlapped' = overlapped /\ failed' = failed
      BY <3>1 DEF CreateBid, SaveBid
    <3>2. ASSUME NEW c \in Calls, NEW b \in Bids, AwardRFQ(c, b)
          PROVE  (overlapped => overlapped') /\ failed' = failed
      BY <3>2, Zenon DEF AwardRFQ
    <3>3. ASSUME NEW c \in Calls, Continue(c)
          PROVE  overlapped' = overlapped /\ (failed => failed')
      <4>1. ASSUME NEW ok \in BOOLEAN, NEW saved \in BOOLEAN,
                   \/ ListByRFQ(c, ok) \/ SaveCandidate(c, ok) \/ CreateOrderFor(c, saved, ok)
            PROVE  overlapped' = overlapped /\ (failed => failed')
        BY <4>1 DEF ListByRFQ, SaveCandidate, CreateOrderFor, Abandon
      <4>2. ASSUME NEW ok \in BOOLEAN, SaveRFQ(c, ok) \/ PublishAward(c, ok)
            PROVE  overlapped' = overlapped /\ (failed => failed')
        BY <4>2, Zenon DEF SaveRFQ, PublishAward
      <4>3. ASSUME NEW ok \in BOOLEAN, Reserve(c, ok) \/ AttachReservation(c)
            PROVE  overlapped' = overlapped /\ (failed => failed')
        BY <4>3 DEF Reserve, AttachReservation
      <4> QED
        BY <3>3, <4>1, <4>2, <4>3, Zenon DEF Continue
    <3>4. ~overlapped' /\ ~failed' => ~overlapped /\ ~failed
      BY <2>4, <3>1, <3>2, <3>3 DEF Next
    <3> QED
      BY <2>2, <2>4, <3>4, ProgressStep, SerialStep DEF SerialInv
  <2> QED
    BY <2>1, <2>2, <2>3, <2>4
<1>3. AwardInv /\ SerialInv => OneWinner
  <2> SUFFICES ASSUME AwardInv, SerialInv, ~overlapped, ~failed
               PROVE  /\ Cardinality(orders) <= 1
                      /\ Cardinality({b \in Bids : bids[b] = "awarded"}) <= 1
                      /\ rfq.status = "awarded" => bids[rfq.bid] = "awarded"
    BY DEF OneWinner
  <2>1. Serial
    BY DEF SerialInv
  <2>2. \A x, y \in orders : x = y
    BY <2>1 DEF AwardInv, TypeOK, Serial, Active
  <2>3. \A x, y \in {b \in Bids : bids[b] = "awarded"} : x = y
    BY <2>1 DEF AwardInv, TypeOK, Serial, Active
  <2>4. rfq.status = "awarded" => bids[rfq.bid] = "awarded"
    BY <2>1 DEF AwardInv, TypeOK, RFQInv, Serial
  <2> QED
    BY <2>2, <2>3, <2>4, AtMostOne
<1> QED
  BY <1>1, <1>2, <1>3, PTL DEF MarketSpec

-----------------------------------------------------------------------------
(* Accounts and sessions, by SessionsInv.  Later lists what accounts and   *)
(* sessions never lose.                                                    *)

Account == [email : Emails, kind : Kinds]
Session == [user : Nat, left : Int, revoked : BOOLEAN]

SigningUp(x) ==
  \E e \in Emails, k \in Kinds : \E rest :
    x = [pc |-> "limit", what |-> "signup", email |-> e, kind |-> k, todo |-> rest]

LoggingIn(x) ==
  \E e \in Emails, m \in BOOLEAN : \E rest :
    x = [pc |-> "limit", what |-> "login", email |-> e, matches |-> m, todo |-> rest]

LoggingOut(x) ==
  \E t \in Tokens : \E rest : x = [pc |-> "limit", what |-> "logout", token |-> t, todo |-> rest]

Inserting(x) ==
  \E e \in Emails, k \in Kinds : x = [pc |-> "insert", email |-> e, kind |-> k]

Issuing(x) == \E u \in 1 .. Len(users) : x = [pc |-> "issue", user |-> u]

(* A request whose session is good now arrived with a good one. *)
Resolving(x) ==
  \E t \in Tokens, r \in Kinds, live \in BOOLEAN :
    /\ x = [pc |-> "resolve", token |-> t, route |-> r, live |-> live]
    /\ Live(t) => live

ActsFor(t, r) == users[sessions[t].user].kind = r

Asking(x) ==
  \E t \in Tokens, r \in Kinds :
    /\ x = [pc |-> "whoami", token |-> t, route |-> r, live |-> TRUE, org |-> sessions[t].user]
    /\ ActsFor(t, r)

Entering(x) ==
  \E t \in Tokens, r \in Kinds : \E rest :
    /\ x = [pc |-> "limit", what |-> "gateway", token |-> t, route |-> r,
            live |-> TRUE, org |-> sessions[t].user, todo |-> rest]
    /\ ActsFor(t, r)

HttpCallInv(x) ==
  \/ x = Idle \/ SigningUp(x) \/ LoggingIn(x) \/ LoggingOut(x) \/ Inserting(x)
  \/ Issuing(x) \/ Resolving(x) \/ Asking(x) \/ Entering(x)

StoreInv ==
  /\ users \in Seq(Account) /\ sessions \in Seq(Session)
  /\ \A t \in Tokens : sessions[t].user \in 1 .. Len(users)
  /\ OneAccountPerEmail

SessionsInv ==
  /\ StoreInv
  /\ DOMAIN call = HttpCalls /\ call = [c \in HttpCalls |-> call[c]]
  /\ \A c \in HttpCalls : HttpCallInv(call[c])

-----------------------------------------------------------------------------
Later ==
  /\ Len(users) <= Len(users') /\ \A u \in 1 .. Len(users) : users'[u] = users[u]
  /\ Tokens \subseteq Tokens'
  /\ \A t \in Tokens : sessions'[t].user = sessions[t].user /\ (Live(t)' => Live(t))

LEMMA CallKept ==
  ASSUME SessionsInv, StoreInv', Later, NEW x, HttpCallInv(x)
  PROVE  HttpCallInv(x)'
<1>1. /\ Len(users) \in Nat /\ Len(users') \in Nat
      /\ \A t \in Tokens : sessions[t].user \in 1 .. Len(users)
  BY DEF SessionsInv, StoreInv
<1>2. CASE x = Idle \/ SigningUp(x) \/ LoggingIn(x) \/ Inserting(x)
  BY <1>2, Zenon DEF HttpCallInv, Idle, SigningUp, LoggingIn, Inserting
<1>3. CASE LoggingOut(x)
  <2>1. LoggingOut(x)'
    BY <1>3, Zenon DEF LoggingOut, Later
  <2> QED
    BY <2>1 DEF HttpCallInv
<1>4. CASE Issuing(x)
  <2>1. Issuing(x)'
    BY <1>1, <1>4 DEF Issuing, Later
  <2> QED
    BY <2>1 DEF HttpCallInv
<1>5. CASE Resolving(x)
  <2>1. PICK t \in Tokens, r \in Kinds, live \in BOOLEAN :
          /\ x = [pc |-> "resolve", token |-> t, route |-> r, live |-> live]
          /\ Live(t) => live
    BY <1>5 DEF Resolving
  <2>2. t \in Tokens' /\ (Live(t)' => live)
    BY <2>1, Zenon DEF Later
  <2>3. Resolving(x)'
    BY <2>1, <2>2 DEF Resolving
  <2> QED
    BY <2>3 DEF HttpCallInv
<1>6. \A t \in Tokens, r \in Kinds :
        t \in Tokens' /\ sessions'[t].user = sessions[t].user /\ (ActsFor(t, r) => ActsFor(t, r)')
  BY <1>1, Zenon DEF Later, ActsFor
<1>7. CASE Asking(x)
  <2>1. Asking(x)'
    BY <1>6, <1>7, Zenon DEF Asking
  <2> QED
    BY <2>1 DEF HttpCallInv
<1>8. CASE Entering(x)
  <2>1. Entering(x)'
    BY <1>6, <1>8, Zenon DEF Entering
  <2> QED
    BY <2>1 DEF HttpCallInv
<1> QED
  BY <1>2, <1>3, <1>4, <1>5, <1>7, <1>8 DEF HttpCallInv

(* A step of one request. *)
LEMMA HttpCallStep ==
  ASSUME SessionsInv, StoreInv', Later, NEW c \in HttpCalls, NEW x, HttpCallInv(x)',
         call' = [call EXCEPT ![c] = x]
  PROVE  SessionsInv'
<1>1. /\ DOMAIN call' = HttpCalls /\ call' = [d \in HttpCalls |-> call'[d]]
      /\ call'[c] = x /\ \A d \in HttpCalls \ {c} : call'[d] = call[d]
  BY DEF SessionsInv
<1>2. \A d \in HttpCalls : HttpCallInv(call[d])'
  <2> SUFFICES ASSUME NEW d \in HttpCalls PROVE HttpCallInv(call[d])'
    OBVIOUS
  <2>1. PICK y : y = call'[d]
    OBVIOUS
  <2>2. HttpCallInv(y)'
    BY <1>1, <2>1, CallKept DEF SessionsInv
  <2> QED
    BY <2>1, <2>2, Zenon DEF HttpCallInv, SigningUp, LoggingIn, LoggingOut, Inserting, Issuing,
       Resolving, Asking, Entering
<1> QED
  BY <1>1, <1>2 DEF SessionsInv

LEMMA StoreUnchanged ==
  ASSUME SessionsInv, UNCHANGED <<users, sessions>>
  PROVE  StoreInv' /\ Later
BY DEF SessionsInv, StoreInv, Later, Tokens, OneAccountPerEmail, Live
(* A request that stays within itself. *)
LEMMA QuietStep ==
  ASSUME SessionsInv, NEW c \in HttpCalls, UNCHANGED <<users, sessions>>, NEW x, HttpCallInv(x),
         call' = [call EXCEPT ![c] = x]
  PROVE  SessionsInv'
<1>1. StoreInv' /\ Later
  BY StoreUnchanged
<1>2. HttpCallInv(x)'
  BY <1>1, CallKept
<1> QED
  BY <1>1, <1>2, HttpCallStep, Zenon

LEMMA IdleInv == HttpCallInv(Idle) /\ Idle.pc = "idle"
BY DEF HttpCallInv, Idle

LEMMA SetTodo ==
  ASSUME NEW t, NEW r, NEW b, NEW o, NEW w, NEW v
  PROVE  [[pc |-> "limit", what |-> "gateway", token |-> t, route |-> r,
           live |-> b, org |-> o, todo |-> w] EXCEPT !.todo = v]
         = [pc |-> "limit", what |-> "gateway", token |-> t, route |-> r,
            live |-> b, org |-> o, todo |-> v]
OBVIOUS

(* The stages of a request have different names. *)
LEMMA StageShapes ==
  ASSUME NEW x
  PROVE  /\ x = Idle => x.pc = "idle"
         /\ SigningUp(x) => x.pc = "limit" /\ x.what = "signup"
         /\ LoggingIn(x) => x.pc = "limit" /\ x.what = "login"
         /\ LoggingOut(x) => x.pc = "limit" /\ x.what = "logout"
         /\ Entering(x) => x.pc = "limit" /\ x.what = "gateway"
         /\ Inserting(x) => x.pc = "insert"
         /\ Issuing(x) => x.pc = "issue"
         /\ Resolving(x) => x.pc = "resolve"
         /\ Asking(x) => x.pc = "whoami"
<1>1. x = Idle => x.pc = "idle"
  BY DEF Idle
<1>2. SigningUp(x) => x.pc = "limit" /\ x.what = "signup"
  BY DEF SigningUp
<1>3. LoggingIn(x) => x.pc = "limit" /\ x.what = "login"
  BY DEF LoggingIn
<1>4. LoggingOut(x) => x.pc = "limit" /\ x.what = "logout"
  BY DEF LoggingOut
<1>5. Entering(x) => x.pc = "limit" /\ x.what = "gateway"
  BY DEF Entering
<1>6. Inserting(x) => x.pc = "insert"
  BY DEF Inserting
<1>7. Issuing(x) => x.pc = "issue"
  BY DEF Issuing
<1>8. Resolving(x) => x.pc = "resolve"
  BY DEF Resolving
<1>9. Asking(x) => x.pc = "whoami"
  BY DEF Asking
<1> QED
  BY <1>1, <1>2, <1>3, <1>4, <1>5, <1>6, <1>7, <1>8, <1>9, Zenon

LEMMA Charging ==
  ASSUME NEW x, HttpCallInv(x), x.pc = "limit", NEW v
  PROVE  HttpCallInv([x EXCEPT !.todo = v])
<1> DEFINE y == [x EXCEPT !.todo = v]
<1>1. SigningUp(x) \/ LoggingIn(x) \/ LoggingOut(x) \/ Entering(x)
  BY StageShapes, Zenon DEF HttpCallInv
<1>2. CASE SigningUp(x)
  <2>1. PICK e \in Emails, k \in Kinds : \E rest :
          x = [pc |-> "limit", what |-> "signup", email |-> e, kind |-> k, todo |-> rest]
    BY <1>2, Zenon DEF SigningUp
  <2>2. y = [pc |-> "limit", what |-> "signup", email |-> e, kind |-> k, todo |-> v]
    BY <2>1
  <2>3. SigningUp(y)
    BY <2>2, Zenon DEF SigningUp
  <2> QED
    BY <2>3 DEF HttpCallInv
<1>3. CASE LoggingIn(x)
  <2>1. PICK e \in Emails, m \in BOOLEAN : \E rest :
          x = [pc |-> "limit", what |-> "login", email |-> e, matches |-> m, todo |-> rest]
    BY <1>3, Zenon DEF LoggingIn
  <2>2. y = [pc |-> "limit", what |-> "login", email |-> e, matches |-> m, todo |-> v]
    BY <2>1
  <2>3. LoggingIn(y)
    BY <2>2, Zenon DEF LoggingIn
  <2> QED
    BY <2>3 DEF HttpCallInv
<1>4. CASE LoggingOut(x)
  <2>1. PICK t \in Tokens : \E rest :
          x = [pc |-> "limit", what |-> "logout", token |-> t, todo |-> rest]
    BY <1>4, Zenon DEF LoggingOut
  <2>2. y = [pc |-> "limit", what |-> "logout", token |-> t, todo |-> v]
    BY <2>1
  <2>3. LoggingOut(y)
    BY <2>2, Zenon DEF LoggingOut
  <2> QED
    BY <2>3 DEF HttpCallInv
<1>5. CASE Entering(x)
  <2>1. PICK t \in Tokens, r \in Kinds : \E rest :
          /\ x = [pc |-> "limit", what |-> "gateway", token |-> t, route |-> r,
                  live |-> TRUE, org |-> sessions[t].user, todo |-> rest]
          /\ ActsFor(t, r)
    BY <1>5, Zenon DEF Entering
  <2>2. y = [pc |-> "limit", what |-> "gateway", token |-> t, route |-> r,
             live |-> TRUE, org |-> sessions[t].user, todo |-> v]
    <3>1. PICK o, w, b : /\ o = sessions[t].user /\ b = TRUE
                         /\ x = [pc |-> "limit", what |-> "gateway", token |-> t,
                                 route |-> r, live |-> b, org |-> o, todo |-> w]
      BY <2>1, Zenon
    <3>2. y = [pc |-> "limit", what |-> "gateway", token |-> t, route |-> r,
               live |-> b, org |-> o, todo |-> v]
      <4> DEFINE z(q) == [pc |-> "limit", what |-> "gateway", token |-> t, route |-> r,
                          live |-> b, org |-> o, todo |-> q]
      <4>1. [z(w) EXCEPT !.todo = v] = z(v)
        BY SetTodo
      <4>2. x = z(w)
        BY <3>1
      <4> HIDE DEF z
      <4>3. y = z(v)
        BY <4>1, <4>2
      <4> QED
        BY <4>3 DEF z
    <3> QED
      BY <3>1, <3>2
  <2>3. Entering(y)
    BY <2>1, <2>2, Zenon DEF Entering
  <2> QED
    BY <2>3 DEF HttpCallInv
<1> QED
  BY <1>1, <1>2, <1>3, <1>4, <1>5

LEMMA EndsIdle ==
  ASSUME SessionsInv, NEW c \in HttpCalls, UNCHANGED <<users, sessions>>, Go(c, Idle)
  PROVE  SessionsInv'
BY IdleInv, QuietStep, Zenon DEF Go, Idle

LEMMA AllowStep ==
  ASSUME SessionsInv, NEW c \in HttpCalls, Allow(c)
  PROVE  SessionsInv'
<1>1. PICK x, v : x = call[c] /\ v = Tail(call[c].todo)
  BY Zenon
<1>2. /\ x.pc = "limit" /\ UNCHANGED <<users, sessions>>
      /\ \/ call' = [call EXCEPT ![c] = [x EXCEPT !.todo = v]]
         \/ Go(c, Idle)
  BY <1>1 DEF Allow, Go
<1>3. HttpCallInv(x)
  BY <1>1 DEF SessionsInv
<1>4. HttpCallInv([x EXCEPT !.todo = v])
  BY <1>2, <1>3, Charging
<1> QED
  BY <1>2, <1>4, QuietStep, EndsIdle

(* Requests arrive. *)
LEMMA ArrivalStep ==
  ASSUME SessionsInv, NEW c \in HttpCalls,
         \/ \E e \in Emails, kind \in SignupKinds : handleSignup(c, e, kind)
         \/ \E e \in Emails, matches \in BOOLEAN : handleCreateSession(c, e, matches)
         \/ \E t \in Tokens : handleLogout(c, t)
         \/ \E t \in Tokens, route \in Kinds : GatewayRequest(c, t, route)
  PROVE  SessionsInv'
<1>1. ASSUME NEW e \in Emails, NEW kind \in SignupKinds, handleSignup(c, e, kind)
      PROVE  SessionsInv'
  <2> DEFINE x == [pc |-> "limit", what |-> "signup", email |-> e, kind |-> kind,
                   todo |-> <<<<"iam.signup.ip", "ip">>, <<"iam.signup.daily_ip", "ip">>>>]
  <2>1. kind \in Kinds
    BY SessionsAssumption
  <2>2. HttpCallInv(x)
    BY <2>1, Zenon DEF HttpCallInv, SigningUp
  <2> QED
    BY <1>1, <2>2, QuietStep, Zenon DEF handleSignup, Go
<1>2. ASSUME NEW e \in Emails, NEW matches \in BOOLEAN, handleCreateSession(c, e, matches)
      PROVE  SessionsInv'
  <2> DEFINE x == [pc |-> "limit", what |-> "login", email |-> e, matches |-> matches,
                   todo |-> <<<<"iam.login.ip", "ip">>, <<"iam.login.subject", e>>>>]
  <2>1. HttpCallInv(x)
    BY Zenon DEF HttpCallInv, LoggingIn
  <2> QED
    BY <1>2, <2>1, QuietStep, Zenon DEF handleCreateSession, Go
<1>3. ASSUME NEW t \in Tokens, handleLogout(c, t)
      PROVE  SessionsInv'
  <2>1. PICK u : u = sessions[t].user
    OBVIOUS
  <2> DEFINE x == [pc |-> "limit", what |-> "logout", token |-> t,
                   todo |-> <<<<"iam.logout.user", u>>>>]
  <2>2. HttpCallInv(x)
    BY Zenon DEF HttpCallInv, LoggingOut
  <2> QED
    BY <1>3, <2>1, <2>2, QuietStep, Zenon DEF handleLogout, Go
<1>4. ASSUME NEW t \in Tokens, NEW route \in Kinds, GatewayRequest(c, t, route)
      PROVE  SessionsInv'
  <2>1. PICK live \in BOOLEAN : live = Live(t)
    BY Zenon DEF SessionsInv, StoreInv, Session, Live, Tokens
  <2> DEFINE x == [pc |-> "resolve", token |-> t, route |-> route, live |-> live]
  <2>2. HttpCallInv(x)
    BY <2>1 DEF HttpCallInv, Resolving
  <2> QED
    BY <1>4, <2>1, <2>2, QuietStep, Zenon DEF GatewayRequest, Go
<1> QED
  BY <1>1, <1>2, <1>3, <1>4

-----------------------------------------------------------------------------
(* Signing up. *)

LEMMA StageOf ==
  ASSUME SessionsInv, NEW c \in HttpCalls
  PROVE  /\ call[c].pc = "limit" /\ call[c].what = "signup" => SigningUp(call[c])
         /\ call[c].pc = "limit" /\ call[c].what = "logout" => LoggingOut(call[c])
         /\ call[c].pc = "insert" => Inserting(call[c])
         /\ call[c].pc = "issue" => Issuing(call[c])
         /\ call[c].pc = "resolve" => Resolving(call[c])
         /\ call[c].pc = "whoami" => Asking(call[c])
         /\ call[c].pc = "limit" /\ call[c].what = "gateway" => Entering(call[c])
<1>1. HttpCallInv(call[c])
  BY DEF SessionsInv
<1> QED
  BY <1>1, StageShapes, Zenon DEF HttpCallInv

LEMMA CheckEmailStep ==
  ASSUME SessionsInv, NEW c \in HttpCalls, CheckEmail(c)
  PROVE  SessionsInv'
<1>1. SigningUp(call[c])
  BY StageOf, Zenon DEF CheckEmail, Admitted
<1>2. PICK e \in Emails, k \in Kinds : call[c].email = e /\ call[c].kind = k
  BY ONLY <1>1 DEF SigningUp
<1>3. HttpCallInv([pc |-> "insert", email |-> e, kind |-> k])
  BY DEF HttpCallInv, Inserting
<1>4. /\ UNCHANGED <<users, sessions>>
      /\ Go(c, Idle) \/ call' = [call EXCEPT ![c] = [pc |-> "insert", email |-> e, kind |-> k]]
  BY <1>2, Zenon DEF CheckEmail, Go
<1> QED
  BY <1>3, <1>4, QuietStep, EndsIdle

LEMMA InsertUserStep ==
  ASSUME SessionsInv, NEW c \in HttpCalls, InsertUser(c)
  PROVE  SessionsInv'
<1>1. Inserting(call[c]) /\ StoreInv
  BY StageOf, Zenon DEF InsertUser, SessionsInv
<1>2. PICK e \in Emails, k \in Kinds : call[c].email = e /\ call[c].kind = k
  BY <1>1 DEF Inserting
<1>3. CASE Registered(call[c].email)
  BY <1>3, EndsIdle, Zenon DEF InsertUser
<1>4. CASE ~Registered(call[c].email)
  <2> DEFINE new == [email |-> e, kind |-> k]
  <2>1. PICK n : n = Len(users) + 1
    OBVIOUS
  <2>2. /\ users' = Append(users, new) /\ UNCHANGED sessions
        /\ call' = [call EXCEPT ![c] = [pc |-> "issue", user |-> n]]
    BY <1>2, <1>4, <2>1 DEF InsertUser, Go
  <2>3. users \in Seq(Account) /\ sessions \in Seq(Session) /\ new \in Account
    BY <1>1, Zenon DEF StoreInv, Account
  <2>4. /\ users' \in Seq(Account) /\ Len(users') = n /\ users'[n] = new
        /\ Len(users) \in Nat /\ n \in 1 .. n /\ n = Len(users) + 1
        /\ \A u \in 1 .. Len(users) : users'[u] = users[u]
    BY <2>1, <2>2, <2>3
  <2>5. Later
    BY <2>2, <2>4 DEF Later, Tokens, Live
  <2>6. OneAccountPerEmail'
    <3> SUFFICES ASSUME NEW u \in 1 .. Len(users'), NEW w \in 1 .. Len(users'),
                        users'[u].email = users'[w].email
                 PROVE  u = w
      BY DEF OneAccountPerEmail
    <3>1. \A i \in 1 .. Len(users') : i \in 1 .. Len(users) \/ i = n
      BY ONLY <2>4
    <3>2. \A i \in 1 .. Len(users) : users[i].email # e
      BY <1>2, <1>4 DEF Registered
    <3>3. users'[n].email = e
      BY <2>4
    <3>4. \A i \in 1 .. Len(users) : users'[i].email # users'[n].email
      BY <2>4, <3>2, <3>3, Zenon
    <3>5. CASE u # n /\ w # n
      BY <1>1, <2>4, <3>1, <3>5, Zenon DEF StoreInv, OneAccountPerEmail
    <3> QED
      BY <3>1, <3>4, <3>5, Zenon
  <2>7. StoreInv'
    <3>1. \A t \in Tokens' : sessions'[t].user \in 1 .. Len(users')
      <4>1. Tokens' = Tokens /\ sessions' = sessions
        BY <2>2, Zenon DEF Tokens
      <4>2. \A i \in 1 .. Len(users) : i \in 1 .. Len(users')
        BY ONLY <2>4
      <4> QED
        BY <1>1, <4>1, <4>2, Zenon DEF StoreInv
    <3> QED
      BY <2>2, <2>3, <2>4, <2>6, <3>1, Zenon DEF StoreInv
  <2>8. HttpCallInv([pc |-> "issue", user |-> n])'
    BY <2>4, Zenon DEF HttpCallInv, Issuing
  <2> QED
    BY <2>2, <2>5, <2>7, <2>8, HttpCallStep, Zenon
<1> QED
  BY <1>3, <1>4

(* Sessions begin, age and end. *)
LEMMA IssueStep ==
  ASSUME SessionsInv, NEW c \in HttpCalls, issueSession(c)
  PROVE  SessionsInv'
<1>1. Issuing(call[c]) /\ StoreInv
  BY StageOf DEF issueSession, SessionsInv
<1>2. PICK u \in 1 .. Len(users) : call[c].user = u
  BY <1>1 DEF Issuing
<1> DEFINE new == [user |-> u, left |-> SessionTTL, revoked |-> FALSE]
<1>3. /\ sessions' = Append(sessions, new) /\ UNCHANGED users
      /\ call' = [call EXCEPT ![c] = Idle]
  BY <1>2 DEF issueSession, Go
<1>4. users \in Seq(Account) /\ sessions \in Seq(Session) /\ new \in Session
  BY <1>1, SessionsAssumption DEF StoreInv, Session
<1>5. /\ sessions' \in Seq(Session) /\ Len(sessions') = Len(sessions) + 1
      /\ Len(sessions) \in Nat /\ sessions'[Len(sessions) + 1] = new
      /\ \A t \in 1 .. Len(sessions) : sessions'[t] = sessions[t]
  BY <1>3, <1>4
<1>6. Later
  <2>1. Len(users) \in Nat
    BY <1>4
  <2> QED
    BY <1>3, <1>5, <2>1 DEF Later, Tokens, Live
<1>7. StoreInv'
  <2>1. \A t \in Tokens' : t \in Tokens \/ t = Len(sessions) + 1
    BY <1>5 DEF Tokens
  <2>2. \A t \in Tokens' : sessions'[t].user \in 1 .. Len(users')
    BY <1>1, <1>3, <1>5, <2>1 DEF StoreInv, Tokens
  <2> QED
    BY <1>1, <1>3, <1>4, <1>5, <2>2, Zenon DEF StoreInv, OneAccountPerEmail
<1>8. HttpCallInv(Idle)'
  BY DEF HttpCallInv, Idle
<1> QED
  BY <1>3, <1>6, <1>7, <1>8, HttpCallStep, Zenon DEF Idle

LEMMA FindUserStep ==
  ASSUME SessionsInv, NEW c \in HttpCalls, FindUserByEmail(c)
  PROVE  SessionsInv'
<1>1. ASSUME NEW u \in 1 .. Len(users), Go(c, [pc |-> "issue", user |-> u])
      PROVE  SessionsInv'
  <2>1. HttpCallInv([pc |-> "issue", user |-> u])
    BY DEF HttpCallInv, Issuing
  <2> QED
    BY <1>1, <2>1, QuietStep, Zenon DEF FindUserByEmail, Go
<1> QED
  BY <1>1, EndsIdle, Zenon DEF FindUserByEmail

(* What ages or revokes sessions keeps their users and revives none. *)
LEMMA SessionsChange ==
  ASSUME SessionsInv, UNCHANGED users, sessions' \in Seq(Session), Len(sessions') = Len(sessions),
         \A t \in Tokens : /\ sessions'[t].user = sessions[t].user
                           /\ sessions[t].revoked => sessions'[t].revoked
                           /\ sessions'[t].left >= 0 => sessions[t].left >= 0
  PROVE  StoreInv' /\ Later
<1>1. StoreInv
  BY DEF SessionsInv
<1>2. Tokens' = Tokens /\ Len(users) \in Nat
  BY <1>1 DEF Tokens, StoreInv
<1>3. Later
  BY <1>2 DEF Later, Live
<1> QED
  BY <1>1, <1>2, <1>3, Zenon DEF StoreInv, OneAccountPerEmail

LEMMA RevokeStep ==
  ASSUME SessionsInv, NEW c \in HttpCalls, RevokeSession(c)
  PROVE  SessionsInv'
<1>1. LoggingOut(call[c]) /\ StoreInv
  BY StageOf DEF RevokeSession, Admitted, SessionsInv
<1>2. PICK t \in Tokens : call[c].token = t
  BY <1>1 DEF LoggingOut
<1>3. /\ UNCHANGED users /\ call' = [call EXCEPT ![c] = Idle]
      /\ \/ sessions' = sessions
         \/ sessions' = [sessions EXCEPT ![t] = [sessions[t] EXCEPT !.revoked = TRUE]]
  BY <1>2 DEF RevokeSession, Go
<1>4. sessions \in Seq(Session) /\ \A s \in Tokens : sessions[s] \in Session
  BY <1>1 DEF StoreInv, Tokens
<1>5. CASE sessions' = sessions
  BY <1>3, <1>5, EndsIdle, Zenon DEF Go
<1>6. CASE sessions' = [sessions EXCEPT ![t] = [sessions[t] EXCEPT !.revoked = TRUE]]
  <2> DEFINE new == [sessions[t] EXCEPT !.revoked = TRUE]
  <2>1. /\ new \in Session /\ new.user = sessions[t].user /\ new.left = sessions[t].left
        /\ new.revoked
    BY <1>4, Zenon DEF Session
  <2> HIDE DEF new
  <2>2. /\ sessions' \in Seq(Session) /\ Len(sessions') = Len(sessions)
        /\ \A s \in Tokens : sessions'[s] = IF s = t THEN new ELSE sessions[s]
    BY <1>4, <1>6, <2>1 DEF new, Tokens
  <2>3. StoreInv' /\ Later
    BY <1>3, <2>1, <2>2, SessionsChange
  <2>4. HttpCallInv(Idle)'
    BY DEF HttpCallInv, Idle
  <2> QED
    BY <1>3, <2>3, <2>4, HttpCallStep, Zenon DEF Idle
<1> QED
  BY <1>3, <1>5, <1>6

LEMMA TickStep ==
  ASSUME SessionsInv, Tick
  PROVE  SessionsInv'
<1>1. StoreInv /\ sessions \in Seq(Session) /\ \A t \in Tokens : sessions[t] \in Session
  BY DEF SessionsInv, StoreInv, Tokens
<1> DEFINE old(t) == [sessions[t] EXCEPT !.left = Max({@ - 1, -1})]
<1>2. UNCHANGED <<users, call>> /\ sessions' = [t \in Tokens |-> old(t)]
  BY DEF Tick
<1>3. ASSUME NEW t \in Tokens
      PROVE  /\ old(t) \in Session /\ old(t).user = sessions[t].user
             /\ old(t).revoked = sessions[t].revoked
             /\ old(t).left >= 0 => sessions[t].left >= 0
  <2>1. sessions[t] \in Session /\ sessions[t].left \in Int
    BY <1>1 DEF Session
  <2>2. PICK n \in Int : n = sessions[t].left
    BY <2>1
  <2>3. Max({n - 1, -1}) = IF n >= 0 THEN n - 1 ELSE -1
    <3> DEFINE m == IF n >= 0 THEN n - 1 ELSE -1
    <3>1. m \in {n - 1, -1} /\ \A y \in {n - 1, -1} : m >= y
      OBVIOUS
    <3>2. \A x \in {n - 1, -1} : (\A y \in {n - 1, -1} : x >= y) => x = m
      OBVIOUS
    <3> QED
      BY <3>1, <3>2 DEF Max
  <2>4. old(t) = [sessions[t] EXCEPT !.left = IF n >= 0 THEN n - 1 ELSE -1]
    BY <2>2, <2>3
  <2> QED
    BY <2>1, <2>2, <2>4 DEF Session
<1> HIDE DEF old
<1>4. sessions' \in Seq(Session) /\ Len(sessions') = Len(sessions)
  BY <1>1, <1>2, <1>3 DEF Tokens
<1>5. StoreInv' /\ Later
  BY <1>2, <1>3, <1>4, SessionsChange
<1>6. \A c \in HttpCalls : HttpCallInv(call[c])'
  <2> SUFFICES ASSUME NEW c \in HttpCalls PROVE HttpCallInv(call[c])'
    OBVIOUS
  <2>1. PICK x : x = call[c]
    OBVIOUS
  <2>2. HttpCallInv(x)'
    BY <1>5, <2>1, CallKept DEF SessionsInv
  <2> QED
    BY <1>2, <2>1, <2>2, Zenon DEF HttpCallInv, SigningUp, LoggingIn, LoggingOut, Inserting, Issuing,
       Resolving, Asking, Entering
<1> QED
  BY <1>2, <1>5, <1>6 DEF SessionsInv
-----------------------------------------------------------------------------
(* The gateway. *)

(* IAM answers only for a session that is good, so the request came with one. *)
LEMMA ResolvedCall ==
  ASSUME SessionsInv, NEW c \in HttpCalls, call[c].pc = "resolve",
         \E u \in GetActor(call[c].token) : users[u].kind = call[c].route
  PROVE  \E t \in Tokens, r \in Kinds :
           /\ call[c].token = t /\ call[c].route = r /\ call[c].live = TRUE /\ ActsFor(t, r)
<1>1. PICK t \in Tokens, r \in Kinds, live \in BOOLEAN :
        /\ call[c] = [pc |-> "resolve", token |-> t, route |-> r, live |-> live]
        /\ Live(t) => live
  BY StageOf, Zenon DEF Resolving
<1>2. call[c].token = t /\ call[c].route = r /\ call[c].live = live
  BY ONLY <1>1
<1>3. handleMe(t) /\ ActsFor(t, r)
  BY <1>2, Zenon DEF GetActor, ActsFor
<1>4. live = TRUE
  BY <1>1, <1>3, Zenon DEF handleMe, Live
<1> QED
  BY <1>2, <1>3, <1>4, Zenon

LEMMA ResolveOrgStep ==
  ASSUME SessionsInv, NEW c \in HttpCalls, resolveOrg(c)
  PROVE  SessionsInv'
<1>1. CASE \E u \in GetActor(call[c].token) : users[u].kind = call[c].route
  <2>1. PICK t \in Tokens, r \in Kinds :
          /\ call[c].token = t /\ call[c].route = r /\ call[c].live = TRUE /\ ActsFor(t, r)
    BY <1>1, ResolvedCall, Zenon DEF resolveOrg
  <2>2. PICK o : o = sessions[t].user
    OBVIOUS
  <2> DEFINE x == [pc |-> "whoami", token |-> t, route |-> r, live |-> TRUE, org |-> o]
  <2>3. UNCHANGED <<users, sessions>> /\ call' = [call EXCEPT ![c] = x]
    BY <1>1, <2>1, <2>2, Zenon DEF resolveOrg, Go
  <2>4. HttpCallInv(x)
    BY <2>1, <2>2, Zenon DEF HttpCallInv, Asking
  <2> QED
    BY <2>3, <2>4, QuietStep, Zenon
<1> QED
  BY <1>1, EndsIdle, Zenon DEF resolveOrg

LEMMA EnterStep ==
  ASSUME SessionsInv, NEW c \in HttpCalls, UNCHANGED <<users, sessions>>,
         NEW t \in Tokens, NEW r \in Kinds, NEW user,
         call[c].token = t, call[c].route = r, call[c].live = TRUE, ActsFor(t, r),
         Go(c, ChargedTo(c, sessions[t].user, user))
  PROVE  SessionsInv'
<1>1. PICK o : o = sessions[t].user
  BY Zenon
<1> DEFINE x == [pc |-> "limit", what |-> "gateway", token |-> t, route |-> r,
                 live |-> TRUE, org |-> o, todo |-> <<<<"gateway", o, user>>>>]
<1>2. call' = [call EXCEPT ![c] = x]
  BY <1>1, Zenon DEF Go, ChargedTo
<1>3. Entering(x)
  BY <1>1, ZenonT(30) DEF Entering
<1>4. HttpCallInv(x)
  BY <1>3, Zenon DEF HttpCallInv
<1> QED
  BY <1>2, <1>4, QuietStep, Zenon

LEMMA WhoamiStep ==
  ASSUME SessionsInv, NEW c \in HttpCalls, actorUserID(c)
  PROVE  SessionsInv'
<1>1. PICK user : Go(c, ChargedTo(c, call[c].org, user))
  BY Zenon DEF actorUserID
<1>2. PICK t \in Tokens, r \in Kinds :
        /\ call[c] = [pc |-> "whoami", token |-> t, route |-> r, live |-> TRUE,
                      org |-> sessions[t].user]
        /\ ActsFor(t, r)
  BY StageOf, Zenon DEF actorUserID, Asking
<1>3. /\ call[c].token = t /\ call[c].route = r /\ call[c].live = TRUE
      /\ call[c].org = sessions[t].user
  BY ONLY <1>2
<1> QED
  BY <1>1, <1>2, <1>3, EnterStep, Zenon DEF actorUserID

LEMMA OpsStep ==
  ASSUME SessionsInv, NEW c \in HttpCalls, resolveOpsUser(c)
  PROVE  SessionsInv'
<1>1. CASE \E u \in GetActor(call[c].token) : users[u].kind = "ops"
  <2>1. PICK t \in Tokens, r \in Kinds :
          /\ call[c].token = t /\ call[c].route = r /\ call[c].live = TRUE /\ ActsFor(t, r)
    BY <1>1, ResolvedCall, Zenon DEF resolveOpsUser
  <2>2. PICK o : o = sessions[t].user
    OBVIOUS
  <2>3. UNCHANGED <<users, sessions>> /\ Go(c, ChargedTo(c, sessions[t].user, o))
    BY <1>1, <2>1, <2>2, Zenon DEF resolveOpsUser
  <2> QED
    BY <2>1, <2>3, EnterStep, Zenon
<1> QED
  BY <1>1, EndsIdle, Zenon DEF resolveOpsUser

-----------------------------------------------------------------------------
LEMMA SessionsInvInit ==
  ASSUME SessionsInit
  PROVE  SessionsInv
<1>1. users = <<>> /\ sessions = <<>> /\ call = [c \in HttpCalls |-> Idle]
  BY Zenon DEF SessionsInit
<1>2. users \in Seq(Account) /\ sessions \in Seq(Session) /\ Tokens = {}
  BY <1>1 DEF Tokens
<1>3. OneAccountPerEmail
  BY <1>1 DEF OneAccountPerEmail
<1> QED
  BY <1>1, <1>2, <1>3, Zenon DEF SessionsInv, StoreInv, HttpCallInv

LEMMA SessionsInvNext ==
  ASSUME SessionsInv, [SessionsNext]_sessionsVars
  PROVE  SessionsInv'
<1>1. CASE UNCHANGED sessionsVars
  <2>1. StoreInv'
    BY <1>1 DEF sessionsVars, SessionsInv, StoreInv, Tokens, OneAccountPerEmail
  <2>2. call' = call /\ users' = users /\ sessions' = sessions
    BY <1>1, Zenon DEF sessionsVars
  <2>3. ASSUME NEW c \in HttpCalls PROVE HttpCallInv(call[c])'
    <3> DEFINE x == call[c]
    <3>1. Asking(x) => Asking(x)'
      BY <2>2, Zenon DEF Asking, ActsFor, Tokens
    <3>2. Entering(x) => Entering(x)'
      BY <2>2, Zenon DEF Entering, ActsFor, Tokens
    <3>3. Resolving(x) => Resolving(x)'
      BY <2>2, Zenon DEF Resolving, Live, Tokens
    <3>4. (Issuing(x) => Issuing(x)') /\ (LoggingOut(x) => LoggingOut(x)')
      BY <2>2, Zenon DEF Issuing, LoggingOut, Tokens
    <3>5. /\ SigningUp(x) => SigningUp(x)'
          /\ LoggingIn(x) => LoggingIn(x)'
          /\ Inserting(x) => Inserting(x)'
          /\ x = Idle => x' = Idle
      BY <2>2, Zenon DEF SigningUp, LoggingIn, Inserting
    <3>6. HttpCallInv(x)
      BY Zenon DEF SessionsInv
    <3> HIDE DEF x
    <3>7. HttpCallInv(x)'
      BY <3>1, <3>2, <3>3, <3>4, <3>5, <3>6, Zenon DEF HttpCallInv
    <3> QED
      BY <3>7, Zenon DEF x
  <2> QED
    BY <2>1, <2>2, <2>3, Zenon DEF SessionsInv
<1>2. CASE Tick
  BY <1>2, TickStep
<1>3. ASSUME NEW c \in HttpCalls,
             \/ \E e \in Emails, kind \in SignupKinds : handleSignup(c, e, kind)
             \/ \E e \in Emails, matches \in BOOLEAN : handleCreateSession(c, e, matches)
             \/ \E t \in Tokens : handleLogout(c, t)
             \/ \E t \in Tokens, route \in Kinds : GatewayRequest(c, t, route)
             \/ Allow(c) \/ CheckEmail(c) \/ InsertUser(c) \/ issueSession(c)
             \/ FindUserByEmail(c) \/ RevokeSession(c)
             \/ resolveOrg(c) \/ actorUserID(c) \/ resolveOpsUser(c) \/ Act(c) \/ Fails(c)
      PROVE  SessionsInv'
  <2>1. CASE Act(c) \/ Fails(c)
    BY <2>1, EndsIdle, Zenon DEF Act, Fails
  <2> QED
    BY <1>3, <2>1, ArrivalStep, AllowStep, CheckEmailStep, InsertUserStep, IssueStep,
       FindUserStep, RevokeStep, ResolveOrgStep, WhoamiStep, OpsStep, Zenon
<1> QED
  BY <1>1, <1>2, <1>3 DEF SessionsNext

LEMMA SessionsInvariant == SessionsSpec => []SessionsInv
<1>1. SessionsInit => SessionsInv
  BY SessionsInvInit
<1>2. SessionsInv /\ [SessionsNext]_sessionsVars => SessionsInv'
  BY SessionsInvNext
<1> QED
  BY <1>1, <1>2, PTL DEF SessionsSpec

(* However many signups overlap, an address has one account: the lookup    *)
(* that CreateSignup starts with may be stale when the row is inserted,    *)
(* and the unique column decides.                                          *)
THEOREM UniqueAccounts == SessionsSpec => []OneAccountPerEmail
<1>1. SessionsInv => OneAccountPerEmail
  BY DEF SessionsInv, StoreInv
<1> QED
  BY <1>1, SessionsInvariant, PTL

(* A request past the lookup of its organisation arrived with a good       *)
(* session and acts for that session's user, in that user's kind, also     *)
(* when the session has ended since.                                       *)
THEOREM ActsSignedIn == SessionsSpec => []OnlySignedInAct
<1>1. SessionsInv => OnlySignedInAct
  <2> SUFFICES ASSUME SessionsInv, NEW c \in HttpCalls,
                      call[c].pc = "whoami" \/ (call[c].pc = "limit" /\ call[c].what = "gateway")
               PROVE  /\ call[c].live
                      /\ call[c].org = sessions[call[c].token].user
                      /\ users[call[c].org].kind = call[c].route
    BY Zenon DEF OnlySignedInAct
  <2>1. Asking(call[c]) \/ Entering(call[c])
    BY StageOf, Zenon
  <2>2. PICK t \in Tokens, r \in Kinds :
          /\ call[c].token = t /\ call[c].route = r /\ call[c].live = TRUE
          /\ call[c].org = sessions[t].user /\ ActsFor(t, r)
    <3>1. CASE Asking(call[c])
      <4>1. PICK t \in Tokens, r \in Kinds :
              /\ call[c] = [pc |-> "whoami", token |-> t, route |-> r, live |-> TRUE, org |-> sessions[t].user]
              /\ ActsFor(t, r)
        BY <3>1, Zenon DEF Asking
      <4>2. /\ call[c].token = t /\ call[c].route = r /\ call[c].live = TRUE
            /\ call[c].org = sessions[t].user
        BY ONLY <4>1
      <4> QED
        BY <4>1, <4>2, Zenon
    <3>2. CASE Entering(call[c])
      <4>1. PICK t \in Tokens, r \in Kinds : \E rest :
              /\ call[c] = [pc |-> "limit", what |-> "gateway", token |-> t, route |-> r,
                            live |-> TRUE, org |-> sessions[t].user, todo |-> rest]
              /\ ActsFor(t, r)
        BY <3>2, Zenon DEF Entering
      <4>2. /\ call[c].token = t /\ call[c].route = r /\ call[c].live = TRUE
            /\ call[c].org = sessions[t].user
        BY ONLY <4>1
      <4> QED
        BY <4>1, <4>2, Zenon
    <3> QED
      BY <2>1, <3>1, <3>2, Zenon
  <2> QED
    BY <2>2, Zenon DEF ActsFor
<1> QED
  BY <1>1, SessionsInvariant, PTL

-----------------------------------------------------------------------------
(* The limiter.  First one key: a history of admitted requests by age, and *)
(* the counter and the remaining time of its window.                       *)


(* The requests admitted at the ages from a to b. *)
Over(r, a, b) == SumFunctionOnSet(r, a .. b)
(* The ages a window covers. *)
Ages(W) == 0 .. (W - 1)
(* r counts the requests of the last W ticks by their age. *)
IsHistory(r, W) == r \in [Ages(W) -> Nat]
(* One more request is admitted now ... *)
Admits(r, s) == s = [r EXCEPT ![0] = @ + 1]
(* ... and one tick passes. *)
GrowsOlder(r, s, W) == s = [i \in Ages(W) |-> IF i = 0 THEN 0 ELSE r[i - 1]]

(* The ages from a to b are finitely many, each with its count. *)
LEMMA OverAges ==
  ASSUME NEW W \in Nat \ {0}, NEW r, IsHistory(r, W), NEW a \in Nat, NEW b \in Int, b < W
  PROVE  IsFiniteSet(a .. b) /\ \A i \in a .. b : r[i] \in Nat /\ i \in Ages(W)
<1>1. IsFiniteSet(a .. b)
  BY FS_Interval
<1>2. \A i \in a .. b : i \in Ages(W)
  BY DEF Ages
<1>3. \A i \in Ages(W) : r[i] \in Nat
  BY DEF IsHistory
<1> QED
  BY <1>1, <1>2, <1>3, Zenon

(* Counts of requests are naturals. *)
LEMMA OverNat ==
  ASSUME NEW W \in Nat \ {0}, NEW r, IsHistory(r, W), NEW a \in Nat, NEW b \in Int, b < W
  PROVE  Over(r, a, b) \in Nat
<1> DEFINE S == a .. b
<1>1. IsFiniteSet(S) /\ \A i \in S : r[i] \in Nat
  BY OverAges, Zenon
<1> HIDE DEF S
<1>2. SumFunctionOnSet(r, S) \in Nat
  BY <1>1, SumOfNats
<1> QED
  BY <1>2, Zenon DEF Over, S

(* A stretch of ages is split at any age. *)
LEMMA OverSplit ==
  ASSUME NEW W \in Nat \ {0}, NEW r, IsHistory(r, W), NEW a \in Nat, NEW b \in Int, b < W,
         NEW c \in Int, a - 1 <= c, c <= b
  PROVE  Over(r, a, b) = Over(r, a, c) + Over(r, c + 1, b)
<1> DEFINE S == a .. b
           A == a .. c
           B == (c + 1) .. b
<1>1. A \in SUBSET S
  OBVIOUS
<1>2. S \ A = B
  OBVIOUS
<1>3. IsFiniteSet(S) /\ \A i \in S : r[i] \in Nat
  BY OverAges, Zenon
<1> HIDE DEF S, A, B
<1>4. SumFunctionOnSet(r, S) = SumFunctionOnSet(r, A) + SumFunctionOnSet(r, S \ A)
  BY <1>1, <1>3, SumOfPart
<1>5. SumFunctionOnSet(r, S) = SumFunctionOnSet(r, A) + SumFunctionOnSet(r, B)
  BY <1>2, <1>4, Zenon
<1> QED
  BY <1>5, Zenon DEF Over, S, A, B

(* A shorter stretch holds no more. *)
LEMMA OverPart ==
  ASSUME NEW W \in Nat \ {0}, NEW r, IsHistory(r, W), NEW a \in Nat, NEW b \in Int, b < W,
         NEW c \in Nat, NEW d \in Int, a <= c, d <= b
  PROVE  Over(r, c, d) <= Over(r, a, b)
<1> DEFINE S == a .. b
           A == c .. d
<1>1. A \in SUBSET S
  OBVIOUS
<1>3. IsFiniteSet(S) /\ \A i \in S : r[i] \in Nat
  BY OverAges, Zenon
<1> HIDE DEF S, A
<1>4. SumFunctionOnSet(r, A) <= SumFunctionOnSet(r, S)
  BY <1>1, <1>3, SumOfPart, Zenon
<1> QED
  BY <1>4, Zenon DEF Over, S, A

(* What admitting a request changes. *)
LEMMA AdmitHistory ==
  ASSUME NEW W \in Nat \ {0}, NEW r, IsHistory(r, W), NEW s, Admits(r, s)
  PROVE  /\ IsHistory(s, W) /\ s[0] = r[0] + 1 /\ r[0] \in Nat
         /\ \A i \in Ages(W) : i # 0 => s[i] = r[i]
BY DEF IsHistory, Ages, Admits

(* A stretch that starts now gains the request admitted ... *)
LEMMA AdmitNow ==
  ASSUME NEW W \in Nat \ {0}, NEW r, IsHistory(r, W), NEW s, Admits(r, s),
         NEW b \in Int, 0 <= b, b < W
  PROVE  Over(s, 0, b) = Over(r, 0, b) + 1
<1> DEFINE S == 0 .. b
<1>1. /\ IsHistory(s, W) /\ s[0] = r[0] + 1 /\ r[0] \in Nat
      /\ \A i \in Ages(W) : i # 0 => s[i] = r[i]
  BY AdmitHistory
<1>2. IsFiniteSet(S) /\ \A i \in S : r[i] \in Nat /\ i \in Ages(W)
  <2>1. 0 \in Nat
    OBVIOUS
  <2> QED
    BY <2>1, OverAges, Zenon
<1>3. 0 \in S
  OBVIOUS
<1>4. \A i \in S : s[i] \in Nat
  BY <1>1, <1>2 DEF IsHistory
<1> HIDE DEF S
<1>5. \A i \in S : r[i] \in Int /\ s[i] \in Int
  BY ONLY <1>2, <1>4
<1>6. \A i \in S : i # 0 => s[i] = r[i]
  BY <1>1, <1>2
<1>7. SumFunctionOnSet(s, S) = SumFunctionOnSet(r, S) + (s[0] - r[0])
  BY ONLY <1>2, <1>3, <1>5, <1>6, SumUpdate
<1>8. s[0] - r[0] = 1
  BY <1>1
<1> QED
  BY <1>7, <1>8, Zenon DEF Over, S

(* ... and one that starts earlier does not. *)
LEMMA AdmitBefore ==
  ASSUME NEW W \in Nat \ {0}, NEW r, IsHistory(r, W), NEW s, Admits(r, s),
         NEW a \in Nat, 0 < a, NEW b \in Int, b < W
  PROVE  Over(s, a, b) = Over(r, a, b)
<1> DEFINE S == a .. b
<1>1. \A i \in Ages(W) : i # 0 => s[i] = r[i]
  BY ONLY W \in Nat \ {0}, IsHistory(r, W), Admits(r, s), AdmitHistory
<1>2. IsFiniteSet(S) /\ \A i \in S : r[i] \in Nat /\ i \in Ages(W)
  BY OverAges, Zenon
<1>3. \A i \in S : i # 0
  OBVIOUS
<1> HIDE DEF S
<1>4. \A i \in S : r[i] \in Int /\ s[i] = r[i]
  BY <1>1, <1>2, <1>3
<1>5. SumFunctionOnSet(r, S) = SumFunctionOnSet(s, S)
  BY ONLY <1>2, <1>4, SumEqual, Zenon
<1> QED
  BY <1>5, Zenon DEF Over, S

(* What a tick changes. *)
LEMMA AgeHistory ==
  ASSUME NEW W \in Nat \ {0}, NEW r, IsHistory(r, W),
         NEW s, GrowsOlder(r, s, W)
  PROVE  /\ IsHistory(s, W) /\ s[0] = 0
         /\ \A i \in 0 .. (W - 2) : s[i + 1] = r[i] /\ r[i] \in Int
BY DEF IsHistory, Ages, GrowsOlder

(* A tick moves a stretch by one ... *)
LEMMA AgeBefore ==
  ASSUME NEW W \in Nat \ {0}, NEW r, IsHistory(r, W),
         NEW s, GrowsOlder(r, s, W),
         NEW a \in Nat, NEW b \in Int, b < W - 1
  PROVE  Over(s, a + 1, b + 1) = Over(r, a, b)
<1>1. \A i \in 0 .. (W - 2) : s[i + 1] = r[i] /\ r[i] \in Int
  BY AgeHistory, Zenon
<1>2. \A i \in a .. b : i \in 0 .. (W - 2)
  OBVIOUS
<1>3. \A i \in a .. b : r[i] \in Int /\ s[i + 1] = r[i]
  BY <1>1, <1>2, Zenon
<1>4. a \in Int /\ b \in Int
  OBVIOUS
<1>5. SumFunctionOnSet(s, (a + 1) .. (b + 1)) = SumFunctionOnSet(r, a .. b)
  BY ONLY <1>3, <1>4, SumShift, Zenon
<1> QED
  BY <1>5, Zenon DEF Over

(* ... and nothing is admitted yet at the new instant. *)
LEMMA AgeNow ==
  ASSUME NEW W \in Nat \ {0}, NEW r, IsHistory(r, W),
         NEW s, GrowsOlder(r, s, W),
         NEW b \in Int, 0 <= b, b < W
  PROVE  Over(s, 0, b) = Over(r, 0, b - 1)
<1>1. IsHistory(s, W) /\ s[0] = 0
  BY AgeHistory, Zenon
<1>2. /\ 0 \in Nat /\ 0 \in Int /\ 0 - 1 <= 0 /\ (b - 1) + 1 = b
      /\ b - 1 \in Int /\ b - 1 < W - 1 /\ b - 1 < W
  OBVIOUS
<1>3. Over(s, 0, b) = Over(s, 0, 0) + Over(s, 0 + 1, b)
  BY ONLY <1>1, <1>2, W \in Nat \ {0}, b \in Int, 0 <= b, b < W, OverSplit
<1>4. Over(s, 0, 0) = 0
  <2> DEFINE S == 0 .. 0
  <2>1. S = {0}
    OBVIOUS
  <2> HIDE DEF S
  <2>2. IsFiniteSet(S)
    <3>1. IsFiniteSet({0})
      BY ONLY FS_Singleton, Zenon
    <3> QED
      BY <2>1, <3>1, Zenon
  <2>3. \A i \in S : s[i] = 0
    BY <1>1, <2>1, Zenon
  <2>4. SumFunctionOnSet(s, S) = 0
    BY ONLY <2>2, <2>3, SumZero, Zenon
  <2> QED
    BY <2>4, Zenon DEF Over, S
<1>5. Over(s, 0 + 1, (b - 1) + 1) = Over(r, 0, b - 1)
  BY <1>2, AgeBefore
<1>6. Over(r, 0, b - 1) \in Nat
  BY <1>2, OverNat, Zenon
<1>7. Over(s, 0, b) = Over(s, 0, 0) + Over(r, 0, b - 1)
  BY <1>2, <1>3, <1>5, Zenon
<1> QED
  BY <1>4, <1>6, <1>7

(* The counter n of a window that has t ticks left, against the requests   *)
(* really admitted. While the window is open, n counts those admitted      *)
(* since it opened, and those before it, which fill at most one earlier    *)
(* window, are within the limit as well.                                   *)
KeyOK(r, n, t, L, W) ==
  /\ IsHistory(r, W) /\ n \in Nat
  /\ n = 0 => t = 0 /\ Over(r, 0, 0) = 0 /\ Over(r, 0, W - 1) <= L
  /\ n > 0 => /\ t \in 1 .. W
              /\ Over(r, 0, W - t) <= n /\ Over(r, 0, W - t) <= L
              /\ Over(r, W - t + 1, W - 1) <= L

(* The ages of the open window, and those before it. *)
LEMMA WindowAges ==
  ASSUME NEW W \in Nat \ {0}, NEW t \in 1 .. W
  PROVE  /\ W - t \in Int /\ 0 <= W - t /\ W - t < W /\ W - t <= W - 1 /\ 0 - 1 <= W - t
         /\ W - t + 1 \in Nat /\ 0 < W - t + 1
         /\ W - 1 \in Int /\ W - 1 < W /\ 0 <= W - 1 /\ 0 \in Nat
OBVIOUS

(* Hence at most twice the limit was admitted in any W ticks. *)
LEMMA TwiceTheLimit ==
  ASSUME NEW L \in Nat, NEW W \in Nat \ {0}, NEW r, NEW n, NEW t, KeyOK(r, n, t, L, W)
  PROVE  Over(r, 0, W - 1) <= 2 * L
<1>1. IsHistory(r, W) /\ n \in Nat
  BY DEF KeyOK
<1>2. CASE n = 0
  <2>1. W - 1 \in Int /\ W - 1 < W /\ 0 \in Nat
    OBVIOUS
  <2>2. Over(r, 0, W - 1) <= L
    BY <1>2 DEF KeyOK
  <2>3. Over(r, 0, W - 1) \in Nat
    BY <1>1, <2>1, OverNat, Zenon
  <2> QED
    BY <2>2, <2>3
<1>3. CASE n > 0
  <2>1. t \in 1 .. W /\ Over(r, 0, W - t) <= L /\ Over(r, W - t + 1, W - 1) <= L
    BY <1>3 DEF KeyOK
  <2>2. /\ W - t \in Int /\ 0 <= W - t /\ W - t < W /\ W - t <= W - 1 /\ 0 - 1 <= W - t
        /\ W - t + 1 \in Nat /\ W - 1 \in Int /\ W - 1 < W /\ 0 \in Nat
    BY <2>1, WindowAges, Zenon
  <2>3. Over(r, 0, W - 1) = Over(r, 0, W - t) + Over(r, W - t + 1, W - 1)
    BY ONLY <1>1, <2>2, W \in Nat \ {0}, OverSplit
  <2>4. Over(r, 0, W - t) \in Nat /\ Over(r, W - t + 1, W - 1) \in Nat
    BY <1>1, <2>2, OverNat, Zenon
  <2> QED
    BY <2>1, <2>3, <2>4
<1> QED
  BY <1>1, <1>2, <1>3

(* A request within the limit, which opens a window when none is open. *)
LEMMA KeyAdmits ==
  ASSUME NEW L \in Nat, NEW W \in Nat \ {0}, NEW r, NEW n, NEW t, KeyOK(r, n, t, L, W), n + 1 <= L,
         NEW s, Admits(r, s)
  PROVE  KeyOK(s, n + 1, IF n = 0 THEN W ELSE t, L, W)
<1> DEFINE u == IF n = 0 THEN W ELSE t
<1>1. IsHistory(r, W) /\ n \in Nat
  BY DEF KeyOK
<1>2. u \in 1 .. W /\ Over(r, 0, W - u) <= n /\ Over(r, W - u + 1, W - 1) <= L
  <2>1. CASE n = 0
    <3>1. u = W /\ W - u = 0 /\ W - u + 1 = 1
      BY <2>1
    <3>2. Over(r, 0, 0) = 0 /\ Over(r, 0, W - 1) <= L
      BY <2>1 DEF KeyOK
    <3>3. 0 \in Nat /\ 1 \in Nat /\ 0 <= 1 /\ W - 1 \in Int /\ W - 1 < W /\ W - 1 <= W - 1
      OBVIOUS
    <3>4. Over(r, 1, W - 1) <= Over(r, 0, W - 1)
      BY <1>1, <3>3, OverPart, Zenon
    <3>5. Over(r, 1, W - 1) \in Nat /\ Over(r, 0, W - 1) \in Nat
      BY <1>1, <3>3, OverNat, Zenon
    <3>6. Over(r, 1, W - 1) <= L
      BY <3>2, <3>4, <3>5
    <3> QED
      BY <2>1, <3>1, <3>2, <3>6
  <2>2. CASE n # 0
    BY <1>1, <2>2 DEF KeyOK
  <2> QED
    BY <2>1, <2>2, Zenon
<1> HIDE DEF u
<1>3. /\ W - u \in Int /\ 0 <= W - u /\ W - u < W
      /\ W - u + 1 \in Nat /\ 0 < W - u + 1 /\ W - 1 \in Int /\ W - 1 < W /\ 0 \in Nat
  BY <1>2, WindowAges, Zenon
<1>4. IsHistory(s, W)
  BY <1>1, AdmitHistory, Zenon
<1>5. Over(s, 0, W - u) = Over(r, 0, W - u) + 1
  BY <1>1, <1>3, AdmitNow
<1>6. Over(s, W - u + 1, W - 1) = Over(r, W - u + 1, W - 1)
  BY <1>1, <1>3, AdmitBefore
<1>7. Over(r, 0, W - u) \in Nat
  BY <1>1, <1>3, OverNat, Zenon
<1>8. n + 1 \in Nat /\ n + 1 > 0 /\ n + 1 # 0
  BY <1>1
<1>9. Over(s, 0, W - u) <= n + 1 /\ Over(s, 0, W - u) <= L
  BY <1>1, <1>2, <1>5, <1>7
<1>10. KeyOK(s, n + 1, u, L, W)
  BY <1>2, <1>4, <1>6, <1>8, <1>9, Zenon DEF KeyOK
<1> QED
  BY <1>10, Zenon DEF u

(* A request beyond the limit is counted and not admitted. *)
LEMMA KeyDenies ==
  ASSUME NEW L \in Nat \ {0}, NEW W \in Nat \ {0}, NEW r, NEW n, NEW t, KeyOK(r, n, t, L, W),
         ~(n + 1 <= L), NEW m \in Nat, n <= m \/ L < m
  PROVE  KeyOK(r, m, IF n = 0 THEN W ELSE t, L, W)
<1>1. IsHistory(r, W) /\ n \in Nat
  BY DEF KeyOK
<1>2. n > 0 /\ n # 0 /\ m > 0 /\ m # 0
  BY <1>1
<1>3. /\ t \in 1 .. W /\ Over(r, 0, W - t) <= n /\ Over(r, 0, W - t) <= L
      /\ Over(r, W - t + 1, W - 1) <= L
  BY <1>2, Zenon DEF KeyOK
<1>4. W - t \in Int /\ W - t < W /\ 0 \in Nat
  BY <1>3, WindowAges, Zenon
<1>5. Over(r, 0, W - t) \in Nat
  BY <1>1, <1>4, OverNat, Zenon
<1>6. Over(r, 0, W - t) <= m
  BY <1>1, <1>3, <1>5
<1>7. KeyOK(r, m, t, L, W)
  BY <1>1, <1>2, <1>3, <1>6, Zenon DEF KeyOK
<1> QED
  BY <1>2, <1>7, Zenon

(* A tick, which closes the window in its last one. *)
LEMMA KeyAges ==
  ASSUME NEW L \in Nat, NEW W \in Nat \ {0}, NEW r, NEW n, NEW t, KeyOK(r, n, t, L, W),
         NEW s, GrowsOlder(r, s, W)
  PROVE  /\ t <= 1 => KeyOK(s, 0, 0, L, W)
         /\ ~(t <= 1) => KeyOK(s, n, t - 1, L, W)
<1>1. IsHistory(r, W) /\ n \in Nat
  BY DEF KeyOK
<1>2. IsHistory(s, W)
  BY <1>1, AgeHistory, Zenon
<1>3. ASSUME t <= 1 PROVE KeyOK(s, 0, 0, L, W)
  <2>1. Over(r, 0, W - 1) <= L
    <3>1. CASE n = 0
      BY <3>1 DEF KeyOK
    <3>2. CASE n > 0
      <4>1. t \in 1 .. W /\ Over(r, 0, W - t) <= L
        BY <3>2 DEF KeyOK
      <4>2. t = 1
        BY <1>3, <4>1
      <4> QED
        BY <4>1, <4>2
    <3> QED
      BY <1>1, <3>1, <3>2
  <2>2. /\ W - 1 \in Int /\ 0 <= W - 1 /\ W - 1 < W /\ 0 \in Nat /\ 0 \in Int /\ 0 <= 0 /\ 0 < W
        /\ (W - 1) - 1 \in Int /\ (W - 1) - 1 < W /\ (W - 1) - 1 <= W - 1
    OBVIOUS
  <2>3. Over(s, 0, W - 1) = Over(r, 0, (W - 1) - 1)
    BY <1>1, <2>2, AgeNow
  <2>4. Over(r, 0, (W - 1) - 1) <= Over(r, 0, W - 1)
    BY <1>1, <2>2, OverPart, Zenon
  <2>5. Over(r, 0, (W - 1) - 1) \in Nat /\ Over(r, 0, W - 1) \in Nat
    BY <1>1, <2>2, OverNat, Zenon
  <2>6. Over(s, 0, W - 1) <= L
    BY <2>1, <2>3, <2>4, <2>5
  <2>7. Over(s, 0, 0) = 0
    <3>1. Over(s, 0, 0) = Over(r, 0, 0 - 1)
      BY <1>1, <2>2, AgeNow
    <3>2. 0 .. (0 - 1) = {}
      OBVIOUS
    <3> QED
      BY <3>1, <3>2, SumEmpty, Zenon DEF Over
  <2>8. 0 \in Nat /\ ~(0 > 0)
    OBVIOUS
  <2> QED
    BY <1>2, <2>6, <2>7, <2>8, Zenon DEF KeyOK
<1>4. ASSUME ~(t <= 1) PROVE KeyOK(s, n, t - 1, L, W)
  <2>1. n > 0 /\ n # 0
    BY <1>1, <1>4 DEF KeyOK
  <2>2. /\ t \in 1 .. W /\ Over(r, 0, W - t) <= n /\ Over(r, 0, W - t) <= L
        /\ Over(r, W - t + 1, W - 1) <= L
    BY <2>1 DEF KeyOK
  <2>3. /\ t - 1 \in 1 .. W /\ W - (t - 1) \in Int /\ 0 <= W - (t - 1) /\ W - (t - 1) < W
        /\ (W - (t - 1)) - 1 = W - t
    BY <1>4, <2>2
  <2>4. Over(s, 0, W - (t - 1)) = Over(r, 0, W - t)
    <3>1. Over(s, 0, W - (t - 1)) = Over(r, 0, (W - (t - 1)) - 1)
      BY <1>1, <2>3, AgeNow
    <3> QED
      BY <2>3, <3>1, Zenon
  <2>5. Over(s, W - (t - 1) + 1, W - 1) <= L
    <3> DEFINE a == W - t + 1
    <3>1. /\ a \in Nat /\ W - 2 \in Int /\ W - 2 < W - 1 /\ W - 2 < W /\ W - 2 <= W - 1 /\ a <= a
          /\ W - 1 \in Int /\ W - 1 < W
          /\ a + 1 = W - (t - 1) + 1 /\ (W - 2) + 1 = W - 1
      BY <2>2
    <3>2. Over(r, a, W - 1) <= L
      BY <2>2
    <3> HIDE DEF a
    <3>3. Over(s, a + 1, (W - 2) + 1) = Over(r, a, W - 2)
      BY <1>1, <3>1, AgeBefore
    <3>4. Over(r, a, W - 2) <= Over(r, a, W - 1)
      BY <1>1, <3>1, OverPart, Zenon
    <3>5. Over(r, a, W - 2) \in Nat /\ Over(r, a, W - 1) \in Nat
      BY <1>1, <3>1, OverNat, Zenon
    <3>6. Over(s, a + 1, (W - 2) + 1) <= L
      BY <3>2, <3>3, <3>4, <3>5
    <3> QED
      BY <3>1, <3>6, Zenon
  <2> QED
    BY <1>1, <1>2, <2>1, <2>2, <2>3, <2>4, <2>5, ZenonT(30) DEF KeyOK
<1> QED
  BY <1>3, <1>4

-----------------------------------------------------------------------------
(* All keys. *)

(* The policy of a key. *)
LimitOf(k) == Limit[Policy(k)]
WindowOf(k) == Window[Policy(k)]
(* Every key's counter keeps its books (Service.Allow in                   *)
(* internal/ratelimit).                                                    *)
LimiterInv ==
  /\ counters \in [Keys -> [count : Nat, ttl : Nat]]
  /\ recent = [k \in Keys |-> recent[k]]
  /\ \A k \in Keys : KeyOK(recent[k], counters[k].count, counters[k].ttl, LimitOf(k), WindowOf(k))

(* Every key has a policy. *)
LEMMA PolicyOfKey == \A k \in Keys : LimitOf(k) \in Nat /\ WindowOf(k) \in Nat \ {0}
<1>1. \A k \in Keys : Policy(k) \in Policies
  BY DEF Keys, Policy, Policies
<1> QED
  BY <1>1, SessionsAssumption DEF LimitOf, WindowOf

(* The lesser of two. *)
LEMMA MinOfTwo ==
  ASSUME NEW a \in Nat, NEW b \in Nat
  PROVE  Min({a, b}) = IF a <= b THEN a ELSE b
<1> DEFINE S == {a, b}
           m == IF a <= b THEN a ELSE b
<1>1. m \in S /\ \A y \in S : m <= y
  OBVIOUS
<1>2. \A x \in S : (\A y \in S : x <= y) => x = m
  OBVIOUS
<1>3. Min(S) \in S /\ \A y \in S : Min(S) <= y
  BY <1>1, Zenon DEF Min
<1> QED
  BY <1>2, <1>3

(* A key nobody was charged to. *)
LEMMA EmptyKey ==
  ASSUME NEW L \in Nat, NEW W \in Nat \ {0}, NEW r, r = [age \in Ages(W) |-> 0]
  PROVE  KeyOK(r, 0, 0, L, W)
<1>1. IsHistory(r, W) /\ \A i \in Ages(W) : r[i] = 0
  BY DEF IsHistory
<1>2. ASSUME NEW b \in Int, b < W PROVE Over(r, 0, b) = 0
  <2> DEFINE S == 0 .. b
             z == [i \in S |-> 0]
  <2>1. IsFiniteSet(S) /\ \A i \in S : r[i] \in Nat /\ i \in Ages(W)
    BY <1>1, <1>2, OverAges
  <2> HIDE DEF S
  <2>2. \A i \in S : r[i] = 0
    BY <1>1, <2>1
  <2>3. SumFunctionOnSet(r, S) = 0
    BY <2>1, <2>2, SumZero
  <2> QED
    BY <2>3, Zenon DEF Over, S
<1>3. 0 \in Int /\ 0 < W /\ W - 1 \in Int /\ W - 1 < W /\ 0 <= L /\ 0 \in Nat /\ ~(0 > 0)
  OBVIOUS
<1> QED
  BY <1>1, <1>2, <1>3, Zenon DEF KeyOK

(* Nobody was charged yet. *)
LEMMA LimiterInit == SessionsInit => LimiterInv
<1> SUFFICES ASSUME SessionsInit PROVE LimiterInv
  OBVIOUS
<1>1. counters = [k \in Keys |-> [count |-> 0, ttl |-> 0]]
  BY DEF SessionsInit
<1>2. recent = [k \in Keys |-> [age \in Ages(WindowOf(k)) |-> 0]]
  BY Zenon DEF SessionsInit, Ages, WindowOf
<1>3. ASSUME NEW k \in Keys
      PROVE  KeyOK(recent[k], counters[k].count, counters[k].ttl, LimitOf(k), WindowOf(k))
  <2>1. counters[k].count = 0 /\ counters[k].ttl = 0
    BY <1>1
  <2>2. recent[k] = [age \in Ages(WindowOf(k)) |-> 0]
    BY <1>2, Zenon
  <2>3. LimitOf(k) \in Nat /\ WindowOf(k) \in Nat \ {0}
    BY PolicyOfKey, Zenon
  <2>4. KeyOK(recent[k], 0, 0, LimitOf(k), WindowOf(k))
    BY ONLY <2>2, <2>3, EmptyKey, Zenon
  <2> QED
    BY <2>1, <2>4, Zenon
<1>4. counters \in [Keys -> [count : Nat, ttl : Nat]] /\ recent = [k \in Keys |-> recent[k]]
  BY <1>1, <1>2
<1> QED
  BY <1>3, <1>4, Zenon DEF LimiterInv

(* What the counter of a key that is charged shows next. *)
LEMMA CountOf ==
  ASSUME LimiterInv, NEW k \in Keys, LimitOf(k) # 0, NEW n, n = counters[k].count
  PROVE  /\ Count(k) \in [count : Nat, ttl : Nat]
         /\ n <= Count(k).count \/ LimitOf(k) < Count(k).count
         /\ n + 1 <= LimitOf(k) => Count(k).count = n + 1
         /\ Count(k).ttl = IF n = 0 THEN WindowOf(k) ELSE counters[k].ttl
<1> DEFINE L == LimitOf(k)
<1>1. n \in Nat /\ counters[k].ttl \in Nat
  BY DEF LimiterInv
<1>2. L \in Nat /\ WindowOf(k) \in Nat
  BY PolicyOfKey
<1>3. Count(k) = [count |-> Min({n + 1, L + 1}),
                  ttl |-> IF n = 0 THEN WindowOf(k) ELSE counters[k].ttl]
  BY Zenon DEF Count, LimitOf, WindowOf
<1> HIDE DEF L
<1>4. n + 1 \in Nat /\ L + 1 \in Nat
  BY <1>1, <1>2
<1>5. Min({n + 1, L + 1}) = IF n + 1 <= L + 1 THEN n + 1 ELSE L + 1
  BY <1>4, MinOfTwo, Zenon
<1>6. /\ Min({n + 1, L + 1}) \in Nat
      /\ n <= Min({n + 1, L + 1}) \/ L < Min({n + 1, L + 1})
      /\ n + 1 <= L => Min({n + 1, L + 1}) = n + 1
  BY ONLY <1>1, <1>2, <1>5
<1>7. Count(k).count = Min({n + 1, L + 1})
      /\ Count(k).ttl = IF n = 0 THEN WindowOf(k) ELSE counters[k].ttl
  BY ONLY <1>3
<1>8. Count(k) \in [count : Nat, ttl : Nat]
  BY ONLY <1>1, <1>2, <1>3, <1>6
<1> QED
  BY <1>6, <1>7, <1>8, Zenon DEF L

(* The other steps leave the limiter alone. *)
LEMMA LimiterKept == LimiterInv /\ UNCHANGED <<counters, recent>> => LimiterInv'
BY Zenon DEF LimiterInv

(* What charging a key does to the limiter. *)
Charge(k) ==
  \/ UNCHANGED <<counters, recent>>
  \/ /\ LimitOf(k) # 0
     /\ counters' = [counters EXCEPT ![k] = Count(k)]
     /\ \/ counters[k].count + 1 <= LimitOf(k) /\ recent' = [recent EXCEPT ![k][0] = @ + 1]
        \/ ~(counters[k].count + 1 <= LimitOf(k)) /\ UNCHANGED recent

(* Allow charges one key. *)
LEMMA AllowCharges ==
  ASSUME NEW c, Allow(c)
  PROVE  \E k : Charge(k)
<1> DEFINE k == Head(call[c].todo)
<1>1. Charge(k)
  <2>1. CASE Limit[Policy(k)] = 0
    BY <2>1, Zenon DEF Allow, Charge
  <2>2. CASE Limit[Policy(k)] # 0
    <3>1. counters' = [counters EXCEPT ![k] = Count(k)]
      BY <2>2, Zenon DEF Allow
    <3>2. CASE Allowed(k)
      <4>1. recent' = [recent EXCEPT ![k][0] = @ + 1]
        BY <2>2, <3>2, Zenon DEF Allow
      <4> QED
        BY <2>2, <3>1, <3>2, <4>1, Zenon DEF Charge, Allowed, LimitOf
    <3>3. CASE ~ Allowed(k)
      <4>1. recent' = recent
        BY <2>2, <3>3, Zenon DEF Allow
      <4> QED
        BY <2>2, <3>1, <3>3, <4>1, Zenon DEF Charge, Allowed, LimitOf
    <3> QED
      BY <3>2, <3>3, Zenon
  <2> QED
    BY <2>1, <2>2, Zenon
<1> QED
  BY <1>1, Zenon

(* Charging a key keeps the books of all. *)
LEMMA ChargeKeeps ==
  ASSUME LimiterInv, NEW k, Charge(k)
  PROVE  LimiterInv'
<1>1. CASE UNCHANGED <<counters, recent>>
  BY <1>1, LimiterKept, Zenon
<1>2. CASE /\ LimitOf(k) # 0
           /\ counters' = [counters EXCEPT ![k] = Count(k)]
           /\ \/ counters[k].count + 1 <= LimitOf(k) /\ recent' = [recent EXCEPT ![k][0] = @ + 1]
              \/ ~(counters[k].count + 1 <= LimitOf(k)) /\ UNCHANGED recent
  <2>1. counters \in [Keys -> [count : Nat, ttl : Nat]] /\ recent = [j \in Keys |-> recent[j]]
    BY Zenon DEF LimiterInv
  <2>2. CASE k \notin Keys
    <3>1. counters' = counters
      BY <1>2, <2>1, <2>2
    <3>2. recent' = recent
      <4>1. CASE UNCHANGED recent
        BY <4>1
      <4>2. CASE recent' = [recent EXCEPT ![k][0] = @ + 1]
        <5> DEFINE h == [recent[k] EXCEPT ![0] = @ + 1]
        <5>1. recent' = [recent EXCEPT ![k] = h]
          BY <4>2, Zenon
        <5> HIDE DEF h
        <5>2. recent' = [j \in DOMAIN recent |-> IF j = k THEN h ELSE recent[j]]
          BY <5>1, Zenon
        <5>3. recent' = [j \in Keys |-> recent[j]]
          BY <2>1, <2>2, <5>2
        <5> QED
          BY <2>1, <5>3, Zenon
      <4> QED
        BY <1>2, <4>1, <4>2, Zenon
    <3> QED
      BY <3>1, <3>2, LimiterKept, Zenon
  <2>3. CASE k \in Keys
    <3> DEFINE n == counters[k].count
               t == counters[k].ttl
               L == LimitOf(k)
               W == WindowOf(k)
               r == recent[k]
    <3>1. L \in Nat /\ L # 0 /\ W \in Nat \ {0}
      BY <1>2, <2>3, PolicyOfKey, Zenon
    <3>2. KeyOK(r, n, t, L, W)
      BY <2>3, Zenon DEF LimiterInv
    <3>3. /\ Count(k) \in [count : Nat, ttl : Nat]
          /\ n <= Count(k).count \/ L < Count(k).count
          /\ n + 1 <= L => Count(k).count = n + 1
          /\ Count(k).ttl = IF n = 0 THEN W ELSE t
      BY <1>2, <2>3, CountOf, Zenon
    <3>4. /\ counters' \in [Keys -> [count : Nat, ttl : Nat]]
          /\ counters'[k] = Count(k)
          /\ \A j \in Keys : j # k => counters'[j] = counters[j]
      BY <1>2, <2>1, <2>3, <3>3
    <3>5. /\ recent' = [j \in Keys |-> recent'[j]]
          /\ \A j \in Keys : j # k => recent'[j] = recent[j]
      <4>1. CASE UNCHANGED recent
        BY <2>1, <4>1, Zenon
      <4>2. CASE recent' = [recent EXCEPT ![k][0] = @ + 1]
        BY <2>1, <2>3, <4>2, Zenon
      <4> QED
        BY <1>2, <4>1, <4>2, Zenon
    <3>6. KeyOK(recent'[k], Count(k).count, Count(k).ttl, L, W)
      <4>1. CASE n + 1 <= L
        <5>1. recent' = [recent EXCEPT ![k] = [r EXCEPT ![0] = @ + 1]]
          BY <1>2, <4>1, Zenon
        <5>2. Admits(r, recent'[k])
          BY <2>1, <2>3, <5>1, Zenon DEF Admits
        <5> HIDE DEF n, t, L, W, r
        <5>3. KeyOK(recent'[k], n + 1, IF n = 0 THEN W ELSE t, L, W)
          BY ONLY <3>1, <3>2, <4>1, <5>2, KeyAdmits, Zenon
        <5> QED
          BY <3>3, <4>1, <5>3, Zenon
      <4>2. CASE ~(n + 1 <= L)
        <5>1. recent'[k] = r
          BY <1>2, <4>2, Zenon
        <5> DEFINE m == Count(k).count
        <5>2. m \in Nat
          BY <3>3, Zenon
        <5> HIDE DEF n, t, L, W, r, m
        <5>3. n <= m \/ L < m
          BY <3>3, Zenon DEF m
        <5>4. L \in Nat \ {0}
          BY <3>1
        <5>5. KeyOK(r, m, IF n = 0 THEN W ELSE t, L, W)
          BY ONLY <3>1, <3>2, <4>2, <5>2, <5>3, <5>4, KeyDenies, ZenonT(30)
        <5> QED
          BY <3>3, <5>1, <5>5, Zenon DEF m
      <4> QED
        BY <4>1, <4>2, Zenon
    <3>7. ASSUME NEW j \in Keys
          PROVE  KeyOK(recent'[j], counters'[j].count, counters'[j].ttl, LimitOf(j), WindowOf(j))
      <4>1. CASE j = k
        BY <3>4, <3>6, <4>1, Zenon
      <4>2. CASE j # k
        <5>1. KeyOK(recent[j], counters[j].count, counters[j].ttl, LimitOf(j), WindowOf(j))
          BY Zenon DEF LimiterInv
        <5> QED
          BY <3>4, <3>5, <4>2, <5>1, Zenon
      <4> QED
        BY <4>1, <4>2, Zenon
    <3> QED
      BY <3>4, <3>5, <3>7, Zenon DEF LimiterInv
  <2> QED
    BY <2>2, <2>3, Zenon
<1> QED
  BY <1>1, <1>2, Zenon DEF Charge

(* So does the passing of time. *)
LEMMA TickKeeps ==
  ASSUME LimiterInv, Tick
  PROVE  LimiterInv'
<1>1. counters \in [Keys -> [count : Nat, ttl : Nat]] /\ recent = [k \in Keys |-> recent[k]]
  BY Zenon DEF LimiterInv
<1>2. /\ counters' = [k \in Keys |->
           IF counters[k].ttl <= 1 THEN [count |-> 0, ttl |-> 0]
                                   ELSE [counters[k] EXCEPT !.ttl = @ - 1]]
      /\ recent' = [k \in Keys |-> Aged(k)]
  BY Zenon DEF Tick
<1>3. recent' = [k \in Keys |-> recent'[k]]
  BY <1>2, Zenon
<1>4. counters' \in [Keys -> [count : Nat, ttl : Nat]]
  BY <1>1, <1>2
<1>5. ASSUME NEW k \in Keys
      PROVE  KeyOK(recent'[k], counters'[k].count, counters'[k].ttl, LimitOf(k), WindowOf(k))
  <2> DEFINE n == counters[k].count
             t == counters[k].ttl
             L == LimitOf(k)
             W == WindowOf(k)
             r == recent[k]
             s == recent'[k]
  <2>1. L \in Nat /\ W \in Nat \ {0}
    BY PolicyOfKey, Zenon
  <2>2. KeyOK(r, n, t, L, W)
    BY Zenon DEF LimiterInv
  <2>3. GrowsOlder(r, s, W)
    <3>1. DOMAIN r = Ages(W)
      BY <2>2, Zenon DEF KeyOK, IsHistory
    <3>2. s = [age \in DOMAIN r |-> IF age = 0 THEN 0 ELSE r[age - 1]]
      BY <1>2, Zenon DEF Aged
    <3> QED
      BY <3>1, <3>2, Zenon DEF GrowsOlder
  <2>4. /\ t <= 1 => counters'[k].count = 0 /\ counters'[k].ttl = 0
        /\ ~(t <= 1) => counters'[k].count = n /\ counters'[k].ttl = t - 1
    BY <1>1, <1>2
  <2> HIDE DEF n, t, L, W, r, s
  <2>5. /\ t <= 1 => KeyOK(s, 0, 0, L, W)
        /\ ~(t <= 1) => KeyOK(s, n, t - 1, L, W)
    BY ONLY <2>1, <2>2, <2>3, KeyAges, Zenon
  <2> QED
    BY <2>4, <2>5, Zenon DEF L, W, s
<1> QED
  BY <1>3, <1>4, <1>5, Zenon DEF LimiterInv

(* Every step keeps the limiter's books. *)
LEMMA LimiterNext == LimiterInv /\ [SessionsNext]_sessionsVars => LimiterInv'
<1> SUFFICES ASSUME LimiterInv, [SessionsNext]_sessionsVars PROVE LimiterInv'
  OBVIOUS
<1>1. CASE Tick
  BY <1>1, TickKeeps, Zenon
<1>2. CASE UNCHANGED <<counters, recent>>
  BY <1>2, LimiterKept, Zenon
<1>3. ASSUME NEW c \in HttpCalls, Allow(c) PROVE LimiterInv'
  BY <1>3, AllowCharges, ChargeKeeps, Zenon
<1>4. Tick \/ UNCHANGED <<counters, recent>> \/ \E c \in HttpCalls : Allow(c)
  <2>1. CASE UNCHANGED sessionsVars
    BY <2>1 DEF sessionsVars
  <2>2. CASE SessionsNext
    <3>1. CASE Tick
      BY <3>1
    <3>2. ASSUME NEW c \in HttpCalls, \E e \in Emails, kind \in SignupKinds : handleSignup(c, e, kind)
          PROVE  UNCHANGED <<counters, recent>>
      BY <3>2, Zenon DEF handleSignup
    <3>3. ASSUME NEW c \in HttpCalls, \E e \in Emails, matches \in BOOLEAN : handleCreateSession(c, e, matches)
          PROVE  UNCHANGED <<counters, recent>>
      BY <3>3, Zenon DEF handleCreateSession
    <3>4. ASSUME NEW c \in HttpCalls, \E t \in Tokens : handleLogout(c, t)
          PROVE  UNCHANGED <<counters, recent>>
      BY <3>4, Zenon DEF handleLogout
    <3>5. ASSUME NEW c \in HttpCalls, \E t \in Tokens, route \in Kinds : GatewayRequest(c, t, route)
          PROVE  UNCHANGED <<counters, recent>>
      BY <3>5, Zenon DEF GatewayRequest
    <3>6. ASSUME NEW c \in HttpCalls,
                 CheckEmail(c) \/ InsertUser(c) \/ issueSession(c) \/ FindUserByEmail(c)
                 \/ RevokeSession(c) \/ resolveOrg(c) \/ actorUserID(c) \/ resolveOpsUser(c)
                 \/ Act(c) \/ Fails(c)
          PROVE  UNCHANGED <<counters, recent>>
      BY <3>6, Zenon DEF CheckEmail, InsertUser, issueSession, FindUserByEmail, RevokeSession,
                  resolveOrg, actorUserID, resolveOpsUser, Act, Fails
    <3> QED
      BY <2>2, <3>1, <3>2, <3>3, <3>4, <3>5, <3>6, ZenonT(30) DEF SessionsNext
  <2> QED
    BY <2>1, <2>2, Zenon
<1> QED
  BY <1>1, <1>2, <1>3, <1>4, Zenon

(* In any stretch of time as long as the window a key is admitted at most  *)
(* twice its limit (AtMostTwiceTheLimit), for every limit and window and   *)
(* any number of calls in progress.                                        *)
THEOREM LimiterBound == SessionsSpec => []AtMostTwiceTheLimit
<1>1. LimiterInv => AtMostTwiceTheLimit
  <2> SUFFICES ASSUME LimiterInv, NEW k \in Keys
               PROVE  SumFunction(recent[k]) <= 2 * Limit[Policy(k)]
    BY Zenon DEF AtMostTwiceTheLimit
  <2> DEFINE n == counters[k].count
             t == counters[k].ttl
             L == LimitOf(k)
             W == WindowOf(k)
             r == recent[k]
  <2>1. L \in Nat /\ W \in Nat \ {0}
    BY PolicyOfKey, Zenon
  <2>2. KeyOK(r, n, t, L, W)
    BY Zenon DEF LimiterInv
  <2> HIDE DEF n, t, L, W, r
  <2>3. Over(r, 0, W - 1) <= 2 * L
    BY ONLY <2>1, <2>2, TwiceTheLimit, Zenon
  <2>4. DOMAIN r = 0 .. (W - 1)
    BY <2>2 DEF KeyOK, IsHistory, Ages
  <2>5. SumFunction(r) = Over(r, 0, W - 1)
    BY <2>4, Zenon DEF SumFunction, FoldFunction, SumFunctionOnSet, Over
  <2> QED
    BY <2>3, <2>5, Zenon DEF L, r, LimitOf
<1>2. SessionsInit => LimiterInv
  BY LimiterInit
<1>3. LimiterInv /\ [SessionsNext]_sessionsVars => LimiterInv'
  BY LimiterNext
<1> QED
  BY <1>1, <1>2, <1>3, PTL DEF SessionsSpec
=============================================================================
