-------------------------------- MODULE Award --------------------------------
(***************************************************************************)
(* One request for quotation, the bids on it and the calls that award it   *)
(* (platform/bids.go).  Neither CreateBid nor AwardRFQ holds a lock from   *)
(* its first read to its last write, and every Save, the reservation of    *)
(* liquidity and every publish may fail; each read and write of the        *)
(* repositories is therefore a step of its own.                            *)
(*                                                                         *)
(* Bids are named by their position in the list ListByRFQ returns.  A call *)
(* creates at most one order, which is named after the call.               *)
(***************************************************************************)
EXTENDS Integers, Sequences, FiniteSets, FiniteSetsExt

CONSTANTS
  Calls,            \* calls of AwardRFQ
  NoCall,           \* the RFQ has no order
  NBids,            \* bids that may be submitted
  CarrierBids,      \* bids of providers that have a carrier binding
  Budgets,          \* budgets an RFQ may have, in cents
  Quoted,           \* total of the milestones sent with a bid, 0 if there are none
  SmallBudgetThresholdCents, SetupPercent, DeliveryPercent

Bids == 1 .. NBids

ASSUME ConstAssumption ==
  /\ NBids \in Nat \ {0}
  /\ CarrierBids \subseteq Bids
  /\ NoCall \notin Calls
  /\ Budgets \subseteq Nat \ {0}
  /\ Quoted \in [Bids -> Nat]
  /\ {SetupPercent, DeliveryPercent} \subseteq Nat /\ SetupPercent + DeliveryPercent < 100

VARIABLES
  rfq,              \* the stored RFQ: budget, status, awarded bid and order
  bids,             \* stored status of each bid, "absent" before it is saved
  submitting,       \* CreateBid calls that found the RFQ open
  pc,               \* progress of each award
  pick,             \* the bid an award is for
  todo,             \* listed bids an award has not saved yet
  reservation,      \* Status of the reservation an award made
  orders,           \* orders that are stored
  overlapped,       \* history: an award began while another was under way
  failed            \* history: a Save or a publish returned an error

vars == <<rfq, bids, submitting, pc, pick, todo, reservation, orders, overlapped, failed>>
awardVars == <<pc, pick, todo, reservation, orders>>

(* CreateRFQ needs a positive budget, and stores the RFQ open. *)
Init ==
  /\ \E budget \in Budgets : rfq = [budget |-> budget, status |-> "open", bid |-> 0, order |-> NoCall]
  /\ bids = [b \in Bids |-> "absent"]
  /\ submitting = {}
  /\ pc = [c \in Calls |-> "new"]
  /\ pick = [c \in Calls |-> 0]
  /\ todo = [c \in Calls |-> {}]
  /\ reservation = [c \in Calls |-> "none"]
  /\ orders = {}
  /\ overlapped = FALSE
  /\ failed = FALSE

-----------------------------------------------------------------------------
(* The milestones of an RFQ and, by default, of the bids on it: the budget *)
(* is split in percents, with the remainder for the execution.             *)
DefaultMilestoneSplit(budget) ==
  LET setup == (budget * SetupPercent) \div 100
      delivery == (budget * DeliveryPercent) \div 100
  IN  IF budget < SmallBudgetThresholdCents THEN <<budget>>
      ELSE <<setup, budget - setup - delivery, delivery>>

Total(split) == IF Len(split) = 1 THEN split[1] ELSE split[1] + split[2] + split[3]

(* Total of the milestones a bid is stored with, and its order is made of. *)
TotalBudget(b) ==
  IF Quoted[b] = 0 THEN Total(DefaultMilestoneSplit(rfq.budget)) ELSE Quoted[b]

(* CreateBid reads the RFQ, and saves the bid later. *)
CreateBid(b) ==
  /\ bids[b] = "absent" /\ b \notin submitting
  /\ rfq.status = "open"
  /\ TotalBudget(b) <= rfq.budget
  /\ submitting' = submitting \cup {b}
  /\ UNCHANGED <<rfq, bids, awardVars, overlapped, failed>>

SaveBid(b) ==
  /\ b \in submitting
  /\ submitting' = submitting \ {b}
  /\ bids' = [bids EXCEPT ![b] = "open"]
  /\ UNCHANGED <<rfq, awardVars, overlapped, failed>>

-----------------------------------------------------------------------------
Goto(c, place) == pc' = [pc EXCEPT ![c] = place]

\* Fault: an RFQ that was awarded can be awarded again.
AwardAnyRFQ(c, b) ==
  /\ pc[c] = "new"
  /\ bids[b] # "absent"
  /\ pick' = [pick EXCEPT ![c] = b]
  /\ overlapped' = (overlapped \/ \E d \in Calls : pc[d] \notin {"new", "failed", "awarded"})
  /\ Goto(c, "checked")
  /\ UNCHANGED <<rfq, bids, submitting, todo, reservation, orders, failed>>

(* The checks at the start; a bid is taken whatever its status is. *)
AwardRFQ(c, b) ==
  /\ pc[c] = "new"
  /\ rfq.status = "open"
  /\ bids[b] # "absent"
  /\ pick' = [pick EXCEPT ![c] = b]
  /\ overlapped' = (overlapped \/ \E d \in Calls : pc[d] \notin {"new", "failed", "awarded"})
  /\ Goto(c, "checked")
  /\ UNCHANGED <<rfq, bids, submitting, todo, reservation, orders, failed>>

(* maybeReserveProviderSettlementLiquidity: nothing to reserve without a   *)
(* carrier; an error ends the call.                                        *)
Reserve(c, ok) ==
  /\ pc[c] = "checked"
  /\ Goto(c, IF ok THEN "reserved" ELSE "failed")
  /\ reservation' = IF ok /\ pick[c] \in CarrierBids
                      THEN [reservation EXCEPT ![c] = "reserved"] ELSE reservation
  /\ UNCHANGED <<rfq, bids, submitting, pick, todo, orders, overlapped, failed>>

\* Fault: the call returns without releasing.
AbandonHolding(c) ==
  /\ Goto(c, "failed")
  /\ failed' = TRUE
  /\ UNCHANGED reservation

(* Every error after that releases the reservation. *)
Abandon(c) ==
  /\ Goto(c, "failed")
  /\ reservation' = [reservation EXCEPT ![c] = IF @ = "none" THEN @ ELSE "released"]
  /\ failed' = TRUE

ListByRFQ(c, ok) ==
  /\ pc[c] = "reserved"
  /\ IF ok THEN /\ todo' = [todo EXCEPT ![c] = {b \in Bids : bids[b] # "absent"}]
                /\ Goto(c, "listed")
                /\ UNCHANGED <<reservation, failed>>
           ELSE Abandon(c) /\ UNCHANGED todo
  /\ UNCHANGED <<rfq, bids, submitting, pick, orders, overlapped>>

\* Fault: an award waits for the other awards that have listed the bids.
SaveCandidateInTurn(c, ok) ==
  LET b == Min(todo[c])
  IN  /\ pc[c] = "listed"
      /\ todo[c] # {}
      /\ \A d \in Calls \ {c} : pc[d] # "listed"
      /\ IF ok THEN /\ bids' = [bids EXCEPT ![b] = IF b = pick[c] THEN "awarded" ELSE "rejected"]
                    /\ todo' = [todo EXCEPT ![c] = @ \ {b}]
                    /\ UNCHANGED <<pc, reservation, failed>>
               ELSE Abandon(c) /\ UNCHANGED <<bids, todo>>
      /\ UNCHANGED <<rfq, submitting, pick, orders, overlapped>>

(* The next candidate of the list is saved as awarded or rejected. *)
SaveCandidate(c, ok) ==
  LET b == Min(todo[c])
  IN  /\ pc[c] = "listed"
      /\ todo[c] # {}
      /\ IF ok THEN /\ bids' = [bids EXCEPT ![b] = IF b = pick[c] THEN "awarded" ELSE "rejected"]
                    /\ todo' = [todo EXCEPT ![c] = @ \ {b}]
                    /\ UNCHANGED <<pc, reservation, failed>>
               ELSE Abandon(c) /\ UNCHANGED <<bids, todo>>
      /\ UNCHANGED <<rfq, submitting, pick, orders, overlapped>>

\* Fault: the error of the order's Save is ignored.
CreateOrderUnchecked(c, saved, published) ==
  /\ pc[c] = "listed"
  /\ todo[c] = {}
  /\ orders' = IF saved THEN orders \cup {c} ELSE orders
  /\ IF published THEN Goto(c, "ordered") /\ UNCHANGED <<reservation, failed>>
                  ELSE Abandon(c)
  /\ UNCHANGED <<rfq, bids, submitting, pick, todo, overlapped>>

(* CreateOrder stores the order and then publishes; both may fail, and a   *)
(* failed publish leaves the order stored.                                 *)
CreateOrderFor(c, saved, published) ==
  /\ pc[c] = "listed"
  /\ todo[c] = {}
  /\ published => saved
  /\ orders' = IF saved THEN orders \cup {c} ELSE orders
  /\ IF published THEN Goto(c, "ordered") /\ UNCHANGED <<reservation, failed>>
                  ELSE Abandon(c)
  /\ UNCHANGED <<rfq, bids, submitting, pick, todo, overlapped>>

AttachReservation(c) ==
  /\ pc[c] = "ordered"
  /\ reservation' = [reservation EXCEPT ![c] = IF @ = "none" THEN @ ELSE "active"]
  /\ Goto(c, "attached")
  /\ UNCHANGED <<rfq, bids, submitting, pick, todo, orders, overlapped, failed>>

(* The RFQ read at the start is saved with the outcome. *)
SaveRFQ(c, ok) ==
  /\ pc[c] = "attached"
  /\ rfq' = IF ok THEN [rfq EXCEPT !.status = "awarded", !.bid = pick[c], !.order = c] ELSE rfq
  /\ Goto(c, IF ok THEN "saved" ELSE "failed")
  /\ failed' = (failed \/ ~ok)
  /\ UNCHANGED <<bids, submitting, pick, todo, reservation, orders, overlapped>>

(* The event, and after it the notices.  When the event is not published   *)
(* the call fails, with the award stored and nobody notified.              *)
PublishAward(c, ok) ==
  /\ pc[c] = "saved"
  /\ Goto(c, IF ok THEN "awarded" ELSE "failed")
  /\ failed' = (failed \/ ~ok)
  /\ UNCHANGED <<rfq, bids, submitting, pick, todo, reservation, orders, overlapped>>

Continue(c) ==
  \/ \E ok \in BOOLEAN : Reserve(c, ok) \/ ListByRFQ(c, ok) \/ SaveCandidate(c, ok)
                        \/ SaveRFQ(c, ok) \/ PublishAward(c, ok)
  \/ \E saved, published \in BOOLEAN : CreateOrderFor(c, saved, published)
  \/ AttachReservation(c)

Next ==
  \/ \E b \in Bids : CreateBid(b) \/ SaveBid(b)
  \/ \E c \in Calls : Continue(c) \/ \E b \in Bids : AwardRFQ(c, b)

(* A request that has begun runs to its end: nothing in AwardRFQ waits for *)
(* another request, and the provisioner's context has a deadline.          *)
Fairness == \A c \in Calls : WF_vars(Continue(c))

Spec == Init /\ [][Next]_vars /\ Fairness

-----------------------------------------------------------------------------
(* Every variable keeps its type. *)
TypeOK ==
  /\ rfq \in [budget : Budgets, status : {"open", "awarded"}, bid : Bids \cup {0}, order : Calls \cup {NoCall}]
  /\ bids \in [Bids -> {"absent", "open", "awarded", "rejected"}]
  /\ submitting \subseteq Bids
  /\ pc \in [Calls -> {"new", "checked", "reserved", "listed", "ordered", "attached", "saved", "awarded", "failed"}]
  /\ pick \in [Calls -> Bids \cup {0}]
  /\ todo \in [Calls -> SUBSET Bids]
  /\ reservation \in [Calls -> {"none", "reserved", "active", "released"}]
  /\ orders \subseteq Calls
  /\ overlapped \in BOOLEAN /\ failed \in BOOLEAN

(* An awarded RFQ names an order that is stored, was made from the bid it  *)
(* names, costs something within the RFQ's budget, and holds liquidity     *)
(* where the provider has a carrier, whatever failed and whoever else was  *)
(* awarding; and liquidity is attached to nothing but a stored order.      *)
AwardedIsBacked ==
  /\ rfq.status = "awarded" =>
       /\ rfq.order \in orders
       /\ pick[rfq.order] = rfq.bid
       /\ TotalBudget(rfq.bid) \in 1 .. rfq.budget
       /\ rfq.bid \in CarrierBids => reservation[rfq.order] = "active"
  /\ \A c \in Calls : reservation[c] = "active" => c \in orders

(* When awards do not overlap and nothing fails the RFQ has at most one    *)
(* order and one awarded bid, also while bids are still being submitted.   *)
OneWinner ==
  ~overlapped /\ ~failed =>
    /\ Cardinality(orders) <= 1
    /\ Cardinality({b \in Bids : bids[b] = "awarded"}) <= 1
    /\ rfq.status = "awarded" => bids[rfq.bid] = "awarded"

(* AwardRFQ uses the reservation as ReservationLife promises and decides   *)
(* each one it made, whichever of its steps fails.                         *)
Life == INSTANCE ReservationLife WITH status <- reservation
ReservationDecided == Life!FairSpec
=============================================================================
