----------------------------- MODULE Marketplace -----------------------------
(***************************************************************************)
(* What the buyer, the providers and the operators see of an RFQ, its bids *)
(* and its orders through the gateway, and the messages they exchange,     *)
(* while the RFQ is awarded (Award).                                       *)
(*                                                                         *)
(* The lists are filtered by organisation and the details and threads are  *)
(* authorised by it, each by code of its own.  A message is written in     *)
(* steps: its author is authorised on a copy of the RFQ that may be old    *)
(* when the message is saved.                                              *)
(***************************************************************************)
EXTENDS Award

CONSTANTS
  Providers, ProviderOf,    \* the provider that submits each bid
  Buyer, Ops,               \* the buyer of the RFQ, and an operator
  MaxRequests               \* lists and messages, a bound

Actors == Providers \cup {Buyer, Ops}

ASSUME ActorsAssumption ==
  /\ ProviderOf \in [Bids -> Providers]
  /\ Buyer # Ops /\ {Buyer, Ops} \cap Providers = {}
  /\ MaxRequests \in Nat

VARIABLES
  shown,          \* the last answer to a list request: to whom, the RFQ, the bids
  writing,        \* a message on its way to the RFQ's thread
  thread,         \* authors of the RFQ's messages
  orderThread,    \* orders with the authors of their messages
  requests        \* lists and messages so far

marketVars == <<shown, writing, thread, orderThread, requests>>
allVars == <<vars, marketVars>>

Nothing == [to |-> Buyer, rfqs |-> {}, bids |-> {}]
NoMessage == [pc |-> "none"]

MarketInit ==
  /\ Init
  /\ shown = Nothing
  /\ writing = NoMessage
  /\ thread = {}
  /\ orderThread = {}
  /\ requests = 0

-----------------------------------------------------------------------------
(* Who may see what. *)

Submitted == {b \in Bids : bids[b] # "absent"}

(* Providers find open RFQs, and the ones awarded to them. *)
filterRFQsForActor(r, a) ==
  \/ a \in {Buyer, Ops}
  \/ r.status = "open"
  \/ ProviderOf[r.bid] = a

(* A provider is shown its own bids only. *)
filterBidsForActor(a) == {b \in Submitted : a \in {Buyer, Ops, ProviderOf[b]}}

filterOrdersForActor(a) == {c \in orders : a \in {Buyer, Ops, ProviderOf[pick[c]]}}

authorizeOrderForActor(c, a) == a \in {Buyer, Ops, ProviderOf[pick[c]]}

\* Fault: only bids that are still in the running count.
authorizeOpenBidders(r, a) ==
  \/ a \in {Buyer, Ops}
  \/ r.bid # 0 /\ ProviderOf[r.bid] = a
  \/ \E b \in Submitted : ProviderOf[b] = a /\ bids[b] # "rejected"

(* The RFQ is a copy, the bids are read when everything before has failed. *)
authorizeRFQForActor(r, a) ==
  \/ a \in {Buyer, Ops}
  \/ r.bid # 0 /\ ProviderOf[r.bid] = a
  \/ \E b \in Submitted : ProviderOf[b] = a

-----------------------------------------------------------------------------
Request == requests < MaxRequests /\ requests' = requests + 1

handleListRFQs(a) ==
  /\ Request
  /\ shown' = [to |-> a, rfqs |-> IF filterRFQsForActor(rfq, a) THEN {rfq} ELSE {}, bids |-> {}]
  /\ UNCHANGED <<vars, writing, thread, orderThread>>

(* The bids are read before the RFQ, of which only the buyer matters. *)
handleListRFQBids(a) ==
  /\ Request
  /\ shown' = [to |-> a, rfqs |-> {},
               bids |-> {<<b, bids[b]>> : b \in filterBidsForActor(a)}]
  /\ UNCHANGED <<vars, writing, thread, orderThread>>

(* The first half reads the RFQ. *)
handleCreateRFQMessage(a) ==
  /\ Request
  /\ writing.pc = "none"
  /\ writing' = [pc |-> "authorize", by |-> a, rfq |-> rfq]
  /\ UNCHANGED <<vars, shown, thread, orderThread>>

(* Whoever is not authorised is answered with an error. *)
AuthorizeMessage ==
  /\ writing.pc = "authorize"
  /\ writing' = IF authorizeRFQForActor(writing.rfq, writing.by)
                  THEN [pc |-> "save", by |-> writing.by] ELSE NoMessage
  /\ UNCHANGED <<vars, shown, thread, orderThread, requests>>

(* A message that is saved stays, also when its event is not published. *)
CreateRFQMessage(saved) ==
  /\ writing.pc = "save"
  /\ thread' = IF saved THEN thread \cup {writing.by} ELSE thread
  /\ writing' = NoMessage
  /\ UNCHANGED <<vars, shown, orderThread, requests>>

(* The order is read and its author authorised; organisations of an order  *)
(* never change, so that the message may as well be saved in this step.    *)
handleCreateMessage(c, a) ==
  /\ Request
  /\ c \in orders /\ authorizeOrderForActor(c, a)
  /\ orderThread' = orderThread \cup {<<c, a>>}
  /\ UNCHANGED <<vars, shown, writing, thread>>

Awarding(c) == Continue(c) /\ UNCHANGED marketVars

MarketNext ==
  \/ Next /\ UNCHANGED marketVars
  \/ \E a \in Actors : \/ handleListRFQs(a) \/ handleListRFQBids(a) \/ handleCreateRFQMessage(a)
                       \/ \E c \in Calls : handleCreateMessage(c, a)
  \/ AuthorizeMessage
  \/ \E saved \in BOOLEAN : CreateRFQMessage(saved)

(* As in Award: an award that has begun runs to its end. *)
MarketSpec == MarketInit /\ [][MarketNext]_allVars /\ \A c \in Calls : WF_allVars(Awarding(c))

-----------------------------------------------------------------------------
ShownAwardCanBeOpened ==
  \A r \in shown.rfqs : r.status = "awarded" =>
     /\ r.order \in filterOrdersForActor(shown.to)
     /\ authorizeOrderForActor(r.order, shown.to)

AuthorsKeepAccess ==
  /\ \A a \in thread : authorizeRFQForActor(rfq, a)
  /\ \A m \in orderThread : m[1] \in filterOrdersForActor(m[2])

(* Access that was given is kept.  Whoever found the RFQ in a list as      *)
(* awarded finds its order in the list of orders and may open it, also     *)
(* when the RFQ has meanwhile been awarded a second time.  An author can   *)
(* always come back to the thread: being rejected, or seeing the award go  *)
(* to another between being authorised and being heard, does not close it; *)
(* and the thread of an order is its parties' and the operators' alone.    *)
AccessIsKept == ShownAwardCanBeOpened /\ AuthorsKeepAccess

(* A provider that is shown its bid as awarded gets the order, unless a    *)
(* Save or a publish fails: the bid is marked before there is an order.    *)
ShownAwardComes ==
  \A b \in Bids : <<b, "awarded">> \in shown.bids ~> failed \/ \E c \in orders : pick[c] = b
=============================================================================
