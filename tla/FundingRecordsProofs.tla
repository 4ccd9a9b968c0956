------------------------ MODULE FundingRecordsProofs ------------------------
(***************************************************************************)
(* The funding records for any number of invoices, payment requests and    *)
(* handlers: what is stored as final is true of the rail, and nothing on   *)
(* the rail goes unrecorded.                                               *)
(*                                                                         *)
(* An answer on its way to the store is as true as a stored one: RailMoves *)
(* says which facts about the rail stay true, and answers only rest on     *)
(* those.                                                                  *)
(*                                                                         *)
(* The runs that fund and verify the demo, for any number of overlapping   *)
(* runs and any incidents: the safety properties of DemoReady, in the      *)
(* second part.                                                            *)
(***************************************************************************)
EXTENDS FundingRecords, DemoReady, TLAPS

(* A queue that has given a payment up will not pay it. *)
GivenUp(r) == rail = "queue" /\ accepted[r] = "FAILED" /\ r \notin paid

InvoiceIs(i, answer) ==
  /\ answer = "SETTLED" => node[i] = "paid"
  /\ answer = "FAILED" => node[i] = "cancelled"

TransferIs(r, answer) ==
  /\ answer = "COMPLETED" => r \in paid
  /\ answer = "FAILED" => GivenUp(r)

RailInv ==
  \A r \in Requests :
     /\ TransferIs(r, accepted[r])
     /\ accepted[r] = "PROCESSING" => rail = "queue" /\ r \notin paid
     /\ rail = "queue" /\ r \in paid => accepted[r] = "COMPLETED"
     /\ rail = "adapter" => accepted[r] \in {"absent", "COMPLETED"}

(* What a handler that waits to write may write. *)
HandlerInv(x) ==
  /\ x.pc \in {"save_invoice", "update_invoices"} => x.subject \subseteq Invoices
  /\ x.pc \in {"save_transfer", "update_transfers"} => x.subject \subseteq Requests
  /\ x.pc = "update_invoices" => x.answer \in States /\ \A i \in x.subject : InvoiceIs(i, x.answer)
  /\ x.pc = "save_transfer" => /\ x.answer \in {"PENDING", "COMPLETED"}
                               /\ \A r \in x.subject : TransferIs(r, x.answer)
  /\ x.pc = "update_transfers" => /\ x.answer \in [x.subject -> TransferStates]
                                  /\ \A r \in x.subject : TransferIs(r, x.answer[r])

LoopInv ==
  /\ loop.pc = "write_invoice" =>
       /\ loop.answer \in States
       /\ \A i \in Invoices : i = NextInvoice[1] => InvoiceIs(i, loop.answer)
  /\ loop.pc = "write_transfers" =>
       \E S \in SUBSET Requests : /\ loop.answer \in [S -> TransferStates]
                                  /\ \A r \in S : TransferIs(r, loop.answer[r])

StoreInv ==
  /\ \A i \in Invoices : InvoiceIs(i, invoices[i])
  /\ \A r \in Requests : TransferIs(r, transfers[r])

InvoiceKnown(i) ==
  \/ invoices[i] # "absent" \/ i \in unsaved
  \/ \E h \in Handlers : handler[h].pc = "save_invoice" /\ i \in handler[h].subject

TransferKnown(r) ==
  \/ transfers[r] # "absent" \/ r \in unsaved
  \/ \E h \in Handlers : handler[h].pc = "save_transfer" /\ r \in handler[h].subject

KnownInv ==
  /\ \A i \in Invoices : node[i] # "absent" => InvoiceKnown(i)
  /\ \A r \in Requests : r \in paid \/ accepted[r] # "absent" => TransferKnown(r)

RecordsInv ==
  /\ TypeOK /\ RailInv /\ LoopInv /\ StoreInv /\ KnownInv
  /\ \A h \in Handlers : HandlerInv(handler[h])

-----------------------------------------------------------------------------
RailTypes ==
  /\ rail \in {"adapter", "queue"}
  /\ node \in [Invoices -> {"absent", "open", "paid", "cancelled"}]
  /\ paid \subseteq Requests
  /\ tips \in [Invoices -> States \cup {"absent"}]
  /\ accepted \in [Requests -> TransferStates \cup {"absent"}]

(* What stays true of the rail. *)
RailMoves ==
  /\ RailTypes' /\ RailInv' /\ rail' = rail
  /\ \A i \in Invoices : node[i] \in {"paid", "cancelled"} => node'[i] = node[i]
  /\ paid \subseteq paid'
  /\ \A r \in Requests : GivenUp(r) => GivenUp(r)'

NoneNew ==
  /\ \A i \in Invoices : node'[i] # "absent" => node[i] # "absent"
  /\ \A r \in Requests : r \in paid' \/ accepted'[r] # "absent"
                           => r \in paid \/ accepted[r] # "absent"

LEMMA RailParts == RecordsInv => RailTypes /\ RailInv
BY DEF RecordsInv, TypeOK, RailTypes

LEMMA AnswersKept ==
  ASSUME RecordsInv, RailMoves
  PROVE  /\ \A i \in Invoices : \A a : InvoiceIs(i, a) => InvoiceIs(i, a)'
         /\ \A r \in Requests : \A a : TransferIs(r, a) => TransferIs(r, a)'
BY DEF RailMoves, InvoiceIs, TransferIs

LEMMA StoreKept ==
  ASSUME RecordsInv, RailMoves, UNCHANGED <<invoices, transfers>>
  PROVE  StoreInv'
BY AnswersKept DEF RecordsInv, StoreInv

LEMMA LoopKept ==
  ASSUME RecordsInv, RailMoves, UNCHANGED loop
  PROVE  LoopInv'
<1>1. /\ \A i \in Invoices : \A a : InvoiceIs(i, a) => InvoiceIs(i, a)'
      /\ \A r \in Requests : \A a : TransferIs(r, a) => TransferIs(r, a)'
  BY AnswersKept
<1>2. NextInvoice' = NextInvoice /\ loop' = loop
  BY DEF NextInvoice
<1>3. LoopInv
  BY DEF RecordsInv
<1>4. loop'.pc = "write_invoice" =>
       /\ loop'.answer \in States
       /\ \A i \in Invoices : i = NextInvoice'[1] => InvoiceIs(i, loop.answer)'
  BY <1>1, <1>2, <1>3 DEF LoopInv
<1>5. ASSUME loop'.pc = "write_transfers"
      PROVE  \E S \in SUBSET Requests : /\ loop'.answer \in [S -> TransferStates]
                                        /\ \A r \in S : TransferIs(r, loop.answer[r])'
  <2>1. PICK S \in SUBSET Requests : /\ loop.answer \in [S -> TransferStates]
                                     /\ \A r \in S : TransferIs(r, loop.answer[r])
    BY <1>2, <1>3, <1>5 DEF LoopInv
  <2>2. \A r \in S : TransferIs(r, loop.answer[r])'
    <3> SUFFICES ASSUME NEW r \in S PROVE TransferIs(r, loop.answer[r])'
      OBVIOUS
    <3>1. TransferIs(r, loop.answer[r])
      BY <2>1
    <3> QED
      BY <3>1, <1>2 DEF TransferIs, RailMoves
  <2> QED
    BY <1>2, <2>1, <2>2
<1> QED
  BY <1>4, <1>5 DEF LoopInv

LEMMA RailUnmoved ==
  ASSUME RecordsInv, UNCHANGED <<rail, node, paid, tips, accepted>>
  PROVE  RailMoves /\ NoneNew
BY RailParts DEF RailMoves, RailTypes, RailInv, TransferIs, GivenUp, NoneNew
-----------------------------------------------------------------------------
(* The moves of the rail. *)

LEMMA NodeMoves ==
  ASSUME RecordsInv, UNCHANGED <<rail, paid, accepted>>, tips' \in [Invoices -> States \cup {"absent"}],
         node' \in [Invoices -> {"absent", "open", "paid", "cancelled"}],
         \A i \in Invoices : node[i] \in {"paid", "cancelled"} => node'[i] = node[i]
  PROVE  RailMoves
BY RailParts DEF RailMoves, RailTypes, RailInv, TransferIs, GivenUp

LEMMA InvoiceMovesRail ==
  ASSUME RecordsInv, NEW i \in Invoices, NEW status \in {"paid", "cancelled"}, InvoiceMoves(i, status)
  PROVE  RailMoves /\ NoneNew
<1>1. RailTypes
  BY RailParts
<1>2. /\ UNCHANGED <<rail, paid, tips, accepted>> /\ node[i] = "open"
      /\ node' = [node EXCEPT ![i] = status]
  BY DEF InvoiceMoves
<1>3. RailMoves
  BY <1>1, <1>2, NodeMoves DEF RailTypes
<1> QED
  BY <1>1, <1>2, <1>3 DEF RailTypes, NoneNew

LEMMA QueueMovesRail ==
  ASSUME RecordsInv, NEW r \in Requests, NEW state \in {"COMPLETED", "FAILED"}, QueueMoves(r, state)
  PROVE  RailMoves /\ NoneNew
<1>1. RailTypes /\ RailInv
  BY RailParts
<1>2. /\ UNCHANGED <<rail, node, tips>> /\ accepted[r] = "PROCESSING"
      /\ accepted' = [accepted EXCEPT ![r] = state]
      /\ paid' = IF state = "COMPLETED" THEN paid \cup {r} ELSE paid
  BY DEF QueueMoves
<1>3. rail = "queue" /\ r \notin paid
  BY <1>1, <1>2 DEF RailInv
<1>4. RailTypes'
  BY <1>1, <1>2 DEF RailTypes, TransferStates
<1>5. RailInv'
  BY <1>1, <1>2, <1>3 DEF RailTypes, RailInv, TransferIs, GivenUp
<1>6. \A q \in Requests : GivenUp(q) => GivenUp(q)'
  BY <1>1, <1>2 DEF RailTypes, GivenUp
<1> QED
  BY <1>1, <1>2, <1>4, <1>5, <1>6 DEF RailTypes, RailMoves, NoneNew

LEMMA AdapterRestartsRail ==
  ASSUME RecordsInv, AdapterRestarts
  PROVE  RailMoves /\ NoneNew
<1>1. RailTypes /\ RailInv
  BY RailParts
<1>2. /\ UNCHANGED <<rail, node, paid>> /\ rail = "adapter"
      /\ tips' = [i \in Invoices |-> "absent"] /\ accepted' = [q \in Requests |-> "absent"]
  BY DEF AdapterRestarts
<1> QED
  BY <1>1, <1>2 DEF RailTypes, RailMoves, NoneNew, RailInv, TransferIs, GivenUp

LEMMA StatusOfNode ==
  ASSUME RailTypes, NEW i \in Invoices
  PROVE  nodeInvoiceStatus(i) \in States /\ InvoiceIs(i, nodeInvoiceStatus(i))
BY DEF RailTypes, nodeInvoiceStatus, mapInvoiceState, States, InvoiceIs

LEMMA TipsTyped ==
  ASSUME RailTypes, NEW S, updateTipState(S)
  PROVE  tips' \in [Invoices -> States \cup {"absent"}]
BY StatusOfNode DEF RailTypes, updateTipState

LEMMA TipStatusRail ==
  ASSUME RecordsInv, NEW S, updateTipState(S), UNCHANGED <<rail, node, paid, accepted>>
  PROVE  RailMoves /\ NoneNew
<1>1. RailTypes
  BY RailParts
<1> QED
  BY <1>1, TipsTyped, NodeMoves DEF RailTypes, NoneNew

LEMMA TipCreateRail ==
  ASSUME RecordsInv, NEW i \in Invoices, tipCreate(i)
  PROVE  /\ RailMoves /\ UNCHANGED <<paid, accepted>>
         /\ \A j \in Invoices : node'[j] # "absent" => node[j] # "absent" \/ j = i
<1>1. RailTypes
  BY RailParts
<1>2. /\ UNCHANGED <<rail, paid, accepted>> /\ node[i] = "absent"
      /\ node' = [node EXCEPT ![i] = "open"] /\ tips' = [tips EXCEPT ![i] = "UNPAID"]
  BY DEF tipCreate
<1>3. tips' \in [Invoices -> States \cup {"absent"}]
  BY <1>1, <1>2 DEF RailTypes, States
<1>4. RailMoves
  BY <1>1, <1>2, <1>3, NodeMoves DEF RailTypes
<1> QED
  BY <1>1, <1>2, <1>4 DEF RailTypes

LEMMA WithdrawalRail ==
  ASSUME RecordsInv, NEW r \in Requests, NEW answered \in BOOLEAN,
         withdrawalRequest(r, answered) \/ queueWithdrawal(r)
  PROVE  /\ RailMoves /\ UNCHANGED node
         /\ withdrawalRequest(r, answered) => r \in paid'
         /\ \A q \in Requests : q \in paid' \/ accepted'[q] # "absent"
                                 => q \in paid \/ accepted[q] # "absent" \/ q = r
<1>1. RailTypes /\ RailInv
  BY RailParts
<1>2. CASE withdrawalRequest(r, answered)
  <2>1. /\ UNCHANGED <<rail, node, tips>> /\ rail = "adapter" /\ r \notin paid
        /\ paid' = paid \cup {r}
        /\ accepted' \in {accepted, [accepted EXCEPT ![r] = "COMPLETED"]}
    BY <1>2 DEF withdrawalRequest, SendPayment
  <2>2. RailTypes'
    BY <1>1, <2>1 DEF RailTypes, TransferStates
  <2>3. \A q \in Requests : accepted'[q] = accepted[q] \/ (q = r /\ accepted'[q] = "COMPLETED")
    BY <1>1, <2>1 DEF RailTypes
  <2>4. RailInv'
    BY <1>1, <2>1, <2>3 DEF RailInv, TransferIs, GivenUp
  <2> QED
    BY <1>1, <2>1, <2>2, <2>3, <2>4 DEF RailMoves, GivenUp
<1>3. CASE queueWithdrawal(r)
  <2>1. /\ UNCHANGED <<rail, node, paid, tips>> /\ rail = "queue" /\ accepted[r] = "absent"
        /\ accepted' = [accepted EXCEPT ![r] = "PROCESSING"]
    BY <1>3 DEF queueWithdrawal
  <2>2. r \notin paid
    BY <1>1, <2>1 DEF RailInv
  <2>3. RailTypes'
    BY <1>1, <2>1 DEF RailTypes, TransferStates
  <2>4. \A q \in Requests : accepted'[q] = IF q = r THEN "PROCESSING" ELSE accepted[q]
    BY <1>1, <2>1 DEF RailTypes
  <2>5. RailInv'
    BY <1>1, <2>1, <2>2, <2>4 DEF RailInv, TransferIs, GivenUp
  <2>6. ~withdrawalRequest(r, answered)
    BY <2>1 DEF withdrawalRequest
  <2> QED
    BY <1>1, <2>1, <2>3, <2>4, <2>5, <2>6 DEF RailMoves, GivenUp
<1> QED
  BY <1>2, <1>3

LEMMA SummaryTrue ==
  ASSUME RailTypes, RailInv, NEW S \in SUBSET Requests
  PROVE  LET D == DOMAIN dashboardSummary(S) IN
         /\ D \in SUBSET Requests /\ dashboardSummary(S) \in [D -> TransferStates]
         /\ dashboardSummary(S) \in Answers
         /\ \A r \in D : TransferIs(r, dashboardSummary(S)[r])
<1> DEFINE D == {r \in S : accepted[r] # "absent"}
<1>1. dashboardSummary(S) = [r \in D |-> accepted[r]]
  BY DEF dashboardSummary
<1>2. \A r \in D : r \in Requests /\ accepted[r] \in TransferStates
  BY DEF RailTypes
<1>3. dashboardSummary(S) \in [D -> TransferStates] /\ DOMAIN dashboardSummary(S) = D
  BY <1>1, <1>2
<1>4. D \in SUBSET Requests
  BY <1>2
<1>5. dashboardSummary(S) \in Answers
  BY <1>3, <1>4 DEF Answers, Summaries
<1>6. \A r \in D : TransferIs(r, dashboardSummary(S)[r])
  BY <1>1, <1>2 DEF RailInv
<1> QED
  BY <1>3, <1>4, <1>5, <1>6

-----------------------------------------------------------------------------
(* A step that leaves handlers, loop and store alone. *)
LEMMA RailStep ==
  ASSUME RecordsInv, Rail
  PROVE  RecordsInv'
<1>1. RailMoves /\ NoneNew
  BY InvoiceMovesRail, QueueMovesRail, AdapterRestartsRail DEF Rail
<1>2. UNCHANGED <<invoices, transfers, handler, loop, unsaved>>
  BY DEF Rail, InvoiceMoves, QueueMoves, AdapterRestarts, storeVars, countVars
<1>3. TypeOK'
  BY <1>1, <1>2 DEF RailMoves, RailTypes, RecordsInv, TypeOK
<1>4. LoopInv' /\ StoreInv'
  BY <1>1, <1>2, LoopKept, StoreKept
<1>5. KnownInv'
  BY <1>1, <1>2 DEF NoneNew, RecordsInv, KnownInv, InvoiceKnown, TransferKnown
<1>6. \A h \in Handlers : HandlerInv(handler[h])'
  <2> SUFFICES ASSUME NEW h \in Handlers PROVE HandlerInv(handler[h])'
    OBVIOUS
  <2>1. HandlerInv(handler[h])
    BY DEF RecordsInv
  <2> QED
    BY <1>1, <1>2, <2>1 DEF HandlerInv, InvoiceIs, TransferIs, RailMoves
<1> QED
  BY <1>1, <1>3, <1>4, <1>5, <1>6 DEF RailMoves, RecordsInv
-----------------------------------------------------------------------------
(* Handlers.  A handler starts with a call of the rail, and ends by        *)
(* writing to the store or not.                                            *)

HandlerRecords == [pc : {"ready", "save_invoice", "update_invoices", "save_transfer", "update_transfers"},
                   subject : SUBSET (Invoices \cup Requests), answer : Answers]

LEMMA SetHandler ==
  ASSUME RecordsInv, NEW h \in Handlers, NEW x \in HandlerRecords, handler' = [handler EXCEPT ![h] = x]
  PROVE  /\ handler' \in [Handlers -> HandlerRecords] /\ handler'[h] = x
         /\ \A g \in Handlers \ {h} : handler'[g] = handler[g]
<1>1. handler \in [Handlers -> HandlerRecords]
  BY DEF RecordsInv, TypeOK, HandlerRecords
<1> QED
  BY <1>1

LEMMA HandlersKept ==
  ASSUME RecordsInv, RailMoves, NEW h \in Handlers, HandlerInv(handler[h])',
         \A g \in Handlers \ {h} : handler'[g] = handler[g]
  PROVE  \A g \in Handlers : HandlerInv(handler[g])'
<1> SUFFICES ASSUME NEW g \in Handlers, g # h PROVE HandlerInv(handler[g])'
  OBVIOUS
<1>1. HandlerInv(handler[g]) /\ handler'[g] = handler[g]
  BY DEF RecordsInv
<1>2. /\ \A i \in Invoices : \A a : InvoiceIs(i, a) => InvoiceIs(i, a)'
      /\ \A r \in Requests : \A a : TransferIs(r, a) => TransferIs(r, a)'
  BY AnswersKept, Zenon
<1> QED
  BY <1>1, <1>2, Zenon DEF HandlerInv

LEMMA StartStep ==
  ASSUME RecordsInv, NEW h \in Handlers, NEW x \in HandlerRecords, RailMoves,
         handler[h].pc = "ready", handler' = [handler EXCEPT ![h] = x],
         UNCHANGED <<invoices, transfers, loop, unsaved>>, HandlerInv(x)',
         \A i \in Invoices : node'[i] # "absent" =>
            node[i] # "absent" \/ (x.pc = "save_invoice" /\ i \in x.subject),
         \A r \in Requests : r \in paid' \/ accepted'[r] # "absent" =>
            r \in paid \/ accepted[r] # "absent" \/ (x.pc = "save_transfer" /\ r \in x.subject)
  PROVE  RecordsInv'
<1>1. /\ handler' \in [Handlers -> HandlerRecords] /\ handler'[h] = x
      /\ \A g \in Handlers \ {h} : handler'[g] = handler[g]
  BY SetHandler, Zenon
<1>2. TypeOK'
  BY <1>1, Zenon DEF RailMoves, RailTypes, RecordsInv, TypeOK, HandlerRecords
<1>3. LoopInv' /\ StoreInv'
  BY LoopKept, StoreKept, Zenon
<1>4. KnownInv'
  <2>1. \A i \in Invoices : InvoiceKnown(i) => InvoiceKnown(i)'
    BY <1>1 DEF InvoiceKnown
  <2>2. \A r \in Requests : TransferKnown(r) => TransferKnown(r)'
    BY <1>1 DEF TransferKnown
  <2>3. \A i \in Invoices : x.pc = "save_invoice" /\ i \in x.subject => InvoiceKnown(i)'
    BY <1>1 DEF InvoiceKnown
  <2>4. \A r \in Requests : x.pc = "save_transfer" /\ r \in x.subject => TransferKnown(r)'
    BY <1>1 DEF TransferKnown
  <2> QED
    BY <2>1, <2>2, <2>3, <2>4, Zenon DEF RecordsInv, KnownInv
<1>5. HandlerInv(handler[h])'
  BY <1>1, Zenon DEF HandlerInv, InvoiceIs, TransferIs
<1>6. \A g \in Handlers : HandlerInv(handler[g])'
  BY <1>1, <1>5, HandlersKept
<1> QED
  BY <1>2, <1>3, <1>4, <1>6, Zenon DEF RailMoves, RecordsInv

LEMMA ReadyRecord == Ready \in HandlerRecords /\ Ready.pc = "ready"
BY DEF Ready, HandlerRecords, Answers

LEMMA EndStep ==
  ASSUME RecordsInv, NEW h \in Handlers, Done(h),
         UNCHANGED <<rail, node, paid, tips, accepted, loop>>,
         invoices' \in [Invoices -> States \cup {"absent"}],
         transfers' \in [Requests -> TransferStates \cup {"absent"}],
         StoreInv', unsaved \subseteq unsaved',
         \A i \in Invoices : invoices[i] # "absent" => invoices'[i] # "absent",
         \A r \in Requests : transfers[r] # "absent" => transfers'[r] # "absent",
         handler[h].pc = "save_invoice" =>
           \A i \in handler[h].subject : i \in unsaved' \/ invoices'[i] # "absent",
         handler[h].pc = "save_transfer" =>
           \A r \in handler[h].subject : r \in unsaved' \/ transfers'[r] # "absent"
  PROVE  RecordsInv'
<1>1. /\ handler' \in [Handlers -> HandlerRecords] /\ handler'[h] = Ready
      /\ \A g \in Handlers \ {h} : handler'[g] = handler[g]
  BY ReadyRecord, SetHandler, Zenon DEF Done
<1>2. RailMoves
  BY RailUnmoved
<1>3. TypeOK'
  BY <1>1, <1>2, Zenon DEF RailMoves, RailTypes, RecordsInv, TypeOK, HandlerRecords
<1>4. LoopInv'
  BY <1>2, LoopKept, Zenon
<1>5. KnownInv'
  <2>1. \A i \in Invoices : InvoiceKnown(i) => InvoiceKnown(i)'
    BY <1>1, Zenon DEF InvoiceKnown
  <2>2. \A r \in Requests : TransferKnown(r) => TransferKnown(r)'
    BY <1>1 DEF TransferKnown
  <2> QED
    BY <2>1, <2>2, Zenon DEF RecordsInv, KnownInv
<1>6. HandlerInv(handler[h])'
  BY <1>1, ReadyRecord, Zenon DEF HandlerInv
<1>7. \A g \in Handlers : HandlerInv(handler[g])'
  BY <1>1, <1>2, <1>6, HandlersKept, Zenon
<1> QED
  BY <1>2, <1>3, <1>4, <1>5, <1>7, Zenon DEF RailMoves, RecordsInv

LEMMA HandlerParts ==
  ASSUME RecordsInv, NEW h \in Handlers
  PROVE  /\ HandlerInv(handler[h]) /\ StoreInv
         /\ invoices \in [Invoices -> States \cup {"absent"}]
         /\ transfers \in [Requests -> TransferStates \cup {"absent"}]
BY DEF RecordsInv, TypeOK

(* The first halves. *)
LEMMA CreateInvoiceStep ==
  ASSUME RecordsInv, NEW h \in Handlers, CreateInvoice(h)
  PROVE  RecordsInv'
<1>1. PICK i \in Invoices : tipCreate(i) /\ Called(h, "save_invoice", {i}, "UNPAID")
  BY DEF CreateInvoice
<1> DEFINE x == [pc |-> "save_invoice", subject |-> {i}, answer |-> "UNPAID"]
<1>2. x \in HandlerRecords /\ HandlerInv(x)'
  BY Zenon DEF HandlerRecords, Answers, States, HandlerInv
<1>3. /\ handler[h].pc = "ready" /\ handler' = [handler EXCEPT ![h] = x]
      /\ UNCHANGED <<invoices, transfers, loop, unsaved>>
  BY <1>1, Zenon DEF CreateInvoice, Called, storeVars
<1>4. /\ RailMoves /\ UNCHANGED <<paid, accepted>>
      /\ \A j \in Invoices : node'[j] # "absent" => node[j] # "absent" \/ j = i
  BY <1>1, TipCreateRail, Zenon
<1> QED
  BY <1>2, <1>3, <1>4, StartStep, Zenon

LEMMA GetInvoiceStatusStep ==
  ASSUME RecordsInv, NEW h \in Handlers, NEW i \in Invoices, GetInvoiceStatus(h, i)
  PROVE  RecordsInv'
<1>1. PICK a : a = nodeInvoiceStatus(i)
  OBVIOUS
<1> DEFINE x == [pc |-> "update_invoices", subject |-> {i}, answer |-> a]
<1>2. /\ updateTipState({i}) /\ UNCHANGED <<rail, node, paid, accepted>>
      /\ handler[h].pc = "ready" /\ handler' = [handler EXCEPT ![h] = x]
      /\ UNCHANGED <<invoices, transfers, loop, unsaved>>
  BY <1>1 DEF GetInvoiceStatus, tipStatus, Called, storeVars
<1>3. RailMoves /\ NoneNew
  BY <1>2, TipStatusRail
<1>4. a \in States /\ InvoiceIs(i, a)
  BY <1>1, RailParts, StatusOfNode
<1>5. x \in HandlerRecords
  BY <1>4 DEF HandlerRecords, Answers
<1>6. HandlerInv(x)'
  BY <1>2, <1>4, Zenon DEF HandlerInv, InvoiceIs
<1> QED
  BY <1>2, <1>3, <1>5, <1>6, StartStep, Zenon DEF NoneNew

LEMMA ListSettledFeedStep ==
  ASSUME RecordsInv, NEW h \in Handlers, NEW S \in SUBSET Invoices, ListSettledFeed(h, S)
  PROVE  RecordsInv'
<1> DEFINE x == [pc |-> "update_invoices", subject |-> S, answer |-> "SETTLED"]
<1>1. /\ updateTipState(Invoices) /\ UNCHANGED <<rail, node, paid, accepted>>
      /\ S \subseteq {i \in Invoices : tips[i] # "absent" /\ nodeInvoiceStatus(i) = "SETTLED"}
      /\ handler[h].pc = "ready" /\ handler' = [handler EXCEPT ![h] = x]
      /\ UNCHANGED <<invoices, transfers, loop, unsaved>>
  BY DEF ListSettledFeed, tipSettledFeed, Called, storeVars
<1>2. RailMoves /\ NoneNew
  BY <1>1, TipStatusRail
<1>3. \A i \in S : node[i] = "paid"
  BY <1>1, RailParts, StatusOfNode, Zenon DEF InvoiceIs
<1>4. x \in HandlerRecords
  BY DEF HandlerRecords, Answers, States
<1>5. HandlerInv(x)'
  BY <1>1, <1>3, Zenon DEF HandlerInv, InvoiceIs, States
<1> QED
  BY <1>1, <1>2, <1>4, <1>5, StartStep, ZenonT(30) DEF NoneNew

LEMMA RequestPayoutStep ==
  ASSUME RecordsInv, NEW h \in Handlers, NEW r \in Requests, RequestPayout(h, r)
  PROVE  RecordsInv'
<1>1. PICK a \in {"PENDING", "COMPLETED"} :
        /\ Called(h, "save_transfer", {r}, a)
        /\ withdrawalRequest(r, TRUE) \/ queueWithdrawal(r)
        /\ a = "COMPLETED" => withdrawalRequest(r, TRUE)
        /\ UNCHANGED <<invoices, transfers, loop, unsaved>>
  BY Zenon DEF RequestPayout, storeVars
<1> DEFINE x == [pc |-> "save_transfer", subject |-> {r}, answer |-> a]
<1>2. handler[h].pc = "ready" /\ handler' = [handler EXCEPT ![h] = x]
  BY <1>1 DEF Called
<1>3. /\ RailMoves /\ UNCHANGED node
      /\ withdrawalRequest(r, TRUE) => r \in paid'
      /\ \A q \in Requests : q \in paid' \/ accepted'[q] # "absent"
                              => q \in paid \/ accepted[q] # "absent" \/ q = r
  BY <1>1, WithdrawalRail, Zenon
<1>4. x \in HandlerRecords
  BY DEF HandlerRecords, Answers, TransferStates
<1>5. HandlerInv(x)'
  BY <1>1, <1>3, Zenon DEF HandlerInv, TransferIs
<1> QED
  BY <1>1, <1>2, <1>3, <1>4, <1>5, StartStep, Zenon

LEMMA RequestPayoutUnansweredStep ==
  ASSUME RecordsInv, NEW h \in Handlers, NEW r \in Requests, RequestPayoutUnanswered(h, r)
  PROVE  RecordsInv'
<1>1. /\ withdrawalRequest(r, FALSE) \/ queueWithdrawal(r)
      /\ unsaved' = unsaved \cup {r}
      /\ UNCHANGED <<invoices, transfers, loop, handler>>
  BY Zenon DEF RequestPayoutUnanswered, storeVars
<1>2. /\ RailMoves /\ UNCHANGED node
      /\ \A q \in Requests : q \in paid' \/ accepted'[q] # "absent"
                              => q \in paid \/ accepted[q] # "absent" \/ q = r
  BY <1>1, WithdrawalRail, Zenon
<1>3. TypeOK'
  BY <1>1, <1>2, Zenon DEF RailMoves, RailTypes, RecordsInv, TypeOK
<1>4. LoopInv' /\ StoreInv'
  BY <1>1, <1>2, LoopKept, StoreKept, Zenon
<1>5. KnownInv'
  BY <1>1, <1>2, Zenon DEF RecordsInv, KnownInv, InvoiceKnown, TransferKnown
<1>6. \A g \in Handlers : HandlerInv(handler[g])'
  <2> SUFFICES ASSUME NEW g \in Handlers PROVE HandlerInv(handler[g])'
    OBVIOUS
  <2>1. HandlerInv(handler[g])
    BY DEF RecordsInv
  <2> QED
    BY <1>1, <1>2, <2>1, Zenon DEF HandlerInv, InvoiceIs, TransferIs, RailMoves
<1> QED
  BY <1>2, <1>3, <1>4, <1>5, <1>6, Zenon DEF RailMoves, RecordsInv

LEMMA ListWithdrawalStatusesStep ==
  ASSUME RecordsInv, NEW h \in Handlers, NEW S \in {Withdrawals, Payouts}, ListWithdrawalStatuses(h, S)
  PROVE  RecordsInv'
<1>1. PICK a : a = dashboardSummary(S)
  OBVIOUS
<1> DEFINE x == [pc |-> "update_transfers", subject |-> DOMAIN a, answer |-> a]
<1>2. /\ UNCHANGED <<rail, node, paid, tips, accepted, invoices, transfers, loop, unsaved>>
      /\ handler[h].pc = "ready" /\ handler' = [handler EXCEPT ![h] = x]
  BY <1>1 DEF ListWithdrawalStatuses, Called, railVars, storeVars
<1>3. RailMoves /\ NoneNew
  BY <1>2, RailUnmoved
<1>4. /\ DOMAIN a \in SUBSET Requests /\ a \in [DOMAIN a -> TransferStates] /\ a \in Answers
      /\ \A r \in DOMAIN a : TransferIs(r, a[r])
  BY <1>1, RailParts, SummaryTrue DEF Requests
<1>5. x \in HandlerRecords
  BY <1>4 DEF HandlerRecords
<1>6. HandlerInv(x)'
  BY <1>2, <1>4 DEF HandlerInv, TransferIs, GivenUp
<1> QED
  BY <1>2, <1>3, <1>5, <1>6, StartStep, Zenon DEF NoneNew

(* The second halves. *)
LEMMA SaveInvoiceStep ==
  ASSUME RecordsInv, NEW h \in Handlers, SaveInvoice(h)
  PROVE  RecordsInv'
<1> DEFINE S == handler[h].subject
<1>1. /\ handler[h].pc = "save_invoice" /\ Done(h)
      /\ invoices' = [i \in Invoices |-> IF i \in S THEN "UNPAID" ELSE invoices[i]]
      /\ UNCHANGED <<rail, node, paid, tips, accepted, transfers, loop, unsaved>>
  BY Zenon DEF SaveInvoice, railVars, countVars
<1>2. /\ HandlerInv(handler[h]) /\ StoreInv
      /\ invoices \in [Invoices -> States \cup {"absent"}]
      /\ transfers \in [Requests -> TransferStates \cup {"absent"}]
  BY HandlerParts
<1>3. S \subseteq Invoices
  BY <1>1, <1>2, Zenon DEF HandlerInv
<1>4. invoices' \in [Invoices -> States \cup {"absent"}]
  BY <1>1, <1>2, Zenon DEF States
<1>5. StoreInv'
  BY <1>1, <1>2, Zenon DEF StoreInv, InvoiceIs, TransferIs, GivenUp
<1> QED
  BY <1>1, <1>2, <1>3, <1>4, <1>5, EndStep, Zenon

LEMMA UpdateInvoiceStateStep ==
  ASSUME RecordsInv, NEW h \in Handlers, UpdateInvoiceState(h)
  PROVE  RecordsInv'
<1> DEFINE S == handler[h].subject
           a == handler[h].answer
<1>1. /\ handler[h].pc = "update_invoices" /\ Done(h)
      /\ invoices' = [i \in Invoices |-> IF i \in S /\ invoices[i] # "absent" THEN a ELSE invoices[i]]
      /\ UNCHANGED <<rail, node, paid, tips, accepted, transfers, loop, unsaved>>
  BY Zenon DEF UpdateInvoiceState, railVars, countVars
<1>2. /\ HandlerInv(handler[h]) /\ StoreInv
      /\ invoices \in [Invoices -> States \cup {"absent"}]
      /\ transfers \in [Requests -> TransferStates \cup {"absent"}]
  BY HandlerParts
<1>3. a \in States /\ a # "absent" /\ \A i \in S : InvoiceIs(i, a)
  BY <1>1, <1>2, Zenon DEF HandlerInv, States
<1>4. invoices' \in [Invoices -> States \cup {"absent"}]
  BY <1>1, <1>2, <1>3, Zenon
<1>5. StoreInv'
  <2>1. \A i \in Invoices : InvoiceIs(i, invoices[i])'
    BY <1>1, <1>2, <1>3, Zenon DEF StoreInv, InvoiceIs
  <2>2. \A r \in Requests : TransferIs(r, transfers[r])'
    BY <1>1, <1>2, Zenon DEF StoreInv, TransferIs, GivenUp
  <2> QED
    BY <2>1, <2>2 DEF StoreInv
<1> QED
  BY <1>1, <1>2, <1>3, <1>4, <1>5, EndStep, Zenon

LEMMA SaveTransferStep ==
  ASSUME RecordsInv, NEW h \in Handlers, SaveTransfer(h)
  PROVE  RecordsInv'
<1> DEFINE S == handler[h].subject
           a == handler[h].answer
<1>1. /\ handler[h].pc = "save_transfer" /\ Done(h)
      /\ transfers' = [r \in Requests |-> IF r \in S THEN a ELSE transfers[r]]
      /\ UNCHANGED <<rail, node, paid, tips, accepted, invoices, loop, unsaved>>
  BY Zenon DEF SaveTransfer, railVars, countVars
<1>2. /\ HandlerInv(handler[h]) /\ StoreInv
      /\ invoices \in [Invoices -> States \cup {"absent"}]
      /\ transfers \in [Requests -> TransferStates \cup {"absent"}]
  BY HandlerParts
<1>3. /\ S \subseteq Requests /\ a \in TransferStates /\ a # "absent"
      /\ \A r \in S : TransferIs(r, a)
  BY <1>1, <1>2, Zenon DEF HandlerInv, TransferStates
<1>4. transfers' \in [Requests -> TransferStates \cup {"absent"}]
  BY <1>1, <1>2, <1>3, Zenon
<1>5. StoreInv'
  <2>1. \A i \in Invoices : InvoiceIs(i, invoices[i])'
    BY <1>1, <1>2, Zenon DEF StoreInv, InvoiceIs
  <2>2. \A r \in Requests : TransferIs(r, transfers[r])'
    BY <1>1, <1>2, <1>3, Zenon DEF StoreInv, TransferIs, GivenUp
  <2> QED
    BY <2>1, <2>2 DEF StoreInv
<1> QED
  BY <1>1, <1>2, <1>3, <1>4, <1>5, EndStep, Zenon

(* Statuses written by a handler or by the loop, to records that exist. *)
LEMMA StatusesWritten ==
  ASSUME RecordsInv, NEW S \in SUBSET Requests, NEW f \in [S -> TransferStates],
         \A r \in S : TransferIs(r, f[r]), UNCHANGED <<rail, node, paid, accepted, invoices>>,
         transfers' = [r \in Requests |-> IF r \in S /\ transfers[r] # "absent"
                                            THEN f[r] ELSE transfers[r]]
  PROVE  /\ StoreInv' /\ transfers' \in [Requests -> TransferStates \cup {"absent"}]
         /\ \A r \in Requests : transfers[r] # "absent" => transfers'[r] # "absent"
<1>1. StoreInv /\ transfers \in [Requests -> TransferStates \cup {"absent"}]
  BY DEF RecordsInv, TypeOK
<1>2. \A r \in S : f[r] \in TransferStates /\ f[r] # "absent"
  BY DEF TransferStates
<1>3. transfers' \in [Requests -> TransferStates \cup {"absent"}]
  BY <1>1, <1>2
<1>4. \A i \in Invoices : InvoiceIs(i, invoices[i])'
  BY <1>1 DEF StoreInv, InvoiceIs
<1>5. \A r \in Requests : TransferIs(r, transfers[r])'
  BY <1>1 DEF StoreInv, TransferIs, GivenUp
<1> QED
  BY <1>1, <1>2, <1>3, <1>4, <1>5 DEF StoreInv

LEMMA UpdateExternalStateStep ==
  ASSUME RecordsInv, NEW h \in Handlers, UpdateExternalState(h)
  PROVE  RecordsInv'
<1>1. PICK S, f : S = handler[h].subject /\ f = handler[h].answer
  OBVIOUS
<1>2. /\ handler[h].pc = "update_transfers" /\ Done(h)
      /\ transfers' = [r \in Requests |-> IF r \in S /\ transfers[r] # "absent"
                                             THEN f[r] ELSE transfers[r]]
      /\ UNCHANGED <<rail, node, paid, tips, accepted, invoices, loop, unsaved>>
  BY <1>1, Zenon DEF UpdateExternalState, railVars, countVars
<1>3. HandlerInv(handler[h]) /\ invoices \in [Invoices -> States \cup {"absent"}]
  BY HandlerParts
<1>4. S \in SUBSET Requests /\ f \in [S -> TransferStates] /\ \A r \in S : TransferIs(r, f[r])
  BY <1>1, <1>2, <1>3, Zenon DEF HandlerInv
<1>5. /\ StoreInv' /\ transfers' \in [Requests -> TransferStates \cup {"absent"}]
      /\ \A r \in Requests : transfers[r] # "absent" => transfers'[r] # "absent"
  BY <1>2, <1>4, StatusesWritten, Zenon
<1> QED
  BY <1>2, <1>3, <1>5, EndStep, Zenon

LEMMA HandlerFailsStep ==
  ASSUME RecordsInv, NEW h \in Handlers, HandlerFails(h)
  PROVE  RecordsInv'
<1>1. /\ Done(h) /\ UNCHANGED <<rail, node, paid, tips, accepted, invoices, transfers, loop>>
      /\ unsaved' = IF handler[h].pc \in {"save_invoice", "save_transfer"}
                      THEN unsaved \cup handler[h].subject ELSE unsaved
  BY Zenon DEF HandlerFails, railVars, storeVars
<1>2. StoreInv'
  BY <1>1, RailUnmoved, StoreKept
<1>3. /\ invoices' \in [Invoices -> States \cup {"absent"}]
      /\ transfers' \in [Requests -> TransferStates \cup {"absent"}]
  BY <1>1, HandlerParts
<1> QED
  BY <1>1, <1>2, <1>3, EndStep, Zenon

LEMMA HandleStep ==
  ASSUME RecordsInv, NEW h \in Handlers, Handle(h)
  PROVE  RecordsInv'
BY CreateInvoiceStep, SaveInvoiceStep, GetInvoiceStatusStep, ListSettledFeedStep,
   UpdateInvoiceStateStep, RequestPayoutStep, RequestPayoutUnansweredStep, SaveTransferStep,
   ListWithdrawalStatusesStep, UpdateExternalStateStep, HandlerFailsStep DEF Handle

-----------------------------------------------------------------------------
(* The reconciler. *)

LoopRecords ==
  [pc : {"waiting", "invoices", "write_invoice", "write_transfers", "deposits", "ended"},
   todo : SUBSET (Invoices \X States), answer : Answers, errors : Nat, first : BOOLEAN]

LEMMA LoopStep ==
  ASSUME RecordsInv, RailMoves, NoneNew, UNCHANGED <<handler, unsaved>>,
         loop' \in LoopRecords, LoopInv',
         invoices' \in [Invoices -> States \cup {"absent"}],
         transfers' \in [Requests -> TransferStates \cup {"absent"}],
         StoreInv',
         \A i \in Invoices : invoices[i] # "absent" => invoices'[i] # "absent",
         \A r \in Requests : transfers[r] # "absent" => transfers'[r] # "absent"
  PROVE  RecordsInv'
<1>1. TypeOK'
  BY Zenon DEF RailMoves, RailTypes, RecordsInv, TypeOK, LoopRecords
<1>2. KnownInv'
  <2>1. \A i \in Invoices : InvoiceKnown(i) => InvoiceKnown(i)'
    BY DEF InvoiceKnown
  <2>2. \A r \in Requests : TransferKnown(r) => TransferKnown(r)'
    BY DEF TransferKnown
  <2> QED
    BY <2>1, <2>2, Zenon DEF RecordsInv, KnownInv, NoneNew
<1>3. \A g \in Handlers : HandlerInv(handler[g])'
  <2> SUFFICES ASSUME NEW g \in Handlers PROVE HandlerInv(handler[g])'
    OBVIOUS
  <2>1. HandlerInv(handler[g])
    BY DEF RecordsInv
  <2> QED
    BY <2>1, Zenon DEF HandlerInv, InvoiceIs, TransferIs, RailMoves
<1> QED
  BY <1>1, <1>2, <1>3, Zenon DEF RailMoves, RecordsInv

(* Steps of the loop that write nothing. *)
LEMMA QuietLoopStep ==
  ASSUME RecordsInv, RailMoves, NoneNew, UNCHANGED <<handler, unsaved, invoices, transfers>>,
         loop' \in LoopRecords, LoopInv'
  PROVE  RecordsInv'
<1>1. /\ invoices' \in [Invoices -> States \cup {"absent"}]
      /\ transfers' \in [Requests -> TransferStates \cup {"absent"}]
  BY DEF RecordsInv, TypeOK
<1>2. StoreInv'
  BY StoreKept
<1> QED
  BY <1>1, <1>2, LoopStep

LEMMA LoopType == RecordsInv => loop \in LoopRecords
BY DEF RecordsInv, TypeOK, LoopRecords

LEMMA BeginSyncStep ==
  ASSUME RecordsInv, BeginSync
  PROVE  RecordsInv'
<1> DEFINE T == {<<i, invoices[i]>> :
                   i \in {i \in Invoices : invoices[i] # "absent" /\ ~isSettledInvoiceState(invoices[i])}}
<1>1. /\ loop' = [loop EXCEPT !.pc = "invoices", !.todo = T]
      /\ UNCHANGED <<rail, node, paid, tips, accepted, handler, unsaved, invoices, transfers>>
  BY DEF BeginSync, railVars, storeVars, countVars
<1>2. T \subseteq Invoices \X States
  BY DEF RecordsInv, TypeOK
<1> HIDE DEF T
<1>3. loop' \in LoopRecords /\ loop'.pc = "invoices"
  BY <1>1, <1>2, LoopType, Zenon DEF LoopRecords
<1>4. LoopInv'
  BY <1>3 DEF LoopInv
<1> QED
  BY <1>1, <1>3, <1>4, RailUnmoved, QuietLoopStep
LEMMA PollInvoiceStep ==
  ASSUME RecordsInv, PollInvoice
  PROVE  RecordsInv'
<1>1. PICK i, e, a : i = NextInvoice[1] /\ e = NextInvoice /\ a = nodeInvoiceStatus(i)
  OBVIOUS
<1>2. /\ updateTipState({i})
      /\ UNCHANGED <<rail, node, paid, accepted, handler, unsaved, invoices, transfers>>
      /\ loop' \in {[loop EXCEPT !.todo = @ \ {e}],
                    [loop EXCEPT !.pc = "write_invoice", !.answer = a]}
      /\ loop.pc = "invoices"
  BY <1>1 DEF PollInvoice, tipStatus, storeVars, countVars
<1>3. a \in States /\ (i \in Invoices => InvoiceIs(i, a))
  BY <1>1 DEF nodeInvoiceStatus, mapInvoiceState, States, InvoiceIs
<1>4. RailMoves /\ NoneNew
  BY <1>2, TipStatusRail
<1>5. CASE loop' = [loop EXCEPT !.todo = @ \ {e}]
  <2>1. loop' \in LoopRecords /\ loop'.pc = "invoices"
    BY <1>2, <1>5, LoopType DEF LoopRecords
  <2>2. LoopInv'
    BY <2>1 DEF LoopInv
  <2> QED
    BY <1>2, <1>4, <2>1, <2>2, QuietLoopStep
<1>6. CASE loop' = [loop EXCEPT !.pc = "write_invoice", !.answer = a]
  <2>1. /\ loop' \in LoopRecords /\ loop'.pc = "write_invoice" /\ loop'.answer = a
        /\ loop'.todo = loop.todo
    BY <1>3, <1>6, LoopType, Zenon DEF LoopRecords, Answers
  <2>2. NextInvoice' = NextInvoice
    BY <2>1 DEF NextInvoice
  <2>3. LoopInv'
    BY <1>1, <1>2, <1>3, <2>1, <2>2 DEF LoopInv, InvoiceIs
  <2> QED
    BY <1>2, <1>4, <2>1, <2>3, QuietLoopStep
<1> QED
  BY <1>2, <1>5, <1>6

LEMMA WriteInvoiceStep ==
  ASSUME RecordsInv, WriteInvoice
  PROVE  RecordsInv'
<1>1. PICK i, e, a : i = NextInvoice[1] /\ e = NextInvoice /\ a = loop.answer
  OBVIOUS
<1>2. /\ loop.pc = "write_invoice" /\ invoices' = [invoices EXCEPT ![i] = a]
      /\ loop' = [loop EXCEPT !.pc = "invoices", !.answer = "none", !.todo = @ \ {e}]
      /\ UNCHANGED <<rail, node, paid, tips, accepted, handler, unsaved, transfers>>
  BY <1>1 DEF WriteInvoice, railVars, countVars
<1>3. a \in States /\ a # "absent" /\ (i \in Invoices => InvoiceIs(i, a))
  BY <1>1, <1>2 DEF RecordsInv, LoopInv, States
<1>4. /\ StoreInv /\ invoices \in [Invoices -> States \cup {"absent"}]
      /\ transfers \in [Requests -> TransferStates \cup {"absent"}]
  BY DEF RecordsInv, TypeOK
<1>5. /\ invoices' \in [Invoices -> States \cup {"absent"}]
      /\ \A j \in Invoices : invoices'[j] = IF j = i THEN a ELSE invoices[j]
  BY <1>2, <1>3, <1>4, Zenon
<1>6. StoreInv'
  <2>1. \A j \in Invoices : InvoiceIs(j, invoices[j])'
    BY <1>2, <1>3, <1>4, <1>5 DEF StoreInv, InvoiceIs
  <2>2. \A r \in Requests : TransferIs(r, transfers[r])'
    BY <1>2, <1>4 DEF StoreInv, TransferIs, GivenUp
  <2> QED
    BY <2>1, <2>2 DEF StoreInv
<1>7. loop' \in LoopRecords /\ loop'.pc = "invoices"
  BY <1>2, LoopType, Zenon DEF LoopRecords, Answers
<1>8. LoopInv'
  BY <1>7 DEF LoopInv
<1> QED
  BY <1>2, <1>3, <1>4, <1>5, <1>6, <1>7, <1>8, RailUnmoved, LoopStep

LEMMA PollWithdrawalsStep ==
  ASSUME RecordsInv, PollWithdrawals
  PROVE  RecordsInv'
<1>1. PICK a : a = dashboardSummary(Withdrawals)
  OBVIOUS
<1>2. /\ loop' \in {[loop EXCEPT !.pc = "write_transfers", !.answer = a],
                    [loop EXCEPT !.pc = "deposits"]}
      /\ UNCHANGED <<rail, node, paid, tips, accepted, handler, unsaved, invoices, transfers>>
  BY <1>1 DEF PollWithdrawals, railVars, storeVars, countVars
<1>3. /\ DOMAIN a \in SUBSET Requests /\ a \in [DOMAIN a -> TransferStates] /\ a \in Answers
      /\ \A r \in DOMAIN a : TransferIs(r, a[r])
  BY <1>1, RailParts, SummaryTrue DEF Requests
<1>4. CASE loop' = [loop EXCEPT !.pc = "write_transfers", !.answer = a]
  <2>1. loop' \in LoopRecords /\ loop'.pc = "write_transfers" /\ loop'.answer = a
    BY <1>3, <1>4, LoopType, Zenon DEF LoopRecords
  <2>2. \A r \in DOMAIN a : TransferIs(r, loop.answer[r])'
    BY <1>2, <1>3, <2>1 DEF TransferIs, GivenUp
  <2>3. LoopInv'
    BY <1>3, <2>1, <2>2 DEF LoopInv
  <2> QED
    BY <1>2, <2>1, <2>3, RailUnmoved, QuietLoopStep
<1>5. CASE loop' = [loop EXCEPT !.pc = "deposits"]
  <2>1. loop' \in LoopRecords /\ loop'.pc = "deposits"
    BY <1>5, LoopType DEF LoopRecords
  <2>2. LoopInv'
    BY <2>1 DEF LoopInv
  <2> QED
    BY <1>2, <2>1, <2>2, RailUnmoved, QuietLoopStep
<1> QED
  BY <1>2, <1>4, <1>5

LEMMA WriteTransfersStep ==
  ASSUME RecordsInv, WriteTransfers
  PROVE  RecordsInv'
<1>1. PICK f : f = loop.answer
  OBVIOUS
<1>2. /\ loop.pc = "write_transfers"
      /\ transfers' = [r \in Requests |-> IF r \in DOMAIN f /\ transfers[r] # "absent"
                                             THEN f[r] ELSE transfers[r]]
      /\ loop' = [loop EXCEPT !.pc = "deposits", !.answer = "none"]
      /\ UNCHANGED <<rail, node, paid, tips, accepted, handler, unsaved, invoices>>
  BY <1>1 DEF WriteTransfers, railVars, countVars
<1>3. PICK S \in SUBSET Requests : f \in [S -> TransferStates] /\ \A r \in S : TransferIs(r, f[r])
  BY <1>1, <1>2 DEF RecordsInv, LoopInv
<1>4. DOMAIN f = S
  BY <1>3
<1>5. /\ StoreInv' /\ transfers' \in [Requests -> TransferStates \cup {"absent"}]
      /\ \A r \in Requests : transfers[r] # "absent" => transfers'[r] # "absent"
  BY <1>2, <1>3, <1>4, StatusesWritten
<1>6. invoices' \in [Invoices -> States \cup {"absent"}]
  BY <1>2 DEF RecordsInv, TypeOK
<1>7. loop' \in LoopRecords /\ loop'.pc = "deposits"
  BY <1>2, LoopType, Zenon DEF LoopRecords, Answers
<1>8. LoopInv'
  BY <1>7 DEF LoopInv
<1> QED
  BY <1>2, <1>5, <1>6, <1>7, <1>8, RailUnmoved, LoopStep

LEMMA SyncEndsStep ==
  ASSUME RecordsInv, EndSync \/ SyncFails
  PROVE  RecordsInv'
<1>1. UNCHANGED <<rail, node, paid, tips, accepted, handler, unsaved, invoices, transfers>>
  BY DEF EndSync, SyncFails, railVars, storeVars
<1>2. loop' \in LoopRecords /\ loop'.pc \in {"waiting", "ended"}
  <2>1. /\ loop \in LoopRecords /\ loop.first \in BOOLEAN /\ loop.errors \in Nat
        /\ "none" \in Answers /\ {} \in SUBSET (Invoices \X States)
    BY LoopType DEF LoopRecords, Answers
  <2>2. CASE EndSync
    BY <2>1, <2>2, Zenon DEF EndSync, LoopRecords
  <2>3. CASE SyncFails
    <3> DEFINE at == IF loop.first \/ loop.errors + 1 >= MaxConsecutiveErrors
                       THEN "ended" ELSE "waiting"
               n == IF loop.first THEN 0 ELSE loop.errors + 1
    <3>1. loop' = [pc |-> at, todo |-> {}, answer |-> "none", errors |-> n, first |-> loop.first]
      BY <2>3, Zenon DEF SyncFails
    <3>2. at \in {"waiting", "ended"}
      OBVIOUS
    <3>3. n \in Nat
      BY <2>1
    <3> HIDE DEF at, n
    <3> QED
      BY <2>1, <3>1, <3>2, <3>3 DEF LoopRecords
  <2> QED
    BY <2>2, <2>3
<1>3. LoopInv'
  BY <1>2 DEF LoopInv
<1> QED
  BY <1>1, <1>2, <1>3, RailUnmoved, QuietLoopStep

-----------------------------------------------------------------------------
LEMMA InitRecords == Init => RecordsInv
<1> SUFFICES ASSUME Init PROVE RecordsInv
  OBVIOUS
<1>1. \A h \in Handlers : handler[h] = Ready
  BY DEF Init
<1>2. TypeOK
  <2>1. handler \in [Handlers -> HandlerRecords]
    BY ReadyRecord DEF Init
  <2>2. loop \in LoopRecords
    BY DEF Init, LoopRecords, Answers
  <2> QED
    BY <2>1, <2>2, Zenon DEF Init, TypeOK, HandlerRecords, LoopRecords
<1>3. RailInv /\ LoopInv /\ StoreInv /\ KnownInv
  BY Zenon DEF Init, RailInv, TransferIs, GivenUp, LoopInv, StoreInv, InvoiceIs, KnownInv
<1>4. \A h \in Handlers : HandlerInv(handler[h])
  BY <1>1, ReadyRecord, Zenon DEF HandlerInv
<1> QED
  BY <1>2, <1>3, <1>4 DEF RecordsInv

LEMMA NextRecords == RecordsInv /\ [Next]_vars => RecordsInv'
<1> SUFFICES ASSUME RecordsInv, [Next]_vars PROVE RecordsInv'
  OBVIOUS
<1>1. CASE UNCHANGED vars
  <2>1. loop' \in LoopRecords
    BY <1>1, LoopType DEF vars
  <2>2. RailMoves /\ NoneNew
    BY <1>1, RailUnmoved DEF vars
  <2>3. LoopInv'
    BY <1>1, <2>2, LoopKept DEF vars
  <2> QED
    BY <1>1, <2>1, <2>2, <2>3, QuietLoopStep DEF vars
<1> QED
  BY <1>1, RailStep, HandleStep, BeginSyncStep, PollInvoiceStep, WriteInvoiceStep,
     PollWithdrawalsStep, WriteTransfersStep, SyncEndsStep DEF Next, Reconcile

(* However late an answer is written, by a handler or by the reconciler,   *)
(* and whatever the adapter forgot, a stored final state is true.          *)
THEOREM FinalIsTrue == Spec => []FinalStatesAreTrue
<1>1. RecordsInv => FinalStatesAreTrue
  BY DEF RecordsInv, StoreInv, InvoiceIs, TransferIs, GivenUp, FinalStatesAreTrue
<1> QED
  BY <1>1, InitRecords, NextRecords, PTL DEF Spec

(* Every invoice and every payment on the rail is recorded, about to be,   *)
(* or the handler that should have recorded it failed.                     *)
THEOREM AllRecorded == Spec => []NothingUnrecorded
<1>1. RecordsInv => NothingUnrecorded
  <2> SUFFICES ASSUME RecordsInv PROVE NothingUnrecorded
    OBVIOUS
  <2>1. \A h \in Handlers : handler[h].pc \in {"save_invoice", "save_transfer"} =>
          handler[h].subject \subseteq Saving
    BY DEF Saving
  <2>2. paid \subseteq Requests
    BY DEF RecordsInv, TypeOK
  <2> QED
    BY <2>1, <2>2 DEF RecordsInv, KnownInv, InvoiceKnown, TransferKnown, NothingUnrecorded
<1> QED
  BY <1>1, InitRecords, NextRecords, PTL DEF Spec

-----------------------------------------------------------------------------
(***************************************************************************)
(* DemoReady.  RunHolds says what a run may rely on between its calls:     *)
(* money it has seen stays credited, bindings it has set up stay there, and *)
(* what it has read is what there is, until it is disturbed.  Each action  *)
(* is shown to keep it for the run that moves; GoStep, TouchStep and       *)
(* DisturbStep keep it for the others.                                     *)
(***************************************************************************)

(* Comparing numbers. *)
LEMMA Between ==
  \A a, b, c \in Nat : b <= c => (a <= b => a <= c) /\ (b >= a => c >= a)
OBVIOUS

(* The larger of two numbers. *)
LEMMA MaxOfTwo ==
  ASSUME NEW a \in Int, NEW b \in Int
  PROVE  Max({a, b}) = IF a >= b THEN a ELSE b
<1> DEFINE m == IF a >= b THEN a ELSE b
<1>1. m \in {a, b} /\ \A y \in {a, b} : m >= y
  OBVIOUS
<1>2. \A x \in {a, b} : (\A y \in {a, b} : x >= y) => x = m
  OBVIOUS
<1> QED
  BY <1>1, <1>2 DEF Max

-----------------------------------------------------------------------------
(* The statuses of bindings and of the pool. *)
BindingStates == {"pending_verification", "active", "suspended"}
PoolStates == {"", "healthy", "disconnected", "suspended"}

(* Where a run may be: it funds what is missing once it has read the       *)
(* status, sets up bindings and actors before.                             *)
Funding == {"fund", "ask", "await", "topup", "summary", "claim", "extended", "deadline",
            "sync", "refee", "record", "warm", "provision", "report"}
Reading == {"status", "statusProvider"}
Binding == {"getCarrier", "suspendCarrier", "registerCarrier", "getCarrierAgain", "verifyCarrier",
            "getSettlement", "registerSettlement", "verifySettlement"}
Entering == {"bootstrap", "login", "signup"}
Places == {"new", "returned"} \cup Entering \cup Binding \cup Reading \cup Funding

(* The status a run has read, and the types of the state. *)
Snap == [healthy : BOOLEAN, settled : Nat, carrier : BindingStates \cup {""},
         settlement : BindingStates \cup {""}, pool : PoolStates, available : Nat]
Run == [pc : Places, mutate : BOOLEAN, host : Nat, n : Nat, tries : Nat, snap : Snap,
        topUp : Nat, disturbed : BOOLEAN, ready : BOOLEAN]
Pool == [status : PoolStates, total : Nat, reserved : Nat]
Deposit == [pending : Nat, confirmed : Nat, credited : Nat]

DemoTypes ==
  /\ accounts \in SUBSET Roles /\ hosts \in Nat /\ healthy \in BOOLEAN
  /\ carriers \in Seq(BindingStates) /\ settlements \in Seq(BindingStates)
  /\ pool \in Pool /\ deposit \in Deposit
  /\ runs \in [Runs -> Run]

(* The binding registered last. *)
LastOf(cs) == IF cs = <<>> THEN "" ELSE cs[Len(cs)]

(* What a run q has seen of the buyer's money is there, and stays there. *)
MoneySeen(q, credited) ==
  /\ q.snap.settled <= credited
  /\ q.topUp # 0 \/ q.pc = "record" => credited >= BuyerTopUpAmount
  /\ q.ready => credited >= MinBuyerBalanceCents /\ q.pc = "returned"

(* A run that sets up its actors is at one of them. *)
AtRole(q) == q.pc \in Entering => q.n \in DOMAIN RoleOrder

(* What an undisturbed run knows of the bindings cs and ss, and of the     *)
(* host of the last of cs, while it sets them up.                          *)
BindingsSeen(q, cs, host, ss) ==
  ~q.disturbed =>
    /\ q.pc = "suspendCarrier" => q.n = Len(cs)
    /\ q.pc = "registerCarrier" => LastOf(cs) # "active"
    /\ q.pc = "getCarrierAgain" => Shadows(cs)
    /\ q.pc = "verifyCarrier" => q.n = Len(cs) /\ (Shadows(cs) \/ host = q.host)
    /\ q.pc = "registerSettlement" => LastOf(ss) # "active"
    /\ q.pc = "verifySettlement" => q.n = Len(ss)

(* A run that prepares has bindings once it has set them up. *)
BindingsKept(q, cs, ss) ==
  /\ q.pc \in {"getCarrierAgain", "verifyCarrier", "getSettlement", "registerSettlement",
               "verifySettlement"} \cup Funding => cs # <<>>
  /\ q.pc \in {"verifySettlement"} \cup Funding => ss # <<>>
  /\ q.pc \in Reading /\ q.mutate => cs # <<>> /\ ss # <<>>

(* What an undisturbed run has read is what there is. *)
StatusSeen(q, acc, ok, cs, ss, pl) ==
  ~q.disturbed =>
    /\ q.pc \in {"statusProvider"} \cup Funding /\ q.snap.healthy => ok /\ acc = Roles
    /\ q.pc \in Funding => q.snap.carrier = LastOf(cs) /\ q.snap.settlement = LastOf(ss)
    /\ q.pc \in Funding /\ (q.pc = "report" \/ ProviderMeets(q.snap)) =>
         q.snap.pool = pl.status /\ q.snap.available = Available(pl)

(* What holds of a run q, as a function of the state. *)
RunHolds(q, acc, ok, cs, host, ss, pl, credited) ==
  /\ MoneySeen(q, credited) /\ AtRole(q)
  /\ BindingsSeen(q, cs, host, ss) /\ BindingsKept(q, cs, ss)
  /\ StatusSeen(q, acc, ok, cs, ss, pl)

(* The inductive invariant. *)
DemoInv ==
  /\ DemoTypes
  /\ \A p \in Runs : RunHolds(runs[p], accounts, healthy, carriers, carrierHost, settlements,
                              pool, deposit.credited)

(* What ReadyIsCurrent and BindingsEnsured ask of a run p that becomes next. *)
MovesWell(p, next) ==
  /\ runs[p].pc = "report" /\ ~runs[p].disturbed /\ next.ready => FinalizeStatus(StatusNow) = "ready"
  /\ ~runs[p].disturbed =>
       /\ runs[p].pc # "getSettlement" /\ next.pc = "getSettlement" =>
            LastOf(carriers') = "active" /\ (Shadows(carriers) \/ carrierHost' = runs[p].host)
       /\ runs[p].pc \in {"getSettlement", "registerSettlement", "verifySettlement"} /\ next.pc = "status" =>
            Shadows(settlements) \/ LastOf(settlements') = "active"

(* The same for all runs. *)
AllMoveWell == \A s \in Runs : MovesWell(s, runs'[s])

-----------------------------------------------------------------------------
(* The statuses the gateway answers with. *)
LEMMA LastNow == CarrierStatus = LastOf(carriers) /\ SettlementStatus = LastOf(settlements)
BY Zenon DEF CarrierStatus, SettlementStatus, LastOf

(* A provider without a binding, and no other, has the empty status. *)
LEMMA LastState ==
  ASSUME NEW cs \in Seq(BindingStates)
  PROVE  LastOf(cs) \in BindingStates \cup {""} /\ (LastOf(cs) = "" <=> cs = <<>>)
<1>1. CASE cs = <<>>
  BY <1>1 DEF LastOf
<1>2. CASE cs # <<>>
  <2>1. Len(cs) \in DOMAIN cs
    BY <1>2
  <2>2. cs[Len(cs)] \in BindingStates
    BY <2>1
  <2> QED
    BY <1>2, <2>2, Zenon DEF LastOf, BindingStates
<1> QED
  BY <1>1, <1>2, Zenon

(* A binding changes its status. *)
LEMMA StatusPut ==
  ASSUME NEW cs \in Seq(BindingStates), NEW n \in Nat, NEW x \in BindingStates
  PROVE  /\ [cs EXCEPT ![n] = x] \in Seq(BindingStates) /\ (cs # <<>> => [cs EXCEPT ![n] = x] # <<>>)
         /\ n = Len(cs) /\ cs # <<>> => LastOf([cs EXCEPT ![n] = x]) = x
         /\ n = Len(cs) /\ x # "active" => LastOf([cs EXCEPT ![n] = x]) # "active"
<1> DEFINE ds == [cs EXCEPT ![n] = x]
<1>1. ds \in Seq(BindingStates) /\ Len(ds) = Len(cs) /\ DOMAIN ds = DOMAIN cs
  <2>1. Len(cs) \in Nat /\ cs \in [1 .. Len(cs) -> BindingStates]
    OBVIOUS
  <2>2. ds \in [1 .. Len(cs) -> BindingStates]
    BY <2>1, Zenon
  <2>3. ds \in Seq(BindingStates) /\ Len(ds) = Len(cs)
    BY ONLY <2>1, <2>2
  <2> QED
    BY <2>1, <2>2, <2>3, Zenon
<1>2. \A i \in DOMAIN cs : i = n => ds[i] = x
  BY Zenon
<1> SUFFICES /\ ds \in Seq(BindingStates) /\ (cs # <<>> => ds # <<>>)
             /\ n = Len(cs) /\ cs # <<>> => LastOf(ds) = x
             /\ n = Len(cs) /\ x # "active" => LastOf(ds) # "active"
  BY Zenon
<1> HIDE DEF ds
<1>3. CASE cs = <<>>
  <2>1. ds = <<>>
    BY <1>1, <1>3
  <2> QED
    BY <1>1, <1>3, <2>1 DEF LastOf
<1>4. CASE cs # <<>>
  <2>1. Len(cs) \in DOMAIN cs /\ ds # <<>>
    BY <1>1, <1>4
  <2>2. n = Len(cs) => ds[Len(ds)] = x
    BY <1>1, <1>2, <2>1, Zenon
  <2> QED
    BY <1>1, <1>4, <2>1, <2>2, Zenon DEF LastOf
<1> QED
  BY <1>3, <1>4, Zenon

(* Another binding is registered. *)
LEMMA StatusAdded ==
  ASSUME NEW cs \in Seq(BindingStates), NEW x \in BindingStates
  PROVE  /\ Append(cs, x) \in Seq(BindingStates) /\ Append(cs, x) # <<>>
         /\ LastOf(Append(cs, x)) = x /\ Len(Append(cs, x)) = Len(cs) + 1
<1>1. Append(cs, x) \in Seq(BindingStates) /\ Len(Append(cs, x)) = Len(cs) + 1
      /\ Append(cs, x)[Len(cs) + 1] = x /\ Append(cs, x) # <<>>
  OBVIOUS
<1> QED
  BY <1>1, Zenon DEF LastOf

(* A binding that is active and not the last shadows the last. *)
LEMMA ActiveShadows ==
  ASSUME NEW cs \in Seq(BindingStates), LastOf(cs) # "active", \E i \in DOMAIN cs : cs[i] = "active"
  PROVE  Shadows(cs) /\ cs # <<>>
<1>1. PICK i \in DOMAIN cs : cs[i] = "active"
  OBVIOUS
<1>2. cs # <<>> /\ i \in 1 .. Len(cs)
  BY <1>1
<1>3. i # Len(cs)
  BY <1>1, <1>2, Zenon DEF LastOf
<1>4. i < Len(cs)
  BY <1>2, <1>3
<1> QED
  BY <1>1, <1>2, <1>4, Zenon DEF Shadows

-----------------------------------------------------------------------------
(* The constants that are numbers. *)
LEMMA DemoNumbers ==
  /\ BuyerTopUpAmount \in Nat \ {0} /\ MinBuyerBalanceCents \in Nat
  /\ MinProviderLiquidityCents \in Nat \ {0}
  /\ BuyerTopUpAmount >= MinBuyerBalanceCents
  /\ Len(RoleOrder) \in Nat \ {0} /\ DOMAIN RoleOrder = 1 .. Len(RoleOrder)
  /\ MaxIncidents \in Nat /\ demoUSDIFaucetRequestAttempts \in Nat \ {0} /\ FaucetPays \in Nat
<1>1. Len(RoleOrder) \in Nat \ {0} /\ DOMAIN RoleOrder = 1 .. Len(RoleOrder)
  BY DemoAssumption
<1> QED
  BY <1>1, TopUpCoversMinimum, DemoAssumption

(* Money that comes, and accounts that come, take nothing from a run. *)
LEMMA HoldsOn ==
  ASSUME NEW q \in Run, NEW acc, NEW more \in SUBSET Roles, acc \subseteq more,
         NEW credited \in Nat, NEW sum \in Nat, credited <= sum,
         NEW ok, NEW cs, NEW host, NEW ss, NEW pl,
         RunHolds(q, acc, ok, cs, host, ss, pl, credited)
  PROVE  RunHolds(q, more, ok, cs, host, ss, pl, sum)
<1>1. MoneySeen(q, sum)
  <2>1. q.snap.settled \in Nat
    BY Zenon DEF Run, Snap
  <2>2. BuyerTopUpAmount \in Nat /\ MinBuyerBalanceCents \in Nat
    BY DemoNumbers
  <2>3. MoneySeen(q, credited)
    BY Zenon DEF RunHolds
  <2> QED
    BY <2>1, <2>2, <2>3, Between, Zenon DEF MoneySeen
<1>2. acc = Roles => more = Roles
  OBVIOUS
<1>3. StatusSeen(q, more, ok, cs, ss, pl)
  BY <1>2, Zenon DEF StatusSeen, RunHolds
<1> QED
  BY <1>1, <1>3, Zenon DEF RunHolds

(* A run that is disturbed keeps what does not depend on being undisturbed. *)
LEMMA HoldsDisturbed ==
  ASSUME NEW q \in Run, NEW r, r = [q EXCEPT !.disturbed = q.pc \notin {"new", "returned"}],
         NEW acc, NEW ok, NEW cs, NEW host, NEW ss, NEW pl, NEW credited,
         RunHolds(q, acc, ok, cs, host, ss, pl, credited),
         NEW ok2, NEW cs2, NEW host2, NEW ss2, NEW pl2,
         cs # <<>> => cs2 # <<>>, ss # <<>> => ss2 # <<>>
  PROVE  /\ r \in Run /\ r.pc = q.pc /\ r.ready = q.ready
         /\ RunHolds(r, acc, ok2, cs2, host2, ss2, pl2, credited)
<1>1. /\ r \in Run /\ r.pc = q.pc /\ r.ready = q.ready /\ r.snap = q.snap /\ r.topUp = q.topUp
      /\ r.n = q.n /\ r.mutate = q.mutate
      /\ r.disturbed = (q.pc \notin {"new", "returned"})
  BY Zenon DEF Run
<1>2. MoneySeen(r, credited) /\ AtRole(r)
  BY <1>1, Zenon DEF RunHolds, MoneySeen, AtRole
<1>3. BindingsKept(r, cs2, ss2)
  BY <1>1, Zenon DEF RunHolds, BindingsKept
<1>4. BindingsSeen(r, cs2, host2, ss2)
  BY <1>1, Zenon DEF BindingsSeen
<1>5. StatusSeen(r, acc, ok2, cs2, ss2, pl2)
  BY <1>1, Zenon DEF StatusSeen, Funding
<1> QED
  BY <1>1, <1>2, <1>3, <1>4, <1>5, Zenon DEF RunHolds

(* A run that stays where it is, moves well. *)
LEMMA StaysWell ==
  ASSUME NEW s \in Runs, NEW next, next.pc = runs[s].pc, next.ready = runs[s].ready,
         MoneySeen(runs[s], deposit.credited)
  PROVE  MovesWell(s, next)
<1>1. runs[s].pc = "report" => ~next.ready
  BY Zenon DEF MoneySeen
<1>2. runs[s].pc \in {"getSettlement", "registerSettlement", "verifySettlement"} => next.pc # "status"
  BY Zenon
<1> QED
  BY <1>1, <1>2, Zenon DEF MovesWell

(* A run that neither finishes its bindings nor becomes ready moves well. *)
LEMMA PlainWell ==
  ASSUME NEW p \in Runs, NEW next, next.pc \notin {"getSettlement", "status"}, next.ready = FALSE
  PROVE  MovesWell(p, next)
BY DEF MovesWell

(* A step of a run p that leaves the provider and the services alone. *)
LEMMA GoStep ==
  ASSUME DemoInv, NEW p \in Runs, NEW next \in Run, Go(p, next),
         UNCHANGED provider, healthy' = healthy,
         accounts' \in SUBSET Roles, accounts \subseteq accounts', hosts' \in Nat,
         deposit' \in Deposit, deposit.credited <= deposit'.credited,
         RunHolds(next, accounts', healthy, carriers, carrierHost, settlements, pool, deposit'.credited),
         MovesWell(p, next)
  PROVE  DemoInv' /\ AllMoveWell
<1>1. DemoTypes /\ runs \in [Runs -> Run] /\ deposit.credited \in Nat /\ deposit'.credited \in Nat
  BY DEF DemoInv, DemoTypes, Deposit
<1>2. runs' \in [Runs -> Run] /\ \A s \in Runs : runs'[s] = IF s = p THEN next ELSE runs[s]
  BY <1>1, Zenon DEF Go
<1>3. /\ carriers' = carriers /\ carrierHost' = carrierHost /\ settlements' = settlements
      /\ pool' = pool
  BY DEF provider
<1>4. DemoTypes'
  BY <1>1, <1>2, <1>3, Zenon DEF DemoTypes
<1>5. ASSUME NEW s \in Runs
      PROVE  /\ RunHolds(runs'[s], accounts', healthy', carriers', carrierHost', settlements', pool',
                         deposit'.credited)
             /\ MovesWell(s, runs'[s])
  <2>1. CASE s = p
    BY <1>2, <1>3, <2>1, Zenon
  <2>2. CASE s # p
    <3>1. runs[s] \in Run /\ runs'[s] = runs[s]
      BY <1>1, <1>2, <2>2, Zenon
    <3>2. RunHolds(runs[s], accounts, healthy, carriers, carrierHost, settlements, pool, deposit.credited)
      BY Zenon DEF DemoInv
    <3>3. RunHolds(runs[s], accounts', healthy, carriers, carrierHost, settlements, pool, deposit'.credited)
      BY ONLY <3>1, <3>2, <1>1, accounts' \in SUBSET Roles, accounts \subseteq accounts',
              deposit.credited <= deposit'.credited, HoldsOn, Zenon
    <3>4. MovesWell(s, runs[s])
      <4>1. MoneySeen(runs[s], deposit.credited)
        BY <3>2, Zenon DEF RunHolds
      <4> QED
        BY <4>1, StaysWell, Zenon
    <3> QED
      BY <3>1, <3>3, <3>4, <1>3, Zenon
  <2> QED
    BY <2>1, <2>2, Zenon
<1> QED
  BY <1>4, <1>5, Zenon DEF DemoInv, AllMoveWell

(* A step of a run that changes nothing else. *)
LEMMA QuietGo ==
  ASSUME DemoInv, NEW p \in Runs, NEW next \in Run, Go(p, next), UNCHANGED <<world, healthy>>,
         RunHolds(next, accounts, healthy, carriers, carrierHost, settlements, pool, deposit.credited),
         MovesWell(p, next)
  PROVE  DemoInv' /\ AllMoveWell
<1>1. accounts' = accounts /\ hosts' = hosts /\ UNCHANGED provider /\ deposit' = deposit /\ healthy' = healthy
  BY Zenon DEF world
<1>2. accounts \in SUBSET Roles /\ hosts \in Nat /\ deposit \in Deposit /\ deposit.credited <= deposit.credited
  BY DEF DemoInv, DemoTypes, Deposit
<1>3. /\ accounts' \in SUBSET Roles /\ accounts \subseteq accounts' /\ hosts' \in Nat
      /\ deposit' \in Deposit /\ deposit.credited <= deposit'.credited
  BY <1>1, <1>2, Zenon
<1>4. RunHolds(next, accounts', healthy, carriers, carrierHost, settlements, pool, deposit'.credited)
  BY <1>1, Zenon
<1> QED
  BY <1>1, <1>3, <1>4, GoStep, Zenon

(* A change of the provider or of the services disturbs the other runs. *)
LEMMA DisturbsOthers ==
  ASSUME DemoInv, NEW s \in Runs, runs'[s] = Disturbed(s),
         accounts' = accounts, deposit' = deposit,
         carriers # <<>> => carriers' # <<>>, settlements # <<>> => settlements' # <<>>
  PROVE  /\ runs'[s] \in Run
         /\ RunHolds(runs'[s], accounts', healthy', carriers', carrierHost', settlements', pool',
                     deposit'.credited)
         /\ MovesWell(s, runs'[s])
<1>1. runs[s] \in Run
  BY Zenon DEF DemoInv, DemoTypes
<1>2. RunHolds(runs[s], accounts, healthy, carriers, carrierHost, settlements, pool, deposit.credited)
  BY Zenon DEF DemoInv
<1>3. runs'[s] = [runs[s] EXCEPT !.disturbed = runs[s].pc \notin {"new", "returned"}]
  BY Zenon DEF Disturbed
<1>4. /\ runs'[s] \in Run /\ runs'[s].pc = runs[s].pc /\ runs'[s].ready = runs[s].ready
      /\ RunHolds(runs'[s], accounts, healthy', carriers', carrierHost', settlements', pool', deposit.credited)
  <2>1. (carriers # <<>> => carriers' # <<>>) /\ (settlements # <<>> => settlements' # <<>>)
    OBVIOUS
  <2> QED
    BY ONLY <1>1, <1>2, <1>3, <2>1, HoldsDisturbed
<1>5. MoneySeen(runs[s], deposit.credited)
  BY <1>2, Zenon DEF RunHolds
<1>6. MovesWell(s, runs'[s])
  BY <1>4, <1>5, StaysWell, Zenon
<1> QED
  BY <1>4, <1>6, Zenon

(* A step of a run p that changes the provider. *)
LEMMA TouchStep ==
  ASSUME DemoInv, NEW p \in Runs, NEW next \in Run, Touch(p, next),
         accounts' = accounts, deposit' = deposit, hosts' = hosts, healthy' = healthy,
         carriers' \in Seq(BindingStates), settlements' \in Seq(BindingStates), pool' \in Pool,
         carriers # <<>> => carriers' # <<>>, settlements # <<>> => settlements' # <<>>,
         RunHolds(next, accounts, healthy, carriers', carrierHost', settlements', pool', deposit.credited),
         MovesWell(p, next)
  PROVE  DemoInv' /\ AllMoveWell
<1>1. runs' = [s \in Runs |-> IF s = p THEN next ELSE Disturbed(s)]
  BY Zenon DEF Touch
<1>2. ASSUME NEW s \in Runs
      PROVE  /\ runs'[s] \in Run
             /\ RunHolds(runs'[s], accounts', healthy', carriers', carrierHost', settlements', pool',
                         deposit'.credited)
             /\ MovesWell(s, runs'[s])
  <2>1. CASE s = p
    <3>1. runs'[s] = next
      BY <1>1, <2>1, Zenon
    <3> QED
      BY <2>1, <3>1, Zenon
  <2>2. CASE s # p
    <3>1. runs'[s] = Disturbed(s)
      BY <1>1, <2>2, Zenon
    <3> QED
      BY <3>1, DisturbsOthers, Zenon
  <2> QED
    BY <2>1, <2>2, Zenon
<1>3. runs' \in [Runs -> Run]
  BY <1>1, <1>2, Zenon
<1>4. DemoTypes'
  BY <1>3, Zenon DEF DemoTypes, DemoInv
<1> QED
  BY <1>2, <1>4, Zenon DEF DemoInv, AllMoveWell

(* The surroundings change the provider or the services. *)
LEMMA DisturbStep ==
  ASSUME DemoInv, Disturb,
         accounts' = accounts, deposit' = deposit, hosts' = hosts, healthy' \in BOOLEAN,
         carriers' \in Seq(BindingStates), settlements' \in Seq(BindingStates), pool' \in Pool,
         carriers # <<>> => carriers' # <<>>, settlements # <<>> => settlements' # <<>>
  PROVE  DemoInv' /\ AllMoveWell
<1>1. runs' = [s \in Runs |-> Disturbed(s)]
  BY Zenon DEF Disturb
<1>2. ASSUME NEW s \in Runs
      PROVE  /\ runs'[s] \in Run
             /\ RunHolds(runs'[s], accounts', healthy', carriers', carrierHost', settlements', pool',
                         deposit'.credited)
             /\ MovesWell(s, runs'[s])
  <2>1. runs'[s] = Disturbed(s)
    BY <1>1, Zenon
  <2> QED
    BY <2>1, DisturbsOthers, Zenon
<1>3. runs' \in [Runs -> Run]
  BY <1>1, <1>2, Zenon
<1>4. DemoTypes'
  BY <1>3, Zenon DEF DemoTypes, DemoInv
<1> QED
  BY <1>2, <1>4, Zenon DEF DemoInv, AllMoveWell

(* Money or payments come; no run moves. *)
LEMMA MoneyComes ==
  ASSUME DemoInv, UNCHANGED <<accounts, hosts, provider, healthy, runs>>,
         deposit' \in Deposit, deposit.credited <= deposit'.credited
  PROVE  DemoInv' /\ AllMoveWell
<1>1. /\ accounts' = accounts /\ hosts' = hosts /\ healthy' = healthy /\ runs' = runs
      /\ carriers' = carriers /\ carrierHost' = carrierHost /\ settlements' = settlements
      /\ pool' = pool
  BY DEF provider
<1>2. DemoTypes' /\ deposit.credited \in Nat /\ deposit'.credited \in Nat
  BY <1>1 DEF DemoInv, DemoTypes, Deposit
<1>3. ASSUME NEW s \in Runs
      PROVE  /\ RunHolds(runs'[s], accounts', healthy', carriers', carrierHost', settlements', pool',
                         deposit'.credited)
             /\ MovesWell(s, runs'[s])
  <2>1. runs[s] \in Run /\ accounts \in SUBSET Roles /\ accounts \subseteq accounts
    BY Zenon DEF DemoInv, DemoTypes
  <2>2. RunHolds(runs[s], accounts, healthy, carriers, carrierHost, settlements, pool, deposit.credited)
    BY Zenon DEF DemoInv
  <2>3. RunHolds(runs[s], accounts, healthy, carriers, carrierHost, settlements, pool, deposit'.credited)
    BY ONLY <2>1, <2>2, <1>2, deposit.credited <= deposit'.credited, HoldsOn, Zenon
  <2>4. MoneySeen(runs[s], deposit.credited)
    BY <2>2, Zenon DEF RunHolds
  <2>5. MovesWell(s, runs[s])
    BY <2>4, StaysWell, Zenon
  <2> QED
    BY <1>1, <2>3, <2>5, Zenon
<1> QED
  BY <1>2, <1>3, Zenon DEF DemoInv, AllMoveWell

-----------------------------------------------------------------------------
(* The fields of a run. *)
LEMMA RunFields ==
  ASSUME NEW q \in Run
  PROVE  /\ q.pc \in Places /\ q.mutate \in BOOLEAN /\ q.host \in Nat /\ q.n \in Nat
         /\ q.tries \in Nat /\ q.snap \in Snap /\ q.topUp \in Nat /\ q.disturbed \in BOOLEAN
         /\ q.ready \in BOOLEAN
BY Zenon DEF Run

(* The fields of a status. *)
LEMMA SnapFields ==
  ASSUME NEW q \in Snap
  PROVE  /\ q.healthy \in BOOLEAN /\ q.settled \in Nat /\ q.carrier \in BindingStates \cup {""}
         /\ q.settlement \in BindingStates \cup {""} /\ q.pool \in PoolStates /\ q.available \in Nat
BY Zenon DEF Snap

(* What is available is a number. *)
LEMMA AvailableInPool ==
  ASSUME NEW pl \in Pool
  PROVE  Available(pl) \in Nat
<1>1. pl.total \in Nat /\ pl.reserved \in Nat
  BY Zenon DEF Pool
<1> QED
  BY <1>1 DEF Available

(* The invariant, for one run. *)
LEMMA RunNow ==
  ASSUME DemoInv, NEW p \in Runs
  PROVE  /\ runs[p] \in Run
         /\ RunHolds(runs[p], accounts, healthy, carriers, carrierHost, settlements, pool, deposit.credited)
BY Zenon DEF DemoInv, DemoTypes

(* A run goes on before it reads the status. *)
LEMMA HoldsNext ==
  ASSUME NEW q, NEW next, NEW acc, NEW ok, NEW cs, NEW host, NEW ss, NEW pl, NEW credited,
         MoneySeen(q, credited), next.snap = q.snap, next.topUp = q.topUp, next.ready = FALSE,
         next.pc \notin Funding \cup {"statusProvider"},
         AtRole(next), BindingsSeen(next, cs, host, ss), BindingsKept(next, cs, ss)
  PROVE  RunHolds(next, acc, ok, cs, host, ss, pl, credited)
<1>1. next.pc # "record"
  BY Zenon DEF Funding
<1>2. MoneySeen(next, credited)
  BY <1>1, Zenon DEF MoneySeen
<1>3. StatusSeen(next, acc, ok, cs, ss, pl)
  BY Zenon DEF StatusSeen
<1> QED
  BY <1>2, <1>3, Zenon DEF RunHolds

(* A run sets up its actors, and reads the status when it only verifies. *)
LEMMA HoldsEntering ==
  ASSUME NEW q, NEW next, NEW acc, NEW ok, NEW cs, NEW host, NEW ss, NEW pl, NEW credited,
         MoneySeen(q, credited), next.snap = q.snap, next.topUp = q.topUp, next.ready = FALSE,
         next.pc \in Entering \cup {"getCarrier", "status"}, next.pc \in Entering => next.n \in DOMAIN RoleOrder,
         next.pc = "status" => ~next.mutate
  PROVE  RunHolds(next, acc, ok, cs, host, ss, pl, credited)
<1>1. next.pc \notin Funding \cup {"statusProvider"}
  BY DEF Funding, Entering
<1>2. AtRole(next)
  BY Zenon DEF AtRole
<1>3. BindingsSeen(next, cs, host, ss)
  BY Zenon DEF BindingsSeen, Entering
<1>4. BindingsKept(next, cs, ss)
  BY <1>1 DEF BindingsKept, Entering, Reading
<1> QED
  BY <1>1, <1>2, <1>3, <1>4, HoldsNext, Zenon

(* A run goes on once it has read the status. *)
LEMMA HoldsFunding ==
  ASSUME NEW q, NEW next, NEW acc, NEW ok, NEW cs, NEW host, NEW ss, NEW pl, NEW credited,
         RunHolds(q, acc, ok, cs, host, ss, pl, credited), q.pc \in Funding, next.pc \in Funding,
         next.snap = q.snap, next.topUp # q.topUp \/ next.pc = "record" => credited >= BuyerTopUpAmount,
         next.ready = FALSE, next.disturbed = q.disturbed, next.pc = "report" => ProviderMeets(q.snap)
  PROVE  RunHolds(next, acc, ok, cs, host, ss, pl, credited)
<1>1. MoneySeen(next, credited)
  BY Zenon DEF MoneySeen, RunHolds
<1>2. AtRole(next)
  BY Zenon DEF AtRole, Entering, Funding
<1>3. BindingsSeen(next, cs, host, ss)
  BY Zenon DEF BindingsSeen, Funding
<1>4. BindingsKept(next, cs, ss)
  <2>1. cs # <<>> /\ ss # <<>>
    BY Zenon DEF BindingsKept, RunHolds
  <2> QED
    BY <2>1, Zenon DEF BindingsKept
<1>5. StatusSeen(next, acc, ok, cs, ss, pl)
  BY Zenon DEF StatusSeen, RunHolds
<1> QED
  BY <1>1, <1>2, <1>3, <1>4, <1>5, Zenon DEF RunHolds

(* A run that has not started. *)
LEMMA NewRun ==
  /\ NoSnap \in Snap /\ NoSnap.settled = 0
  /\ New \in Run /\ New.pc = "new" /\ New.snap = NoSnap /\ New.topUp = 0 /\ New.ready = FALSE
<1>1. 0 \in Nat
  OBVIOUS
<1>2. FALSE \in BOOLEAN /\ "" \in PoolStates /\ "" \in BindingStates \cup {""}
  BY Zenon DEF PoolStates
<1>3. NoSnap \in Snap /\ NoSnap.settled = 0
  BY <1>1, <1>2, Zenon DEF NoSnap, Snap
<1>4. "new" \in Places
  BY Zenon DEF Places
<1> QED
  BY <1>1, <1>2, <1>3, <1>4, Zenon DEF New, Run

(* A run returns. *)
LEMMA ReturnStep ==
  ASSUME DemoInv, NEW p \in Runs, NEW ready \in BOOLEAN, Go(p, Returned(ready)),
         UNCHANGED <<world, healthy>>, ready => deposit.credited >= MinBuyerBalanceCents,
         runs[p].pc = "report" /\ ~runs[p].disturbed /\ ready => FinalizeStatus(StatusNow) = "ready"
  PROVE  DemoInv' /\ AllMoveWell
<1> DEFINE next == Returned(ready)
<1>1. New \in Run /\ New.snap = NoSnap /\ New.topUp = 0 /\ NoSnap.settled = 0
  BY NewRun, Zenon
<1>2. next = [New EXCEPT !.pc = "returned", !.ready = ready]
  BY Zenon DEF Returned
<1> HIDE DEF next
<1>3. "returned" \in Places
  BY Zenon DEF Places
<1>4. /\ next \in Run
      /\ next.pc = "returned" /\ next.snap = NoSnap /\ next.topUp = 0 /\ next.ready = ready
  BY <1>1, <1>2, <1>3, Zenon DEF Run
<1>5. RunHolds(next, accounts, healthy, carriers, carrierHost, settlements, pool, deposit.credited)
  <2>1. deposit.credited \in Nat
    BY Zenon DEF DemoInv, DemoTypes, Deposit
  <2>2. MoneySeen(next, deposit.credited)
    BY <1>1, <1>4, <2>1 DEF MoneySeen
  <2>3. AtRole(next) /\ BindingsSeen(next, carriers, carrierHost, settlements)
    BY <1>4 DEF AtRole, Entering, BindingsSeen
  <2>4. BindingsKept(next, carriers, settlements)
    BY <1>4, Zenon DEF BindingsKept, Reading, Funding
  <2>5. StatusSeen(next, accounts, healthy, carriers, settlements, pool)
    BY <1>4, Zenon DEF StatusSeen, Funding
  <2> QED
    BY <2>2, <2>3, <2>4, <2>5, Zenon DEF RunHolds
<1>6. MovesWell(p, next)
  BY <1>4, Zenon DEF MovesWell
<1>7. Go(p, next)
  BY Zenon DEF next
<1> QED
  BY <1>4, <1>5, <1>6, <1>7, QuietGo, Zenon

(* A run gives up. *)
LEMMA GivesUp ==
  ASSUME DemoInv, NEW p \in Runs, NEW verdict, verdict # "ready", Return(p, verdict)
  PROVE  DemoInv' /\ AllMoveWell
<1>1. Go(p, Returned(FALSE)) /\ UNCHANGED <<world, healthy>>
  <2>1. (verdict = "ready") = FALSE
    OBVIOUS
  <2> QED
    BY <2>1, Zenon DEF Return
<1> QED
  BY <1>1, ReturnStep, Zenon

-----------------------------------------------------------------------------
(* A run starts with its first actor. *)
LEMMA Starts ==
  ASSUME DemoInv, NEW p \in Runs, NEW mutate \in BOOLEAN, Start(p, mutate)
  PROVE  DemoInv' /\ AllMoveWell
<1> DEFINE q == runs[p]
           place == IF mutate THEN "bootstrap" ELSE "login"
           next == [q EXCEPT !.pc = place, !.mutate = mutate, !.n = 1]
<1>1. q \in Run /\ MoneySeen(q, deposit.credited) /\ q.ready = FALSE
  <2>1. q.pc = "new"
    BY Zenon DEF Start, At
  <2> QED
    BY <2>1, RunNow, RunFields, Zenon DEF RunHolds, MoneySeen
<1>2. place \in Entering /\ place \in Places
  BY Zenon DEF Entering, Places
<1>3. 1 \in DOMAIN RoleOrder /\ 1 \in Nat
  BY DemoNumbers
<1> HIDE DEF q, place
<1>4. /\ next \in Run /\ next.pc = place /\ next.n = 1 /\ next.snap = q.snap /\ next.topUp = q.topUp
      /\ next.ready = FALSE
  BY <1>1, <1>2, <1>3, Zenon DEF Run
<1>5. Go(p, next) /\ UNCHANGED <<world, healthy>>
  BY Zenon DEF Start, q, place
<1> HIDE DEF next
<1>6. next.pc \notin {"getSettlement", "status"}
  BY <1>2, <1>4, Zenon DEF Entering
<1>7. RunHolds(next, accounts, healthy, carriers, carrierHost, settlements, pool, deposit.credited)
  BY <1>1, <1>2, <1>3, <1>4, <1>6, HoldsEntering, Zenon
<1> QED
  BY <1>4, <1>5, <1>6, <1>7, PlainWell, QuietGo, Zenon

(* bootstrapCarrierTarget. *)
LEMMA Bootstraps ==
  ASSUME DemoInv, NEW p \in Runs, NEW host \in Nat, bootstrapCarrierTarget(p, host)
  PROVE  DemoInv' /\ AllMoveWell
<1> DEFINE q == runs[p]
           next == [q EXCEPT !.pc = "login", !.host = host]
<1>1. q \in Run /\ MoneySeen(q, deposit.credited) /\ q.ready = FALSE /\ q.n \in DOMAIN RoleOrder
  <2>1. q.pc = "bootstrap"
    BY Zenon DEF bootstrapCarrierTarget, At
  <2> QED
    BY <2>1, RunNow, RunFields, Zenon DEF RunHolds, MoneySeen, AtRole, Entering
<1>2. "login" \in Entering /\ "login" \in Places
  BY Zenon DEF Entering, Places
<1> HIDE DEF q
<1>3. /\ next \in Run /\ next.pc = "login" /\ next.n = q.n /\ next.snap = q.snap
      /\ next.topUp = q.topUp /\ next.ready = FALSE
  BY <1>1, <1>2, Zenon DEF Run
<1>4. /\ Go(p, next) /\ hosts' = host /\ accounts' = accounts /\ UNCHANGED provider /\ deposit' = deposit
      /\ healthy' = healthy
  BY Zenon DEF bootstrapCarrierTarget, q
<1> HIDE DEF next
<1>5. next.pc \notin {"getSettlement", "status"}
  BY <1>3
<1>6. RunHolds(next, accounts', healthy, carriers, carrierHost, settlements, pool, deposit'.credited)
  BY <1>1, <1>2, <1>3, <1>4, <1>5, HoldsEntering, Zenon
<1>7. /\ accounts' \in SUBSET Roles /\ accounts \subseteq accounts' /\ hosts' \in Nat
      /\ deposit' \in Deposit /\ deposit.credited <= deposit'.credited
  <2>1. accounts \in SUBSET Roles /\ deposit \in Deposit /\ deposit.credited \in Nat
    BY Zenon DEF DemoInv, DemoTypes, Deposit
  <2> QED
    BY <1>4, <2>1
<1> QED
  BY <1>3, <1>4, <1>5, <1>6, <1>7, PlainWell, GoStep, Zenon

(* The next actor, or the next stage. *)
LEMMA NextRoleHolds ==
  ASSUME DemoInv, NEW p \in Runs, runs[p].pc \in {"login", "signup"}, NEW acc
  PROVE  /\ NextRole(p) \in Run /\ MovesWell(p, NextRole(p))
         /\ RunHolds(NextRole(p), acc, healthy, carriers, carrierHost, settlements, pool, deposit.credited)
<1> DEFINE q == runs[p]
           next == NextRole(p)
<1>1. /\ q \in Run /\ MoneySeen(q, deposit.credited) /\ q.ready = FALSE /\ q.n \in DOMAIN RoleOrder
      /\ q.n \in Nat /\ q.mutate \in BOOLEAN
  BY RunNow, RunFields, Zenon DEF RunHolds, MoneySeen, AtRole, Entering
<1>2. q.pc \in {"login", "signup"}
  OBVIOUS
<1>3. CASE q.n < Len(RoleOrder)
  <2>1. next = [q EXCEPT !.pc = "login", !.n = q.n + 1]
    BY <1>3, Zenon DEF NextRole
  <2>2. q.n + 1 \in DOMAIN RoleOrder /\ q.n + 1 \in Nat
    BY <1>1, <1>3, DemoNumbers
  <2>3. "login" \in Entering /\ "login" \in Places
    BY Zenon DEF Entering, Places
  <2> HIDE DEF q, next
  <2>4. /\ next \in Run /\ next.pc = "login" /\ next.n = q.n + 1 /\ next.snap = q.snap
        /\ next.topUp = q.topUp /\ next.ready = FALSE
    BY <1>1, <2>1, <2>2, <2>3, Zenon DEF Run
  <2>5. next.pc \notin {"getSettlement", "status"}
    BY <2>4
  <2>6. RunHolds(next, acc, healthy, carriers, carrierHost, settlements, pool, deposit.credited)
    BY <1>1, <2>2, <2>3, <2>4, <2>5, HoldsEntering, Zenon
  <2>7. MovesWell(p, next)
    BY <2>4, <2>5, PlainWell, Zenon
  <2> QED
    BY <2>4, <2>6, <2>7, Zenon DEF next
<1>4. CASE ~(q.n < Len(RoleOrder))
  <2> DEFINE place == IF q.mutate THEN "getCarrier" ELSE "status"
  <2>1. next = [q EXCEPT !.pc = place, !.n = 0]
    BY <1>4, Zenon DEF NextRole
  <2>2. place \in {"getCarrier", "status"} /\ place \in Places /\ (place = "status" => ~q.mutate)
    BY Zenon DEF Places, Binding, Reading
  <2>3. 0 \in Nat
    OBVIOUS
  <2> HIDE DEF next, place
  <2>5. /\ next \in Run /\ next.pc = place /\ next.snap = q.snap
        /\ next.topUp = q.topUp /\ next.ready = FALSE /\ next.mutate = q.mutate
    BY <1>1, <2>1, <2>2, <2>3, Zenon DEF Run
  <2>6. next.pc \in {"getCarrier", "status"} /\ next.pc \notin Entering
    BY <2>2, <2>5 DEF Entering
  <2>7. RunHolds(next, acc, healthy, carriers, carrierHost, settlements, pool, deposit.credited)
    <3> HIDE DEF q
    <3> QED
      BY <1>1, <2>2, <2>5, <2>6, HoldsEntering, Zenon
  <2>8. MovesWell(p, next)
    BY <1>2, <2>5, <2>6, Zenon DEF MovesWell
  <2> QED
    BY <2>5, <2>7, <2>8, Zenon DEF next
<1> QED
  BY <1>3, <1>4, Zenon

(* loginIAMUser. *)
LEMMA LogsIn ==
  ASSUME DemoInv, NEW p \in Runs, loginIAMUser(p)
  PROVE  DemoInv' /\ AllMoveWell
<1>1. runs[p].pc \in {"login", "signup"} /\ Go(p, NextRole(p)) /\ UNCHANGED <<world, healthy>>
  BY Zenon DEF loginIAMUser, At
<1>2. /\ NextRole(p) \in Run /\ MovesWell(p, NextRole(p))
      /\ RunHolds(NextRole(p), accounts, healthy, carriers, carrierHost, settlements, pool, deposit.credited)
  BY <1>1, NextRoleHolds, Zenon
<1> QED
  BY <1>1, <1>2, QuietGo, Zenon

(* ensureDemoActor, after a login that failed. *)
LEMMA EnsuresActor ==
  ASSUME DemoInv, NEW p \in Runs, NEW refused, ensureDemoActor(p, refused)
  PROVE  DemoInv' /\ AllMoveWell
<1> DEFINE q == runs[p]
           next == To(p, "signup")
<1>1. q.pc = "login" /\ UNCHANGED <<world, healthy>>
  BY Zenon DEF ensureDemoActor, At
<1>2. CASE q.mutate
  <2>1. Go(p, next)
    BY <1>2, Zenon DEF ensureDemoActor
  <2>2. q \in Run /\ MoneySeen(q, deposit.credited) /\ q.ready = FALSE /\ q.n \in DOMAIN RoleOrder
    BY <1>1, RunNow, RunFields, Zenon DEF RunHolds, MoneySeen, AtRole, Entering
  <2>3. "signup" \in Entering /\ "signup" \in Places
    BY Zenon DEF Entering, Places
  <2>4. next = [q EXCEPT !.pc = "signup"]
    BY Zenon DEF To
  <2> HIDE DEF q, next
  <2>5. /\ next \in Run /\ next.pc = "signup" /\ next.n = q.n /\ next.snap = q.snap
        /\ next.topUp = q.topUp /\ next.ready = FALSE
    BY <2>2, <2>3, <2>4, Zenon DEF Run
  <2>6. next.pc \notin {"getSettlement", "status"}
    BY <2>5
  <2>7. RunHolds(next, accounts, healthy, carriers, carrierHost, settlements, pool, deposit.credited)
    BY <2>2, <2>3, <2>5, <2>6, HoldsEntering, Zenon
  <2> QED
    BY <1>1, <2>1, <2>5, <2>6, <2>7, PlainWell, QuietGo, Zenon
<1>3. CASE ~q.mutate
  <2>1. Go(p, Returned(FALSE))
    BY <1>3, Zenon DEF ensureDemoActor
  <2> QED
    BY <1>1, <2>1, ReturnStep, Zenon
<1> QED
  BY <1>2, <1>3, Zenon

(* signupIAMUser: accounts are only added. *)
LEMMA SignsUp ==
  ASSUME DemoInv, NEW p \in Runs, signupIAMUser(p)
  PROVE  DemoInv' /\ AllMoveWell
<1> DEFINE role == RoleOrder[runs[p].n]
<1>1. runs[p].pc \in {"login", "signup"}
  BY Zenon DEF signupIAMUser, At
<1>2. CASE role \in accounts
  <2>1. Return(p, "blocked")
    BY <1>2, Zenon DEF signupIAMUser
  <2>2. "blocked" # "ready"
    OBVIOUS
  <2> QED
    BY <2>1, <2>2, GivesUp, Zenon
<1>3. CASE role \notin accounts
  <2>1. /\ accounts' = accounts \cup {role} /\ Go(p, NextRole(p))
        /\ hosts' = hosts /\ UNCHANGED provider /\ deposit' = deposit /\ healthy' = healthy
    BY <1>3, Zenon DEF signupIAMUser
  <2>2. runs[p].n \in DOMAIN RoleOrder
    BY <1>1, RunNow, Zenon DEF RunHolds, AtRole, Entering
  <2>3. role \in Roles
    BY <2>2, Zenon DEF Roles
  <2>4. accounts \in SUBSET Roles /\ hosts \in Nat /\ deposit \in Deposit /\ deposit.credited \in Nat
    BY Zenon DEF DemoInv, DemoTypes, Deposit
  <2>5. accounts' \in SUBSET Roles /\ accounts \subseteq accounts'
    BY <2>1, <2>3, <2>4, Zenon
  <2>6. /\ NextRole(p) \in Run /\ MovesWell(p, NextRole(p))
        /\ RunHolds(NextRole(p), accounts', healthy, carriers, carrierHost, settlements, pool, deposit.credited)
    BY <1>1, NextRoleHolds, Zenon
  <2>7. RunHolds(NextRole(p), accounts', healthy, carriers, carrierHost, settlements, pool, deposit'.credited)
    BY <2>1, <2>6, Zenon
  <2>8. hosts' \in Nat /\ deposit' \in Deposit /\ deposit.credited <= deposit'.credited
    BY <2>1, <2>4
  <2> QED
    BY <2>1, <2>5, <2>6, <2>7, <2>8, GoStep, Zenon
<1> QED
  BY <1>2, <1>3, Zenon

-----------------------------------------------------------------------------
(* What a run p that is about its bindings has seen. *)
LEMMA BindingNow ==
  ASSUME DemoInv, NEW p \in Runs, runs[p].pc \in Binding
  PROVE  /\ runs[p] \in Run /\ runs[p].ready = FALSE /\ runs[p].n \in Nat /\ runs[p].host \in Nat
         /\ MoneySeen(runs[p], deposit.credited)
         /\ BindingsSeen(runs[p], carriers, carrierHost, settlements)
         /\ BindingsKept(runs[p], carriers, settlements)
         /\ carriers \in Seq(BindingStates) /\ settlements \in Seq(BindingStates) /\ pool \in Pool
<1>1. "returned" \notin Binding
  BY DEF Binding
<1>2. /\ carriers \in Seq(BindingStates) /\ settlements \in Seq(BindingStates) /\ pool \in Pool
  BY Zenon DEF DemoInv, DemoTypes
<1> QED
  BY <1>1, <1>2, RunNow, RunFields, Zenon DEF RunHolds, MoneySeen

(* A run that is about its bindings is not elsewhere. *)
LEMMA BindingPlaces ==
  /\ Binding \subseteq Places /\ "status" \in Places
  /\ \A x \in Binding \cup {"status"} : x \notin Funding \cup {"statusProvider"} /\ x \notin Entering
BY Zenon DEF Binding, Places, Funding, Entering, Reading

(* getProviderCarrierBinding: the run goes on with an active binding for   *)
(* its host, or about to suspend or to register.                           *)
LEMMA GetsCarrier ==
  ASSUME DemoInv, NEW p \in Runs, getProviderCarrierBinding(p)
  PROVE  DemoInv' /\ AllMoveWell
<1> DEFINE q == runs[p]
<1>1. q.pc = "getCarrier" /\ UNCHANGED <<world, healthy>> /\ carriers' = carriers /\ carrierHost' = carrierHost
  BY Zenon DEF getProviderCarrierBinding, At, world, provider
<1>2. /\ q \in Run /\ q.ready = FALSE /\ MoneySeen(q, deposit.credited)
      /\ carriers \in Seq(BindingStates)
  <2>1. q.pc \in Binding
    BY <1>1, Zenon DEF Binding
  <2> QED
    BY <2>1, BindingNow, Zenon
<1>3. CarrierStatus = LastOf(carriers)
  BY LastNow, Zenon
<1>4. {"registerCarrier", "getSettlement", "suspendCarrier"} \subseteq Binding
  BY Zenon DEF Binding
<1>5. CASE CarrierStatus # "active"
  <2> DEFINE next == [q EXCEPT !.pc = "registerCarrier"]
  <2>1. Go(p, next)
    BY <1>5, Zenon DEF getProviderCarrierBinding, To
  <2> HIDE DEF q
  <2>2. /\ next \in Run /\ next.pc = "registerCarrier" /\ next.snap = q.snap
        /\ next.topUp = q.topUp /\ next.ready = FALSE
    BY <1>2, <1>4, BindingPlaces, Zenon DEF Run
  <2> HIDE DEF next
  <2>3. AtRole(next) /\ BindingsKept(next, carriers, settlements)
    BY <1>4, <2>2, BindingPlaces DEF AtRole, BindingsKept, Reading
  <2>4. BindingsSeen(next, carriers, carrierHost, settlements)
    BY <1>3, <1>5, <2>2, Zenon DEF BindingsSeen
  <2>5. RunHolds(next, accounts, healthy, carriers, carrierHost, settlements, pool, deposit.credited)
    BY <1>2, <1>4, <2>2, <2>3, <2>4, BindingPlaces, HoldsNext, Zenon
  <2>6. MovesWell(p, next)
    BY <2>2, PlainWell, Zenon
  <2> QED
    BY <1>1, <2>1, <2>2, <2>5, <2>6, QuietGo, Zenon
<1>6. CASE CarrierStatus = "active" /\ carrierBindingMatchesConfig(p)
  <2> DEFINE next == [q EXCEPT !.pc = "getSettlement", !.host = 0]
  <2>1. Go(p, next) /\ carrierHost = q.host
    BY <1>6, Zenon DEF getProviderCarrierBinding, carrierBindingMatchesConfig
  <2>2. carriers # <<>>
    BY <1>2, <1>3, <1>6, LastState, Zenon
  <2>3. 0 \in Nat
    OBVIOUS
  <2> HIDE DEF q
  <2>5. /\ next \in Run /\ next.pc = "getSettlement" /\ next.snap = q.snap
        /\ next.topUp = q.topUp /\ next.ready = FALSE
    BY <1>2, <1>4, <2>3, BindingPlaces, Zenon DEF Run
  <2> HIDE DEF next
  <2>6. AtRole(next) /\ BindingsKept(next, carriers, settlements)
    BY <1>4, <2>2, <2>5, BindingPlaces DEF AtRole, BindingsKept, Reading
  <2>7. BindingsSeen(next, carriers, carrierHost, settlements)
    BY <2>5 DEF BindingsSeen
  <2>8. RunHolds(next, accounts, healthy, carriers, carrierHost, settlements, pool, deposit.credited)
    BY <1>2, <1>4, <2>5, <2>6, <2>7, BindingPlaces, HoldsNext, Zenon
  <2>9. MovesWell(p, next)
    BY <1>1, <1>3, <1>6, <2>1, <2>5, Zenon DEF MovesWell, q
  <2> QED
    BY <1>1, <2>1, <2>5, <2>8, <2>9, QuietGo, Zenon
<1>7. CASE CarrierStatus = "active" /\ ~carrierBindingMatchesConfig(p)
  <2> DEFINE next == [q EXCEPT !.pc = "suspendCarrier", !.n = Len(carriers)]
  <2>1. Go(p, next)
    BY <1>7, Zenon DEF getProviderCarrierBinding
  <2>2. Len(carriers) \in Nat
    BY <1>2
  <2> HIDE DEF q
  <2>3. /\ next \in Run /\ next.pc = "suspendCarrier" /\ next.snap = q.snap /\ next.n = Len(carriers)
        /\ next.topUp = q.topUp /\ next.ready = FALSE
    BY <1>2, <1>4, <2>2, BindingPlaces, Zenon DEF Run
  <2> HIDE DEF next
  <2>4. AtRole(next) /\ BindingsKept(next, carriers, settlements)
    BY <1>4, <2>3, BindingPlaces DEF AtRole, BindingsKept, Reading
  <2>5. BindingsSeen(next, carriers, carrierHost, settlements)
    BY <2>3 DEF BindingsSeen
  <2>6. RunHolds(next, accounts, healthy, carriers, carrierHost, settlements, pool, deposit.credited)
    BY <1>2, <1>4, <2>3, <2>4, <2>5, BindingPlaces, HoldsNext, Zenon
  <2>7. MovesWell(p, next)
    BY <2>3, PlainWell, Zenon
  <2> QED
    BY <1>1, <2>1, <2>3, <2>6, <2>7, QuietGo, Zenon
<1> QED
  BY <1>5, <1>6, <1>7, Zenon

(* suspendProviderCarrierBinding: undisturbed, the run suspends the last   *)
(* binding.                                                                *)
LEMMA SuspendsCarrier ==
  ASSUME DemoInv, NEW p \in Runs, suspendProviderCarrierBinding(p)
  PROVE  DemoInv' /\ AllMoveWell
<1> DEFINE q == runs[p]
           next == [q EXCEPT !.pc = "registerCarrier", !.n = 0]
<1>1. /\ q.pc = "suspendCarrier" /\ carriers' = [carriers EXCEPT ![q.n] = "suspended"] /\ Touch(p, next)
      /\ accounts' = accounts /\ hosts' = hosts /\ carrierHost' = carrierHost
      /\ settlements' = settlements /\ pool' = pool /\ deposit' = deposit /\ healthy' = healthy
  BY Zenon DEF suspendProviderCarrierBinding, At
<1>2. /\ q \in Run /\ q.ready = FALSE /\ MoneySeen(q, deposit.credited) /\ q.n \in Nat
      /\ BindingsSeen(q, carriers, carrierHost, settlements)
      /\ carriers \in Seq(BindingStates) /\ settlements \in Seq(BindingStates) /\ pool \in Pool
  <2>1. q.pc \in Binding
    BY <1>1, Zenon DEF Binding
  <2> QED
    BY <2>1, BindingNow, Zenon
<1> HIDE DEF q
<1>3. "registerCarrier" \in Binding /\ 0 \in Nat /\ "suspended" \in BindingStates
  BY DEF Binding, BindingStates
<1>4. /\ next \in Run /\ next.pc = "registerCarrier" /\ next.snap = q.snap
      /\ next.topUp = q.topUp /\ next.ready = FALSE /\ next.disturbed = q.disturbed
  BY <1>2, <1>3, BindingPlaces, Zenon DEF Run
<1> HIDE DEF next
<1>5. /\ carriers' \in Seq(BindingStates) /\ (carriers # <<>> => carriers' # <<>>)
      /\ q.n = Len(carriers) => LastOf(carriers') # "active"
  <2>1. "suspended" # "active"
    OBVIOUS
  <2>2. carriers \in Seq(BindingStates) /\ q.n \in Nat /\ "suspended" \in BindingStates
    BY <1>2, <1>3, Zenon
  <2>3. carriers' = [carriers EXCEPT ![q.n] = "suspended"]
    BY <1>1, Zenon
  <2> QED
    BY <2>1, <2>2, <2>3, StatusPut, Zenon
<1>6. BindingsSeen(next, carriers', carrierHost', settlements')
  <2>1. ~q.disturbed => q.n = Len(carriers)
    BY <1>1, <1>2, Zenon DEF BindingsSeen
  <2> QED
    BY <1>4, <1>5, <2>1 DEF BindingsSeen
<1>7. AtRole(next) /\ BindingsKept(next, carriers', settlements')
  BY <1>3, <1>4, BindingPlaces DEF AtRole, BindingsKept, Reading
<1>8. RunHolds(next, accounts, healthy, carriers', carrierHost', settlements', pool', deposit.credited)
  BY <1>2, <1>3, <1>4, <1>6, <1>7, BindingPlaces, HoldsNext, Zenon
<1>9. MovesWell(p, next)
  BY <1>4, PlainWell, Zenon
<1>10. settlements' \in Seq(BindingStates) /\ pool' \in Pool /\ (settlements # <<>> => settlements' # <<>>)
  BY <1>1, <1>2, Zenon
<1> QED
  BY <1>1, <1>4, <1>5, <1>8, <1>9, <1>10, TouchStep, Zenon

(* registerProviderCarrierBinding: what an undisturbed run is refused for  *)
(* is an older binding.                                                    *)
LEMMA RegistersCarrier ==
  ASSUME DemoInv, NEW p \in Runs, registerProviderCarrierBinding(p)
  PROVE  DemoInv' /\ AllMoveWell
<1> DEFINE q == runs[p]
<1>1. /\ q.pc = "registerCarrier"
      /\ accounts' = accounts /\ hosts' = hosts /\ settlements' = settlements /\ pool' = pool
      /\ deposit' = deposit /\ wallets' = wallets /\ healthy' = healthy
  BY Zenon DEF registerProviderCarrierBinding, At
<1>2. /\ q \in Run /\ q.ready = FALSE /\ MoneySeen(q, deposit.credited) /\ q.host \in Nat
      /\ BindingsSeen(q, carriers, carrierHost, settlements)
      /\ carriers \in Seq(BindingStates) /\ settlements \in Seq(BindingStates) /\ pool \in Pool
  <2>1. q.pc \in Binding
    BY <1>1, Zenon DEF Binding
  <2> QED
    BY <2>1, BindingNow, Zenon
<1>3. "getCarrierAgain" \in Binding /\ "verifyCarrier" \in Binding
  BY Zenon DEF Binding
<1>4. CASE \E i \in DOMAIN carriers : carriers[i] = "active"
  <2> DEFINE next == [q EXCEPT !.pc = "getCarrierAgain"]
  <2>1. Go(p, next) /\ carriers' = carriers /\ carrierHost' = carrierHost
    BY <1>4, Zenon DEF registerProviderCarrierBinding, To
  <2>2. UNCHANGED <<world, healthy>>
    BY <1>1, <2>1, Zenon DEF world, provider
  <2> HIDE DEF q
  <2>3. /\ next \in Run /\ next.pc = "getCarrierAgain" /\ next.snap = q.snap
        /\ next.topUp = q.topUp /\ next.ready = FALSE /\ next.disturbed = q.disturbed
    BY <1>2, <1>3, BindingPlaces, Zenon DEF Run
  <2> HIDE DEF next
  <2>4. carriers # <<>>
    <3>1. PICK i \in DOMAIN carriers : carriers[i] = "active"
      BY <1>4
    <3> QED
      BY <3>1
  <2>5. ~q.disturbed => Shadows(carriers)
    <3>1. ~q.disturbed => LastOf(carriers) # "active"
      BY <1>1, <1>2, Zenon DEF BindingsSeen
    <3> QED
      BY <1>2, <1>4, <3>1, ActiveShadows, Zenon
  <2>6. BindingsSeen(next, carriers, carrierHost, settlements)
    BY <2>3, <2>5 DEF BindingsSeen
  <2>7. AtRole(next) /\ BindingsKept(next, carriers, settlements)
    BY <1>3, <2>3, <2>4, BindingPlaces DEF AtRole, BindingsKept, Reading
  <2>8. RunHolds(next, accounts, healthy, carriers, carrierHost, settlements, pool, deposit.credited)
    BY <1>2, <1>3, <2>3, <2>6, <2>7, BindingPlaces, HoldsNext, Zenon
  <2>9. MovesWell(p, next)
    BY <2>3, PlainWell, Zenon
  <2> QED
    BY <2>1, <2>2, <2>3, <2>8, <2>9, QuietGo, Zenon
<1>5. CASE ~\E i \in DOMAIN carriers : carriers[i] = "active"
  <2> DEFINE next == [q EXCEPT !.pc = "verifyCarrier", !.n = Len(carriers) + 1]
  <2>1. /\ carriers' = Append(carriers, "pending_verification") /\ carrierHost' = q.host /\ Touch(p, next)
    BY <1>5, Zenon DEF registerProviderCarrierBinding
  <2> HIDE DEF q
  <2>2. /\ carriers' \in Seq(BindingStates) /\ carriers' # <<>> /\ Len(carriers') = Len(carriers) + 1
    <3>1. "pending_verification" \in BindingStates
      BY DEF BindingStates
    <3> QED
      BY <1>2, <2>1, <3>1, StatusAdded, Zenon
  <2>3. Len(carriers) + 1 \in Nat
    BY <1>2
  <2>4. /\ next \in Run /\ next.pc = "verifyCarrier" /\ next.n = Len(carriers) + 1 /\ next.host = q.host
        /\ next.snap = q.snap /\ next.topUp = q.topUp /\ next.ready = FALSE
    BY <1>2, <1>3, <2>3, BindingPlaces, Zenon DEF Run
  <2> HIDE DEF next
  <2>5. BindingsSeen(next, carriers', carrierHost', settlements')
    BY <2>1, <2>2, <2>4, Zenon DEF BindingsSeen
  <2>6. AtRole(next) /\ BindingsKept(next, carriers', settlements')
    BY <1>3, <2>2, <2>4, BindingPlaces, Zenon DEF AtRole, BindingsKept, Reading
  <2>7. RunHolds(next, accounts, healthy, carriers', carrierHost', settlements', pool', deposit.credited)
    BY <1>2, <1>3, <2>4, <2>5, <2>6, BindingPlaces, HoldsNext, Zenon
  <2>8. MovesWell(p, next)
    BY <2>4, PlainWell, Zenon
  <2>9. settlements' \in Seq(BindingStates) /\ pool' \in Pool /\ (settlements # <<>> => settlements' # <<>>)
    BY <1>1, <1>2, Zenon
  <2> QED
    BY <1>1, <2>1, <2>2, <2>4, <2>7, <2>8, <2>9, TouchStep, Zenon
<1> QED
  BY <1>4, <1>5, Zenon

(* The lookup after a refusal. *)
LEMMA GetsCarrierAgain ==
  ASSUME DemoInv, NEW p \in Runs, getCarrierBindingAgain(p)
  PROVE  DemoInv' /\ AllMoveWell
<1> DEFINE q == runs[p]
           next == [q EXCEPT !.pc = "verifyCarrier", !.n = Len(carriers)]
<1>1. q.pc = "getCarrierAgain" /\ UNCHANGED <<world, healthy>> /\ Go(p, next)
  BY Zenon DEF getCarrierBindingAgain, At
<1>2. /\ q \in Run /\ q.ready = FALSE /\ MoneySeen(q, deposit.credited)
      /\ BindingsSeen(q, carriers, carrierHost, settlements) /\ BindingsKept(q, carriers, settlements)
      /\ carriers \in Seq(BindingStates)
  <2>1. q.pc \in Binding
    BY <1>1, Zenon DEF Binding
  <2> QED
    BY <2>1, BindingNow, Zenon
<1> HIDE DEF q
<1>3. "verifyCarrier" \in Binding
  BY Zenon DEF Binding
<1>4. Len(carriers) \in Nat
  BY <1>2
<1>5. /\ next \in Run /\ next.pc = "verifyCarrier" /\ next.n = Len(carriers) /\ next.snap = q.snap
      /\ next.topUp = q.topUp /\ next.ready = FALSE /\ next.disturbed = q.disturbed
  BY <1>2, <1>3, <1>4, BindingPlaces, Zenon DEF Run
<1> HIDE DEF next
<1>6. BindingsSeen(next, carriers, carrierHost, settlements)
  <2>1. ~q.disturbed => Shadows(carriers)
    BY <1>1, <1>2, Zenon DEF BindingsSeen
  <2> QED
    BY <1>5, <2>1, Zenon DEF BindingsSeen
<1>7. AtRole(next) /\ BindingsKept(next, carriers, settlements)
  <2>1. carriers # <<>>
    BY <1>1, <1>2, Zenon DEF BindingsKept
  <2> QED
    BY <1>3, <1>5, <2>1, BindingPlaces, Zenon DEF AtRole, BindingsKept, Reading
<1>8. RunHolds(next, accounts, healthy, carriers, carrierHost, settlements, pool, deposit.credited)
  BY <1>2, <1>3, <1>5, <1>6, <1>7, BindingPlaces, HoldsNext, Zenon
<1>9. MovesWell(p, next)
  BY <1>5, PlainWell, Zenon
<1> QED
  BY <1>1, <1>5, <1>8, <1>9, QuietGo, Zenon

(* verifyProviderCarrierBinding: undisturbed, the run activates the last   *)
(* binding.                                                                *)
LEMMA VerifiesCarrier ==
  ASSUME DemoInv, NEW p \in Runs, verifyProviderCarrierBinding(p)
  PROVE  DemoInv' /\ AllMoveWell
<1> DEFINE q == runs[p]
           next == [q EXCEPT !.pc = "getSettlement", !.host = 0, !.n = 0]
<1>1. /\ q.pc = "verifyCarrier" /\ carriers' = [carriers EXCEPT ![q.n] = "active"] /\ Touch(p, next)
      /\ accounts' = accounts /\ hosts' = hosts /\ carrierHost' = carrierHost
      /\ settlements' = settlements /\ pool' = pool /\ deposit' = deposit /\ healthy' = healthy
  BY Zenon DEF verifyProviderCarrierBinding, At
<1>2. /\ q \in Run /\ q.ready = FALSE /\ MoneySeen(q, deposit.credited) /\ q.n \in Nat
      /\ BindingsSeen(q, carriers, carrierHost, settlements) /\ BindingsKept(q, carriers, settlements)
      /\ carriers \in Seq(BindingStates) /\ settlements \in Seq(BindingStates) /\ pool \in Pool
  <2>1. q.pc \in Binding
    BY <1>1, Zenon DEF Binding
  <2> QED
    BY <2>1, BindingNow, Zenon
<1>3. "getSettlement" \in Binding /\ 0 \in Nat /\ "active" \in BindingStates
  BY DEF Binding, BindingStates
<1>4. carriers # <<>>
  BY <1>1, <1>2, Zenon DEF BindingsKept
<1>5. ~q.disturbed => q.n = Len(carriers) /\ (Shadows(carriers) \/ carrierHost = q.host)
  BY <1>1, <1>2, Zenon DEF BindingsSeen
<1>6. /\ carriers' \in Seq(BindingStates) /\ carriers' # <<>>
      /\ q.n = Len(carriers) => LastOf(carriers') = "active"
  BY <1>1, <1>2, <1>3, <1>4, StatusPut, Zenon
<1> HIDE DEF q
<1>7. /\ next \in Run /\ next.pc = "getSettlement" /\ next.snap = q.snap
      /\ next.topUp = q.topUp /\ next.ready = FALSE /\ next.disturbed = q.disturbed
  BY <1>2, <1>3, BindingPlaces, Zenon DEF Run
<1> HIDE DEF next
<1>8. BindingsSeen(next, carriers', carrierHost', settlements')
  BY <1>7, Zenon DEF BindingsSeen
<1>9. AtRole(next) /\ BindingsKept(next, carriers', settlements')
  BY <1>3, <1>6, <1>7, BindingPlaces, Zenon DEF AtRole, BindingsKept, Reading
<1>10. RunHolds(next, accounts, healthy, carriers', carrierHost', settlements', pool', deposit.credited)
  BY <1>2, <1>3, <1>7, <1>8, <1>9, BindingPlaces, HoldsNext, Zenon
<1>11. MovesWell(p, next)
  BY <1>1, <1>5, <1>6, <1>7, Zenon DEF MovesWell, q
<1>12. settlements' \in Seq(BindingStates) /\ pool' \in Pool /\ (settlements # <<>> => settlements' # <<>>)
  BY <1>1, <1>2, Zenon
<1> QED
  BY <1>1, <1>6, <1>7, <1>10, <1>11, <1>12, TouchStep, Zenon

(* getProviderSettlementBinding. *)
LEMMA GetsSettlement ==
  ASSUME DemoInv, NEW p \in Runs, getProviderSettlementBinding(p)
  PROVE  DemoInv' /\ AllMoveWell
<1> DEFINE q == runs[p]
           place == IF SettlementStatus = "active" THEN "status" ELSE "registerSettlement"
           next == [q EXCEPT !.pc = place]
<1>1. /\ q.pc = "getSettlement" /\ UNCHANGED <<world, healthy>> /\ Go(p, next)
      /\ settlements' = settlements
  BY Zenon DEF getProviderSettlementBinding, At, To, world, provider
<1>2. /\ q \in Run /\ q.ready = FALSE /\ MoneySeen(q, deposit.credited)
      /\ BindingsKept(q, carriers, settlements) /\ settlements \in Seq(BindingStates)
  <2>1. q.pc \in Binding
    BY <1>1, Zenon DEF Binding
  <2> QED
    BY <2>1, BindingNow, Zenon
<1>3. carriers # <<>>
  BY <1>1, <1>2, Zenon DEF BindingsKept
<1>4. /\ place \in {"status", "registerSettlement"}
      /\ place = "status" => LastOf(settlements) = "active" /\ settlements # <<>>
      /\ place = "registerSettlement" => LastOf(settlements) # "active"
  BY <1>2, LastNow, LastState, Zenon
<1>5. place \in Binding \cup {"status"}
  BY <1>4, Zenon DEF Binding
<1> HIDE DEF q, place
<1>6. /\ next \in Run /\ next.pc = place /\ next.snap = q.snap
      /\ next.topUp = q.topUp /\ next.ready = FALSE
  BY <1>2, <1>5, BindingPlaces, Zenon DEF Run
<1> HIDE DEF next
<1>7. BindingsSeen(next, carriers, carrierHost, settlements)
  BY <1>4, <1>6, Zenon DEF BindingsSeen
<1>8. AtRole(next) /\ BindingsKept(next, carriers, settlements)
  <2>1. place \notin Entering /\ place \notin Funding
    BY <1>5, BindingPlaces, Zenon
  <2> QED
    BY <1>3, <1>4, <1>6, <2>1, Zenon DEF AtRole, BindingsKept, Reading
<1>9. RunHolds(next, accounts, healthy, carriers, carrierHost, settlements, pool, deposit.credited)
  BY <1>2, <1>5, <1>6, <1>7, <1>8, BindingPlaces, HoldsNext, Zenon
<1>10. MovesWell(p, next)
  BY <1>1, <1>4, <1>6, Zenon DEF MovesWell
<1> QED
  BY <1>1, <1>6, <1>9, <1>10, QuietGo, Zenon

(* registerProviderSettlementBinding: as for the carrier, but a refusal    *)
(* counts as success.                                                      *)
LEMMA RegistersSettlement ==
  ASSUME DemoInv, NEW p \in Runs, registerProviderSettlementBinding(p)
  PROVE  DemoInv' /\ AllMoveWell
<1> DEFINE q == runs[p]
<1>1. /\ q.pc = "registerSettlement"
      /\ accounts' = accounts /\ hosts' = hosts /\ carriers' = carriers /\ carrierHost' = carrierHost
      /\ pool' = pool /\ deposit' = deposit /\ wallets' = wallets /\ healthy' = healthy
  BY Zenon DEF registerProviderSettlementBinding, At
<1>2. /\ q \in Run /\ q.ready = FALSE /\ MoneySeen(q, deposit.credited)
      /\ BindingsSeen(q, carriers, carrierHost, settlements) /\ BindingsKept(q, carriers, settlements)
      /\ carriers \in Seq(BindingStates) /\ settlements \in Seq(BindingStates) /\ pool \in Pool
  <2>1. q.pc \in Binding
    BY <1>1, Zenon DEF Binding
  <2> QED
    BY <2>1, BindingNow, Zenon
<1>3. "verifySettlement" \in Binding /\ "status" \in Binding \cup {"status"}
  BY Zenon DEF Binding
<1>4. carriers # <<>>
  BY <1>1, <1>2, Zenon DEF BindingsKept
<1>5. CASE \E i \in DOMAIN settlements : settlements[i] = "active"
  <2> DEFINE next == [q EXCEPT !.pc = "status"]
  <2>1. Go(p, next) /\ settlements' = settlements
    BY <1>5, Zenon DEF registerProviderSettlementBinding, To
  <2>2. UNCHANGED <<world, healthy>>
    BY <1>1, <2>1, Zenon DEF world, provider
  <2>3. ~q.disturbed => Shadows(settlements)
    <3>1. ~q.disturbed => LastOf(settlements) # "active"
      BY <1>1, <1>2, Zenon DEF BindingsSeen
    <3> QED
      BY <1>2, <1>5, <3>1, ActiveShadows, Zenon
  <2>4. settlements # <<>>
    <3>1. PICK i \in DOMAIN settlements : settlements[i] = "active"
      BY <1>5
    <3> QED
      BY <3>1
  <2> HIDE DEF q
  <2>5. /\ next \in Run /\ next.pc = "status" /\ next.snap = q.snap
        /\ next.topUp = q.topUp /\ next.ready = FALSE
    BY <1>2, BindingPlaces, Zenon DEF Run
  <2> HIDE DEF next
  <2>6. BindingsSeen(next, carriers, carrierHost, settlements)
    BY <2>5, Zenon DEF BindingsSeen
  <2>7. AtRole(next) /\ BindingsKept(next, carriers, settlements)
    BY <1>3, <1>4, <2>4, <2>5, BindingPlaces, Zenon DEF AtRole, BindingsKept, Reading
  <2>8. RunHolds(next, accounts, healthy, carriers, carrierHost, settlements, pool, deposit.credited)
    BY <1>2, <1>3, <2>5, <2>6, <2>7, BindingPlaces, HoldsNext, Zenon
  <2>9. MovesWell(p, next)
    BY <1>1, <2>3, <2>5, Zenon DEF MovesWell, q
  <2> QED
    BY <2>1, <2>2, <2>5, <2>8, <2>9, QuietGo, Zenon
<1>6. CASE ~\E i \in DOMAIN settlements : settlements[i] = "active"
  <2> DEFINE next == [q EXCEPT !.pc = "verifySettlement", !.n = Len(settlements) + 1]
  <2>1. settlements' = Append(settlements, "pending_verification") /\ Touch(p, next)
    BY <1>6, Zenon DEF registerProviderSettlementBinding
  <2> HIDE DEF q
  <2>2. /\ settlements' \in Seq(BindingStates) /\ settlements' # <<>>
        /\ Len(settlements') = Len(settlements) + 1
    <3>1. "pending_verification" \in BindingStates
      BY DEF BindingStates
    <3> QED
      BY <1>2, <2>1, <3>1, StatusAdded, Zenon
  <2>3. Len(settlements) + 1 \in Nat
    BY <1>2
  <2>4. /\ next \in Run /\ next.pc = "verifySettlement" /\ next.n = Len(settlements) + 1
        /\ next.snap = q.snap /\ next.topUp = q.topUp /\ next.ready = FALSE
    BY <1>2, <1>3, <2>3, BindingPlaces, Zenon DEF Run
  <2> HIDE DEF next
  <2>5. BindingsSeen(next, carriers', carrierHost', settlements')
    BY <2>2, <2>4 DEF BindingsSeen
  <2>6. AtRole(next) /\ BindingsKept(next, carriers', settlements')
    BY <1>1, <1>3, <1>4, <2>2, <2>4, BindingPlaces, Zenon DEF AtRole, BindingsKept, Reading
  <2>7. RunHolds(next, accounts, healthy, carriers', carrierHost', settlements', pool', deposit.credited)
    BY <1>2, <1>3, <2>4, <2>5, <2>6, BindingPlaces, HoldsNext, Zenon
  <2>8. MovesWell(p, next)
    BY <2>4, PlainWell, Zenon
  <2>9. carriers' \in Seq(BindingStates) /\ pool' \in Pool /\ (carriers # <<>> => carriers' # <<>>)
    BY <1>1, <1>2, Zenon
  <2> QED
    BY <1>1, <2>1, <2>2, <2>4, <2>7, <2>8, <2>9, TouchStep, Zenon
<1> QED
  BY <1>5, <1>6, Zenon

(* verifyProviderSettlementBinding. *)
LEMMA VerifiesSettlement ==
  ASSUME DemoInv, NEW p \in Runs, verifyProviderSettlementBinding(p)
  PROVE  DemoInv' /\ AllMoveWell
<1> DEFINE q == runs[p]
           next == [q EXCEPT !.pc = "status", !.n = 0]
<1>1. /\ q.pc = "verifySettlement" /\ settlements' = [settlements EXCEPT ![q.n] = "active"] /\ Touch(p, next)
      /\ pool' = [status |-> "healthy", total |-> 0, reserved |-> 0]
      /\ accounts' = accounts /\ hosts' = hosts /\ carriers' = carriers /\ carrierHost' = carrierHost
      /\ deposit' = deposit /\ healthy' = healthy
  BY Zenon DEF verifyProviderSettlementBinding, At
<1>2. /\ q \in Run /\ q.ready = FALSE /\ MoneySeen(q, deposit.credited) /\ q.n \in Nat
      /\ BindingsSeen(q, carriers, carrierHost, settlements) /\ BindingsKept(q, carriers, settlements)
      /\ carriers \in Seq(BindingStates) /\ settlements \in Seq(BindingStates)
  <2>1. q.pc \in Binding
    BY <1>1, Zenon DEF Binding
  <2> QED
    BY <2>1, BindingNow, Zenon
<1>3. 0 \in Nat /\ "active" \in BindingStates
  BY DEF BindingStates
<1>4. carriers # <<>> /\ settlements # <<>>
  BY <1>1, <1>2, Zenon DEF BindingsKept
<1>5. ~q.disturbed => q.n = Len(settlements)
  BY <1>1, <1>2, Zenon DEF BindingsSeen
<1>6. /\ settlements' \in Seq(BindingStates) /\ settlements' # <<>>
      /\ q.n = Len(settlements) => LastOf(settlements') = "active"
  BY <1>1, <1>2, <1>3, <1>4, StatusPut, Zenon
<1>7. pool' \in Pool
  <2>1. "healthy" \in PoolStates
    BY Zenon DEF PoolStates
  <2> QED
    BY <1>1, <1>3, <2>1, Zenon DEF Pool
<1> HIDE DEF q
<1>8. /\ next \in Run /\ next.pc = "status" /\ next.snap = q.snap
      /\ next.topUp = q.topUp /\ next.ready = FALSE
  BY <1>2, <1>3, BindingPlaces, Zenon DEF Run
<1> HIDE DEF next
<1>9. BindingsSeen(next, carriers', carrierHost', settlements')
  BY <1>8, Zenon DEF BindingsSeen
<1>10. AtRole(next) /\ BindingsKept(next, carriers', settlements')
  <2>1. "status" \notin Entering /\ "status" \notin Funding
    BY BindingPlaces, Zenon
  <2> QED
    BY <1>1, <1>4, <1>6, <1>8, <2>1, Zenon DEF AtRole, BindingsKept, Reading
<1>11. RunHolds(next, accounts, healthy, carriers', carrierHost', settlements', pool', deposit.credited)
  BY <1>2, <1>8, <1>9, <1>10, BindingPlaces, HoldsNext, Zenon
<1>12. MovesWell(p, next)
  BY <1>1, <1>5, <1>6, <1>8, Zenon DEF MovesWell, q
<1>13. carriers' \in Seq(BindingStates) /\ (carriers # <<>> => carriers' # <<>>)
  BY <1>1, <1>2, Zenon
<1> QED
  BY <1>1, <1>6, <1>7, <1>8, <1>11, <1>12, <1>13, TouchStep, Zenon

-----------------------------------------------------------------------------
(* A run reads the services, the actors and the buyer's balance. *)
LEMMA HoldsReading ==
  ASSUME DemoInv, NEW p \in Runs, runs[p].pc = "status", NEW snap \in Snap, snap.settled <= deposit.credited,
         snap.healthy => healthy /\ accounts = Roles, UNCHANGED <<world, healthy>>,
         NEW next, Go(p, next),
         next = [runs[p] EXCEPT !.pc = "statusProvider", !.disturbed = FALSE, !.snap = snap]
  PROVE  DemoInv' /\ AllMoveWell
<1> DEFINE q == runs[p]
<1>1. q \in Run /\ q.ready = FALSE /\ MoneySeen(q, deposit.credited) /\ BindingsKept(q, carriers, settlements)
  BY RunNow, RunFields, Zenon DEF RunHolds, MoneySeen
<1>2. next = [q EXCEPT !.pc = "statusProvider", !.disturbed = FALSE, !.snap = snap]
  BY Zenon
<1>3. "statusProvider" \in Places /\ FALSE \in BOOLEAN
  BY Zenon DEF Places, Reading
<1>4. q.pc = "status"
  OBVIOUS
<1> HIDE DEF q
<1>5. /\ next \in Run /\ next.pc = "statusProvider" /\ next.snap = snap /\ next.mutate = q.mutate
      /\ next.topUp = q.topUp /\ next.ready = FALSE
  BY <1>1, <1>2, <1>3, Zenon DEF Run
<1>6. MoneySeen(next, deposit.credited)
  BY <1>1, <1>5, Zenon DEF MoneySeen
<1>7. AtRole(next) /\ BindingsSeen(next, carriers, carrierHost, settlements)
  BY <1>5, Zenon DEF AtRole, Entering, BindingsSeen
<1>8. BindingsKept(next, carriers, settlements)
  BY <1>1, <1>4, <1>5, Zenon DEF BindingsKept, Reading, Funding
<1>9. StatusSeen(next, accounts, healthy, carriers, settlements, pool)
  BY <1>5, Zenon DEF StatusSeen, Funding
<1>10. RunHolds(next, accounts, healthy, carriers, carrierHost, settlements, pool, deposit.credited)
  BY <1>6, <1>7, <1>8, <1>9, Zenon DEF RunHolds
<1>11. MovesWell(p, next)
  BY <1>5, PlainWell, Zenon
<1> QED
  BY <1>5, <1>10, <1>11, QuietGo, Zenon

(* The deposit is made of numbers. *)
LEMMA CreditedNow ==
  ASSUME DemoInv
  PROVE  deposit.credited \in Nat /\ deposit.pending \in Nat /\ deposit.confirmed \in Nat /\ deposit \in Deposit
BY Zenon DEF DemoInv, DemoTypes, Deposit

(* buildDemoStatus, with and without the funding records. *)
LEMMA BuildsStatus ==
  ASSUME DemoInv, NEW p \in Runs, buildDemoStatus(p) \/ buildDemoStatusWithoutRecords(p)
  PROVE  DemoInv' /\ AllMoveWell
<1>1. deposit.credited \in Nat /\ deposit.credited <= deposit.credited /\ 0 \in Nat /\ 0 <= deposit.credited
  BY CreditedNow
<1> DEFINE sees == healthy /\ accounts = Roles
<1>2. sees \in BOOLEAN /\ (sees => healthy /\ accounts = Roles)
  BY Zenon
<1>3. CASE buildDemoStatus(p)
  <2> DEFINE snap == [NoSnap EXCEPT !.healthy = sees, !.settled = deposit.credited]
             next == [runs[p] EXCEPT !.pc = "statusProvider", !.disturbed = FALSE, !.snap = snap]
  <2>1. runs[p].pc = "status" /\ Go(p, next) /\ UNCHANGED <<world, healthy>>
    BY <1>3, Zenon DEF buildDemoStatus, At
  <2> HIDE DEF sees
  <2>2. snap \in Snap /\ snap.settled = deposit.credited /\ snap.healthy = sees
    BY <1>1, <1>2, NewRun, Zenon DEF Snap
  <2> HIDE DEF snap
  <2> QED
    BY <1>1, <1>2, <2>1, <2>2, HoldsReading, Zenon
<1>4. CASE buildDemoStatusWithoutRecords(p)
  <2> DEFINE snap == [NoSnap EXCEPT !.healthy = sees]
             next == [runs[p] EXCEPT !.pc = "statusProvider", !.disturbed = FALSE, !.snap = snap]
  <2>1. runs[p].pc = "status" /\ Go(p, next) /\ UNCHANGED <<world, healthy>>
    BY <1>4, Zenon DEF buildDemoStatusWithoutRecords, At
  <2> HIDE DEF sees
  <2>2. snap \in Snap /\ snap.settled = 0 /\ snap.healthy = sees
    BY <1>2, NewRun, Zenon DEF Snap
  <2> HIDE DEF snap
  <2> QED
    BY <1>1, <1>2, <2>1, <2>2, HoldsReading, Zenon
<1> QED
  BY <1>3, <1>4, Zenon

(* The status run p reads, in two parts. *)
StatusOf(p) == [StatusNow EXCEPT !.healthy = runs[p].snap.healthy, !.settled = runs[p].snap.settled]

(* What the status handler would answer now. *)
LEMMA StatusNowFields ==
  ASSUME DemoInv
  PROVE  /\ StatusNow \in Snap
         /\ StatusNow.carrier = LastOf(carriers) /\ StatusNow.settlement = LastOf(settlements)
         /\ StatusNow.pool = pool.status /\ StatusNow.available = Available(pool)
         /\ StatusNow.settled = deposit.credited
         /\ healthy /\ accounts = Roles => StatusNow.healthy
<1>1. /\ carriers \in Seq(BindingStates) /\ settlements \in Seq(BindingStates) /\ pool \in Pool
  BY Zenon DEF DemoInv, DemoTypes
<1>2. LastOf(carriers) \in BindingStates \cup {""} /\ LastOf(settlements) \in BindingStates \cup {""}
  BY <1>1, LastState, Zenon
<1>3. pool.status \in PoolStates /\ Available(pool) \in Nat
  BY <1>1, AvailableInPool, Zenon DEF Pool
<1> DEFINE sees == healthy /\ accounts = Roles
<1>4. sees \in BOOLEAN /\ (healthy /\ accounts = Roles => sees)
  BY Zenon
<1>5. StatusNow = [healthy |-> sees, settled |-> deposit.credited, carrier |-> LastOf(carriers),
                   settlement |-> LastOf(settlements), pool |-> pool.status, available |-> Available(pool)]
  BY LastNow, Zenon DEF StatusNow
<1> HIDE DEF sees
<1> QED
  BY <1>2, <1>3, <1>4, <1>5, CreditedNow, Zenon DEF Snap

(* What the run reads. *)
LEMMA StatusOfFields ==
  ASSUME DemoInv, NEW p \in Runs
  PROVE  /\ StatusOf(p) \in Snap
         /\ StatusOf(p).carrier = LastOf(carriers) /\ StatusOf(p).settlement = LastOf(settlements)
         /\ StatusOf(p).pool = pool.status /\ StatusOf(p).available = Available(pool)
         /\ StatusOf(p).settled = runs[p].snap.settled /\ StatusOf(p).healthy = runs[p].snap.healthy
<1>1. runs[p].snap.settled \in Nat /\ runs[p].snap.healthy \in BOOLEAN
  BY RunNow, RunFields, SnapFields, Zenon
<1> DEFINE now == StatusNow
<1>2. /\ now \in Snap
      /\ now.carrier = LastOf(carriers) /\ now.settlement = LastOf(settlements)
      /\ now.pool = pool.status /\ now.available = Available(pool)
  BY StatusNowFields, Zenon
<1>3. StatusOf(p) = [now EXCEPT !.healthy = runs[p].snap.healthy, !.settled = runs[p].snap.settled]
  BY Zenon DEF StatusOf
<1> HIDE DEF now
<1> QED
  BY <1>1, <1>2, <1>3, Zenon DEF Snap

(* loadProviderSettlementStatus: a run that only verifies returns, another *)
(* goes on with what it has read.                                          *)
LEMMA LoadsStatus ==
  ASSUME DemoInv, NEW p \in Runs, loadProviderSettlementStatus(p)
  PROVE  DemoInv' /\ AllMoveWell
<1> DEFINE q == runs[p]
           snap == StatusOf(p)
<1>1. /\ q.pc = "statusProvider"
      /\ IF q.mutate THEN Go(p, AfterStatus(p, snap)) /\ UNCHANGED <<world, healthy>>
                     ELSE Return(p, FinalizeStatus(snap))
  BY Zenon DEF loadProviderSettlementStatus, At, StatusOf
<1>2. /\ q \in Run /\ q.ready = FALSE /\ MoneySeen(q, deposit.credited)
      /\ BindingsKept(q, carriers, settlements)
      /\ StatusSeen(q, accounts, healthy, carriers, settlements, pool)
  BY <1>1, RunNow, RunFields, Zenon DEF RunHolds, MoneySeen
<1>3. /\ snap \in Snap
      /\ snap.carrier = LastOf(carriers) /\ snap.settlement = LastOf(settlements)
      /\ snap.pool = pool.status /\ snap.available = Available(pool)
      /\ snap.settled = q.snap.settled /\ snap.healthy = q.snap.healthy
  BY StatusOfFields, Zenon
<1>4. CASE ~q.mutate
  <2> DEFINE ready == FinalizeStatus(snap) = "ready"
  <2>1. Go(p, Returned(ready)) /\ UNCHANGED <<world, healthy>> /\ ready \in BOOLEAN
    BY <1>1, <1>4, Zenon DEF Return
  <2>2. ready => deposit.credited >= MinBuyerBalanceCents
    <3>1. ASSUME ready PROVE BuyerMeets(snap)
      <4>1. "blocked" # "ready"
        OBVIOUS
      <4> QED
        BY <3>1, <4>1, Zenon DEF FinalizeStatus
    <3>2. snap.settled \in Nat /\ snap.settled <= deposit.credited /\ deposit.credited \in Nat
      BY <1>2, <1>3, SnapFields, CreditedNow, Zenon DEF MoneySeen
    <3>3. BuyerMeets(snap) => deposit.credited >= MinBuyerBalanceCents
      <4> HIDE DEF snap
      <4> QED
        BY <3>2, DemoNumbers DEF BuyerMeets
    <3> QED
      BY <3>1, <3>3, Zenon
  <2>3. runs[p].pc # "report"
    BY <1>1, Zenon
  <2> HIDE DEF ready
  <2> QED
    BY <2>1, <2>2, <2>3, ReturnStep, Zenon
<1>5. CASE q.mutate
  <2> DEFINE next == AfterStatus(p, snap)
             place == IF ProviderMeets(snap) /\ BuyerMeets(snap) THEN "report" ELSE "fund"
             seen == IF ProviderMeets(snap) THEN snap ELSE [snap EXCEPT !.pool = "", !.available = 0]
  <2>1. next = [q EXCEPT !.pc = place, !.n = 1, !.snap = seen]
    BY Zenon DEF AfterStatus
  <2>2. Go(p, next) /\ UNCHANGED <<world, healthy>>
    BY <1>1, <1>5, Zenon
  <2>3. carriers # <<>> /\ settlements # <<>>
    BY <1>1, <1>2, <1>5, Zenon DEF BindingsKept, Reading
  <2>4. ~q.disturbed => (q.snap.healthy => healthy /\ accounts = Roles)
    BY <1>1, <1>2, Zenon DEF StatusSeen
  <2> HIDE DEF q, snap
  <2>5. /\ seen \in Snap /\ seen.carrier = LastOf(carriers) /\ seen.settlement = LastOf(settlements)
        /\ seen.settled = q.snap.settled /\ seen.healthy = q.snap.healthy
        /\ ProviderMeets(seen) \/ place = "report" => seen.pool = pool.status /\ seen.available = Available(pool)
    <3>1. CASE ProviderMeets(snap)
      BY <1>3, <3>1, Zenon
    <3>2. CASE ~ProviderMeets(snap)
      <4> DEFINE blank == [snap EXCEPT !.pool = "", !.available = 0]
      <4>1. seen = blank /\ place = "fund"
        BY <3>2, Zenon
      <4>2. "" \in PoolStates
        BY Zenon DEF PoolStates
      <4>3. 0 \in Nat
        OBVIOUS
      <4>4. /\ blank \in Snap /\ blank.carrier = snap.carrier /\ blank.settlement = snap.settlement
            /\ blank.settled = snap.settled /\ blank.healthy = snap.healthy /\ blank.pool = ""
        BY <1>3, <4>2, <4>3, Zenon DEF Snap
      <4> HIDE DEF blank, seen, place
      <4>5. ~ProviderMeets(seen) /\ place # "report"
        BY <4>1, <4>4, Zenon DEF ProviderMeets
      <4> QED
        BY <1>3, <4>1, <4>4, <4>5, Zenon
    <3> QED
      BY <3>1, <3>2, Zenon
  <2>6. place \in {"report", "fund"}
    BY Zenon
  <2>7. place \in Places /\ place \in Funding
    BY <2>6, Zenon DEF Places, Funding
  <2>8. 1 \in Nat
    OBVIOUS
  <2> HIDE DEF seen, place
  <2>9. /\ next \in Run /\ next.pc = place /\ next.snap = seen
        /\ next.topUp = q.topUp /\ next.ready = FALSE /\ next.disturbed = q.disturbed
    BY <1>2, <2>1, <2>5, <2>7, <2>8, Zenon DEF Run
  <2> HIDE DEF next
  <2>10. MoneySeen(next, deposit.credited)
    <3>1. next.pc # "record"
      BY <2>6, <2>9, Zenon
    <3> QED
      BY <1>2, <2>5, <2>9, <3>1, Zenon DEF MoneySeen
  <2>11. AtRole(next) /\ BindingsSeen(next, carriers, carrierHost, settlements)
    BY <2>6, <2>9, Zenon DEF AtRole, Entering, BindingsSeen
  <2>12. BindingsKept(next, carriers, settlements)
    BY <2>3, Zenon DEF BindingsKept
  <2>13. StatusSeen(next, accounts, healthy, carriers, settlements, pool)
    BY <2>4, <2>5, <2>9, Zenon DEF StatusSeen
  <2>14. RunHolds(next, accounts, healthy, carriers, carrierHost, settlements, pool, deposit.credited)
    BY <2>10, <2>11, <2>12, <2>13, Zenon DEF RunHolds
  <2>15. MovesWell(p, next)
    <3>1. next.pc \notin {"getSettlement", "status"}
      BY <2>6, <2>9, Zenon
    <3> QED
      BY <2>9, <3>1, PlainWell, Zenon
  <2> QED
    BY <2>2, <2>9, <2>14, <2>15, QuietGo, Zenon
<1> QED
  BY <1>4, <1>5, Zenon

-----------------------------------------------------------------------------
(* A run that funds is not elsewhere. *)
LEMMA FundingPlaces ==
  /\ Funding \subseteq Places
  /\ \A x \in Funding : x \notin {"getSettlement", "status", "returned"}
BY Zenon DEF Places, Funding

(* Such a run has not returned. *)
LEMMA FundingNow ==
  ASSUME DemoInv, NEW p \in Runs, runs[p].pc \in Funding
  PROVE  runs[p] \in Run /\ runs[p].ready = FALSE /\ runs[p].n \in Nat /\ runs[p].tries \in Nat
<1>1. runs[p].pc # "returned"
  BY FundingPlaces, Zenon
<1> QED
  BY <1>1, RunNow, RunFields, Zenon DEF RunHolds, MoneySeen

(* A run goes on; money may have come with its step. *)
LEMMA FundingStep ==
  ASSUME DemoInv, NEW p \in Runs, runs[p].pc \in Funding, NEW next \in Run, Go(p, next),
         UNCHANGED <<accounts, hosts, provider, healthy>>,
         deposit' \in Deposit, deposit.credited <= deposit'.credited,
         next.pc \in Funding, next.snap = runs[p].snap, next.disturbed = runs[p].disturbed,
         next.ready = FALSE, next.pc = "report" => ProviderMeets(runs[p].snap),
         next.topUp # runs[p].topUp \/ next.pc = "record" => deposit.credited >= BuyerTopUpAmount
  PROVE  DemoInv' /\ AllMoveWell
<1>1. RunHolds(runs[p], accounts, healthy, carriers, carrierHost, settlements, pool, deposit.credited)
  BY RunNow, Zenon
<1>2. RunHolds(next, accounts, healthy, carriers, carrierHost, settlements, pool, deposit.credited)
  BY <1>1, HoldsFunding, Zenon
<1>3. /\ accounts \in SUBSET Roles /\ accounts \subseteq accounts /\ hosts \in Nat
      /\ deposit.credited \in Nat /\ deposit'.credited \in Nat
  BY Zenon DEF DemoInv, DemoTypes, Deposit
<1>4. RunHolds(next, accounts, healthy, carriers, carrierHost, settlements, pool, deposit'.credited)
  BY ONLY <1>2, <1>3, next \in Run, deposit.credited <= deposit'.credited, HoldsOn, Zenon
<1>5. accounts' = accounts /\ hosts' = hosts /\ UNCHANGED provider /\ healthy' = healthy
  BY Zenon
<1>6. /\ accounts' \in SUBSET Roles /\ accounts \subseteq accounts' /\ hosts' \in Nat
      /\ RunHolds(next, accounts', healthy, carriers, carrierHost, settlements, pool, deposit'.credited)
  BY <1>3, <1>4, <1>5, Zenon
<1>7. MovesWell(p, next)
  BY FundingPlaces, PlainWell, Zenon
<1> QED
  BY <1>5, <1>6, <1>7, GoStep, Zenon

(* A run goes on, and nothing else changes. *)
LEMMA FundingGo ==
  ASSUME DemoInv, NEW p \in Runs, runs[p].pc \in Funding, NEW next \in Run, Go(p, next),
         UNCHANGED <<world, healthy>>,
         next.pc \in Funding, next.snap = runs[p].snap, next.disturbed = runs[p].disturbed,
         next.ready = FALSE, next.pc = "report" => ProviderMeets(runs[p].snap),
         next.topUp # runs[p].topUp \/ next.pc = "record" => deposit.credited >= BuyerTopUpAmount
  PROVE  DemoInv' /\ AllMoveWell
<1>1. UNCHANGED <<accounts, hosts, provider, healthy>> /\ deposit' = deposit
  BY Zenon DEF world
<1>2. deposit' \in Deposit /\ deposit.credited <= deposit'.credited
  BY <1>1, CreditedNow
<1> QED
  BY <1>1, <1>2, FundingStep, Zenon

(* It only goes to another place. *)
LEMMA FundingTo ==
  ASSUME DemoInv, NEW p \in Runs, runs[p].pc \in Funding, NEW place \in Funding \ {"record"},
         place = "report" => ProviderMeets(runs[p].snap), Go(p, To(p, place)), UNCHANGED <<world, healthy>>
  PROVE  DemoInv' /\ AllMoveWell
<1> DEFINE q == runs[p]
           next == [q EXCEPT !.pc = place]
<1>1. q \in Run /\ q.ready = FALSE /\ Go(p, next)
  BY FundingNow, Zenon DEF To
<1> HIDE DEF q
<1>2. /\ next \in Run /\ next.pc = place /\ next.snap = q.snap /\ next.disturbed = q.disturbed
      /\ next.ready = FALSE /\ next.topUp = q.topUp
  BY <1>1, FundingPlaces, Zenon DEF Run
<1> HIDE DEF next
<1>3. next.pc \in Funding /\ next.pc # "record"
  BY <1>2, Zenon
<1> QED
  BY <1>1, <1>2, <1>3, FundingGo, Zenon DEF q

(* It goes to another place with other numbers. *)
LEMMA FundingCounts ==
  ASSUME DemoInv, NEW p \in Runs, runs[p].pc \in Funding,
         NEW place \in Funding \ {"report"}, place = "record" => deposit.credited >= BuyerTopUpAmount,
         NEW n \in Nat, NEW tries \in Nat,
         \/ Go(p, [runs[p] EXCEPT !.pc = place, !.n = n, !.tries = tries])
         \/ Go(p, [runs[p] EXCEPT !.pc = place, !.tries = tries])
         \/ Go(p, [runs[p] EXCEPT !.pc = place, !.n = n]),
         UNCHANGED <<world, healthy>>
  PROVE  DemoInv' /\ AllMoveWell
<1> DEFINE q == runs[p]
<1>1. q \in Run /\ q.ready = FALSE
  BY FundingNow, Zenon
<1>2. PICK next : /\ Go(p, next)
                  /\ next \in { [q EXCEPT !.pc = place, !.n = n, !.tries = tries],
                                [q EXCEPT !.pc = place, !.tries = tries], [q EXCEPT !.pc = place, !.n = n] }
  BY Zenon
<1> HIDE DEF q
<1>3. /\ next \in Run /\ next.pc = place /\ next.snap = q.snap /\ next.disturbed = q.disturbed
      /\ next.ready = FALSE /\ next.topUp = q.topUp
  <2>1. place \in Places
    BY FundingPlaces, Zenon
  <2>2. CASE next = [q EXCEPT !.pc = place, !.n = n, !.tries = tries]
    BY <1>1, <2>1, <2>2, Zenon DEF Run
  <2>3. CASE next = [q EXCEPT !.pc = place, !.tries = tries]
    BY <1>1, <2>1, <2>3, Zenon DEF Run
  <2>4. CASE next = [q EXCEPT !.pc = place, !.n = n]
    BY <1>1, <2>1, <2>4, Zenon DEF Run
  <2> QED
    BY <1>2, <2>2, <2>3, <2>4, Zenon
<1>4. next.pc \in Funding /\ next.pc # "report" /\ (next.pc = "record" => deposit.credited >= BuyerTopUpAmount)
  BY <1>3, Zenon
<1> QED
  BY <1>2, <1>3, <1>4, FundingGo, Zenon DEF q

(* The next wallet, or the next stage. *)
LEMMA NextWalletStep ==
  ASSUME DemoInv, NEW p \in Runs, runs[p].pc \in Funding, Go(p, NextWallet(p)), UNCHANGED <<world, healthy>>
  PROVE  DemoInv' /\ AllMoveWell
<1> DEFINE q == runs[p]
           place == IF BuyerMeets(q.snap) THEN "warm" ELSE "topup"
<1>1. 0 \in Nat /\ q.n + 1 \in Nat
  <2>1. q.n \in Nat
    BY FundingNow, Zenon
  <2> QED
    BY ONLY <2>1
<1>2. CASE q.n < Len(WalletOrder)
  <2>1. Go(p, [runs[p] EXCEPT !.pc = "fund", !.n = q.n + 1, !.tries = 0])
    BY <1>2, Zenon DEF NextWallet
  <2>2. "fund" \in Funding \ {"report"} /\ "fund" # "record"
    BY Zenon DEF Funding
  <2> QED
    BY <1>1, <2>1, <2>2, FundingCounts, Zenon
<1>3. CASE ~(q.n < Len(WalletOrder))
  <2>1. Go(p, [runs[p] EXCEPT !.pc = place, !.n = 0, !.tries = 0])
    BY <1>3, Zenon DEF NextWallet
  <2>2. place \in Funding \ {"report"} /\ place # "record"
    BY Zenon DEF Funding
  <2> HIDE DEF place
  <2> QED
    BY <1>1, <2>1, <2>2, FundingCounts, Zenon
<1> QED
  BY <1>2, <1>3, Zenon

(* Funding the nodes' wallets. *)
LEMMA FundsWallets ==
  ASSUME DemoInv, NEW p \in Runs,
         \/ QueryBalance(p) \/ requestFaucet(p) \/ requestFaucetRefused(p)
         \/ waitForBalanceThreshold(p) \/ waitForBalanceTimeout(p)
  PROVE  DemoInv' /\ AllMoveWell
<1>1. {"fund", "ask", "await"} \subseteq Funding \ {"record", "report"} /\ "ask" # "record" /\ "error" # "ready"
      /\ "await" # "report" /\ "ask" # "report"
  BY Zenon DEF Funding
<1>2. CASE QueryBalance(p)
  <2>1. runs[p].pc \in Funding /\ UNCHANGED <<world, healthy>>
    BY <1>1, <1>2, Zenon DEF QueryBalance, At
  <2>2. Go(p, NextWallet(p)) \/ Go(p, To(p, "ask"))
    BY <1>2, Zenon DEF QueryBalance
  <2> QED
    BY <1>1, <2>1, <2>2, NextWalletStep, FundingTo, Zenon
<1>3. CASE requestFaucet(p)
  <2>1. runs[p].pc \in Funding /\ UNCHANGED <<world, healthy>> /\ Go(p, To(p, "await"))
    BY <1>1, <1>3, Zenon DEF requestFaucet, At
  <2> QED
    BY <1>1, <2>1, FundingTo, Zenon
<1>4. CASE requestFaucetRefused(p)
  <2>1. runs[p].pc = "ask" /\ runs[p].pc \in Funding
    BY <1>1, <1>4, Zenon DEF requestFaucetRefused, At
  <2>2. CASE Return(p, "error")
    BY <1>1, <2>2, GivesUp, Zenon
  <2>3. CASE Go(p, [runs[p] EXCEPT !.tries = runs[p].tries + 1]) /\ UNCHANGED <<world, healthy>>
    <3> DEFINE q == runs[p]
               next == [q EXCEPT !.tries = q.tries + 1]
    <3>1. q \in Run /\ q.ready = FALSE /\ q.tries \in Nat
      BY <2>1, FundingNow, Zenon
    <3>2. q.tries + 1 \in Nat
      BY <3>1
    <3>3. q.pc = "ask" /\ q.pc \in Funding
      BY <2>1, Zenon
    <3> HIDE DEF q
    <3>4. /\ next \in Run /\ next.pc = q.pc /\ next.snap = q.snap /\ next.disturbed = q.disturbed
          /\ next.ready = FALSE /\ next.topUp = q.topUp
      BY <3>1, <3>2, Zenon DEF Run
    <3>5. Go(p, next)
      BY <2>3, Zenon DEF q
    <3> HIDE DEF next
    <3> QED
      BY <1>1, <2>3, <3>3, <3>4, <3>5, FundingGo, Zenon DEF q
  <2> QED
    BY <1>4, <2>2, <2>3, Zenon DEF requestFaucetRefused
<1>5. CASE waitForBalanceThreshold(p)
  <2>1. runs[p].pc \in Funding /\ UNCHANGED <<world, healthy>> /\ Go(p, NextWallet(p))
    BY <1>1, <1>5, Zenon DEF waitForBalanceThreshold, At
  <2> QED
    BY <2>1, NextWalletStep, Zenon
<1>6. CASE waitForBalanceTimeout(p)
  <2>1. runs[p].pc \in Funding
    BY <1>1, <1>6, Zenon DEF waitForBalanceTimeout, At
  <2>2. CASE Return(p, "error")
    BY <1>1, <2>2, GivesUp, Zenon
  <2>3. CASE Go(p, [runs[p] EXCEPT !.pc = "ask", !.tries = NextRound(p)]) /\ UNCHANGED <<world, healthy>>
    <3>1. NextRound(p) \in Nat
      <4>1. runs[p].tries \in Nat
        BY <2>1, FundingNow, Zenon
      <4>2. runs[p].tries \div demoUSDIFaucetRequestAttempts \in Nat
        BY <4>1, DemoNumbers
      <4> QED
        BY <4>2, DemoNumbers DEF NextRound
    <3>2. 0 \in Nat
      OBVIOUS
    <3> QED
      BY <1>1, <2>1, <2>3, <3>1, <3>2, FundingCounts, Zenon
  <2> QED
    BY <1>6, <2>2, <2>3, Zenon DEF waitForBalanceTimeout
<1> QED
  BY <1>2, <1>3, <1>4, <1>5, <1>6, Zenon

-----------------------------------------------------------------------------
(* createBuyerTopUp, getBuyerDepositSummary: the run goes on to the record *)
(* only when the top-up is credited.                                       *)
LEMMA LooksAtDeposit ==
  ASSUME DemoInv, NEW p \in Runs, createBuyerTopUp(p) \/ getBuyerDepositSummary(p)
  PROVE  DemoInv' /\ AllMoveWell
<1>1. /\ {"topup", "summary"} \subseteq Funding
      /\ {"summary", "claim", "sync", "deadline"} \subseteq Funding \ {"record"}
      /\ "report" \notin {"summary", "claim", "sync", "deadline"} /\ "record" \in Funding \ {"report"}
  BY Zenon DEF Funding
<1>2. runs[p].pc \in Funding /\ UNCHANGED <<world, healthy>>
  BY <1>1, Zenon DEF createBuyerTopUp, getBuyerDepositSummary, At
<1>3. CASE createBuyerTopUp(p)
  <2>1. Go(p, To(p, "summary"))
    BY <1>3, Zenon DEF createBuyerTopUp
  <2> QED
    BY <1>1, <1>2, <2>1, FundingTo, Zenon
<1>4. CASE getBuyerDepositSummary(p)
  <2>1. CASE deposit.credited >= BuyerTopUpAmount
    <3>1. Go(p, [runs[p] EXCEPT !.pc = "record", !.tries = 0])
      BY <1>4, <2>1, Zenon DEF getBuyerDepositSummary
    <3>2. 0 \in Nat
      OBVIOUS
    <3> QED
      BY <1>1, <1>2, <2>1, <3>1, <3>2, FundingCounts, Zenon
  <2>2. CASE ~(deposit.credited >= BuyerTopUpAmount)
    <3>1. \/ Go(p, To(p, "claim")) \/ Go(p, To(p, "sync")) \/ Go(p, To(p, "deadline"))
      BY <1>4, <2>2, Zenon DEF getBuyerDepositSummary
    <3> QED
      BY <1>1, <1>2, <3>1, FundingTo, Zenon
  <2> QED
    BY <2>1, <2>2, Zenon
<1> QED
  BY <1>3, <1>4, Zenon

(* requestUSDIFaucet. *)
LEMMA ClaimsFaucet ==
  ASSUME DemoInv, NEW p \in Runs, NEW answer, requestUSDIFaucet(p, answer)
  PROVE  DemoInv' /\ AllMoveWell
<1> DEFINE q == runs[p]
           next == IF answer = "refused" THEN [q EXCEPT !.pc = "deadline"]
                   ELSE [q EXCEPT !.pc = "extended", !.tries = q.tries + 1]
           pays == IF answer = "paid" THEN FaucetPays ELSE 0
<1>1. /\ {"claim", "deadline", "extended"} \subseteq Funding
      /\ "report" \notin {"deadline", "extended"} /\ "record" \notin {"deadline", "extended"}
  BY Zenon DEF Funding
<1>2. q.pc \in Funding /\ UNCHANGED <<accounts, hosts, provider, healthy>>
  BY <1>1, Zenon DEF requestUSDIFaucet, At
<1>3. Go(p, next)
  BY Zenon DEF requestUSDIFaucet, To
<1>4. deposit' = [deposit EXCEPT !.pending = deposit.pending + pays]
  BY Zenon DEF requestUSDIFaucet
<1>5. deposit' \in Deposit /\ deposit.credited <= deposit'.credited
  <2>1. pays \in Nat
    BY DemoNumbers
  <2> HIDE DEF pays
  <2>2. deposit.pending + pays \in Nat /\ deposit.credited <= deposit.credited
    BY <2>1, CreditedNow
  <2>3. deposit' \in Deposit /\ deposit'.credited = deposit.credited
    BY <1>4, <2>2, CreditedNow, Zenon DEF Deposit
  <2> QED
    BY <2>2, <2>3, Zenon
<1>6. q \in Run /\ q.ready = FALSE /\ q.tries \in Nat
  BY <1>2, FundingNow, Zenon
<1> HIDE DEF q
<1>7. q.tries + 1 \in Nat
  BY ONLY <1>6
<1>8. /\ next \in Run /\ next.pc \in {"deadline", "extended"} /\ next.snap = q.snap
      /\ next.disturbed = q.disturbed /\ next.ready = FALSE /\ next.topUp = q.topUp
  <2>1. "deadline" \in Places /\ "extended" \in Places
    BY <1>1, FundingPlaces, Zenon
  <2>2. CASE answer = "refused"
    <3>1. next = [q EXCEPT !.pc = "deadline"]
      BY <2>2, Zenon
    <3> HIDE DEF next
    <3> QED
      BY <1>6, <2>1, <3>1, Zenon DEF Run
  <2>3. CASE answer # "refused"
    <3>1. next = [q EXCEPT !.pc = "extended", !.tries = q.tries + 1]
      BY <2>3, Zenon
    <3> HIDE DEF next
    <3> QED
      BY <1>6, <1>7, <2>1, <3>1, Zenon DEF Run
  <2> QED
    BY <2>2, <2>3, Zenon
<1> HIDE DEF next
<1>9. next.pc \in Funding /\ next.pc # "report" /\ next.pc # "record"
  BY <1>1, <1>8, Zenon
<1> QED
  BY <1>2, <1>3, <1>5, <1>8, <1>9, FundingStep, Zenon DEF q

(* A sweep adds to what is credited. *)
LEMMA SweepCredits ==
  ASSUME DemoInv
  PROVE  Swept \in Deposit /\ deposit.credited <= Swept.credited
<1>1. deposit.credited + deposit.confirmed \in Nat /\ deposit.credited <= deposit.credited + deposit.confirmed
      /\ 0 \in Nat
  BY CreditedNow
<1>2. Swept.credited = deposit.credited + deposit.confirmed
  BY Zenon DEF Swept
<1>3. Swept \in Deposit
  BY <1>1, CreditedNow, Zenon DEF Swept, Deposit
<1> QED
  BY <1>1, <1>2, <1>3, Zenon

(* syncBuyerDeposits. *)
LEMMA Syncs ==
  ASSUME DemoInv, NEW p \in Runs, syncBuyerDeposits(p)
  PROVE  DemoInv' /\ AllMoveWell
<1> DEFINE q == runs[p]
           next == [q EXCEPT !.pc = "deadline"]
<1>1. {"sync", "deadline"} \subseteq Funding /\ "deadline" # "report" /\ "deadline" # "record"
  BY Zenon DEF Funding
<1>2. q.pc \in Funding /\ UNCHANGED <<accounts, hosts, provider, healthy>> /\ Go(p, next)
  BY <1>1, Zenon DEF syncBuyerDeposits, At, To
<1>3. deposit' \in Deposit /\ deposit.credited <= deposit'.credited
  <2>1. deposit' = Swept \/ deposit' = deposit
    BY Zenon DEF syncBuyerDeposits
  <2>2. deposit \in Deposit /\ deposit.credited <= deposit.credited
    BY CreditedNow
  <2> QED
    BY <2>1, <2>2, SweepCredits, Zenon
<1>4. q \in Run /\ q.ready = FALSE
  BY <1>2, FundingNow, Zenon
<1> HIDE DEF q
<1>5. /\ next \in Run /\ next.pc = "deadline" /\ next.snap = q.snap
      /\ next.disturbed = q.disturbed /\ next.ready = FALSE /\ next.topUp = q.topUp
  BY <1>1, <1>4, FundingPlaces, Zenon DEF Run
<1> HIDE DEF next
<1> QED
  BY <1>1, <1>2, <1>3, <1>5, FundingStep, Zenon DEF q

(* The rest of waitBuyerDepositCredit. *)
LEMMA WaitsForDeposit ==
  ASSUME DemoInv, NEW p \in Runs,
         syncRefused(p) \/ recheckFeeBalance(p) \/ beforeDeadline(p) \/ afterDeadline(p)
  PROVE  DemoInv' /\ AllMoveWell
<1>1. /\ {"sync", "refee", "deadline", "extended"} \subseteq Funding /\ "error" # "ready"
      /\ {"refee", "summary"} \subseteq Funding \ {"record"} /\ "refee" # "report" /\ "summary" # "report"
  BY Zenon DEF Funding
<1>2. CASE afterDeadline(p)
  <2>1. Return(p, "error")
    BY <1>2, Zenon DEF afterDeadline
  <2> QED
    BY <1>1, <2>1, GivesUp, Zenon
<1>3. CASE syncRefused(p) \/ recheckFeeBalance(p) \/ beforeDeadline(p)
  <2>1. runs[p].pc \in Funding /\ UNCHANGED <<world, healthy>>
    BY <1>1, <1>3, Zenon DEF syncRefused, recheckFeeBalance, beforeDeadline, At
  <2>2. Go(p, To(p, "refee")) \/ Go(p, To(p, "summary"))
    BY <1>3, Zenon DEF syncRefused, recheckFeeBalance, beforeDeadline
  <2> QED
    BY <1>1, <2>1, <2>2, FundingTo, Zenon
<1> QED
  BY <1>2, <1>3, Zenon

(* waitFundingRecordState: the top-up the run will report is credited. *)
LEMMA WaitsForRecord ==
  ASSUME DemoInv, NEW p \in Runs, waitFundingRecordState(p)
  PROVE  DemoInv' /\ AllMoveWell
<1> DEFINE q == runs[p]
           next == [q EXCEPT !.pc = "warm", !.topUp = BuyerTopUpAmount]
<1>1. {"record", "warm"} \subseteq Funding /\ "warm" # "report" /\ "error" # "ready"
  BY Zenon DEF Funding
<1>2. q.pc = "record" /\ q.pc \in Funding
  BY <1>1, Zenon DEF waitFundingRecordState, At
<1>3. deposit.credited >= BuyerTopUpAmount
  BY <1>2, RunNow, Zenon DEF RunHolds, MoneySeen
<1>4. CASE Return(p, "error")
  BY <1>1, <1>4, GivesUp, Zenon
<1>5. CASE Go(p, next) /\ UNCHANGED <<world, healthy>>
  <2>1. q \in Run /\ q.ready = FALSE /\ BuyerTopUpAmount \in Nat
    BY <1>2, FundingNow, DemoNumbers, Zenon
  <2>2. Go(p, next) /\ UNCHANGED <<world, healthy>>
    BY <1>5, Zenon
  <2> HIDE DEF q
  <2>3. /\ next \in Run /\ next.pc = "warm" /\ next.snap = q.snap
        /\ next.disturbed = q.disturbed /\ next.ready = FALSE
    BY <1>1, <2>1, FundingPlaces, Zenon DEF Run
  <2> HIDE DEF next
  <2> QED
    BY <1>1, <1>2, <1>3, <2>2, <2>3, FundingGo, Zenon DEF q
<1> QED
  BY <1>4, <1>5, Zenon DEF waitFundingRecordState

-----------------------------------------------------------------------------
(* warmDemoProviderLiquidity. *)
LEMMA Warms ==
  ASSUME DemoInv, NEW p \in Runs, warmDemoProviderLiquidity(p)
  PROVE  DemoInv' /\ AllMoveWell
<1>1. /\ {"warm", "report"} \subseteq Funding /\ "report" \in Funding \ {"record"} /\ "error" # "ready"
      /\ "provision" \in Funding \ {"report"} /\ "provision" # "record"
  BY Zenon DEF Funding
<1>2. runs[p].pc \in Funding
  BY <1>1, Zenon DEF warmDemoProviderLiquidity, At
<1> DEFINE amount == Max({MinProviderLiquidityCents, Available(pool)})
<1>3. CASE Return(p, "error")
  BY <1>1, <1>3, GivesUp, Zenon
<1>4. CASE ProviderMeets(runs[p].snap) /\ Go(p, To(p, "report")) /\ UNCHANGED <<world, healthy>>
  BY <1>1, <1>2, <1>4, FundingTo, Zenon
<1>5. CASE /\ Go(p, [runs[p] EXCEPT !.pc = "provision", !.n = amount])
           /\ UNCHANGED <<world, healthy>>
  <2>1. amount \in Nat
    <3>1. pool \in Pool
      BY Zenon DEF DemoInv, DemoTypes
    <3>2. Available(pool) \in Nat /\ MinProviderLiquidityCents \in Nat
      BY <3>1, AvailableInPool, DemoNumbers, Zenon
    <3>3. Available(pool) \in Int /\ MinProviderLiquidityCents \in Int
      BY ONLY <3>2
    <3>4. amount = IF MinProviderLiquidityCents >= Available(pool) THEN MinProviderLiquidityCents ELSE Available(pool)
      BY ONLY <3>3, MaxOfTwo, Zenon DEF amount
    <3> QED
      BY <3>2, <3>4, Zenon
  <2>2. 0 \in Nat
    OBVIOUS
  <2> HIDE DEF amount
  <2> QED
    BY <1>1, <1>2, <1>5, <2>1, <2>2, FundingCounts, Zenon
<1> QED
  BY <1>3, <1>4, <1>5, Zenon DEF warmDemoProviderLiquidity

(* The pool the run reports is the one it has warmed. *)
LEMMA WarmedStep ==
  ASSUME DemoInv, NEW p \in Runs, ProviderWarmed(p)
  PROVE  DemoInv' /\ AllMoveWell
<1> DEFINE q == runs[p]
           warm == [status |-> "healthy", total |-> q.n, reserved |-> pool.reserved]
           seen == [q.snap EXCEPT !.pool = "healthy", !.available = Available(warm)]
           next == [q EXCEPT !.pc = "report", !.n = 0, !.snap = seen]
<1>1. {"provision", "report"} \subseteq Funding
  BY Zenon DEF Funding
<1>2. /\ q.pc \in Funding /\ pool' = warm
      /\ accounts' = accounts /\ hosts' = hosts /\ carriers' = carriers /\ carrierHost' = carrierHost
      /\ settlements' = settlements /\ deposit' = deposit /\ healthy' = healthy
  BY <1>1, Zenon DEF ProviderWarmed, At
<1>3. /\ q \in Run /\ q.ready = FALSE /\ q.n \in Nat /\ q.snap \in Snap
      /\ RunHolds(q, accounts, healthy, carriers, carrierHost, settlements, pool, deposit.credited)
  BY <1>2, FundingNow, RunFields, RunNow, Zenon
<1>4. Touch(p, next)
  <2>1. Touch(p, [q EXCEPT !.pc = "report", !.n = 0, !.snap.pool = "healthy", !.snap.available = Available(warm)])
    BY Zenon DEF ProviderWarmed
  <2> HIDE DEF q, warm
  <2>2. [q EXCEPT !.pc = "report", !.n = 0, !.snap.pool = "healthy", !.snap.available = Available(warm)] = next
    BY <1>3, Zenon DEF Run
  <2> QED
    BY <2>1, <2>2, Zenon
<1>5. warm \in Pool /\ warm.status = "healthy"
  <2>1. pool.reserved \in Nat /\ "healthy" \in PoolStates
    BY Zenon DEF DemoInv, DemoTypes, Pool, PoolStates
  <2> HIDE DEF q
  <2> QED
    BY <1>3, <2>1, Zenon DEF Pool
<1> HIDE DEF q, warm
<1>6. Available(warm) \in Nat
  BY <1>5, AvailableInPool, Zenon
<1>7. /\ seen \in Snap /\ seen.settled = q.snap.settled /\ seen.healthy = q.snap.healthy
      /\ seen.carrier = q.snap.carrier /\ seen.settlement = q.snap.settlement
      /\ seen.pool = warm.status /\ seen.available = Available(warm)
  <2>1. "healthy" \in PoolStates
    BY Zenon DEF PoolStates
  <2> QED
    BY <1>3, <1>5, <1>6, <2>1, Zenon DEF Snap
<1> HIDE DEF seen
<1>8. /\ next \in Run /\ next.pc = "report" /\ next.snap = seen /\ next.topUp = q.topUp
      /\ next.ready = FALSE /\ next.disturbed = q.disturbed
  <2>1. 0 \in Nat
    OBVIOUS
  <2> QED
    BY <1>1, <1>3, <1>7, <2>1, FundingPlaces, Zenon DEF Run
<1> HIDE DEF next
<1>9. RunHolds(next, accounts, healthy, carriers', carrierHost', settlements', pool', deposit.credited)
  <2>1. MoneySeen(next, deposit.credited)
    BY <1>3, <1>7, <1>8, Zenon DEF MoneySeen, RunHolds
  <2>2. AtRole(next) /\ BindingsSeen(next, carriers, carrierHost, settlements)
    BY <1>8, Zenon DEF AtRole, Entering, BindingsSeen
  <2>3. BindingsKept(next, carriers, settlements)
    <3>1. carriers # <<>> /\ settlements # <<>>
      BY <1>2, <1>3, Zenon DEF BindingsKept, RunHolds
    <3> QED
      BY <3>1, Zenon DEF BindingsKept
  <2>4. StatusSeen(next, accounts, healthy, carriers, settlements, warm)
    BY <1>2, <1>3, <1>7, <1>8, Zenon DEF StatusSeen, RunHolds
  <2> QED
    BY <1>2, <2>1, <2>2, <2>3, <2>4, Zenon DEF RunHolds
<1>10. MovesWell(p, next)
  BY <1>8, PlainWell, Zenon
<1>11. /\ carriers' \in Seq(BindingStates) /\ settlements' \in Seq(BindingStates) /\ pool' \in Pool
       /\ (carriers # <<>> => carriers' # <<>>) /\ (settlements # <<>> => settlements' # <<>>)
  BY <1>2, <1>5, Zenon DEF DemoInv, DemoTypes
<1> QED
  BY <1>2, <1>4, <1>8, <1>9, <1>10, <1>11, TouchStep, Zenon

(* Report: the status that was put together says no more than the one      *)
(* there is.                                                               *)
LEMMA Reports ==
  ASSUME DemoInv, NEW p \in Runs, Report(p)
  PROVE  DemoInv' /\ AllMoveWell
<1> DEFINE q == runs[p]
           s == buildPreparedDemoStatus(p)
           ready == FinalizeStatus(s) = "ready"
<1>1. q.pc = "report" /\ q.pc \in Funding /\ Go(p, Returned(ready)) /\ UNCHANGED <<world, healthy>>
      /\ ready \in BOOLEAN
  BY Zenon DEF Report, At, Return, Funding
<1>2. /\ q \in Run /\ q.snap \in Snap /\ q.topUp \in Nat
      /\ RunHolds(q, accounts, healthy, carriers, carrierHost, settlements, pool, deposit.credited)
  BY RunNow, RunFields, Zenon
<1>3. q.snap.settled \in Nat /\ q.snap.settled <= deposit.credited /\ deposit.credited \in Nat
      /\ (q.topUp # 0 => deposit.credited >= BuyerTopUpAmount)
  BY <1>2, SnapFields, CreditedNow, Zenon DEF RunHolds, MoneySeen
<1>4. /\ s.settled = q.snap.settled + q.topUp /\ s.healthy = q.snap.healthy
      /\ s.carrier = Or(q.snap.carrier, "active") /\ s.settlement = Or(q.snap.settlement, "active")
      /\ s.pool = q.snap.pool /\ s.available = q.snap.available
  <2>1. s = [q.snap EXCEPT !.settled = q.snap.settled + q.topUp,
                           !.carrier = Or(q.snap.carrier, "active"),
                           !.settlement = Or(q.snap.settlement, "active")]
    BY Zenon DEF buildPreparedDemoStatus
  <2> DEFINE snap == q.snap
             sum == q.snap.settled + q.topUp
  <2>2. s = [snap EXCEPT !.settled = sum, !.carrier = Or(snap.carrier, "active"),
                         !.settlement = Or(snap.settlement, "active")] /\ snap \in Snap
    BY <1>2, <2>1, Zenon
  <2> HIDE DEF snap, sum, s
  <2>3. /\ s.settled = sum /\ s.healthy = snap.healthy
        /\ s.carrier = Or(snap.carrier, "active") /\ s.settlement = Or(snap.settlement, "active")
        /\ s.pool = snap.pool /\ s.available = snap.available
    BY <2>2, Zenon DEF Snap
  <2> QED
    BY <2>3, Zenon DEF snap, sum
<1> HIDE DEF s
<1>5. ready => s.healthy /\ BuyerMeets(s) /\ ProviderMeets(s)
  <2>1. "blocked" # "ready"
    OBVIOUS
  <2> QED
    BY <2>1, Zenon DEF FinalizeStatus
<1> HIDE DEF ready, q
<1>6. ready => deposit.credited >= MinBuyerBalanceCents
  <2>1. BuyerMeets(s) => q.snap.settled + q.topUp >= MinBuyerBalanceCents
    BY <1>4, Zenon DEF BuyerMeets
  <2>2. q.snap.settled + q.topUp >= MinBuyerBalanceCents => deposit.credited >= MinBuyerBalanceCents
    BY ONLY <1>2, <1>3, DemoNumbers
  <2> QED
    BY <1>5, <2>1, <2>2, Zenon
<1>7. ~q.disturbed /\ ready => FinalizeStatus(StatusNow) = "ready"
  <2> SUFFICES ASSUME ~q.disturbed, ready
               PROVE  FinalizeStatus(StatusNow) = "ready"
    BY Zenon
  <2>1. carriers # <<>> /\ settlements # <<>>
    BY <1>1, <1>2, Zenon DEF RunHolds, BindingsKept
  <2>2. q.snap.carrier = LastOf(carriers) /\ q.snap.settlement = LastOf(settlements)
        /\ q.snap.pool = pool.status /\ q.snap.available = Available(pool)
        /\ (q.snap.healthy => healthy /\ accounts = Roles)
    BY <1>1, <1>2, Zenon DEF RunHolds, StatusSeen
  <2>3. LastOf(carriers) # "" /\ LastOf(settlements) # ""
    <3>1. carriers \in Seq(BindingStates) /\ settlements \in Seq(BindingStates)
      BY Zenon DEF DemoInv, DemoTypes
    <3> QED
      BY <2>1, <3>1, LastState, Zenon
  <2>4. s.carrier = LastOf(carriers) /\ s.settlement = LastOf(settlements)
    BY <1>4, <2>2, <2>3, Zenon DEF Or
  <2> DEFINE now == StatusNow
  <2>5. /\ now.carrier = s.carrier /\ now.settlement = s.settlement
        /\ now.pool = s.pool /\ now.available = s.available
        /\ now.settled = deposit.credited /\ now.healthy
    BY <1>4, <1>5, <2>2, <2>4, StatusNowFields, Zenon
  <2> HIDE DEF now
  <2>6. ProviderMeets(now) /\ BuyerMeets(now)
    BY <1>5, <1>6, <2>5, Zenon DEF ProviderMeets, BuyerMeets
  <2>7. FinalizeStatus(now) = "ready"
    BY <2>5, <2>6, Zenon DEF FinalizeStatus
  <2> QED
    BY <2>7, Zenon DEF now
<1> QED
  BY <1>1, <1>6, <1>7, ReturnStep, Zenon DEF q

-----------------------------------------------------------------------------
(* A call fails. *)
LEMMA FailsStep ==
  ASSUME DemoInv, NEW p \in Runs, Fails(p)
  PROVE  DemoInv' /\ AllMoveWell
<1>1. Go(p, Returned(FALSE)) /\ UNCHANGED <<world, healthy>>
  BY Zenon DEF Fails
<1> QED
  BY <1>1, ReturnStep, Zenon

(* Services, orders and ops. *)
LEMMA EnvironmentStep ==
  ASSUME DemoInv, Environment
  PROVE  DemoInv' /\ AllMoveWell
<1>1. /\ Disturb /\ accounts' = accounts /\ hosts' = hosts /\ deposit' = deposit
      /\ ServicesChange \/ Allocate \/ Disconnect \/ SuspendProviderSettlementBinding
  BY Zenon DEF Environment, Changed
<1>2. /\ carriers \in Seq(BindingStates) /\ settlements \in Seq(BindingStates) /\ pool \in Pool
      /\ healthy \in BOOLEAN
  BY Zenon DEF DemoInv, DemoTypes
<1>3. {"disconnected", "suspended"} \subseteq PoolStates /\ "suspended" \in BindingStates
  BY Zenon DEF PoolStates, BindingStates
<1>4. CASE ServicesChange
  <2>1. healthy' \in BOOLEAN /\ carriers' = carriers /\ settlements' = settlements /\ pool' = pool
    BY <1>4, Zenon DEF ServicesChange, provider
  <2> QED
    BY <1>1, <1>2, <2>1, DisturbStep, Zenon
<1>5. CASE Allocate
  <2>1. healthy' = healthy /\ carriers' = carriers /\ settlements' = settlements
        /\ pool' = [pool EXCEPT !.reserved = pool.reserved + 1]
    BY <1>5, Zenon DEF Allocate
  <2>2. pool.reserved + 1 \in Nat
    <3>1. pool.reserved \in Nat
      BY <1>2, Zenon DEF Pool
    <3> QED
      BY ONLY <3>1
  <2>3. pool' \in Pool
    BY <1>2, <2>1, <2>2, Zenon DEF Pool
  <2> QED
    BY <1>1, <1>2, <2>1, <2>3, DisturbStep, Zenon
<1>6. CASE Disconnect
  <2>1. healthy' = healthy /\ carriers' = carriers /\ settlements' = settlements
        /\ pool' = [pool EXCEPT !.status = "disconnected"]
    BY <1>6, Zenon DEF Disconnect
  <2>2. pool' \in Pool
    BY <1>2, <1>3, <2>1, Zenon DEF Pool
  <2> QED
    BY <1>1, <1>2, <2>1, <2>2, DisturbStep, Zenon
<1>7. CASE SuspendProviderSettlementBinding
  <2>1. healthy' = healthy /\ carriers' = carriers
        /\ settlements' = [settlements EXCEPT ![Len(settlements)] = "suspended"]
        /\ pool' = [pool EXCEPT !.status = "suspended"]
    BY <1>7, Zenon DEF SuspendProviderSettlementBinding
  <2>2. pool' \in Pool
    BY <1>2, <1>3, <2>1, Zenon DEF Pool
  <2>3. Len(settlements) \in Nat
    BY <1>2
  <2>4. settlements' \in Seq(BindingStates) /\ (settlements # <<>> => settlements' # <<>>)
    BY <1>2, <1>3, <2>1, <2>3, StatusPut, Zenon
  <2> QED
    BY <1>1, <1>2, <2>1, <2>2, <2>4, DisturbStep, Zenon
<1> QED
  BY <1>1, <1>4, <1>5, <1>6, <1>7, Zenon

(* Faucets, the chain and the reconciler. *)
LEMMA MoneyStep ==
  ASSUME DemoInv, (\E w \in Wallets : WalletIsPaid(w)) \/ Confirm \/ ReconcilerSweeps
  PROVE  DemoInv' /\ AllMoveWell
<1>1. UNCHANGED <<accounts, hosts, provider, healthy, runs>>
  BY Zenon DEF WalletIsPaid, Confirm, ReconcilerSweeps
<1>2. deposit \in Deposit /\ deposit.credited <= deposit.credited
  BY CreditedNow
<1>3. CASE \E w \in Wallets : WalletIsPaid(w)
  <2>1. deposit' = deposit
    BY <1>3, Zenon DEF WalletIsPaid
  <2> QED
    BY <1>1, <1>2, <2>1, MoneyComes, Zenon
<1>4. CASE Confirm
  <2>1. deposit' = [deposit EXCEPT !.pending = 0, !.confirmed = OnChain]
    BY <1>4, Zenon DEF Confirm
  <2>2. 0 \in Nat /\ OnChain \in Nat
    BY CreditedNow DEF OnChain
  <2>3. deposit' \in Deposit /\ deposit'.credited = deposit.credited
    BY <1>2, <2>1, <2>2, Zenon DEF Deposit
  <2> QED
    BY <1>1, <1>2, <2>3, MoneyComes, Zenon
<1>5. CASE ReconcilerSweeps
  <2>1. deposit' = Swept
    BY <1>5, Zenon DEF ReconcilerSweeps
  <2> QED
    BY <1>1, <2>1, SweepCredits, MoneyComes, Zenon
<1> QED
  BY <1>3, <1>4, <1>5, Zenon

(* Every step of a run. *)
LEMMA RunStep ==
  ASSUME DemoInv, NEW p \in Runs, Step(p)
  PROVE  DemoInv' /\ AllMoveWell
<1>1. CASE \E host \in 1 .. MaxIncidents + 1 : bootstrapCarrierTarget(p, host)
  <2>1. PICK host \in 1 .. MaxIncidents + 1 : bootstrapCarrierTarget(p, host)
    BY <1>1, Zenon
  <2>2. host \in Nat
    BY DemoNumbers
  <2> QED
    BY <2>1, <2>2, Bootstraps, Zenon
<1>2. CASE loginIAMUser(p) \/ ensureDemoActor(p, FALSE) \/ signupIAMUser(p)
  BY <1>2, LogsIn, EnsuresActor, SignsUp, Zenon
<1>3. CASE \/ getProviderCarrierBinding(p) \/ suspendProviderCarrierBinding(p)
           \/ registerProviderCarrierBinding(p) \/ getCarrierBindingAgain(p)
           \/ verifyProviderCarrierBinding(p)
  BY <1>3, GetsCarrier, SuspendsCarrier, RegistersCarrier, GetsCarrierAgain, VerifiesCarrier, Zenon
<1>4. CASE \/ getProviderSettlementBinding(p) \/ registerProviderSettlementBinding(p)
           \/ verifyProviderSettlementBinding(p)
  BY <1>4, GetsSettlement, RegistersSettlement, VerifiesSettlement, Zenon
<1>5. CASE buildDemoStatus(p) \/ loadProviderSettlementStatus(p)
  BY <1>5, BuildsStatus, LoadsStatus, Zenon
<1>6. CASE \/ QueryBalance(p) \/ requestFaucet(p) \/ requestFaucetRefused(p)
           \/ waitForBalanceThreshold(p) \/ waitForBalanceTimeout(p)
  BY <1>6, FundsWallets, Zenon
<1>7. CASE \/ createBuyerTopUp(p) \/ getBuyerDepositSummary(p)
           \/ \E answer \in {"refused", "taken", "paid"} : requestUSDIFaucet(p, answer)
           \/ syncBuyerDeposits(p) \/ syncRefused(p)
           \/ recheckFeeBalance(p) \/ beforeDeadline(p) \/ afterDeadline(p) \/ waitFundingRecordState(p)
  BY <1>7, LooksAtDeposit, ClaimsFaucet, Syncs, WaitsForDeposit, WaitsForRecord, Zenon
<1>8. CASE warmDemoProviderLiquidity(p) \/ ProviderWarmed(p) \/ Report(p)
  BY <1>8, Warms, WarmedStep, Reports, Zenon
<1> QED
  BY <1>1, <1>2, <1>3, <1>4, <1>5, <1>6, <1>7, <1>8, Zenon DEF Step

(* The invariant holds before the first run. *)
LEMMA DemoInitially ==
  ASSUME DemoInit
  PROVE  DemoInv
<1>1. /\ accounts = {} /\ hosts = 0 /\ carriers = <<>> /\ settlements = <<>> /\ healthy = TRUE
      /\ pool = [status |-> "", total |-> 0, reserved |-> 0]
      /\ deposit = [pending |-> 0, confirmed |-> 0, credited |-> 0]
      /\ runs = [p \in Runs |-> New]
  BY Zenon DEF DemoInit
<1>2. 0 \in Nat /\ <<>> \in Seq(BindingStates) /\ 0 <= 0
  OBVIOUS
<1>3. "" \in PoolStates
  BY Zenon DEF PoolStates
<1>4. pool \in Pool /\ deposit \in Deposit /\ deposit.credited = 0
  BY <1>1, <1>2, <1>3, Zenon DEF Pool, Deposit
<1>5. runs \in [Runs -> Run] /\ \A p \in Runs : runs[p] = New
  BY <1>1, NewRun, Zenon
<1>6. DemoTypes
  BY <1>1, <1>2, <1>4, <1>5, Zenon DEF DemoTypes
<1>7. ASSUME NEW p \in Runs
      PROVE  RunHolds(runs[p], accounts, healthy, carriers, carrierHost, settlements, pool, deposit.credited)
  <2> DEFINE q == runs[p]
  <2>1. q.pc = "new" /\ q.snap.settled = 0 /\ q.topUp = 0 /\ q.ready = FALSE
    BY <1>5, NewRun, Zenon
  <2> HIDE DEF q
  <2>2. MoneySeen(q, deposit.credited)
    BY <1>2, <1>4, <2>1, Zenon DEF MoneySeen
  <2>3. AtRole(q) /\ BindingsSeen(q, carriers, carrierHost, settlements)
    BY <2>1, Zenon DEF AtRole, Entering, BindingsSeen
  <2>4. BindingsKept(q, carriers, settlements) /\ StatusSeen(q, accounts, healthy, carriers, settlements, pool)
    BY <2>1, Zenon DEF BindingsKept, Reading, Funding, StatusSeen
  <2> QED
    BY <2>2, <2>3, <2>4, Zenon DEF RunHolds, q
<1> QED
  BY <1>6, <1>7, Zenon DEF DemoInv

(* Every step keeps it, and every run moves well. *)
LEMMA DemoSteps ==
  ASSUME DemoInv, DemoNext
  PROVE  DemoInv' /\ AllMoveWell
<1>1. CASE \E p \in Runs : \/ \E mutate \in BOOLEAN : Start(p, mutate)
                           \/ Step(p) \/ Fails(p) \/ ensureDemoActor(p, TRUE)
                           \/ buildDemoStatusWithoutRecords(p)
  BY <1>1, Starts, RunStep, FailsStep, EnsuresActor, BuildsStatus, Zenon
<1>2. CASE Environment
  BY <1>2, EnvironmentStep, Zenon
<1>3. CASE (\E w \in Wallets : WalletIsPaid(w)) \/ Confirm \/ ReconcilerSweeps
  BY <1>3, MoneyStep, Zenon
<1> QED
  BY <1>1, <1>2, <1>3, Zenon DEF DemoNext

(* Stuttering keeps it. *)
LEMMA DemoStutters ==
  ASSUME DemoInv, UNCHANGED demoVars
  PROVE  DemoInv'
<1>1. UNCHANGED <<accounts, hosts, provider, healthy, runs>> /\ deposit' = deposit
  BY DEF demoVars, provider
<1>2. deposit \in Deposit /\ deposit.credited <= deposit.credited
  BY CreditedNow
<1> QED
  BY <1>1, <1>2, MoneyComes, Zenon

(* So it always holds. *)
LEMMA DemoInvariant == DemoSpec => []DemoInv
<1>1. DemoInit => DemoInv
  BY DemoInitially, Zenon
<1>2. DemoInv /\ [DemoNext]_demoVars => DemoInv'
  BY DemoSteps, DemoStutters, Zenon
<1> QED
  BY <1>1, <1>2, PTL DEF DemoSpec

(* For any number of runs, roles and wallets, and any amounts: a run that  *)
(* answered ready leaves a buyer whose credited deposits reach the minimum *)
(* (runDemoReady, waitBuyerDepositCredit).                                 *)
THEOREM ReadyMeansFunded == DemoSpec => []ReadyIsFunded
<1>1. DemoInv => ReadyIsFunded
  BY Zenon DEF DemoInv, RunHolds, MoneySeen, ReadyIsFunded
<1> QED
  BY <1>1, DemoInvariant, PTL

(* For any number of runs, roles and wallets, and any amounts: a prepare   *)
(* that reports ready undisturbed reports what the status handler would    *)
(* say (buildPreparedDemoStatus).                                          *)
THEOREM ReadyMeansCurrent == DemoSpec => ReadyIsCurrent
<1> DEFINE Current == \A p \in Runs : runs[p].pc = "report" /\ ~runs[p].disturbed /\ runs'[p].ready
                                        => FinalizeStatus(StatusNow) = "ready"
<1>1. DemoInv /\ [DemoNext]_demoVars => [Current]_demoVars
  <2>1. DemoInv /\ DemoNext => Current
    BY DemoSteps, Zenon DEF AllMoveWell, MovesWell
  <2> QED
    BY <2>1
<1>2. DemoSpec => [][Current]_demoVars
  BY <1>1, DemoInvariant, PTL DEF DemoSpec
<1> QED
  BY <1>2 DEF ReadyIsCurrent

(* For any number of runs, roles and wallets, and any amounts: an          *)
(* undisturbed prepare gets through its binding steps with active          *)
(* bindings, the carrier one for its own host, unless an older active      *)
(* binding shadows it (ensureProviderCarrierBinding,                       *)
(* ensureProviderSettlementBinding).                                       *)
THEOREM PreparedHasBindings == DemoSpec => BindingsEnsured
<1> DEFINE Ensured == \A p \in Runs : ~runs[p].disturbed =>
                        /\ runs[p].pc # "getSettlement" /\ runs'[p].pc = "getSettlement" =>
                             /\ CarrierStatus' = "active"
                             /\ Shadows(carriers) \/ carrierHost' = runs[p].host
                        /\ runs[p].pc \in {"getSettlement", "registerSettlement", "verifySettlement"}
                             /\ runs'[p].pc = "status" =>
                             Shadows(settlements) \/ SettlementStatus' = "active"
<1>1. DemoInv /\ [DemoNext]_demoVars => [Ensured]_demoVars
  <2>1. DemoInv /\ DemoNext => Ensured
    <3>1. CarrierStatus' = LastOf(carriers') /\ SettlementStatus' = LastOf(settlements')
      BY Zenon DEF CarrierStatus, SettlementStatus, LastOf
    <3> QED
      BY <3>1, DemoSteps, Zenon DEF AllMoveWell, MovesWell
  <2> QED
    BY <2>1, Zenon
<1>2. DemoSpec => [][Ensured]_demoVars
  BY <1>1, DemoInvariant, PTL DEF DemoSpec
<1> QED
  BY <1>2 DEF BindingsEnsured
=============================================================================
