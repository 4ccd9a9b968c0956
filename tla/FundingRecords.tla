--------------------------- MODULE FundingRecords ----------------------------
(***************************************************************************)
(* Funding records of invoices, withdrawals and provider payouts, the      *)
(* settlement server's handlers that write them, the reconciler loop that  *)
(* keeps them up to date (services/settlement), and the rail that answers  *)
(* both: the fiber adapter in front of a payment node, or a service that   *)
(* queues payouts, as the mock does.                                       *)
(*                                                                         *)
(* A handler asks the rail, and writes the answer into the store later; so *)
(* does the reconciler, for the records of the snapshot it began with.     *)
(* Answers may be out of date when they are written.                       *)
(*                                                                         *)
(* Payment nodes are external.  An invoice is paid or cancelled once, and  *)
(* a payment request is paid at most once.                                 *)
(***************************************************************************)
EXTENDS Integers, FiniteSets, FiniteSetsExt

CONSTANTS
  NInvoices,              \* invoices that may be created, in this order
  Withdrawals, Payouts,   \* payment requests: of providers, and of the marketplace
  Handlers,               \* requests the settlement server works on at once
  MaxConsecutiveErrors,   \* the reconciler's limit
  MaxErrors, MaxRequests, MaxRestarts    \* bounds

Invoices == 1 .. NInvoices
Requests == Withdrawals \cup Payouts

ASSUME ConstAssumption ==
  /\ NInvoices \in Nat
  /\ Withdrawals \cap Payouts = {}
  /\ MaxConsecutiveErrors \in Nat \ {0}
  /\ {MaxErrors, MaxRequests, MaxRestarts} \subseteq Nat

VARIABLES
  rail,          \* "adapter" or "queue"
  node,          \* the payment node's invoices
  paid,          \* payment requests the payer node has paid
  tips,          \* the adapter's memory of invoices
  accepted,      \* the rail's memory of withdrawals
  invoices,      \* stored state of each invoice record
  transfers,     \* stored state of each withdrawal or payout record
  handler,       \* progress of each request
  loop,          \* the reconciler: progress, snapshot, consecutive errors
  errors, requests, restarts,
  streak,        \* history: failed syncs since the last successful one
  unsaved        \* history: invoices and payments whose record was not saved

vars == <<rail, node, paid, tips, accepted, invoices, transfers, handler, loop,
          errors, requests, restarts, streak, unsaved>>
railVars == <<rail, node, paid, tips, accepted, restarts>>
storeVars == <<invoices, transfers>>
countVars == <<errors, requests, streak, unsaved>>

States == {"UNPAID", "SETTLED", "FAILED"}
Ready == [pc |-> "ready", subject |-> {}, answer |-> "none"]

Init ==
  /\ rail \in {"adapter", "queue"}
  /\ node = [i \in Invoices |-> "absent"]
  /\ paid = {}
  /\ tips = [i \in Invoices |-> "absent"]
  /\ accepted = [r \in Requests |-> "absent"]
  /\ invoices = [i \in Invoices |-> "absent"]
  /\ transfers = [r \in Requests |-> "absent"]
  /\ handler = [h \in Handlers |-> Ready]
  /\ loop = [pc |-> "waiting", todo |-> {}, answer |-> "none", errors |-> 0, first |-> TRUE]
  /\ errors = 0 /\ requests = 0 /\ restarts = 0
  /\ streak = 0 /\ unsaved = {}

-----------------------------------------------------------------------------
(* The payment nodes. *)
InvoiceMoves(i, status) ==
  /\ node[i] = "open"
  /\ node' = [node EXCEPT ![i] = status]
  /\ UNCHANGED <<rail, paid, tips, accepted, restarts, storeVars, handler, loop, countVars>>

(* The queue works off what it has accepted. *)
QueueMoves(r, state) ==
  /\ accepted[r] = "PROCESSING"
  /\ accepted' = [accepted EXCEPT ![r] = state]
  /\ paid' = IF state = "COMPLETED" THEN paid \cup {r} ELSE paid
  /\ UNCHANGED <<rail, node, tips, restarts, storeVars, handler, loop, countVars>>

(* The adapter keeps tips and withdrawals in memory only. *)
AdapterRestarts ==
  /\ rail = "adapter" /\ restarts < MaxRestarts
  /\ restarts' = restarts + 1
  /\ tips' = [i \in Invoices |-> "absent"]
  /\ accepted' = [r \in Requests |-> "absent"]
  /\ UNCHANGED <<rail, node, paid, storeVars, handler, loop, countVars>>

-----------------------------------------------------------------------------
(* The methods of the adapter, and of the queue where it differs. *)

\* Fault: an invoice that is not open any more counts as settled.
mapClosedState(status) == IF status = "open" THEN "UNPAID" ELSE "SETTLED"

mapInvoiceState(status) ==
  CASE status = "paid" -> "SETTLED"
    [] status = "cancelled" -> "FAILED"
    [] OTHER -> "UNPAID"

nodeInvoiceStatus(i) == mapInvoiceState(node[i])

(* Only tips the adapter remembers are updated. *)
updateTipState(S) ==
  tips' = [i \in Invoices |-> IF i \in S /\ tips[i] # "absent" THEN nodeInvoiceStatus(i) ELSE tips[i]]

tipCreate(i) ==
  /\ node[i] = "absent" /\ \A j \in 1 .. i - 1 : node[j] # "absent"
  /\ node' = [node EXCEPT ![i] = "open"]
  /\ tips' = [tips EXCEPT ![i] = "UNPAID"]
  /\ UNCHANGED <<rail, paid, accepted, restarts>>

tipStatus(i) ==
  /\ updateTipState({i})
  /\ UNCHANGED <<rail, node, paid, accepted, restarts>>

(* The feed polls every tip it remembers and reports the settled ones,     *)
(* in no order and cut to a limit.                                         *)
tipSettledFeed(S) ==
  /\ rail = "adapter"
  /\ S \subseteq {i \in Invoices : tips[i] # "absent" /\ nodeInvoiceStatus(i) = "SETTLED"}
  /\ updateTipState(Invoices)
  /\ UNCHANGED <<rail, node, paid, accepted, restarts>>

(* The node pays; the adapter may not learn of it, when the reply is lost  *)
(* or shows no evidence.                                                   *)
SendPayment(r) == r \notin paid /\ paid' = paid \cup {r}

withdrawalRequest(r, answered) ==
  /\ rail = "adapter"
  /\ SendPayment(r)
  /\ accepted' = IF answered THEN [accepted EXCEPT ![r] = "COMPLETED"] ELSE accepted
  /\ UNCHANGED <<rail, node, tips, restarts>>

queueWithdrawal(r) ==
  /\ rail = "queue"
  /\ accepted[r] = "absent"
  /\ accepted' = [accepted EXCEPT ![r] = "PROCESSING"]
  /\ UNCHANGED <<rail, node, paid, tips, restarts>>

(* Statuses listed for a user: a payout is the treasury's, not the         *)
(* provider's.                                                             *)
dashboardSummary(S) == [r \in {r \in S : accepted[r] # "absent"} |-> accepted[r]]

-----------------------------------------------------------------------------
(* The handlers of the settlement server.  Each begins with a call of the  *)
(* rail, which may fail, and ends with a write of the store.               *)
Called(h, place, subject, answer) ==
  /\ handler[h].pc = "ready" /\ requests < MaxRequests
  /\ requests' = requests + 1
  /\ handler' = [handler EXCEPT ![h] = [pc |-> place, subject |-> subject, answer |-> answer]]

Done(h) == handler' = [handler EXCEPT ![h] = Ready]

CreateInvoice(h) ==
  \E i \in Invoices :
    /\ tipCreate(i)
    /\ Called(h, "save_invoice", {i}, "UNPAID")
    /\ UNCHANGED <<storeVars, loop, errors, streak, unsaved>>

SaveInvoice(h) ==
  /\ handler[h].pc = "save_invoice"
  /\ invoices' = [i \in Invoices |-> IF i \in handler[h].subject THEN "UNPAID" ELSE invoices[i]]
  /\ Done(h)
  /\ UNCHANGED <<railVars, transfers, loop, countVars>>

(* An invoice can be asked for once its number was answered or published.  *)
Saving == UNION {handler[h].subject : h \in {h \in Handlers : handler[h].pc \in {"save_invoice", "save_transfer"}}}

GetInvoiceStatus(h, i) ==
  /\ node[i] # "absent" /\ i \notin Saving
  /\ tipStatus(i)
  /\ Called(h, "update_invoices", {i}, nodeInvoiceStatus(i))
  /\ UNCHANGED <<storeVars, loop, errors, streak, unsaved>>

ListSettledFeed(h, S) ==
  /\ tipSettledFeed(S)
  /\ Called(h, "update_invoices", S, "SETTLED")
  /\ UNCHANGED <<storeVars, loop, errors, streak, unsaved>>

UpdateInvoiceState(h) ==
  /\ handler[h].pc = "update_invoices"
  /\ invoices' = [i \in Invoices |-> IF i \in handler[h].subject /\ invoices[i] # "absent"
                                       THEN handler[h].answer ELSE invoices[i]]
  /\ Done(h)
  /\ UNCHANGED <<railVars, transfers, loop, countVars>>

(* A payout leaves before its record is saved. The adapter pays at once,   *)
(* the queue answers PENDING whatever it goes on to store.                 *)
RequestPayout(h, r) ==
  /\ transfers[r] = "absent"
  /\ \/ withdrawalRequest(r, TRUE) /\ Called(h, "save_transfer", {r}, "COMPLETED")
     \/ queueWithdrawal(r) /\ Called(h, "save_transfer", {r}, "PENDING")
  /\ UNCHANGED <<storeVars, loop, errors, streak, unsaved>>

RequestPayoutUnanswered(h, r) ==
  /\ handler[h].pc = "ready" /\ requests < MaxRequests /\ errors < MaxErrors
  /\ withdrawalRequest(r, FALSE) \/ queueWithdrawal(r)
  /\ requests' = requests + 1 /\ errors' = errors + 1
  /\ unsaved' = unsaved \cup {r}
  /\ UNCHANGED <<storeVars, handler, loop, streak>>

\* Fault: only a payout that is completed is saved.
SaveCompleted(h) ==
  /\ handler[h].pc = "save_transfer"
  /\ transfers' = [r \in Requests |-> IF r \in handler[h].subject /\ handler[h].answer = "COMPLETED"
                                        THEN handler[h].answer ELSE transfers[r]]
  /\ Done(h)
  /\ UNCHANGED <<railVars, invoices, loop, countVars>>

SaveTransfer(h) ==
  /\ handler[h].pc = "save_transfer"
  /\ transfers' = [r \in Requests |-> IF r \in handler[h].subject THEN handler[h].answer ELSE transfers[r]]
  /\ Done(h)
  /\ UNCHANGED <<railVars, invoices, loop, countVars>>

(* The statuses of one provider, or of any user an internal caller names.  *)
ListWithdrawalStatuses(h, S) ==
  /\ DOMAIN dashboardSummary(S) # {}
  /\ Called(h, "update_transfers", DOMAIN dashboardSummary(S), dashboardSummary(S))
  /\ UNCHANGED <<railVars, storeVars, loop, errors, streak, unsaved>>

UpdateExternalState(h) ==
  /\ handler[h].pc = "update_transfers"
  /\ transfers' = [r \in Requests |-> IF r \in handler[h].subject /\ transfers[r] # "absent"
                                        THEN handler[h].answer[r] ELSE transfers[r]]
  /\ Done(h)
  /\ UNCHANGED <<railVars, invoices, loop, countVars>>

(* The write fails, or the server stops. *)
HandlerFails(h) ==
  /\ handler[h].pc # "ready" /\ errors < MaxErrors
  /\ errors' = errors + 1
  /\ unsaved' = IF handler[h].pc \in {"save_invoice", "save_transfer"}
                  THEN unsaved \cup handler[h].subject ELSE unsaved
  /\ Done(h)
  /\ UNCHANGED <<railVars, storeVars, loop, requests, streak>>

Handle(h) ==
  \/ CreateInvoice(h)
  \/ SaveInvoice(h)
  \/ \E i \in Invoices : GetInvoiceStatus(h, i)
  \/ \E S \in SUBSET Invoices : ListSettledFeed(h, S)
  \/ UpdateInvoiceState(h)
  \/ \E r \in Requests : RequestPayout(h, r) \/ RequestPayoutUnanswered(h, r)
  \/ SaveTransfer(h)
  \/ \E S \in {Withdrawals, Payouts} : ListWithdrawalStatuses(h, S)
  \/ UpdateExternalState(h)
  \/ HandlerFails(h)

-----------------------------------------------------------------------------
(* The reconciler. *)
isSettledInvoiceState(state) == state = "SETTLED"
isTerminalWithdrawalState(state) == state \in {"COMPLETED", "FAILED"}

(* The ticker fires: invoices first, each with the state List returned.    *)
BeginSync ==
  /\ loop.pc = "waiting"
  /\ loop' = [loop EXCEPT !.pc = "invoices",
                !.todo = {<<i, invoices[i]>> :
                            i \in {i \in Invoices : invoices[i] # "absent" /\ ~isSettledInvoiceState(invoices[i])}}]
  /\ UNCHANGED <<railVars, storeVars, handler, countVars>>

NextInvoice == CHOOSE e \in loop.todo : \A f \in loop.todo : e[1] <= f[1]

PollInvoice ==
  LET i == NextInvoice[1]
      answer == nodeInvoiceStatus(i)
  IN  /\ loop.pc = "invoices" /\ loop.todo # {}
      /\ tipStatus(i)
      /\ loop' = IF answer = NextInvoice[2] THEN [loop EXCEPT !.todo = @ \ {NextInvoice}]
                 ELSE [loop EXCEPT !.pc = "write_invoice", !.answer = answer]
      /\ UNCHANGED <<storeVars, handler, countVars>>

WriteInvoice ==
  /\ loop.pc = "write_invoice"
  /\ invoices' = [invoices EXCEPT ![NextInvoice[1]] = loop.answer]
  /\ loop' = [loop EXCEPT !.pc = "invoices", !.answer = "none", !.todo = @ \ {NextInvoice}]
  /\ UNCHANGED <<railVars, transfers, handler, countVars>>

\* Fault: only what was just requested is looked at.
PendingOnly ==
  \E r \in Withdrawals : transfers[r] = "PENDING"

(* A provider is asked for when a withdrawal of theirs is not finished.    *)
PendingWithdrawals ==
  \E r \in Withdrawals : transfers[r] # "absent" /\ ~isTerminalWithdrawalState(transfers[r])

PollWithdrawals ==
  /\ loop.pc = "invoices" /\ loop.todo = {}
  /\ loop' = IF PendingWithdrawals
               THEN [loop EXCEPT !.pc = "write_transfers", !.answer = dashboardSummary(Withdrawals)]
               ELSE [loop EXCEPT !.pc = "deposits"]
  /\ UNCHANGED <<railVars, storeVars, handler, countVars>>

WriteTransfers ==
  /\ loop.pc = "write_transfers"
  /\ transfers' = [r \in Requests |-> IF r \in DOMAIN loop.answer /\ transfers[r] # "absent"
                                        THEN loop.answer[r] ELSE transfers[r]]
  /\ loop' = [loop EXCEPT !.pc = "deposits", !.answer = "none"]
  /\ UNCHANGED <<railVars, invoices, handler, countVars>>

(* The sweep of deposits is the last part of a sync. *)
EndSync ==
  /\ loop.pc = "deposits"
  /\ loop' = [loop EXCEPT !.pc = "waiting", !.errors = 0, !.first = FALSE]
  /\ streak' = 0
  /\ UNCHANGED <<railVars, storeVars, handler, errors, requests, unsaved>>

(* Any call of a sync may return an error.  The loop ends when the first   *)
(* sync fails or too many fail in a row, otherwise it waits for the ticker.*)
SyncFails ==
  LET ended == loop.first \/ loop.errors + 1 >= MaxConsecutiveErrors
  IN  /\ loop.pc \notin {"waiting", "ended"} /\ errors < MaxErrors
      /\ errors' = errors + 1
      /\ loop' = [pc |-> IF ended THEN "ended" ELSE "waiting", todo |-> {}, answer |-> "none",
                  errors |-> IF loop.first THEN 0 ELSE loop.errors + 1, first |-> loop.first]
      /\ streak' = streak + 1
      /\ UNCHANGED <<railVars, storeVars, handler, requests, unsaved>>

Reconcile ==
  \/ BeginSync \/ PollInvoice \/ WriteInvoice \/ PollWithdrawals \/ WriteTransfers \/ EndSync

Rail ==
  \/ \E i \in Invoices, status \in {"paid", "cancelled"} : InvoiceMoves(i, status)
  \/ \E r \in Requests, state \in {"COMPLETED", "FAILED"} : QueueMoves(r, state)
  \/ AdapterRestarts

Next == Rail \/ (\E h \in Handlers : Handle(h)) \/ Reconcile \/ SyncFails

(* The ticker fires as long as the loop runs, and its calls have timeouts. *)
Spec == Init /\ [][Next]_vars /\ WF_vars(Reconcile)

-----------------------------------------------------------------------------
TransferStates == {"PENDING", "PROCESSING", "COMPLETED", "FAILED"}
Summaries == UNION {[S -> TransferStates] : S \in SUBSET Requests}
Answers == {"none"} \cup States \cup TransferStates \cup Summaries

(* Every variable keeps its type. *)
TypeOK ==
  /\ rail \in {"adapter", "queue"}
  /\ node \in [Invoices -> {"absent", "open", "paid", "cancelled"}]
  /\ paid \subseteq Requests
  /\ tips \in [Invoices -> States \cup {"absent"}]
  /\ accepted \in [Requests -> TransferStates \cup {"absent"}]
  /\ invoices \in [Invoices -> States \cup {"absent"}]
  /\ transfers \in [Requests -> TransferStates \cup {"absent"}]
  /\ handler \in [Handlers -> [pc : {"ready", "save_invoice", "update_invoices",
                                     "save_transfer", "update_transfers"},
                               subject : SUBSET (Invoices \cup Requests), answer : Answers]]
  /\ loop \in [pc : {"waiting", "invoices", "write_invoice", "write_transfers", "deposits", "ended"},
               todo : SUBSET (Invoices \X States), answer : Answers, errors : Nat, first : BOOLEAN]

(* A final state that is stored is true of the rail, however late the      *)
(* answer was that wrote it: an older answer can set a record back to a    *)
(* state that is polled again, never to a wrong final one.                 *)
FinalStatesAreTrue ==
  /\ \A i \in Invoices : /\ invoices[i] = "SETTLED" => node[i] = "paid"
                         /\ invoices[i] = "FAILED" => node[i] = "cancelled"
  /\ \A r \in Requests : /\ transfers[r] = "COMPLETED" => r \in paid
                         /\ transfers[r] = "FAILED" => r \notin paid /\ accepted[r] = "FAILED"

(* What was created or paid on the rail is on record, about to be, or its  *)
(* handler was stopped in between.                                         *)
NothingUnrecorded ==
  /\ \A i \in Invoices : node[i] # "absent" => invoices[i] # "absent" \/ i \in Saving \cup unsaved
  /\ \A r \in paid : transfers[r] # "absent" \/ r \in Saving \cup unsaved

(* Records that are polled say what the rail says of finished payments; a  *)
(* payout of the marketplace is not polled.                                *)
UpToDate ==
  /\ \A i \in Invoices : node[i] = "paid" /\ invoices[i] # "absent" => invoices[i] = "SETTLED"
  /\ \A r \in Withdrawals :
       transfers[r] # "absent" /\ isTerminalWithdrawalState(accepted[r]) => transfers[r] = accepted[r]

(* The loop gives up only when its first sync failed or as many syncs as   *)
(* the limit says failed with no success between them.                     *)
GaveUp ==
  /\ loop.pc = "ended"
  /\ \/ loop.first /\ streak = 1
     \/ ~loop.first /\ streak = MaxConsecutiveErrors

(* Whatever older answers did to the records of paid invoices and finished *)
(* withdrawals, and whatever the adapter forgot, the reconciler sets them  *)
(* right again and again, until its first sync or too many in a row fail.  *)
RecordsCatchUp == []<>(UpToDate \/ GaveUp)
=============================================================================
