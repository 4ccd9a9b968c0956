-------------------------- MODULE CarrierCallbacks --------------------------
(***************************************************************************)
(* Execution jobs, the callback ledger and the award executor around one   *)
(* order: src/internal/carrier and the handlers of src/internal/gateway.   *)
(* Callback handlers, the executor's goroutine and the job routes all      *)
(* write the same jobs.  Each call of the carrier service, the ledger and  *)
(* the evidence store holds that store's lock and is one step; a callback  *)
(* is handled in several.  The carrier may send an event again, late, out  *)
(* of order or never.                                                      *)
(*                                                                         *)
(* An event is named by its job and an id; the id fixes its sequence       *)
(* number.  NoId stands for a callback without an eventId, which bypasses  *)
(* the ledger, and Report for the one the executor's own run sends.  What  *)
(* the event is about is chosen when it is first recorded: afterwards its  *)
(* type is never looked at again, and a refused delivery leaves no trace.  *)
(* Timestamps, and the part of the answer that is only read from the       *)
(* state, are left out.  SettleMilestone and RecordUsageCharge are single  *)
(* steps here; OrderConcurrency takes them apart.                          *)
(***************************************************************************)
EXTENDS Workflow

CONSTANTS
  Price,            \* the priced milestones of the awarded order
  MaxJobs,          \* bound: jobs created
  Handlers,         \* goroutines that serve callbacks
  EventIds,         \* event ids used per job
  Report,           \* the id "<job>-ready" of the executor's run
  NoId,             \* a callback without an id
  Sequence,         \* the sequence number an event id was sent with
  Actions,          \* what a carrier may recommend: continue, pause, cancel
  MaxUsage          \* bound: usage cents on a milestone

ASSUME CarrierAssumption ==
  /\ Price \in [Milestones -> Terms]
  /\ MaxJobs \in Nat \ {0} /\ MaxUsage \in Nat
  /\ Report \in EventIds /\ NoId \notin EventIds
  /\ Sequence \in [EventIds -> Nat] /\ Sequence[Report] = 1
  /\ {"continue", "pause"} \subseteq Actions /\ {"", "unrecorded"} \cap Actions = {}

VARIABLES
  order,            \* the stored order
  bound,            \* milestones with a carrier binding; it names the binding
  jobSeq,           \* jobs created so far
  job,              \* Service.jobs
  evidence,         \* jobs with an evidence package
  last,             \* EventLedger.lastSequence
  decision,         \* EventLedger.eventIndex: the DecisionJSON of an event
  req,              \* the callback each handler works on
  exec,             \* the executor's goroutine
  reported,         \* the run's report was answered with 200
  paidCallback,     \* history: jobs through whose callback a payout was saved
  paidExecutor      \* history: jobs whose executor saved a payout

vars == <<order, bound, jobSeq, job, evidence, last, decision, req, exec,
          reported, paidCallback, paidExecutor>>

Jobs == 1 .. MaxJobs
Events == Jobs \X EventIds

JobStates == {"pending", "running", "completed", "failed", "cancelled"}
Terminal == {"completed", "failed", "cancelled"}

(* Callbacks that only move the job, and where to. *)
Target == [started |-> "running", completed |-> "completed",
           failed  |-> "failed",  paused    |-> "cancelled"]

(* The remaining ones; heartbeat, resumed, budget.low and unknown types    *)
(* are "other": they change nothing that is modelled.                      *)
EventTypes == (DOMAIN Target) \cup {"ready", "artifact", "usage", "other"}

Unrecorded == "unrecorded"
Idle == [at |-> "idle", job |-> 1, id |-> NoId, type |-> "other"]

Init ==
  /\ order = CreateOrder(Price)
  /\ bound = {}
  /\ jobSeq = 0
  /\ job = [j \in Jobs |-> [state |-> "none", ms |-> 1]]
  /\ evidence = {}
  /\ last = [j \in Jobs |-> 0]
  /\ decision = [e \in Events |-> Unrecorded]
  /\ req = [h \in Handlers |-> Idle]
  /\ exec \in [at : {"idle"}, job : {1}, callbacks : BOOLEAN]
  /\ reported = FALSE
  /\ paidCallback = {} /\ paidExecutor = {}

historyVars == <<reported, paidCallback, paidExecutor>>
ledgerVars == <<last, decision>>
jobVars == <<bound, jobSeq, job>>

-----------------------------------------------------------------------------
(* The job service. *)

validTransitions ==
  [pending   |-> {"running", "cancelled"},
   running   |-> {"completed", "failed", "cancelled"},
   completed |-> {}, failed |-> {}, cancelled |-> {}]

canTransition(from, to) == to \in validTransitions[from]

(* transitionJobLocked: a move to the state the job is in succeeds. *)
CanMove(j, to) == canTransition(job[j].state, to) \/ job[j].state = to
Moved(j, to) == [job EXCEPT ![j].state = to]
MovedIfPossible(j, to) == IF CanMove(j, to) THEN Moved(j, to) ELSE job

Bind(m) ==
  /\ m \notin bound
  /\ bound' = bound \cup {m}
  /\ UNCHANGED <<order, jobSeq, job, evidence, ledgerVars, req, exec, historyVars>>

(* The binding and the milestone of a new job are given separately. *)
NewJob(b, m) ==
  /\ b \in bound
  /\ jobSeq < MaxJobs
  /\ jobSeq' = jobSeq + 1
  /\ job' = [job EXCEPT ![jobSeq + 1] = [state |-> "pending", ms |-> m]]

CreateJob(b, m) ==
  /\ NewJob(b, m)
  /\ UNCHANGED <<order, bound, evidence, ledgerVars, req, exec, historyVars>>

(* The routes that start, complete, fail or cancel a job. *)
MoveJob(j, to) ==
  /\ canTransition(job[j].state, to)
  /\ job' = Moved(j, to)
  /\ UNCHANGED <<order, bound, jobSeq, evidence, ledgerVars, req, exec, historyVars>>

SubmitEvidence(j) ==
  /\ j \notin evidence
  /\ evidence' = evidence \cup {j}
  /\ UNCHANGED <<order, jobVars, ledgerVars, req, exec, historyVars>>

-----------------------------------------------------------------------------
(* The ledger. *)

Recorded(j, id) == decision[<<j, id>>] # Unrecorded

\* Fault: an event of the same sequence number is let through.
InSequenceOrEqual(j, id) ==
  last[j] > 0 => Sequence[id] \in {last[j], last[j] + 1}

(* No gap and no reordering, once the execution has a last event. *)
InSequence(j, id) == last[j] > 0 => Sequence[id] = last[j] + 1

(* What carriers send: any event about a job that exists; the report only  *)
(* while or after the executor's run, and only as milestone.ready.         *)
Deliverable(j, id, type) ==
  id = Report =>
    /\ type = "ready"
    /\ exec.callbacks
    /\ exec.job = j
    /\ exec.at \notin {"idle", "bound", "created", "started"}

(* A callback arrives and the ledger records it, before it is processed. *)
Record(h, j, id, type) ==
  /\ req[h].at = "idle"
  /\ Deliverable(j, id, type)
  /\ ~Recorded(j, id)
  /\ InSequence(j, id)
  /\ last' = [last EXCEPT ![j] = Sequence[id]]
  /\ decision' = [decision EXCEPT ![<<j, id>>] = ""]
  /\ req' = [req EXCEPT ![h] = [at |-> "recorded", job |-> j, id |-> id, type |-> type]]
  /\ UNCHANGED <<order, jobVars, evidence, exec, historyVars>>

(* An event that is in the ledger is answered at once. *)
Replay(h, j, id) ==
  /\ req[h].at = "idle"
  /\ Recorded(j, id)
  /\ reported' = (reported \/ id = Report)
  /\ UNCHANGED <<order, jobVars, evidence, ledgerVars, req, exec, paidCallback, paidExecutor>>

(* Without an id there is no ledger entry. *)
ReceiveUnnamed(h, j, type) ==
  /\ req[h].at = "idle"
  /\ req' = [req EXCEPT ![h] = [at |-> "recorded", job |-> j, id |-> NoId, type |-> type]]
  /\ UNCHANGED <<order, jobVars, evidence, ledgerVars, exec, historyVars>>

-----------------------------------------------------------------------------
(* handleCarrierCallback after the ledger. *)

Goes(h, at) == req' = [req EXCEPT ![h].at = at]

(* An error is answered; the event stays in the ledger without a decision. *)
Refused(h) == req' = [req EXCEPT ![h] = Idle]

GoesIf(h, succeeds, at) == IF succeeds THEN Goes(h, at) ELSE Refused(h)

Works(h, at, types) == req[h].at = at /\ req[h].type \in types

(* started, completed, failed and paused. *)
HandleTransition(h) ==
  LET to == Target[req[h].type]
  IN  /\ Works(h, "recorded", DOMAIN Target)
      /\ job' = MovedIfPossible(req[h].job, to)
      /\ GoesIf(h, CanMove(req[h].job, to), "processed")
      /\ UNCHANGED <<order, bound, jobSeq, evidence, ledgerVars, exec, historyVars>>

(* artifact.ready, and the first step of milestone.ready; evidence that    *)
(* was submitted before is kept and no error.                              *)
HandleEvidence(h, hasPayload) ==
  /\ Works(h, "recorded", {"artifact", "ready"})
  /\ req[h].id = Report => hasPayload
  /\ evidence' = IF hasPayload THEN evidence \cup {req[h].job} ELSE evidence
  /\ GoesIf(h, hasPayload, IF req[h].type = "ready" THEN "evidenced" ELSE "processed")
  /\ UNCHANGED <<order, jobVars, ledgerVars, exec, historyVars>>

\* Fault: the job is completed only if it can be, and paid for anyway.
CompleteJobAnyway(h) ==
  /\ Works(h, "evidenced", {"ready"})
  /\ job' = MovedIfPossible(req[h].job, "completed")
  /\ Goes(h, "completed")
  /\ UNCHANGED <<order, bound, jobSeq, evidence, ledgerVars, exec, historyVars>>

(* The second step of milestone.ready. *)
CompleteJob(h) ==
  /\ Works(h, "evidenced", {"ready"})
  /\ job' = MovedIfPossible(req[h].job, "completed")
  /\ GoesIf(h, CanMove(req[h].job, "completed"), "completed")
  /\ UNCHANGED <<order, bound, jobSeq, evidence, ledgerVars, exec, historyVars>>

(* App.SettleMilestone: the Save may fail, or the publish after it. *)
SettlementSaved(m, saved) == saved /\ Payable(order.ms[m])

(* The third step of milestone.ready. *)
SettleFromCallback(h, saved, published) ==
  LET m == job[req[h].job].ms
  IN  /\ Works(h, "completed", {"ready"})
      /\ published => saved
      /\ order' = IF SettlementSaved(m, saved) THEN Settle(order, m) ELSE order
      /\ paidCallback' = IF SettlementSaved(m, saved) THEN paidCallback \cup {req[h].job}
                                                      ELSE paidCallback
      /\ GoesIf(h, SettlementSaved(m, saved) /\ published, "processed")
      /\ UNCHANGED <<jobVars, evidence, ledgerVars, exec, reported, paidExecutor>>

(* usage.reported; an invalid payload is like a Save that fails. *)
recordUsageFromCallback(h, saved, published) ==
  LET m       == job[req[h].job].ms
      charged == saved /\ AcceptsUsage(order.ms[m])
  IN  /\ Works(h, "recorded", {"usage"})
      /\ published => saved
      /\ order' = IF charged THEN RecordUsage(order, m, 1) ELSE order
      /\ GoesIf(h, charged /\ published, "processed")
      /\ UNCHANGED <<jobVars, evidence, ledgerVars, exec, historyVars>>

(* A heartbeat needs an existing binding and an unknown type is refused,   *)
(* after it was recorded; resumed and budget.low are accepted.             *)
HandleOther(h, accepted) ==
  /\ Works(h, "recorded", {"other"})
  /\ GoesIf(h, accepted, "processed")
  /\ UNCHANGED <<order, jobVars, evidence, ledgerVars, exec, historyVars>>

(* What the answer recommends; usage, artifact and budget events repeat    *)
(* what the carrier asked for.                                             *)
RecommendedActions(type) ==
  CASE type = "paused"                        -> {"pause"}
    [] type \in {"usage", "artifact", "other"} -> Actions
    [] OTHER                                  -> {"continue"}

(* The decision is stored for replays and the callback answered. *)
Answer(h, action) ==
  /\ req[h].at = "processed"
  /\ action \in RecommendedActions(req[h].type)
  /\ decision' = IF req[h].id = NoId THEN decision
                   ELSE [decision EXCEPT ![<<req[h].job, req[h].id>>] = action]
  /\ reported' = (reported \/ req[h].id = Report)
  /\ req' = [req EXCEPT ![h] = Idle]
  /\ UNCHANGED <<order, jobVars, evidence, last, exec, paidCallback, paidExecutor>>

-----------------------------------------------------------------------------
(* The award executor: Execute runs once, in a goroutine, on the order as  *)
(* it was when awarded.                                                    *)

First(S) == CHOOSE m \in S : \A k \in S : m <= k

runningMilestone(o) ==
  LET running   == {m \in Milestones : o.ms[m].state = "running"}
      unsettled == {m \in Milestones : o.ms[m].state # "settled"}
  IN  IF running # {} THEN First(running) ELSE First(unsettled)

ExecMilestone == runningMilestone(CreateOrder(Price))

ExecGoes(at) == exec' = [exec EXCEPT !.at = at]

(* An existing binding of the milestone is used again. *)
ExecBind ==
  /\ exec.at = "idle"
  /\ bound' = bound \cup {ExecMilestone}
  /\ ExecGoes("bound")
  /\ UNCHANGED <<order, jobSeq, job, evidence, ledgerVars, req, historyVars>>

ExecCreateJob ==
  /\ exec.at = "bound"
  /\ NewJob(ExecMilestone, ExecMilestone)
  /\ exec' = [exec EXCEPT !.at = "created", !.job = jobSeq + 1]
  /\ UNCHANGED <<order, bound, evidence, ledgerVars, req, historyVars>>

ExecStartJob ==
  /\ exec.at = "created"
  /\ job' = MovedIfPossible(exec.job, "running")
  /\ ExecGoes(IF CanMove(exec.job, "running") THEN "started" ELSE "failed")
  /\ UNCHANGED <<order, bound, jobSeq, evidence, ledgerVars, req, historyVars>>

(* The code agent is found or installed on the carrier; FailJob's own      *)
(* error is ignored.                                                       *)
ensureCarrierCodeAgentReady(ready) ==
  /\ exec.at = "started"
  /\ job' = IF ready THEN job ELSE MovedIfPossible(exec.job, "failed")
  /\ ExecGoes(IF ready THEN "running" ELSE "failed")
  /\ UNCHANGED <<order, bound, jobSeq, evidence, ledgerVars, req, historyVars>>

(* The run fails or is refused by policy, or its command ends with an      *)
(* error.                                                                  *)
ExecRunFails ==
  /\ exec.at = "running"
  /\ job' = MovedIfPossible(exec.job, "failed")
  /\ ExecGoes("failed")
  /\ UNCHANGED <<order, bound, jobSeq, evidence, ledgerVars, req, historyVars>>

(* With callbacks the command fails unless its report was answered with    *)
(* 200.                                                                    *)
ExecRunSucceeds ==
  /\ exec.at = "running"
  /\ exec.callbacks => reported
  /\ ExecGoes("ran")
  /\ UNCHANGED <<order, jobVars, evidence, ledgerVars, req, historyVars>>

ExecCheckJob ==
  /\ exec.at = "ran" /\ exec.callbacks
  /\ ExecGoes(IF job[exec.job].state = "completed" THEN "ok" ELSE "unready")
  /\ UNCHANGED <<order, jobVars, evidence, ledgerVars, req, historyVars>>

\* Fault: the executor gives up and leaves the job as it is.
ExecAbandonJob ==
  /\ exec.at = "unready"
  /\ ExecGoes("failed")
  /\ UNCHANGED <<order, jobVars, evidence, ledgerVars, req, historyVars>>

ExecFailJob ==
  /\ exec.at = "unready"
  /\ job' = MovedIfPossible(exec.job, "failed")
  /\ ExecGoes("failed")
  /\ UNCHANGED <<order, bound, jobSeq, evidence, ledgerVars, req, historyVars>>

ExecCompleteJob ==
  /\ exec.at = "ran" /\ ~exec.callbacks
  /\ job' = MovedIfPossible(exec.job, "completed")
  /\ ExecGoes(IF CanMove(exec.job, "completed") THEN "completed" ELSE "failed")
  /\ UNCHANGED <<order, bound, jobSeq, evidence, ledgerVars, req, historyVars>>

ExecSettle(saved, published) ==
  /\ exec.at = "completed"
  /\ published => saved
  /\ order' = IF SettlementSaved(ExecMilestone, saved) THEN Settle(order, ExecMilestone)
                                                       ELSE order
  /\ paidExecutor' = IF SettlementSaved(ExecMilestone, saved)
                       THEN paidExecutor \cup {exec.job} ELSE paidExecutor
  /\ ExecGoes(IF SettlementSaved(ExecMilestone, saved) /\ published THEN "ok" ELSE "failed")
  /\ UNCHANGED <<jobVars, evidence, ledgerVars, req, reported, paidCallback>>

-----------------------------------------------------------------------------
(* The order changes meanwhile: the route that settles a milestone. *)
handleSettleMilestone(m) ==
  /\ Payable(order.ms[m])
  /\ order' = Settle(order, m)
  /\ UNCHANGED <<jobVars, evidence, ledgerVars, req, exec, historyVars>>

-----------------------------------------------------------------------------
Created == 1 .. jobSeq

(* The bound on callbacks without an id: one at a time. *)
UnnamedLeft == \A h \in Handlers : req[h].at # "idle" => req[h].id # NoId

(* The bound on usage: no usage event arrives once it could be exceeded. *)
UsageLeft(j, type) ==
  type = "usage" => order.ms[job[j].ms].usage
                      + (IF \E h \in Handlers : req[h].type = "usage" THEN 1 ELSE 0) < MaxUsage

Receive(h) ==
  \E j \in Created :
    \/ \E type \in EventTypes : UsageLeft(j, type) /\
         \/ UnnamedLeft /\ ReceiveUnnamed(h, j, type)
         \/ \E id \in EventIds : Record(h, j, id, type)
    \/ \E id \in EventIds : Replay(h, j, id)

Process(h) ==
  \/ HandleTransition(h)
  \/ \E hasPayload \in BOOLEAN : HandleEvidence(h, hasPayload)
  \/ CompleteJob(h)
  \/ \E saved, published \in BOOLEAN :
       SettleFromCallback(h, saved, published) \/ recordUsageFromCallback(h, saved, published)
  \/ \E accepted \in BOOLEAN : HandleOther(h, accepted)
  \/ \E action \in Actions : Answer(h, action)

Execute ==
  \/ ExecBind \/ ExecCreateJob \/ ExecStartJob
  \/ \E ready \in BOOLEAN : ensureCarrierCodeAgentReady(ready)
  \/ ExecRunFails \/ ExecRunSucceeds
  \/ ExecCheckJob \/ ExecFailJob \/ ExecCompleteJob
  \/ \E saved, published \in BOOLEAN : ExecSettle(saved, published)

Routes ==
  \/ \E m \in Milestones : Bind(m) \/ handleSettleMilestone(m)
  \/ \E b, m \in Milestones : CreateJob(b, m)
  \/ \E j \in Created : SubmitEvidence(j) \/ \E to \in JobStates : MoveJob(j, to)

Next == (\E h \in Handlers : Receive(h) \/ Process(h)) \/ Execute \/ Routes

Spec == Init /\ [][Next]_vars

-----------------------------------------------------------------------------
Request == [at : {"idle", "recorded", "evidenced", "completed", "processed"},
            job : Jobs, id : EventIds \cup {NoId}, type : EventTypes]

(* Every variable keeps its type. *)
TypeOK ==
  /\ order \in Order
  /\ bound \subseteq Milestones
  /\ jobSeq \in 0 .. MaxJobs
  /\ job \in [Jobs -> [state : JobStates \cup {"none"}, ms : Milestones]]
  /\ evidence \subseteq Jobs
  /\ last \in [Jobs -> Nat]
  /\ decision \in [Events -> Actions \cup {Unrecorded, ""}]
  /\ req \in [Handlers -> Request]
  /\ exec \in [at : {"idle", "bound", "created", "started", "running", "ran",
                     "unready", "completed", "ok", "failed"},
               job : Jobs, callbacks : BOOLEAN]
  /\ reported \in BOOLEAN
  /\ paidCallback \subseteq Jobs /\ paidExecutor \subseteq Jobs

(* A payout through a job, by its callback or by the executor, is for a    *)
(* job that is completed and stays so, whichever of the two, or a route,   *)
(* tried to fail or cancel it meanwhile; a callback's payout comes with    *)
(* evidence that a dispute can refer to.                                   *)
PaidJobIsCompleted ==
  /\ \A j \in paidCallback \cup paidExecutor : job[j].state = "completed"
  /\ paidCallback \subseteq evidence

(* However often, in whatever order and while whichever delivery is being  *)
(* handled an event arrives, the ledger of an execution holds each         *)
(* sequence number at most once, none is missing between the first and the *)
(* last, and an event with an id is handled by one delivery only.          *)
LedgerInSequence ==
  /\ \A j \in Jobs :
       LET seen == {id \in EventIds : Recorded(j, id) /\ Sequence[id] > 0}
       IN  /\ \A a, b \in seen : Sequence[a] = Sequence[b] => a = b
           /\ seen # {} => \E first \in 1 .. last[j] :
                {Sequence[id] : id \in seen} = first .. last[j]
  /\ \A g, h \in Handlers :
       g # h /\ req[g].at # "idle" /\ req[h].at # "idle" /\ req[g].id # NoId =>
         <<req[g].job, req[g].id>> # <<req[h].job, req[h].id>>

(* Whatever way Execute returns, the job it created is decided, and a late *)
(* callback cannot change that any more.  When it reports success its      *)
(* milestone was paid out through its job, unless handling the report      *)
(* failed after it was recorded or is still going on: the answer to a      *)
(* repeated report hides that.                                             *)
ExecutorDecidesJob ==
  /\ exec.at \in {"ok", "failed"} => job[exec.job].state \in Terminal
  /\ exec.at = "ok" =>
       \/ exec.job \in paidCallback \cup paidExecutor
       \/ exec.callbacks /\ decision[<<exec.job, Report>>] = ""
=============================================================================
