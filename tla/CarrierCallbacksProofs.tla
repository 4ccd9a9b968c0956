----------------------- MODULE CarrierCallbacksProofs -----------------------
(***************************************************************************)
(* Callbacks, executor and routes around one order, for any numbers of     *)
(* jobs, handlers, events and milestones: the three invariants of          *)
(* CarrierCallbacks.                                                       *)
(*                                                                         *)
(* The inductive invariant says what a handler, the executor and the       *)
(* ledger know of the jobs.  Grows collects what no step takes back;       *)
(* whatever a step does not touch stays true by it.                        *)
(***************************************************************************)
EXTENDS CarrierCallbacks, WorkflowProofs

Early == {"idle", "bound", "created", "started"}

(* A callback under way: its event is in the ledger, and how far it is     *)
(* tells what is stored.                                                   *)
ReqInv(h) ==
  req[h].at # "idle" =>
    /\ req[h].job \in Created
    /\ req[h].id # NoId => Recorded(req[h].job, req[h].id)
    /\ req[h].id = Report => req[h].type = "ready"
    /\ req[h].at \in {"evidenced", "completed"} =>
         req[h].type = "ready" /\ req[h].job \in evidence
    /\ req[h].at = "completed" => job[req[h].job].state = "completed"
    /\ req[h].at = "processed" /\ req[h].type = "ready" => req[h].job \in paidCallback

ExecInv ==
  /\ exec.at \notin {"idle", "bound"} => exec.job \in Created
  /\ exec.at \notin {"idle", "bound", "created"} => job[exec.job].state # "pending"
  /\ exec.at = "completed" => job[exec.job].state = "completed" /\ ~exec.callbacks
  /\ exec.at \in {"ok", "failed"} => job[exec.job].state \in Terminal
  /\ exec.at \in {"ran", "unready", "ok"} /\ exec.callbacks => Recorded(exec.job, Report)
  /\ exec.at = "ok" /\ ~exec.callbacks => exec.job \in paidExecutor
  /\ reported => Recorded(exec.job, Report)

(* The report in the ledger is the executor's, and its decision is stored  *)
(* only after the payout.                                                  *)
ReportInv(j) ==
  Recorded(j, Report) =>
    /\ exec.job = j /\ exec.callbacks /\ exec.at \notin Early
    /\ decision[<<j, Report>>] = "" \/ j \in paidCallback

Seen(j) == {id \in EventIds : Recorded(j, id) /\ Sequence[id] > 0}

SeqInv(j) ==
  /\ \A a, b \in Seen(j) : Sequence[a] = Sequence[b] => a = b
  /\ last[j] = 0 => Seen(j) = {}
  /\ Seen(j) # {} => \E first \in 1 .. last[j] :
       /\ \A id \in Seen(j) : Sequence[id] \in first .. last[j]
       /\ \A n \in first .. last[j] : \E id \in Seen(j) : Sequence[id] = n

OneDelivery ==
  \A g, h \in Handlers :
     g # h /\ req[g].at # "idle" /\ req[h].at # "idle" /\ req[g].id # NoId =>
       <<req[g].job, req[g].id>> # <<req[h].job, req[h].id>>

JobInv == \A j \in Created : job[j].state \in JobStates

PaidInv == PaidJobIsCompleted /\ paidCallback \cup paidExecutor \subseteq Created

Inv ==
  /\ TypeOK /\ OrderInv(order)
  /\ JobInv /\ PaidInv /\ ExecInv
  /\ \A h \in Handlers : ReqInv(h)
  /\ \A j \in Jobs : ReportInv(j) /\ SeqInv(j)
  /\ OneDelivery

-----------------------------------------------------------------------------
(* What no step takes back: jobs move on, and evidence, payouts and ledger *)
(* entries stay.                                                           *)
JobsMoveOn ==
  /\ jobSeq <= jobSeq'
  /\ \A j \in Created :
       /\ job'[j].state \in JobStates
       /\ job[j].state \in Terminal => job'[j].state = job[j].state
       /\ job[j].state # "pending" => job'[j].state # "pending"

Grows ==
  /\ JobsMoveOn
  /\ evidence \subseteq evidence'
  /\ paidCallback \subseteq paidCallback' /\ paidExecutor \subseteq paidExecutor'
  /\ \A j \in Jobs, id \in EventIds : Recorded(j, id) => Recorded(j, id)'

(* The milestone the executor works for is the first. *)
LEMMA ExecFirst == ExecMilestone = 1 /\ 1 \in Milestones
<1> DEFINE o == CreateOrder(Price)
           running == {m \in Milestones : o.ms[m].state = "running"}
<1>1. 1 \in Milestones
  BY NAssumption DEF Milestones
<1>2. \A m \in Milestones : o.ms[m].state = IF m = 1 THEN "running" ELSE "pending"
  BY DEF CreateOrder
<1>3. running = {1}
  BY <1>1, <1>2
<1>4. First({1}) = 1
  BY DEF First
<1> QED
  BY <1>1, <1>3, <1>4, Zenon DEF ExecMilestone, runningMilestone

LEMMA JobTypes ==
  ASSUME Inv
  PROVE  /\ job \in [Jobs -> [state : JobStates \cup {"none"}, ms : Milestones]]
         /\ MaxJobs \in Nat /\ jobSeq \in 0 .. MaxJobs /\ jobSeq \in Nat
         /\ Created \subseteq Jobs
<1>1. MaxJobs \in Nat
  BY CarrierAssumption, Zenon
<1>2. jobSeq \in 0 .. MaxJobs /\ job \in [Jobs -> [state : JobStates \cup {"none"}, ms : Milestones]]
  BY Zenon DEF Inv, TypeOK
<1> QED
  BY <1>1, <1>2 DEF Created, Jobs

(* A move along validTransitions, or one that is refused. *)
LEMMA MoveJobs ==
  ASSUME Inv, NEW j \in Jobs, j \in Created, NEW to \in JobStates,
         job' \in {job, Moved(j, to)}, job' # job => CanMove(j, to), jobSeq' = jobSeq
  PROVE  /\ JobsMoveOn
         /\ job' \in [Jobs -> [state : JobStates \cup {"none"}, ms : Milestones]]
<1>1. job \in [Jobs -> [state : JobStates \cup {"none"}, ms : Milestones]] /\ jobSeq \in Nat
  BY JobTypes
<1>2. job' \in [Jobs -> [state : JobStates \cup {"none"}, ms : Milestones]]
  BY <1>1 DEF Moved, JobStates
<1>3. \A k \in Jobs : k # j => job'[k] = job[k]
  BY <1>1 DEF Moved
<1>4. job'[j].state = job[j].state \/ (job'[j].state = to /\ CanMove(j, to))
  BY <1>1 DEF Moved
<1>5. job[j].state \in JobStates
  BY DEF Inv, JobInv
<1>6. /\ job'[j].state \in JobStates
      /\ job[j].state \in Terminal => job'[j].state = job[j].state
      /\ job[j].state # "pending" => job'[j].state # "pending"
  BY <1>4, <1>5 DEF CanMove, canTransition, validTransitions, JobStates, Terminal
<1>7. Created \subseteq Jobs
  BY JobTypes
<1> QED
  BY <1>1, <1>2, <1>3, <1>6, <1>7 DEF JobsMoveOn, Inv, JobInv

(* A new job takes the next number. *)
LEMMA NewJobs ==
  ASSUME Inv, NEW b \in Milestones, NEW m \in Milestones, NewJob(b, m)
  PROVE  /\ JobsMoveOn /\ jobSeq' \in 1 .. MaxJobs /\ jobSeq' = jobSeq + 1
         /\ job' \in [Jobs -> [state : JobStates \cup {"none"}, ms : Milestones]]
         /\ job'[jobSeq + 1].state = "pending"
<1>1. /\ job \in [Jobs -> [state : JobStates \cup {"none"}, ms : Milestones]]
      /\ jobSeq \in Nat /\ MaxJobs \in Nat /\ jobSeq + 1 \in Jobs
  BY JobTypes DEF NewJob, Jobs
<1>2. \A k \in Created : k \in Jobs /\ k # jobSeq + 1
  BY <1>1 DEF Created, Jobs, NewJob
<1>3. \A k \in Created : job'[k] = job[k]
  BY <1>1, <1>2 DEF NewJob
<1>4. job' \in [Jobs -> [state : JobStates \cup {"none"}, ms : Milestones]]
  BY <1>1 DEF NewJob, JobStates
<1> QED
  BY <1>1, <1>3, <1>4 DEF NewJob, JobsMoveOn, Inv, JobInv, Jobs

LEMMA JobsUnmoved ==
  ASSUME Inv, UNCHANGED <<job, jobSeq>>
  PROVE  JobsMoveOn
BY JobTypes DEF Inv, JobInv, JobsMoveOn

-----------------------------------------------------------------------------
(* Untouched parts of the invariant stay true while the rest grows. *)

LEMMA CreatedGrows ==
  ASSUME Inv, JobsMoveOn, jobSeq' \in Nat
  PROVE  Created \subseteq Created'
BY JobTypes DEF JobsMoveOn, Created

LEMMA ReqKept ==
  ASSUME Inv, Grows, jobSeq' \in Nat, NEW h \in Handlers, req'[h] = req[h]
  PROVE  ReqInv(h)'
<1>1. ReqInv(h) /\ req[h].job \in Jobs /\ req[h].id \in EventIds \cup {NoId}
  BY Zenon DEF Inv, TypeOK, Request
<1>2. Created \subseteq Created'
  BY CreatedGrows DEF Grows
<1> QED
  BY <1>1, <1>2 DEF ReqInv, Grows, JobsMoveOn, Terminal

(* A request that has come to an end claims nothing. *)
LEMMA ReqIdle ==
  ASSUME NEW h \in Handlers, req'[h] = Idle
  PROVE  ReqInv(h)'
BY DEF ReqInv, Idle

(* A processed request keeps its facts: a ready job has been paid for. *)
LEMMA ReqProcessed ==
  ASSUME NEW h \in Handlers, req[h] \in Request, ReqInv(h), req[h].at # "idle",
         req'[h] = [req[h] EXCEPT !.at = "processed"],
         UNCHANGED <<job, jobSeq, evidence, last, decision>>,
         req[h].type = "ready" => req[h].job \in paidCallback'
  PROVE  ReqInv(h)'
<1>1. /\ req'[h].job = req[h].job /\ req'[h].id = req[h].id
      /\ req'[h].type = req[h].type /\ req'[h].at = "processed"
  BY DEF Request
<1>2. Created' = Created /\ \A j, i : Recorded(j, i)' <=> Recorded(j, i)
  BY Zenon DEF Created, Recorded
<1> QED
  BY <1>1, <1>2 DEF ReqInv

LEMMA PaidKept ==
  ASSUME Inv, Grows, jobSeq' \in Nat,
         \A j \in (paidCallback' \cup paidExecutor') \ (paidCallback \cup paidExecutor) :
            j \in Created /\ job[j].state = "completed",
         \A j \in paidCallback' \ paidCallback : j \in evidence
  PROVE  PaidInv'
<1>1. Created \subseteq Created'
  BY CreatedGrows DEF Grows
<1> QED
  BY <1>1 DEF Inv, PaidInv, PaidJobIsCompleted, Grows, JobsMoveOn, Terminal

LEMMA LedgerKept ==
  ASSUME Inv, UNCHANGED <<last, decision>>, NEW j \in Jobs
  PROVE  SeqInv(j)'
BY DEF Inv, SeqInv, Seen, Recorded

(* The report of a job, when the ledger and the executor's job are as      *)
(* before.                                                                 *)
LEMMA ReportKept ==
  ASSUME Inv, Grows, decision' = decision, NEW j \in Jobs,
         Recorded(j, Report) => exec'.job = exec.job /\ exec'.callbacks = exec.callbacks
                                /\ exec'.at \notin Early
  PROVE  ReportInv(j)'
BY Zenon DEF Inv, ReportInv, Recorded, Grows

LEMMA ExecKept ==
  ASSUME Inv, Grows, jobSeq' \in Nat, exec' = exec, reported' => reported
  PROVE  ExecInv'
<1>1. Created \subseteq Created'
  BY CreatedGrows DEF Grows
<1>2. ExecInv /\ exec.job \in Jobs /\ Report \in EventIds
  BY CarrierAssumption, Zenon DEF Inv, TypeOK
<1> QED
  BY <1>1, <1>2 DEF ExecInv, Grows, JobsMoveOn, Terminal

LEMMA JobsKept ==
  ASSUME Inv, JobsMoveOn, jobSeq' = jobSeq
  PROVE  JobInv'
BY DEF JobsMoveOn, JobInv, Created
-----------------------------------------------------------------------------
(* The steps of a callback after the ledger, up to the answer. *)

LEMMA HandlerStep ==
  ASSUME Inv, NEW h \in Handlers, TypeOK', OrderInv(order'), Grows,
         UNCHANGED <<jobSeq, last, decision, exec, reported, paidExecutor>>,
         \A g \in Handlers \ {h} : req'[g] = req[g],
         ReqInv(h)',
         req[h].at # "idle",
         req'[h].at # "idle" => req'[h].job = req[h].job /\ req'[h].id = req[h].id,
         \A j \in paidCallback' \ paidCallback :
            j \in Created /\ job[j].state = "completed" /\ j \in evidence
  PROVE  Inv'
<1>1. jobSeq' \in Nat
  BY JobTypes
<1>2. JobInv'
  BY JobsKept DEF Grows
<1>3. PaidInv'
  BY <1>1, PaidKept
<1>4. ExecInv'
  BY <1>1, ExecKept
<1>5. \A g \in Handlers : ReqInv(g)'
  BY <1>1, ReqKept
<1>6. \A j \in Jobs : ReportInv(j)' /\ SeqInv(j)'
  <2> SUFFICES ASSUME NEW j \in Jobs PROVE ReportInv(j)' /\ SeqInv(j)'
    OBVIOUS
  <2>1. SeqInv(j)'
    BY LedgerKept
  <2>2. Recorded(j, Report) => exec'.at \notin Early
    BY Zenon DEF Inv, ReportInv
  <2> QED
    BY <2>1, <2>2, ReportKept
<1>7. OneDelivery'
  BY DEF Inv, OneDelivery
<1> QED
  BY <1>2, <1>3, <1>4, <1>5, <1>6, <1>7 DEF Inv, Jobs

(* How a step of handler h may leave its request. *)
LEMMA ReqTypes ==
  ASSUME Inv, NEW h \in Handlers, NEW ok \in BOOLEAN,
         NEW at \in {"evidenced", "completed", "processed"}, GoesIf(h, ok, at)
  PROVE  /\ req' \in [Handlers -> Request]
         /\ \A g \in Handlers \ {h} : req'[g] = req[g]
         /\ req'[h] = IF ok THEN [req[h] EXCEPT !.at = at] ELSE Idle
<1>1. req \in [Handlers -> Request] /\ Idle \in Request
  <2>1. 1 \in Jobs
    <3>1. MaxJobs \in Nat \ {0}
      BY CarrierAssumption, Zenon
    <3> QED
      BY <3>1 DEF Jobs
  <2> QED
    BY <2>1, Zenon DEF Inv, TypeOK, Idle, Request, EventTypes
<1> QED
  BY <1>1 DEF GoesIf, Goes, Refused, Request

LEMMA ReqParts ==
  ASSUME Inv, NEW h \in Handlers
  PROVE  /\ req[h] \in Request /\ ReqInv(h)
         /\ req[h].at # "idle" => req[h].job \in Created /\ req[h].job \in Jobs
         /\ req[h].at # "idle" => job[req[h].job].ms \in Milestones
<1>1. req[h] \in Request /\ ReqInv(h)
  BY Zenon DEF Inv, TypeOK
<1> QED
  BY <1>1, JobTypes DEF ReqInv

LEMMA HandleTransitionInv ==
  ASSUME Inv, NEW h \in Handlers, HandleTransition(h)
  PROVE  Inv'
<1> DEFINE to == Target[req[h].type]
           j == req[h].job
           ok == CanMove(j, to)
<1>1. /\ req[h].at = "recorded" /\ req[h].type \in DOMAIN Target
      /\ job' = MovedIfPossible(j, to) /\ GoesIf(h, ok, "processed")
      /\ UNCHANGED <<order, bound, jobSeq, evidence, last, decision, exec,
                     reported, paidCallback, paidExecutor>>
  BY DEF HandleTransition, Works, ledgerVars, historyVars
<1>2. j \in Created /\ j \in Jobs /\ ReqInv(h) /\ req[h] \in Request
  BY <1>1, ReqParts
<1>3. to \in JobStates
  BY <1>1 DEF Target, JobStates
<1>4. /\ JobsMoveOn
      /\ job' \in [Jobs -> [state : JobStates \cup {"none"}, ms : Milestones]]
  BY <1>1, <1>2, <1>3, MoveJobs DEF MovedIfPossible
<1>5. Grows
  BY <1>1, <1>4 DEF Grows, Recorded
<1>6. /\ req' \in [Handlers -> Request]
      /\ \A g \in Handlers \ {h} : req'[g] = req[g]
      /\ req'[h] = IF ok THEN [req[h] EXCEPT !.at = "processed"] ELSE Idle
  <2>1. ok \in BOOLEAN
    BY DEF CanMove, canTransition
  <2> QED
    BY <1>1, <2>1, ReqTypes, Zenon
<1>7. TypeOK'
  BY <1>1, <1>4, <1>6, Zenon DEF Inv, TypeOK, Jobs, Events
<1>8. ReqInv(h)'
  BY <1>1, <1>2, <1>6 DEF ReqInv, Recorded, Created, Idle, Request, Target
<1>9. OrderInv(order')
  BY <1>1 DEF Inv
<1> QED
  BY <1>1, <1>5, <1>6, <1>7, <1>8, <1>9, HandlerStep DEF Idle, Request

LEMMA HandleEvidenceInv ==
  ASSUME Inv, NEW h \in Handlers, NEW ok \in BOOLEAN, HandleEvidence(h, ok)
  PROVE  Inv'
<1> DEFINE at == IF req[h].type = "ready" THEN "evidenced" ELSE "processed"
<1>1. /\ req[h].at = "recorded" /\ GoesIf(h, ok, at)
      /\ evidence' = IF ok THEN evidence \cup {req[h].job} ELSE evidence
      /\ UNCHANGED <<order, bound, jobSeq, job, last, decision, exec,
                     reported, paidCallback, paidExecutor>>
  BY DEF HandleEvidence, Works, ledgerVars, historyVars, jobVars
<1>2. req[h].job \in Created /\ req[h].job \in Jobs /\ ReqInv(h) /\ req[h] \in Request
  BY <1>1, ReqParts
<1>3. Grows
  BY <1>1, JobsUnmoved DEF Grows, Recorded
<1>4. /\ req' \in [Handlers -> Request]
      /\ \A g \in Handlers \ {h} : req'[g] = req[g]
      /\ req'[h] = IF ok THEN [req[h] EXCEPT !.at = at] ELSE Idle
  <2>1. at \in {"evidenced", "completed", "processed"}
    OBVIOUS
  <2> QED
    BY <1>1, <2>1, ReqTypes, Zenon
<1>5. TypeOK'
  BY <1>1, <1>2, <1>4, Zenon DEF Inv, TypeOK, Jobs, Events
<1>6. ReqInv(h)'
  BY <1>1, <1>2, <1>4 DEF ReqInv, Recorded, Created, Idle, Request
<1>7. OrderInv(order')
  BY <1>1 DEF Inv
<1> QED
  BY <1>1, <1>3, <1>4, <1>5, <1>6, <1>7, HandlerStep DEF Idle, Request

LEMMA CompleteJobInv ==
  ASSUME Inv, NEW h \in Handlers, CompleteJob(h)
  PROVE  Inv'
<1> DEFINE j == req[h].job
           ok == CanMove(j, "completed")
<1>1. /\ req[h].at = "evidenced" /\ req[h].type = "ready"
      /\ job' = MovedIfPossible(j, "completed") /\ GoesIf(h, ok, "completed")
      /\ UNCHANGED <<order, bound, jobSeq, evidence, last, decision, exec,
                     reported, paidCallback, paidExecutor>>
  BY DEF CompleteJob, Works, ledgerVars, historyVars
<1>2. j \in Created /\ j \in Jobs /\ ReqInv(h) /\ req[h] \in Request
  BY <1>1, ReqParts
<1>3. /\ JobsMoveOn
      /\ job' \in [Jobs -> [state : JobStates \cup {"none"}, ms : Milestones]]
  BY <1>1, <1>2, MoveJobs, Zenon DEF MovedIfPossible, JobStates
<1>4. Grows
  BY <1>1, <1>3 DEF Grows, Recorded
<1>5. /\ req' \in [Handlers -> Request]
      /\ \A g \in Handlers \ {h} : req'[g] = req[g]
      /\ req'[h] = IF ok THEN [req[h] EXCEPT !.at = "completed"] ELSE Idle
  <2>1. ok \in BOOLEAN
    BY DEF CanMove, canTransition
  <2> QED
    BY <1>1, <2>1, ReqTypes, Zenon
<1>6. TypeOK'
  BY <1>1, <1>3, <1>5, Zenon DEF Inv, TypeOK, Jobs, Events
<1>7. ok => job'[j].state = "completed"
  BY <1>1, <1>2, JobTypes DEF MovedIfPossible, Moved
<1>8. ReqInv(h)'
  BY <1>1, <1>2, <1>5, <1>7 DEF ReqInv, Recorded, Created, Idle, Request
<1>9. OrderInv(order')
  BY <1>1 DEF Inv
<1> QED
  BY <1>1, <1>4, <1>5, <1>6, <1>8, <1>9, HandlerStep DEF Idle, Request

LEMMA SettleFromCallbackInv ==
  ASSUME Inv, NEW h \in Handlers, NEW saved \in BOOLEAN, NEW published \in BOOLEAN,
         SettleFromCallback(h, saved, published)
  PROVE  Inv'
<1> DEFINE j == req[h].job
           m == job[j].ms
           paid == SettlementSaved(m, saved)
           ok == paid /\ published
<1>1. /\ req[h].at = "completed" /\ req[h].type = "ready" /\ GoesIf(h, ok, "processed")
      /\ order' = IF paid THEN Settle(order, m) ELSE order
      /\ paidCallback' = IF paid THEN paidCallback \cup {j} ELSE paidCallback
      /\ UNCHANGED <<bound, jobSeq, job, evidence, last, decision, exec,
                     reported, paidExecutor>>
  BY DEF SettleFromCallback, Works, ledgerVars, jobVars
<1>2. j \in Created /\ j \in Jobs /\ m \in Milestones /\ ReqInv(h) /\ req[h] \in Request
  BY <1>1, ReqParts
<1>3. OrderInv(order') /\ order' \in Order
  BY <1>1, <1>2, SettleInv, Zenon DEF Inv, SettlementSaved, OrderInv
<1>4. Grows
  BY <1>1, JobsUnmoved DEF Grows, Recorded
<1>5. /\ req' \in [Handlers -> Request]
      /\ \A g \in Handlers \ {h} : req'[g] = req[g]
      /\ req'[h] = IF ok THEN [req[h] EXCEPT !.at = "processed"] ELSE Idle
  <2>1. ok \in BOOLEAN
    BY DEF SettlementSaved
  <2> QED
    BY <1>1, <2>1, ReqTypes, ZenonT(30)
<1>6. TypeOK'
  BY <1>1, <1>2, <1>3, <1>5, Zenon DEF Inv, TypeOK, Jobs, Events
<1>7. ReqInv(h)'
  <2>1. CASE ~ok
    BY <1>5, <2>1, ReqIdle, Zenon
  <2>2. CASE ok
    <3>1. req[h].job \in paidCallback' /\ req'[h] = [req[h] EXCEPT !.at = "processed"]
      BY <1>1, <1>5, <2>2, Zenon
    <3>2. req[h].at # "idle"
      BY <1>1
    <3> QED
      BY <1>1, <1>2, <3>1, <3>2, ReqProcessed, Zenon
  <2> QED
    BY <2>1, <2>2, Zenon
<1>8. job[j].state = "completed" /\ j \in evidence
  BY <1>1, <1>2 DEF ReqInv
<1>9. \A k \in paidCallback' \ paidCallback :
        k \in Created /\ job[k].state = "completed" /\ k \in evidence
  BY <1>1, <1>2, <1>8, Zenon
<1>10. /\ req[h].at # "idle"
       /\ req'[h].at # "idle" => req'[h].job = req[h].job /\ req'[h].id = req[h].id
  BY <1>1, <1>2, <1>5 DEF Idle, Request
<1> QED
  BY <1>1, <1>3, <1>4, <1>5, <1>6, <1>7, <1>9, <1>10, HandlerStep, Zenon

LEMMA RecordUsageFromCallbackInv ==
  ASSUME Inv, NEW h \in Handlers, NEW saved \in BOOLEAN, NEW published \in BOOLEAN,
         recordUsageFromCallback(h, saved, published)
  PROVE  Inv'
<1> DEFINE m == job[req[h].job].ms
           charged == saved /\ AcceptsUsage(order.ms[m])
           ok == charged /\ published
<1>1. /\ req[h].at = "recorded" /\ req[h].type = "usage" /\ GoesIf(h, ok, "processed")
      /\ order' = IF charged THEN RecordUsage(order, m, 1) ELSE order
      /\ UNCHANGED <<bound, jobSeq, job, evidence, last, decision, exec,
                     reported, paidCallback, paidExecutor>>
  BY Zenon DEF recordUsageFromCallback, Works, ledgerVars, jobVars, historyVars
<1>2. req[h].job \in Created /\ m \in Milestones /\ ReqInv(h) /\ req[h] \in Request
  BY <1>1, ReqParts, Zenon
<1>3. OrderInv(order') /\ order' \in Order
  <2>1. charged => OrderInv(RecordUsage(order, m, 1))
    BY <1>2, RecordUsageInv DEF Inv
  <2> QED
    BY <1>1, <2>1, ZenonT(30) DEF Inv, OrderInv
<1>4. Grows
  BY <1>1, JobsUnmoved, ZenonT(30) DEF Grows, Recorded
<1>5. /\ req' \in [Handlers -> Request]
      /\ \A g \in Handlers \ {h} : req'[g] = req[g]
      /\ req'[h] \in {[req[h] EXCEPT !.at = "processed"], Idle}
  <2>1. ok \in BOOLEAN
    BY DEF AcceptsUsage
  <2> QED
    BY <1>1, <2>1, ReqTypes, Zenon
<1>6. TypeOK'
  BY <1>1, <1>3, <1>5, ZenonT(30) DEF Inv, TypeOK, Jobs, Events
<1>7. ReqInv(h)'
  <2>1. req[h].at # "idle" /\ req[h].type # "ready"
    BY <1>1, Zenon
  <2> QED
    BY <1>1, <1>2, <1>5, <2>1, ReqIdle, ReqProcessed, Zenon
<1> HIDE DEF m, charged, ok
<1> QED
  BY <1>1, <1>3, <1>4, <1>5, <1>6, <1>7, HandlerStep DEF Idle, Request

LEMMA HandleOtherInv ==
  ASSUME Inv, NEW h \in Handlers, NEW ok \in BOOLEAN, HandleOther(h, ok)
  PROVE  Inv'
<1>1. /\ req[h].at = "recorded" /\ req[h].type = "other" /\ GoesIf(h, ok, "processed")
      /\ UNCHANGED <<order, bound, jobSeq, job, evidence, last, decision, exec,
                     reported, paidCallback, paidExecutor>>
  BY DEF HandleOther, Works, ledgerVars, jobVars, historyVars
<1>2. req[h].job \in Created /\ ReqInv(h) /\ req[h] \in Request
  BY <1>1, ReqParts
<1>3. Grows
  BY <1>1, JobsUnmoved DEF Grows, Recorded
<1>4. /\ req' \in [Handlers -> Request]
      /\ \A g \in Handlers \ {h} : req'[g] = req[g]
      /\ req'[h] = IF ok THEN [req[h] EXCEPT !.at = "processed"] ELSE Idle
  BY <1>1, ReqTypes, Zenon
<1>5. TypeOK'
  BY <1>1, <1>4, Zenon DEF Inv, TypeOK, Jobs, Events
<1>6. ReqInv(h)'
  BY <1>1, <1>2, <1>4 DEF ReqInv, Recorded, Created, Idle, Request
<1>7. OrderInv(order')
  BY <1>1 DEF Inv
<1> QED
  BY <1>1, <1>3, <1>4, <1>5, <1>6, <1>7, HandlerStep DEF Idle, Request
-----------------------------------------------------------------------------
(* Arrival and answer. *)

LEMMA ReceiveUnnamedInv ==
  ASSUME Inv, NEW h \in Handlers, NEW j \in Created, NEW type \in EventTypes,
         ReceiveUnnamed(h, j, type)
  PROVE  Inv'
<1> DEFINE new == [at |-> "recorded", job |-> j, id |-> NoId, type |-> type]
<1>1. /\ req' = [req EXCEPT ![h] = new]
      /\ UNCHANGED <<order, bound, jobSeq, job, evidence, last, decision, exec,
                     reported, paidCallback, paidExecutor>>
  BY DEF ReceiveUnnamed, ledgerVars, jobVars, historyVars
<1>2. j \in Jobs /\ jobSeq' \in Nat
  BY <1>1, JobTypes
<1>3. Grows
  BY <1>1, JobsUnmoved DEF Grows, Recorded
<1>4. req \in [Handlers -> Request] /\ new \in Request
  BY <1>2, Zenon DEF Inv, TypeOK, Request
<1>5. req' \in [Handlers -> Request] /\ req'[h] = new /\ \A g \in Handlers \ {h} : req'[g] = req[g]
  BY <1>1, <1>4
<1>6. TypeOK'
  BY <1>1, <1>5, Zenon DEF Inv, TypeOK, Jobs, Events
<1>7. \A g \in Handlers : ReqInv(g)'
  <2>1. ReqInv(h)'
    BY <1>1, <1>5, CarrierAssumption, Zenon DEF ReqInv, Created
  <2> QED
    BY <1>2, <1>3, <1>5, <2>1, ReqKept
<1>8. PaidInv' /\ ExecInv' /\ JobInv'
  BY <1>1, <1>2, <1>3, PaidKept, ExecKept, JobsKept DEF Grows
<1>9. \A k \in Jobs : ReportInv(k)' /\ SeqInv(k)'
  <2>1. \A k \in Jobs : SeqInv(k)'
    BY <1>1, LedgerKept
  <2>2. \A k \in Jobs : ReportInv(k)'
    BY <1>1, Zenon DEF Inv, ReportInv, Recorded
  <2> QED
    BY <2>1, <2>2
<1>10. OneDelivery'
  <2>1. \A g \in Handlers : req[g].id # NoId /\ g # h => req'[g].id # req'[h].id
    BY <1>5
  <2> QED
    BY <1>5, <2>1 DEF Inv, OneDelivery
<1> QED
  BY <1>1, <1>6, <1>7, <1>8, <1>9, <1>10 DEF Inv, Jobs

(* The ledger with one more event: the sequence numbers stay an interval.  *)
LEMMA RecordSeq ==
  ASSUME Inv, NEW j \in Jobs, NEW id \in EventIds, ~Recorded(j, id), InSequence(j, id),
         last' = [last EXCEPT ![j] = Sequence[id]],
         \A k \in Jobs, i \in EventIds : Recorded(k, i)' <=> Recorded(k, i) \/ (k = j /\ i = id),
         NEW k \in Jobs
  PROVE  SeqInv(k)'
<1>1. /\ Sequence \in [EventIds -> Nat] /\ last \in [Jobs -> Nat] /\ SeqInv(k)
      /\ \A i \in EventIds : Sequence[i] \in Nat
  BY CarrierAssumption, Zenon DEF Inv, TypeOK
<1>2. CASE k # j
  <2>1. last'[k] = last[k]
    BY <1>1, <1>2
  <2>2. Seen(k)' = Seen(k)
    BY <1>2 DEF Seen
  <2> QED
    BY <1>1, <2>1, <2>2 DEF SeqInv
<1>3. CASE k = j
  <2>1. last'[j] = Sequence[id] /\ last[j] \in Nat
    BY <1>1
  <2>2. CASE Sequence[id] = 0
    <3>1. Seen(j)' = Seen(j) /\ last[j] = 0
      BY <1>1, <2>1, <2>2 DEF Seen, InSequence
    <3> QED
      BY <1>1, <1>3, <2>1, <2>2, <3>1 DEF SeqInv
  <2>3. CASE Sequence[id] > 0
    <3>1. Seen(j)' = Seen(j) \cup {id} /\ id \notin Seen(j)
      BY <2>3 DEF Seen
    <3>2. CASE Seen(j) = {}
      <4>1. Seen(j)' = {id}
        BY <3>1, <3>2
      <4> QED
        BY <1>1, <1>3, <2>1, <2>3, <4>1 DEF SeqInv
    <3>3. CASE Seen(j) # {}
      <4>1. PICK first \in 1 .. last[j] :
              /\ \A i \in Seen(j) : Sequence[i] \in first .. last[j]
              /\ \A n \in first .. last[j] : \E i \in Seen(j) : Sequence[i] = n
        BY <1>1, <1>3, <3>3 DEF SeqInv
      <4>2. last[j] > 0 /\ Sequence[id] = last[j] + 1 /\ first \in 1 .. last'[j]
        BY <1>1, <2>1, <4>1 DEF InSequence
      <4>3. \A i \in Seen(j)' : Sequence[i] \in first .. last'[j]
        BY <2>1, <3>1, <4>1, <4>2
      <4>4. \A n \in first .. last'[j] : \E i \in Seen(j)' : Sequence[i] = n
        <5> SUFFICES ASSUME NEW n \in first .. last'[j]
                     PROVE  \E i \in Seen(j)' : Sequence[i] = n
          OBVIOUS
        <5>1. n \in first .. last[j] \/ n = Sequence[id]
          BY <2>1, <4>2
        <5> QED
          BY <3>1, <4>1, <5>1
      <4>5. \A a, b \in Seen(j)' : Sequence[a] = Sequence[b] => a = b
        <5>1. \A a \in Seen(j) : Sequence[a] # Sequence[id]
          BY <1>1, <2>1, <4>1, <4>2
        <5> QED
          BY <1>1, <1>3, <3>1, <5>1 DEF SeqInv
      <4>6. last'[j] # 0
        BY <2>1, <2>3
      <4> QED
        BY <1>3, <4>2, <4>3, <4>4, <4>5, <4>6 DEF SeqInv
    <3> QED
      BY <3>2, <3>3
  <2> QED
    BY <1>1, <2>2, <2>3
<1> QED
  BY <1>2, <1>3

LEMMA RecordInv ==
  ASSUME Inv, NEW h \in Handlers, NEW j \in Created, NEW id \in EventIds,
         NEW type \in EventTypes, Record(h, j, id, type)
  PROVE  Inv'
<1> DEFINE new == [at |-> "recorded", job |-> j, id |-> id, type |-> type]
<1>1. /\ req' = [req EXCEPT ![h] = new] /\ ~Recorded(j, id) /\ InSequence(j, id)
      /\ Deliverable(j, id, type)
      /\ last' = [last EXCEPT ![j] = Sequence[id]]
      /\ decision' = [decision EXCEPT ![<<j, id>>] = ""]
      /\ UNCHANGED <<order, bound, jobSeq, job, evidence, exec,
                     reported, paidCallback, paidExecutor>>
  BY Zenon DEF Record, jobVars, historyVars
<1>2. j \in Jobs /\ jobSeq' \in Nat /\ <<j, id>> \in Events
  BY <1>1, JobTypes, Zenon DEF Events
<1>3. /\ decision \in [Events -> Actions \cup {Unrecorded, ""}]
      /\ last \in [Jobs -> Nat] /\ Sequence[id] \in Nat
  BY CarrierAssumption, Zenon DEF Inv, TypeOK
<1>4. \A k \in Jobs, i \in EventIds :
        /\ Recorded(k, i)' <=> Recorded(k, i) \/ (k = j /\ i = id)
        /\ decision'[<<k, i>>] = IF k = j /\ i = id THEN "" ELSE decision[<<k, i>>]
  BY <1>1, <1>2, <1>3, Zenon DEF Recorded, Unrecorded, Events
<1>5. Grows
  BY <1>1, <1>4, JobsUnmoved, Zenon DEF Grows
<1>6. req \in [Handlers -> Request] /\ new \in Request
  BY <1>2, Zenon DEF Inv, TypeOK, Request
<1>7. req' \in [Handlers -> Request] /\ req'[h] = new /\ \A g \in Handlers \ {h} : req'[g] = req[g]
  BY <1>1, <1>6, ZenonT(30)
<1>8. TypeOK'
  <2>1. last' \in [Jobs -> Nat] /\ decision' \in [Events -> Actions \cup {Unrecorded, ""}]
    BY <1>1, <1>3, ZenonT(30)
  <2> QED
    BY <1>1, <1>7, <2>1, Zenon DEF Inv, TypeOK, Jobs, Events
<1>9. \A g \in Handlers : ReqInv(g)'
  <2>1. ReqInv(h)'
    BY <1>1, <1>2, <1>4, <1>7, ZenonT(30) DEF ReqInv, Created, Deliverable
  <2> QED
    BY <1>2, <1>5, <1>7, <2>1, ReqKept, ZenonT(30)
<1>10. PaidInv' /\ ExecInv' /\ JobInv'
  BY <1>1, <1>2, <1>5, PaidKept, ExecKept, JobsKept, Zenon DEF Grows
<1>11. \A k \in Jobs : SeqInv(k)'
  BY <1>1, <1>2, <1>4, RecordSeq, Zenon
<1>12. \A k \in Jobs : ReportInv(k)'
  <2> SUFFICES ASSUME NEW k \in Jobs PROVE ReportInv(k)'
    OBVIOUS
  <2>1. Report \in EventIds /\ ReportInv(k)
    BY CarrierAssumption, Zenon DEF Inv
  <2>2. /\ Recorded(k, Report)' <=> Recorded(k, Report) \/ (k = j /\ Report = id)
        /\ decision'[<<k, Report>>] = IF k = j /\ Report = id THEN "" ELSE decision[<<k, Report>>]
    BY <1>4, <2>1, Zenon
  <2>3. exec' = exec /\ paidCallback' = paidCallback
    BY <1>1, ZenonT(30)
  <2>4. CASE k = j /\ Report = id
    <3>1. exec.job = k /\ exec.callbacks /\ exec.at \notin Early
      BY <1>1, <2>4, ZenonT(30) DEF Deliverable, Early
    <3> QED
      BY <2>2, <2>3, <2>4, <3>1, Zenon DEF ReportInv
  <2>5. CASE ~(k = j /\ Report = id)
    BY <2>1, <2>2, <2>3, <2>5, Zenon DEF ReportInv
  <2> QED
    BY <2>4, <2>5
<1>13. OneDelivery'
  <2>1. \A g \in Handlers \ {h} :
          req[g].at # "idle" => <<req[g].job, req[g].id>> # <<j, id>>
    <3> SUFFICES ASSUME NEW g \in Handlers \ {h}, req[g].at # "idle",
                        req[g].job = j, req[g].id = id
                 PROVE  FALSE
      OBVIOUS
    <3>1. ReqInv(g) /\ id # NoId
      BY CarrierAssumption, ZenonT(30) DEF Inv
    <3> QED
      BY <1>1, <3>1, Zenon DEF ReqInv
  <2>2. req'[h].job = j /\ req'[h].id = id
    BY <1>7
  <2>3. OneDelivery
    BY DEF Inv
  <2> SUFFICES ASSUME NEW f \in Handlers, NEW g \in Handlers, f # g,
                      req'[f].at # "idle", req'[g].at # "idle", req'[f].id # NoId
               PROVE  <<req'[f].job, req'[f].id>> # <<req'[g].job, req'[g].id>>
    BY DEF OneDelivery
  <2>4. CASE f = h
    BY <1>7, <2>1, <2>2, <2>4
  <2>5. CASE g = h
    BY <1>7, <2>1, <2>2, <2>5
  <2>6. CASE f # h /\ g # h
    <3>1. req'[f] = req[f] /\ req'[g] = req[g]
      BY <1>7, <2>6
    <3> QED
      BY <2>3, <3>1 DEF OneDelivery
  <2> QED
    BY <2>4, <2>5, <2>6
<1> QED
  BY <1>1, <1>8, <1>9, <1>10, <1>11, <1>12, <1>13, Zenon DEF Inv, Jobs

LEMMA ReplayInv ==
  ASSUME Inv, NEW h \in Handlers, NEW j \in Created, NEW id \in EventIds, Replay(h, j, id)
  PROVE  Inv'
<1>1. /\ Recorded(j, id) /\ reported' = (reported \/ id = Report)
      /\ UNCHANGED <<order, bound, jobSeq, job, evidence, last, decision, req, exec,
                     paidCallback, paidExecutor>>
  BY DEF Replay, ledgerVars, jobVars
<1>2. j \in Jobs /\ jobSeq' \in Nat
  BY <1>1, JobTypes
<1>3. Grows
  BY <1>1, JobsUnmoved DEF Grows, Recorded
<1>4. TypeOK'
  BY <1>1, Zenon DEF Inv, TypeOK, Jobs, Events
<1>5. \A g \in Handlers : ReqInv(g)'
  BY <1>1, <1>2, <1>3, ReqKept
<1>6. PaidInv' /\ JobInv'
  BY <1>1, <1>2, <1>3, PaidKept, JobsKept, ZenonT(30) DEF Grows
<1>7. ExecInv'
  <2>1. id = Report => Recorded(exec.job, Report)
    BY <1>1, <1>2, Zenon DEF Inv, ReportInv
  <2> QED
    BY <1>1, <2>1, Zenon DEF Inv, ExecInv, Created, Recorded
<1>8. \A k \in Jobs : ReportInv(k)' /\ SeqInv(k)'
  <2>1. \A k \in Jobs : SeqInv(k)'
    BY <1>1, LedgerKept
  <2>2. \A k \in Jobs : ReportInv(k)'
    BY <1>1, ZenonT(30) DEF Inv, ReportInv, Recorded
  <2> QED
    BY <2>1, <2>2
<1>9. OneDelivery'
  BY <1>1 DEF Inv, OneDelivery
<1> QED
  BY <1>1, <1>4, <1>5, <1>6, <1>7, <1>8, <1>9 DEF Inv, Jobs

LEMMA AnswerInv ==
  ASSUME Inv, NEW h \in Handlers, NEW action \in Actions, Answer(h, action)
  PROVE  Inv'
<1> DEFINE j == req[h].job
           id == req[h].id
<1>1. /\ req[h].at = "processed"
      /\ decision' = IF id = NoId THEN decision ELSE [decision EXCEPT ![<<j, id>>] = action]
      /\ reported' = (reported \/ id = Report)
      /\ req' = [req EXCEPT ![h] = Idle]
      /\ UNCHANGED <<order, bound, jobSeq, job, evidence, last, exec,
                     paidCallback, paidExecutor>>
  BY DEF Answer, jobVars
<1>2. /\ j \in Jobs /\ j \in Created /\ jobSeq' \in Nat /\ req[h] \in Request /\ ReqInv(h)
      /\ id # NoId => id \in EventIds /\ <<j, id>> \in Events
  BY <1>1, JobTypes, ReqParts DEF Events, Request
<1>3. /\ decision \in [Events -> Actions \cup {Unrecorded, ""}]
      /\ action # Unrecorded /\ Report \in EventIds /\ Report # NoId
  BY CarrierAssumption, Zenon DEF Inv, TypeOK, Unrecorded
<1>4. \A k \in Jobs, i \in EventIds :
        /\ Recorded(k, i)' <=> Recorded(k, i)
        /\ decision'[<<k, i>>] = decision[<<k, i>>] \/ (k = j /\ i = id)
  <2> SUFFICES ASSUME NEW k \in Jobs, NEW i \in EventIds
               PROVE  /\ Recorded(k, i)' <=> Recorded(k, i)
                      /\ decision'[<<k, i>>] = decision[<<k, i>>] \/ (k = j /\ i = id)
    BY Zenon
  <2>1. i = id => id # NoId
    BY CarrierAssumption, ZenonT(30)
  <2>2. i = id /\ k = j => Recorded(k, i) /\ decision'[<<k, i>>] = action
    BY <1>1, <1>2, <1>3, <2>1, ZenonT(30) DEF ReqInv
  <2>3. ~(i = id /\ k = j) => decision'[<<k, i>>] = decision[<<k, i>>]
    BY <1>1, <1>2, <1>3, Zenon DEF Events
  <2> QED
    BY <1>3, <2>2, <2>3, ZenonT(30) DEF Recorded
<1>5. Grows
  BY <1>1, <1>4, JobsUnmoved, Zenon DEF Grows
<1>6. Idle \in Request
  <2>1. 1 \in Jobs
    BY <1>2, JobTypes DEF Jobs
  <2> QED
    BY <2>1 DEF Idle, Request, EventTypes
<1>7. req' \in [Handlers -> Request] /\ req'[h] = Idle /\ \A g \in Handlers \ {h} : req'[g] = req[g]
  BY <1>1, <1>6, Zenon DEF Inv, TypeOK
<1>8. TypeOK'
  <2>1. decision' \in [Events -> Actions \cup {Unrecorded, ""}]
    BY <1>1, <1>3, Zenon
  <2>2. reported' \in BOOLEAN
    BY <1>1
  <2> QED
    BY <1>1, <1>7, <2>1, <2>2, Zenon DEF Inv, TypeOK, Jobs, Events
<1>9. \A g \in Handlers : ReqInv(g)'
  <2>1. ReqInv(h)'
    BY <1>7, ReqIdle, Zenon
  <2> QED
    <3>1. ASSUME NEW g \in Handlers, g # h PROVE ReqInv(g)'
      <4>1. jobSeq' \in Nat /\ req'[g] = req[g]
        BY <1>1, <1>2, <1>7, <3>1, JobTypes, Zenon
      <4> QED
        BY <1>5, <4>1, ReqKept, Zenon
    <3> QED
      BY <2>1, <3>1, Zenon
<1>10. PaidInv' /\ JobInv'
  BY <1>1, <1>2, <1>5, PaidKept, JobsKept, Zenon DEF Grows
<1>11. id = Report => exec.job = j /\ Recorded(j, Report) /\ j \in paidCallback
  BY <1>1, <1>2, <1>3, ZenonT(30) DEF ReqInv, Inv, ReportInv
<1>12. ExecInv'
  <2>1. exec.job \in Jobs /\ ExecInv
    BY Zenon DEF Inv, TypeOK
  <2>2. Recorded(exec.job, Report)' <=> Recorded(exec.job, Report)
    BY <1>1, <1>3, <1>4, <2>1, Zenon DEF Recorded
  <2>3. exec' = exec /\ Created' = Created /\ job' = job /\ paidExecutor' = paidExecutor
    BY <1>1 DEF Created
  <2> QED
    BY <1>1, <1>11, <2>1, <2>2, <2>3, Zenon DEF ExecInv, Recorded
<1>13. \A k \in Jobs : SeqInv(k)'
  <2> SUFFICES ASSUME NEW k \in Jobs PROVE SeqInv(k)'
    OBVIOUS
  <2>1. Seen(k)' = Seen(k)
    BY <1>4, Zenon DEF Seen
  <2> QED
    BY <1>1, <2>1 DEF Inv, SeqInv
<1>14. \A k \in Jobs : ReportInv(k)'
  <2> SUFFICES ASSUME NEW k \in Jobs PROVE ReportInv(k)'
    OBVIOUS
  <2>1. ReportInv(k) /\ (Recorded(k, Report)' <=> Recorded(k, Report))
    BY <1>3, <1>4, Zenon DEF Inv
  <2>2. decision'[<<k, Report>>] = decision[<<k, Report>>] \/ k \in paidCallback
    BY <1>3, <1>4, <1>11, Zenon
  <2> QED
    BY <1>1, <2>1, <2>2, Zenon DEF ReportInv, Recorded
<1>15. OneDelivery'
  <2> SUFFICES ASSUME NEW f \in Handlers, NEW g \in Handlers, f # g,
                      req'[f].at # "idle", req'[g].at # "idle", req'[f].id # NoId
               PROVE  <<req'[f].job, req'[f].id>> # <<req'[g].job, req'[g].id>>
    BY DEF OneDelivery
  <2>1. f # h /\ g # h
    BY <1>7 DEF Idle
  <2>2. req'[f] = req[f] /\ req'[g] = req[g]
    BY <1>7, <2>1
  <2>3. OneDelivery
    BY DEF Inv
  <2> QED
    BY <2>2, <2>3 DEF OneDelivery
<1> QED
  BY <1>1, <1>8, <1>9, <1>10, <1>12, <1>13, <1>14, <1>15 DEF Inv, Jobs
-----------------------------------------------------------------------------
(* The routes and the executor leave ledger and requests alone. *)

LEMMA OtherStep ==
  ASSUME Inv, TypeOK', OrderInv(order'), Grows, JobInv',
         UNCHANGED <<last, decision, req, paidCallback>>,
         \A j \in paidExecutor' \ paidExecutor : j \in Created /\ job[j].state = "completed",
         ExecInv',
         \A j \in Jobs : Recorded(j, Report) =>
            exec'.job = exec.job /\ exec'.callbacks = exec.callbacks /\ exec'.at \notin Early
  PROVE  Inv'
<1>1. jobSeq' \in Nat
  <2>1. MaxJobs \in Nat /\ jobSeq' \in 0 .. MaxJobs
    BY JobTypes, Zenon DEF TypeOK
  <2> QED
    BY <2>1
<1>2. PaidInv'
  BY <1>1, PaidKept
<1>3. \A g \in Handlers : ReqInv(g)'
  BY <1>1, ReqKept
<1>4. \A j \in Jobs : SeqInv(j)'
  BY LedgerKept
<1>5. \A j \in Jobs : ReportInv(j)'
  BY ReportKept
<1>6. OneDelivery'
  BY DEF Inv, OneDelivery
<1> QED
  BY <1>2, <1>3, <1>4, <1>5, <1>6 DEF Inv, Jobs

LEMMA ReportKnown ==
  ASSUME Inv, NEW j \in Jobs, Recorded(j, Report)
  PROVE  exec.job = j /\ exec.callbacks /\ exec.at \notin Early
BY Zenon DEF Inv, ReportInv

LEMMA RoutesInv ==
  ASSUME Inv, Routes
  PROVE  Inv'
<1>1. ASSUME NEW m \in Milestones, Bind(m)
      PROVE  Inv'
  <2>1. UNCHANGED <<order, jobSeq, job, evidence, last, decision, req, exec,
                    reported, paidCallback, paidExecutor>> /\ bound' = bound \cup {m}
    BY <1>1 DEF Bind, ledgerVars, historyVars
  <2>2. TypeOK'
    BY <2>1, Zenon DEF Inv, TypeOK, Jobs, Events
  <2>3. Grows /\ jobSeq' \in Nat
    BY <2>1, JobsUnmoved, JobTypes DEF Grows, Recorded
  <2>4. ExecInv' /\ JobInv' /\ OrderInv(order')
    BY <2>1, <2>3, ExecKept, JobsKept DEF Grows, Inv
  <2> QED
    BY <2>1, <2>2, <2>3, <2>4, ReportKnown, OtherStep
<1>2. ASSUME NEW m \in Milestones, handleSettleMilestone(m)
      PROVE  Inv'
  <2>1. /\ UNCHANGED <<bound, jobSeq, job, evidence, last, decision, req, exec,
                       reported, paidCallback, paidExecutor>>
        /\ order' = Settle(order, m) /\ Payable(order.ms[m])
    BY <1>2 DEF handleSettleMilestone, jobVars, ledgerVars, historyVars
  <2>2. OrderInv(order') /\ order' \in Order
    BY <2>1, SettleInv DEF Inv, OrderInv
  <2>3. TypeOK'
    BY <2>1, <2>2, ZenonT(30) DEF Inv, TypeOK, Jobs, Events
  <2>4. Grows /\ jobSeq' \in Nat
    BY <2>1, JobsUnmoved, JobTypes, Zenon DEF Grows, Recorded
  <2>5. ExecInv' /\ JobInv'
    BY <2>1, <2>4, ExecKept, JobsKept DEF Grows
  <2> QED
    BY <2>1, <2>2, <2>3, <2>4, <2>5, ReportKnown, OtherStep
<1>3. ASSUME NEW b \in Milestones, NEW m \in Milestones, CreateJob(b, m)
      PROVE  Inv'
  <2>1. /\ UNCHANGED <<order, bound, evidence, last, decision, req, exec,
                       reported, paidCallback, paidExecutor>>
        /\ NewJob(b, m)
    BY <1>3 DEF CreateJob, ledgerVars, historyVars
  <2>2. /\ JobsMoveOn /\ jobSeq' \in 1 .. MaxJobs /\ jobSeq' = jobSeq + 1
        /\ job' \in [Jobs -> [state : JobStates \cup {"none"}, ms : Milestones]]
        /\ job'[jobSeq + 1].state = "pending"
    BY <2>1, NewJobs
  <2>3. jobSeq \in Nat /\ jobSeq' \in Nat /\ jobSeq' \in 0 .. MaxJobs
    BY <2>2, JobTypes
  <2>4. TypeOK'
    BY <2>1, <2>2, <2>3, ZenonT(30) DEF Inv, TypeOK, Jobs, Events
  <2>5. Grows
    BY <2>1, <2>2, ZenonT(30) DEF Grows, Recorded
  <2>6. JobInv'
    BY <2>2, <2>3 DEF JobInv, JobsMoveOn, Created, JobStates
  <2>7. ExecInv' /\ OrderInv(order')
    BY <2>1, <2>3, <2>5, ExecKept DEF Inv
  <2> QED
    BY <2>1, <2>4, <2>5, <2>6, <2>7, ReportKnown, OtherStep
<1>4. ASSUME NEW j \in Created, SubmitEvidence(j)
      PROVE  Inv'
  <2>1. UNCHANGED <<order, bound, jobSeq, job, last, decision, req, exec,
                    reported, paidCallback, paidExecutor>> /\ evidence' = evidence \cup {j}
    BY <1>4 DEF SubmitEvidence, jobVars, ledgerVars, historyVars
  <2>2. TypeOK'
    BY <2>1, JobTypes, Zenon DEF Inv, TypeOK, Jobs, Events
  <2>3. Grows /\ jobSeq' \in Nat
    BY <2>1, JobsUnmoved, JobTypes DEF Grows, Recorded
  <2>4. ExecInv' /\ JobInv' /\ OrderInv(order')
    BY <2>1, <2>3, ExecKept, JobsKept DEF Grows, Inv
  <2> QED
    BY <2>1, <2>2, <2>3, <2>4, ReportKnown, OtherStep
<1>5. ASSUME NEW j \in Created, NEW to \in JobStates, MoveJob(j, to)
      PROVE  Inv'
  <2>1. /\ UNCHANGED <<order, bound, jobSeq, evidence, last, decision, req, exec,
                       reported, paidCallback, paidExecutor>>
        /\ job' = Moved(j, to) /\ CanMove(j, to)
    BY <1>5 DEF MoveJob, CanMove, ledgerVars, historyVars
  <2>2. /\ JobsMoveOn
        /\ job' \in [Jobs -> [state : JobStates \cup {"none"}, ms : Milestones]]
    BY <2>1, JobTypes, MoveJobs
  <2>3. TypeOK'
    BY <2>1, <2>2, ZenonT(30) DEF Inv, TypeOK, Jobs, Events
  <2>4. Grows /\ jobSeq' \in Nat
    BY <2>1, <2>2, JobTypes DEF Grows, Recorded
  <2>5. ExecInv' /\ JobInv' /\ OrderInv(order')
    BY <2>1, <2>2, <2>4, ExecKept, JobsKept DEF Inv
  <2> QED
    BY <2>1, <2>3, <2>4, <2>5, ReportKnown, OtherStep
<1> QED
  BY <1>1, <1>2, <1>3, <1>4, <1>5 DEF Routes

(* A step of the executor that moves its job or leaves it alone. *)
LEMMA ExecStep ==
  ASSUME Inv, NEW to \in JobStates, NEW at,
         exec.at \notin {"idle", "bound"},
         job' \in {job, Moved(exec.job, to)}, job' # job => CanMove(exec.job, to),
         exec' = [exec EXCEPT !.at = at],
         at \in {"started", "running", "ran", "unready", "completed", "ok", "failed"},
         at = "started" => exec.at = "created",
         UNCHANGED <<bound, jobSeq, evidence, last, decision, req, reported, paidCallback>>,
         OrderInv(order'),
         paidExecutor \subseteq paidExecutor',
         \A j \in paidExecutor' \ paidExecutor : j \in Created /\ job[j].state = "completed",
         job'[exec.job].state # "pending",
         at = "completed" => job'[exec.job].state = "completed" /\ ~exec.callbacks,
         at \in {"ok", "failed"} => job'[exec.job].state \in Terminal,
         at \in {"ran", "unready", "ok"} /\ exec.callbacks => Recorded(exec.job, Report),
         at = "ok" /\ ~exec.callbacks => exec.job \in paidExecutor'
  PROVE  Inv'
<1>1. exec.job \in Created /\ exec.job \in Jobs /\ Created \subseteq Jobs
  BY JobTypes DEF Inv, ExecInv
<1>2. /\ JobsMoveOn
      /\ job' \in [Jobs -> [state : JobStates \cup {"none"}, ms : Milestones]]
  BY <1>1, MoveJobs
<1>3. exec'.at = at /\ exec'.job = exec.job /\ exec'.callbacks = exec.callbacks
      /\ exec' \in [at : {"idle", "bound", "created", "started", "running", "ran",
                           "unready", "completed", "ok", "failed"},
                     job : Jobs, callbacks : BOOLEAN]
  BY Zenon DEF Inv, TypeOK
<1>4. paidExecutor' \subseteq Jobs
  BY <1>1, Zenon DEF Inv, TypeOK
<1>5. TypeOK'
  <2>1. order' \in Order
    BY DEF OrderInv
  <2> QED
    BY <1>2, <1>3, <1>4, <2>1, Zenon DEF Inv, TypeOK, Jobs, Events
<1>6. Grows
  BY <1>2 DEF Grows, Recorded
<1>7. JobInv'
  BY <1>2, JobsKept
<1>8. ExecInv'
  BY <1>1, <1>3 DEF Inv, ExecInv, Created, Recorded
<1>9. ASSUME NEW j \in Jobs, Recorded(j, Report)
      PROVE  exec'.job = exec.job /\ exec'.callbacks = exec.callbacks /\ exec'.at \notin Early
  BY <1>3, <1>9, ReportKnown DEF Early
<1> QED
  BY <1>5, <1>6, <1>7, <1>8, <1>9, OtherStep

(* The outcome of an attempted move of the executor's job. *)
LEMMA ExecMove ==
  ASSUME Inv, exec.at \notin {"idle", "bound"}, NEW to \in JobStates \ {"pending"},
         job' = MovedIfPossible(exec.job, to)
  PROVE  /\ job' \in {job, Moved(exec.job, to)} /\ (job' # job => CanMove(exec.job, to))
         /\ CanMove(exec.job, to) => job'[exec.job].state = to
         /\ ~CanMove(exec.job, to) => job'[exec.job] = job[exec.job]
         /\ job[exec.job].state \in JobStates
<1>1. exec.job \in Created /\ exec.job \in Jobs
  BY JobTypes DEF Inv, ExecInv
<1> QED
  BY <1>1, JobTypes DEF MovedIfPossible, Moved, Inv, JobInv
-----------------------------------------------------------------------------
(* The executor, step by step. *)

LEMMA ExecBindInv ==
  ASSUME Inv, ExecBind
  PROVE  Inv'
<1>1. /\ UNCHANGED <<order, jobSeq, job, evidence, last, decision, req,
                     reported, paidCallback, paidExecutor>>
      /\ bound' = bound \cup {ExecMilestone}
      /\ exec.at = "idle" /\ exec' = [exec EXCEPT !.at = "bound"]
  BY DEF ExecBind, ExecGoes, ledgerVars, historyVars
<1>2. \A j \in Jobs : ~Recorded(j, Report)
  BY <1>1, ReportKnown DEF Early
<1>3. exec'.at = "bound" /\ exec'.job = exec.job /\ exec'.job \in Jobs
      /\ exec' \in [at : {"idle", "bound", "created", "started", "running", "ran",
                           "unready", "completed", "ok", "failed"},
                     job : Jobs, callbacks : BOOLEAN]
  BY <1>1, Zenon DEF Inv, TypeOK
<1>4. TypeOK'
  BY <1>1, <1>3, ExecFirst, Zenon DEF Inv, TypeOK, Jobs, Events
<1>5. Grows
  BY <1>1, JobsUnmoved DEF Grows, Recorded
<1>6. JobInv' /\ OrderInv(order')
  BY <1>1, <1>5, JobsKept DEF Grows, Inv
<1>7. ExecInv'
  BY <1>1, <1>3 DEF Inv, ExecInv, Recorded
<1> QED
  BY <1>1, <1>2, <1>4, <1>5, <1>6, <1>7, OtherStep

LEMMA ExecCreateJobInv ==
  ASSUME Inv, ExecCreateJob
  PROVE  Inv'
<1>1. /\ UNCHANGED <<order, bound, evidence, last, decision, req,
                     reported, paidCallback, paidExecutor>>
      /\ NewJob(ExecMilestone, ExecMilestone) /\ exec.at = "bound"
      /\ exec' = [exec EXCEPT !.at = "created", !.job = jobSeq + 1]
  BY DEF ExecCreateJob, ledgerVars, historyVars
<1>2. ExecMilestone \in Milestones
  BY ExecFirst
<1>3. /\ JobsMoveOn /\ jobSeq' \in 1 .. MaxJobs /\ jobSeq' = jobSeq + 1
      /\ job' \in [Jobs -> [state : JobStates \cup {"none"}, ms : Milestones]]
      /\ job'[jobSeq + 1].state = "pending"
  BY <1>1, <1>2, NewJobs
<1>4. jobSeq \in Nat /\ jobSeq' \in 0 .. MaxJobs /\ jobSeq + 1 \in Jobs /\ jobSeq + 1 \in Created'
  BY <1>3, JobTypes DEF Jobs, Created
<1>5. \A j \in Jobs : ~Recorded(j, Report)
  BY <1>1, ReportKnown DEF Early
<1>6. ~reported
  BY <1>5, Zenon DEF Inv, TypeOK, ExecInv
<1>7. exec'.at = "created" /\ exec'.job = jobSeq + 1
      /\ exec' \in [at : {"idle", "bound", "created", "started", "running", "ran",
                           "unready", "completed", "ok", "failed"},
                     job : Jobs, callbacks : BOOLEAN]
  BY <1>1, <1>4, Zenon DEF Inv, TypeOK
<1>8. TypeOK'
  BY <1>1, <1>3, <1>4, <1>7, Zenon DEF Inv, TypeOK, Jobs, Events
<1>9. Grows
  BY <1>1, <1>3 DEF Grows, Recorded
<1>10. JobInv' /\ OrderInv(order')
  BY <1>1, <1>3, <1>4 DEF Inv, JobInv, JobsMoveOn, Created, JobStates
<1>11. ExecInv'
  BY <1>1, <1>4, <1>6, <1>7 DEF ExecInv
<1> QED
  BY <1>1, <1>5, <1>8, <1>9, <1>10, <1>11, OtherStep

(* From where a job is not decided it may start, or be decided.            *)
LEMMA UndecidedMove ==
  ASSUME NEW s \in JobStates
  PROVE  /\ canTransition(s, "running") \/ s = "running" \/ s \in Terminal
         /\ s # "pending" =>
              \A t \in {"completed", "failed"} : canTransition(s, t) \/ s \in Terminal
<1>1. CASE s = "pending"
  BY <1>1 DEF canTransition, validTransitions
<1>2. CASE s = "running"
  BY <1>2 DEF canTransition, validTransitions
<1>3. CASE s \in Terminal
  BY <1>3
<1> QED
  BY <1>1, <1>2, <1>3 DEF JobStates, Terminal

LEMMA ExecStartJobInv ==
  ASSUME Inv, ExecStartJob
  PROVE  Inv'
<1> DEFINE at == IF CanMove(exec.job, "running") THEN "started" ELSE "failed"
<1>1. /\ UNCHANGED <<order, bound, jobSeq, evidence, last, decision, req,
                     reported, paidCallback, paidExecutor>>
      /\ exec.at = "created" /\ job' = MovedIfPossible(exec.job, "running")
      /\ exec' = [exec EXCEPT !.at = at]
  BY DEF ExecStartJob, ExecGoes, ledgerVars, historyVars
<1>2. /\ job' \in {job, Moved(exec.job, "running")} /\ (job' # job => CanMove(exec.job, "running"))
      /\ CanMove(exec.job, "running") => job'[exec.job].state = "running"
      /\ ~CanMove(exec.job, "running") => job'[exec.job] = job[exec.job]
      /\ job[exec.job].state \in JobStates
  BY <1>1, ExecMove DEF JobStates
<1>3. ~CanMove(exec.job, "running") => job'[exec.job].state \in Terminal
  <2>1. ~CanMove(exec.job, "running") => job[exec.job].state \in Terminal
    BY <1>2, UndecidedMove DEF CanMove
  <2> QED
    BY <1>2, <2>1
<1>4. /\ at \in {"started", "failed"} /\ job'[exec.job].state # "pending"
      /\ at = "failed" => job'[exec.job].state \in Terminal
  BY <1>2, <1>3 DEF Terminal
<1>5. OrderInv(order') /\ "running" \in JobStates
  BY <1>1 DEF Inv, JobStates
<1> HIDE DEF at
<1> QED
  BY <1>1, <1>2, <1>4, <1>5, ExecStep

(* The executor fails its job: it is running, unless it is decided.        *)
LEMMA ExecFails ==
  ASSUME Inv, exec.at \in {"started", "running", "unready"},
         job' = MovedIfPossible(exec.job, "failed"), exec' = [exec EXCEPT !.at = "failed"],
         UNCHANGED <<order, bound, jobSeq, evidence, last, decision, req,
                     reported, paidCallback, paidExecutor>>
  PROVE  Inv'
<1>1. /\ job' \in {job, Moved(exec.job, "failed")} /\ (job' # job => CanMove(exec.job, "failed"))
      /\ CanMove(exec.job, "failed") => job'[exec.job].state = "failed"
      /\ ~CanMove(exec.job, "failed") => job'[exec.job] = job[exec.job]
      /\ job[exec.job].state \in JobStates
  BY ExecMove DEF JobStates
<1>2. job[exec.job].state # "pending"
  BY DEF Inv, ExecInv
<1>3. job'[exec.job].state \in Terminal /\ job'[exec.job].state # "pending"
  <2>1. ~CanMove(exec.job, "failed") => job[exec.job].state \in Terminal
    BY <1>1, <1>2, UndecidedMove DEF CanMove
  <2>2. job'[exec.job].state \in Terminal
    BY <1>1, <2>1 DEF Terminal
  <2> QED
    BY <2>2 DEF Terminal
<1>4. OrderInv(order') /\ "failed" \in JobStates
  BY DEF Inv, JobStates
<1> QED
  BY <1>1, <1>3, <1>4, ExecStep

(* The executor moves on and leaves its job alone.                         *)
LEMMA ExecPasses ==
  ASSUME Inv, NEW at, exec' = [exec EXCEPT !.at = at],
         \/ exec.at = "started" /\ at = "running"
         \/ exec.at = "running" /\ at = "ran" /\ (exec.callbacks => reported)
         \/ exec.at = "ran" /\ exec.callbacks /\ at = "unready"
         \/ exec.at = "ran" /\ exec.callbacks /\ at = "ok" /\ job[exec.job].state = "completed",
         UNCHANGED <<order, bound, jobSeq, job, evidence, last, decision, req,
                     reported, paidCallback, paidExecutor>>
  PROVE  Inv'
<1>1. job'[exec.job].state # "pending" /\ (at = "ok" => job'[exec.job].state \in Terminal)
  BY DEF Inv, ExecInv, Terminal
<1>2. at \in {"ran", "unready", "ok"} /\ exec.callbacks => Recorded(exec.job, Report)
  BY DEF Inv, ExecInv
<1>3. OrderInv(order') /\ "failed" \in JobStates
  BY DEF Inv, JobStates
<1> QED
  BY <1>1, <1>2, <1>3, ExecStep

LEMMA ExecCompleteJobInv ==
  ASSUME Inv, ExecCompleteJob
  PROVE  Inv'
<1> DEFINE at == IF CanMove(exec.job, "completed") THEN "completed" ELSE "failed"
<1>1. /\ UNCHANGED <<order, bound, jobSeq, evidence, last, decision, req,
                     reported, paidCallback, paidExecutor>>
      /\ exec.at = "ran" /\ ~exec.callbacks /\ job' = MovedIfPossible(exec.job, "completed")
      /\ exec' = [exec EXCEPT !.at = at]
  BY DEF ExecCompleteJob, ExecGoes, ledgerVars, historyVars
<1>2. /\ job' \in {job, Moved(exec.job, "completed")}
      /\ (job' # job => CanMove(exec.job, "completed"))
      /\ CanMove(exec.job, "completed") => job'[exec.job].state = "completed"
      /\ ~CanMove(exec.job, "completed") => job'[exec.job] = job[exec.job]
      /\ job[exec.job].state \in JobStates
  BY <1>1, ExecMove DEF JobStates
<1>3. job[exec.job].state # "pending"
  BY <1>1 DEF Inv, ExecInv
<1>4. /\ at \in {"completed", "failed"} /\ job'[exec.job].state # "pending"
      /\ job'[exec.job].state \in Terminal
      /\ at = "completed" => job'[exec.job].state = "completed"
  <2>1. ~CanMove(exec.job, "completed") => job[exec.job].state \in Terminal
    BY <1>2, <1>3, UndecidedMove DEF CanMove
  <2>2. job'[exec.job].state \in Terminal
    BY <1>2, <2>1 DEF Terminal
  <2>3. job'[exec.job].state # "pending"
    BY <2>2 DEF Terminal
  <2>4. at = "completed" => CanMove(exec.job, "completed")
    OBVIOUS
  <2> QED
    BY <1>2, <2>2, <2>3, <2>4
<1>5. OrderInv(order') /\ "completed" \in JobStates
  BY <1>1 DEF Inv, JobStates
<1> HIDE DEF at
<1> QED
  BY <1>1, <1>2, <1>4, <1>5, ExecStep

LEMMA ExecSettleInv ==
  ASSUME Inv, NEW saved \in BOOLEAN, NEW published \in BOOLEAN, ExecSettle(saved, published)
  PROVE  Inv'
<1> DEFINE paid == SettlementSaved(ExecMilestone, saved)
           at == IF paid /\ published THEN "ok" ELSE "failed"
<1>1. /\ UNCHANGED <<bound, jobSeq, job, evidence, last, decision, req, reported, paidCallback>>
      /\ exec.at = "completed" /\ exec' = [exec EXCEPT !.at = at]
      /\ order' = IF paid THEN Settle(order, ExecMilestone) ELSE order
      /\ paidExecutor' = IF paid THEN paidExecutor \cup {exec.job} ELSE paidExecutor
  BY DEF ExecSettle, ExecGoes, jobVars, ledgerVars
<1>2. job[exec.job].state = "completed" /\ ~exec.callbacks /\ exec.job \in Created
  BY <1>1 DEF Inv, ExecInv
<1>3. OrderInv(order') /\ "completed" \in JobStates
  BY <1>1, ExecFirst, SettleInv DEF Inv, SettlementSaved, JobStates
<1>4. /\ at \in {"ok", "failed"} /\ (at = "ok" => exec.job \in paidExecutor')
      /\ paidExecutor \subseteq paidExecutor'
      /\ \A j \in paidExecutor' \ paidExecutor : j \in Created /\ job[j].state = "completed"
  BY <1>1, <1>2
<1>5. job'[exec.job].state # "pending" /\ job'[exec.job].state \in Terminal
  BY <1>1, <1>2 DEF Terminal
<1> HIDE DEF at, paid
<1> QED
  BY <1>1, <1>2, <1>3, <1>4, <1>5, ExecStep

LEMMA ExecuteInv ==
  ASSUME Inv, Execute
  PROVE  Inv'
<1>1. ASSUME NEW ready \in BOOLEAN, ensureCarrierCodeAgentReady(ready)
      PROVE  Inv'
  <2>1. CASE ready
    BY <1>1, <2>1, ExecPasses DEF ensureCarrierCodeAgentReady, ExecGoes, ledgerVars, historyVars
  <2>2. CASE ~ready
    BY <1>1, <2>2, ExecFails DEF ensureCarrierCodeAgentReady, ExecGoes, ledgerVars, historyVars
  <2> QED
    BY <2>1, <2>2
<1>2. CASE ExecRunFails \/ ExecFailJob
  BY <1>2, ExecFails DEF ExecRunFails, ExecFailJob, ExecGoes, ledgerVars, historyVars
<1>3. CASE ExecRunSucceeds
  BY <1>3, ExecPasses DEF ExecRunSucceeds, ExecGoes, jobVars, ledgerVars, historyVars
<1>4. CASE ExecCheckJob
  <2>1. CASE job[exec.job].state = "completed"
    BY <1>4, <2>1, ExecPasses DEF ExecCheckJob, ExecGoes, jobVars, ledgerVars, historyVars
  <2>2. CASE job[exec.job].state # "completed"
    BY <1>4, <2>2, ExecPasses DEF ExecCheckJob, ExecGoes, jobVars, ledgerVars, historyVars
  <2> QED
    BY <2>1, <2>2
<1> QED
  BY <1>1, <1>2, <1>3, <1>4, ExecBindInv, ExecCreateJobInv, ExecStartJobInv,
     ExecCompleteJobInv, ExecSettleInv DEF Execute

-----------------------------------------------------------------------------
LEMMA InitInv == Init => Inv
<1> SUFFICES ASSUME Init PROVE Inv
  OBVIOUS
<1>1. /\ 1 \in Milestones /\ 1 \in Jobs /\ jobSeq = 0 /\ jobSeq \in 0 .. MaxJobs
      /\ Created = {}
  <2>1. MaxJobs \in Nat \ {0}
    BY CarrierAssumption, Zenon
  <2> QED
    BY <2>1, ExecFirst DEF Init, Jobs, Created
<1>2. OrderInv(order) /\ order \in Order
  BY CarrierAssumption, CreateOrderInv, Zenon DEF Init, OrderInv
<1>3. \A j \in Jobs, id \in EventIds : ~Recorded(j, id)
  BY DEF Init, Recorded, Events
<1>4. TypeOK
  <2>1. req \in [Handlers -> Request]
    BY <1>1 DEF Init, Idle, Request, EventTypes
  <2>2. job \in [Jobs -> [state : JobStates \cup {"none"}, ms : Milestones]]
    BY <1>1 DEF Init
  <2>3. exec \in [at : {"idle", "bound", "created", "started", "running", "ran",
                        "unready", "completed", "ok", "failed"},
                  job : Jobs, callbacks : BOOLEAN]
    BY <1>1 DEF Init
  <2> QED
    BY <1>1, <1>2, <2>1, <2>2, <2>3, Zenon DEF Init, TypeOK
<1>5. JobInv /\ PaidInv
  BY <1>1 DEF Init, JobInv, PaidInv, PaidJobIsCompleted
<1>6. ExecInv
  BY DEF Init, ExecInv
<1>7. \A h \in Handlers : ReqInv(h)
  BY DEF Init, ReqInv, Idle
<1>8. \A j \in Jobs : ReportInv(j) /\ SeqInv(j)
  <2>1. \A j \in Jobs : Seen(j) = {}
    BY <1>3 DEF Seen
  <2> QED
    BY <1>3, <2>1, CarrierAssumption, Zenon DEF ReportInv, SeqInv
<1>9. OneDelivery
  BY DEF Init, OneDelivery, Idle
<1> QED
  BY <1>2, <1>4, <1>5, <1>6, <1>7, <1>8, <1>9 DEF Inv

LEMMA NextInv == Inv /\ [Next]_vars => Inv'
<1> SUFFICES ASSUME Inv, [Next]_vars PROVE Inv'
  OBVIOUS
<1>1. ASSUME NEW h \in Handlers, Receive(h)
      PROVE  Inv'
  BY <1>1, ReceiveUnnamedInv, RecordInv, ReplayInv DEF Receive
<1>2. ASSUME NEW h \in Handlers, Process(h)
      PROVE  Inv'
  BY <1>2, HandleTransitionInv, HandleEvidenceInv, CompleteJobInv, SettleFromCallbackInv,
     RecordUsageFromCallbackInv, HandleOtherInv, AnswerInv DEF Process
<1>3. CASE UNCHANGED vars
  <2>1. TypeOK'
    BY <1>3, ZenonT(30) DEF vars, Inv, TypeOK, Jobs, Events
  <2>2. JobInv' /\ PaidInv' /\ ExecInv'
    BY <1>3, Zenon DEF vars, Inv, JobInv, PaidInv, PaidJobIsCompleted, ExecInv, Created, Recorded
  <2>3. \A h \in Handlers : ReqInv(h)'
    BY <1>3, Zenon DEF vars, Inv, ReqInv, Created, Recorded
  <2>4. \A j \in Jobs : ReportInv(j)'
    BY <1>3, Zenon DEF vars, Inv, ReportInv, Recorded
  <2>5. \A j \in Jobs : SeqInv(j)'
    BY <1>3, LedgerKept DEF vars
  <2>6. OneDelivery' /\ OrderInv(order)'
    BY <1>3, Zenon DEF vars, Inv, OneDelivery
  <2> QED
    BY <2>1, <2>2, <2>3, <2>4, <2>5, <2>6 DEF Inv, Jobs
<1> QED
  BY <1>1, <1>2, <1>3, ExecuteInv, RoutesInv DEF Next

(* Callbacks delivered late, again and in any order, the executor and the  *)
(* routes never pay through a job that is not completed.                   *)
THEOREM PaidAfterCompletion == Spec => []PaidJobIsCompleted
<1>1. Inv => PaidJobIsCompleted
  BY DEF Inv, PaidInv
<1> QED
  BY <1>1, InitInv, NextInv, PTL DEF Spec

(* The ledger of every execution holds an interval of sequence numbers,    *)
(* each once, and at most one delivery of an event is being handled.       *)
THEOREM LedgerSound == Spec => []LedgerInSequence
<1>1. Inv => LedgerInSequence
  <2> SUFFICES ASSUME Inv PROVE LedgerInSequence
    OBVIOUS
  <2>1. ASSUME NEW j \in Jobs
        PROVE  LET seen == {id \in EventIds : Recorded(j, id) /\ Sequence[id] > 0}
               IN  /\ \A a, b \in seen : Sequence[a] = Sequence[b] => a = b
                   /\ seen # {} => \E first \in 1 .. last[j] :
                        {Sequence[id] : id \in seen} = first .. last[j]
    <3>1. SeqInv(j)
      BY DEF Inv
    <3>2. ASSUME Seen(j) # {}
          PROVE  \E first \in 1 .. last[j] : {Sequence[id] : id \in Seen(j)} = first .. last[j]
      <4>1. PICK first \in 1 .. last[j] :
              /\ \A id \in Seen(j) : Sequence[id] \in first .. last[j]
              /\ \A n \in first .. last[j] : \E id \in Seen(j) : Sequence[id] = n
        BY <3>1, <3>2 DEF SeqInv
      <4>2. {Sequence[id] : id \in Seen(j)} = first .. last[j]
        BY <4>1
      <4> QED
        BY <4>2
    <3> QED
      BY <3>1, <3>2, Zenon DEF SeqInv, Seen
  <2> QED
    BY <2>1, Zenon DEF Inv, OneDelivery, LedgerInSequence
<1> QED
  BY <1>1, InitInv, NextInv, PTL DEF Spec

(* The executor never returns before its job is decided, and reports       *)
(* success only for a payout or for a report that is recorded and not      *)
(* decided.                                                                *)
THEOREM ExecutorDecides == Spec => []ExecutorDecidesJob
<1>1. Inv => ExecutorDecidesJob
  BY Zenon DEF Inv, TypeOK, ExecInv, ReportInv, ExecutorDecidesJob
<1> QED
  BY <1>1, InitInv, NextInv, PTL DEF Spec
=============================================================================
