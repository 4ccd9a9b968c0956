------------------------------ MODULE DemoReady ------------------------------
(***************************************************************************)
(* Preparing and verifying the demo environment: runDemoReady (release)    *)
(* and what it calls in IAM, in the gateway, in the settlement service and *)
(* at the faucets.                                                         *)
(*                                                                         *)
(* Every call is a step, so runs overlap: the gateway prepares on its own  *)
(* when it starts, on every request of the ops page, and the command line  *)
(* prepares and verifies too.  A run may end at any call that fails, and   *)
(* be followed by another.                                                 *)
(*                                                                         *)
(* Organization IDs are not configured, which is the default: they come    *)
(* from IAM.  The sweep of deposits is BuyerDeposits, the provisioning of  *)
(* channels ChannelProvisioning; here they are single steps.               *)
(***************************************************************************)
EXTENDS Integers, Sequences, FiniteSetsExt

CONSTANTS
  NRuns,                      \* runs, numbered in the order in which they start
  MinBuyerBalanceCents, MinProviderLiquidityCents, BuyerTopUpAmount,
  RawMinimumSweep,            \* smallest deposit that is swept
  FaucetPays,                 \* what one faucet claim pays to the deposit address
  WalletOrder,                \* node wallets, in the order they are funded
  Required,                   \* what each wallet must hold, in faucet payments
  USDIWallets,                \* the wallets of WalletOrder that hold USDI
  demoFaucetMaxAttempts, demoUSDIFaucetRequestAttempts, MaxFaucetRounds,
  RoleOrder,                  \* the demo's actors, in the order they are set up
  MaxIncidents, MaxDeposits    \* bounds

Runs == 1 .. NRuns
Wallets == {WalletOrder[i] : i \in DOMAIN WalletOrder}
Roles == {RoleOrder[i] : i \in DOMAIN RoleOrder}

(* The defaults of demoenv.ConfigFromEnv: the top-up covers the minimum. *)
ASSUME TopUpCoversMinimum ==
  /\ {MinBuyerBalanceCents, MinProviderLiquidityCents, BuyerTopUpAmount} \subseteq Nat \ {0}
  /\ BuyerTopUpAmount >= MinBuyerBalanceCents

ASSUME DemoAssumption ==
  /\ RoleOrder \in Seq(Roles) \ {<<>>}
  /\ {RawMinimumSweep, FaucetPays} \subseteq Nat \ {0}
  /\ USDIWallets \subseteq Wallets
  /\ Required \in [Wallets -> Nat]
  /\ {demoFaucetMaxAttempts, demoUSDIFaucetRequestAttempts, MaxFaucetRounds} \subseteq Nat \ {0}
  /\ {NRuns, MaxIncidents, MaxDeposits} \subseteq Nat

VARIABLES
  accounts,      \* roles with an IAM account
  hosts,         \* remote hosts the carrier has created
  carriers,      \* status of the provider's carrier bindings, oldest first
  carrierHost,   \* host of the last of them
  settlements,   \* status of the provider's settlement bindings, oldest first
  pool,          \* the provider's liquidity pool
  healthy,       \* do all services answer their health check?
  deposit,       \* at the buyer's deposit address, and credited to the buyer
  wallets,       \* balances of the nodes' wallets, in faucet payments
  runs,
  incidents      \* failures, and changes in the surroundings

demoVars == <<accounts, hosts, carriers, carrierHost, settlements, pool, healthy, deposit, wallets, runs, incidents>>
provider == <<carriers, carrierHost, settlements, pool>>
world == <<accounts, hosts, provider, deposit, wallets>>

NoSnap == [healthy |-> FALSE, settled |-> 0, carrier |-> "", settlement |-> "",
           pool |-> "", available |-> 0]

New == [pc |-> "new", mutate |-> FALSE, host |-> 0, n |-> 0, tries |-> 0,
                  snap |-> NoSnap, topUp |-> 0, disturbed |-> FALSE, ready |-> FALSE]
Returned(ready) == [New EXCEPT !.pc = "returned", !.ready = ready]

DemoInit ==
  /\ accounts = {}
  /\ hosts = 0
  /\ carriers = <<>> /\ carrierHost = 0 /\ settlements = <<>>
  /\ pool = [status |-> "", total |-> 0, reserved |-> 0]
  /\ healthy = TRUE
  /\ deposit = [pending |-> 0, confirmed |-> 0, credited |-> 0]
  /\ wallets = [w \in Wallets |-> 0]
  /\ runs = [p \in Runs |-> New]
  /\ incidents = 0

-----------------------------------------------------------------------------
(* The gateway's records of the provider. *)

(* GetProviderCarrierBinding and GetProviderSettlementBinding return the binding
   registered last, whatever its status. *)
CarrierStatus == IF carriers = <<>> THEN "" ELSE carriers[Len(carriers)]
SettlementStatus == IF settlements = <<>> THEN "" ELSE settlements[Len(settlements)]

Available(q) == IF q.total > q.reserved THEN q.total - q.reserved ELSE 0

(* Part of the status: the provider is ready for orders. *)
ProviderMeets(s) ==
  /\ s.carrier = "active" /\ s.settlement = "active" /\ s.pool = "healthy"
  /\ s.available >= MinProviderLiquidityCents

BuyerMeets(s) == s.settled >= MinBuyerBalanceCents

(* FinalizeStatus: the verdict is ready when there are no blockers. *)
FinalizeStatus(s) ==
  IF s.healthy /\ BuyerMeets(s) /\ ProviderMeets(s) THEN "ready" ELSE "blocked"

(* What the status handler would answer now, all at once. *)
StatusNow == [healthy |-> healthy /\ accounts = Roles, settled |-> deposit.credited,
              carrier |-> CarrierStatus, settlement |-> SettlementStatus,
              pool |-> pool.status, available |-> Available(pool)]

-----------------------------------------------------------------------------
(* Steps of a run.  Go says what becomes of the run; Touch does too, in a step that
   changes what the gateway knows of the provider, and so disturbs the other runs. *)
Go(p, next) == runs' = [runs EXCEPT ![p] = next]
To(p, place) == [runs[p] EXCEPT !.pc = place]

Disturbed(q) == [runs[q] EXCEPT !.disturbed = runs[q].pc \notin {"new", "returned"}]
Disturb == runs' = [q \in Runs |-> Disturbed(q)]
Touch(p, next) == runs' = [q \in Runs |-> IF q = p THEN next ELSE Disturbed(q)]

At(p, place) == runs[p].pc = place
Underway(p) == runs[p].pc \notin {"new", "returned"}

(* A run returns: it says that the demo is ready, or that it is blocked, or an error. *)
Return(p, verdict) ==
  /\ Go(p, Returned(verdict = "ready"))
  /\ UNCHANGED <<world, healthy, incidents>>

Start(p, mutate) ==
  /\ At(p, "new")
  /\ \A q \in Runs : At(q, "new") => q >= p
  /\ Go(p, [runs[p] EXCEPT !.pc = IF mutate THEN "bootstrap" ELSE "login", !.mutate = mutate, !.n = 1])
  /\ UNCHANGED <<world, healthy, incidents>>

(* A call fails, or the run's context ends: the run returns the error. *)
Fails(p) ==
  /\ Underway(p)
  /\ incidents < MaxIncidents
  /\ incidents' = incidents + 1
  /\ Go(p, Returned(FALSE))
  /\ UNCHANGED <<world, healthy>>

(* The carrier answers with the host it has for this name, or with a new one, the first
   time and when it lost the other. *)
bootstrapCarrierTarget(p, host) ==
  /\ At(p, "bootstrap")
  /\ host \in {hosts, hosts + 1} \ {0}
  /\ hosts' = host
  /\ incidents' = incidents + (IF hosts \in {0, host} THEN 0 ELSE 1)
  /\ incidents' <= MaxIncidents
  /\ Go(p, [runs[p] EXCEPT !.pc = "login", !.host = host])
  /\ UNCHANGED <<accounts, provider, deposit, wallets, healthy>>

NextRole(p) ==
  IF runs[p].n < Len(RoleOrder) THEN [runs[p] EXCEPT !.pc = "login", !.n = @ + 1]
  ELSE [runs[p] EXCEPT !.pc = IF runs[p].mutate THEN "getCarrier" ELSE "status", !.n = 0]

loginIAMUser(p) ==
  /\ At(p, "login")
  /\ RoleOrder[runs[p].n] \in accounts
  /\ Go(p, NextRole(p))
  /\ UNCHANGED <<world, healthy, incidents>>

(* ensureDemoActor: no login, so sign up, but only to prepare.  A login that fails
   for another reason is taken the same way. *)
ensureDemoActor(p, refused) ==
  /\ At(p, "login")
  /\ RoleOrder[runs[p].n] \in accounts => refused /\ incidents < MaxIncidents
  /\ Go(p, IF runs[p].mutate THEN To(p, "signup") ELSE Returned(FALSE))
  /\ incidents' = incidents + (IF RoleOrder[runs[p].n] \in accounts THEN 1 ELSE 0)
  /\ UNCHANGED <<world, healthy>>

(* IAM refuses an email it knows; the run is blocked then. *)
signupIAMUser(p) ==
  /\ At(p, "signup")
  /\ IF RoleOrder[runs[p].n] \in accounts
     THEN Return(p, "blocked")
     ELSE /\ accounts' = accounts \cup {RoleOrder[runs[p].n]}
          /\ Go(p, NextRole(p))
          /\ UNCHANGED <<hosts, provider, deposit, wallets, healthy, incidents>>

-----------------------------------------------------------------------------
(* ensureProviderCarrierBinding. *)
carrierBindingMatchesConfig(p) == carrierHost = runs[p].host

getProviderCarrierBinding(p) ==
  /\ At(p, "getCarrier")
  /\ Go(p, IF CarrierStatus # "active" THEN To(p, "registerCarrier")
           ELSE IF carrierBindingMatchesConfig(p) THEN [runs[p] EXCEPT !.pc = "getSettlement", !.host = 0]
           ELSE [runs[p] EXCEPT !.pc = "suspendCarrier", !.n = Len(carriers)])
  /\ UNCHANGED <<world, healthy, incidents>>

suspendProviderCarrierBinding(p) ==
  /\ At(p, "suspendCarrier")
  /\ carriers' = [carriers EXCEPT ![runs[p].n] = "suspended"]
  /\ Touch(p, [runs[p] EXCEPT !.pc = "registerCarrier", !.n = 0])
  /\ UNCHANGED <<accounts, hosts, carrierHost, settlements, pool, deposit, wallets, healthy, incidents>>

(* Refused while any binding is active; then the one registered last is looked up. *)
registerProviderCarrierBinding(p) ==
  /\ At(p, "registerCarrier")
  /\ IF \E i \in DOMAIN carriers : carriers[i] = "active"
     THEN /\ Go(p, To(p, "getCarrierAgain"))
          /\ UNCHANGED <<carriers, carrierHost>>
     ELSE /\ carriers' = Append(carriers, "pending_verification")
          /\ carrierHost' = runs[p].host
          /\ Touch(p, [runs[p] EXCEPT !.pc = "verifyCarrier", !.n = Len(carriers) + 1])
  /\ UNCHANGED <<accounts, hosts, settlements, pool, deposit, wallets, healthy, incidents>>

getCarrierBindingAgain(p) ==
  /\ At(p, "getCarrierAgain")
  /\ Go(p, [runs[p] EXCEPT !.pc = "verifyCarrier", !.n = Len(carriers)])
  /\ UNCHANGED <<world, healthy, incidents>>

verifyProviderCarrierBinding(p) ==
  /\ At(p, "verifyCarrier")
  /\ carriers' = [carriers EXCEPT ![runs[p].n] = "active"]
  /\ Touch(p, [runs[p] EXCEPT !.pc = "getSettlement", !.host = 0, !.n = 0])
  /\ UNCHANGED <<accounts, hosts, carrierHost, settlements, pool, deposit, wallets, healthy, incidents>>

(* ensureProviderSettlementBinding. *)
getProviderSettlementBinding(p) ==
  /\ At(p, "getSettlement")
  /\ Go(p, To(p, IF SettlementStatus = "active" THEN "status" ELSE "registerSettlement"))
  /\ UNCHANGED <<world, healthy, incidents>>

\* Fault: a binding that is known is not verified again.
RegisterOnce(p) ==
  /\ At(p, "registerSettlement")
  /\ IF settlements # <<>>
     THEN Go(p, To(p, "status")) /\ UNCHANGED settlements
     ELSE /\ settlements' = Append(settlements, "pending_verification")
          /\ Touch(p, [runs[p] EXCEPT !.pc = "verifySettlement", !.n = Len(settlements) + 1])
  /\ UNCHANGED <<accounts, hosts, carriers, carrierHost, pool, deposit, wallets, healthy, incidents>>

(* Refused while any binding is active, which the run takes for success. *)
registerProviderSettlementBinding(p) ==
  /\ At(p, "registerSettlement")
  /\ IF \E i \in DOMAIN settlements : settlements[i] = "active"
     THEN Go(p, To(p, "status")) /\ UNCHANGED settlements
     ELSE /\ settlements' = Append(settlements, "pending_verification")
          /\ Touch(p, [runs[p] EXCEPT !.pc = "verifySettlement", !.n = Len(settlements) + 1])
  /\ UNCHANGED <<accounts, hosts, carriers, carrierHost, pool, deposit, wallets, healthy, incidents>>

(* Verification replaces the pool by an empty one. *)
verifyProviderSettlementBinding(p) ==
  /\ At(p, "verifySettlement")
  /\ settlements' = [settlements EXCEPT ![runs[p].n] = "active"]
  /\ pool' = [status |-> "healthy", total |-> 0, reserved |-> 0]
  /\ Touch(p, [runs[p] EXCEPT !.pc = "status", !.n = 0])
  /\ UNCHANGED <<accounts, hosts, carriers, carrierHost, deposit, wallets, healthy, incidents>>

-----------------------------------------------------------------------------
(* The status: services, actors and the buyer's balance first, by calls to the
   services; then what the gateway knows of the provider. *)
buildDemoStatus(p) ==
  /\ At(p, "status")
  /\ Go(p, [runs[p] EXCEPT !.pc = "statusProvider", !.disturbed = FALSE,
                           !.snap = [NoSnap EXCEPT !.healthy = healthy /\ accounts = Roles,
                                                   !.settled = deposit.credited]])
  /\ UNCHANGED <<world, healthy, incidents>>

(* The funding records cannot be listed: nothing counts as settled. *)
buildDemoStatusWithoutRecords(p) ==
  /\ At(p, "status")
  /\ incidents < MaxIncidents
  /\ incidents' = incidents + 1
  /\ Go(p, [runs[p] EXCEPT !.pc = "statusProvider", !.disturbed = FALSE,
                           !.snap = [NoSnap EXCEPT !.healthy = healthy /\ accounts = Roles]])
  /\ UNCHANGED <<world, healthy>>

(* A pool that does not meet the minimum is warmed, and read again then. *)
AfterStatus(p, snap) ==
  IF ProviderMeets(snap)
  THEN [runs[p] EXCEPT !.pc = IF BuyerMeets(snap) THEN "report" ELSE "fund", !.n = 1, !.snap = snap]
  ELSE [runs[p] EXCEPT !.pc = "fund", !.n = 1, !.snap = [snap EXCEPT !.pool = "", !.available = 0]]

(* A run that only verifies, answers with the status. *)
loadProviderSettlementStatus(p) ==
  LET snap == [StatusNow EXCEPT !.healthy = runs[p].snap.healthy,
                                !.settled = runs[p].snap.settled]
  IN /\ At(p, "statusProvider")
     /\ IF runs[p].mutate THEN Go(p, AfterStatus(p, snap)) /\ UNCHANGED <<world, healthy, incidents>>
                          ELSE Return(p, FinalizeStatus(snap))

-----------------------------------------------------------------------------
(* ensureDemoFNNBootstrapLiquidity: one wallet after the other. *)
Wallet(p) == WalletOrder[runs[p].n]

NextWallet(p) ==
  IF runs[p].n < Len(WalletOrder) THEN [runs[p] EXCEPT !.pc = "fund", !.n = @ + 1, !.tries = 0]
  ELSE [runs[p] EXCEPT !.pc = IF BuyerMeets(runs[p].snap) THEN "warm" ELSE "topup", !.n = 0, !.tries = 0]

(* ensureCKBBalanceOrRequestFaucet, ensureUSDIBalanceOrRequestFaucet *)
QueryBalance(p) ==
  /\ At(p, "fund")
  /\ Go(p, IF wallets[Wallet(p)] >= Required[Wallet(p)] THEN NextWallet(p)
           ELSE To(p, "ask"))
  /\ UNCHANGED <<world, healthy, incidents>>

(* A faucet takes the request; whether and when it pays is its own affair. *)
requestFaucet(p) ==
  /\ At(p, "ask")
  /\ Go(p, To(p, "await"))
  /\ UNCHANGED <<world, healthy, incidents>>

(* tries counts requests: for CKB the faucet and its substitute, for USDI
   demoUSDIFaucetRequestAttempts requests in each of demoFaucetMaxAttempts rounds. *)
Tries(p) == IF Wallet(p) \in USDIWallets THEN demoFaucetMaxAttempts * demoUSDIFaucetRequestAttempts
            ELSE 2

requestFaucetRefused(p) ==
  /\ At(p, "ask")
  /\ IF runs[p].tries + 1 < Tries(p)
     THEN Go(p, [runs[p] EXCEPT !.tries = @ + 1]) /\ UNCHANGED <<world, healthy, incidents>>
     ELSE Return(p, "error")

(* waitForCKBBalanceThreshold, waitForUSDIBalanceThreshold *)
waitForBalanceThreshold(p) ==
  /\ At(p, "await")
  /\ wallets[Wallet(p)] >= Required[Wallet(p)]
  /\ Go(p, NextWallet(p))
  /\ UNCHANGED <<world, healthy, incidents>>

(* Too late: for USDI the next round of requests, if there is one. *)
NextRound(p) == (runs[p].tries \div demoUSDIFaucetRequestAttempts + 1) * demoUSDIFaucetRequestAttempts

waitForBalanceTimeout(p) ==
  /\ At(p, "await")
  /\ wallets[Wallet(p)] < Required[Wallet(p)]
  /\ IF Wallet(p) \in USDIWallets /\ NextRound(p) < Tries(p)
     THEN /\ Go(p, [runs[p] EXCEPT !.pc = "ask", !.tries = NextRound(p)])
          /\ UNCHANGED <<world, healthy, incidents>>
     ELSE Return(p, "error")

-----------------------------------------------------------------------------
(* The buyer's top-up, and waitBuyerDepositCredit.  tries counts the faucet's
   successful rounds. *)
createBuyerTopUp(p) ==
  /\ At(p, "topup")
  /\ Go(p, To(p, "summary"))
  /\ UNCHANGED <<world, healthy, incidents>>

OnChain == deposit.pending + deposit.confirmed

\* Fault: whatever is credited will do.
AnyCredit(p) ==
  /\ At(p, "summary")
  /\ Go(p, IF deposit.credited > 0 THEN [runs[p] EXCEPT !.pc = "record", !.tries = 0]
           ELSE IF OnChain < RawMinimumSweep /\ runs[p].tries < MaxFaucetRounds THEN To(p, "claim")
           ELSE To(p, IF deposit.confirmed >= RawMinimumSweep THEN "sync" ELSE "deadline"))
  /\ UNCHANGED <<world, healthy, incidents>>

(* getBuyerDepositSummary: what is credited in all is compared with the top-up.
   With nothing confirmed, the sync waits for the next round of the loop. *)
getBuyerDepositSummary(p) ==
  /\ At(p, "summary")
  /\ Go(p, IF deposit.credited >= BuyerTopUpAmount
           THEN [runs[p] EXCEPT !.pc = "record", !.tries = 0]
           ELSE IF OnChain < RawMinimumSweep /\ runs[p].tries < MaxFaucetRounds THEN To(p, "claim")
           ELSE To(p, IF deposit.confirmed >= RawMinimumSweep THEN "sync" ELSE "deadline"))
  /\ UNCHANGED <<world, healthy, incidents>>

\* Fault: rounds are not counted.
ClaimAgain(p, answer) ==
  /\ At(p, "claim")
  /\ answer = "paid" => OnChain + deposit.credited < MaxDeposits
  /\ Go(p, To(p, IF answer = "refused" THEN "deadline" ELSE "extended"))
  /\ deposit' = [deposit EXCEPT !.pending = @ + (IF answer = "paid" THEN FaucetPays ELSE 0)]
  /\ UNCHANGED <<accounts, hosts, provider, wallets, healthy, incidents>>

(* requestUSDIFaucet for the deposit address: refused, or taken, and then paid or
   not.  A claim that is taken moves the deadline. *)
requestUSDIFaucet(p, answer) ==
  /\ At(p, "claim")
  /\ answer = "paid" => OnChain + deposit.credited < MaxDeposits
  /\ Go(p, IF answer = "refused" THEN To(p, "deadline")
           ELSE [runs[p] EXCEPT !.pc = "extended", !.tries = @ + 1])
  /\ deposit' = [deposit EXCEPT !.pending = @ + (IF answer = "paid" THEN FaucetPays ELSE 0)]
  /\ UNCHANGED <<accounts, hosts, provider, wallets, healthy, incidents>>

Swept == [pending |-> deposit.pending, confirmed |-> 0,
          credited |-> deposit.credited + deposit.confirmed]

(* ensureBuyerDepositSweepCKBFeeBalance comes first; when it fails, the run does. *)
syncBuyerDeposits(p) ==
  /\ At(p, "sync")
  /\ deposit' = IF deposit.confirmed >= RawMinimumSweep THEN Swept ELSE deposit
  /\ Go(p, To(p, "deadline"))
  /\ UNCHANGED <<accounts, hosts, provider, wallets, healthy, incidents>>

(* An internal server error: the fee balance is checked again, and the loop goes on
   without a look at the deadline. *)
syncRefused(p) ==
  /\ At(p, "sync")
  /\ Go(p, To(p, "refee"))
  /\ UNCHANGED <<world, healthy, incidents>>

recheckFeeBalance(p) ==
  /\ At(p, "refee")
  /\ Go(p, To(p, "summary"))
  /\ UNCHANGED <<world, healthy, incidents>>

(* The loop goes round before the deadline. *)
beforeDeadline(p) ==
  /\ runs[p].pc \in {"deadline", "extended"}
  /\ Go(p, To(p, "summary"))
  /\ UNCHANGED <<world, healthy, incidents>>

(* It is past the deadline, which no claim of this round has moved. *)
afterDeadline(p) == At(p, "deadline") /\ Return(p, "error")

(* waitFundingRecordState: some top-up of the buyer is SETTLED. *)
waitFundingRecordState(p) ==
  /\ At(p, "record")
  /\ IF deposit.credited > 0
     THEN /\ Go(p, [runs[p] EXCEPT !.pc = "warm", !.topUp = BuyerTopUpAmount])
          /\ UNCHANGED <<world, healthy, incidents>>
     ELSE Return(p, "error")

-----------------------------------------------------------------------------
(* WarmProviderSettlementPool: refused without an active binding and a pool that
   works; provisioning takes a while, and then the pool is overwritten. *)
warmDemoProviderLiquidity(p) ==
  /\ At(p, "warm")
  /\ IF ProviderMeets(runs[p].snap)
     THEN Go(p, To(p, "report")) /\ UNCHANGED <<world, healthy, incidents>>
     ELSE IF SettlementStatus = "active" /\ pool.status \notin {"disconnected", "suspended"}
     THEN /\ Go(p, [runs[p] EXCEPT !.pc = "provision", !.n = Max({MinProviderLiquidityCents, Available(pool)})])
          /\ UNCHANGED <<world, healthy, incidents>>
     ELSE Return(p, "error")

(* What the run reports of the provider is the pool it is given back. *)
ProviderWarmed(p) ==
  LET warm == [status |-> "healthy", total |-> runs[p].n, reserved |-> pool.reserved]
  IN /\ At(p, "provision")
     /\ pool' = warm
     /\ Touch(p, [runs[p] EXCEPT !.pc = "report", !.n = 0,
                                 !.snap.pool = "healthy", !.snap.available = Available(warm)])
     /\ UNCHANGED <<accounts, hosts, carriers, carrierHost, settlements, deposit, wallets, healthy, incidents>>

Or(status, default) == IF status = "" THEN default ELSE status

\* Fault: services are not looked at again.
PreparedWithoutServices(p) ==
  [runs[p].snap EXCEPT
     !.healthy = TRUE, !.settled = @ + runs[p].topUp,
     !.carrier = Or(@, "active"), !.settlement = Or(@, "active")]

(* The status a prepare reports is put together from the status it read, the top-up
   it waited for, and the pool it warmed. *)
buildPreparedDemoStatus(p) ==
  [runs[p].snap EXCEPT
     !.settled = @ + runs[p].topUp,
     !.carrier = Or(@, "active"), !.settlement = Or(@, "active")]

Report(p) ==
  /\ At(p, "report")
  /\ Return(p, FinalizeStatus(buildPreparedDemoStatus(p)))

-----------------------------------------------------------------------------
(* The surroundings. *)
Changed(step) ==
  /\ incidents < MaxIncidents /\ incidents' = incidents + 1
  /\ step /\ Disturb
  /\ UNCHANGED <<accounts, hosts, deposit, wallets>>

ServicesChange == healthy' = ~healthy /\ UNCHANGED provider

(* An order takes what is available. *)
Allocate ==
  /\ pool.status = "healthy" /\ Available(pool) > 0
  /\ pool' = [pool EXCEPT !.reserved = @ + 1]
  /\ UNCHANGED <<carriers, carrierHost, settlements, healthy>>

Disconnect ==
  /\ pool.status = "healthy"
  /\ pool' = [pool EXCEPT !.status = "disconnected"]
  /\ UNCHANGED <<carriers, carrierHost, settlements, healthy>>

(* Ops suspend the settlement binding, and its pool with it. *)
SuspendProviderSettlementBinding ==
  /\ SettlementStatus = "active"
  /\ settlements' = [settlements EXCEPT ![Len(settlements)] = "suspended"]
  /\ pool' = [pool EXCEPT !.status = "suspended"]
  /\ UNCHANGED <<carriers, carrierHost, healthy>>

Environment == Changed(ServicesChange \/ Allocate \/ Disconnect \/ SuspendProviderSettlementBinding)

WalletIsPaid(w) ==
  /\ wallets[w] < Required[w]
  /\ wallets' = [wallets EXCEPT ![w] = @ + 1]
  /\ UNCHANGED <<accounts, hosts, provider, deposit, healthy, runs, incidents>>

Confirm ==
  /\ deposit.pending > 0
  /\ deposit' = [deposit EXCEPT !.pending = 0, !.confirmed = OnChain]
  /\ UNCHANGED <<accounts, hosts, provider, wallets, healthy, runs, incidents>>

(* The reconciler sweeps on its own. *)
ReconcilerSweeps ==
  /\ deposit.confirmed >= RawMinimumSweep
  /\ deposit' = Swept
  /\ UNCHANGED <<accounts, hosts, provider, wallets, healthy, runs, incidents>>

Step(p) ==
  \/ \E host \in 1 .. MaxIncidents + 1 : bootstrapCarrierTarget(p, host)
  \/ loginIAMUser(p)
  \/ ensureDemoActor(p, FALSE)
  \/ signupIAMUser(p)
  \/ getProviderCarrierBinding(p) \/ suspendProviderCarrierBinding(p)
  \/ registerProviderCarrierBinding(p) \/ getCarrierBindingAgain(p)
  \/ verifyProviderCarrierBinding(p)
  \/ getProviderSettlementBinding(p) \/ registerProviderSettlementBinding(p)
  \/ verifyProviderSettlementBinding(p)
  \/ buildDemoStatus(p) \/ loadProviderSettlementStatus(p)
  \/ QueryBalance(p) \/ requestFaucet(p) \/ requestFaucetRefused(p)
  \/ waitForBalanceThreshold(p) \/ waitForBalanceTimeout(p)
  \/ createBuyerTopUp(p) \/ getBuyerDepositSummary(p)
  \/ \E answer \in {"refused", "taken", "paid"} : requestUSDIFaucet(p, answer)
  \/ syncBuyerDeposits(p) \/ syncRefused(p)
  \/ recheckFeeBalance(p) \/ beforeDeadline(p) \/ afterDeadline(p) \/ waitFundingRecordState(p)
  \/ warmDemoProviderLiquidity(p) \/ ProviderWarmed(p) \/ Report(p)

DemoNext ==
  \/ \E p \in Runs :
       \/ \E mutate \in BOOLEAN : Start(p, mutate)
       \/ Step(p)
       \/ Fails(p)
       \/ ensureDemoActor(p, TRUE)
       \/ buildDemoStatusWithoutRecords(p)
  \/ Environment
  \/ \E w \in Wallets : WalletIsPaid(w)
  \/ Confirm \/ ReconcilerSweeps

(* A run that is under way takes its steps, and a deadline that is looked at again and
   again passes, for every look comes a poll interval after the last. *)
DemoSpec == /\ DemoInit /\ [][DemoNext]_demoVars
            /\ \A p \in Runs : WF_demoVars(Step(p)) /\ SF_demoVars(afterDeadline(p))
-----------------------------------------------------------------------------
(* A run that answers ready, whether it prepared or only verified, leaves a buyer
   whose settled top-ups reach the minimum, although a prepare adds its own top-up
   to a balance it read before, and waits for a total that another run or the
   reconciler may have credited (runDemoReady, waitBuyerDepositCredit). *)
ReadyIsFunded ==
  \A p \in Runs : runs[p].ready => deposit.credited >= MinBuyerBalanceCents

(* The status a prepare puts together is the one it would read: when it reports
   ready, and neither another run nor the surroundings touched the provider or the
   services since it read the status, the status handler says ready as well
   (buildPreparedDemoStatus, buildDemoStatus). *)
ReadyIsCurrent ==
  [][\A p \in Runs :
       (runs[p].pc = "report" /\ ~runs[p].disturbed /\ runs'[p].ready)
         => FinalizeStatus(StatusNow) = "ready"]_demoVars

Shadows(statuses) ==
  \E i \in DOMAIN statuses : i < Len(statuses) /\ statuses[i] = "active"

(* An undisturbed prepare gets through its carrier step with an active carrier
   binding for its own host, and comes to reading the status with an active settlement
   binding, whatever runs that failed in between left behind.  The exception is an
   older binding that is still active, which two overlapping prepares can leave: the
   service refuses a new binding then, and the one it looks up is another
   (ensureProviderCarrierBinding, ensureProviderSettlementBinding). *)
BindingsEnsured ==
  [][\A p \in Runs : ~runs[p].disturbed =>
       /\ runs[p].pc # "getSettlement" /\ runs'[p].pc = "getSettlement" =>
            /\ CarrierStatus' = "active"
            /\ Shadows(carriers) \/ carrierHost' = runs[p].host
       /\ runs[p].pc \in {"getSettlement", "registerSettlement", "verifySettlement"}
            /\ runs'[p].pc = "status" =>
            Shadows(settlements) \/ SettlementStatus' = "active"]_demoVars

(* Every run comes to an end, however faucets, deposits and records delay it; only a
   settlement service that answers the sync with internal errors again and again
   keeps it going, for the deadline is not looked at then (waitBuyerDepositCredit). *)
EveryRunReturns ==
  \A p \in Runs : []<>(runs[p].pc \in {"new", "returned", "refee"})
=============================================================================
