---------------------------- MODULE BuyerDeposits ----------------------------
(***************************************************************************)
(* Deposits of buyers on a chain, their sweep into the treasury and the    *)
(* credit they earn (services/settlement/buyer_deposits*.go).              *)
(*                                                                         *)
(* The reconciler process and the settlement server both call SyncDeposits *)
(* over the same database and the same node, so there are several syncers. *)
(* A syncer is cut at each call of the wallet and of the repositories; any *)
(* of these calls may return an error, and the process may stop, which     *)
(* ends the sync where it is.                                              *)
(*                                                                         *)
(* The chain and its pool are external.  A cell holds raw token units and  *)
(* capacity, a cell without units only capacity.  A transaction is known   *)
(* by its inputs: the wallet computes the rest from them, so two syncers   *)
(* that see the same cells build the same transaction with the same hash.  *)
(* An address is its derivation index.                                     *)
(***************************************************************************)
EXTENDS Integers, Sequences, FiniteSets, FiniteSetsExt, Functions

CONSTANTS
  Buyers, Syncers,
  Reconciler,            \* the syncer of the reconciler process
  Payments,              \* cells that may be paid in: address, raw units, capacity
  minSweepAmountRaw, ConfirmationBlocks, rawUnitsPerWholeUSDI,
  TreasuryOccupied, ChangeOccupied, Fee,   \* capacity a sweep needs
  MaxListed,             \* QueryPageLimit * QueryMaxPages
  MaxIndex, MaxCells, MaxFaults            \* bounds

ASSUME ConstAssumption ==
  /\ Reconciler \in Syncers
  /\ Payments \subseteq [index : 1 .. MaxIndex, raw : Nat, capacity : Nat]
  /\ {minSweepAmountRaw, rawUnitsPerWholeUSDI, MaxListed} \subseteq Nat \ {0}
  /\ {ConfirmationBlocks, TreasuryOccupied, ChangeOccupied, Fee} \subseteq Nat
  /\ {MaxIndex, MaxCells, MaxFaults} \subseteq Nat

VARIABLES
  addresses,    \* stored addresses in the order List returns them
  nextIndex,    \* the derivation sequence
  asking,       \* EnsureAddress calls under way: buyer and derived index
  told,         \* addresses that were answered to a buyer
  chain,        \* cells in chain order
  pool,         \* accepted transactions that are not committed
  committed,    \* committed transactions
  sweeps,       \* stored sweep records
  funding,      \* stored buyer_topup records
  sync,         \* progress of each syncer
  faults, drops,
  interrupted,  \* history: transactions a failing syncer had sent
  raced         \* history: buyers with two first calls under way at once

vars == <<addresses, nextIndex, asking, told, chain, pool, committed, sweeps, funding,
          sync, faults, drops, interrupted, raced>>
addressVars == <<addresses, nextIndex, asking, told, raced>>
chainVars == <<chain, pool, committed, drops>>
storeVars == <<sweeps, funding>>

Idle == [pc |-> "idle", todo |-> <<>>, tx |-> [index |-> 0, inputs |-> {}, raw |-> 0]]

Init ==
  /\ addresses = <<>> /\ nextIndex = 1 /\ asking = {} /\ told = {}
  /\ chain = <<>> /\ pool = {} /\ committed = {}
  /\ sweeps = {} /\ funding = {}
  /\ sync = [s \in Syncers |-> Idle]
  /\ faults = 0 /\ drops = 0 /\ interrupted = {} /\ raced = {}

-----------------------------------------------------------------------------
(* The chain: deposits, commitments and blocks. *)
Positions == DOMAIN chain
Units(S) == SumFunctionOnSet([p \in S |-> chain[p].raw], S)
Capacity(S) == SumFunctionOnSet([p \in S |-> chain[p].capacity], S)

(* Anyone may pay to an address that was handed out. *)
Deposit(payment) ==
  /\ Len(chain) < MaxCells
  /\ \E a \in told : a.index = payment.index
  /\ chain' = Append(chain, [index |-> payment.index, raw |-> payment.raw, capacity |-> payment.capacity,
                             conf |-> 0, live |-> TRUE])
  /\ UNCHANGED <<addressVars, pool, committed, drops, storeVars, sync, faults, interrupted>>

(* A block on top gives every cell one more confirmation, which counts     *)
(* until there are enough.                                                 *)
Mine ==
  /\ \E p \in Positions : chain[p].conf < ConfirmationBlocks
  /\ chain' = [p \in Positions |-> [chain[p] EXCEPT !.conf = Min({@ + 1, ConfirmationBlocks})]]
  /\ UNCHANGED <<addressVars, pool, committed, drops, storeVars, sync, faults, interrupted>>

(* The change output is kept only where it can hold itself. *)
Change(tx) ==
  LET rest == Capacity(tx.inputs) - TreasuryOccupied - Fee
  IN  IF rest >= ChangeOccupied
        THEN <<[index |-> tx.index, raw |-> 0, capacity |-> rest, conf |-> 0, live |-> TRUE]>>
        ELSE <<>>

Commit(tx) ==
  /\ tx \in pool
  /\ pool' = pool \ {tx}
  /\ committed' = committed \cup {tx}
  /\ chain' = [p \in Positions |-> IF p \in tx.inputs THEN [chain[p] EXCEPT !.live = FALSE] ELSE chain[p]]
                \o Change(tx)
  /\ UNCHANGED <<addressVars, drops, storeVars, sync, faults, interrupted>>

(* A node may forget a transaction that is not committed. *)
Drop(tx) ==
  /\ tx \in pool /\ faults + drops < MaxFaults
  /\ pool' = pool \ {tx}
  /\ drops' = drops + 1
  /\ UNCHANGED <<addressVars, chain, committed, storeVars, sync, faults, interrupted>>

-----------------------------------------------------------------------------
(* EnsureAddress: the buyer's address if one is stored, else a new one.    *)
Derive(b) ==
  /\ nextIndex <= MaxIndex
  /\ nextIndex' = nextIndex + 1
  /\ asking' = asking \cup {[buyer |-> b, index |-> nextIndex]}
  /\ raced' = IF \E a \in asking : a.buyer = b THEN raced \cup {b} ELSE raced
  /\ UNCHANGED <<addresses, told, chainVars, storeVars, sync, faults, interrupted>>

\* Fault: every call derives an address.
EnsureNewAddress(b) == Derive(b)

EnsureAddress(b) ==
  IF \E a \in Range(addresses) : a.buyer = b
    THEN /\ told' = told \cup {a \in Range(addresses) : a.buyer = b}
         /\ UNCHANGED <<addresses, nextIndex, asking, raced, chainVars, storeVars, sync, faults, interrupted>>
    ELSE Derive(b)

(* Save writes over a row of the same buyer and keeps its place.           *)
SaveAddress(a) ==
  /\ a \in asking
  /\ asking' = asking \ {a}
  /\ told' = told \cup {a}
  /\ addresses' = IF \E k \in DOMAIN addresses : addresses[k].buyer = a.buyer
                    THEN [k \in DOMAIN addresses |-> IF addresses[k].buyer = a.buyer THEN a ELSE addresses[k]]
                    ELSE Append(addresses, a)
  /\ UNCHANGED <<nextIndex, raced, chainVars, storeVars, sync, faults, interrupted>>

-----------------------------------------------------------------------------
(* What the wallet sees of an address: the first live cells of each kind.  *)
FirstOf(S) == {p \in S : Cardinality({q \in S : q <= p}) <= MaxListed}
LiveCells(i) == {p \in Positions : chain[p].index = i /\ chain[p].live}

listSUDTCells(i) == FirstOf({p \in LiveCells(i) : chain[p].raw > 0})
listPureCKBCells(i) == {p \in FirstOf(LiveCells(i)) : chain[p].raw = 0}

isCellConfirmed(p) == chain[p].conf >= ConfirmationBlocks
confirmedCells(i) == {p \in listSUDTCells(i) : isCellConfirmed(p)}
QueryBalance(i) == Units(confirmedCells(i))

(* Plain cells are added in order while capacity is short. *)
feeCells(i) ==
  LET have(S) == Capacity(confirmedCells(i) \cup S)
      pure    == listPureCKBCells(i)
  IN  {p \in pure : have({q \in pure : q < p}) < TreasuryOccupied + Fee + ChangeOccupied}

SweepTx(i) ==
  [index |-> i, inputs |-> confirmedCells(i) \cup feeCells(i), raw |-> QueryBalance(i)]

Affordable(tx) == Capacity(tx.inputs) >= TreasuryOccupied + Fee

rawUnitsToCents(raw) == (raw * 100) \div rawUnitsPerWholeUSDI

(* An amount is stored as text, in whole units and two digits of cents.    *)
centsToAmountString(cents) == [whole |-> cents \div 100, fraction |-> cents % 100]
parseAmountToCents64(amount) == amount.whole * 100 + amount.fraction

creditedCents(b) ==
  LET credits == {f \in funding : f.buyer = b}
  IN  SumFunctionOnSet([f \in credits |-> parseAmountToCents64(f.amount)], credits)

-----------------------------------------------------------------------------
(* SyncDeposits *)
At(s, place) == sync[s].pc = place
Current(s) == Head(sync[s].todo)
Goto(s, place) == sync' = [sync EXCEPT ![s].pc = place]
GotoWith(s, place, tx) == sync' = [sync EXCEPT ![s].pc = place, ![s].tx = tx]

(* On to the next address, or to the end. *)
Advance(s) ==
  sync' = [sync EXCEPT ![s] =
             IF Len(sync[s].todo) = 1 THEN Idle
             ELSE [pc |-> "query", todo |-> Tail(sync[s].todo), tx |-> Idle.tx]]

(* An error ends the sync; later addresses are not looked at.              *)
Return(s) == sync' = [sync EXCEPT ![s] = Idle]

StartSync(s) ==
  /\ At(s, "idle") /\ addresses # <<>>
  /\ sync' = [sync EXCEPT ![s] = [pc |-> "query", todo |-> addresses, tx |-> Idle.tx]]
  /\ UNCHANGED <<addressVars, chainVars, storeVars, faults, interrupted>>

\* Fault: the minimum itself is not enough.
CheckBalanceAbove(s) ==
  /\ At(s, "query")
  /\ IF QueryBalance(Current(s).index) <= minSweepAmountRaw THEN Advance(s) ELSE Goto(s, "build")
  /\ UNCHANGED <<addressVars, chainVars, storeVars, faults, interrupted>>

CheckBalance(s) ==
  /\ At(s, "query")
  /\ IF QueryBalance(Current(s).index) < minSweepAmountRaw THEN Advance(s) ELSE Goto(s, "build")
  /\ UNCHANGED <<addressVars, chainVars, storeVars, faults, interrupted>>

(* SweepToTreasury reads the cells again and builds the transaction.       *)
BuildSweep(s) ==
  LET tx == SweepTx(Current(s).index)
  IN  /\ At(s, "build")
      /\ IF tx.raw = 0 THEN Advance(s)
         ELSE IF Affordable(tx) THEN GotoWith(s, "send", tx) ELSE Return(s)
      /\ UNCHANGED <<addressVars, chainVars, storeVars, faults, interrupted>>

(* The pool takes a transaction whose inputs are live and not spent by     *)
(* another; it answers a repetition with an error the wallet takes as      *)
(* success.                                                                *)
Accepts(tx) ==
  /\ \A p \in tx.inputs : chain[p].live
  /\ \A other \in pool : other.inputs \cap tx.inputs = {}

SendTransaction(s) ==
  LET tx == sync[s].tx
  IN  /\ At(s, "send")
      /\ IF tx \in pool \/ Accepts(tx) THEN Goto(s, "find") ELSE Return(s)
      /\ pool' = IF Accepts(tx) THEN pool \cup {tx} ELSE pool
      /\ UNCHANGED <<addressVars, chain, committed, drops, storeVars, faults, interrupted>>

findBuyerDepositSweepByTxHash(b, tx) == {r \in sweeps : r.buyer = b /\ r.tx = tx.inputs}
hasSettledBuyerTopUp(b, tx) == \E f \in funding : f.buyer = b /\ f.tx = tx.inputs

(* A sweep that is on record but not credited is credited from the record. *)
FindSweep(s) ==
  LET b  == Current(s).buyer
      tx == sync[s].tx
      existing == findBuyerDepositSweepByTxHash(b, tx)
  IN  /\ At(s, "find")
      /\ IF existing = {} THEN Goto(s, "record")
         ELSE IF hasSettledBuyerTopUp(b, tx) THEN Advance(s)
         ELSE \E r \in existing : GotoWith(s, "credit", [tx EXCEPT !.raw = r.raw])
      /\ UNCHANGED <<addressVars, chainVars, storeVars, faults, interrupted>>

\* Fault: the credit is left to a later pass.
SaveSweepOnly(s) ==
  LET tx == sync[s].tx
  IN  /\ At(s, "record")
      /\ sweeps' = {r \in sweeps : r.tx # tx.inputs}
                     \cup {[buyer |-> Current(s).buyer, tx |-> tx.inputs, raw |-> tx.raw]}
      /\ Advance(s)
      /\ UNCHANGED <<addressVars, chainVars, funding, faults, interrupted>>

(* The record of a hash is written over, and so is its credit below.       *)
SaveSweep(s) ==
  LET tx == sync[s].tx
  IN  /\ At(s, "record")
      /\ sweeps' = {r \in sweeps : r.tx # tx.inputs}
                     \cup {[buyer |-> Current(s).buyer, tx |-> tx.inputs, raw |-> tx.raw]}
      /\ Goto(s, "credit")
      /\ UNCHANGED <<addressVars, chainVars, funding, faults, interrupted>>

\* Fault: every credit is a record of its own, whatever the transaction.
CreditByRecord(s) ==
  LET tx == sync[s].tx
  IN  /\ At(s, "credit")
      /\ funding' = funding \cup {[buyer |-> Current(s).buyer, tx |-> tx.inputs, by |-> s,
                                   amount |-> centsToAmountString(rawUnitsToCents(tx.raw))]}
      /\ Advance(s)
      /\ UNCHANGED <<addressVars, chainVars, sweeps, faults, interrupted>>

saveBuyerTopUpFunding(s) ==
  LET tx == sync[s].tx
  IN  /\ At(s, "credit")
      /\ funding' = {f \in funding : f.tx # tx.inputs}
                      \cup {[buyer |-> Current(s).buyer, tx |-> tx.inputs,
                             amount |-> centsToAmountString(rawUnitsToCents(tx.raw))]}
      /\ Advance(s)
      /\ UNCHANGED <<addressVars, chainVars, sweeps, faults, interrupted>>

(* A call returns an error or the process stops. What was written stays.   *)
Sent(s) == sync[s].pc \in {"find", "record", "credit"}

Fails(s) ==
  /\ ~At(s, "idle") /\ faults + drops < MaxFaults
  /\ faults' = faults + 1
  /\ interrupted' = IF Sent(s) THEN interrupted \cup {sync[s].tx.inputs} ELSE interrupted
  /\ Return(s)
  /\ UNCHANGED <<addressVars, chainVars, storeVars>>

Step(s) ==
  \/ StartSync(s) \/ CheckBalance(s) \/ BuildSweep(s) \/ SendTransaction(s)
  \/ FindSweep(s) \/ SaveSweep(s) \/ saveBuyerTopUpFunding(s)

Chain ==
  \/ \E payment \in Payments : Deposit(payment)
  \/ Mine
  \/ \E tx \in pool : Commit(tx) \/ Drop(tx)

Next ==
  \/ Chain
  \/ \E b \in Buyers : EnsureAddress(b)
  \/ \E a \in asking : SaveAddress(a)
  \/ \E s \in Syncers : Step(s) \/ Fails(s)

(* The ticker of the reconciler process starts one sync after another and  *)
(* its calls have timeouts; the chain commits what its pool keeps.  The    *)
(* server syncs when it is asked to.                                       *)
Fairness ==
  /\ WF_vars(Step(Reconciler))
  /\ WF_vars(\E tx \in pool : Commit(tx))

Spec == Init /\ [][Next]_vars /\ Fairness

-----------------------------------------------------------------------------
Credited(inputs) == \E f \in funding : f.tx = inputs

(* While no transaction is dropped from the pool, the cents credited to a  *)
(* buyer are worth at most the units swept from the buyer's addresses, and *)
(* less than a cent per transaction short of the sweeps that were          *)
(* credited, whoever sent, resent or recorded them.                        *)
CreditIsSwept ==
  drops = 0 =>
    \A b \in Buyers :
      LET credits == {f \in funding : f.buyer = b}
          cells   == UNION {f.tx : f \in credits}
          swept   == Units(cells) * 100
          worth   == creditedCents(b) * rawUnitsPerWholeUSDI
      IN  /\ \A p \in cells : ~chain[p].live \/ \E tx \in pool : p \in tx.inputs
          /\ worth <= swept
          /\ swept - worth < rawUnitsPerWholeUSDI * Cardinality(credits) \/ credits = {}

(* What a sweep has taken from a buyer is credited, or a syncer that sent  *)
(* the transaction is still at work on it, or one was stopped after it had *)
(* sent it.                                                                *)
NoSweepForgotten ==
  \A tx \in pool \cup committed :
    \/ Credited(tx.inputs)
    \/ \E s \in Syncers : Sent(s) /\ sync[s].tx.inputs = tx.inputs
    \/ tx.inputs \in interrupted

(* An address a buyer was told is the one stored for that buyer, so that a *)
(* payment to it is swept, unless two first calls of the buyer were under  *)
(* way at once: then the later Save replaces what the earlier answered.    *)
ToldIsStored ==
  /\ \A a \in told : a.buyer \notin raced => a \in Range(addresses)
  /\ \A j, k \in DOMAIN addresses : addresses[j].buyer = addresses[k].buyer => j = k

-----------------------------------------------------------------------------
Stored(i) == \E k \in DOMAIN addresses : addresses[k].index = i
Stuck(i) == QueryBalance(i) >= minSweepAmountRaw /\ ~Affordable(SweepTx(i))

(* A confirmed cell of an address that is worth a sweep, not credited yet  *)
(* and not in a transaction whose syncer was stopped.                      *)
Waiting(p) ==
  /\ Stored(chain[p].index)
  /\ p \in confirmedCells(chain[p].index)
  /\ QueryBalance(chain[p].index) >= minSweepAmountRaw
  /\ ~\E f \in funding : p \in f.tx
  /\ ~\E inputs \in interrupted : p \in inputs

(* Deposits that are confirmed and large enough are credited in the end,   *)
(* unless a syncer was stopped with the sweep in hand, the address was     *)
(* replaced, or some address cannot pay for its sweep: that one ends every *)
(* pass, and the addresses behind it wait with it.                         *)
DepositIsCredited ==
  []<> \/ ~\E p \in Positions : Waiting(p)
       \/ \E k \in DOMAIN addresses : Stuck(addresses[k].index)
=============================================================================
