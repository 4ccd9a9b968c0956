------------------------ MODULE BuyerDepositsProofs -------------------------
(***************************************************************************)
(* Deposits for any number of buyers, addresses, syncers and payments and  *)
(* any size of a unit: what a buyer was told is stored, what was swept is  *)
(* not forgotten, and what is credited was swept, to the cent.             *)
(*                                                                         *)
(* Addresses have an invariant of their own.  Credits are compared with    *)
(* sweeps cell by cell: no two credited transactions share one, so that    *)
(* the sum over the transactions is the sum over their cells.              *)
(***************************************************************************)
EXTENDS BuyerDeposits, WorkflowProofs

(* What a sequence is made of. *)
LEMMA SeqParts ==
  ASSUME NEW S, NEW s \in Seq(S)
  PROVE  Len(s) \in Nat /\ DOMAIN s = 1 .. Len(s) /\ \A i \in 1 .. Len(s) : s[i] \in S
OBVIOUS

(* A sequence is empty or has a first member. *)
LEMMA SeqTail ==
  ASSUME NEW S, NEW s \in Seq(S), s # <<>>
  PROVE  /\ Len(s) \in Nat \ {0} /\ Len(<<>>) = 0
         /\ Head(s) \in S /\ Tail(s) \in Seq(S) /\ Len(Tail(s)) = Len(s) - 1
OBVIOUS

(* One member more, and another sequence more. *)
LEMMA SeqMore ==
  ASSUME NEW S, NEW s \in Seq(S)
  PROVE  /\ <<>> \in Seq(S)
         /\ \A x \in S : /\ Append(s, x) \in Seq(S) /\ Len(Append(s, x)) = Len(s) + 1
                         /\ \A i \in 1 .. Len(s) : Append(s, x)[i] = s[i]
         /\ \A t \in Seq(S) : /\ s \o t \in Seq(S) /\ Len(s \o t) = Len(s) + Len(t)
                             /\ \A i \in 1 .. Len(s) + Len(t) :
                                  (s \o t)[i] = IF i <= Len(s) THEN s[i] ELSE t[i - Len(s)]
OBVIOUS

(* An address of the wallet. *)
Address == [buyer : Buyers, index : Nat]

(* The inductive invariant behind ToldIsStored: addresses are stored once  *)
(* for each buyer, indices are handed out once, and what was told is       *)
(* stored unless the buyer raced.                                          *)
AddressInv ==
  /\ addresses \in Seq(Address) /\ asking \subseteq Address /\ told \subseteq Address
  /\ nextIndex \in Nat
  /\ \A j, k \in DOMAIN addresses : addresses[j].buyer = addresses[k].buyer => j = k
  /\ \A a \in told : a.buyer \in raced \/ \E k \in DOMAIN addresses : addresses[k] = a
  /\ \A a, b \in asking : a.buyer = b.buyer => a = b \/ a.buyer \in raced
  /\ \A a \in asking : a.buyer \in raced \/ \A k \in DOMAIN addresses : addresses[k].buyer # a.buyer

(* Nothing changes when the addresses rest. *)
LEMMA AddressesRest == AddressInv /\ UNCHANGED addressVars => AddressInv'
BY DEF AddressInv, addressVars, Address

(* The invariant holds before the first address. *)
LEMMA AddressStart == Init => AddressInv
BY DEF Init, AddressInv

(* Deriving an address takes an index that no one has. *)
LEMMA DeriveStep ==
  ASSUME AddressInv, NEW b \in Buyers, Derive(b), \A k \in DOMAIN addresses : addresses[k].buyer # b
  PROVE  AddressInv'
<1> DEFINE new == [buyer |-> b, index |-> nextIndex]
<1>1. /\ addresses' = addresses /\ told' = told /\ nextIndex' = nextIndex + 1
      /\ asking' = asking \cup {new}
      /\ raced' = IF \E a \in asking : a.buyer = b THEN raced \cup {b} ELSE raced
  BY DEF Derive
<1>2. new \in Address /\ new.buyer = b
  BY DEF AddressInv, Address
<1> HIDE DEF new
<1>3. raced \subseteq raced' /\ \A a \in asking : a.buyer = b => b \in raced'
  BY <1>1
<1>4. \A a, c \in asking' : a.buyer = c.buyer => a = c \/ a.buyer \in raced'
  BY <1>1, <1>2, <1>3 DEF AddressInv
<1>5. \A a \in asking' : a.buyer \in raced' \/ \A k \in DOMAIN addresses' : addresses'[k].buyer # a.buyer
  BY <1>1, <1>2, <1>3 DEF AddressInv
<1> QED
  BY <1>1, <1>2, <1>3, <1>4, <1>5 DEF AddressInv

(* A buyer is answered with the stored address, or derives one. *)
LEMMA EnsureStep ==
  ASSUME AddressInv, NEW b \in Buyers, EnsureAddress(b)
  PROVE  AddressInv'
<1>1. CASE \E a \in Range(addresses) : a.buyer = b
  <2>1. /\ UNCHANGED <<addresses, nextIndex, asking, raced>>
        /\ told' = told \cup {a \in Range(addresses) : a.buyer = b}
    BY <1>1 DEF EnsureAddress
  <2>2. \A a \in Range(addresses) : a \in Address /\ \E k \in DOMAIN addresses : addresses[k] = a
    BY DEF Range, AddressInv
  <2> QED
    BY <2>1, <2>2 DEF AddressInv
<1>2. CASE ~\E a \in Range(addresses) : a.buyer = b
  <2>1. Derive(b) /\ \A k \in DOMAIN addresses : addresses[k].buyer # b
    BY <1>2 DEF EnsureAddress, Range
  <2> QED
    BY <2>1, DeriveStep, Zenon
<1> QED
  BY <1>1, <1>2

(* An address is saved: it takes the place of an older one of its buyer,   *)
(* who raced then.                                                         *)
LEMMA SaveStep ==
  ASSUME AddressInv, NEW a \in asking, SaveAddress(a)
  PROVE  AddressInv'
<1>1. /\ asking' = asking \ {a} /\ told' = told \cup {a} /\ nextIndex' = nextIndex /\ raced' = raced
      /\ addresses' = IF \E k \in DOMAIN addresses : addresses[k].buyer = a.buyer
                    THEN [k \in DOMAIN addresses |-> IF addresses[k].buyer = a.buyer THEN a ELSE addresses[k]]
                    ELSE Append(addresses, a)
  BY DEF SaveAddress
<1>2. a \in Address /\ addresses \in Seq(Address)
  BY DEF AddressInv
<1>3. CASE \E k \in DOMAIN addresses : addresses[k].buyer = a.buyer
  <2>1. addresses' = [k \in DOMAIN addresses |-> IF addresses[k].buyer = a.buyer THEN a ELSE addresses[k]]
    BY <1>1, <1>3
  <2>2. addresses' \in Seq(Address) /\ DOMAIN addresses' = DOMAIN addresses
    <3>1. Len(addresses) \in Nat /\ DOMAIN addresses = 1 .. Len(addresses)
          /\ \A k \in 1 .. Len(addresses) : addresses[k] \in Address
      BY <1>2
    <3>2. addresses' \in [1 .. Len(addresses) -> Address]
      BY <1>2, <2>1, <3>1
    <3> QED
      BY <2>1, <3>1, <3>2
  <2>3. a.buyer \in raced
    BY <1>3 DEF AddressInv
  <2>4. \A k \in DOMAIN addresses : addresses'[k].buyer = addresses[k].buyer
                                    /\ (addresses[k].buyer # a.buyer => addresses'[k] = addresses[k])
    BY <2>1
  <2>5. \A j, k \in DOMAIN addresses' : addresses'[j].buyer = addresses'[k].buyer => j = k
    BY <2>2, <2>4 DEF AddressInv
  <2>6. \A t \in told' : t.buyer \in raced' \/ \E k \in DOMAIN addresses' : addresses'[k] = t
    BY <1>1, <2>2, <2>3, <2>4 DEF AddressInv
  <2>7. \A t \in asking' : t.buyer \in raced' \/ \A k \in DOMAIN addresses' : addresses'[k].buyer # t.buyer
    BY <1>1, <2>2, <2>4 DEF AddressInv
  <2> QED
    BY <1>1, <1>2, <2>2, <2>5, <2>6, <2>7 DEF AddressInv
<1>4. CASE ~\E k \in DOMAIN addresses : addresses[k].buyer = a.buyer
  <2> DEFINE n == Len(addresses)
  <2>1. /\ addresses' \in Seq(Address) /\ n \in Nat /\ DOMAIN addresses = 1 .. n
        /\ DOMAIN addresses' = 1 .. n + 1 /\ addresses'[n + 1] = a
        /\ \A k \in 1 .. n : addresses'[k] = addresses[k]
    BY <1>1, <1>2, <1>4
  <2> HIDE DEF n
  <2>2. \A k \in 1 .. n + 1 : k \in 1 .. n \/ k = n + 1
    BY <2>1
  <2>3. n + 1 \in 1 .. n + 1 /\ 1 .. n \subseteq 1 .. n + 1
    BY <2>1
  <2>5. \A j, k \in DOMAIN addresses' : addresses'[j].buyer = addresses'[k].buyer => j = k
    BY <1>4, <2>1, <2>2, <2>3 DEF AddressInv
  <2>6. \A t \in told' : t.buyer \in raced' \/ \E k \in DOMAIN addresses' : addresses'[k] = t
    BY <1>1, <2>1, <2>3 DEF AddressInv
  <2>7. \A t \in asking' : t.buyer \in raced' \/ \A k \in DOMAIN addresses' : addresses'[k].buyer # t.buyer
    BY <1>1, <2>1, <2>2 DEF AddressInv
  <2> QED
    BY <1>1, <1>2, <2>1, <2>5, <2>6, <2>7 DEF AddressInv
<1> QED
  BY <1>3, <1>4

(* The chain does not touch addresses. *)
LEMMA ChainKeepsAddresses == Chain => UNCHANGED addressVars
BY Zenon DEF Chain, Deposit, Mine, Commit, Drop

(* Nor does a sync. *)
LEMMA StepKeepsAddresses ==
  ASSUME NEW s \in Syncers, Step(s) \/ Fails(s)
  PROVE  UNCHANGED addressVars
BY Zenon DEF Step, StartSync, CheckBalance, BuildSweep, SendTransaction, FindSweep, SaveSweep,
             saveBuyerTopUpFunding, Fails

(* Every step keeps the invariant. *)
LEMMA AddressNext ==
  ASSUME AddressInv, [Next]_vars
  PROVE  AddressInv'
<1>1. CASE UNCHANGED vars
  <2>1. UNCHANGED addressVars
    BY <1>1 DEF vars, addressVars
  <2> QED
    BY <2>1, AddressesRest, Zenon
<1>2. CASE Chain
  BY <1>2, ChainKeepsAddresses, AddressesRest, Zenon
<1>3. CASE \E s \in Syncers : Step(s) \/ Fails(s)
  BY <1>3, StepKeepsAddresses, AddressesRest, Zenon
<1> QED
  BY <1>1, <1>2, <1>3, EnsureStep, SaveStep, Zenon DEF Next

(* For any buyers: an address a buyer was told is the stored one, unless   *)
(* the buyer raced, and no buyer has two (EnsureAddress, SaveAddress).     *)
THEOREM ToldAddresses == Spec => []ToldIsStored
<1>1. AddressInv /\ [Next]_vars => AddressInv'
  BY AddressNext, Zenon
<1>2. AddressInv => ToldIsStored
  <2> SUFFICES ASSUME AddressInv PROVE ToldIsStored
    OBVIOUS
  <2>1. \A k \in DOMAIN addresses : addresses[k] \in Range(addresses)
    BY DEF Range
  <2> QED
    BY <2>1 DEF AddressInv, ToldIsStored
<1> QED
  BY <1>1, <1>2, AddressStart, PTL DEF Spec

-----------------------------------------------------------------------------
(* The places of a sync, what it carries, and its type. *)
Places == {"idle", "query", "build", "send", "find", "record", "credit"}
Sweep == [index : Nat, inputs : SUBSET Nat, raw : Int]
Syncing == [pc : Places, todo : Seq(Address), tx : Sweep]

(* Syncs are well typed, and one that is under way has addresses left. *)
SyncTypes ==
  /\ sync \in [Syncers -> Syncing]
  /\ \A s \in Syncers : sync[s].pc # "idle" => sync[s].todo # <<>>

(* A step of one syncer leaves the others alone. *)
Others(s) == \A t \in Syncers : t # s => sync'[t] = sync[t]

(* An idle syncer is well typed. *)
LEMMA IdleTyped == Idle \in Syncing /\ Idle.pc = "idle" /\ Idle.tx \in Sweep
<1>1. Idle.tx \in Sweep
  BY DEF Idle, Sweep
<1>2. <<>> \in Seq(Address) /\ "idle" \in Places
  BY DEF Places
<1> QED
  BY <1>1, <1>2 DEF Idle, Syncing

(* The places of a sync, one by one. *)
LEMMA Places7 == {"idle", "query", "build", "send", "find", "record", "credit"} \subseteq Places
BY DEF Places

(* Replacing the state of one syncer by a well-typed one keeps the types. *)
LEMMA MoveTo ==
  ASSUME SyncTypes, NEW s \in Syncers, NEW k \in Syncing, k.pc # "idle" => k.todo # <<>>,
         sync' = [sync EXCEPT ![s] = k]
  PROVE  SyncTypes' /\ sync'[s] = k /\ Others(s)
BY DEF SyncTypes, Others

(* Going to another place keeps what the syncer carries. *)
LEMMA GotoMove ==
  ASSUME SyncTypes, NEW s \in Syncers, sync[s].pc # "idle", NEW place \in Places \ {"idle"}, Goto(s, place)
  PROVE  SyncTypes' /\ sync'[s].pc = place /\ sync'[s].tx = sync[s].tx /\ Others(s)
<1> DEFINE k == [sync[s] EXCEPT !.pc = place]
<1>1. sync[s] \in Syncing /\ sync \in [Syncers -> Syncing] /\ sync[s].todo # <<>>
  BY DEF SyncTypes
<1>2. k \in Syncing /\ k.pc = place /\ k.tx = sync[s].tx /\ k.todo = sync[s].todo
  BY <1>1 DEF Syncing
<1>3. sync' = [sync EXCEPT ![s] = k]
  BY <1>1 DEF Goto
<1> HIDE DEF k
<1>4. SyncTypes' /\ sync'[s] = k /\ Others(s)
  BY <1>1, <1>2, <1>3, MoveTo, Zenon
<1> QED
  BY <1>2, <1>4, Zenon

(* Going to another place with another transaction. *)
LEMMA GotoWithMove ==
  ASSUME SyncTypes, NEW s \in Syncers, sync[s].pc # "idle", NEW place \in Places \ {"idle"},
         NEW tx \in Sweep, GotoWith(s, place, tx)
  PROVE  SyncTypes' /\ sync'[s].pc = place /\ sync'[s].tx = tx /\ Others(s)
<1> DEFINE k == [sync[s] EXCEPT !.pc = place, !.tx = tx]
<1>1. sync[s] \in Syncing /\ sync \in [Syncers -> Syncing] /\ sync[s].todo # <<>>
  BY DEF SyncTypes
<1>2. k \in Syncing /\ k.pc = place /\ k.tx = tx /\ k.todo = sync[s].todo
  BY <1>1, Zenon DEF Syncing
<1>3. sync' = [sync EXCEPT ![s] = k]
  BY <1>1, Zenon DEF GotoWith
<1> HIDE DEF k
<1>4. SyncTypes' /\ sync'[s] = k /\ Others(s)
  BY <1>1, <1>2, <1>3, MoveTo, Zenon
<1> QED
  BY <1>2, <1>4, Zenon

(* Returning leaves the syncer idle. *)
LEMMA ReturnMove ==
  ASSUME SyncTypes, NEW s \in Syncers, Return(s)
  PROVE  SyncTypes' /\ sync'[s].pc \in {"idle", "query"} /\ Others(s)
BY IdleTyped, MoveTo, Zenon DEF Return

(* Advancing leaves the syncer idle, or about to look at the next address. *)
LEMMA AdvanceMove ==
  ASSUME SyncTypes, NEW s \in Syncers, sync[s].pc # "idle", Advance(s)
  PROVE  SyncTypes' /\ sync'[s].pc \in {"idle", "query"} /\ Others(s)
<1> DEFINE next == [pc |-> "query", todo |-> Tail(sync[s].todo), tx |-> Idle.tx]
<1>1. CASE Len(sync[s].todo) = 1
  <2>1. Return(s)
    BY <1>1 DEF Advance, Return
  <2> QED
    BY <2>1, ReturnMove, Zenon
<1>2. CASE Len(sync[s].todo) # 1
  <2>1. sync[s].todo \in Seq(Address) /\ sync[s].todo # <<>>
    BY DEF SyncTypes, Syncing
  <2>2. Tail(sync[s].todo) \in Seq(Address) /\ Tail(sync[s].todo) # <<>>
    <3>1. ASSUME NEW t \in Seq(Address), t # <<>>, Len(t) # 1
          PROVE  Tail(t) \in Seq(Address) /\ Tail(t) # <<>>
      <4>1. Len(t) \in Nat \ {0} /\ Len(<<>>) = 0
        BY <3>1, SeqTail, Zenon
      <4>2. Tail(t) \in Seq(Address) /\ Len(Tail(t)) = Len(t) - 1
        BY <3>1, SeqTail, Zenon
      <4>3. Len(Tail(t)) # Len(<<>>)
        BY <3>1, <4>1, <4>2
      <4> QED
        BY <4>2, <4>3, Zenon
    <3> QED
      BY <1>2, <2>1, <3>1, Zenon
  <2>3. next \in Syncing /\ next.pc = "query" /\ next.todo # <<>>
    BY <2>2, IdleTyped, Places7 DEF Syncing
  <2>4. sync' = [sync EXCEPT ![s] = next]
    BY <1>2 DEF Advance
  <2> HIDE DEF next
  <2>5. SyncTypes' /\ sync'[s] = next /\ Others(s)
    BY <2>3, <2>4, MoveTo, Zenon
  <2> QED
    BY <2>3, <2>5, Zenon
<1> QED
  BY <1>1, <1>2, Zenon

-----------------------------------------------------------------------------
Cell == [index : Nat, raw : Nat, capacity : Int, conf : Nat, live : BOOLEAN]

(* What the cells of T hold on the chain c. *)
RawIn(c, T) == SumFunctionOnSet([p \in T |-> c[p].raw], T)

(* What a transaction takes: cells of the chain, and the units they hold.  *)
Made(c, inputs, raw) == inputs \subseteq DOMAIN c /\ inputs # {} /\ raw = RawIn(c, inputs)

(* The amount credited for so many units. *)
Worth(raw) == centsToAmountString(rawUnitsToCents(raw))

(* While nothing was dropped, a transaction that takes these cells is in   *)
(* the pool or committed.                                                  *)
BackedIn(d, txs, inputs) == d = 0 => \E tx \in txs : tx.inputs = inputs

(* What a syncer carries was made from the chain, and is backed once it    *)
(* was sent.                                                               *)
Holds(c, d, txs, k) ==
  /\ k.pc \in {"send", "find", "record", "credit"} => Made(c, k.tx.inputs, k.tx.raw)
  /\ k.pc \in {"find", "record", "credit"} => BackedIn(d, txs, k.tx.inputs)

(* A credit is of a transaction that was made from the chain, for what its *)
(* cells hold, and it is backed.                                           *)
Recorded(c, d, txs, f) ==
  Made(c, f.tx, RawIn(c, f.tx)) /\ f.amount = Worth(RawIn(c, f.tx)) /\ BackedIn(d, txs, f.tx)

(* The chain: transactions take cells that exist, cells of the pool are    *)
(* live and those of committed ones are not, and no two in the same place  *)
(* share a cell.                                                           *)
LedgerInv ==
  /\ chain \in Seq(Cell) /\ pool \cup committed \subseteq Sweep
  /\ \A tx \in pool \cup committed : Made(chain, tx.inputs, tx.raw)
  /\ \A tx \in pool : \A p \in tx.inputs : chain[p].live
  /\ \A tx \in committed : \A p \in tx.inputs : ~chain[p].live
  /\ \A t, u \in pool : t.inputs \cap u.inputs # {} => t = u
  /\ \A t, u \in committed : t.inputs \cap u.inputs # {} => t = u

(* The records: sweeps and credits are of transactions that were made, and *)
(* a transaction is credited once.                                         *)
RecordInv ==
  /\ \A r \in sweeps : Made(chain, r.tx, r.raw)
  /\ IsFiniteSet(funding)
  /\ \A f \in funding : Recorded(chain, drops, pool \cup committed, f)
  /\ \A f, g \in funding : f.tx = g.tx => f = g

(* The inductive invariant behind CreditIsSwept. *)
SweepInv ==
  /\ LedgerInv /\ RecordInv /\ SyncTypes
  /\ \A s \in Syncers : Holds(chain, drops, pool \cup committed, sync[s])
  /\ addresses \in Seq(Address) /\ drops \in Nat

(* The chain keeps its cells and what they hold. *)
Grown(c, e) == DOMAIN c \subseteq DOMAIN e /\ \A p \in DOMAIN c : e[p].raw = c[p].raw

(* What a chain is made of. *)
LEMMA CellParts ==
  ASSUME NEW c \in Seq(Cell)
  PROVE  /\ Len(c) \in Nat /\ DOMAIN c = 1 .. Len(c) /\ IsFiniteSet(DOMAIN c)
         /\ \A p \in DOMAIN c : c[p] \in Cell /\ c[p].raw \in Nat /\ c[p].capacity \in Int
<1>1. Len(c) \in Nat /\ DOMAIN c = 1 .. Len(c) /\ \A p \in 1 .. Len(c) : c[p] \in Cell
  BY SeqParts, Zenon
<1>2. IsFiniteSet(1 .. Len(c))
  BY <1>1, FS_Interval
<1>3. \A x \in Cell : x.raw \in Nat /\ x.capacity \in Int
  BY DEF Cell
<1> QED
  BY <1>1, <1>2, <1>3, Zenon

(* Cells of the chain hold a number of units. *)
LEMMA RawInNat ==
  ASSUME NEW c \in Seq(Cell), NEW T \in SUBSET DOMAIN c
  PROVE  IsFiniteSet(T) /\ RawIn(c, T) \in Nat
<1> DEFINE f == [p \in T |-> c[p].raw]
<1>1. IsFiniteSet(T)
  BY CellParts, FS_Subset, Zenon
<1>2. \A p \in T : f[p] \in Nat
  BY CellParts
<1>3. RawIn(c, T) = SumFunctionOnSet(f, T)
  BY DEF RawIn
<1> HIDE DEF f
<1>4. SumFunctionOnSet(f, T) \in Nat
  BY <1>1, <1>2, SumOfNats, Zenon
<1> QED
  BY <1>1, <1>3, <1>4

(* What cells hold is kept as the chain grows. *)
LEMMA RawInKept ==
  ASSUME NEW c, NEW e, Grown(c, e), NEW T \in SUBSET DOMAIN c
  PROVE  RawIn(e, T) = RawIn(c, T)
<1>1. [p \in T |-> c[p].raw] = [p \in T |-> e[p].raw]
  BY DEF Grown
<1> QED
  BY <1>1, Zenon DEF RawIn

(* So is that a transaction was made from it. *)
LEMMA MadeKept ==
  ASSUME NEW c, NEW e, Grown(c, e), NEW inputs, NEW raw, Made(c, inputs, raw)
  PROVE  Made(e, inputs, raw) /\ RawIn(e, inputs) = RawIn(c, inputs)
<1>1. inputs \in SUBSET DOMAIN c /\ inputs # {} /\ raw = RawIn(c, inputs)
  BY Zenon DEF Made
<1>2. RawIn(e, inputs) = RawIn(c, inputs)
  BY <1>1, RawInKept, Zenon
<1>3. inputs \subseteq DOMAIN e
  BY <1>1 DEF Grown
<1> QED
  BY <1>1, <1>2, <1>3, Zenon DEF Made

(* Nothing was dropped unless that is counted. *)
NoneLost(d, txs, e, more) == e = 0 => d = 0 /\ txs \subseteq more

(* A backed transaction stays so. *)
LEMMA BackedKept ==
  ASSUME NEW d, NEW txs, NEW e, NEW more, NoneLost(d, txs, e, more), NEW inputs, BackedIn(d, txs, inputs)
  PROVE  BackedIn(e, more, inputs)
BY Zenon DEF NoneLost, BackedIn

(* What a syncer carries stays good. *)
LEMMA HoldsKept ==
  ASSUME NEW c, NEW e, Grown(c, e), NEW d, NEW txs, NEW d2, NEW more, NoneLost(d, txs, d2, more),
         NEW k, Holds(c, d, txs, k)
  PROVE  Holds(e, d2, more, k)
BY MadeKept, BackedKept, Zenon DEF Holds

(* A credit stays good. *)
LEMMA RecordedKept ==
  ASSUME NEW c, NEW e, Grown(c, e), NEW d, NEW txs, NEW d2, NEW more, NoneLost(d, txs, d2, more),
         NEW f, Recorded(c, d, txs, f)
  PROVE  Recorded(e, d2, more, f)
<1>1. Made(c, f.tx, RawIn(c, f.tx)) /\ BackedIn(d, txs, f.tx)
  BY Zenon DEF Recorded
<1>2. Made(e, f.tx, RawIn(c, f.tx)) /\ RawIn(e, f.tx) = RawIn(c, f.tx)
  BY <1>1, MadeKept, Zenon
<1>3. BackedIn(d2, more, f.tx)
  BY <1>1, BackedKept, Zenon
<1> QED
  BY <1>2, <1>3, Zenon DEF Recorded

(* A step of the chain that loses nothing keeps the invariant, if it keeps *)
(* what is said of the chain.                                              *)
LEMMA ChainMoves ==
  ASSUME SweepInv, LedgerInv', Grown(chain, chain'),
         NoneLost(drops, pool \cup committed, drops', pool' \cup committed'), drops' \in Nat,
         UNCHANGED <<sync, sweeps, funding, addresses>>
  PROVE  SweepInv'
<1>1. \A s \in Syncers : Holds(chain', drops', pool' \cup committed', sync'[s])
  <2> TAKE s \in Syncers
  <2>1. Holds(chain, drops, pool \cup committed, sync[s]) /\ sync'[s] = sync[s]
    BY Zenon DEF SweepInv
  <2> QED
    BY <2>1, HoldsKept, Zenon
<1>2. \A f \in funding' : Recorded(chain', drops', pool' \cup committed', f)
  <2> TAKE f \in funding'
  <2>1. Recorded(chain, drops, pool \cup committed, f)
    BY Zenon DEF SweepInv, RecordInv
  <2> QED
    BY <2>1, RecordedKept, Zenon
<1>3. \A r \in sweeps' : Made(chain', r.tx, r.raw)
  <2> TAKE r \in sweeps'
  <2>1. Made(chain, r.tx, r.raw)
    BY Zenon DEF SweepInv, RecordInv
  <2> QED
    BY <2>1, MadeKept, Zenon
<1>4. SyncTypes'
  BY DEF SweepInv, SyncTypes
<1>5. IsFiniteSet(funding') /\ \A f, g \in funding' : f.tx = g.tx => f = g
  BY Zenon DEF SweepInv, RecordInv
<1>6. addresses' \in Seq(Address)
  BY Zenon DEF SweepInv
<1> QED
  BY <1>1, <1>2, <1>3, <1>4, <1>5, <1>6, Zenon DEF SweepInv, RecordInv

(* A step of one syncer that keeps the chain growing keeps the invariant,  *)
(* if it keeps what is said of the chain, of the records and of this       *)
(* syncer.                                                                 *)
LEMMA SyncMoves ==
  ASSUME SweepInv, NEW s \in Syncers, UNCHANGED <<chain, committed, drops, addresses>>,
         LedgerInv', pool \subseteq pool', RecordInv', SyncTypes', Others(s),
         Holds(chain', drops', pool' \cup committed', sync'[s])
  PROVE  SweepInv'
<1>1. Grown(chain, chain')
  BY DEF Grown
<1>2. NoneLost(drops, pool \cup committed, drops', pool' \cup committed')
  BY DEF NoneLost
<1>3. ASSUME NEW t \in Syncers PROVE Holds(chain', drops', pool' \cup committed', sync'[t])
  <2>1. CASE t # s
    <3>1. Holds(chain, drops, pool \cup committed, sync[t]) /\ sync'[t] = sync[t]
      BY <2>1, Zenon DEF SweepInv, Others
    <3> QED
      BY <1>1, <1>2, <3>1, HoldsKept, Zenon
  <2> QED
    BY <2>1, Zenon
<1>4. addresses' \in Seq(Address) /\ drops' \in Nat
  BY Zenon DEF SweepInv
<1> QED
  BY <1>3, <1>4, Zenon DEF SweepInv

(* The same when the chain, its pool and the records rest. *)
LEMMA SyncRests ==
  ASSUME SweepInv, NEW s \in Syncers, UNCHANGED <<addressVars, chainVars, storeVars>>,
         SyncTypes', Others(s), Holds(chain, drops, pool \cup committed, sync'[s])
  PROVE  SweepInv'
<1>1. UNCHANGED <<chain, pool, committed, drops, sweeps, funding, addresses>>
  BY DEF addressVars, chainVars, storeVars
<1>2. LedgerInv'
  BY <1>1, Zenon DEF SweepInv, LedgerInv
<1>3. RecordInv'
  BY <1>1, Zenon DEF SweepInv, RecordInv
<1>4. Holds(chain', drops', pool' \cup committed', sync'[s]) /\ pool \subseteq pool'
  BY <1>1, Zenon
<1> QED
  BY <1>1, <1>2, <1>3, <1>4, SyncMoves, Zenon

-----------------------------------------------------------------------------
(* What the invariant says of a transaction of the pool. *)
LEMMA LedgerParts ==
  ASSUME LedgerInv
  PROVE  /\ chain \in Seq(Cell) /\ Len(chain) \in Nat /\ DOMAIN chain = 1 .. Len(chain)
         /\ \A tx \in pool \cup committed : tx.inputs \subseteq DOMAIN chain
         /\ \A p \in DOMAIN chain : chain[p] \in Cell
         /\ pool \cup committed \subseteq Sweep
BY CellParts DEF LedgerInv, Made

(* The chain and the transactions rest. *)
LEMMA LedgerRests ==
  ASSUME LedgerInv, chain' \in Seq(Cell), Grown(chain, chain'),
         \A p \in DOMAIN chain : chain'[p].live = chain[p].live, pool' = pool, committed' = committed
  PROVE  LedgerInv'
<1>1. \A tx \in pool \cup committed : Made(chain', tx.inputs, tx.raw)
  BY MadeKept, Zenon DEF LedgerInv
<1>2. /\ \A tx \in pool : \A p \in tx.inputs : chain'[p].live
      /\ \A tx \in committed : \A p \in tx.inputs : ~chain'[p].live
  BY LedgerParts DEF LedgerInv
<1>3. /\ \A t, u \in pool' : t.inputs \cap u.inputs # {} => t = u
      /\ \A t, u \in committed' : t.inputs \cap u.inputs # {} => t = u
      /\ pool' \cup committed' \subseteq Sweep
  BY Zenon DEF LedgerInv
<1> QED
  BY <1>1, <1>2, <1>3, Zenon DEF LedgerInv

(* A payment appends a live cell. *)
LEMMA DepositStep ==
  ASSUME SweepInv, NEW payment \in Payments, Deposit(payment)
  PROVE  SweepInv'
<1> DEFINE new == [index |-> payment.index, raw |-> payment.raw, capacity |-> payment.capacity,
                   conf |-> 0, live |-> TRUE]
<1>1. /\ chain' = Append(chain, new) /\ UNCHANGED <<pool, committed, drops, sync, sweeps, funding, addresses>>
  BY DEF Deposit, addressVars, storeVars
<1>2. new \in Cell
  <2>1. payment.index \in Nat /\ payment.raw \in Nat /\ payment.capacity \in Nat
    BY ConstAssumption
  <2> QED
    BY <2>1 DEF Cell
<1> HIDE DEF new
<1>3. LedgerInv
  BY Zenon DEF SweepInv
<1>4. /\ chain' \in Seq(Cell) /\ Len(chain') = Len(chain) + 1
      /\ \A i \in 1 .. Len(chain) : chain'[i] = chain[i]
  BY <1>1, <1>2, <1>3, LedgerParts, SeqMore
<1>5. Grown(chain, chain') /\ \A p \in DOMAIN chain : chain'[p].live = chain[p].live
  <2>1. DOMAIN chain' = 1 .. Len(chain) + 1
    BY <1>4, CellParts, Zenon
  <2> QED
    BY <1>3, <1>4, <2>1, LedgerParts DEF Grown
<1>6. LedgerInv'
  BY <1>1, <1>3, <1>4, <1>5, LedgerRests, Zenon
<1>7. NoneLost(drops, pool \cup committed, drops', pool' \cup committed') /\ drops' \in Nat
  BY <1>1 DEF NoneLost, SweepInv
<1> QED
  BY <1>1, <1>5, <1>6, <1>7, ChainMoves, Zenon

(* Rewriting each cell of a chain in place. *)
LEMMA Rewritten ==
  ASSUME NEW c \in Seq(Cell), NEW e, e = [p \in DOMAIN c |-> e[p]], \A p \in DOMAIN c : e[p] \in Cell
  PROVE  e \in Seq(Cell) /\ Len(e) = Len(c) /\ DOMAIN e = DOMAIN c
<1>1. Len(c) \in Nat /\ DOMAIN c = 1 .. Len(c)
  BY CellParts, Zenon
<1>2. e \in [1 .. Len(c) -> Cell] /\ DOMAIN e = DOMAIN c
  BY <1>1
<1>3. e \in Seq(Cell)
  BY <1>1, <1>2
<1> QED
  BY <1>1, <1>2, <1>3

(* The smaller of two confirmation counts is a number. *)
LEMMA MinOfTwo ==
  ASSUME NEW a \in Int, NEW b \in Int
  PROVE  Min({a, b}) \in {a, b}
<1>1. \E x \in {a, b} : \A y \in {a, b} : x <= y
  BY a <= b \/ b <= a
<1> QED
  BY <1>1, Zenon DEF Min

(* A block confirms cells, which hold what they held. *)
LEMMA MineStep ==
  ASSUME SweepInv, Mine
  PROVE  SweepInv'
<1>1. /\ UNCHANGED <<pool, committed, drops, sync, sweeps, funding, addresses>>
      /\ chain' = [p \in DOMAIN chain |-> [chain[p] EXCEPT !.conf = Min({@ + 1, ConfirmationBlocks})]]
  BY DEF Mine, addressVars, storeVars, Positions
<1>2. LedgerInv
  BY Zenon DEF SweepInv
<1>3. ASSUME NEW p \in DOMAIN chain
      PROVE  chain'[p] \in Cell /\ chain'[p].raw = chain[p].raw /\ chain'[p].live = chain[p].live
  <2> DEFINE m == Min({chain[p].conf + 1, ConfirmationBlocks})
  <2>1. chain[p] \in Cell /\ chain[p].conf \in Nat
    BY <1>2, LedgerParts DEF Cell
  <2>2. m \in Nat
    <3>1. chain[p].conf + 1 \in Int /\ ConfirmationBlocks \in Int
      BY <2>1, ConstAssumption
    <3>2. m \in {chain[p].conf + 1, ConfirmationBlocks}
      BY <3>1, MinOfTwo, Zenon
    <3> QED
      BY <2>1, <3>2, ConstAssumption
  <2>3. chain'[p] = [chain[p] EXCEPT !.conf = m]
    BY <1>1
  <2> HIDE DEF m
  <2> QED
    BY <2>1, <2>2, <2>3 DEF Cell
<1>4. chain' = [p \in DOMAIN chain |-> chain'[p]]
  BY <1>1
<1>5. chain' \in Seq(Cell) /\ DOMAIN chain' = DOMAIN chain
  BY <1>2, <1>3, <1>4, LedgerParts, Rewritten, Zenon
<1>6. Grown(chain, chain') /\ \A p \in DOMAIN chain : chain'[p].live = chain[p].live
  BY <1>3, <1>5 DEF Grown
<1>7. LedgerInv'
  BY <1>1, <1>2, <1>5, <1>6, LedgerRests, Zenon
<1>8. NoneLost(drops, pool \cup committed, drops', pool' \cup committed') /\ drops' \in Nat
  BY <1>1 DEF NoneLost, SweepInv
<1> QED
  BY <1>1, <1>6, <1>7, <1>8, ChainMoves, Zenon

(* A dropped transaction is counted. *)
LEMMA DropStep ==
  ASSUME SweepInv, NEW tx \in pool, Drop(tx)
  PROVE  SweepInv'
<1>1. /\ UNCHANGED <<chain, committed, sync, sweeps, funding, addresses>>
      /\ pool' = pool \ {tx} /\ drops' = drops + 1
  BY DEF Drop, addressVars, storeVars
<1>2. LedgerInv /\ drops \in Nat
  BY Zenon DEF SweepInv
<1>3. LedgerInv'
  BY <1>1, <1>2 DEF LedgerInv
<1>4. Grown(chain, chain') /\ NoneLost(drops, pool \cup committed, drops', pool' \cup committed') /\ drops' \in Nat
  BY <1>1, <1>2 DEF Grown, NoneLost
<1> QED
  BY <1>1, <1>3, <1>4, ChainMoves, Zenon

(* The change of a transaction is a sequence of cells. *)
LEMMA ChangeTyped ==
  ASSUME LedgerInv, NEW tx \in pool
  PROVE  Change(tx) \in Seq(Cell)
<1> DEFINE T == tx.inputs
           f == [p \in T |-> chain[p].capacity]
           rest == Capacity(T) - TreasuryOccupied - Fee
           out == [index |-> tx.index, raw |-> 0, capacity |-> rest, conf |-> 0, live |-> TRUE]
<1>1. T \in SUBSET DOMAIN chain /\ chain \in Seq(Cell)
  BY LedgerParts, Zenon
<1>2. IsFiniteSet(T)
  BY <1>1, RawInNat, Zenon
<1>3. \A p \in T : f[p] \in Int
  BY <1>1, CellParts
<1>4. Capacity(T) = SumFunctionOnSet(f, T)
  BY DEF Capacity
<1> HIDE DEF f
<1>5. Capacity(T) \in Int
  BY <1>2, <1>3, <1>4, SumInt, Zenon
<1>6. rest \in Int /\ tx.index \in Nat
  <2>1. TreasuryOccupied \in Int /\ Fee \in Int
    BY ConstAssumption
  <2>2. tx \in Sweep
    BY LedgerParts, Zenon
  <2>3. tx.index \in Nat
    BY ONLY <2>2 DEF Sweep
  <2>4. rest \in Int
    BY ONLY <1>5, <2>1 DEF rest
  <2> QED
    BY <2>3, <2>4, Zenon
<1> HIDE DEF rest
<1>7. <<>> \in Seq(Cell)
  OBVIOUS
<1>8. out \in Cell
  BY <1>6 DEF Cell
<1> HIDE DEF out
<1>9. <<out>> \in Seq(Cell)
  BY <1>8
<1>10. Change(tx) \in {<<out>>, <<>>}
  BY DEF Change, out, rest
<1> QED
  BY <1>7, <1>9, <1>10, Zenon

(* A transaction is committed: its cells are spent, its change is          *)
(* appended, and those of the pool that shared a cell with it are none.    *)
LEMMA CommitStep ==
  ASSUME SweepInv, NEW tx \in pool, Commit(tx)
  PROVE  SweepInv'
<1> DEFINE spent == [p \in DOMAIN chain |-> IF p \in tx.inputs THEN [chain[p] EXCEPT !.live = FALSE] ELSE chain[p]]
<1>1. /\ UNCHANGED <<drops, sync, sweeps, funding, addresses>>
      /\ pool' = pool \ {tx} /\ committed' = committed \cup {tx}
      /\ chain' = spent \o Change(tx)
  BY DEF Commit, addressVars, storeVars, Positions
<1>2. LedgerInv /\ drops \in Nat
  BY Zenon DEF SweepInv
<1>3. ASSUME NEW p \in DOMAIN chain
      PROVE  /\ spent[p] \in Cell /\ spent[p].raw = chain[p].raw
             /\ spent[p].live = (chain[p].live /\ p \notin tx.inputs)
  <2>1. chain[p] \in Cell
    BY <1>2, LedgerParts
  <2> QED
    BY <2>1, Zenon DEF Cell
<1>4. spent = [p \in DOMAIN chain |-> spent[p]]
  OBVIOUS
<1> HIDE DEF spent
<1>5. spent \in Seq(Cell) /\ Len(spent) = Len(chain) /\ DOMAIN spent = DOMAIN chain
  <2>1. chain \in Seq(Cell) /\ \A p \in DOMAIN chain : spent[p] \in Cell
    BY <1>2, <1>3, LedgerParts, Zenon
  <2> QED
    BY <1>4, <2>1, Rewritten, Zenon
<1>6. /\ chain' \in Seq(Cell) /\ DOMAIN chain \subseteq DOMAIN chain'
      /\ \A p \in DOMAIN chain : chain'[p] = spent[p]
  <2> DEFINE rest == Change(tx)
  <2>1. rest \in Seq(Cell)
    BY <1>2, ChangeTyped, Zenon
  <2> HIDE DEF rest
  <2>2. Len(rest) \in Nat /\ Len(chain) \in Nat /\ DOMAIN chain = 1 .. Len(chain)
    BY <1>2, <2>1, CellParts, LedgerParts, Zenon
  <2>3. /\ spent \o rest \in Seq(Cell) /\ Len(spent \o rest) = Len(chain) + Len(rest)
        /\ \A i \in 1 .. Len(chain) + Len(rest) :
             (spent \o rest)[i] = IF i <= Len(chain) THEN spent[i] ELSE rest[i - Len(chain)]
    <3>1. ASSUME NEW c \in Seq(Cell), NEW e \in Seq(Cell)
          PROVE  /\ c \o e \in Seq(Cell) /\ Len(c \o e) = Len(c) + Len(e)
                 /\ \A i \in 1 .. Len(c) + Len(e) : (c \o e)[i] = IF i <= Len(c) THEN c[i] ELSE e[i - Len(c)]
      OBVIOUS
    <3>2. /\ spent \o rest \in Seq(Cell) /\ Len(spent \o rest) = Len(spent) + Len(rest)
          /\ \A i \in 1 .. Len(spent) + Len(rest) :
               (spent \o rest)[i] = IF i <= Len(spent) THEN spent[i] ELSE rest[i - Len(spent)]
      BY <1>5, <2>1, <3>1, Zenon
    <3> QED
      BY <1>5, <3>2
  <2>4. chain' = spent \o rest
    BY <1>1 DEF rest
  <2>5. DOMAIN chain' = 1 .. Len(chain) + Len(rest)
    BY <2>3, <2>4, CellParts
  <2> QED
    BY <2>2, <2>3, <2>4, <2>5
<1>7. Grown(chain, chain')
  BY <1>3, <1>6 DEF Grown
<1>8. /\ tx.inputs \subseteq DOMAIN chain /\ tx \in Sweep
      /\ \A t \in pool \cup committed : t.inputs \subseteq DOMAIN chain
      /\ pool' \cup committed' \subseteq pool \cup committed
      /\ pool \cup committed \subseteq pool' \cup committed'
  BY <1>1, <1>2, LedgerParts
<1>9. LedgerInv'
  <2>1. \A t \in pool' \cup committed' : Made(chain', t.inputs, t.raw)
    <3> TAKE t \in pool' \cup committed'
    <3>1. Made(chain, t.inputs, t.raw)
      BY <1>2, <1>8 DEF LedgerInv
    <3> QED
      BY <1>7, <3>1, MadeKept, Zenon
  <2>2. ASSUME NEW t \in pool' , NEW p \in t.inputs PROVE chain'[p].live
    <3>1. p \in DOMAIN chain /\ chain[p].live /\ t \in pool
      BY <1>1, <1>2, <1>8 DEF LedgerInv
    <3>2. p \notin tx.inputs
      BY <1>1, <1>2, <3>1 DEF LedgerInv
    <3> QED
      BY <1>3, <1>6, <3>1, <3>2, Zenon
  <2>3. ASSUME NEW t \in committed', NEW p \in t.inputs PROVE ~chain'[p].live
    <3>1. p \in DOMAIN chain /\ (t = tx \/ ~chain[p].live)
      BY <1>1, <1>2, <1>8 DEF LedgerInv
    <3> QED
      BY <1>3, <1>6, <3>1, Zenon
  <2>4. \A t, u \in pool' : t.inputs \cap u.inputs # {} => t = u
    BY <1>1, <1>2, Zenon DEF LedgerInv
  <2>5. \A t \in committed : t.inputs \cap tx.inputs = {}
    BY <1>2 DEF LedgerInv
  <2>6. \A t, u \in committed' : t.inputs \cap u.inputs # {} => t = u
    BY <1>1, <1>2, <2>5 DEF LedgerInv
  <2>7. pool' \cup committed' \subseteq Sweep
    BY <1>2, <1>8 DEF LedgerInv
  <2> QED
    BY <1>6, <2>1, <2>2, <2>3, <2>4, <2>6, <2>7, Zenon DEF LedgerInv
<1>10. NoneLost(drops, pool \cup committed, drops', pool' \cup committed') /\ drops' \in Nat
  BY <1>1, <1>2, <1>8, Zenon DEF NoneLost
<1> QED
  BY <1>1, <1>7, <1>9, <1>10, ChainMoves, Zenon

-----------------------------------------------------------------------------
(* What the invariant says of one syncer. *)
LEMMA SyncParts ==
  ASSUME SweepInv, NEW s \in Syncers
  PROVE  /\ SyncTypes /\ LedgerInv /\ RecordInv /\ sync[s] \in Syncing /\ sync[s].tx \in Sweep
         /\ Holds(chain, drops, pool \cup committed, sync[s])
         /\ sync[s].pc # "idle" => sync[s].todo \in Seq(Address) /\ sync[s].todo # <<>>
BY Zenon DEF SweepInv, SyncTypes, Syncing

(* A syncer that is idle or looks at a balance carries nothing. *)
LEMMA EmptyHanded ==
  ASSUME NEW c, NEW d, NEW txs, NEW k, k.pc \in {"idle", "query", "build"}
  PROVE  Holds(c, d, txs, k)
BY DEF Holds

(* A sync begins with all addresses. *)
LEMMA SyncStartStep ==
  ASSUME SweepInv, NEW s \in Syncers, StartSync(s)
  PROVE  SweepInv'
<1> DEFINE k == [pc |-> "query", todo |-> addresses, tx |-> Idle.tx]
<1>1. /\ addresses # <<>> /\ sync' = [sync EXCEPT ![s] = k]
      /\ UNCHANGED <<addressVars, chainVars, storeVars>>
  BY DEF StartSync
<1>2. addresses \in Seq(Address) /\ SyncTypes
  BY Zenon DEF SweepInv
<1>3. k \in Syncing /\ k.pc = "query" /\ k.todo # <<>>
  BY <1>1, <1>2, IdleTyped, Places7 DEF Syncing
<1> HIDE DEF k
<1>4. SyncTypes' /\ sync'[s] = k /\ Others(s)
  BY <1>1, <1>2, <1>3, MoveTo, Zenon
<1>5. Holds(chain, drops, pool \cup committed, sync'[s])
  BY <1>3, <1>4, EmptyHanded
<1> QED
  BY <1>1, <1>4, <1>5, SyncRests, Zenon

(* A syncer that gives its transaction up, or goes on to the next address, *)
(* keeps the invariant.                                                    *)
LEMMA LeavesStep ==
  ASSUME SweepInv, NEW s \in Syncers, (sync[s].pc # "idle" /\ Advance(s)) \/ Return(s),
         UNCHANGED <<addressVars, chainVars, storeVars>>
  PROVE  SweepInv'
<1>1. SyncTypes
  BY Zenon DEF SweepInv
<1>2. SyncTypes' /\ sync'[s].pc \in {"idle", "query"} /\ Others(s)
  BY <1>1, AdvanceMove, ReturnMove, Zenon
<1>3. sync'[s].pc \in {"idle", "query", "build"}
  BY <1>2
<1>4. Holds(chain, drops, pool \cup committed, sync'[s])
  BY <1>3, EmptyHanded
<1> QED
  BY <1>2, <1>4, SyncRests, Zenon

(* Looking at the balance. *)
LEMMA CheckStep ==
  ASSUME SweepInv, NEW s \in Syncers, CheckBalance(s)
  PROVE  SweepInv'
<1>1. /\ sync[s].pc # "idle" /\ UNCHANGED <<addressVars, chainVars, storeVars>>
      /\ Advance(s) \/ Goto(s, "build")
  BY DEF CheckBalance, At
<1>2. CASE Advance(s)
  BY <1>1, <1>2, LeavesStep, Zenon
<1>3. CASE Goto(s, "build")
  <2>1. SyncTypes /\ "build" \in Places \ {"idle"}
    BY DEF SweepInv, Places
  <2>2. SyncTypes' /\ sync'[s].pc = "build" /\ Others(s)
    BY <1>1, <1>3, <2>1, GotoMove, Zenon
  <2>3. Holds(chain, drops, pool \cup committed, sync'[s])
    BY <2>2, EmptyHanded
  <2> QED
    BY <1>1, <2>2, <2>3, SyncRests, Zenon
<1> QED
  BY <1>1, <1>2, <1>3, Zenon

(* The transaction SweepToTreasury builds takes cells of the chain, and    *)
(* for what they hold.                                                     *)
LEMMA SweepIsMade ==
  ASSUME LedgerInv, NEW i \in Nat, SweepTx(i).raw # 0
  PROVE  SweepTx(i) \in Sweep /\ Made(chain, SweepTx(i).inputs, SweepTx(i).raw)
<1> DEFINE A == confirmedCells(i)
           F == feeCells(i)
           T == A \cup F
           f == [p \in T |-> chain[p].raw]
           g == [p \in A |-> chain[p].raw]
<1>1. /\ SweepTx(i).index = i /\ SweepTx(i).inputs = T /\ SweepTx(i).raw = Units(A)
      /\ SweepTx(i) = [index |-> i, inputs |-> T, raw |-> Units(A)]
  BY DEF SweepTx, QueryBalance
<1>2. /\ chain \in Seq(Cell) /\ Len(chain) \in Nat /\ DOMAIN chain = 1 .. Len(chain)
  BY LedgerParts, Zenon
<1>3. A \subseteq DOMAIN chain /\ \A p \in A : chain[p].raw > 0
  BY DEF confirmedCells, listSUDTCells, FirstOf, LiveCells, Positions
<1>4. F \subseteq DOMAIN chain /\ \A p \in F : chain[p].raw = 0
  BY DEF feeCells, listPureCKBCells, FirstOf, LiveCells, Positions
<1> HIDE DEF A, F
<1>5. A \cap F = {}
  BY <1>3, <1>4
<1>6. T \in SUBSET DOMAIN chain /\ A \in SUBSET DOMAIN chain /\ A \in SUBSET T /\ T \ A = F /\ F \in SUBSET DOMAIN chain
  BY <1>3, <1>4, <1>5
<1>7. IsFiniteSet(T) /\ IsFiniteSet(A) /\ IsFiniteSet(F) /\ RawIn(chain, A) \in Nat
  BY <1>2, <1>6, RawInNat, Zenon
<1>8. (\A p \in T : f[p] \in Int) /\ (\A p \in A : f[p] \in Int /\ g[p] = f[p]) /\ (\A p \in F : f[p] = 0)
  BY <1>2, <1>4, <1>6, CellParts
<1>9. RawIn(chain, T) = SumFunctionOnSet(f, T) /\ RawIn(chain, A) = SumFunctionOnSet(g, A)
  BY DEF RawIn
<1>10. Units(A) = RawIn(chain, A)
  BY DEF Units, RawIn
<1> HIDE DEF f, g
<1>11. SumFunctionOnSet(f, A) = SumFunctionOnSet(g, A)
  BY <1>7, <1>8, SumEqual, Zenon
<1>12. SumFunctionOnSet(f, F) = 0
  BY <1>7, <1>8, SumZero, Zenon
<1>13. SumFunctionOnSet(f, T) = SumFunctionOnSet(f, A) + SumFunctionOnSet(f, T \ A)
  <2> HIDE DEF T
  <2>1. IsFiniteSet(T) /\ (\A p \in T : f[p] \in Int) /\ A \in SUBSET T
    BY <1>6, <1>7, <1>8, Zenon
  <2> QED
    BY ONLY <2>1, SumUnion
<1>14. RawIn(chain, T) = Units(A) /\ Units(A) \in Nat
  <2> HIDE DEF T
  <2>1. SumFunctionOnSet(f, T \ A) = 0
    BY <1>6, <1>12, Zenon
  <2>2. ASSUME NEW n \in Nat PROVE n + 0 = n
    OBVIOUS
  <2>3. RawIn(chain, T) = RawIn(chain, A) + 0
    BY <1>9, <1>11, <1>13, <2>1, Zenon
  <2> QED
    BY <1>7, <1>10, <2>2, <2>3, Zenon
<1>15. T # {}
  <2>1. ASSUME T = {} PROVE FALSE
    <3>1. A = {}
      BY <2>1
    <3>2. SumFunctionOnSet(g, A) = 0
      BY <3>1, SumEmpty, Zenon
    <3> QED
      BY <1>1, <1>9, <1>10, <3>2
  <2> QED
    BY <2>1
<1>16. T \subseteq Nat
  BY <1>2, <1>6
<1> HIDE DEF T
<1>17. SweepTx(i) \in Sweep
  BY <1>1, <1>14, <1>16 DEF Sweep
<1> QED
  BY <1>1, <1>6, <1>14, <1>15, <1>17 DEF Made

(* Building a transaction. *)
LEMMA BuildStep ==
  ASSUME SweepInv, NEW s \in Syncers, BuildSweep(s)
  PROVE  SweepInv'
<1> DEFINE tx == SweepTx(Current(s).index)
<1>1. /\ sync[s].pc = "build" /\ UNCHANGED <<addressVars, chainVars, storeVars>>
      /\ Advance(s) \/ Return(s) \/ (tx.raw # 0 /\ GotoWith(s, "send", tx))
  BY DEF BuildSweep, At
<1>2. CASE Advance(s) \/ Return(s)
  <2>1. sync[s].pc # "idle"
    BY <1>1
  <2> QED
    BY <1>1, <1>2, <2>1, LeavesStep, Zenon
<1>3. CASE tx.raw # 0 /\ GotoWith(s, "send", tx)
  <2>1. Current(s).index \in Nat
    <3>1. sync[s].todo \in Seq(Address) /\ sync[s].todo # <<>>
      BY <1>1, SyncParts, Zenon
    <3>2. Head(sync[s].todo) \in Address
      BY <3>1, SeqTail, Zenon
    <3> QED
      BY <3>2 DEF Current, Address
  <2>2. tx \in Sweep /\ Made(chain, tx.inputs, tx.raw)
    BY <1>3, <2>1, SweepIsMade, SyncParts, Zenon
  <2> HIDE DEF tx
  <2>3. SyncTypes /\ sync[s].pc # "idle" /\ "send" \in Places \ {"idle"}
    BY <1>1, SyncParts DEF Places
  <2>4. SyncTypes' /\ sync'[s].pc = "send" /\ sync'[s].tx = tx /\ Others(s)
    BY <1>3, <2>2, <2>3, GotoWithMove, Zenon
  <2>5. Holds(chain, drops, pool \cup committed, sync'[s])
    BY <2>2, <2>4 DEF Holds
  <2> QED
    BY <1>1, <2>4, <2>5, SyncRests, Zenon
<1> QED
  BY <1>1, <1>2, <1>3, Zenon

(* Sending it: the pool takes it, or has it already, or the sync ends. *)
LEMMA SendStep ==
  ASSUME SweepInv, NEW s \in Syncers, SendTransaction(s)
  PROVE  SweepInv'
<1> DEFINE tx == sync[s].tx
<1>1. /\ sync[s].pc = "send" /\ UNCHANGED <<chain, committed, drops, addresses, sweeps, funding>>
      /\ \/ (tx \in pool \/ Accepts(tx)) /\ Goto(s, "find")
         \/ tx \notin pool /\ ~Accepts(tx) /\ Return(s)
      /\ pool' = IF Accepts(tx) THEN pool \cup {tx} ELSE pool
  BY DEF SendTransaction, At, addressVars, storeVars
<1>2. /\ SyncTypes /\ LedgerInv /\ RecordInv /\ tx \in Sweep /\ Made(chain, tx.inputs, tx.raw)
  BY <1>1, SyncParts, Zenon DEF Holds
<1>3. pool \subseteq pool' /\ pool' \subseteq pool \cup {tx}
  BY <1>1
<1>4. LedgerInv'
  <2>1. CASE ~Accepts(tx)
    BY <1>1, <1>2, <2>1, Zenon DEF LedgerInv
  <2>2. CASE Accepts(tx)
    <3>1. (\A p \in tx.inputs : chain[p].live) /\ \A t \in pool : t.inputs \cap tx.inputs = {}
      BY <2>2 DEF Accepts
    <3>2. pool' = pool \cup {tx}
      BY <1>1, <2>2
    <3> HIDE DEF tx
    <3>3. \A t, u \in pool' : t.inputs \cap u.inputs # {} => t = u
      BY <1>2, <3>1, <3>2 DEF LedgerInv
    <3>4. /\ \A t \in pool' \cup committed' : Made(chain', t.inputs, t.raw)
          /\ pool' \cup committed' \subseteq Sweep
      BY <1>1, <1>2, <3>2, Zenon DEF LedgerInv
    <3>5. \A t \in pool' : \A p \in t.inputs : chain'[p].live
      BY <1>1, <1>2, <3>1, <3>2, Zenon DEF LedgerInv
    <3> QED
      BY <1>1, <1>2, <3>3, <3>4, <3>5, Zenon DEF LedgerInv
  <2> QED
    BY <2>1, <2>2
<1>5. RecordInv'
  <2>1. NoneLost(drops, pool \cup committed, drops', pool' \cup committed') /\ Grown(chain, chain')
    BY <1>1, <1>3 DEF NoneLost, Grown
  <2>2. \A f \in funding : Recorded(chain', drops', pool' \cup committed', f)
    BY <1>2, <2>1, RecordedKept, Zenon DEF RecordInv
  <2> QED
    BY <1>1, <1>2, <2>2, Zenon DEF RecordInv
<1>6. SyncTypes' /\ Others(s) /\ Holds(chain', drops', pool' \cup committed', sync'[s])
  <2>1. CASE Return(s)
    <3>1. SyncTypes' /\ sync'[s].pc \in {"idle", "query"} /\ Others(s)
      BY <1>2, <2>1, ReturnMove, Zenon
    <3> QED
      BY <3>1, EmptyHanded
  <2>2. CASE (tx \in pool \/ Accepts(tx)) /\ Goto(s, "find")
    <3>1. "find" \in Places \ {"idle"} /\ sync[s].pc # "idle"
      BY <1>1 DEF Places
    <3>2. SyncTypes' /\ sync'[s].pc = "find" /\ sync'[s].tx = tx /\ Others(s)
      BY <1>2, <2>2, <3>1, GotoMove, Zenon
    <3>3. tx \in pool' \cup committed'
      BY <1>1, <2>2
    <3> HIDE DEF tx
    <3> QED
      BY <1>1, <1>2, <3>2, <3>3 DEF Holds, BackedIn
  <2> QED
    BY <1>1, <2>1, <2>2, Zenon
<1> QED
  BY <1>1, <1>3, <1>4, <1>5, <1>6, SyncMoves, Zenon

(* Looking the transaction up in the records. *)
LEMMA FindStep ==
  ASSUME SweepInv, NEW s \in Syncers, FindSweep(s)
  PROVE  SweepInv'
<1> DEFINE tx == sync[s].tx
           b == Current(s).buyer
<1>1. /\ sync[s].pc = "find" /\ UNCHANGED <<addressVars, chainVars, storeVars>>
      /\ \/ Goto(s, "record") \/ Advance(s)
         \/ \E r \in findBuyerDepositSweepByTxHash(b, tx) : GotoWith(s, "credit", [tx EXCEPT !.raw = r.raw])
  BY DEF FindSweep, At
<1>2. /\ SyncTypes /\ RecordInv /\ LedgerInv /\ tx \in Sweep /\ Made(chain, tx.inputs, tx.raw)
      /\ BackedIn(drops, pool \cup committed, tx.inputs) /\ sync[s].pc # "idle"
  BY <1>1, SyncParts, Zenon DEF Holds
<1>3. CASE Advance(s)
  BY <1>1, <1>2, <1>3, LeavesStep, Zenon
<1>4. CASE Goto(s, "record")
  <2>1. "record" \in Places \ {"idle"}
    BY DEF Places
  <2>2. SyncTypes' /\ sync'[s].pc = "record" /\ sync'[s].tx = tx /\ Others(s)
    BY <1>2, <1>4, <2>1, GotoMove, Zenon
  <2> HIDE DEF tx
  <2>3. Holds(chain, drops, pool \cup committed, sync'[s])
    BY <1>2, <2>2 DEF Holds
  <2> QED
    BY <1>1, <2>2, <2>3, SyncRests, Zenon
<1>5. ASSUME NEW r \in findBuyerDepositSweepByTxHash(b, tx), GotoWith(s, "credit", [tx EXCEPT !.raw = r.raw])
      PROVE  SweepInv'
  <2> DEFINE k == [tx EXCEPT !.raw = r.raw]
  <2>1. r \in sweeps /\ r.tx = tx.inputs
    BY DEF findBuyerDepositSweepByTxHash
  <2>2. Made(chain, tx.inputs, r.raw) /\ chain \in Seq(Cell)
    BY <1>2, <2>1, Zenon DEF RecordInv, LedgerInv
  <2>3. r.raw \in Int
    <3>1. tx.inputs \in SUBSET DOMAIN chain /\ r.raw = RawIn(chain, tx.inputs)
      BY <2>2, Zenon DEF Made
    <3>2. RawIn(chain, tx.inputs) \in Nat
      BY <2>2, <3>1, RawInNat, Zenon
    <3> QED
      BY <3>1, <3>2
  <2>4. k \in Sweep /\ k.inputs = tx.inputs /\ k.raw = r.raw
    BY <1>2, <2>3 DEF Sweep
  <2> HIDE DEF k
  <2>5. "credit" \in Places \ {"idle"} /\ GotoWith(s, "credit", k)
    BY <1>5 DEF Places, k
  <2>6. SyncTypes' /\ sync'[s].pc = "credit" /\ sync'[s].tx = k /\ Others(s)
    BY <1>2, <2>4, <2>5, GotoWithMove, Zenon
  <2> HIDE DEF tx
  <2>7. Holds(chain, drops, pool \cup committed, sync'[s])
    BY <1>2, <2>2, <2>4, <2>6 DEF Holds
  <2> QED
    BY <1>1, <2>6, <2>7, SyncRests, Zenon
<1> QED
  BY <1>1, <1>3, <1>4, <1>5, Zenon

(* Recording the sweep. *)
LEMMA RecordStep ==
  ASSUME SweepInv, NEW s \in Syncers, SaveSweep(s)
  PROVE  SweepInv'
<1> DEFINE tx == sync[s].tx
           new == [buyer |-> Current(s).buyer, tx |-> tx.inputs, raw |-> tx.raw]
<1>1. /\ sync[s].pc = "record" /\ Goto(s, "credit")
      /\ sweeps' = {r \in sweeps : r.tx # tx.inputs} \cup {new}
      /\ UNCHANGED <<chain, pool, committed, drops, addresses, funding>>
  BY Zenon DEF SaveSweep, At, addressVars, chainVars
<1>2. /\ SyncTypes /\ LedgerInv /\ RecordInv /\ Made(chain, tx.inputs, tx.raw)
      /\ BackedIn(drops, pool \cup committed, tx.inputs) /\ sync[s].pc # "idle"
  BY <1>1, SyncParts, Zenon DEF Holds
<1>3. new.tx = tx.inputs /\ new.raw = tx.raw
  OBVIOUS
<1>4. "credit" \in Places \ {"idle"}
  BY DEF Places
<1> HIDE DEF new
<1>5. SyncTypes' /\ sync'[s].pc = "credit" /\ sync'[s].tx = tx /\ Others(s)
  BY <1>1, <1>2, <1>4, GotoMove, Zenon
<1> HIDE DEF tx
<1>6. \A r \in sweeps' : Made(chain, r.tx, r.raw)
  BY <1>1, <1>2, <1>3, Zenon DEF RecordInv
<1>7. RecordInv'
  BY <1>1, <1>2, <1>6, Zenon DEF RecordInv
<1>8. LedgerInv' /\ pool \subseteq pool'
  BY <1>1, <1>2, Zenon DEF LedgerInv
<1>9. Holds(chain', drops', pool' \cup committed', sync'[s])
  BY <1>1, <1>2, <1>5, Zenon DEF Holds
<1> QED
  BY <1>1, <1>5, <1>7, <1>8, <1>9, SyncMoves, Zenon

(* Crediting it. *)
LEMMA CreditStep ==
  ASSUME SweepInv, NEW s \in Syncers, saveBuyerTopUpFunding(s)
  PROVE  SweepInv'
<1> DEFINE tx == sync[s].tx
           new == [buyer |-> Current(s).buyer, tx |-> tx.inputs, amount |-> Worth(tx.raw)]
           old == {f \in funding : f.tx # tx.inputs}
<1>1. /\ sync[s].pc = "credit" /\ Advance(s)
      /\ funding' = old \cup {new}
      /\ UNCHANGED <<chain, pool, committed, drops, addresses, sweeps>>
  BY Zenon DEF saveBuyerTopUpFunding, At, addressVars, chainVars, Worth
<1>2. /\ SyncTypes /\ LedgerInv /\ RecordInv /\ Made(chain, tx.inputs, tx.raw)
      /\ BackedIn(drops, pool \cup committed, tx.inputs) /\ sync[s].pc # "idle"
  BY <1>1, SyncParts, Zenon DEF Holds
<1>3. new.tx = tx.inputs /\ new.amount = Worth(tx.raw)
  OBVIOUS
<1> HIDE DEF new
<1>4. SyncTypes' /\ sync'[s].pc \in {"idle", "query"} /\ Others(s)
  BY <1>1, <1>2, AdvanceMove, Zenon
<1> HIDE DEF tx
<1>5. Recorded(chain, drops, pool \cup committed, new)
  <2>1. tx.raw = RawIn(chain, tx.inputs)
    BY <1>2, Zenon DEF Made
  <2> QED
    BY <1>2, <1>3, <2>1, Zenon DEF Recorded
<1>6. IsFiniteSet(funding')
  <2>1. IsFiniteSet(old)
    BY <1>2, FS_Subset DEF RecordInv
  <2> HIDE DEF old
  <2> QED
    BY <1>1, <2>1, FS_AddElement, Zenon
<1>7. \A f \in funding' : Recorded(chain, drops, pool \cup committed, f)
  BY <1>1, <1>2, <1>5, Zenon DEF RecordInv
<1>8. \A f, g \in funding' : f.tx = g.tx => f = g
  BY <1>1, <1>2, <1>3, Zenon DEF RecordInv
<1> HIDE DEF old
<1>9. RecordInv'
  BY <1>1, <1>2, <1>6, <1>7, <1>8, Zenon DEF RecordInv
<1>10. LedgerInv' /\ pool \subseteq pool'
  BY <1>1, <1>2, Zenon DEF LedgerInv
<1>11. Holds(chain', drops', pool' \cup committed', sync'[s])
  BY <1>4, EmptyHanded
<1> QED
  BY <1>1, <1>4, <1>9, <1>10, <1>11, SyncMoves, Zenon

(* A sync may end at any call. *)
LEMMA FailsStep ==
  ASSUME SweepInv, NEW s \in Syncers, Fails(s)
  PROVE  SweepInv'
BY LeavesStep, Zenon DEF Fails

(* Handing out addresses touches nothing else. *)
LEMMA AddressMoves ==
  ASSUME SweepInv, UNCHANGED <<sync, chain, pool, committed, drops, sweeps, funding>>,
         addresses' \in Seq(Address)
  PROVE  SweepInv'
<1>1. LedgerInv'
  BY Zenon DEF SweepInv, LedgerInv
<1>2. RecordInv'
  BY Zenon DEF SweepInv, RecordInv
<1>3. SyncTypes'
  BY Zenon DEF SweepInv, SyncTypes
<1>4. (\A s \in Syncers : Holds(chain', drops', pool' \cup committed', sync'[s])) /\ drops' \in Nat
  BY Zenon DEF SweepInv
<1> QED
  BY <1>1, <1>2, <1>3, <1>4, Zenon DEF SweepInv

(* The invariant holds before the first payment. *)
LEMMA SweepStart == Init => SweepInv
<1> SUFFICES ASSUME Init PROVE SweepInv
  OBVIOUS
<1>1. /\ addresses = <<>> /\ chain = <<>> /\ pool = {} /\ committed = {} /\ sweeps = {} /\ funding = {}
      /\ sync = [s \in Syncers |-> Idle] /\ drops = 0
  BY Zenon DEF Init
<1>2. LedgerInv
  BY <1>1 DEF LedgerInv
<1>3. RecordInv
  BY <1>1, FS_EmptySet, Zenon DEF RecordInv
<1>4. SyncTypes /\ \A s \in Syncers : sync[s] = Idle
  BY <1>1, IdleTyped, Zenon DEF SyncTypes
<1>5. \A s \in Syncers : Holds(chain, drops, pool \cup committed, sync[s])
  BY <1>4, IdleTyped, EmptyHanded
<1>6. addresses \in Seq(Address) /\ drops \in Nat
  BY <1>1
<1> QED
  BY <1>2, <1>3, <1>4, <1>5, <1>6, Zenon DEF SweepInv

(* Every step keeps the invariant. *)
LEMMA SweepNext ==
  ASSUME AddressInv', SweepInv, [Next]_vars
  PROVE  SweepInv'
<1>1. CASE UNCHANGED vars
  <2>1. UNCHANGED <<sync, chain, pool, committed, drops, sweeps, funding>> /\ addresses' \in Seq(Address)
    BY <1>1, Zenon DEF vars, AddressInv
  <2> QED
    BY <2>1, AddressMoves, Zenon
<1>2. CASE Chain
  BY <1>2, DepositStep, MineStep, CommitStep, DropStep, Zenon DEF Chain
<1>3. ASSUME NEW s \in Syncers, Step(s) \/ Fails(s) PROVE SweepInv'
  BY <1>3, SyncStartStep, CheckStep, BuildStep, SendStep, FindStep, RecordStep, CreditStep, FailsStep, Zenon DEF Step
<1>4. ASSUME NEW b \in Buyers, EnsureAddress(b) PROVE SweepInv'
  <2>1. UNCHANGED <<sync, chain, pool, committed, drops, sweeps, funding>> /\ addresses' \in Seq(Address)
    BY <1>4, Zenon DEF EnsureAddress, Derive, chainVars, storeVars, AddressInv
  <2> QED
    BY <2>1, AddressMoves, Zenon
<1>5. ASSUME NEW a \in asking, SaveAddress(a) PROVE SweepInv'
  <2>1. UNCHANGED <<sync, chain, pool, committed, drops, sweeps, funding>> /\ addresses' \in Seq(Address)
    BY <1>5, Zenon DEF SaveAddress, chainVars, storeVars, AddressInv
  <2> QED
    BY <2>1, AddressMoves, Zenon
<1> QED
  BY <1>1, <1>2, <1>3, <1>4, <1>5, Zenon DEF Next

(* So both invariants hold throughout. *)
LEMMA SweepHolds == Spec => [](AddressInv /\ SweepInv)
<1>1. AddressInv /\ SweepInv /\ [Next]_vars => AddressInv' /\ SweepInv'
  BY AddressNext, SweepNext, Zenon
<1> QED
  BY <1>1, AddressStart, SweepStart, PTL DEF Spec

-----------------------------------------------------------------------------
(* What NoSweepForgotten asks for, of one transaction. *)
Cared(inputs) ==
  \/ Credited(inputs)
  \/ \E s \in Syncers : Sent(s) /\ sync[s].tx.inputs = inputs
  \/ inputs \in interrupted

(* A step of a syncer hands on what it cares for. *)
LEMMA CareKept ==
  ASSUME NEW s \in Syncers, Others(s), interrupted \subseteq interrupted',
         \A inputs : Credited(inputs) => Credited(inputs)',
         \A i : Sent(s) /\ sync[s].tx.inputs = i =>
                  (Sent(s)' /\ sync'[s].tx.inputs = i) \/ Credited(i)' \/ i \in interrupted',
         NEW inputs, Cared(inputs)
  PROVE  Cared(inputs)'
<1>1. CASE Credited(inputs) \/ inputs \in interrupted
  BY <1>1, Zenon DEF Cared
<1>2. ASSUME NEW t \in Syncers, Sent(t), sync[t].tx.inputs = inputs PROVE Cared(inputs)'
  <2>1. CASE t = s
    BY <1>2, <2>1, Zenon DEF Cared
  <2>2. CASE t # s
    <3>1. sync'[t] = sync[t]
      BY <2>2, Zenon DEF Others
    <3>2. Sent(t)' /\ sync'[t].tx.inputs = inputs
      BY <1>2, <3>1, Zenon DEF Sent
    <3> QED
      BY <3>2, Zenon DEF Cared
  <2> QED
    BY <2>1, <2>2, Zenon
<1> QED
  BY <1>1, <1>2, Zenon DEF Cared

(* The same when neither credits nor failures are recorded. *)
LEMMA CareRests ==
  ASSUME NEW s \in Syncers, Others(s), interrupted' = interrupted, funding' = funding,
         ~Sent(s) \/ (Sent(s)' /\ sync'[s].tx.inputs = sync[s].tx.inputs) \/ Credited(sync[s].tx.inputs),
         NEW inputs, Cared(inputs)
  PROVE  Cared(inputs)'
<1>1. \A i : Credited(i) => Credited(i)'
  BY Zenon DEF Credited
<1>2. \A i : Sent(s) /\ sync[s].tx.inputs = i => (Sent(s)' /\ sync'[s].tx.inputs = i) \/ Credited(i)'
  BY <1>1, Zenon
<1>3. interrupted \subseteq interrupted'
  OBVIOUS
<1> QED
  BY <1>1, <1>2, <1>3, CareKept, Zenon

(* Every transaction is cared for. *)
Watched == \A tx \in pool \cup committed : Cared(tx.inputs)

(* No new transaction, and each stays cared for. *)
LEMMA WatchedKept ==
  ASSUME Watched, \A inputs : Cared(inputs) => Cared(inputs)', pool' \cup committed' \subseteq pool \cup committed
  PROVE  Watched'
BY Zenon DEF Watched

(* Steps that touch neither syncers nor credits. *)
LEMMA QuietWatch ==
  ASSUME Watched, UNCHANGED <<sync, funding, interrupted>>, pool' \cup committed' \subseteq pool \cup committed
  PROVE  Watched'
<1>1. \A inputs : Cared(inputs) => Cared(inputs)'
  BY Zenon DEF Cared, Credited, Sent
<1> QED
  BY <1>1, WatchedKept, Zenon

(* Every move of a syncer leaves the others alone. *)
LEMMA MovesAlone ==
  ASSUME SyncTypes, NEW s \in Syncers
  PROVE  /\ Advance(s) \/ Return(s) => Others(s)
         /\ \A place : Goto(s, place) => Others(s) /\ sync'[s].pc = place /\ sync'[s].tx = sync[s].tx
         /\ \A place, tx : GotoWith(s, place, tx) => Others(s) /\ sync'[s].pc = place /\ sync'[s].tx = tx
<1>1. sync \in [Syncers -> Syncing] /\ sync[s] \in Syncing
  BY DEF SyncTypes
<1>2. Advance(s) \/ Return(s) => Others(s)
  BY <1>1, Zenon DEF Advance, Return, Others
<1>3. ASSUME NEW place, Goto(s, place)
      PROVE  Others(s) /\ sync'[s].pc = place /\ sync'[s].tx = sync[s].tx
  BY <1>1, <1>3 DEF Goto, Others, Syncing
<1>4. ASSUME NEW place, NEW tx, GotoWith(s, place, tx)
      PROVE  Others(s) /\ sync'[s].pc = place /\ sync'[s].tx = tx
  BY <1>1, <1>4 DEF GotoWith, Others, Syncing
<1> QED
  BY <1>2, <1>3, <1>4, Zenon

(* Every step of a syncer hands on what it cares for. *)
LEMMA WatchSteps ==
  ASSUME SweepInv, Watched, NEW s \in Syncers, Step(s) \/ Fails(s)
  PROVE  Watched'
<1> DEFINE tx == sync[s].tx
<1>0. SyncTypes
  BY Zenon DEF SweepInv
<1>1. CASE StartSync(s) \/ CheckBalance(s) \/ BuildSweep(s)
  <2>1. /\ ~Sent(s) /\ interrupted' = interrupted /\ funding' = funding /\ pool' = pool /\ committed' = committed
    BY <1>1 DEF StartSync, CheckBalance, BuildSweep, At, Sent, chainVars, storeVars
  <2>2. Others(s)
    <3>1. StartSync(s) => Others(s)
      BY <1>0 DEF StartSync, Others, SyncTypes
    <3>2. CheckBalance(s) => Others(s)
      BY <1>0, MovesAlone, Zenon DEF CheckBalance
    <3>3. BuildSweep(s) => Others(s)
      BY <1>0, MovesAlone, Zenon DEF BuildSweep
    <3> QED
      BY <1>1, <3>1, <3>2, <3>3, Zenon
  <2>3. \A inputs : Cared(inputs) => Cared(inputs)'
    BY <2>1, <2>2, CareRests, Zenon
  <2> QED
    BY <2>1, <2>3, WatchedKept, Zenon
<1>2. CASE SendTransaction(s)
  <2>1. /\ ~Sent(s) /\ interrupted' = interrupted /\ funding' = funding /\ committed' = committed
        /\ \/ Goto(s, "find") /\ pool' \subseteq pool \cup {tx}
           \/ Return(s) /\ pool' = pool
    BY <1>2, Zenon DEF SendTransaction, At, Sent, storeVars
  <2>2. Others(s) /\ (Goto(s, "find") => sync'[s].pc = "find" /\ sync'[s].tx = tx)
    BY <1>0, <2>1, MovesAlone, Zenon
  <2>3. \A inputs : Cared(inputs) => Cared(inputs)'
    BY <2>1, <2>2, CareRests, Zenon
  <2>4. \A i : Goto(s, "find") /\ i = tx.inputs => Cared(i)'
    BY <2>2, Zenon DEF Cared, Sent
  <2> HIDE DEF tx
  <2>5. ASSUME NEW t \in pool' \cup committed' PROVE Cared(t.inputs)'
    BY <2>1, <2>3, <2>4, <2>5, Zenon DEF Watched
  <2> QED
    BY <2>5, Zenon DEF Watched
<1>3. CASE FindSweep(s)
  <2>1. /\ interrupted' = interrupted /\ funding' = funding /\ pool' = pool /\ committed' = committed
        /\ \/ Goto(s, "record")
           \/ Advance(s) /\ hasSettledBuyerTopUp(Current(s).buyer, tx)
           \/ \E r \in findBuyerDepositSweepByTxHash(Current(s).buyer, tx) :
                GotoWith(s, "credit", [tx EXCEPT !.raw = r.raw])
    BY <1>3, Zenon DEF FindSweep, chainVars, storeVars
  <2>2. CASE Goto(s, "record")
    <3>1. Others(s) /\ Sent(s)' /\ sync'[s].tx.inputs = sync[s].tx.inputs
      BY <1>0, <2>2, MovesAlone, Zenon DEF Sent
    <3>2. \A inputs : Cared(inputs) => Cared(inputs)'
      BY <2>1, <3>1, CareRests, Zenon
    <3> QED
      BY <2>1, <3>2, WatchedKept, Zenon
  <2>3. CASE Advance(s) /\ hasSettledBuyerTopUp(Current(s).buyer, tx)
    <3>1. Others(s) /\ Credited(sync[s].tx.inputs)
      BY <1>0, <2>3, MovesAlone, Zenon DEF hasSettledBuyerTopUp, Credited
    <3>2. \A inputs : Cared(inputs) => Cared(inputs)'
      BY <2>1, <3>1, CareRests, Zenon
    <3> QED
      BY <2>1, <3>2, WatchedKept, Zenon
  <2>4. ASSUME NEW r, GotoWith(s, "credit", [tx EXCEPT !.raw = r.raw])
        PROVE  Watched'
    <3>1. [tx EXCEPT !.raw = r.raw].inputs = tx.inputs
      BY SyncParts DEF Sweep
    <3>0. \A u : GotoWith(s, "credit", u) => Others(s) /\ sync'[s].pc = "credit" /\ sync'[s].tx = u
      BY <1>0, MovesAlone, Zenon
    <3>2. Others(s) /\ sync'[s].pc = "credit" /\ sync'[s].tx.inputs = sync[s].tx.inputs
      BY <2>4, <3>0, <3>1, Zenon
    <3>3. Sent(s)'
      BY <3>2, Zenon DEF Sent
    <3>4. \A inputs : Cared(inputs) => Cared(inputs)'
      BY <2>1, <3>2, <3>3, CareRests, Zenon
    <3> QED
      BY <2>1, <3>4, WatchedKept, Zenon
  <2> QED
    BY <2>1, <2>2, <2>3, <2>4, Zenon
<1>4. CASE SaveSweep(s)
  <2>1. Goto(s, "credit") /\ interrupted' = interrupted /\ funding' = funding /\ pool' = pool /\ committed' = committed
    BY <1>4, Zenon DEF SaveSweep, chainVars
  <2>2. Others(s) /\ Sent(s)' /\ sync'[s].tx.inputs = sync[s].tx.inputs
    BY <1>0, <2>1, MovesAlone, Zenon DEF Sent
  <2>3. \A inputs : Cared(inputs) => Cared(inputs)'
    BY <2>1, <2>2, CareRests, Zenon
  <2> QED
    BY <2>1, <2>3, WatchedKept, Zenon
<1>5. CASE saveBuyerTopUpFunding(s)
  <2> DEFINE new == [buyer |-> Current(s).buyer, tx |-> tx.inputs, amount |-> Worth(tx.raw)]
  <2>1. /\ Advance(s) /\ interrupted' = interrupted /\ pool' = pool /\ committed' = committed
        /\ funding' = {f \in funding : f.tx # tx.inputs} \cup {new}
    BY <1>5, Zenon DEF saveBuyerTopUpFunding, chainVars, Worth
  <2>2. new.tx = tx.inputs
    OBVIOUS
  <2> HIDE DEF new, tx
  <2>3. \A i : i = tx.inputs \/ Credited(i) => Credited(i)'
    BY <2>1, <2>2, Zenon DEF Credited
  <2>4. Others(s)
    BY <1>0, <2>1, MovesAlone, Zenon
  <2>5. \A inputs : Cared(inputs) => Cared(inputs)'
    BY <2>1, <2>3, <2>4, CareKept, Zenon DEF tx
  <2> QED
    BY <2>1, <2>5, WatchedKept, Zenon
<1>6. CASE Fails(s)
  <2>1. /\ Return(s) /\ funding' = funding /\ pool' = pool /\ committed' = committed
        /\ interrupted' = IF Sent(s) THEN interrupted \cup {sync[s].tx.inputs} ELSE interrupted
    BY <1>6, Zenon DEF Fails, chainVars, storeVars
  <2>2. Others(s)
    BY <1>0, <2>1, MovesAlone, Zenon
  <2>3. /\ interrupted \subseteq interrupted' /\ (Sent(s) => sync[s].tx.inputs \in interrupted')
        /\ \A inputs : Credited(inputs) => Credited(inputs)'
    BY <2>1, Zenon DEF Credited
  <2>4. \A inputs : Cared(inputs) => Cared(inputs)'
    BY <2>2, <2>3, CareKept, Zenon
  <2> QED
    BY <2>1, <2>4, WatchedKept, Zenon
<1> QED
  BY <1>1, <1>2, <1>3, <1>4, <1>5, <1>6, Zenon DEF Step

(* For any syncers and payments: what a sweep has taken is credited, or a  *)
(* syncer that sent it is still at work on it, or one was stopped after it *)
(* had sent it (syncBuyerDepositAddress).                                  *)
THEOREM EverySweepIsWatched == Spec => []NoSweepForgotten
<1>1. Init => Watched
  BY DEF Init, Watched
<1>2. SweepInv /\ Watched /\ [Next]_vars => Watched'
  <2> SUFFICES ASSUME SweepInv, Watched, [Next]_vars PROVE Watched'
    OBVIOUS
  <2>1. CASE UNCHANGED vars
    <3>1. UNCHANGED <<sync, funding, interrupted>> /\ pool' \cup committed' \subseteq pool \cup committed
      BY <2>1, Zenon DEF vars
    <3> QED
      BY <3>1, QuietWatch, Zenon
  <2>2. CASE Chain
    <3>1. UNCHANGED <<sync, funding, interrupted>>
      BY <2>2, Zenon DEF Chain, Deposit, Mine, Commit, Drop, storeVars
    <3>2. pool' \cup committed' \subseteq pool \cup committed
      BY <2>2, Zenon DEF Chain, Deposit, Mine, Commit, Drop
    <3> QED
      BY <3>1, <3>2, QuietWatch, Zenon
  <2>3. CASE (\E b \in Buyers : EnsureAddress(b)) \/ \E a \in asking : SaveAddress(a)
    <3>1. UNCHANGED <<sync, funding, interrupted, pool, committed>>
      BY <2>3, Zenon DEF EnsureAddress, Derive, SaveAddress, chainVars, storeVars
    <3> QED
      BY <3>1, QuietWatch, Zenon
  <2> QED
    BY <2>1, <2>2, <2>3, WatchSteps, Zenon DEF Next
<1>3. Watched => NoSweepForgotten
  BY Zenon DEF Watched, Cared, NoSweepForgotten
<1> QED
  BY <1>1, <1>2, <1>3, SweepHolds, PTL DEF Spec

-----------------------------------------------------------------------------
(* Division rounds down. *)
LEMMA Quotient ==
  ASSUME NEW n \in Nat, NEW u \in Nat, u # 0
  PROVE  n \div u \in Nat /\ (n \div u) * u <= n /\ n < (n \div u) * u + u
OBVIOUS

(* Products distribute over sums. *)
LEMMA Distributes ==
  ASSUME NEW a \in Int, NEW b \in Int, NEW u \in Int
  PROVE  (a + b) * u = a * u + b * u /\ a * u \in Int /\ b * u \in Int
OBVIOUS

(* Terms that are rounded down to units of U have a sum that is less than  *)
(* U short for each of them.                                               *)
LEMMA RoundedSum ==
  ASSUME NEW a, NEW c, NEW S, IsFiniteSet(S), NEW U \in Nat, U # 0,
         \A x \in S : /\ a[x] \in Int /\ c[x] \in Int
                      /\ c[x] * U <= a[x] * 100 /\ a[x] * 100 < c[x] * U + U
  PROVE  /\ SumFunctionOnSet(c, S) * U <= SumFunctionOnSet(a, S) * 100
         /\ SumFunctionOnSet(a, S) * 100 <= SumFunctionOnSet(c, S) * U + Cardinality(S) * (U - 1)
         /\ SumFunctionOnSet(c, S) \in Int /\ SumFunctionOnSet(a, S) \in Int
<1> DEFINE A(s) == SumFunctionOnSet(a, s)
           C(s) == SumFunctionOnSet(c, s)
           Ok(s) == C(s) * U <= A(s) * 100 /\ A(s) * 100 <= C(s) * U + Cardinality(s) * (U - 1)
           B == {s \in SUBSET S : ~Ok(s)}
<1>0. (\A x \in S : a[x] \in Int) /\ (\A x \in S : c[x] \in Int) /\ S \in SUBSET S
  OBVIOUS
<1>1. C(S) \in Int /\ A(S) \in Int
  BY <1>0, FinitePart, Zenon
<1>2. ASSUME B # {} PROVE FALSE
  <2>1. PICK s \in B : \A x \in s : s \ {x} \notin B
    BY <1>2, MinimalSet, Zenon
  <2>2. s # {}
    <3>1. A({}) = 0 /\ C({}) = 0 /\ Cardinality({}) = 0
      BY SumEmpty, FS_EmptySet, Zenon
    <3>2. U - 1 \in Int
      OBVIOUS
    <3>3. 0 * U = 0 /\ 0 * 100 = 0 /\ 0 * (U - 1) = 0 /\ 0 <= 0 /\ 0 <= 0 + 0
      BY <3>2
    <3> QED
      BY <2>1, <3>1, <3>3, Zenon
  <2>3. PICK x \in s : TRUE
    BY <2>2
  <2> DEFINE r == s \ {x}
             n == Cardinality(r)
  <2>4. s \in SUBSET S /\ r \in SUBSET S /\ x \in S /\ x \notin r /\ r \cup {x} = s
    OBVIOUS
  <2>5. r \notin B
    BY <2>1, <2>3, Zenon
  <2> HIDE DEF r
  <2>6. IsFiniteSet(s) /\ IsFiniteSet(r) /\ A(r) \in Int /\ C(r) \in Int /\ A(s) \in Int /\ C(s) \in Int
    BY <1>0, <2>4, FinitePart, Zenon
  <2>7. A(s) = a[x] + A(r) /\ C(s) = c[x] + C(r)
    <3>1. (\A y \in s : a[y] \in Int) /\ (\A y \in s : c[y] \in Int)
      BY <2>4
    <3>2. A(s) = a[x] + A(s \ {x})
      BY ONLY <2>3, <2>6, <3>1, SumRemove DEF A
    <3>3. C(s) = c[x] + C(s \ {x})
      BY ONLY <2>3, <2>6, <3>1, SumRemove DEF C
    <3> QED
      BY <3>2, <3>3, Zenon DEF r
  <2>8. n \in Nat /\ Cardinality(s) = n + 1
    BY <2>4, <2>6, FS_CardinalityType, FS_AddElement, Zenon
  <2>9. Ok(r)
    BY <2>4, <2>5, Zenon
  <2> HIDE DEF A, C, n
  <2>10. /\ a[x] \in Int /\ c[x] \in Int
         /\ c[x] * U <= a[x] * 100 /\ a[x] * 100 < c[x] * U + U
    BY <2>4, Zenon
  <2>11. U - 1 \in Int /\ 1 * (U - 1) = U - 1 /\ U \in Int /\ 1 \in Int /\ n \in Int
    BY <2>8
  <2>12. (c[x] + C(r)) * U = c[x] * U + C(r) * U /\ c[x] * U \in Int /\ C(r) * U \in Int
    BY ONLY <2>6, <2>10, <2>11, Distributes
  <2>13. (n + 1) * (U - 1) = n * (U - 1) + (U - 1) /\ n * (U - 1) \in Int
    BY ONLY <2>11, Distributes
  <2>14. C(r) * U <= A(r) * 100 /\ A(r) * 100 <= C(r) * U + n * (U - 1)
    BY <2>9, Zenon DEF n
  <2> DEFINE cU == c[x] * U
             CU == C(r) * U
             nU == n * (U - 1)
  <2>15. cU \in Int /\ CU \in Int /\ nU \in Int
    BY <2>12, <2>13, Zenon
  <2>16. (c[x] + C(r)) * U = cU + CU /\ (n + 1) * (U - 1) = nU + (U - 1)
    BY <2>12, <2>13, Zenon
  <2>17. cU <= a[x] * 100 /\ a[x] * 100 < cU + U /\ CU <= A(r) * 100 /\ A(r) * 100 <= CU + nU
    BY <2>10, <2>14, Zenon
  <2> HIDE DEF cU, CU, nU
  <2>18. cU + CU <= (a[x] + A(r)) * 100 /\ (a[x] + A(r)) * 100 <= cU + CU + (nU + (U - 1))
    BY ONLY <2>6, <2>10, <2>11, <2>15, <2>17
  <2>19. Ok(s)
    BY <2>7, <2>8, <2>16, <2>18, Zenon
  <2> QED
    BY <2>1, <2>19, Zenon
<1>3. Ok(S)
  BY <1>0, <1>2, Zenon
<1> QED
  BY <1>1, <1>3, Zenon

(* Amounts survive their way into text and back. *)
LEMMA ParsedWorth ==
  ASSUME NEW raw \in Nat
  PROVE  LET c == parseAmountToCents64(Worth(raw))
         IN  /\ c \in Nat /\ c * rawUnitsPerWholeUSDI <= raw * 100
             /\ raw * 100 < c * rawUnitsPerWholeUSDI + rawUnitsPerWholeUSDI
<1> DEFINE c == rawUnitsToCents(raw)
<1>1. rawUnitsPerWholeUSDI \in Nat /\ rawUnitsPerWholeUSDI # 0 /\ raw * 100 \in Nat
  BY ConstAssumption
<1>2. /\ c \in Nat /\ c * rawUnitsPerWholeUSDI <= raw * 100
      /\ raw * 100 < c * rawUnitsPerWholeUSDI + rawUnitsPerWholeUSDI
  BY <1>1, Quotient, Zenon DEF rawUnitsToCents
<1> HIDE DEF c
<1>3. (c \div 100) * 100 + (c % 100) = c
  BY <1>2
<1>4. parseAmountToCents64(Worth(raw)) = c
  BY <1>3 DEF parseAmountToCents64, Worth, centsToAmountString, c
<1> QED
  BY <1>2, <1>4, Zenon

(* While nothing is dropped, a cell is in one credited transaction. *)
LEMMA CreditedOnce ==
  ASSUME SweepInv, drops = 0, NEW f \in funding, NEW g \in funding, NEW p \in f.tx, p \in g.tx
  PROVE  f = g
<1>1. LedgerInv /\ RecordInv
  BY Zenon DEF SweepInv
<1>2. PICK t \in pool \cup committed : t.inputs = f.tx
  BY <1>1, Zenon DEF RecordInv, Recorded, BackedIn
<1>3. PICK u \in pool \cup committed : u.inputs = g.tx
  BY <1>1, Zenon DEF RecordInv, Recorded, BackedIn
<1>4. t.inputs \cap u.inputs # {} /\ p \in t.inputs /\ p \in u.inputs
  BY <1>2, <1>3
<1>5. t = u
  BY <1>1, <1>4, Zenon DEF LedgerInv
<1> QED
  BY <1>1, <1>2, <1>3, <1>5, Zenon DEF RecordInv

(* So what the credited cells hold is the sum of what each credited        *)
(* transaction took.                                                       *)
LEMMA UnitsOfCredits ==
  ASSUME SweepInv, drops = 0, NEW C \in SUBSET funding
  PROVE  /\ IsFiniteSet(C)
         /\ Units(UNION {f.tx : f \in C}) = SumFunctionOnSet([f \in C |-> RawIn(chain, f.tx)], C)
         /\ \A f \in C : RawIn(chain, f.tx) \in Nat
<1> DEFINE S == UNION {f.tx : f \in C}
           raw == [p \in S |-> chain[p].raw]
           key == [p \in S |-> CHOOSE f \in C : p \in f.tx]
           part == [f \in C |-> RawIn(chain, f.tx)]
<1>1. RecordInv /\ chain \in Seq(Cell) /\ IsFiniteSet(funding)
  BY Zenon DEF SweepInv, LedgerInv, RecordInv
<1>2. IsFiniteSet(C)
  BY <1>1, FS_Subset, Zenon
<1>3. \A f \in C : f.tx \in SUBSET DOMAIN chain /\ f.tx \in SUBSET S
  BY <1>1, Zenon DEF RecordInv, Recorded, Made
<1>4. S \in SUBSET DOMAIN chain
  BY <1>3
<1>5. \A f \in C : RawIn(chain, f.tx) \in Nat
  BY <1>1, <1>3, RawInNat, Zenon
<1>6. IsFiniteSet(S) /\ \A p \in S : raw[p] \in Int /\ raw[p] = chain[p].raw
  <2>1. IsFiniteSet(S)
    BY <1>1, <1>4, RawInNat, Zenon
  <2>2. \A p \in DOMAIN chain : chain[p].raw \in Int
    BY <1>1, CellParts
  <2> QED
    BY <1>4, <2>1, <2>2, Zenon
<1>7. \A p \in S : key[p] \in C /\ p \in key[p].tx
  <2> TAKE p \in S
  <2>1. \E f \in C : p \in f.tx
    OBVIOUS
  <2>2. key[p] = CHOOSE f \in C : p \in f.tx
    OBVIOUS
  <2> QED
    BY <2>1, <2>2, Zenon
<1>8. key \in [S -> C]
  BY <1>7
<1> HIDE DEF key
<1>9. ASSUME NEW k \in C PROVE {p \in S : key[p] = k} = k.tx
  <2>1. ASSUME NEW p \in k.tx PROVE p \in S /\ key[p] = k
    <3>1. p \in S
      BY <1>3, Zenon
    <3>2. key[p] \in funding /\ p \in key[p].tx /\ k \in funding
      BY <1>7, <3>1, Zenon
    <3> QED
      BY <3>1, <3>2, CreditedOnce, Zenon
  <2>2. ASSUME NEW p \in S, key[p] = k PROVE p \in k.tx
    BY <1>7, <2>2, Zenon
  <2> QED
    BY <2>1, <2>2, Zenon
<1>10. ASSUME NEW k \in C PROVE part[k] = SumFunctionOnSet(raw, {p \in S : key[p] = k})
  <2> DEFINE own == [p \in k.tx |-> chain[p].raw]
  <2>1. part[k] = RawIn(chain, k.tx) /\ RawIn(chain, k.tx) = SumFunctionOnSet(own, k.tx)
    BY DEF RawIn
  <2>2. k.tx \in SUBSET S /\ IsFiniteSet(k.tx)
    BY <1>1, <1>3, RawInNat, Zenon
  <2>3. \A p \in k.tx : own[p] = raw[p] /\ own[p] \in Int /\ raw[p] \in Int
    BY <1>6, <2>2, Zenon
  <2> HIDE DEF own, raw
  <2>4. SumFunctionOnSet(own, k.tx) = SumFunctionOnSet(raw, k.tx)
    BY <2>2, <2>3, SumEqual, Zenon
  <2> QED
    BY <1>9, <2>1, <2>4, Zenon
<1>11. Units(S) = SumFunctionOnSet(raw, S)
  BY Zenon DEF Units
<1> HIDE DEF S, raw, part
<1>12. SumFunctionOnSet(part, C) = SumFunctionOnSet(raw, S)
  <2>1. \A p \in S : raw[p] \in Int
    BY <1>6, Zenon
  <2>2. \A k \in C : part[k] = Share(raw, S, key, k)
    BY <1>10, Zenon DEF Share
  <2>3. IsFiniteSet(S)
    BY <1>6, Zenon
  <2> QED
    BY ONLY <1>2, <1>8, <2>1, <2>2, <2>3, SumByKey
<1> QED
  BY <1>2, <1>5, <1>11, <1>12, Zenon DEF S, part

(* The invariant implies that credits match the sweeps. *)
LEMMA CreditsAreSwept == SweepInv => CreditIsSwept
<1> SUFFICES ASSUME SweepInv, drops = 0, NEW b \in Buyers
             PROVE  LET credits == {f \in funding : f.buyer = b}
                        cells   == UNION {f.tx : f \in credits}
                        swept   == Units(cells) * 100
                        worth   == creditedCents(b) * rawUnitsPerWholeUSDI
                    IN  /\ \A p \in cells : ~chain[p].live \/ \E tx \in pool : p \in tx.inputs
                        /\ worth <= swept
                        /\ swept - worth < rawUnitsPerWholeUSDI * Cardinality(credits) \/ credits = {}
  BY Zenon DEF CreditIsSwept
<1> DEFINE C == {f \in funding : f.buyer = b}
           cells == UNION {f.tx : f \in C}
           a == [f \in C |-> RawIn(chain, f.tx)]
           c == [f \in C |-> parseAmountToCents64(f.amount)]
           U == rawUnitsPerWholeUSDI
           n == Cardinality(C)
<1>1. U \in Nat /\ U # 0
  BY ConstAssumption
<1>2. LedgerInv /\ RecordInv
  BY Zenon DEF SweepInv
<1>3. C \in SUBSET funding
  OBVIOUS
<1>4. creditedCents(b) = SumFunctionOnSet(c, C)
  BY Zenon DEF creditedCents
<1>5. \A p \in cells : ~chain[p].live \/ \E tx \in pool : p \in tx.inputs
  <2> SUFFICES ASSUME NEW f \in C, NEW p \in f.tx PROVE ~chain[p].live \/ \E tx \in pool : p \in tx.inputs
    BY Zenon
  <2>1. PICK t \in pool \cup committed : t.inputs = f.tx
    BY <1>2, <1>3, Zenon DEF RecordInv, Recorded, BackedIn
  <2> QED
    BY <1>2, <2>1, Zenon DEF LedgerInv
<1>6. \A f \in C : f.amount = Worth(RawIn(chain, f.tx))
  BY <1>2, <1>3, Zenon DEF RecordInv, Recorded
<1>7. \A f \in C : a[f] = RawIn(chain, f.tx) /\ c[f] = parseAmountToCents64(f.amount)
  BY Zenon
<1>8. SumFunctionOnSet(a, C) = SumFunctionOnSet([f \in C |-> RawIn(chain, f.tx)], C)
  BY Zenon
<1> HIDE DEF C, a, c
<1>9. IsFiniteSet(C) /\ Units(cells) = SumFunctionOnSet(a, C) /\ \A f \in C : RawIn(chain, f.tx) \in Nat
  BY <1>3, <1>8, UnitsOfCredits, Zenon
<1>10. ASSUME NEW f \in C
       PROVE  a[f] \in Int /\ c[f] \in Int /\ c[f] * U <= a[f] * 100 /\ a[f] * 100 < c[f] * U + U
  <2>1. /\ c[f] \in Nat /\ c[f] * U <= a[f] * 100 /\ a[f] * 100 < c[f] * U + U
        /\ a[f] \in Nat
    BY <1>6, <1>7, <1>9, ParsedWorth, Zenon
  <2> QED
    BY <2>1
<1> HIDE DEF U
<1>11. /\ SumFunctionOnSet(c, C) * U <= SumFunctionOnSet(a, C) * 100
       /\ SumFunctionOnSet(a, C) * 100 <= SumFunctionOnSet(c, C) * U + n * (U - 1)
       /\ SumFunctionOnSet(c, C) \in Int /\ SumFunctionOnSet(a, C) \in Int
  BY ONLY <1>1, <1>9, <1>10, RoundedSum, Zenon
<1>12. n \in Nat /\ (C = {} \/ n # 0)
  BY <1>9, FS_CardinalityType, FS_EmptySet
<1> HIDE DEF n, cells
<1>13. n * (U - 1) = U * n - n /\ n * (U - 1) \in Int /\ U * n \in Int
  BY <1>1, <1>12
<1>14. SumFunctionOnSet(c, C) * U \in Int
  BY <1>1, <1>11
<1> DEFINE worth == SumFunctionOnSet(c, C) * U
           swept == SumFunctionOnSet(a, C) * 100
           m == U * n
<1>15. /\ worth \in Int /\ swept \in Int /\ m \in Int /\ worth <= swept /\ swept <= worth + (m - n)
  BY <1>11, <1>13, <1>14
<1> HIDE DEF worth, swept, m
<1>16. worth <= swept /\ (swept - worth < m \/ C = {})
  BY <1>12, <1>15
<1> QED
  BY <1>4, <1>5, <1>9, <1>16, Zenon DEF C, cells, U, n, worth, swept, m

(* For any buyers, syncers, payments and unit: while nothing is dropped,   *)
(* credits are of cells that are spent or about to be, worth at most the   *)
(* units swept, and less than a cent per transaction short of them         *)
(* (saveBuyerTopUpFunding).                                                *)
THEOREM CreditsMatchSweeps == Spec => []CreditIsSwept
BY SweepHolds, CreditsAreSwept, PTL
=============================================================================
