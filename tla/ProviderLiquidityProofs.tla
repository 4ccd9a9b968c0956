----------------------- MODULE ProviderLiquidityProofs -----------------------
(***************************************************************************)
(* A provider's pool for any number of overlapping calls, any budgets,     *)
(* buffer and channel size: its operations implement ReservationLife, its  *)
(* books balance, and its reservations are backed by funded channels.      *)
(* Below them, the channels the pool is funded with: what the provisioner  *)
(* reports as new is new, for any number of calls and channels.            *)
(***************************************************************************)
EXTENDS ProviderLiquidity, ChannelProvisioning, WorkflowProofs

(* Amounts are not negative, and a call that has not returned holds no     *)
(* reservation.                                                            *)
PoolInv ==
  /\ TypeOK
  /\ pool.reserved >= 0
  /\ \A c \in Calls : /\ call[c].need >= 0 /\ reservation[c].cents >= 0
                      /\ call[c].pc # "returned" => reservation[c].status = "none"
  /\ CoveredUnlessStale /\ AvailableIsRest

-----------------------------------------------------------------------------
LEMMA ReserveNat ==
  ASSUME NEW budget \in Nat
  PROVE  neededReserve(budget) \in Nat
<1>1. BufferBPS \in Nat
  BY ConstAssumption
<1>2. budget * BufferBPS \in Nat
  BY <1>1
<1>3. \A n \in Nat : n \div 10000 \in Nat
  OBVIOUS
<1> QED
  BY <1>2, <1>3 DEF neededReserve

LEMMA FundingNat ==
  ASSUME NEW need \in Nat
  PROVE  fundingCents(need) \in Nat
<1> DEFINE units == (need + CentsPerUnit - 1) \div CentsPerUnit
<1>1. CentsPerUnit \in Nat /\ CentsPerUnit > 0 /\ MinFundingUnits \in Nat
  BY ConstAssumption
<1>2. units \in Int
  BY <1>1
<1> HIDE DEF units
<1>3. Max({MinFundingUnits, units}) \in Nat
  BY <1>1, <1>2, MaxOfTwo
<1>4. \A n \in Nat : n * CentsPerUnit \in Nat
  BY <1>1
<1> QED
  BY <1>3, <1>4 DEF fundingCents, neededReserveToFundingUnits, units

(* The answer never falls below the total of the snapshot. *)
LEMMA TotalGrows ==
  ASSUME PoolInv, NEW c \in Calls, NEW ready \in BOOLEAN
  PROVE  totalSpendable(c, ready) \in Int /\ totalSpendable(c, ready) >= call[c].seen.total
<1> DEFINE seen == call[c].seen
<1>1. call[c] \in Call /\ call[c].need \in Nat /\ seen \in Pool
  BY DEF PoolInv, TypeOK, Call
<1>2. seen.total \in Int /\ seen.reserved + seen.available \in Int
  BY <1>1 DEF Pool
<1>3. fundingCents(call[c].need) \in Nat
  BY <1>1, FundingNat
<1>4. CASE Reuses(c, ready)
  BY <1>2, <1>4, MaxOfTwo DEF totalSpendable
<1>5. CASE ~Reuses(c, ready)
  BY <1>2, <1>3, <1>5 DEF totalSpendable
<1> QED
  BY <1>4, <1>5

-----------------------------------------------------------------------------
LEMMA PoolInit == Init => PoolInv
<1> SUFFICES ASSUME Init PROVE PoolInv
  OBVIOUS
<1>1. pool = NoPool /\ NoPool \in Pool
  BY DEF Init, NoPool, Pool, PoolStatuses
<1>2. call \in [Calls -> Call]
  BY <1>1 DEF Init, Call
<1>3. reservation \in [Calls -> Reservation]
  BY DEF Init, Reservation
<1>4. TypeOK
  <2>1. <<>> \in Seq(BindingStatuses)
    OBVIOUS
  <2> QED
    BY <1>1, <1>2, <1>3, <2>1, Zenon DEF Init, TypeOK
<1> QED
  BY <1>1, <1>4 DEF Init, NoPool, PoolInv, CoveredUnlessStale, AvailableIsRest

(* Setting one entry of a list keeps its element type. *)
LEMMA SetEntry ==
  ASSUME NEW S, NEW list \in Seq(S), NEW i \in 1 .. Len(list), NEW e \in S
  PROVE  [list EXCEPT ![i] = e] \in Seq(S)
OBVIOUS

(* The bindings: pool totals are untouched, or the pool starts empty. *)
LEMMA BindingInv ==
  ASSUME PoolInv, Binding
  PROVE  PoolInv'
<1>1. UNCHANGED <<call, reservation, funded, stale, recovered>>
  BY DEF Binding, RegisterCarrierBinding, VerifyCarrierBinding, SuspendCarrierBinding,
         RegisterProviderSettlementBinding, VerifyProviderSettlementBinding,
         SuspendProviderSettlementBinding, ReportProviderSettlementDisconnect, historyVars
<1>2. carriers' \in Seq(BindingStatuses) /\ bindings' \in Seq(BindingStatuses)
  <2>1. carriers \in Seq(BindingStatuses) /\ bindings \in Seq(BindingStatuses)
    BY DEF PoolInv, TypeOK
  <2>2. {"pending_verification", "active", "suspended"} = BindingStatuses
    BY DEF BindingStatuses
  <2>3. \/ carriers' = carriers
        \/ carriers' = Append(carriers, "pending_verification")
        \/ \E i \in 1 .. Len(carriers) :
             \E st \in {"active", "suspended"} : carriers' = [carriers EXCEPT ![i] = st]
    BY DEF Binding, RegisterCarrierBinding, VerifyCarrierBinding, SuspendCarrierBinding,
           RegisterProviderSettlementBinding, VerifyProviderSettlementBinding,
           SuspendProviderSettlementBinding, ReportProviderSettlementDisconnect
  <2>4. \/ bindings' = bindings
        \/ bindings' = Append(bindings, "pending_verification")
        \/ \E i \in 1 .. Len(bindings) :
             \E st \in {"active", "suspended"} : bindings' = [bindings EXCEPT ![i] = st]
    BY DEF Binding, RegisterCarrierBinding, VerifyCarrierBinding, SuspendCarrierBinding,
           RegisterProviderSettlementBinding, VerifyProviderSettlementBinding,
           SuspendProviderSettlementBinding, ReportProviderSettlementDisconnect
  <2>5. \A list \in Seq(BindingStatuses) :
          /\ Append(list, "pending_verification") \in Seq(BindingStatuses)
          /\ \A i \in 1 .. Len(list) : \A st \in {"active", "suspended"} :
               [list EXCEPT ![i] = st] \in Seq(BindingStatuses)
    <3>1. {"active", "suspended"} \subseteq BindingStatuses
      BY <2>2
    <3>2. \A list \in Seq(BindingStatuses) :
            Append(list, "pending_verification") \in Seq(BindingStatuses)
      BY <2>2
    <3> QED
      BY <3>1, <3>2, SetEntry
  <2>6. carriers' \in Seq(BindingStatuses)
    <3>1. CASE carriers' = carriers \/ carriers' = Append(carriers, "pending_verification")
      BY <2>1, <2>5, <3>1
    <3>2. CASE \E i \in 1 .. Len(carriers) :
                 \E st \in {"active", "suspended"} : carriers' = [carriers EXCEPT ![i] = st]
      BY Zenon, <2>1, <2>5, <3>2
    <3> QED
      BY <2>3, <3>1, <3>2
  <2>7. bindings' \in Seq(BindingStatuses)
    <3>1. CASE bindings' = bindings \/ bindings' = Append(bindings, "pending_verification")
      BY <2>1, <2>5, <3>1
    <3>2. CASE \E i \in 1 .. Len(bindings) :
                 \E st \in {"active", "suspended"} : bindings' = [bindings EXCEPT ![i] = st]
      BY Zenon, <2>1, <2>5, <3>2
    <3> QED
      BY <2>4, <3>1, <3>2
  <2> QED
    BY <2>6, <2>7
<1>3. \/ \E st \in PoolStatuses : pool' = [pool EXCEPT !.status = st]
      \/ pool' = pool
      \/ pool' = [NoPool EXCEPT !.status = "healthy"]
  BY DEF Binding, RegisterCarrierBinding, VerifyCarrierBinding, SuspendCarrierBinding,
         RegisterProviderSettlementBinding, VerifyProviderSettlementBinding,
         SuspendProviderSettlementBinding, ReportProviderSettlementDisconnect, PoolStatuses
<1>4. /\ pool' \in Pool /\ pool'.reserved >= 0
      /\ \/ pool'.total = pool.total /\ pool'.reserved = pool.reserved
                                     /\ pool'.available = pool.available
         \/ pool'.total = 0 /\ pool'.reserved = 0 /\ pool'.available = 0
  BY <1>3 DEF PoolInv, TypeOK, Pool, PoolStatuses, NoPool
<1>5. reverified' \in BOOLEAN
  BY Zenon DEF PoolInv, TypeOK, Binding, RegisterCarrierBinding, VerifyCarrierBinding,
         SuspendCarrierBinding, RegisterProviderSettlementBinding,
         VerifyProviderSettlementBinding, SuspendProviderSettlementBinding,
         ReportProviderSettlementDisconnect, historyVars
<1>6. TypeOK'
  BY <1>1, <1>2, <1>4, <1>5 DEF PoolInv, TypeOK
<1> QED
  BY <1>1, <1>4, <1>6 DEF PoolInv, CoveredUnlessStale, AvailableIsRest

LEMMA BeginInv ==
  ASSUME PoolInv, NEW c \in Calls, Begin(c)
  PROVE  PoolInv'
<1>1. ASSUME NEW need \in Nat, NEW kind \in {"reserve", "warm", "recover"}, NEW seen \in Pool,
             Ask(c, kind, need, seen), pool' \in {pool, [pool EXCEPT !.status = "recovering"]}
      PROVE  PoolInv'
  <2> DEFINE new == [pc |-> "provisioning", kind |-> kind, need |-> need, seen |-> seen]
  <2>1. /\ call' = [call EXCEPT ![c] = new] /\ call[c].pc = "new"
        /\ UNCHANGED <<carriers, bindings, reservation, funded, stale, reverified, recovered>>
    BY <1>1 DEF Ask, historyVars
  <2>2. call' \in [Calls -> Call] /\ call'[c] = new /\ \A d \in Calls \ {c} : call'[d] = call[d]
    BY <1>1, <2>1 DEF PoolInv, TypeOK, Call
  <2>3. /\ pool' \in Pool /\ pool'.total = pool.total /\ pool'.reserved = pool.reserved
        /\ pool'.available = pool.available
    BY <1>1 DEF PoolInv, TypeOK, Pool, PoolStatuses
  <2>4. TypeOK'
    BY <2>1, <2>2, <2>3 DEF PoolInv, TypeOK
  <2>5. \A d \in Calls : /\ call'[d].need >= 0 /\ reservation'[d].cents >= 0
                         /\ call'[d].pc # "returned" => reservation'[d].status = "none"
    BY <1>1, <2>1, <2>2 DEF PoolInv
  <2> QED
    BY <2>1, <2>3, <2>4, <2>5 DEF PoolInv, CoveredUnlessStale, AvailableIsRest
<1>2. pool \in Pool /\ pool.available \in Int /\ pool.reserved \in Nat
  BY DEF PoolInv, TypeOK, Pool
<1>3. ASSUME NEW b \in Budgets, BeginReserve(c, b)
      PROVE  PoolInv'
  <2>1. neededReserve(b) \in Nat
    BY ConstAssumption, ReserveNat
  <2> QED
    BY <1>1, <1>2, <1>3, <2>1 DEF BeginReserve
<1>4. ASSUME NEW m \in Minimums, BeginWarm(c, m)
      PROVE  PoolInv'
  <2>1. m \in Nat
    BY ConstAssumption
  <2>2. Max({m, pool.available}) \in Nat
    BY <1>2, <2>1, MaxOfTwo
  <2> QED
    BY <1>1, <1>2, <1>4, <2>2 DEF BeginWarm
<1>5. CASE BeginRecover(c)
  <2>1. [pool' EXCEPT !.available = pool.total] \in Pool
    BY <1>2, <1>5, Zenon DEF BeginRecover, Pool, PoolStatuses
  <2> QED
    BY <1>1, <1>2, <1>5, <2>1 DEF BeginRecover
<1> QED
  BY <1>3, <1>4, <1>5 DEF Begin

(* What the second halves have in common. *)
LEMMA CallReturns ==
  ASSUME PoolInv, NEW c \in Calls, call' = [call EXCEPT ![c].pc = "returned"],
         UNCHANGED <<carriers, bindings, reverified>>,
         pool' \in Pool, pool'.reserved >= 0, funded' \in Nat,
         stale' \in BOOLEAN, recovered' \in BOOLEAN,
         \/ reservation' = reservation
         \/ \E n \in Nat :
              reservation' = [reservation EXCEPT ![c] = [status |-> "reserved", cents |-> n]],
         CoveredUnlessStale', AvailableIsRest'
  PROVE  PoolInv'
<1>1. /\ call' \in [Calls -> Call]
      /\ \A d \in Calls : call'[d].need = call[d].need
      /\ call'[c].pc = "returned" /\ \A d \in Calls \ {c} : call'[d] = call[d]
  <2> DEFINE after == [call[c] EXCEPT !.pc = "returned"]
  <2>1. call \in [Calls -> Call] /\ call[c] \in Call
    BY DEF PoolInv, TypeOK
  <2>2. after \in Call /\ after.need = call[c].need /\ after.pc = "returned"
    BY <2>1 DEF Call
  <2>3. call' = [call EXCEPT ![c] = after]
    OBVIOUS
  <2> HIDE DEF after
  <2> QED
    BY <2>1, <2>2, <2>3
<1>2. /\ reservation' \in [Calls -> Reservation] /\ reservation'[c].cents >= 0
      /\ \A d \in Calls \ {c} : reservation'[d] = reservation[d]
  <2>1. reservation \in [Calls -> Reservation] /\ reservation[c].cents >= 0
    BY DEF PoolInv, TypeOK
  <2>2. CASE reservation' = reservation
    BY <2>1, <2>2, Zenon
  <2>3. ASSUME NEW n \in Nat,
               reservation' = [reservation EXCEPT ![c] = [status |-> "reserved", cents |-> n]]
        PROVE  /\ reservation' \in [Calls -> Reservation] /\ reservation'[c].cents >= 0
               /\ \A d \in Calls \ {c} : reservation'[d] = reservation[d]
    <3> DEFINE x == [status |-> "reserved", cents |-> n]
    <3>1. x \in Reservation /\ x.cents >= 0
      BY DEF Reservation
    <3> HIDE DEF x
    <3>2. reservation' = [reservation EXCEPT ![c] = x]
      BY <2>3 DEF x
    <3> QED
      BY <2>1, <3>1, <3>2, Zenon
  <2> QED
    BY <2>2, <2>3, Zenon
<1>3. TypeOK'
  BY <1>1, <1>2 DEF PoolInv, TypeOK
<1> QED
  BY <1>1, <1>2, <1>3 DEF PoolInv

LEMMA FundedNat ==
  ASSUME PoolInv, NEW c \in Calls, funded' \in {funded, funded + fundingCents(call[c].need)}
  PROVE  funded' \in Nat
<1>1. call[c].need \in Nat /\ funded \in Nat
  BY DEF PoolInv, TypeOK, Call
<1> QED
  BY <1>1, FundingNat

LEMMA FinishReserveInv ==
  ASSUME PoolInv, NEW c \in Calls, NEW ready \in BOOLEAN, FinishReserve(c, ready)
  PROVE  PoolInv'
<1> DEFINE total == totalSpendable(c, ready)
           need == call[c].need
<1>1. /\ call' = [call EXCEPT ![c].pc = "returned"]
      /\ funded' \in {funded, funded + fundingCents(call[c].need)}
      /\ UNCHANGED <<carriers, bindings, reverified, recovered>>
  BY DEF FinishReserve, ProvisionerAnswers
<1>2. total \in Int /\ need \in Nat /\ pool.reserved \in Nat /\ call[c].seen \in Pool
  BY TotalGrows DEF PoolInv, TypeOK, Call, Pool
<1>3. funded' \in Nat /\ recovered' \in BOOLEAN
  BY <1>1, FundedNat DEF PoolInv, TypeOK
<1> HIDE DEF total, need
<1>4. CASE total >= call[c].seen.reserved + need
  <2>1. /\ pool' = [status |-> "healthy", total |-> total, reserved |-> pool.reserved + need,
                    available |-> total - (pool.reserved + need)]
        /\ reservation' = [reservation EXCEPT ![c] = [status |-> "reserved", cents |-> need]]
        /\ stale' = (stale \/ Moved(c))
    BY <1>4 DEF FinishReserve, total, need
  <2>2. pool' \in Pool /\ pool'.reserved >= 0 /\ AvailableIsRest'
    BY <1>2, <2>1 DEF Pool, PoolStatuses, AvailableIsRest
  <2>3. CoveredUnlessStale'
    <3> SUFFICES ASSUME ~stale' PROVE pool'.reserved <= pool'.total /\ pool'.available >= 0
      BY DEF CoveredUnlessStale
    <3>1. ~Moved(c)
      BY <2>1, Zenon
    <3>2. pool.reserved = call[c].seen.reserved
      BY <3>1 DEF Moved
    <3> QED
      BY <1>2, <1>4, <2>1, <3>2
  <2>4. stale' \in BOOLEAN
    BY <2>1 DEF PoolInv, TypeOK
  <2> QED
    BY <1>1, <1>2, <1>3, <2>1, <2>2, <2>3, <2>4, CallReturns, Zenon
<1>5. CASE ~(total >= call[c].seen.reserved + need)
  <2>1. UNCHANGED <<pool, reservation, stale>>
    BY <1>5 DEF FinishReserve, total, need
  <2>2. /\ pool' \in Pool /\ pool'.reserved >= 0 /\ stale' \in BOOLEAN
        /\ CoveredUnlessStale' /\ AvailableIsRest'
    BY <2>1 DEF PoolInv, TypeOK, CoveredUnlessStale, AvailableIsRest
  <2> QED
    BY <1>1, <1>3, <2>1, <2>2, CallReturns, Zenon
<1> QED
  BY <1>4, <1>5

(* Warming and recovering: the total of an unmoved pool does not shrink. *)
LEMMA RefreshedInv ==
  ASSUME PoolInv, NEW c \in Calls, NEW ready \in BOOLEAN,
         pool' = Refreshed(totalSpendable(c, ready)), stale' = (stale \/ Moved(c))
  PROVE  /\ pool' \in Pool /\ pool'.reserved >= 0 /\ stale' \in BOOLEAN
         /\ CoveredUnlessStale' /\ AvailableIsRest'
<1> DEFINE total == totalSpendable(c, ready)
<1>1. /\ total \in Int /\ total >= call[c].seen.total /\ call[c].seen.total \in Int
      /\ pool.reserved \in Nat /\ pool.total \in Int
  BY TotalGrows DEF PoolInv, TypeOK, Call, Pool
<1> HIDE DEF total
<1>2. Max({total - pool.reserved, 0}) = IF total >= pool.reserved THEN total - pool.reserved ELSE 0
  <2>1. total - pool.reserved \in Int /\ 0 \in Int
    BY <1>1
  <2>2. Max({total - pool.reserved, 0})
          = IF total - pool.reserved >= 0 THEN total - pool.reserved ELSE 0
    BY <2>1, MaxOfTwo
  <2> QED
    BY <1>1, <2>2
<1>3. /\ pool' \in Pool /\ pool'.reserved = pool.reserved /\ pool'.total = total
      /\ pool'.available = Max({total - pool.reserved, 0})
  BY <1>1, <1>2 DEF Refreshed, Pool, PoolStatuses, total
<1>4. AvailableIsRest'
  BY <1>1, <1>2, <1>3 DEF AvailableIsRest
<1>5. CoveredUnlessStale'
  <2> SUFFICES ASSUME ~stale' PROVE pool'.reserved <= pool'.total /\ pool'.available >= 0
    BY DEF CoveredUnlessStale
  <2>1. ~stale /\ ~Moved(c)
    BY Zenon
  <2>2. pool.total = call[c].seen.total /\ pool.reserved <= pool.total
    BY <2>1 DEF Moved, PoolInv, CoveredUnlessStale
  <2> QED
    BY <1>1, <1>2, <1>3, <2>2
<1>6. stale' \in BOOLEAN
  BY DEF PoolInv, TypeOK
<1> QED
  BY <1>1, <1>3, <1>4, <1>5, <1>6

LEMMA PoolUnmoved ==
  ASSUME PoolInv, UNCHANGED stale, pool' \in {pool, [pool EXCEPT !.status = "disconnected"]}
  PROVE  /\ pool' \in Pool /\ pool'.reserved >= 0 /\ stale' \in BOOLEAN
         /\ CoveredUnlessStale' /\ AvailableIsRest'
<1>1. /\ pool' \in Pool /\ pool'.total = pool.total /\ pool'.reserved = pool.reserved
      /\ pool'.available = pool.available
  BY DEF PoolInv, TypeOK, Pool, PoolStatuses
<1> QED
  BY <1>1 DEF PoolInv, TypeOK, CoveredUnlessStale, AvailableIsRest

LEMMA FinishInv ==
  ASSUME PoolInv, NEW c \in Calls, Finish(c)
  PROVE  PoolInv'
<1>1. ASSUME NEW ready \in BOOLEAN, FinishWarm(c, ready)
      PROVE  PoolInv'
  <2>1. /\ call' = [call EXCEPT ![c].pc = "returned"]
        /\ funded' \in {funded, funded + fundingCents(call[c].need)}
        /\ UNCHANGED <<carriers, bindings, reservation, reverified, recovered>>
        /\ pool' = Refreshed(totalSpendable(c, ready)) /\ stale' = (stale \/ Moved(c))
    BY <1>1 DEF FinishWarm, ProvisionerAnswers
  <2>2. funded' \in Nat /\ recovered' \in BOOLEAN
    BY <2>1, FundedNat DEF PoolInv, TypeOK
  <2> QED
    BY <2>1, <2>2, RefreshedInv, CallReturns, Zenon
<1>2. ASSUME NEW ready \in BOOLEAN, NEW saved \in BOOLEAN, FinishRecover(c, ready, saved)
      PROVE  PoolInv'
  <2>1. /\ call' = [call EXCEPT ![c].pc = "returned"]
        /\ funded' \in {funded, funded + fundingCents(call[c].need)}
        /\ UNCHANGED <<carriers, bindings, reservation, reverified>>
    BY <1>2 DEF FinishRecover, ProvisionerAnswers
  <2>2. funded' \in Nat /\ recovered' \in BOOLEAN
    BY <1>2, <2>1, FundedNat, Zenon DEF PoolInv, TypeOK, FinishRecover
  <2>3. CASE saved
    <3>1. pool' = Refreshed(totalSpendable(c, ready)) /\ stale' = (stale \/ Moved(c))
      BY <1>2, <2>3 DEF FinishRecover
    <3> QED
      BY <2>1, <2>2, <3>1, RefreshedInv, CallReturns, Zenon
  <2>4. CASE ~saved
    <3>1. UNCHANGED <<pool, stale>>
      BY <1>2, <2>4 DEF FinishRecover
    <3> QED
      BY <2>1, <2>2, <3>1, PoolUnmoved, CallReturns, Zenon
  <2> QED
    BY <2>3, <2>4
<1>3. ASSUME NEW opened \in BOOLEAN, ProvisioningFails(c, opened)
      PROVE  PoolInv'
  <2>1. /\ call' = [call EXCEPT ![c].pc = "returned"]
        /\ funded' \in {funded, funded + fundingCents(call[c].need)}
        /\ UNCHANGED <<carriers, bindings, reservation, stale, reverified, recovered>>
        /\ pool' \in {pool, [pool EXCEPT !.status = "disconnected"]}
    BY <1>3 DEF ProvisioningFails, historyVars
  <2>2. funded' \in Nat /\ recovered' \in BOOLEAN
    BY <2>1, FundedNat DEF PoolInv, TypeOK
  <2> QED
    BY <2>1, <2>2, PoolUnmoved, CallReturns, Zenon
<1> QED
  BY <1>1, <1>2, <1>3, FinishReserveInv DEF Finish

LEMMA ReturnInv ==
  ASSUME PoolInv, NEW c \in Calls, Return(c)
  PROVE  PoolInv'
<1>0. /\ reservation[c] \in Reservation /\ pool \in Pool /\ reservation[c].cents \in Nat
      /\ pool.reserved \in Nat /\ pool.total \in Int /\ stale \in BOOLEAN
  BY DEF PoolInv, TypeOK, Reservation, Pool
<1>1. ASSUME NEW st \in {"active", "released"}, reservation[c].status \in {"reserved", "active"},
             reservation' = [reservation EXCEPT ![c].status = st],
             UNCHANGED <<carriers, bindings, call, funded, historyVars>>,
             pool' \in Pool, pool'.reserved >= 0, CoveredUnlessStale', AvailableIsRest'
      PROVE  PoolInv'
  <2>1. /\ reservation' \in [Calls -> Reservation]
        /\ \A d \in Calls : reservation'[d].cents = reservation[d].cents
        /\ \A d \in Calls \ {c} : reservation'[d] = reservation[d]
    BY <1>1 DEF PoolInv, TypeOK, Reservation
  <2>2. TypeOK'
    BY <1>1, <2>1 DEF PoolInv, TypeOK, historyVars
  <2>3. call[c].pc = "returned"
    BY <1>1 DEF PoolInv
  <2> QED
    BY <1>1, <2>1, <2>2, <2>3 DEF PoolInv
<1>2. CASE attachProviderSettlementReservation(c)
  <2>1. pool' = pool /\ stale' = stale
    BY <1>2 DEF attachProviderSettlementReservation, historyVars
  <2>2. pool' \in Pool /\ pool'.reserved >= 0 /\ CoveredUnlessStale' /\ AvailableIsRest'
    BY <2>1, PoolUnmoved
  <2> QED
    BY <1>1, <1>2, <2>2 DEF attachProviderSettlementReservation
<1>3. CASE releaseProviderSettlementReservation(c)
  <2> DEFINE left == Max({pool.reserved - reservation[c].cents, 0})
  <2>1. left \in Nat /\ left <= pool.reserved
    <3>1. pool.reserved - reservation[c].cents \in Int /\ 0 \in Int
      BY <1>0
    <3>2. left = IF pool.reserved - reservation[c].cents >= 0
                   THEN pool.reserved - reservation[c].cents ELSE 0
      BY <3>1, MaxOfTwo
    <3> QED
      BY <1>0, <3>2
  <2> HIDE DEF left
  <2>2. /\ pool' = [pool EXCEPT !.reserved = left, !.available = pool.total - left]
        /\ stale' = stale
    BY <1>3 DEF releaseProviderSettlementReservation, left, historyVars
  <2>3. pool' \in Pool /\ pool'.reserved >= 0 /\ AvailableIsRest'
    <3>1. pool.total - left \in Int /\ left \in Int /\ left >= 0
      BY <1>0, <2>1
    <3>2. /\ pool' \in Pool /\ pool'.reserved = left /\ pool'.total = pool.total
          /\ pool'.available = pool.total - left
      BY <1>0, <2>2, <3>1, Zenon DEF Pool
    <3> QED
      BY <3>1, <3>2 DEF AvailableIsRest
  <2>4. CoveredUnlessStale'
    BY <1>0, <2>1, <2>2 DEF PoolInv, CoveredUnlessStale, Pool
  <2> QED
    BY <1>1, <1>3, <2>3, <2>4 DEF releaseProviderSettlementReservation
<1> QED
  BY <1>2, <1>3 DEF Return

LEMMA PoolNext == PoolInv /\ [Next]_vars => PoolInv'
<1> SUFFICES ASSUME PoolInv, [Next]_vars PROVE PoolInv'
  OBVIOUS
<1>1. CASE UNCHANGED vars
  BY <1>1 DEF vars, PoolInv, TypeOK, CoveredUnlessStale, AvailableIsRest
<1> QED
  BY <1>1, BindingInv, BeginInv, FinishInv, ReturnInv DEF Next

(* However reserving, warming and recovering overlap, the pool promises no *)
(* more than its total unless an answer was written over a pool that had   *)
(* moved, and what it shows as available is the rest, or zero when it is   *)
(* overdrawn.                                                              *)
THEOREM PoolCovered == Spec => [](CoveredUnlessStale /\ AvailableIsRest)
<1>1. PoolInv => CoveredUnlessStale /\ AvailableIsRest
  BY DEF PoolInv
<1> QED
  BY <1>1, PoolInit, PoolNext, PTL DEF Spec

-----------------------------------------------------------------------------
(* Every step of the pool is a step of the reservation's life, or leaves   *)
(* all reservations as they are.                                           *)
LEMMA LifeStep == PoolInv /\ [Next]_vars => [Life!Next]_[c \in Calls |-> reservation[c].status]
<1> DEFINE status == [c \in Calls |-> reservation[c].status]
<1> SUFFICES ASSUME PoolInv, [Next]_vars PROVE Life!Next \/ status' = status
  OBVIOUS
<1>1. reservation \in [Calls -> Reservation]
  BY DEF PoolInv, TypeOK
<1>2. CASE UNCHANGED reservation
  BY <1>2
<1>3. ASSUME NEW c \in Calls, NEW x, reservation' = [reservation EXCEPT ![c] = x],
             \/ reservation[c].status = "none" /\ x.status = "reserved"
             \/ reservation[c].status = "reserved" /\ x.status = "active"
             \/ reservation[c].status \in {"reserved", "active"} /\ x.status = "released"
      PROVE  Life!Next
  <2>1. status' = [status EXCEPT ![c] = x.status] /\ status[c] = reservation[c].status
    BY <1>1, <1>3, Zenon
  <2>2. Life!Reserve(c) \/ Life!Attach(c) \/ Life!Release(c)
    BY <1>3, <2>1, Zenon DEF Life!Reserve, Life!Attach, Life!Release, Life!Become
  <2> QED
    BY <2>2 DEF Life!Next
<1>4. CASE Binding
  BY <1>2, <1>4 DEF Binding, RegisterCarrierBinding, VerifyCarrierBinding,
     SuspendCarrierBinding, RegisterProviderSettlementBinding, VerifyProviderSettlementBinding,
     SuspendProviderSettlementBinding, ReportProviderSettlementDisconnect
<1>5. ASSUME NEW c \in Calls, Begin(c)
      PROVE  Life!Next \/ status' = status
  BY <1>2, <1>5, Zenon DEF Begin, BeginReserve, BeginWarm, BeginRecover, Ask
<1>6. ASSUME NEW c \in Calls, Finish(c)
      PROVE  Life!Next \/ status' = status
  <2>1. ASSUME NEW ready \in BOOLEAN, FinishReserve(c, ready)
        PROVE  Life!Next \/ status' = status
    <3>1. call[c].pc = "provisioning"
      BY <2>1 DEF FinishReserve, ProvisionerAnswers
    <3>2. reservation[c].status = "none"
      BY <3>1 DEF PoolInv
    <3>3. \/ reservation' = reservation
          \/ reservation' = [reservation EXCEPT
                               ![c] = [status |-> "reserved", cents |-> call[c].need]]
      BY <2>1 DEF FinishReserve
    <3> QED
      BY <1>2, <1>3, <3>2, <3>3, Zenon
  <2>2. Finish(c) => UNCHANGED reservation \/ \E ready \in BOOLEAN : FinishReserve(c, ready)
    BY DEF Finish, FinishWarm, FinishRecover, ProvisioningFails
  <2> QED
    BY <1>2, <1>6, <2>1, <2>2
<1>7. ASSUME NEW c \in Calls, Return(c)
      PROVE  Life!Next
  <2>1. ASSUME NEW st,
               reservation' = [reservation EXCEPT ![c].status = st],
               \/ reservation[c].status = "reserved" /\ st = "active"
               \/ reservation[c].status \in {"reserved", "active"} /\ st = "released"
        PROVE  Life!Next
    <3>1. reservation' = [reservation EXCEPT ![c] = [reservation[c] EXCEPT !.status = st]]
      BY <1>1, <2>1
    <3>2. [reservation[c] EXCEPT !.status = st].status = st
      BY <1>1 DEF Reservation
    <3> QED
      BY <1>3, <2>1, <3>1, <3>2, Zenon
  <2> QED
    BY <1>7, <2>1 DEF Return, attachProviderSettlementReservation,
       releaseProviderSettlementReservation
<1>8. CASE UNCHANGED vars
  BY <1>2, <1>8 DEF vars
<1> QED
  BY <1>4, <1>5, <1>6, <1>7, <1>8 DEF Next

(* The pool implements ReservationLife: no overlap of calls makes a        *)
(* reservation twice, revives one or gives it back twice.                  *)
THEOREM PoolKeepsReservationLife == Spec => FollowsReservationLife
<1>1. Init => Life!Init
  BY DEF Init, Life!Init
<1> QED
  BY <1>1, PoolInit, PoolNext, LifeStep, PTL DEF Spec, FollowsReservationLife, Life!Spec

-----------------------------------------------------------------------------
(* The sum of the reservations held. *)

(* The amount of every call's reservation. *)
CentsOf == [c \in Calls |-> reservation[c].cents]

(* Amounts are naturals. *)
LEMMA CentsNat ==
  ASSUME PoolInv
  PROVE  CentsOf \in [Calls -> Nat] /\ \A c \in Calls : CentsOf[c] = reservation[c].cents
<1>1. \A c \in Calls : reservation[c].cents \in Nat
  BY DEF PoolInv, TypeOK, Reservation
<1> QED
  BY <1>1 DEF CentsOf

(* What is reserved is a natural number that no single reservation         *)
(* exceeds.                                                                *)
LEMMA OutstandingNat ==
  ASSUME PoolInv, IsFiniteSet(Held)
  PROVE  Outstanding \in Nat /\ \A c \in Held : reservation[c].cents <= Outstanding
<1>1. Held \subseteq Calls
  BY DEF Held
<1>2. \A c \in Held : CentsOf[c] \in Nat /\ CentsOf[c] = reservation[c].cents
  BY <1>1, CentsNat
<1>3. Outstanding = SumFunctionOnSet(CentsOf, Held)
  BY DEF Outstanding, CentsOf
<1>4. /\ SumFunctionOnSet(CentsOf, Held) \in Nat
      /\ \A c \in Held : CentsOf[c] <= SumFunctionOnSet(CentsOf, Held)
  BY <1>2, SumOfNats
<1> QED
  BY <1>2, <1>3, <1>4

(* Activating a reservation, or leaving all alone, keeps the sum. *)
LEMMA HeldSame ==
  ASSUME PoolInv, IsFiniteSet(Held), NEW c \in Calls,
         \/ reservation' = reservation
         \/ /\ reservation[c].status = "reserved"
            /\ reservation' = [reservation EXCEPT ![c].status = "active"]
  PROVE  Held' = Held /\ Outstanding' = Outstanding
<1>1. reservation \in [Calls -> Reservation]
  BY DEF PoolInv, TypeOK
<1>2. \A d \in Calls : /\ reservation'[d].cents = reservation[d].cents
                       /\ reservation'[d].status \in {"reserved", "active"}
                            <=> reservation[d].status \in {"reserved", "active"}
  BY <1>1 DEF Reservation
<1>3. Held' = Held
  BY <1>2 DEF Held
<1>4. CentsOf' = CentsOf
  BY <1>2 DEF CentsOf
<1> QED
  BY <1>3, <1>4 DEF Outstanding, CentsOf

(* A new reservation adds its amount. *)
LEMMA HeldGrows ==
  ASSUME PoolInv, IsFiniteSet(Held), NEW c \in Calls, NEW need \in Nat,
         reservation[c].status = "none",
         reservation' = [reservation EXCEPT ![c] = [status |-> "reserved", cents |-> need]]
  PROVE  IsFiniteSet(Held') /\ Outstanding' = Outstanding + need
<1>1. reservation \in [Calls -> Reservation]
  BY DEF PoolInv, TypeOK
<1>2. reservation'[c].cents = need /\ reservation'[c].status = "reserved"
      /\ \A d \in Calls : d # c => reservation'[d] = reservation[d]
  BY <1>1
<1>3. Held' = Held \cup {c} /\ c \notin Held
  BY <1>2 DEF Held
<1>4. IsFiniteSet(Held')
  BY <1>3, FS_AddElement
<1>5. CentsOf'[c] = need /\ \A d \in Calls : d # c => CentsOf'[d] = CentsOf[d]
  BY <1>2 DEF CentsOf
<1>6. \A d \in Held : CentsOf[d] \in Int /\ CentsOf'[d] = CentsOf[d]
  BY <1>3, <1>5, CentsNat DEF Held
<1> DEFINE new == CentsOf'
<1> HIDE DEF new
<1>7. SumFunctionOnSet(new, Held) = SumFunctionOnSet(CentsOf, Held)
  BY <1>6, SumEqual DEF new
<1>8. SumFunctionOnSet(new, Held \cup {c}) = need + SumFunctionOnSet(new, Held)
  <2>1. (\A d \in Held : new[d] \in Int) /\ new[c] = need /\ need \in Int
    BY <1>5, <1>6 DEF new
  <2> QED
    BY <1>3, <2>1, SumAdd
<1>9. Outstanding = SumFunctionOnSet(CentsOf, Held) /\ Outstanding' = SumFunctionOnSet(new, Held')
  BY DEF Outstanding, CentsOf, new
<1>10. Outstanding' = need + Outstanding
  BY <1>3, <1>7, <1>8, <1>9
<1> QED
  BY <1>4, <1>10, OutstandingNat

(* A released one takes its amount away. *)
LEMMA HeldShrinks ==
  ASSUME PoolInv, IsFiniteSet(Held), NEW c \in Calls,
         reservation[c].status \in {"reserved", "active"},
         reservation' = [reservation EXCEPT ![c].status = "released"]
  PROVE  IsFiniteSet(Held') /\ Outstanding' = Outstanding - reservation[c].cents
<1>1. reservation \in [Calls -> Reservation]
  BY DEF PoolInv, TypeOK
<1>2. /\ reservation'[c].status = "released"
      /\ \A d \in Calls : reservation'[d].cents = reservation[d].cents
      /\ \A d \in Calls : d # c => reservation'[d] = reservation[d]
  BY <1>1 DEF Reservation
<1>3. Held' = Held \ {c} /\ c \in Held
  BY <1>2 DEF Held
<1>4. IsFiniteSet(Held')
  BY <1>3, FS_RemoveElement
<1>5. CentsOf' = CentsOf
  BY <1>2 DEF CentsOf
<1>6. \A d \in Held : CentsOf[d] \in Int /\ CentsOf[d] = reservation[d].cents
  BY CentsNat DEF Held
<1>7. SumFunctionOnSet(CentsOf, Held) = CentsOf[c] + SumFunctionOnSet(CentsOf, Held \ {c})
  BY <1>3, <1>6, SumRemove
<1>8. Outstanding = SumFunctionOnSet(CentsOf, Held)
      /\ Outstanding' = SumFunctionOnSet(CentsOf, Held \ {c})
  BY <1>3, <1>5 DEF Outstanding, CentsOf
<1>9. SumFunctionOnSet(CentsOf, Held \ {c}) \in Int
  BY <1>3, <1>6, FinitePart
<1>10. CentsOf[c] = reservation[c].cents /\ CentsOf[c] \in Int
  BY <1>3, <1>6
<1> QED
  BY <1>4, <1>7, <1>8, <1>9, <1>10

(* A snapshot of a covered pool offers exactly the rest of its total. *)
SnapshotInv ==
  ~stale => \A c \in Calls :
     call[c].pc = "provisioning" /\ call[c].kind \in {"reserve", "warm"} =>
        /\ call[c].seen.reserved <= call[c].seen.total
        /\ call[c].seen.available = call[c].seen.total - call[c].seen.reserved

(* What the pool does not know to be reserved is backed by what is funded beyond its total. *)
ChannelsCover ==
  ~stale /\ ~recovered => /\ Outstanding + pool.total <= funded + pool.reserved
                          /\ pool.total <= funded

(* What makes the books inductive: the sum itself, what a call in progress *)
(* remembers of the pool, and what the channels cover.                     *)
BooksInv == /\ PoolInv /\ IsFiniteSet(Held)
            /\ ReservedIsOutstanding /\ SnapshotInv /\ ChannelsCover

(* An empty pool balances. *)
LEMMA BooksInit == Init => BooksInv
<1> SUFFICES ASSUME Init PROVE BooksInv
  OBVIOUS
<1>1. PoolInv
  BY PoolInit
<1>2. Held = {}
  BY DEF Init, Held
<1>3. IsFiniteSet(Held) /\ Outstanding = 0
  BY <1>2, FS_EmptySet, SumEmpty DEF Outstanding
<1>4. /\ pool.reserved = 0 /\ pool.total = 0 /\ funded = 0
      /\ \A c \in Calls : call[c].pc = "new"
  BY DEF Init, NoPool
<1> QED
  BY <1>1, <1>3, <1>4 DEF BooksInv, ReservedIsOutstanding, SnapshotInv, ChannelsCover

(* The types of the amounts. *)
LEMMA AmountsInt ==
  ASSUME BooksInv
  PROVE  /\ pool.total \in Int /\ pool.reserved \in Nat /\ pool.available \in Int
         /\ funded \in Nat /\ Outstanding \in Nat
         /\ \A c \in Calls : /\ call[c].need \in Nat /\ call[c].seen \in Pool
                             /\ fundingCents(call[c].need) \in Nat
<1>1. PoolInv /\ IsFiniteSet(Held)
  BY DEF BooksInv
<1>2. \A c \in Calls : call[c].need \in Nat /\ call[c].seen \in Pool
  BY <1>1 DEF PoolInv, TypeOK, Call
<1>3. \A c \in Calls : fundingCents(call[c].need) \in Nat
  BY <1>2, FundingNat
<1>4. pool.total \in Int /\ pool.reserved \in Nat /\ pool.available \in Int /\ funded \in Nat
  BY <1>1 DEF PoolInv, TypeOK, Pool
<1> QED
  BY <1>1, <1>2, <1>3, <1>4, OutstandingNat

(* An answer that is not outdated adds no more than was funded for it. *)
LEMMA AnswerIsFunded ==
  ASSUME BooksInv, NEW c \in Calls, NEW ready \in BOOLEAN, ProvisionerAnswers(c, ready),
         call[c].kind \in {"reserve", "warm"}, ~stale, ~Moved(c)
  PROVE  \E more \in Nat : totalSpendable(c, ready) = pool.total + more /\ funded' = funded + more
<1> DEFINE seen == call[c].seen
           F == fundingCents(call[c].need)
<1>1. /\ seen.total \in Int /\ seen.reserved \in Int /\ seen.available \in Int
      /\ funded \in Nat /\ F \in Nat
  BY AmountsInt DEF Pool
<1>2. pool.total = seen.total
  BY DEF Moved
<1>3. seen.reserved <= seen.total /\ seen.available = seen.total - seen.reserved
  BY DEF BooksInv, SnapshotInv, ProvisionerAnswers
<1>4. CASE Reuses(c, ready)
  <2>1. funded' = funded
    BY <1>4 DEF ProvisionerAnswers
  <2>2. totalSpendable(c, ready) = Max({seen.total, seen.reserved + seen.available})
    BY <1>4 DEF totalSpendable
  <2> HIDE DEF seen
  <2>3. seen.reserved + seen.available = seen.total
    BY <1>1, <1>3
  <2>4. Max({seen.total, seen.total}) = seen.total
    BY <1>1, MaxOfTwo
  <2>5. totalSpendable(c, ready) = seen.total
    BY <2>2, <2>3, <2>4
  <2>6. 0 \in Nat /\ totalSpendable(c, ready) = pool.total + 0 /\ funded' = funded + 0
    BY <1>1, <1>2, <2>1, <2>5
  <2> QED
    BY <2>6
<1>5. CASE ~Reuses(c, ready)
  <2>1. funded' = funded + F /\ totalSpendable(c, ready) = seen.total + F
    BY <1>5 DEF ProvisionerAnswers, totalSpendable
  <2> HIDE DEF seen, F
  <2> QED
    BY <1>1, <1>2, <2>1
<1> QED
  BY <1>4, <1>5

(* Channels are only added. *)
LEMMA FundedGrows ==
  ASSUME BooksInv, NEW c \in Calls, funded' \in {funded, funded + fundingCents(call[c].need)}
  PROVE  funded' \in Nat /\ funded' >= funded
BY AmountsInt

(* A call that returns leaves the snapshots of the others. *)
LEMMA SnapshotsStay ==
  ASSUME BooksInv, NEW c \in Calls, call' = [call EXCEPT ![c].pc = "returned"], stale => stale'
  PROVE  SnapshotInv'
<1>1. call \in [Calls -> Call]
  BY DEF BooksInv, PoolInv, TypeOK
<1>2. call'[c].pc = "returned" /\ \A d \in Calls : d # c => call'[d] = call[d]
  BY <1>1 DEF Call
<1> QED
  BY <1>2 DEF BooksInv, SnapshotInv

(* finishReserve writes the pool from the snapshot its call took: if the   *)
(* pool has moved meanwhile the result is marked stale, otherwise the      *)
(* reservation and the reserved amount grow by the same need, within what  *)
(* the answer covers.                                                      *)
LEMMA ReserveBooks ==
  ASSUME BooksInv, NEW c \in Calls, NEW ready \in BOOLEAN, FinishReserve(c, ready)
  PROVE  BooksInv'
<1> DEFINE total == totalSpendable(c, ready)
           need == call[c].need
<1>1. PoolInv'
  BY FinishReserveInv DEF BooksInv
<1>2. /\ call' = [call EXCEPT ![c].pc = "returned"] /\ call[c].pc = "provisioning"
      /\ funded' \in {funded, funded + fundingCents(call[c].need)}
      /\ reverified' = reverified /\ recovered' = recovered
      /\ ProvisionerAnswers(c, ready) /\ call[c].kind = "reserve"
  BY DEF FinishReserve, ProvisionerAnswers
<1>3. funded' \in Nat /\ funded' >= funded
  BY <1>2, FundedGrows
<1>4. /\ pool.total \in Int /\ pool.reserved \in Nat /\ funded \in Nat /\ Outstanding \in Nat
      /\ need \in Nat /\ total \in Int /\ PoolInv /\ IsFiniteSet(Held)
  BY AmountsInt, TotalGrows DEF BooksInv
<1>5. reservation[c].status = "none"
  BY <1>2, <1>4 DEF PoolInv
<1> HIDE DEF total, need
<1>6. CASE total >= call[c].seen.reserved + need
  <2>1. /\ pool'.total = total /\ pool'.reserved = pool.reserved + need
        /\ reservation' = [reservation EXCEPT ![c] = [status |-> "reserved", cents |-> need]]
        /\ stale' = (stale \/ Moved(c))
    BY <1>6 DEF FinishReserve, total, need
  <2>2. IsFiniteSet(Held') /\ Outstanding' = Outstanding + need
    BY <1>4, <1>5, <2>1, HeldGrows, Zenon
  <2>3. ReservedIsOutstanding'
    BY <1>2, <1>4, <2>1, <2>2 DEF BooksInv, ReservedIsOutstanding
  <2>4. SnapshotInv'
    BY <1>2, <2>1, SnapshotsStay, Zenon
  <2>5. ChannelsCover'
    <3> SUFFICES ASSUME ~stale', ~recovered'
                 PROVE  /\ Outstanding' + pool'.total <= funded' + pool'.reserved
                        /\ pool'.total <= funded'
      BY DEF ChannelsCover
    <3>1. ~stale /\ ~Moved(c) /\ ~recovered
      BY <1>2, <2>1, Zenon
    <3>2. PICK more \in Nat : total = pool.total + more /\ funded' = funded + more
      BY <1>2, <3>1, AnswerIsFunded DEF total
    <3>3. Outstanding + pool.total <= funded + pool.reserved /\ pool.total <= funded
      BY <3>1 DEF BooksInv, ChannelsCover
    <3> QED
      BY <1>4, <2>1, <2>2, <3>2, <3>3
  <2> QED
    BY <1>1, <2>2, <2>3, <2>4, <2>5 DEF BooksInv
<1>7. CASE ~(total >= call[c].seen.reserved + need)
  <2>1. UNCHANGED <<pool, reservation, stale>>
    BY <1>7 DEF FinishReserve, total, need
  <2>2. Held' = Held /\ Outstanding' = Outstanding
    BY <1>4, <2>1, HeldSame
  <2>3. SnapshotInv'
    BY <1>2, <2>1, SnapshotsStay, Zenon
  <2>4. ChannelsCover'
    BY <1>2, <1>3, <1>4, <2>1, <2>2 DEF BooksInv, ChannelsCover
  <2> QED
    BY <1>1, <1>2, <1>4, <2>1, <2>2, <2>3, <2>4 DEF BooksInv, ReservedIsOutstanding
<1> QED
  BY <1>6, <1>7

(* A step that keeps the reservations and the reserved amount, and raises  *)
(* the total by no more than is funded, keeps the books.                   *)
LEMMA OnlyFunding ==
  ASSUME BooksInv, PoolInv', reservation' = reservation, pool'.reserved = pool.reserved,
         UNCHANGED reverified, stale => stale', recovered => recovered', SnapshotInv',
         funded' \in Nat, funded' >= funded,
         ~stale' /\ ~recovered' =>
           \E more \in Nat : pool'.total = pool.total + more /\ funded' >= funded + more
  PROVE  BooksInv'
<1>1. /\ pool.total \in Int /\ pool.reserved \in Nat /\ funded \in Nat /\ Outstanding \in Nat
      /\ IsFiniteSet(Held) /\ PoolInv
  BY AmountsInt DEF BooksInv
<1>2. Held' = Held /\ Outstanding' = Outstanding
  BY DEF Held, Outstanding
<1>3. ReservedIsOutstanding'
  BY <1>2 DEF BooksInv, ReservedIsOutstanding
<1>4. ChannelsCover'
  <2> SUFFICES ASSUME ~stale', ~recovered'
               PROVE  /\ Outstanding' + pool'.total <= funded' + pool'.reserved
                      /\ pool'.total <= funded'
    BY DEF ChannelsCover
  <2>1. PICK more \in Nat : pool'.total = pool.total + more /\ funded' >= funded + more
    OBVIOUS
  <2>2. Outstanding + pool.total <= funded + pool.reserved /\ pool.total <= funded
    BY DEF BooksInv, ChannelsCover
  <2> QED
    BY <1>1, <1>2, <2>1, <2>2
<1> QED
  BY <1>1, <1>2, <1>3, <1>4 DEF BooksInv

(* The other ways a call finishes: warming, and a failure that leaves the  *)
(* pool alone.                                                             *)
LEMMA FinishBooks ==
  ASSUME BooksInv, NEW c \in Calls, Finish(c)
  PROVE  BooksInv'
<1>0. PoolInv' /\ PoolInv /\ pool.total \in Int
  BY FinishInv, AmountsInt DEF BooksInv
<1>1. ASSUME NEW ready \in BOOLEAN, FinishWarm(c, ready)
      PROVE  BooksInv'
  <2>1. /\ call' = [call EXCEPT ![c].pc = "returned"] /\ call[c].kind = "warm"
        /\ funded' \in {funded, funded + fundingCents(call[c].need)}
        /\ UNCHANGED <<reservation, reverified, recovered>> /\ ProvisionerAnswers(c, ready)
        /\ pool' = Refreshed(totalSpendable(c, ready)) /\ stale' = (stale \/ Moved(c))
    BY <1>1 DEF FinishWarm, ProvisionerAnswers
  <2>2. funded' \in Nat /\ funded' >= funded
    BY <2>1, FundedGrows
  <2>3. pool'.reserved = pool.reserved /\ pool'.total = totalSpendable(c, ready)
    BY <2>1 DEF Refreshed
  <2>4. SnapshotInv'
    BY <2>1, SnapshotsStay, Zenon
  <2>5. ~stale' => \E more \in Nat : pool'.total = pool.total + more /\ funded' = funded + more
    BY <2>1, <2>3, AnswerIsFunded, Zenon
  <2>6. ~stale' => \E more \in Nat : pool'.total = pool.total + more /\ funded' >= funded + more
    BY <2>2, <2>5
  <2> QED
    BY <1>0, <2>1, <2>2, <2>3, <2>4, <2>6, OnlyFunding, Zenon
<1>2. ASSUME NEW ready \in BOOLEAN, NEW saved \in BOOLEAN, FinishRecover(c, ready, saved)
      PROVE  BooksInv'
  <2>1. /\ call' = [call EXCEPT ![c].pc = "returned"]
        /\ funded' \in {funded, funded + fundingCents(call[c].need)}
        /\ UNCHANGED <<reservation, reverified>>
    BY <1>2 DEF FinishRecover, ProvisionerAnswers
  <2>2. funded' \in Nat /\ funded' >= funded
    BY <2>1, FundedGrows
  <2>3. /\ (stale => stale') /\ (recovered => recovered')
        /\ pool'.reserved = pool.reserved /\ (~recovered' => pool' = pool)
    <3>1. CASE saved
      <4>1. /\ pool' = Refreshed(totalSpendable(c, ready))
            /\ stale' = (stale \/ Moved(c)) /\ recovered' = TRUE
        BY <1>2, <3>1 DEF FinishRecover
      <4>2. pool'.reserved = pool.reserved
        BY <4>1 DEF Refreshed
      <4> QED
        BY <4>1, <4>2, Zenon
    <3>2. CASE ~saved
      BY <1>2, <3>2, Zenon DEF FinishRecover
    <3> QED
      BY <3>1, <3>2
  <2>4. SnapshotInv'
    BY <2>1, <2>3, SnapshotsStay, Zenon
  <2>5. ~recovered' => 0 \in Nat /\ pool'.total = pool.total + 0 /\ funded' >= funded + 0
    BY <1>0, <2>2, <2>3, AmountsInt
  <2> QED
    BY <1>0, <2>1, <2>2, <2>3, <2>4, <2>5, OnlyFunding
<1>3. ASSUME NEW opened \in BOOLEAN, ProvisioningFails(c, opened)
      PROVE  BooksInv'
  <2>1. /\ call' = [call EXCEPT ![c].pc = "returned"]
        /\ funded' \in {funded, funded + fundingCents(call[c].need)}
        /\ UNCHANGED <<reservation, stale, reverified, recovered>>
        /\ pool' \in {pool, [pool EXCEPT !.status = "disconnected"]}
    BY <1>3 DEF ProvisioningFails, historyVars
  <2>2. funded' \in Nat /\ funded' >= funded
    BY <2>1, FundedGrows
  <2>3. pool'.reserved = pool.reserved /\ pool'.total = pool.total
    BY <1>0, <2>1, Zenon DEF PoolInv, TypeOK, Pool
  <2>4. SnapshotInv'
    BY <2>1, SnapshotsStay, Zenon
  <2>5. 0 \in Nat /\ pool'.total = pool.total + 0 /\ funded' >= funded + 0
    BY <1>0, <2>2, <2>3, AmountsInt
  <2> QED
    BY <1>0, <2>1, <2>2, <2>3, <2>4, <2>5, OnlyFunding
<1> QED
  BY <1>1, <1>2, <1>3, ReserveBooks DEF Finish

(* A call that begins only takes its snapshot, or reserves from what is    *)
(* available at once.                                                      *)
LEMMA BeginBooks ==
  ASSUME BooksInv, NEW c \in Calls, Begin(c)
  PROVE  BooksInv'
<1>1. PICK kind, need, seen :
        /\ Ask(c, kind, need, seen)
        /\ pool' \in {pool, [pool EXCEPT !.status = "recovering"]}
        /\ kind \in {"reserve", "warm"} => seen = pool
  <2>1. ASSUME NEW b \in Budgets, BeginReserve(c, b)
        PROVE  Ask(c, "reserve", neededReserve(b), pool) /\ pool' = pool
    BY <2>1 DEF BeginReserve
  <2>2. ASSUME NEW m \in Minimums, BeginWarm(c, m)
        PROVE  Ask(c, "warm", Max({m, pool.available}), pool) /\ pool' = pool
    BY <2>2 DEF BeginWarm
  <2>3. ASSUME BeginRecover(c)
        PROVE  /\ Ask(c, "recover", pool.reserved, [pool' EXCEPT !.available = pool.total])
               /\ pool' = [pool EXCEPT !.status = "recovering"]
    BY <2>3 DEF BeginRecover
  <2>4. "recover" \notin {"reserve", "warm"}
    OBVIOUS
  <2> QED
    BY <2>1, <2>2, <2>3, <2>4, Zenon DEF Begin
<1>2. /\ call' = [call EXCEPT ![c] =
                    [pc |-> "provisioning", kind |-> kind, need |-> need, seen |-> seen]]
      /\ UNCHANGED <<reservation, funded, stale, reverified, recovered>>
  BY <1>1 DEF Ask, historyVars
<1>3. PoolInv' /\ PoolInv /\ pool.total \in Int /\ funded \in Nat
  BY BeginInv, AmountsInt DEF BooksInv
<1>4. pool'.reserved = pool.reserved /\ pool'.total = pool.total
  BY <1>1, <1>3 DEF PoolInv, TypeOK, Pool
<1>5. /\ call'[c].kind = kind /\ call'[c].seen = seen
      /\ \A d \in Calls : d # c => call'[d] = call[d]
  BY <1>2, <1>3 DEF PoolInv, TypeOK, Call
<1>6. SnapshotInv'
  <2> SUFFICES ASSUME ~stale', NEW d \in Calls, call'[d].pc = "provisioning",
                      call'[d].kind \in {"reserve", "warm"}
               PROVE  /\ call'[d].seen.reserved <= call'[d].seen.total
                      /\ call'[d].seen.available = call'[d].seen.total - call'[d].seen.reserved
    BY DEF SnapshotInv
  <2>1. CASE d = c
    <3>1. call'[d].seen = pool /\ ~stale
      BY <1>1, <1>2, <1>5, <2>1
    <3>2. pool.reserved <= pool.total /\ pool.available = pool.total - pool.reserved
      <4>1. /\ pool.reserved <= pool.total
            /\ \/ pool.available = pool.total - pool.reserved
               \/ pool.available = 0 /\ pool.reserved > pool.total
        BY <1>3, <3>1 DEF PoolInv, CoveredUnlessStale, AvailableIsRest
      <4> QED
        BY <4>1, AmountsInt
    <3> QED
      BY <3>1, <3>2
  <2>2. CASE d # c
    BY <1>2, <1>5, <2>2, Zenon DEF BooksInv, SnapshotInv
  <2> QED
    BY <2>1, <2>2
<1>7. 0 \in Nat /\ pool'.total = pool.total + 0 /\ funded' >= funded + 0
  BY <1>2, <1>3, <1>4
<1>8. funded' \in Nat /\ funded' >= funded
  BY <1>2, <1>3
<1> QED
  BY <1>2, <1>3, <1>4, <1>6, <1>7, <1>8, OnlyFunding

(* A binding that is verified again empties the pool but not the channels. *)
LEMMA BindingBooks ==
  ASSUME BooksInv, Binding
  PROVE  BooksInv'
<1>1. UNCHANGED <<call, reservation, funded, stale, recovered>>
  BY DEF Binding, RegisterCarrierBinding, VerifyCarrierBinding, SuspendCarrierBinding,
         RegisterProviderSettlementBinding, VerifyProviderSettlementBinding,
         SuspendProviderSettlementBinding, ReportProviderSettlementDisconnect, historyVars
<1>2. PoolInv' /\ PoolInv /\ pool \in Pool
  BY BindingInv DEF BooksInv, PoolInv, TypeOK
<1>3. /\ pool.total \in Int /\ pool.reserved \in Nat /\ funded \in Nat /\ Outstanding \in Nat
      /\ IsFiniteSet(Held)
  BY AmountsInt DEF BooksInv
<1>4. SnapshotInv'
  BY <1>1 DEF BooksInv, SnapshotInv
<1>5. CASE \E i \in 1 .. Len(bindings) : VerifyProviderSettlementBinding(i)
  <2>1. /\ pool'.total = 0 /\ pool'.reserved = 0
        /\ reverified' = (reverified \/ pool.total # 0 \/ pool.reserved # 0)
    BY <1>5 DEF VerifyProviderSettlementBinding, NoPool
  <2>2. Held' = Held /\ Outstanding' = Outstanding
    BY <1>1 DEF Held, Outstanding
  <2>3. ReservedIsOutstanding'
    BY <2>1, <2>2, Zenon DEF BooksInv, ReservedIsOutstanding
  <2>4. ChannelsCover'
    <3> SUFFICES ASSUME ~stale', ~recovered'
                 PROVE  /\ Outstanding' + pool'.total <= funded' + pool'.reserved
                        /\ pool'.total <= funded'
      BY DEF ChannelsCover
    <3>1. Outstanding + pool.total <= funded + pool.reserved
      BY <1>1 DEF BooksInv, ChannelsCover
    <3>2. pool.reserved <= pool.total
      BY <1>1, <1>2 DEF PoolInv, CoveredUnlessStale
    <3> QED
      BY <1>1, <1>3, <2>1, <2>2, <3>1, <3>2
  <2> QED
    BY <1>2, <1>3, <1>4, <2>2, <2>3, <2>4 DEF BooksInv
<1>6. CASE ~ \E i \in 1 .. Len(bindings) : VerifyProviderSettlementBinding(i)
  <2>1. /\ reverified' = reverified
        /\ \/ pool' = pool
           \/ \E st \in PoolStatuses : pool' = [pool EXCEPT !.status = st]
    BY <1>6 DEF Binding, RegisterCarrierBinding, VerifyCarrierBinding, SuspendCarrierBinding,
           RegisterProviderSettlementBinding, SuspendProviderSettlementBinding,
           ReportProviderSettlementDisconnect, PoolStatuses, historyVars
  <2>2. pool'.reserved = pool.reserved /\ pool'.total = pool.total
    BY <1>2, <2>1 DEF Pool
  <2>3. 0 \in Nat /\ pool'.total = pool.total + 0 /\ funded' >= funded + 0
    BY <1>1, <1>3, <2>2
  <2>4. funded' \in Nat /\ funded' >= funded
    BY <1>1, <1>3
  <2> QED
    BY <1>1, <1>2, <1>4, <2>1, <2>2, <2>3, <2>4, OnlyFunding
<1> QED
  BY <1>5, <1>6

(* Activating and releasing a reservation. *)
LEMMA ReturnBooks ==
  ASSUME BooksInv, NEW c \in Calls, Return(c)
  PROVE  BooksInv'
<1>1. PoolInv' /\ PoolInv /\ IsFiniteSet(Held)
  BY ReturnInv DEF BooksInv
<1>2. /\ pool.total \in Int /\ pool.reserved \in Nat /\ funded \in Nat /\ Outstanding \in Nat
      /\ pool \in Pool /\ reservation[c].cents \in Nat
  BY <1>1, AmountsInt DEF PoolInv, TypeOK, Reservation
<1>3. UNCHANGED <<call, funded, stale, reverified, recovered>>
  BY DEF Return, attachProviderSettlementReservation, releaseProviderSettlementReservation,
         historyVars
<1>4. SnapshotInv'
  BY <1>3 DEF BooksInv, SnapshotInv
<1>5. CASE attachProviderSettlementReservation(c)
  <2>1. pool' = pool /\ Held' = Held /\ Outstanding' = Outstanding
    BY <1>1, <1>5, HeldSame, Zenon DEF attachProviderSettlementReservation
  <2> QED
    BY <1>1, <1>3, <1>4, <2>1 DEF BooksInv, ReservedIsOutstanding, ChannelsCover
<1>6. CASE releaseProviderSettlementReservation(c)
  <2> DEFINE cents == reservation[c].cents
             left == Max({pool.reserved - cents, 0})
  <2>1. /\ reservation[c].status \in {"reserved", "active"}
        /\ reservation' = [reservation EXCEPT ![c].status = "released"]
        /\ pool' = [pool EXCEPT !.reserved = left, !.available = pool.total - left]
    BY <1>6 DEF releaseProviderSettlementReservation
  <2>2. IsFiniteSet(Held') /\ Outstanding' = Outstanding - cents
    BY <1>1, <2>1, HeldShrinks, Zenon
  <2>3. cents <= Outstanding
    BY <1>1, <2>1, OutstandingNat DEF Held
  <2>4. pool'.reserved = left /\ pool'.total = pool.total
    BY <1>2, <2>1 DEF Pool
  <2>5. left = IF pool.reserved - cents >= 0 THEN pool.reserved - cents ELSE 0
    <3>1. pool.reserved - cents \in Int /\ 0 \in Int
      BY <1>2
    <3> QED
      BY <3>1, MaxOfTwo
  <2> HIDE DEF cents, left
  <2>6. cents \in Nat
    BY <1>2 DEF cents
  <2>7. ReservedIsOutstanding'
    BY <1>2, <1>3, <2>2, <2>3, <2>4, <2>5, <2>6 DEF BooksInv, ReservedIsOutstanding
  <2>8. left >= pool.reserved - cents /\ left \in Int
    BY <1>2, <2>5, <2>6
  <2>9. ChannelsCover'
    <3> SUFFICES ASSUME ~stale', ~recovered'
                 PROVE  /\ Outstanding' + pool'.total <= funded' + pool'.reserved
                        /\ pool'.total <= funded'
      BY DEF ChannelsCover
    <3>1. Outstanding + pool.total <= funded + pool.reserved /\ pool.total <= funded
      BY <1>3 DEF BooksInv, ChannelsCover
    <3> QED
      BY <1>2, <1>3, <2>2, <2>4, <2>6, <2>8, <3>1
  <2> QED
    BY <1>1, <1>4, <2>2, <2>7, <2>9 DEF BooksInv
<1> QED
  BY <1>5, <1>6 DEF Return

(* Every step keeps the books. *)
LEMMA BooksNext == BooksInv /\ [Next]_vars => BooksInv'
<1> SUFFICES ASSUME BooksInv, [Next]_vars PROVE BooksInv'
  OBVIOUS
<1>1. CASE UNCHANGED vars
  <2>1. UNCHANGED <<pool, call, reservation, funded, stale, reverified, recovered>>
    BY <1>1 DEF vars
  <2>2. PoolInv'
    BY <1>1, PoolNext DEF BooksInv
  <2>3. Held' = Held /\ Outstanding' = Outstanding
    BY <2>1 DEF Held, Outstanding
  <2> QED
    BY <2>1, <2>2, <2>3 DEF BooksInv, ReservedIsOutstanding, SnapshotInv, ChannelsCover
<1> QED
  BY <1>1, BindingBooks, BeginBooks, FinishBooks, ReturnBooks DEF Next

(* The pool's books balance however the calls overlap (PoolBooks): the     *)
(* reserved amount provider_settlement.go keeps by adding and subtracting  *)
(* is the sum of the reservations held, for any number of calls, any       *)
(* budgets, buffer and channel size.                                       *)
THEOREM BooksBalance == Spec => []PoolBooks
<1>1. BooksInv => PoolBooks
  BY DEF BooksInv, PoolInv, PoolBooks
<1> QED
  BY <1>1, BooksInit, BooksNext, PTL DEF Spec

(* Reservations and the pool's total are backed by channels that were      *)
(* funded, unless a snapshot was outdated or a recovery rewrote the total. *)
THEOREM ReservationsAreBacked == Spec => []BackedByChannels
<1>1. BooksInv => BackedByChannels
  <2> SUFFICES ASSUME BooksInv, ~stale, ~recovered
               PROVE  Outstanding <= funded /\ pool.total <= funded
    BY DEF BackedByChannels
  <2>1. Outstanding + pool.total <= funded + pool.reserved /\ pool.total <= funded
    BY DEF BooksInv, ChannelsCover
  <2>2. pool.reserved <= pool.total
    BY DEF BooksInv, PoolInv, CoveredUnlessStale
  <2> QED
    BY <2>1, <2>2, AmountsInt
<1> QED
  BY <1>1, BooksInit, BooksNext, PTL DEF Spec

-----------------------------------------------------------------------------
(* Channels: FundedIsNew, by ChannelInv.                                   *)

(* The stages of a provisioning call, and its progress. *)
Stages == {"new", "list", "open", "accept", "wait", "reused", "provisioned", "failed"}
Progress == [pc : Stages, expired : BOOLEAN, existing : SUBSET Channels, attempt : Nat,
             try : Nat, temp : 0 .. MaxChannels, result : 0 .. MaxChannels]

(* The channels as the two nodes and their openers know them. *)
NodeTypes ==
  /\ treasury \in [Channels -> {"none", "opened", "ready", "closed"}]
  /\ provider \in [Channels -> {"none", "offered", "awaiting", "ready", "closed"}]
  /\ opener \in [Channels -> Provisionings \cup {NoOne}]
  /\ \A ch \in Channels : treasury[ch] = "none" => opener[ch] = NoOne

Wanting == {"open", "accept", "wait"}     \* a new channel

(* What a call k has opened so far: one channel in each attempt. *)
Counted(k, opened) ==
  /\ opened <= OpenChannelRetries
  /\ k.pc \in {"new", "list", "reused"} => opened = 0
  /\ k.pc \in Wanting \cup {"provisioned"} => k.attempt <= OpenChannelRetries
  /\ k.pc = "open" => opened + 1 = k.attempt
  /\ k.pc \in {"accept", "wait", "provisioned"} => opened = k.attempt

(* What was ready when a call c looked is neither its own nor new. *)
Remembered(c) ==
  /\ progress[c].pc \in Wanting =>
       \A ch \in progress[c].existing : treasury[ch] # "none" /\ opener[ch] # c
  /\ progress[c].pc \in {"accept", "wait"} => progress[c].temp \in Channels /\ opener[progress[c].temp] = c
  /\ progress[c].pc = "provisioned" => progress[c].result \in Channels /\ progress[c].result \notin progress[c].existing

(* A channel that was ready on both sides stays so until it is closed. *)
WasReady(ch) == (treasury[ch] = "ready" /\ provider[ch] = "ready") \/ treasury[ch] = "closed"

(* Two calls that never overlapped: what one reported was ready before the *)
(* other looked, or is closed since, and they report different channels.   *)
Apart(c, d) ==
  /\ Running(c) /\ Running(d) => {c, d} \in overlapped
  /\ progress[c].pc = "provisioned" /\ {c, d} \notin overlapped =>
       /\ progress[d].pc \in Wanting =>
            progress[c].result \in progress[d].existing \/ treasury[progress[c].result] = "closed"
       /\ progress[d].pc = "provisioned" => progress[c].result # progress[d].result

(* The inductive invariant behind FundedIsNew: what each call has opened,  *)
(* what it remembers, and that calls which never overlapped are apart.     *)
ChannelInv ==
  /\ NodeTypes
  /\ progress \in [Provisionings -> Progress]
  /\ \A c \in Provisionings : /\ Counted(progress[c], Cardinality(Opened(c)))
                              /\ Remembered(c)
                              /\ progress[c].pc = "provisioned" => WasReady(progress[c].result)
  /\ \A c, d \in Provisionings : c # d => Apart(c, d)

(* The facts about the constants that the proofs use. *)
LEMMA ChannelConst ==
  /\ MaxChannels \in Nat /\ OpenChannelRetries \in Nat \ {0} /\ NoOne \notin Provisionings
  /\ IsFiniteSet(Channels)
<1>1. MaxChannels \in Nat /\ OpenChannelRetries \in Nat \ {0} /\ NoOne \notin Provisionings
  BY ChannelAssumption
<1>2. IsFiniteSet(1 .. MaxChannels)
  BY <1>1, FS_Interval
<1> QED
  BY <1>1, <1>2, Zenon DEF Channels

(* A call has opened a number of channels. *)
LEMMA OpenedNat ==
  ASSUME NEW c
  PROVE  IsFiniteSet(Opened(c)) /\ Cardinality(Opened(c)) \in Nat
<1>1. Opened(c) \subseteq Channels
  BY DEF Opened
<1>2. IsFiniteSet(Opened(c))
  BY <1>1, ChannelConst, FS_Subset
<1> QED
  BY <1>2, FS_CardinalityType

(* Channels only move on: what is there stays there with its opener, and   *)
(* what was ready stays ready or is closed.                                *)
Onward ==
  /\ NodeTypes'
  /\ \A ch \in Channels :
       /\ treasury[ch] # "none" => treasury'[ch] # "none" /\ opener'[ch] = opener[ch]
       /\ treasury[ch] = "closed" => treasury'[ch] = "closed"
       /\ WasReady(ch) => WasReady(ch)'

(* When the nodes do nothing, channels trivially move on. *)
LEMMA NodesRest ==
  ASSUME ChannelInv, UNCHANGED nodeVars
  PROVE  Onward /\ \A d \in Provisionings : Opened(d)' = Opened(d)
BY DEF nodeVars, Onward, ChannelInv, NodeTypes, WasReady, Opened, Channels

(* A step of one call leaves the others where they are. *)
Moves(c) == progress' \in [Provisionings -> Progress] /\ \A d \in Provisionings : d # c => progress'[d] = progress[d]

(* While channels move on, a step of one call keeps what the invariant     *)
(* says of the others.                                                     *)
LEMMA OthersStay ==
  ASSUME ChannelInv, Onward, NEW d \in Provisionings, progress'[d] = progress[d], Opened(d)' = Opened(d)
  PROVE  /\ Counted(progress'[d], Cardinality(Opened(d)'))
         /\ Remembered(d)'
         /\ progress'[d].pc = "provisioned" => WasReady(progress[d].result)'
<1>1. /\ progress[d] \in Progress
      /\ Counted(progress[d], Cardinality(Opened(d))) /\ Remembered(d)
      /\ progress[d].pc = "provisioned" => WasReady(progress[d].result)
  BY Zenon DEF ChannelInv
<1>2. Counted(progress'[d], Cardinality(Opened(d)'))
  BY <1>1, Zenon
<1>3. progress'[d].pc = "provisioned" => WasReady(progress[d].result)'
  <2> SUFFICES ASSUME progress[d].pc = "provisioned" PROVE WasReady(progress[d].result)'
    BY Zenon
  <2>1. progress[d].result \in Channels /\ WasReady(progress[d].result)
    BY <1>1, Zenon DEF Remembered
  <2> QED
    BY <2>1, Zenon DEF Onward, WasReady
<1>4. progress[d].existing \subseteq Channels
  BY <1>1 DEF Progress
<1>5. ASSUME progress[d].pc \in Wanting, NEW ch \in progress[d].existing
      PROVE  treasury'[ch] # "none" /\ opener'[ch] # d
  BY <1>1, <1>4, <1>5, Zenon DEF Remembered, Onward
<1>6. ASSUME progress[d].pc \in {"accept", "wait"}
      PROVE  progress[d].temp \in Channels /\ opener'[progress[d].temp] = d
  <2>1. progress[d].temp \in Channels /\ opener[progress[d].temp] = d
    BY <1>1, <1>6, Zenon DEF Remembered
  <2>2. d # NoOne
    BY ChannelConst
  <2>3. treasury[progress[d].temp] # "none"
    BY <2>1, <2>2, Zenon DEF ChannelInv, NodeTypes
  <2> QED
    BY <2>1, <2>3 DEF Onward
<1>7. Remembered(d)'
  BY <1>1, <1>5, <1>6, Zenon DEF Remembered
<1> QED
  BY <1>2, <1>3, <1>7, Zenon

(* A step of a call keeps the invariant when what it says of this call,    *)
(* alone and with each other call, is kept.                                *)
LEMMA OneMoves ==
  ASSUME ChannelInv, Onward, NEW c \in Provisionings, Moves(c),
         \A d \in Provisionings : d # c => Opened(d)' = Opened(d),
         Counted(progress'[c], Cardinality(Opened(c)')), Remembered(c)',
         progress'[c].pc = "provisioned" => WasReady(progress[c].result)',
         overlapped \subseteq overlapped',
         \A d \in Provisionings : d # c => Apart(c, d)' /\ Apart(d, c)'
  PROVE  ChannelInv'
<1>1. progress' \in [Provisionings -> Progress] /\ NodeTypes'
  BY Zenon DEF Moves, Onward
<1>2. ASSUME NEW d \in Provisionings
      PROVE  /\ Counted(progress'[d], Cardinality(Opened(d)')) /\ Remembered(d)'
             /\ progress'[d].pc = "provisioned" => WasReady(progress[d].result)'
  <2>1. CASE d = c
    BY <2>1, Zenon
  <2>2. CASE d # c
    BY <2>2, OthersStay, Zenon DEF Moves
  <2> QED
    BY <2>1, <2>2, Zenon
<1>3. ASSUME NEW d \in Provisionings, NEW e \in Provisionings, d # e
      PROVE  Apart(d, e)'
  <2>1. CASE d # c /\ e # c
    <3>1. progress'[d] = progress[d] /\ progress'[e] = progress[e] /\ progress[d] \in Progress
      BY <2>1 DEF Moves, ChannelInv
    <3>2. Apart(d, e)
      BY <1>3, Zenon DEF ChannelInv
    <3>3. progress[d].pc = "provisioned" => progress[d].result \in Channels
      BY Zenon DEF ChannelInv, Remembered
    <3> QED
      BY <3>1, <3>2, <3>3, Zenon DEF Apart, Onward, Running
  <2>2. CASE d = c \/ e = c
    BY <1>3, <2>2, Zenon
  <2> QED
    BY <2>1, <2>2, Zenon
<1> QED
  BY <1>1, <1>2, <1>3, Zenon DEF ChannelInv

(* A call that goes on within its stages, or gives up, stays apart from    *)
(* the others.                                                             *)
LEMMA Proceeds ==
  ASSUME ChannelInv, Onward, NEW c \in Provisionings, Running(c), Moves(c), overlapped' = overlapped,
         \A d \in Provisionings : d # c => Opened(d)' = Opened(d),
         Counted(progress'[c], Cardinality(Opened(c)')),
         progress'[c].pc # "provisioned",
         progress'[c].pc \in Wanting => progress[c].pc \in Wanting /\ progress'[c].existing = progress[c].existing,
         progress'[c].pc \in {"accept", "wait"} =>
            progress'[c].temp \in Channels /\ opener'[progress'[c].temp] = c
  PROVE  ChannelInv'
<1>1. /\ progress[c] \in Progress /\ Remembered(c) /\ progress[c].existing \subseteq Channels
  BY Zenon DEF ChannelInv, Progress
<1>2. Remembered(c)'
  <2>1. ASSUME progress'[c].pc \in Wanting, NEW ch \in progress'[c].existing
        PROVE  treasury'[ch] # "none" /\ opener'[ch] # c
    <3>1. ch \in Channels /\ treasury[ch] # "none" /\ opener[ch] # c
      BY <1>1, <2>1, Zenon DEF Remembered
    <3> QED
      BY <3>1, Zenon DEF Onward
  <2> QED
    BY <2>1, Zenon DEF Remembered
<1>3. ASSUME NEW d \in Provisionings, d # c
      PROVE  Apart(c, d)' /\ Apart(d, c)'
  <2>1. progress'[d] = progress[d]
    BY <1>3, Zenon DEF Moves
  <2>2. Apart(c, d) /\ Apart(d, c)
    BY <1>3, Zenon DEF ChannelInv
  <2>3. Running(d)' => Running(d)
    BY <2>1, Zenon DEF Running
  <2>4. Running(c)' /\ Running(d)' => {c, d} \in overlapped' /\ {d, c} \in overlapped'
    BY <2>2, <2>3, Zenon DEF Apart
  <2>5. progress[d].pc = "provisioned" => progress[d].result \in Channels
    BY Zenon DEF ChannelInv, Remembered
  <2>6. ASSUME progress'[d].pc = "provisioned", {d, c} \notin overlapped', progress'[c].pc \in Wanting
        PROVE  progress'[d].result \in progress'[c].existing \/ treasury'[progress'[d].result] = "closed"
    <3>1. progress[d].result \in progress[c].existing \/ treasury[progress[d].result] = "closed"
      BY <2>1, <2>2, <2>6, Zenon DEF Apart
    <3> QED
      BY <2>1, <2>5, <2>6, <3>1, Zenon DEF Onward
  <2> QED
    BY <2>4, <2>6, Zenon DEF Apart
<1>4. \A d \in Provisionings : d # c => Apart(c, d)' /\ Apart(d, c)'
  BY <1>3, Zenon
<1>5. overlapped \subseteq overlapped' /\ (progress'[c].pc = "provisioned" => WasReady(progress[c].result)')
  BY Zenon
<1> QED
  BY <1>2, <1>4, <1>5, OneMoves, Zenon

-----------------------------------------------------------------------------
(* A call that has failed. *)
FailedCall == [Fresh EXCEPT !.pc = "failed"]

(* A call starts, and fails, with well-typed progress. *)
LEMMA FreshTyped == Fresh \in Progress /\ FailedCall \in Progress /\ FailedCall.pc = "failed"
<1>1. 0 \in 0 .. MaxChannels /\ 0 \in Nat
  BY ChannelConst
<1>2. {} \in SUBSET Channels
  OBVIOUS
<1>3. "new" \in Stages /\ "failed" \in Stages
  BY DEF Stages
<1>4. Fresh \in Progress
  BY <1>1, <1>2, <1>3, Zenon DEF Fresh, Progress
<1> QED
  BY <1>3, <1>4 DEF FailedCall, Progress

(* A call may fail at any time. *)
LEMMA FailStep ==
  ASSUME ChannelInv, Onward, NEW c \in Provisionings, Running(c), Fail(c), overlapped' = overlapped,
         \A d \in Provisionings : d # c => Opened(d)' = Opened(d),
         Cardinality(Opened(c)') <= OpenChannelRetries
  PROVE  ChannelInv'
<1>1. progress \in [Provisionings -> Progress]
  BY DEF ChannelInv
<1>2. progress' = [progress EXCEPT ![c] = FailedCall]
  BY Zenon DEF Fail, FailedCall
<1>3. Moves(c) /\ progress'[c].pc = "failed"
  BY <1>1, <1>2, FreshTyped DEF Moves
<1>4. Counted(progress'[c], Cardinality(Opened(c)'))
  BY <1>3 DEF Counted, Wanting
<1>5. progress'[c].pc # "provisioned" /\ progress'[c].pc \notin Wanting /\ progress'[c].pc \notin {"accept", "wait"}
  BY <1>3 DEF Wanting
<1> QED
  BY <1>3, <1>4, <1>5, Proceeds, Zenon

(* What the invariant says of one call. *)
LEMMA CallParts ==
  ASSUME ChannelInv, NEW c \in Provisionings
  PROVE  /\ progress \in [Provisionings -> Progress] /\ progress[c] \in Progress
         /\ progress[c].attempt \in Nat /\ progress[c].try \in Nat /\ OpenChannelRetries \in Nat
         /\ Cardinality(Opened(c)) \in Nat
         /\ Counted(progress[c], Cardinality(Opened(c)))
         /\ Remembered(c)
         /\ progress[c].existing \subseteq Channels
BY ChannelConst, OpenedNat DEF ChannelInv, Progress

(* Another attempt opens another channel, or the call gives up. *)
LEMMA AgainStep ==
  ASSUME ChannelInv, Onward, NEW c \in Provisionings, progress[c].pc \in {"accept", "wait"}, ProvisionAgain(c),
         overlapped' = overlapped, \A d \in Provisionings : Opened(d)' = Opened(d)
  PROVE  ChannelInv'
<1> DEFINE n == Cardinality(Opened(c))
<1>1. /\ progress \in [Provisionings -> Progress] /\ progress[c] \in Progress
      /\ progress[c].attempt \in Nat /\ OpenChannelRetries \in Nat /\ n \in Nat
      /\ Counted(progress[c], n)
  BY CallParts, Zenon
<1>2. Running(c) /\ progress[c].pc \in Wanting
  BY DEF Running, Wanting
<1>3. n = progress[c].attempt /\ n <= OpenChannelRetries /\ Cardinality(Opened(c)') = n
  BY <1>1 DEF Counted
<1> HIDE DEF n
<1>4. CASE Fail(c)
  BY <1>2, <1>3, <1>4, FailStep, Zenon
<1>5. CASE /\ progress[c].attempt < OpenChannelRetries
           /\ progress' = [progress EXCEPT ![c].pc = "open", ![c].attempt = @ + 1, ![c].try = 1, ![c].temp = 0]
  <2>1. /\ progress'[c].pc = "open" /\ progress'[c].attempt = progress[c].attempt + 1
        /\ progress'[c].existing = progress[c].existing
        /\ \A d \in Provisionings : d # c => progress'[d] = progress[d]
    BY <1>1, <1>5 DEF Progress
  <2>2. progress' \in [Provisionings -> Progress]
    BY <1>1, <1>5, ChannelConst DEF Progress, Stages
  <2>3. Counted(progress'[c], n)
    BY <1>1, <1>3, <1>5, <2>1 DEF Counted, Wanting
  <2>4. Moves(c) /\ progress'[c].pc # "provisioned" /\ progress'[c].pc \notin {"accept", "wait"}
    BY <2>1, <2>2 DEF Moves
  <2> QED
    BY <1>2, <1>3, <2>1, <2>3, <2>4, Proceeds, Zenon
<1> QED
  BY <1>4, <1>5, Zenon DEF ProvisionAgain

-----------------------------------------------------------------------------
(* The invariant holds before the first call. *)
LEMMA ChannelStart == ChannelInit => ChannelInv
<1> SUFFICES ASSUME ChannelInit PROVE ChannelInv
  OBVIOUS
<1>1. /\ treasury = [ch \in Channels |-> "none"] /\ provider = [ch \in Channels |-> "none"]
      /\ opener = [ch \in Channels |-> NoOne] /\ progress = [c \in Provisionings |-> Fresh]
  BY Zenon DEF ChannelInit
<1>2. NodeTypes
  BY <1>1 DEF NodeTypes
<1>3. progress \in [Provisionings -> Progress] /\ \A c \in Provisionings : progress[c].pc = "new"
  BY <1>1, FreshTyped DEF Fresh
<1>4. ASSUME NEW c \in Provisionings PROVE Cardinality(Opened(c)) = 0
  <2>1. Opened(c) = {}
    BY <1>1, ChannelConst DEF Opened
  <2> QED
    BY <2>1, FS_EmptySet
<1>5. ASSUME NEW c \in Provisionings PROVE Counted(progress[c], Cardinality(Opened(c))) /\ Remembered(c)
  BY ONLY <1>3, <1>4, <1>5, ChannelConst DEF Counted, Remembered, Wanting
<1>6. ASSUME NEW c \in Provisionings, NEW d \in Provisionings PROVE Apart(c, d)
  BY <1>3 DEF Apart, Running
<1> QED
  BY <1>2, <1>3, <1>5, <1>6 DEF ChannelInv

(* The nodes move channels on by themselves: ready, or closed. *)
LEMMA NodesStep ==
  ASSUME ChannelInv, Nodes
  PROVE  ChannelInv'
<1>1. PICK n \in Channels : Offer(n) \/ AutoAccept(n) \/ BecomesReady(n) \/ Closes(n)
  BY Zenon DEF Nodes
<1>2. opener' = opener /\ progress' = progress /\ overlapped' = overlapped
  BY <1>1, Zenon DEF Offer, AutoAccept, BecomesReady, Closes
<1>3. NodeTypes
  BY DEF ChannelInv
<1>4. Onward
  <2>1. CASE Offer(n)
    BY <1>3, <2>1 DEF Offer, Onward, NodeTypes, WasReady
  <2>2. CASE AutoAccept(n)
    BY <1>3, <2>2 DEF AutoAccept, Onward, NodeTypes, WasReady
  <2>3. CASE BecomesReady(n)
    BY <1>3, <2>3 DEF BecomesReady, Onward, NodeTypes, WasReady
  <2>4. CASE Closes(n)
    BY <1>3, <2>4 DEF Closes, Onward, NodeTypes, WasReady
  <2> QED
    BY <1>1, <2>1, <2>2, <2>3, <2>4, Zenon
<1>5. \A d \in Provisionings : Opened(d)' = Opened(d)
  BY <1>2, Zenon DEF Opened
<1>6. ASSUME NEW d \in Provisionings
      PROVE  /\ Counted(progress'[d], Cardinality(Opened(d)')) /\ Remembered(d)'
             /\ progress'[d].pc = "provisioned" => WasReady(progress[d].result)'
  BY <1>2, <1>4, <1>5, OthersStay, Zenon
<1>7. ASSUME NEW d \in Provisionings, NEW e \in Provisionings, d # e PROVE Apart(d, e)'
  <2>1. Apart(d, e)
    BY <1>7, Zenon DEF ChannelInv
  <2>2. progress[d].pc = "provisioned" => progress[d].result \in Channels
    BY Zenon DEF ChannelInv, Remembered
  <2> QED
    BY <1>2, <1>4, <2>1, <2>2, Zenon DEF Apart, Onward, Running
<1>8. progress' \in [Provisionings -> Progress] /\ NodeTypes'
  BY <1>2, <1>4, Zenon DEF ChannelInv, Onward
<1> QED
  BY <1>6, <1>7, <1>8, Zenon DEF ChannelInv

(* A call begins: it overlaps with every call that is under way. *)
LEMMA ProvisionStep ==
  ASSUME ChannelInv, NEW c \in Provisionings, NEW ok \in BOOLEAN, EnsureProviderLiquidity(c, ok)
  PROVE  ChannelInv'
<1> DEFINE n == Cardinality(Opened(c))
<1>1. /\ progress \in [Provisionings -> Progress] /\ progress[c] \in Progress /\ n \in Nat /\ Counted(progress[c], n)
      /\ OpenChannelRetries \in Nat
  BY CallParts, Zenon
<1>2. Onward /\ \A d \in Provisionings : Opened(d)' = Opened(d)
  BY NodesRest, Zenon DEF EnsureProviderLiquidity
<1>3. n = 0
  BY <1>1 DEF Counted, EnsureProviderLiquidity
<1> HIDE DEF n
<1>4. /\ Moves(c) /\ progress'[c].pc \in {"list", "failed"}
      /\ ok => \A d \in Provisionings : d # c /\ Running(d) => {c, d} \in overlapped'
      /\ ~ok => progress'[c].pc = "failed"
      /\ overlapped \subseteq overlapped'
  <2>1. CASE ok
    <3>1. progress' = [progress EXCEPT ![c].pc = "list"]
          /\ overlapped' = overlapped \cup {{c, d} : d \in {d \in Provisionings \ {c} : Running(d)}}
      BY <2>1, Zenon DEF EnsureProviderLiquidity
    <3>2. Moves(c) /\ progress'[c].pc = "list"
      BY <1>1, <3>1 DEF Moves, Progress, Stages
    <3>3. \A d \in Provisionings : d # c /\ Running(d) => {c, d} \in overlapped'
      BY <3>1
    <3> QED
      BY <2>1, <3>1, <3>2, <3>3
  <2>2. CASE ~ok
    <3>1. progress' = [progress EXCEPT ![c] = FailedCall] /\ overlapped' = overlapped
      BY <2>2, Zenon DEF EnsureProviderLiquidity, Fail, FailedCall
    <3> QED
      BY <1>1, <2>2, <3>1, FreshTyped DEF Moves
  <2> QED
    BY <2>1, <2>2, Zenon
<1>5. Counted(progress'[c], Cardinality(Opened(c)'))
  <2>1. Cardinality(Opened(c)') = 0
    BY <1>2, <1>3, Zenon DEF n
  <2> QED
    BY ONLY <1>1, <1>4, <2>1 DEF Counted, Wanting
<1>6. Remembered(c)' /\ progress'[c].pc # "provisioned"
  BY <1>4, Zenon DEF Remembered, Wanting
<1>7. ASSUME NEW d \in Provisionings, d # c PROVE Apart(c, d)' /\ Apart(d, c)'
  <2>1. progress'[d] = progress[d] /\ {c, d} = {d, c}
    BY <1>4, <1>7 DEF Moves
  <2>2. Running(c)' /\ Running(d)' => {c, d} \in overlapped'
    BY <1>4, <1>7, <2>1 DEF Running
  <2> QED
    BY <1>4, <2>1, <2>2, Zenon DEF Apart, Wanting
<1>8. /\ \A d \in Provisionings : d # c => Opened(d)' = Opened(d)
      /\ \A d \in Provisionings : d # c => Apart(c, d)' /\ Apart(d, c)'
      /\ progress'[c].pc = "provisioned" => WasReady(progress[c].result)'
  BY <1>2, <1>6, <1>7, Zenon
<1> QED
  BY <1>2, <1>4, <1>5, <1>6, <1>8, OneMoves, Zenon

(* What is ready when a call lists the channels is remembered. *)
LEMMA ListStep ==
  ASSUME ChannelInv, NEW c \in Provisionings, ListChannels(c)
  PROVE  ChannelInv'
<1> DEFINE n == Cardinality(Opened(c))
<1>1. /\ progress \in [Provisionings -> Progress] /\ progress[c] \in Progress /\ n \in Nat /\ Counted(progress[c], n)
      /\ OpenChannelRetries \in Nat
  BY CallParts, Zenon
<1>2. /\ progress[c].pc = "list" /\ overlapped' = overlapped
      /\ progress' = [progress EXCEPT ![c].pc = "open", ![c].attempt = 1, ![c].try = 1,
                              ![c].existing = commonReadyChannelIDs]
  BY Zenon DEF ListChannels
<1>3. Onward /\ \A d \in Provisionings : Opened(d)' = Opened(d)
  BY NodesRest, Zenon DEF ListChannels
<1>4. /\ progress'[c].pc = "open" /\ progress'[c].attempt = 1
      /\ progress'[c].existing = commonReadyChannelIDs
      /\ \A d \in Provisionings : d # c => progress'[d] = progress[d]
  BY <1>1, <1>2 DEF Progress
<1>5. Moves(c)
  <2>1. commonReadyChannelIDs \subseteq Channels
    BY DEF commonReadyChannelIDs
  <2> QED
    BY <1>1, <1>2, <1>4, <2>1, Zenon DEF Moves, Progress, Stages
<1>6. n = 0 /\ Opened(c) = {}
  <2>1. n = 0
    BY <1>1, <1>2 DEF Counted
  <2> QED
    BY <2>1, OpenedNat, FS_EmptySet
<1>7. Counted(progress'[c], Cardinality(Opened(c)'))
  <2>1. Cardinality(Opened(c)') = 0
    BY <1>3, <1>6, Zenon
  <2> QED
    BY <1>4, <2>1, ChannelConst DEF Counted, Wanting
<1>8. Remembered(c)'
  <2>1. \A ch \in commonReadyChannelIDs : treasury'[ch] # "none" /\ opener'[ch] # c
    BY <1>6 DEF commonReadyChannelIDs, Opened, ListChannels, nodeVars
  <2> QED
    BY <1>4, <2>1 DEF Remembered
<1>9. ASSUME NEW d \in Provisionings, d # c PROVE Apart(c, d)' /\ Apart(d, c)'
  <2>1. progress'[d] = progress[d] /\ {c, d} = {d, c}
    BY <1>4, <1>9
  <2>2. Running(c) /\ Apart(c, d)
    BY <1>2, <1>9 DEF Running, ChannelInv
  <2>3. Running(d)' => {c, d} \in overlapped'
    BY <1>2, <2>1, <2>2, Zenon DEF Apart, Running
  <2>4. ASSUME progress'[d].pc = "provisioned"
        PROVE  progress'[d].result \in progress'[c].existing \/ treasury'[progress'[d].result] = "closed"
    <3>1. WasReady(progress[d].result) /\ progress[d].result \in Channels
      BY <2>1, <2>4, Zenon DEF ChannelInv, Remembered
    <3>2. treasury' = treasury
      BY DEF ListChannels, nodeVars
    <3> QED
      BY <1>4, <2>1, <3>1, <3>2 DEF WasReady, commonReadyChannelIDs
  <2> QED
    BY <1>4, <2>1, <2>3, <2>4, Zenon DEF Apart
<1>10. /\ \A d \in Provisionings : d # c => Apart(c, d)' /\ Apart(d, c)'
       /\ progress'[c].pc # "provisioned" /\ overlapped \subseteq overlapped'
  BY <1>2, <1>4, <1>9
<1> QED
  BY <1>3, <1>5, <1>7, <1>8, <1>10, OneMoves, Zenon

(* A channel that was not there when the call looked is ready: the call    *)
(* reports it, and no call that ended before it began has.                 *)
LEMMA ReadyStep ==
  ASSUME ChannelInv, NEW c \in Provisionings, ChannelIsReady(c)
  PROVE  ChannelInv'
<1> DEFINE n == Cardinality(Opened(c))
<1>1. /\ progress \in [Provisionings -> Progress] /\ progress[c] \in Progress /\ n \in Nat /\ Counted(progress[c], n)
      /\ Remembered(c)
  BY CallParts, Zenon
<1>2. PICK ch \in matchingReadyChannelIDExcluding(c) :
         progress' = [progress EXCEPT ![c].pc = "provisioned", ![c].result = ch]
  BY Zenon DEF ChannelIsReady
<1>3. progress[c].pc = "wait" /\ overlapped' = overlapped /\ UNCHANGED nodeVars
  BY Zenon DEF ChannelIsReady
<1>4. Onward /\ \A d \in Provisionings : Opened(d)' = Opened(d)
  BY <1>3, NodesRest, Zenon
<1>5. ch \in Channels /\ treasury[ch] = "ready" /\ provider[ch] = "ready"
  BY DEF matchingReadyChannelIDExcluding, commonReadyChannelIDs
<1>6. ch \notin progress[c].existing
  <2>1. CASE ch = progress[c].temp
    <3>1. opener[ch] = c
      BY <1>1, <1>3, <2>1, Zenon DEF Remembered
    <3> QED
      BY <1>1, <1>3, <3>1, Zenon DEF Remembered, Wanting
  <2>2. CASE ch # progress[c].temp
    BY <2>2 DEF matchingReadyChannelIDExcluding
  <2> QED
    BY <2>1, <2>2
<1>7. /\ progress'[c].pc = "provisioned" /\ progress'[c].attempt = progress[c].attempt
      /\ progress'[c].existing = progress[c].existing /\ progress'[c].result = ch
      /\ \A d \in Provisionings : d # c => progress'[d] = progress[d]
  BY <1>1, <1>2 DEF Progress
<1>8. Moves(c)
  <2>1. ch \in 0 .. MaxChannels
    BY <1>5, ChannelConst DEF Channels
  <2> QED
    BY <1>1, <1>2, <1>7, <2>1, Zenon DEF Moves, Progress, Stages
<1>9. Counted(progress'[c], Cardinality(Opened(c)'))
  <2>1. Cardinality(Opened(c)') = n
    BY <1>4, Zenon
  <2> QED
    BY <1>1, <1>3, <1>7, <2>1, Zenon DEF Counted, Wanting
<1>10. Remembered(c)'
  BY <1>5, <1>6, <1>7 DEF Remembered, Wanting
<1>11. WasReady(progress[c].result)'
  <2>1. treasury'[ch] = "ready" /\ provider'[ch] = "ready"
    BY <1>3, <1>5 DEF nodeVars
  <2> QED
    BY <1>7, <2>1, Zenon DEF WasReady
<1>12. ASSUME NEW d \in Provisionings, d # c PROVE Apart(c, d)' /\ Apart(d, c)'
  <2>1. progress'[d] = progress[d] /\ {c, d} = {d, c}
    BY <1>7, <1>12
  <2>2. Running(c) /\ Apart(c, d) /\ Apart(d, c)
    BY <1>3, <1>12 DEF Running, ChannelInv
  <2>3. Running(d) => {c, d} \in overlapped
    BY <2>2, Zenon DEF Apart
  <2>4. ASSUME progress[d].pc = "provisioned", {c, d} \notin overlapped PROVE progress[d].result # ch
    <3>1. progress[d].result \in progress[c].existing \/ treasury[progress[d].result] = "closed"
      BY <1>3, <2>1, <2>2, <2>4, Zenon DEF Apart, Wanting
    <3> QED
      BY <1>5, <1>6, <3>1
  <2>5. progress[d].pc \in Wanting => Running(d)
    BY DEF Wanting, Running
  <2>6. ~ Running(c)'
    BY <1>7 DEF Running
  <2>7. Apart(c, d)'
    BY <1>3, <1>7, <2>1, <2>3, <2>4, <2>5, <2>6, Zenon DEF Apart
  <2>8. Apart(d, c)'
    BY <1>3, <1>7, <2>1, <2>4, <2>6, Zenon DEF Apart, Wanting
  <2> QED
    BY <2>7, <2>8
<1>13. /\ \A d \in Provisionings : d # c => Apart(c, d)' /\ Apart(d, c)'
       /\ overlapped \subseteq overlapped'
  BY <1>3, <1>12
<1> QED
  BY <1>4, <1>8, <1>9, <1>10, <1>11, <1>13, OneMoves, Zenon

(* The channel that is opened next has no opener yet. *)
LEMMA NextIsFree ==
  ASSUME ChannelInv, \E ch \in Channels : treasury[ch] = "none"
  PROVE  NextChannel \in Channels /\ treasury[NextChannel] = "none" /\ opener[NextChannel] = NoOne
<1> DEFINE S == {ch \in Channels : treasury[ch] = "none"}
<1>1. S \in SUBSET Nat /\ S # {}
  BY ChannelConst DEF Channels
<1> HIDE DEF S
<1>2. \E x \in S : \A y \in S : x <= y
  BY <1>1, LeastMember, Zenon
<1>3. Min(S) \in S
  BY <1>2, Zenon DEF Min
<1>4. NextChannel = Min(S)
  BY Zenon DEF NextChannel, S
<1>5. NextChannel \in Channels /\ treasury[NextChannel] = "none"
  BY <1>3, <1>4 DEF S
<1> QED
  BY <1>5 DEF ChannelInv, NodeTypes

(* A channel is opened for the attempt the call is in. *)
LEMMA OpenStep ==
  ASSUME ChannelInv, NEW c \in Provisionings, NEW answered \in BOOLEAN, OpenChannel(c, answered)
  PROVE  ChannelInv'
<1> DEFINE n == Cardinality(Opened(c))
           new == NextChannel
<1>1. /\ progress \in [Provisionings -> Progress] /\ progress[c] \in Progress /\ n \in Nat /\ Counted(progress[c], n)
      /\ progress[c].attempt \in Nat /\ OpenChannelRetries \in Nat
  BY CallParts, Zenon
<1>2. new \in Channels /\ treasury[new] = "none" /\ opener[new] = NoOne
  BY NextIsFree, Zenon DEF OpenChannel
<1>3. /\ progress[c].pc = "open" /\ overlapped' = overlapped /\ provider' = provider
      /\ treasury' = [treasury EXCEPT ![new] = "opened"]
      /\ opener' = [opener EXCEPT ![new] = c]
  BY Zenon DEF OpenChannel
<1>4. /\ answered => progress' = [progress EXCEPT ![c].pc = "accept", ![c].temp = new, ![c].try = 1]
      /\ ~answered => Fail(c)
  BY Zenon DEF OpenChannel
<1> HIDE DEF new
<1>5. NodeTypes
  BY DEF ChannelInv
<1>6. Onward
  BY <1>2, <1>3, <1>5, Zenon DEF Onward, NodeTypes, WasReady
<1>7. ASSUME NEW d \in Provisionings, d # c PROVE Opened(d)' = Opened(d)
  BY <1>2, <1>3, <1>5, <1>7, ChannelConst, Zenon DEF Opened, NodeTypes
<1>8. Opened(c)' = Opened(c) \cup {new} /\ new \notin Opened(c)
  BY <1>2, <1>3, <1>5, ChannelConst, Zenon DEF Opened, NodeTypes
<1>9. Cardinality(Opened(c)') = n + 1
  BY <1>8, OpenedNat, FS_AddElement
<1>10. n + 1 = progress[c].attempt /\ n + 1 <= OpenChannelRetries /\ progress[c].pc \in Wanting
  BY <1>1, <1>3 DEF Counted, Wanting
<1>11. Running(c)
  BY <1>3, Zenon DEF Running
<1>12. \A d \in Provisionings : d # c => Opened(d)' = Opened(d)
  BY <1>7, Zenon
<1>13. CASE ~answered
  <2>1. Cardinality(Opened(c)') <= OpenChannelRetries
    BY <1>9, <1>10
  <2> QED
    BY <1>3, <1>4, <1>6, <1>11, <1>12, <1>13, <2>1, FailStep, Zenon
<1>14. CASE answered
  <2>1. /\ progress'[c].pc = "accept" /\ progress'[c].attempt = progress[c].attempt /\ progress'[c].temp = new
        /\ progress'[c].existing = progress[c].existing
        /\ \A d \in Provisionings : d # c => progress'[d] = progress[d]
    BY <1>1, <1>4, <1>14 DEF Progress
  <2>2. Moves(c)
    <3>1. new \in 0 .. MaxChannels
      BY <1>2, ChannelConst DEF Channels
    <3> QED
      BY <1>1, <1>4, <1>14, <2>1, <3>1 DEF Moves, Progress, Stages
  <2>3. Counted(progress'[c], Cardinality(Opened(c)'))
    BY <1>1, <1>9, <1>10, <2>1, Zenon DEF Counted, Wanting
  <2>4. progress'[c].temp \in Channels /\ opener'[progress'[c].temp] = c
    BY <1>2, <1>3, <1>5, <2>1, Zenon DEF NodeTypes
  <2>5. progress'[c].pc # "provisioned"
    BY <2>1
  <2> QED
    BY <1>3, <1>6, <1>10, <1>11, <1>12, <2>1, <2>2, <2>3, <2>4, <2>5, Proceeds, Zenon
<1> QED
  BY <1>13, <1>14

(* A step within an attempt that opens nothing. *)
LEMMA SameCount ==
  ASSUME ChannelInv, Onward, NEW c \in Provisionings, Running(c), Moves(c), overlapped' = overlapped,
         \A d \in Provisionings : Opened(d)' = Opened(d),
         progress'[c].pc = progress[c].pc \/ (progress[c].pc = "accept" /\ progress'[c].pc = "wait"),
         progress'[c].attempt = progress[c].attempt, progress'[c].existing = progress[c].existing,
         progress'[c].temp = progress[c].temp
  PROVE  ChannelInv'
<1> DEFINE n == Cardinality(Opened(c))
<1>1. /\ n \in Nat /\ Counted(progress[c], n) /\ Remembered(c) /\ progress[c] \in Progress
  BY CallParts, Zenon
<1>2. Cardinality(Opened(c)') = n
  BY Zenon
<1> HIDE DEF n
<1>3. Counted(progress'[c], n)
  BY <1>1, Zenon DEF Counted, Wanting
<1>4. progress'[c].pc # "provisioned" /\ (progress'[c].pc \in Wanting => progress[c].pc \in Wanting)
  BY Zenon DEF Running, Wanting
<1>5. ASSUME progress'[c].pc \in {"accept", "wait"}
      PROVE  progress'[c].temp \in Channels /\ opener'[progress'[c].temp] = c
  <2>1. progress[c].temp \in Channels /\ opener[progress[c].temp] = c
    BY <1>1, <1>5, Zenon DEF Remembered
  <2>2. treasury[progress[c].temp] # "none"
    BY <2>1, ChannelConst, Zenon DEF ChannelInv, NodeTypes
  <2> QED
    BY <2>1, <2>2, Zenon DEF Onward
<1> QED
  BY <1>2, <1>3, <1>4, <1>5, Proceeds, Zenon

(* The provider accepts the channel that was offered. *)
LEMMA AcceptStep ==
  ASSUME ChannelInv, NEW c \in Provisionings, AcceptChannel(c)
  PROVE  ChannelInv'
<1>1. /\ progress \in [Provisionings -> Progress] /\ progress[c] \in Progress /\ Counted(progress[c], Cardinality(Opened(c)))
      /\ Remembered(c)
  BY CallParts, Zenon
<1>2. /\ progress[c].pc = "accept" /\ overlapped' = overlapped /\ treasury' = treasury /\ opener' = opener
      /\ provider[progress[c].temp] = "offered"
      /\ provider' = [provider EXCEPT ![progress[c].temp] = "awaiting"]
      /\ \/ progress' = [progress EXCEPT ![c].pc = "wait", ![c].try = 0]
         \/ ProvisionAgain(c) \/ Fail(c)
  BY Zenon DEF AcceptChannel
<1>3. Onward
  <2>1. NodeTypes
    BY DEF ChannelInv
  <2> QED
    BY <1>2, <2>1, Zenon DEF Onward, NodeTypes, WasReady
<1>4. \A d \in Provisionings : Opened(d)' = Opened(d)
  BY <1>2, Zenon DEF Opened
<1>5. Running(c) /\ progress[c].pc \in {"accept", "wait"}
  BY <1>2 DEF Running
<1>6. CASE progress' = [progress EXCEPT ![c].pc = "wait", ![c].try = 0]
  <2>1. /\ progress'[c].pc = "wait" /\ progress'[c].attempt = progress[c].attempt
        /\ progress'[c].existing = progress[c].existing /\ progress'[c].temp = progress[c].temp
        /\ \A d \in Provisionings : d # c => progress'[d] = progress[d]
    BY <1>1, <1>6 DEF Progress
  <2>2. Moves(c)
    BY <1>1, <1>6, <2>1, Zenon DEF Moves, Progress, Stages
  <2> QED
    BY <1>2, <1>3, <1>4, <1>5, <2>1, <2>2, SameCount, Zenon
<1>7. CASE ProvisionAgain(c)
  BY <1>2, <1>3, <1>4, <1>5, <1>7, AgainStep, Zenon
<1>8. CASE Fail(c)
  <2>1. Cardinality(Opened(c)') <= OpenChannelRetries
    BY <1>1, <1>4, Zenon DEF Counted
  <2> QED
    BY <1>2, <1>3, <1>4, <1>5, <1>8, <2>1, FailStep, Zenon
<1> QED
  BY <1>2, <1>6, <1>7, <1>8

(* Steps that change neither channels nor what the call has opened. *)
LEMMA QuietStep ==
  ASSUME ChannelInv, NEW c \in Provisionings, UNCHANGED nodeVars, overlapped' = overlapped,
         \/ openProviderSettlementChannelWithRetry(c)
         \/ acceptProviderSettlementChannelWithRetry(c)
         \/ waitForProviderSettlementChannelReady(c)
         \/ Deadline(c) \/ ReturnExpired(c)
  PROVE  ChannelInv'
<1>1. /\ progress \in [Provisionings -> Progress] /\ progress[c] \in Progress /\ Counted(progress[c], Cardinality(Opened(c)))
  BY CallParts, Zenon
<1>2. Onward /\ \A d \in Provisionings : Opened(d)' = Opened(d)
  BY NodesRest, Zenon
<1>3. Running(c)
  BY DEF Running, openProviderSettlementChannelWithRetry, acceptProviderSettlementChannelWithRetry,
         waitForProviderSettlementChannelReady, Deadline, ReturnExpired
<1>4. CASE Fail(c)
  <2>1. Cardinality(Opened(c)') <= OpenChannelRetries
    BY <1>1, <1>2, Zenon DEF Counted
  <2> QED
    BY <1>2, <1>3, <1>4, <2>1, FailStep, Zenon
<1>5. CASE progress[c].pc \in {"accept", "wait"} /\ ProvisionAgain(c)
  BY <1>2, <1>5, AgainStep, Zenon
<1>6. CASE progress' = [progress EXCEPT ![c].try = @ + 1] \/ progress' = [progress EXCEPT ![c].expired = TRUE]
  <2>1. /\ progress'[c].pc = progress[c].pc /\ progress'[c].attempt = progress[c].attempt
        /\ progress'[c].existing = progress[c].existing /\ progress'[c].temp = progress[c].temp
        /\ \A d \in Provisionings : d # c => progress'[d] = progress[d]
    BY <1>1, <1>6 DEF Progress
  <2>2. Moves(c)
    <3>1. progress[c].try + 1 \in Nat
      <4>1. progress[c].try \in Nat
        BY CallParts, Zenon
      <4> QED
        BY ONLY <4>1
    <3>2. progress'[c] \in Progress
      <4>1. CASE progress' = [progress EXCEPT ![c].try = @ + 1]
        BY <1>1, <3>1, <4>1 DEF Progress
      <4>2. CASE progress' = [progress EXCEPT ![c].expired = TRUE]
        BY <1>1, <4>2, Zenon DEF Progress
      <4> QED
        BY <1>6, <4>1, <4>2
    <3>3. progress' \in [Provisionings -> Progress]
      BY <1>1, <1>6, <3>2
    <3> QED
      BY <2>1, <3>3 DEF Moves
  <2> QED
    BY <1>2, <1>3, <2>1, <2>2, SameCount, Zenon
<1> QED
  BY <1>4, <1>5, <1>6 DEF openProviderSettlementChannelWithRetry, acceptProviderSettlementChannelWithRetry,
         waitForProviderSettlementChannelReady, Deadline, ReturnExpired

(* A call that reuses a channel has opened none. *)
LEMMA ReuseStep ==
  ASSUME ChannelInv, NEW c \in Provisionings, ReuseChannel(c)
  PROVE  ChannelInv'
<1>1. /\ progress \in [Provisionings -> Progress] /\ progress[c] \in Progress /\ Counted(progress[c], Cardinality(Opened(c)))
  BY CallParts, Zenon
<1>2. PICK ch \in commonReadyChannelIDs :
         progress' = [progress EXCEPT ![c] = [Fresh EXCEPT !.pc = "reused", !.result = ch]]
  BY Zenon DEF ReuseChannel
<1>3. progress[c].pc = "list" /\ overlapped' = overlapped /\ UNCHANGED nodeVars
  BY Zenon DEF ReuseChannel
<1>4. Onward /\ \A d \in Provisionings : Opened(d)' = Opened(d)
  BY <1>3, NodesRest, Zenon
<1>5. ch \in 0 .. MaxChannels
  BY ChannelConst DEF commonReadyChannelIDs, Channels
<1>6. progress'[c].pc = "reused" /\ Moves(c)
  BY <1>1, <1>2, <1>5, FreshTyped, Zenon DEF Moves, Fresh, Progress, Stages
<1>7. Counted(progress'[c], Cardinality(Opened(c)'))
  <2>1. Cardinality(Opened(c)') = Cardinality(Opened(c))
    BY <1>4, Zenon
  <2> QED
    BY <1>1, <1>3, <1>6, <2>1, Zenon DEF Counted, Wanting
<1>8. Running(c) /\ progress'[c].pc # "provisioned" /\ progress'[c].pc \notin Wanting
      /\ progress'[c].pc \notin {"accept", "wait"}
  BY <1>3, <1>6 DEF Running, Wanting
<1> QED
  BY <1>3, <1>4, <1>6, <1>7, <1>8, Proceeds, Zenon

(* Every step keeps the invariant. *)
LEMMA ChannelSteps == ChannelInv /\ [ChannelNext]_channelVars => ChannelInv'
<1> SUFFICES ASSUME ChannelInv, [ChannelNext]_channelVars PROVE ChannelInv'
  OBVIOUS
<1>1. CASE UNCHANGED channelVars
  <2>1. UNCHANGED nodeVars /\ progress' = progress /\ overlapped' = overlapped
    BY <1>1 DEF channelVars, nodeVars
  <2>2. /\ NodeTypes' = NodeTypes /\ \A c : Remembered(c)' = Remembered(c)
        /\ \A ch : WasReady(ch)' = WasReady(ch)
        /\ \A c, d : Apart(c, d)' = Apart(c, d)
        /\ \A c : Opened(c)' = Opened(c)
    BY <2>1, Zenon DEF nodeVars, NodeTypes, Remembered, WasReady, Apart, Running, Opened
  <2> QED
    BY <2>1, <2>2, Zenon DEF ChannelInv
<1>2. CASE Nodes
  BY <1>2, NodesStep, Zenon
<1>3. ASSUME NEW c \in Provisionings, \E ok \in BOOLEAN : EnsureProviderLiquidity(c, ok) PROVE ChannelInv'
  BY <1>3, ProvisionStep, Zenon
<1>4. ASSUME NEW c \in Provisionings, \E answered \in BOOLEAN : OpenChannel(c, answered) PROVE ChannelInv'
  BY <1>4, OpenStep, Zenon
<1>5. ASSUME NEW c \in Provisionings,
             \/ openProviderSettlementChannelWithRetry(c)
             \/ acceptProviderSettlementChannelWithRetry(c)
             \/ waitForProviderSettlementChannelReady(c)
             \/ Deadline(c) \/ ReturnExpired(c)
      PROVE  ChannelInv'
  <2>1. UNCHANGED nodeVars /\ overlapped' = overlapped
    BY <1>5, Zenon DEF openProviderSettlementChannelWithRetry, acceptProviderSettlementChannelWithRetry,
         waitForProviderSettlementChannelReady, Deadline, ReturnExpired
  <2> QED
    BY <1>5, <2>1, QuietStep, Zenon
<1>6. ASSUME NEW c \in Provisionings, Advance(c) PROVE ChannelInv'
  BY <1>4, <1>5, <1>6, ReuseStep, ListStep, AcceptStep, ReadyStep, Zenon DEF Advance
<1> QED
  BY <1>1, <1>2, <1>3, <1>5, <1>6, Zenon DEF ChannelNext

(* A provisioning call that reports a new channel opened one channel in    *)
(* each of its attempts, reports one that was not there when it looked,    *)
(* and shares it with no call it did not overlap with                      *)
(* (EnsureProviderLiquidity).                                              *)
THEOREM ReportedIsFunded == ChannelSpec => []FundedIsNew
<1>1. ChannelInv => FundedIsNew
  <2> SUFFICES ASSUME ChannelInv PROVE FundedIsNew
    OBVIOUS
  <2>1. ASSUME NEW c \in Provisionings
        PROVE  /\ Cardinality(Opened(c)) <= OpenChannelRetries
               /\ c \in Provisioned => Cardinality(Opened(c)) = progress[c].attempt
               /\ progress[c].pc = "reused" => Opened(c) = {}
    <3>1. Counted(progress[c], Cardinality(Opened(c)))
      BY CallParts, Zenon
    <3>2. Cardinality(Opened(c)) = 0 => Opened(c) = {}
      BY OpenedNat, FS_EmptySet
    <3> QED
      BY <3>1, <3>2, Zenon DEF Counted, Provisioned
  <2>2. ASSUME NEW c \in Provisioned, NEW d \in Provisioned
        PROVE  /\ progress[c].result \notin progress[c].existing
               /\ c # d /\ progress[c].result = progress[d].result => {c, d} \in overlapped
    <3>1. c \in Provisionings /\ d \in Provisionings /\ progress[c].pc = "provisioned" /\ progress[d].pc = "provisioned"
      BY DEF Provisioned
    <3>2. Remembered(c) /\ (c # d => Apart(c, d))
      BY <3>1, Zenon DEF ChannelInv
    <3> QED
      BY <3>1, <3>2, Zenon DEF Remembered, Apart
  <2> QED
    BY <2>1, <2>2, Zenon DEF FundedIsNew, ReportedIsOpened, NewChannelIsNew
<1> QED
  BY <1>1, ChannelStart, ChannelSteps, PTL DEF ChannelSpec
=============================================================================
