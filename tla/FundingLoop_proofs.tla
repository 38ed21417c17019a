------------------------- MODULE FundingLoop_proofs -------------------------
(***************************************************************************)
(* The wallet of the self-funding loop, for every policy, price and number *)
(* of payments, swaps and transfers: what the log holds of a window stays  *)
(* within the daily cap, a top-up breaches the floor only by what left the *)
(* reserve meanwhile, and the wallet keeps its gas money.                  *)
(***************************************************************************)
EXTENDS FundingLoop, Sums_proofs

Leg == {"swap", "swapping", "bridge", "poll", "deposit", "record"}
Sent == {"swapping", "bridge", "poll", "deposit", "record"}

Logs == IsFiniteSet(log) /\ IsFiniteSet(spends) /\ IsFiniteSet(tick.next)

\* The log has room for what the tick is spending.
RoomInCap ==
  /\ Total(Recent(log, clock)) <= DailyCap
  /\ pc # "idle" => tick.now <= clock
  /\ pc \in Leg => Total(Recent(log, tick.now)) + tick.amount <= DailyCap
  /\ pc = "write" => Total(tick.next) <= DailyCap

\* The gas money is neither in the balance the tick started from nor in what it deposits.
GasAside ==
  /\ GasMoneyKept
  /\ pc = "poll" => tick.ogBefore >= GasFloat
  /\ pc = "deposit" => tick.ogDelta + GasFloat <= ogWallet

\* While the tick waits for its swap, the swap is the last of the wallet's transactions.
SwapIsLast ==
  pc = "swapping" /\ mempool # <<>> =>
    mempool[Len(mempool)].kind = "swap" /\ mempool[Len(mempool)].amount = tick.amount

\* What the reserve held when the tick read it covers the floor and the top-up.
FloorCovered ==
  pc \in {"swap", "swapping"} => reserve + outflow >= Floor + tick.amount

SwapWasSent == pc \in Sent => swaps >= 1

FundInv ==
  TypeOK /\ Logs /\ RoomInCap /\ GasAside /\ SwapIsLast /\ FloorCovered /\ SwapWasSent

---------------------------------------------------------------------------
\* Totals of entries.

LEMMA AmountsType ==
  ASSUME NEW S \in SUBSET Entry
  PROVE  [e \in S |-> e.amount] \in [S -> Nat]
BY DEF Entry

LEMMA TotalIsNat ==
  ASSUME NEW S \in SUBSET Entry, IsFiniteSet(S)
  PROVE  Total(S) \in Nat
BY AmountsType, SumIsNat DEF Total

LEMMA TotalMonotone ==
  ASSUME NEW T \in SUBSET Entry, IsFiniteSet(T), NEW S \in SUBSET T
  PROVE  Total(S) <= Total(T)
<1> DEFINE s == [e \in S |-> e.amount]
           t == [e \in T |-> e.amount]
<1>1. IsFiniteSet(Units(t))
  BY AmountsType, UnitsFinite
<1>2. Units(s) \in SUBSET Units(t)
  BY DEF Units
<1> QED BY <1>1, <1>2, FS_Subset DEF Total, SumOf

LEMMA TotalUnion ==
  ASSUME NEW S \in SUBSET Entry, IsFiniteSet(S), NEW T \in SUBSET Entry, IsFiniteSet(T)
  PROVE  Total(S \cup T) <= Total(S) + Total(T)
<1> DEFINE s == [e \in S |-> e.amount]
           t == [e \in T |-> e.amount]
           u == [e \in S \cup T |-> e.amount]
<1>1. IsFiniteSet(Units(s)) /\ IsFiniteSet(Units(t))
  BY AmountsType, UnitsFinite
<1>2. Units(u) = Units(s) \cup Units(t)
  BY DEF Units
<1>3. /\ Cardinality(Units(s) \cup Units(t)) =
           Cardinality(Units(s)) + Cardinality(Units(t)) - Cardinality(Units(s) \cap Units(t))
      /\ Cardinality(Units(s) \cap Units(t)) \in Nat
      /\ Cardinality(Units(s)) \in Nat /\ Cardinality(Units(t)) \in Nat
  BY <1>1, FS_Union, FS_Intersection, FS_CardinalityType
<1>4. Total(S \cup T) = Cardinality(Units(u)) /\ Total(S) = Cardinality(Units(s))
      /\ Total(T) = Cardinality(Units(t))
  BY DEF Total, SumOf
<1> HIDE DEF s, t, u
<1> QED BY <1>2, <1>3, <1>4

LEMMA TotalOfOne ==
  ASSUME NEW e \in Entry
  PROVE  Total({e}) = e.amount /\ IsFiniteSet({e})
<1> DEFINE one == [x \in {e} |-> x.amount]
<1>1. IsFiniteSet({e})
  BY FS_Singleton
<1>2. one \in [{e} -> Nat] /\ one[e] = e.amount
  BY AmountsType
<1>3. SumOf(one) = one[e]
  BY <1>1, <1>2, SumOfOne
<1> QED BY <1>1, <1>2, <1>3 DEF Total

\* Entries only leave a window as time goes on.
LEMMA RecentShrinks ==
  ASSUME NEW S \in SUBSET Entry, NEW m \in Nat, NEW n \in Nat, m <= n
  PROVE  Recent(S, n) \in SUBSET Recent(S, m) /\ Recent(S, m) \in SUBSET S
BY FundingAssumption DEF Recent, Entry

LEMMA RecentIsFinite ==
  ASSUME NEW S \in SUBSET Entry, IsFiniteSet(S), NEW n \in Nat
  PROVE  /\ Recent(S, n) \in SUBSET Entry /\ IsFiniteSet(Recent(S, n))
         /\ Total(Recent(S, n)) \in Nat /\ Total(Recent(S, n)) <= Total(S)
<1>1. Recent(S, n) \in SUBSET S
  BY DEF Recent
<1>2. IsFiniteSet(Recent(S, n))
  BY <1>1, FS_Subset
<1> QED BY <1>1, <1>2, TotalIsNat, TotalMonotone

LEMMA TotalOfRecent ==
  ASSUME NEW S \in SUBSET Entry, IsFiniteSet(S), NEW m \in Nat, NEW n \in Nat, m <= n
  PROVE  Total(Recent(S, n)) <= Total(Recent(S, m))
BY RecentShrinks, RecentIsFinite, TotalMonotone

LEMMA EmptyTotal == Total({}) = 0 /\ IsFiniteSet({}) /\ \A n : Recent({}, n) = {}
<1>1. [e \in {} |-> e.amount] \in [{} -> Nat]
  OBVIOUS
<1>2. Total({}) = 0
  BY <1>1, SumOfZeros DEF Total
<1> QED BY <1>2, FS_EmptySet DEF Recent

\* The slice is part of the payment.
LEMMA NetIsNat == Net(Price) \in Nat
<1>1. Price \in Nat /\ SliceBps \in Nat /\ SliceBps <= 10000
  BY FundingAssumption
<1>2. Price * SliceBps \in Nat /\ Price * SliceBps <= Price * 10000
  BY <1>1
<1> DEFINE p == Price * SliceBps
<1>3. p \in Nat /\ p <= Price * 10000
  BY <1>2
<1> HIDE DEF p
<1>4. p \div 10000 \in Nat /\ p \div 10000 <= Price
  BY <1>1, <1>3
<1> QED BY <1>1, <1>4 DEF Net, ComputeSlice, p

\* The decision respects the day's cap and the floor.
LEMMA DecisionBounded ==
  ASSUME NEW l \in Nat, NEW r \in Nat, NEW s \in Nat, DecideTopup(l, r, s) > 0
  PROVE  /\ DecideTopup(l, r, s) \in Nat
         /\ s + DecideTopup(l, r, s) <= DailyCap
         /\ Floor + DecideTopup(l, r, s) <= r
BY FundingAssumption DEF DecideTopup, SmallerOf, LargerOf

---------------------------------------------------------------------------
\* TypeOK in two parts.
NumbersOK ==
  /\ clock \in Nat /\ ledger \in Nat /\ reserve \in Nat /\ eth \in Nat /\ ogWallet \in Nat
  /\ unforwarded \in Nat /\ calls \in Nat /\ swaps \in Nat /\ outflow \in Nat

RecordsOK ==
  /\ mempool \in Seq(Tx) /\ transit \in SUBSET [id : Nat, amount : Nat]
  /\ log \in SUBSET Entry /\ spends \in SUBSET Entry
  /\ tick \in Tick
  /\ pc \in {"idle", "swap", "swapping", "bridge", "poll", "deposit", "record", "write"}

LEMMA TypeParts == TypeOK <=> NumbersOK /\ RecordsOK
BY DEF TypeOK, NumbersOK, RecordsOK

LEMMA TypePartsNext == TypeOK' <=> NumbersOK' /\ RecordsOK'
BY DEF TypeOK, NumbersOK, RecordsOK

LEMMA TickFields ==
  ASSUME NEW t \in Tick
  PROVE  /\ t.now \in Nat /\ t.amount \in Nat /\ t.ethBefore \in Nat /\ t.ethOut \in Nat
         /\ t.ogBefore \in Nat /\ t.ogDelta \in Nat /\ t.next \in SUBSET Entry
BY DEF Tick

LEMMA HeadAndTail ==
  ASSUME RecordsOK, mempool # <<>>
  PROVE  /\ Head(mempool).id \in Nat /\ Head(mempool).ts \in Nat /\ Head(mempool).amount \in Nat
         /\ Tail(mempool) \in Seq(Tx)
<1>1. mempool \in Seq(Tx)
  BY DEF RecordsOK
<1>2. Head(mempool) \in Tx /\ Tail(mempool) \in Seq(Tx)
  BY <1>1
<1> QED BY <1>2 DEF Tx

LEMMA InitFund == Init => FundInv
<1> SUFFICES ASSUME Init PROVE FundInv OBVIOUS
<1>1. NumbersOK
  BY FundingAssumption DEF Init, NumbersOK
<1>2. IdleTick \in Tick
  BY DEF IdleTick, Tick
<1>3. RecordsOK
  BY <1>2 DEF Init, RecordsOK
<1>4. log = {} /\ spends = {} /\ pc = "idle" /\ tick.next = {}
  BY DEF Init, IdleTick
<1>5. Total({}) = 0 /\ IsFiniteSet({}) /\ Recent({}, clock) = {} /\ DailyCap \in Nat
  BY EmptyTotal, FundingAssumption
<1>6. Logs /\ RoomInCap
  BY <1>4, <1>5 DEF Logs, RoomInCap, Leg
<1>7. GasAside /\ SwapIsLast /\ FloorCovered /\ SwapWasSent
  BY FundingAssumption DEF Init, GasAside, GasMoneyKept, SwapIsLast, FloorCovered, SwapWasSent, Sent
<1> QED BY <1>1, <1>3, <1>6, <1>7, TypeParts DEF FundInv

\* What Check puts into the tick.
LEMMA Decided ==
  ASSUME FundInv, Check
  PROVE  /\ tick' \in Tick /\ tick'.now = clock /\ tick'.next = {}
         /\ SpentToday(clock) + tick'.amount <= DailyCap
         /\ Floor + tick'.amount <= reserve
         /\ pc' = "swap" /\ outflow' = 0
         /\ UNCHANGED <<clock, ledger, reserve, eth, mempool, transit, ogWallet, log,
                        unforwarded, calls, swaps, spends>>
<1>0. NumbersOK /\ RecordsOK /\ Logs
  BY TypeParts DEF FundInv
<1>1. PICK ledgerOg \in {ledger, 0} :
        LET amount == DecideTopup(ledgerOg, reserve, SpentToday(clock))
        IN amount > 0 /\ tick' = [IdleTick EXCEPT !.now = clock, !.amount = amount]
  BY DEF Check
<1>2. SpentToday(clock) \in Nat /\ ledgerOg \in Nat /\ reserve \in Nat /\ clock \in Nat
  <2>1. ledgerOg \in Nat /\ reserve \in Nat /\ clock \in Nat
    BY <1>0 DEF NumbersOK
  <2>2. log \in SUBSET Entry /\ IsFiniteSet(log)
    BY <1>0 DEF RecordsOK, Logs
  <2> QED BY <2>1, <2>2, RecentIsFinite DEF SpentToday
<1> DEFINE amount == DecideTopup(ledgerOg, reserve, SpentToday(clock))
<1>3. amount > 0 /\ tick' = [IdleTick EXCEPT !.now = clock, !.amount = amount]
  BY <1>1
<1>4. /\ amount \in Nat
      /\ SpentToday(clock) + amount <= DailyCap
      /\ Floor + amount <= reserve
  BY <1>2, <1>3, DecisionBounded
<1> HIDE DEF amount
<1>5. /\ tick'.now = clock /\ tick'.next = {} /\ tick'.amount = amount
      /\ tick' \in Tick
  BY <1>2, <1>3, <1>4 DEF IdleTick, Tick
<1> QED BY <1>4, <1>5 DEF Check, wallet

LEMMA NumbersStep ==
  ASSUME FundInv, [Next]_vars
  PROVE  NumbersOK'
<1>0. NumbersOK /\ RecordsOK
  BY TypeParts DEF FundInv
<1>1. CASE Pay
  BY <1>0, <1>1, FundingAssumption DEF Pay, NumbersOK
<1>2. CASE ForwardNet
  BY <1>0, <1>2, NetIsNat DEF ForwardNet, CountOutflow, NumbersOK
<1>3. CASE Infer \/ PassTime
  BY <1>0, <1>3 DEF Infer, PassTime, wallet, NumbersOK
<1>4. CASE MineSwap
  <2> DEFINE amount == Head(mempool).amount
  <2>1. mempool # <<>>
    BY <1>4 DEF MineSwap
  <2>2. amount \in Nat
    BY <1>0, <2>1, HeadAndTail
  <2>3. /\ amount <= reserve /\ reserve' = reserve - amount /\ eth' = eth + amount
        /\ outflow' = 0 \/ outflow' = outflow + amount
        /\ UNCHANGED <<clock, ledger, ogWallet, unforwarded, calls, swaps>>
    BY <1>4 DEF MineSwap, CountOutflow
  <2> HIDE DEF amount
  <2> QED BY <1>0, <2>2, <2>3 DEF NumbersOK
<1>5. CASE MineBridge
  <2>1. mempool # <<>>
    BY <1>5 DEF MineBridge
  <2> QED BY <1>0, <1>5, <2>1, HeadAndTail DEF MineBridge, NumbersOK
<1>6. CASE MineReverted \/ SeeSwap \/ SendBridge \/ SeeArrival
  BY <1>0, <1>6 DEF MineReverted, SeeSwap, SendBridge, SeeArrival, wallet, NumbersOK
<1>7. CASE Arrive
  <2>1. PICK transfer \in transit : ogWallet' = ogWallet + transfer.amount
    BY <1>7 DEF Arrive
  <2>2. transfer.amount \in Nat
    BY <1>0 DEF RecordsOK
  <2> QED BY <1>0, <1>7, <2>1, <2>2 DEF Arrive, NumbersOK
<1>8. CASE Check
  BY <1>0, <1>8, Decided DEF NumbersOK
<1>9. CASE SendSwap
  BY <1>0, <1>9 DEF SendSwap, NumbersOK
<1>10. CASE Deposit
  <2>1. tick.ogDelta \in Nat /\ tick.ogDelta + GasFloat <= ogWallet
    BY <1>0, <1>10, TickFields DEF Deposit, RecordsOK, FundInv, GasAside
  <2>2. ogWallet' \in Nat /\ ledger' \in Nat
    BY <1>0, <1>10, <2>1, FundingAssumption DEF Deposit, NumbersOK
  <2> QED BY <1>0, <1>10, <2>2 DEF Deposit, NumbersOK
<1>11. CASE BeginWrite \/ EndWrite \/ Abort
  BY <1>0, <1>11 DEF BeginWrite, EndWrite, Abort, EndTick, wallet, NumbersOK
<1>12. CASE UNCHANGED vars
  BY <1>0, <1>12 DEF vars, wallet, NumbersOK
<1> QED BY <1>1, <1>2, <1>3, <1>4, <1>5, <1>6, <1>7, <1>8, <1>9, <1>10, <1>11, <1>12 DEF Next

\* The entry that a tick records.
LEMMA EntryType ==
  ASSUME FundInv, BeginWrite
  PROVE  /\ [id |-> swaps - 1, ts |-> tick.now, amount |-> tick.amount] \in Entry
         /\ Recent(log, tick.now) \in SUBSET Entry
         /\ tick'.next = Recent(log, tick.now) \cup
              {[id |-> swaps - 1, ts |-> tick.now, amount |-> tick.amount]}
         /\ tick'.now = tick.now /\ tick' \in Tick
<1>0. NumbersOK /\ RecordsOK
  BY TypeParts DEF FundInv
<1>1. swaps - 1 \in Nat
  BY <1>0 DEF NumbersOK, BeginWrite, FundInv, SwapWasSent, Sent
<1>2. tick \in Tick /\ tick.now \in Nat /\ tick.amount \in Nat
  BY <1>0, TickFields DEF RecordsOK
<1> DEFINE e == [id |-> swaps - 1, ts |-> tick.now, amount |-> tick.amount]
           next == Recent(log, tick.now) \cup {e}
<1>3. e \in Entry
  BY <1>1, <1>2 DEF Entry
<1>4. Recent(log, tick.now) \in SUBSET Entry
  BY <1>0 DEF RecordsOK, Recent
<1>5. tick' = [tick EXCEPT !.next = next]
  BY DEF BeginWrite
<1>6. next \in SUBSET Entry
  BY <1>3, <1>4
<1> HIDE DEF e, next
<1>7. tick'.next = next /\ tick'.now = tick.now /\ tick' \in Tick
  BY <1>2, <1>5, <1>6 DEF Tick
<1> QED BY <1>3, <1>4, <1>7 DEF e, next

LEMMA MempoolStep ==
  ASSUME FundInv, [Next]_vars
  PROVE  mempool' \in Seq(Tx)
<1>0. NumbersOK /\ RecordsOK
  BY TypeParts DEF FundInv
<1>1. mempool \in Seq(Tx) /\ tick.now \in Nat /\ tick.amount \in Nat /\ tick.ethOut \in Nat
      /\ swaps \in Nat
  BY <1>0, TickFields DEF RecordsOK, NumbersOK
<1>2. CASE mempool # <<>> /\ mempool' = Tail(mempool)
  BY <1>0, <1>2, HeadAndTail
<1>3. CASE SendSwap
  <2>1. [kind |-> "swap", id |-> swaps, ts |-> tick.now, amount |-> tick.amount] \in Tx
    BY <1>1 DEF Tx
  <2> QED BY <1>1, <1>3, <2>1 DEF SendSwap
<1>4. CASE SendBridge
  <2>1. swaps - 1 \in Nat
    BY <1>1, <1>4 DEF SendBridge, FundInv, SwapWasSent, Sent
  <2>2. [kind |-> "bridge", id |-> swaps - 1, ts |-> tick.now, amount |-> tick.ethOut] \in Tx
    BY <1>1, <2>1 DEF Tx
  <2> QED BY <1>1, <1>4, <2>2 DEF SendBridge
<1>5. CASE UNCHANGED mempool
  BY <1>1, <1>5
<1> QED BY <1>2, <1>3, <1>4, <1>5
        DEF Next, Pay, ForwardNet, Infer, PassTime, MineSwap, MineBridge, MineReverted, Arrive,
            Check, SeeSwap, SeeArrival, Deposit, BeginWrite, EndWrite, Abort, vars, wallet

LEMMA TickStep ==
  ASSUME FundInv, [Next]_vars
  PROVE  /\ tick' \in Tick
         /\ pc' \in {"idle", "swap", "swapping", "bridge", "poll", "deposit", "record", "write"}
<1>0. NumbersOK /\ RecordsOK
  BY TypeParts DEF FundInv
<1>1. tick \in Tick /\ eth \in Nat /\ ogWallet \in Nat /\ tick.ethBefore \in Nat
      /\ tick.ogBefore \in Nat
  BY <1>0, TickFields DEF RecordsOK, NumbersOK
<1>2. CASE Check
  BY <1>2, Decided
<1>3. CASE SendSwap
  BY <1>1, <1>3 DEF SendSwap, Tick
<1>4. CASE SeeSwap
  BY <1>1, <1>4 DEF SeeSwap, Tick
<1>5. CASE SendBridge
  BY <1>1, <1>5 DEF SendBridge, Tick
<1>6. CASE SeeArrival
  BY <1>1, <1>6 DEF SeeArrival, Tick
<1>7. CASE Deposit
  BY <1>1, <1>7 DEF Deposit
<1>8. CASE BeginWrite
  BY <1>8, EntryType DEF BeginWrite
<1>9. CASE EndWrite \/ Abort
  BY <1>9 DEF EndWrite, Abort, EndTick, IdleTick, Tick
<1>10. CASE UNCHANGED <<tick, pc>>
  BY <1>0, <1>10 DEF RecordsOK
<1> QED BY <1>2, <1>3, <1>4, <1>5, <1>6, <1>7, <1>8, <1>9, <1>10
        DEF Next, Pay, ForwardNet, Infer, PassTime, MineSwap, MineBridge, MineReverted, Arrive,
            vars, wallet

LEMMA SetsStep ==
  ASSUME FundInv, [Next]_vars
  PROVE  /\ transit' \in SUBSET [id : Nat, amount : Nat]
         /\ log' \in SUBSET Entry /\ spends' \in SUBSET Entry
<1>0. NumbersOK /\ RecordsOK
  BY TypeParts DEF FundInv
<1>1. /\ transit \in SUBSET [id : Nat, amount : Nat]
      /\ log \in SUBSET Entry /\ spends \in SUBSET Entry /\ tick.next \in SUBSET Entry
  BY <1>0, TickFields DEF RecordsOK
<1>2. CASE MineSwap
  <2> DEFINE tx == Head(mempool)
  <2>1. mempool # <<>>
    BY <1>2 DEF MineSwap
  <2>2. tx.id \in Nat /\ tx.ts \in Nat /\ tx.amount \in Nat
    BY <1>0, <2>1, HeadAndTail
  <2>3. spends' = spends \cup {[id |-> tx.id, ts |-> tx.ts, amount |-> tx.amount]}
        /\ UNCHANGED <<transit, log>>
    BY <1>2 DEF MineSwap
  <2>4. [id |-> tx.id, ts |-> tx.ts, amount |-> tx.amount] \in Entry
    BY <2>2 DEF Entry
  <2> QED BY <1>1, <2>3, <2>4
<1>3. CASE MineBridge
  <2> DEFINE tx == Head(mempool)
  <2>1. mempool # <<>>
    BY <1>3 DEF MineBridge
  <2>2. tx.id \in Nat /\ tx.amount \in Nat
    BY <1>0, <2>1, HeadAndTail
  <2>3. transit' = transit \cup {[id |-> tx.id, amount |-> tx.amount]} /\ UNCHANGED <<spends, log>>
    BY <1>3 DEF MineBridge
  <2> QED BY <1>1, <2>2, <2>3
<1>4. CASE Arrive
  BY <1>1, <1>4 DEF Arrive
<1>5. CASE BeginWrite
  BY <1>1, <1>5 DEF BeginWrite, wallet
<1>6. CASE EndWrite
  BY <1>1, <1>6 DEF EndWrite, wallet
<1>7. CASE UNCHANGED <<transit, log, spends>>
  BY <1>1, <1>7
<1> QED BY <1>2, <1>3, <1>4, <1>5, <1>6, <1>7
        DEF Next, Pay, ForwardNet, Infer, PassTime, MineReverted, Check, SendSwap, SeeSwap,
            SendBridge, SeeArrival, Deposit, Abort, vars, wallet

\* Every variable keeps its type.
LEMMA TypeStep ==
  ASSUME FundInv, [Next]_vars
  PROVE  TypeOK'
BY NumbersStep, MempoolStep, TickStep, SetsStep, TypePartsNext DEF RecordsOK

\* What a step does not touch: the log and the tick's place in it.
LEMMA KeepsRoom ==
  ASSUME FundInv, UNCHANGED <<log, spends>>, clock' \in Nat, clock <= clock',
         tick'.now = tick.now, tick'.amount = tick.amount, tick'.next = tick.next,
         pc' = pc \/ (pc \in Leg /\ pc' \in Leg)
  PROVE  Logs' /\ RoomInCap'
<1>0. NumbersOK /\ RecordsOK /\ Logs /\ RoomInCap
  BY TypeParts DEF FundInv
<1>1. Total(Recent(log, clock')) <= Total(Recent(log, clock))
  BY <1>0, TotalOfRecent DEF NumbersOK, RecordsOK, Logs
<1>2. Total(Recent(log, clock')) \in Nat /\ Total(Recent(log, clock)) \in Nat
  BY <1>0, RecentIsFinite DEF NumbersOK, RecordsOK, Logs
<1>3. Total(Recent(log, clock')) <= DailyCap
  BY <1>0, <1>1, <1>2, FundingAssumption DEF RoomInCap
<1>4. Total(Recent(log, clock))' <= DailyCap
  BY <1>3 DEF Recent
<1>5. pc' # "idle" => tick'.now <= clock'
  <2>1. clock \in Nat /\ tick.now \in Nat
    BY <1>0, TickFields DEF NumbersOK, RecordsOK
  <2>2. pc' # "idle" => tick.now <= clock
    BY <1>0 DEF RoomInCap, Leg
  <2> QED BY <2>1, <2>2
<1>6. pc' \in Leg => Total(Recent(log, tick.now))' + tick'.amount <= DailyCap
  BY <1>0 DEF RoomInCap, Leg, Recent, Total
<1>7. pc' = "write" => Total(tick.next)' <= DailyCap
  BY <1>0 DEF RoomInCap, Leg, Total
<1> QED BY <1>0, <1>4, <1>5, <1>6, <1>7 DEF Logs, RoomInCap

\* The recorded spends of a window stay within the cap.
LEMMA CapStep ==
  ASSUME FundInv, [Next]_vars
  PROVE  Logs' /\ RoomInCap'
<1>0. NumbersOK /\ RecordsOK /\ Logs /\ RoomInCap
  BY TypeParts DEF FundInv
<1>1. CASE \/ Pay \/ ForwardNet \/ Infer \/ PassTime \/ MineBridge \/ MineReverted \/ Arrive
           \/ UNCHANGED vars
  BY <1>0, <1>1, KeepsRoom
     DEF Pay, ForwardNet, Infer, PassTime, MineBridge, MineReverted, Arrive, vars, wallet, NumbersOK, RecordsOK
<1>2. CASE SendSwap \/ SeeSwap \/ SendBridge \/ SeeArrival \/ Deposit
  <2>1. UNCHANGED <<clock, log, spends>> /\ pc \in Leg /\ pc' \in Leg
    BY <1>2 DEF SendSwap, SeeSwap, SendBridge, SeeArrival, Deposit, Leg, wallet
  <2>2. tick'.now = tick.now /\ tick'.amount = tick.amount /\ tick'.next = tick.next
    BY <1>0, <1>2 DEF SendSwap, SeeSwap, SendBridge, SeeArrival, Deposit, RecordsOK, Tick
  <2> QED BY <1>0, <2>1, <2>2, KeepsRoom DEF NumbersOK, RecordsOK
<1>3. CASE MineSwap
  <2>1. UNCHANGED <<clock, log, tick, pc>>
    BY <1>3 DEF MineSwap
  <2>2. IsFiniteSet(spends')
    BY <1>0, <1>3, FS_AddElement DEF MineSwap, Logs
  <2> QED BY <1>0, <2>1, <2>2 DEF Logs, RoomInCap, Recent, Total
<1>4. CASE Check
  <2>1. clock \in Nat
    BY <1>0 DEF NumbersOK
  <2>2. UNCHANGED <<clock, log, spends>> /\ pc' = "swap" /\ tick'.now = clock /\ tick'.next = {}
    BY <1>4, Decided
  <2>3. Total(Recent(log, clock)) + tick'.amount <= DailyCap
    BY <1>4, Decided DEF SpentToday
  <2>4. Logs'
    BY <1>0, <2>2, EmptyTotal DEF Logs
  <2> QED BY <1>0, <2>1, <2>2, <2>3, <2>4 DEF RoomInCap
<1>5. CASE BeginWrite
  <2> DEFINE e == [id |-> swaps - 1, ts |-> tick.now, amount |-> tick.amount]
             old == Recent(log, tick.now)
  <2>1. e \in Entry
    BY <1>5, EntryType
  <2>2. old \in SUBSET Entry /\ IsFiniteSet(old) /\ Total(old) \in Nat
    <3>1. log \in SUBSET Entry /\ IsFiniteSet(log) /\ tick.now \in Nat
      BY <1>0, TickFields DEF RecordsOK, Logs
    <3> QED BY <3>1, RecentIsFinite
  <2>3. Total({e}) = e.amount /\ IsFiniteSet({e}) /\ e.amount = tick.amount
    BY <2>1, TotalOfOne
  <2>4. UNCHANGED <<clock, spends>> /\ log' = {} /\ pc' = "write" /\ pc = "record"
    BY <1>5 DEF BeginWrite
  <2>6. tick'.next = old \cup {e} /\ tick'.now = tick.now
    BY <1>5, EntryType
  <2>7. old \cup {e} \in SUBSET Entry /\ IsFiniteSet(old \cup {e})
    BY <2>1, <2>2, <2>3, FS_Union
  <2>8. Total(old) + tick.amount <= DailyCap
    BY <1>0, <2>4 DEF RoomInCap, Leg
  <2>9. Total(old \cup {e}) <= Total(old) + e.amount /\ Total(old \cup {e}) \in Nat
    BY <2>1, <2>2, <2>3, <2>7, TotalUnion, TotalIsNat
  <2>10. tick.amount \in Nat /\ tick.now <= clock
    BY <1>0, <2>4, TickFields DEF RecordsOK, RoomInCap
  <2>11. Total(Recent({}, clock)) <= DailyCap
    BY EmptyTotal, FundingAssumption
  <2> HIDE DEF e, old
  <2>12. Total(old \cup {e}) <= DailyCap
    BY <2>2, <2>3, <2>8, <2>9, <2>10, FundingAssumption
  <2>13. Logs'
    BY <1>0, <2>4, <2>6, <2>7, EmptyTotal DEF Logs
  <2> QED BY <2>4, <2>6, <2>10, <2>11, <2>12, <2>13 DEF RoomInCap, Leg
<1>6. CASE EndWrite
  <2>1. log' = tick.next /\ tick' = IdleTick /\ pc' = "idle" /\ pc = "write"
    BY <1>6 DEF EndWrite, EndTick
  <2>2. UNCHANGED <<clock, spends>>
    BY <1>6 DEF EndWrite
  <2>3. Total(Recent(tick.next, clock)) <= DailyCap
    <3>1. tick.next \in SUBSET Entry /\ IsFiniteSet(tick.next) /\ clock \in Nat
      BY <1>0, TickFields DEF NumbersOK, RecordsOK, Logs
    <3>2. Total(tick.next) <= DailyCap
      BY <1>0, <2>1 DEF RoomInCap
    <3>3. Total(tick.next) \in Nat
      BY <3>1, TotalIsNat
    <3> DEFINE r == Total(Recent(tick.next, clock))
    <3>4. r \in Nat /\ r <= Total(tick.next)
      BY <3>1, RecentIsFinite
    <3> HIDE DEF r
    <3>5. r <= DailyCap
      BY <3>2, <3>3, <3>4, FundingAssumption
    <3> QED BY <3>5 DEF r
  <2> QED BY <1>0, <2>1, <2>2, <2>3, EmptyTotal DEF Logs, RoomInCap, Leg, IdleTick, Recent, Total
<1>7. CASE Abort
  <2>1. UNCHANGED <<clock, log, spends>> /\ tick' = IdleTick /\ pc' = "idle"
    BY <1>7 DEF Abort, EndTick
  <2> QED BY <1>0, <2>1, EmptyTotal DEF Logs, RoomInCap, Leg, IdleTick, Recent, Total
<1> QED BY <1>1, <1>2, <1>3, <1>4, <1>5, <1>6, <1>7 DEF Next

---------------------------------------------------------------------------
\* The gas money stays out of every deposit.
LEMMA GasStep ==
  ASSUME FundInv, [Next]_vars
  PROVE  GasAside'
<1>0. /\ NumbersOK /\ RecordsOK /\ GasAside /\ GasFloat \in Nat
      /\ ogWallet \in Nat /\ tick.ogDelta \in Nat /\ tick.ogBefore \in Nat
  <2>1. NumbersOK /\ RecordsOK /\ GasAside
    BY TypeParts DEF FundInv
  <2>2. tick \in Tick /\ ogWallet \in Nat
    BY <2>1 DEF NumbersOK, RecordsOK
  <2> QED BY <2>1, <2>2, TickFields, FundingAssumption
<1>1. CASE Arrive
  <2>1. PICK transfer \in transit : ogWallet' = ogWallet + transfer.amount
    BY <1>1 DEF Arrive
  <2>2. transfer.amount \in Nat
    BY <1>0 DEF RecordsOK
  <2> QED BY <1>0, <1>1, <2>1, <2>2 DEF Arrive, GasAside, GasMoneyKept
<1>2. CASE SendBridge
  <2>1. tick'.ogBefore = ogWallet
    BY <1>0, <1>2 DEF SendBridge, RecordsOK, Tick
  <2> QED BY <1>0, <1>2, <2>1 DEF SendBridge, GasAside, GasMoneyKept
<1>3. CASE SeeArrival
  <2>1. tick'.ogDelta = ogWallet - tick.ogBefore
    BY <1>0, <1>3 DEF SeeArrival, RecordsOK, Tick
  <2> QED BY <1>0, <1>3, <2>1 DEF SeeArrival, GasAside, GasMoneyKept, wallet
<1>4. CASE Deposit
  BY <1>0, <1>4 DEF Deposit, GasAside, GasMoneyKept
<1>5. CASE Check \/ SendSwap \/ SeeSwap \/ BeginWrite \/ EndWrite \/ Abort
  <2>1. pc' \in {"swap", "swapping", "bridge", "write", "idle"} /\ ogWallet' = ogWallet
    BY <1>5 DEF Check, SendSwap, SeeSwap, BeginWrite, EndWrite, Abort, EndTick, wallet
  <2> QED BY <1>0, <2>1 DEF GasAside, GasMoneyKept
<1>6. CASE UNCHANGED <<ogWallet, pc, tick>>
  BY <1>0, <1>6 DEF GasAside, GasMoneyKept
<1> QED BY <1>1, <1>2, <1>3, <1>4, <1>5, <1>6
        DEF Next, Pay, ForwardNet, Infer, PassTime, MineSwap, MineBridge, MineReverted, vars, wallet

\* The wallet's transactions are mined in their order.
LEMMA LastStep ==
  ASSUME FundInv, [Next]_vars
  PROVE  SwapIsLast'
<1>0. mempool \in Seq(Tx) /\ SwapIsLast /\ tick \in Tick
  BY TypeParts DEF FundInv, RecordsOK
<1>1. CASE mempool # <<>> /\ mempool' = Tail(mempool) /\ UNCHANGED <<tick, pc>>
  <2>1. SUFFICES ASSUME pc = "swapping", Tail(mempool) # <<>>
                 PROVE  Tail(mempool)[Len(Tail(mempool))] = mempool[Len(mempool)]
    BY <1>0, <1>1, <2>1 DEF SwapIsLast
  <2>2. Len(Tail(mempool)) = Len(mempool) - 1 /\ Len(Tail(mempool)) \in Nat \ {0}
    BY <1>0, <1>1, <2>1
  <2> QED BY <1>0, <1>1, <2>2
<1>2. CASE SendSwap
  <2> DEFINE tx == [kind |-> "swap", id |-> swaps, ts |-> tick.now, amount |-> tick.amount]
  <2>1. mempool' = Append(mempool, tx) /\ tick' = [tick EXCEPT !.ethBefore = eth]
    BY <1>2 DEF SendSwap
  <2>2. tick'.amount = tick.amount
    BY <1>0, <2>1 DEF Tick
  <2>3. tx.kind = "swap" /\ tx.amount = tick.amount
    OBVIOUS
  <2> HIDE DEF tx
  <2>4. mempool'[Len(mempool')] = tx
    BY <1>0, <2>1
  <2> QED BY <2>2, <2>3, <2>4 DEF SwapIsLast
<1>3. CASE UNCHANGED <<mempool, pc, tick>> \/ pc' # "swapping"
  BY <1>0, <1>3 DEF SwapIsLast
<1> QED BY <1>1, <1>2, <1>3
        DEF Next, Pay, ForwardNet, Infer, PassTime, MineSwap, MineBridge, MineReverted, Arrive,
            Check, SeeSwap, SendBridge, SeeArrival, Deposit, BeginWrite, EndWrite, EndTick, Abort,
            vars, wallet

\* What leaves the reserve is counted from the moment the tick has read it.
LEMMA FloorStep ==
  ASSUME FundInv, [Next]_vars
  PROVE  FloorCovered'
<1>0. /\ NumbersOK /\ RecordsOK /\ FloorCovered
      /\ reserve \in Nat /\ outflow \in Nat /\ Floor \in Nat /\ Price \in Nat /\ tick.amount \in Nat
  <2>1. NumbersOK /\ RecordsOK /\ FloorCovered
    BY TypeParts DEF FundInv
  <2>2. tick \in Tick /\ reserve \in Nat /\ outflow \in Nat
    BY <2>1 DEF NumbersOK, RecordsOK
  <2> QED BY <2>1, <2>2, TickFields, FundingAssumption
<1>1. CASE Pay
  BY <1>0, <1>1 DEF Pay, FloorCovered
<1>2. CASE ForwardNet
  BY <1>0, <1>2, NetIsNat DEF ForwardNet, CountOutflow, FloorCovered
<1>3. CASE MineSwap
  <2> DEFINE amount == Head(mempool).amount
  <2>1. mempool # <<>>
    BY <1>3 DEF MineSwap
  <2>2. amount \in Nat
    BY <1>0, <2>1, HeadAndTail
  <2>3. /\ reserve' = reserve - amount /\ UNCHANGED <<pc, tick>>
        /\ outflow' = IF pc = "idle" THEN 0 ELSE outflow + amount
    BY <1>3 DEF MineSwap, CountOutflow
  <2> HIDE DEF amount
  <2> QED BY <1>0, <2>2, <2>3 DEF FloorCovered
<1>4. CASE Check
  <2>1. /\ Floor + tick'.amount <= reserve /\ outflow' = 0 /\ reserve' = reserve
        /\ tick'.amount \in Nat
    BY <1>4, Decided, TickFields
  <2> QED BY <1>0, <2>1 DEF FloorCovered
<1>5. CASE SendSwap
  <2>1. tick'.amount = tick.amount
    BY <1>0, <1>5 DEF SendSwap, RecordsOK, Tick
  <2> QED BY <1>0, <1>5, <2>1 DEF SendSwap, FloorCovered
<1>6. CASE UNCHANGED <<reserve, outflow, pc, tick>> \/ pc' \notin {"swap", "swapping"}
  BY <1>0, <1>6 DEF FloorCovered
<1> QED BY <1>1, <1>2, <1>3, <1>4, <1>5, <1>6
        DEF Next, Infer, PassTime, MineBridge, MineReverted, Arrive, SeeSwap, SendBridge,
            SeeArrival, Deposit, BeginWrite, EndWrite, EndTick, Abort, vars, wallet

LEMMA SentStep ==
  ASSUME FundInv, [Next]_vars
  PROVE  SwapWasSent'
<1>0. swaps \in Nat /\ SwapWasSent
  BY TypeParts DEF FundInv, NumbersOK
<1>1. CASE SendSwap
  BY <1>0, <1>1 DEF SendSwap, SwapWasSent
<1>2. CASE swaps' = swaps /\ (pc' \in Sent => pc \in Sent)
  BY <1>0, <1>2 DEF SwapWasSent
<1> QED BY <1>1, <1>2
        DEF Next, Pay, ForwardNet, Infer, PassTime, MineSwap, MineBridge, MineReverted, Arrive,
            Check, SeeSwap, SendBridge, SeeArrival, Deposit, BeginWrite, EndWrite, EndTick, Abort,
            vars, wallet, Sent

---------------------------------------------------------------------------
(* FundInv is an invariant of wallet, log and tick: the log has room for what the tick spends, *)
(* the gas money is aside, and the tick's swap is covered by what it read of the reserve.      *)
THEOREM FundingInvariant == Spec => []FundInv
<1>1. FundInv /\ [Next]_vars => FundInv'
  BY TypeStep, CapStep, GasStep, LastStep, FloorStep, SentStep DEF FundInv
<1> QED BY <1>1, InitFund, PTL DEF Spec

(* Every variable keeps its type: no balance of the wallet goes negative. *)
THEOREM TypeCorrect == Spec => []TypeOK
<1>1. FundInv => TypeOK
  BY DEF FundInv
<1> QED BY <1>1, FundingInvariant, PTL

(* bridgeEthToOg and depositToLedger: the difference of two balances never holds gas money. *)
THEOREM GasKept == Spec => []GasMoneyKept
<1>1. FundInv => GasMoneyKept
  BY DEF FundInv, GasAside
<1> QED BY <1>1, FundingInvariant, PTL

(* decideTopup over SpendLog: only swaps that the log does not hold overrun the daily cap. *)
THEOREM OverrunUnrecorded == Spec => []OverrunIsUnrecorded
<1>1. FundInv => OverrunIsUnrecorded
  <2> SUFFICES ASSUME FundInv PROVE OverrunIsUnrecorded OBVIOUS
  <2>0. /\ log \in SUBSET Entry /\ IsFiniteSet(log) /\ spends \in SUBSET Entry
        /\ IsFiniteSet(spends) /\ clock \in Nat /\ Total(Recent(log, clock)) <= DailyCap
    BY TypeParts DEF FundInv, NumbersOK, RecordsOK, Logs, RoomInCap
  <2> DEFINE recorded == RecentSpends \cap log
             unrecorded == RecentSpends \ log
  <2>1. RecentSpends \in SUBSET Entry /\ IsFiniteSet(RecentSpends)
    BY <2>0, RecentIsFinite DEF RecentSpends
  <2>2. /\ IsFiniteSet(recorded) /\ IsFiniteSet(unrecorded)
        /\ recorded \in SUBSET Entry /\ unrecorded \in SUBSET Entry
    BY <2>1, FS_Subset
  <2>3. /\ IsFiniteSet(Recent(log, clock)) /\ Recent(log, clock) \in SUBSET Entry
        /\ recorded \in SUBSET Recent(log, clock)
    BY <2>0, RecentIsFinite DEF RecentSpends, Recent
  <2>4. Total(recorded) <= Total(Recent(log, clock))
    BY <2>3, TotalMonotone
  <2>5. recorded \cup unrecorded = RecentSpends
    OBVIOUS
  <2>6. Total(RecentSpends) <= Total(recorded) + Total(unrecorded)
    BY <2>2, <2>5, TotalUnion
  <2>7. /\ Total(recorded) \in Nat /\ Total(unrecorded) \in Nat
        /\ Total(RecentSpends) \in Nat /\ Total(Recent(log, clock)) \in Nat
    BY <2>1, <2>2, <2>3, TotalIsNat
  <2>8. Total(RecentSpends) <= DailyCap + Total(unrecorded)
    <3> HIDE DEF recorded, unrecorded
    <3> QED BY <2>0, <2>4, <2>6, <2>7, FundingAssumption
  <2> QED BY <2>0, <2>8 DEF OverrunIsUnrecorded
<1> QED BY <1>1, FundingInvariant, PTL

(* A top-up that is mined in time breaches the floor only by what left the reserve meanwhile. *)
THEOREM FloorKept == Spec => TopupsKeepFloor
<1> DEFINE Keeps == pc = "swapping" /\ mempool' = <<>> /\ spends' # spends =>
                      reserve' + outflow >= Floor
<1>1. FundInv /\ [Next]_vars => [Keeps]_vars
  <2> SUFFICES ASSUME FundInv, [Next]_vars, pc = "swapping", mempool' = <<>>, spends' # spends
               PROVE  reserve' + outflow >= Floor
    OBVIOUS
  <2>0. /\ mempool \in Seq(Tx) /\ tick.amount \in Nat /\ reserve \in Nat /\ outflow \in Nat
        /\ Floor \in Nat
    BY TypeParts, TickFields, FundingAssumption DEF FundInv, NumbersOK, RecordsOK
  <2>1. MineSwap
    BY DEF Next, Pay, ForwardNet, Infer, PassTime, MineBridge, MineReverted, Arrive, Check, SendSwap,
           SeeSwap, SendBridge, SeeArrival, Deposit, BeginWrite, EndWrite, Abort, vars, wallet
  <2>2. mempool # <<>> /\ Tail(mempool) = <<>> /\ reserve' = reserve - Head(mempool).amount
    BY <2>1 DEF MineSwap
  <2>3. Len(mempool) = 1 /\ Head(mempool) = mempool[1]
    <3>1. Len(mempool) \in Nat /\ Len(Tail(mempool)) = Len(mempool) - 1
      BY <2>0, <2>2
    <3> DEFINE rest == Tail(mempool)
    <3>0. rest = <<>>
      BY <2>2
    <3> HIDE DEF rest
    <3>2. Len(rest) = 0
      BY <3>0
    <3>3. Len(mempool) = 1
      BY <3>1, <3>2 DEF rest
    <3> QED BY <2>0, <3>3
  <2>4. Head(mempool).amount = tick.amount
    BY <2>2, <2>3 DEF FundInv, SwapIsLast
  <2>5. reserve + outflow >= Floor + tick.amount
    BY DEF FundInv, FloorCovered
  <2> QED BY <2>0, <2>2, <2>4, <2>5
<1>2. Spec => [][Keeps]_vars
  BY <1>1, FundingInvariant, PTL DEF Spec
<1> QED BY <1>2 DEF TopupsKeepFloor
=============================================================================
