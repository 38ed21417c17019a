---------------------------- MODULE FundingLoop ----------------------------
(***************************************************************************)
(* The self-funding loop of the operator (apps/operator/src/funding): call *)
(* payments land in the operator's wallet, the shareholders' net is        *)
(* forwarded to the vault, and a periodic tick turns what is left into     *)
(* compute credit: USDC -swap-> ETH -bridge-> OG -deposit-> ledger.        *)
(*                                                                         *)
(* One runner per wallet, as scheduler.ts intends; it dies and restarts at *)
(* any time.  Every await of a tick is a step of its own; a transaction    *)
(* that was sent is mined in the order of the nonces, if need be after the *)
(* tick has given up on it.  All currencies are in units of the same       *)
(* worth: one USDC buys one ETH buys one OG, and gas costs nothing.        *)
(* Dry runs, which move nothing, are left out.                             *)
(***************************************************************************)
EXTENDS Integers, FiniteSets, Sequences, Sums

CONSTANTS Threshold,     \* thresholdOg
          DesiredTopup,  \* desiredTopupUsdc
          Floor,         \* floorUsdc
          PerTopupCap,   \* perTopupCapUsdc
          DailyCap,      \* dailyCapUsdc
          Window,        \* windowMs: 24 hours, in clock units
          Price,         \* perCallSmallest: what a call pays
          SliceBps,      \* COMPUTE_SLICE_BPS
          GasFloat,      \* OG the wallet keeps for gas, from no bridge
          MaxTime,       \* bound: clock
          MaxCalls,      \* bound: payments
          MaxSwaps       \* bound: swaps that are sent

ASSUME FundingAssumption ==
  /\ {Threshold, DesiredTopup, Floor, PerTopupCap, DailyCap, Price} \subseteq Nat
  /\ SliceBps \in 0 .. 10000
  /\ {Window, GasFloat, MaxTime, MaxCalls, MaxSwaps} \subseteq Nat

VARIABLES clock,     \* Date.now()
          ledger,    \* availableBalance of the 0G compute ledger
          reserve,   \* the wallet's USDC balance
          eth,       \* the wallet's ETH from swaps
          mempool,   \* the wallet's transactions that are sent and not mined, by nonce
          transit,   \* bridge transfers under way: records [id, amount]
          ogWallet,  \* the wallet's OG balance on 0G
          log,       \* what SpendLog.read finds on disk: records [id, ts, amount]
          pc,        \* where the tick is
          tick,      \* its locals; next is the log it writes
          unforwarded, \* payments whose net is still to be forwarded
          calls,     \* payments so far
          swaps,     \* swaps sent so far: the next one's id
          spends,    \* history: every swap that went through
          outflow    \* history: what left the reserve since the tick read it

wallet == <<ledger, reserve, eth, mempool, transit, ogWallet>>
vars == <<clock, wallet, log, pc, tick, unforwarded, calls, swaps, spends, outflow>>

Entry == [id : Nat, ts : Nat, amount : Nat]
Tx == [kind : {"swap", "bridge"}, id : Nat, ts : Nat, amount : Nat]
Tick == [now : Nat, amount : Nat, ethBefore : Nat, ethOut : Nat, ogBefore : Nat, ogDelta : Nat,
         next : SUBSET Entry]
IdleTick == [now |-> 0, amount |-> 0, ethBefore |-> 0, ethOut |-> 0, ogBefore |-> 0,
             ogDelta |-> 0, next |-> {}]

TypeOK ==
  /\ {clock, ledger, reserve, eth, ogWallet, unforwarded, calls, swaps, outflow} \subseteq Nat
  /\ mempool \in Seq(Tx)
  /\ transit \subseteq [id : Nat, amount : Nat]
  /\ log \subseteq Entry
  /\ pc \in {"idle", "swap", "swapping", "bridge", "poll", "deposit", "record", "write"}
  /\ tick \in Tick
  /\ spends \subseteq Entry

---------------------------------------------------------------------------
SmallerOf(m, n) == IF m <= n THEN m ELSE n
LargerOf(m, n) == IF m >= n THEN m ELSE n

\* computeSplit: the slice is floored, the remainder is the shareholders'.
ComputeSlice(amount) == (amount * SliceBps) \div 10000
Net(amount) == amount - ComputeSlice(amount)

Total(entries) == SumOf([e \in entries |-> e.amount])

\* pruneOld.
Recent(entries, now) == {e \in entries : e.ts > now - Window}

\* spentWithinWindow.
SpentToday(now) == Total(Recent(log, now))

\* A plausible slip: the daily cap is compared with what the log says of another day.
DecideIgnoringSpent(ledgerOg, reserveUsdc, spentTodayUsdc) ==
  IF ledgerOg >= Threshold THEN 0
  ELSE LET spendableReserve == LargerOf(0, reserveUsdc - Floor)
       IN SmallerOf(SmallerOf(DesiredTopup, PerTopupCap), SmallerOf(DailyCap, spendableReserve))

\* A plausible slip: the floor is forgotten.
DecideIgnoringFloor(ledgerOg, reserveUsdc, spentTodayUsdc) ==
  IF ledgerOg >= Threshold THEN 0
  ELSE LET remainingDaily == LargerOf(0, DailyCap - spentTodayUsdc)
       IN SmallerOf(SmallerOf(DesiredTopup, PerTopupCap), SmallerOf(remainingDaily, reserveUsdc))

\* decideTopup: the amount to spend, 0 for no top-up.
DecideTopup(ledgerOg, reserveUsdc, spentTodayUsdc) ==
  IF ledgerOg >= Threshold THEN 0
  ELSE LET remainingDaily == LargerOf(0, DailyCap - spentTodayUsdc)
           spendableReserve == LargerOf(0, reserveUsdc - Floor)
       IN SmallerOf(SmallerOf(DesiredTopup, PerTopupCap),
                    SmallerOf(remainingDaily, spendableReserve))

Init ==
  /\ clock = 1
  /\ ledger = 0 /\ reserve = 0 /\ eth = 0 /\ ogWallet = GasFloat
  /\ mempool = <<>> /\ transit = {}
  /\ log = {}
  /\ pc = "idle" /\ tick = IdleTick
  /\ unforwarded = 0 /\ calls = 0 /\ swaps = 0 /\ spends = {} /\ outflow = 0

---------------------------------------------------------------------------
\* A call is paid into the reserve (resolvePayTo) and its net set on the way to the vault.
Pay ==
  /\ calls < MaxCalls
  /\ calls' = calls + 1
  /\ reserve' = reserve + Price
  /\ unforwarded' = unforwarded + 1
  /\ UNCHANGED <<clock, ledger, eth, mempool, transit, ogWallet, log, pc, tick, swaps, spends,
                 outflow>>

\* What leaves the reserve counts from the moment a tick has read it.
CountOutflow(n) == outflow' = IF pc = "idle" THEN 0 ELSE outflow + n

\* forwardNetToVault, not awaited by the request; a failure is only logged.
ForwardNet ==
  /\ unforwarded > 0
  /\ unforwarded' = unforwarded - 1
  /\ \/ /\ Net(Price) <= reserve
        /\ reserve' = reserve - Net(Price)
        /\ CountOutflow(Net(Price))
     \/ UNCHANGED <<reserve, outflow>>
  /\ UNCHANGED <<clock, ledger, eth, mempool, transit, ogWallet, log, pc, tick, calls, swaps,
                 spends>>

\* Inference eats the ledger.
Infer ==
  /\ ledger > 0
  /\ ledger' = ledger - 1
  /\ UNCHANGED <<clock, reserve, eth, mempool, transit, ogWallet, log, pc, tick, unforwarded,
                 calls, swaps, spends, outflow>>

PassTime ==
  /\ clock < MaxTime
  /\ clock' = clock + 1
  /\ UNCHANGED <<wallet, log, pc, tick, unforwarded, calls, swaps, spends, outflow>>

\* A swap needs its USDC when it is mined, a bridge transfer its ETH; else it reverts.
MineSwap ==
  LET tx == Head(mempool)
  IN /\ mempool # <<>> /\ tx.kind = "swap" /\ tx.amount <= reserve
     /\ mempool' = Tail(mempool)
     /\ reserve' = reserve - tx.amount
     /\ eth' = eth + tx.amount
     /\ spends' = spends \cup {[id |-> tx.id, ts |-> tx.ts, amount |-> tx.amount]}
     /\ CountOutflow(tx.amount)
     /\ UNCHANGED <<clock, ledger, transit, ogWallet, log, pc, tick, unforwarded, calls, swaps>>

MineBridge ==
  LET tx == Head(mempool)
  IN /\ mempool # <<>> /\ tx.kind = "bridge" /\ tx.amount <= eth
     /\ mempool' = Tail(mempool)
     /\ eth' = eth - tx.amount
     /\ transit' = transit \cup {[id |-> tx.id, amount |-> tx.amount]}
     /\ UNCHANGED <<clock, ledger, reserve, ogWallet, log, pc, tick, unforwarded, calls, swaps,
                    spends, outflow>>

MineReverted ==
  LET tx == Head(mempool)
  IN /\ mempool # <<>>
     /\ tx.amount > IF tx.kind = "swap" THEN reserve ELSE eth
     /\ mempool' = Tail(mempool)
     /\ UNCHANGED <<clock, ledger, reserve, eth, transit, ogWallet, log, pc, tick, unforwarded,
                    calls, swaps, spends, outflow>>

\* The bridge delivers, in any order and however late.
Arrive ==
  /\ \E transfer \in transit :
       /\ transit' = transit \ {transfer}
       /\ ogWallet' = ogWallet + transfer.amount
  /\ UNCHANGED <<clock, ledger, reserve, eth, mempool, log, pc, tick, unforwarded, calls, swaps,
                 spends, outflow>>

---------------------------------------------------------------------------
\* The tick ends, or is killed; what it did stays done.
EndTick == pc' = "idle" /\ tick' = IdleTick /\ outflow' = 0

\* The reads of runTopupCheck and the decision. A ledger that cannot be read counts as empty.
Check ==
  /\ pc = "idle"
  /\ \E ledgerOg \in {ledger, 0} :
       LET amount == DecideTopup(ledgerOg, reserve, SpentToday(clock))
       IN /\ amount > 0
          /\ tick' = [IdleTick EXCEPT !.now = clock, !.amount = amount]
  /\ pc' = "swap"
  /\ outflow' = 0
  /\ UNCHANGED <<clock, wallet, log, unforwarded, calls, swaps, spends>>

\* swapUsdcToEth up to its transaction, which is only sent if it goes through as things stand.
SendSwap ==
  /\ pc = "swap"
  /\ swaps < MaxSwaps
  /\ tick.amount <= reserve
  /\ mempool' = Append(mempool, [kind |-> "swap", id |-> swaps, ts |-> tick.now,
                                 amount |-> tick.amount])
  /\ swaps' = swaps + 1
  /\ tick' = [tick EXCEPT !.ethBefore = eth]
  /\ pc' = "swapping"
  /\ UNCHANGED <<clock, ledger, reserve, eth, transit, ogWallet, log, unforwarded, calls, spends,
                 outflow>>

\* The rest of it: what the swap yielded is the difference of two balances.
SeeSwap ==
  /\ pc = "swapping"
  /\ mempool = <<>>
  /\ eth > tick.ethBefore
  /\ tick' = [tick EXCEPT !.ethOut = eth - tick.ethBefore]
  /\ pc' = "bridge"
  /\ UNCHANGED <<clock, wallet, log, unforwarded, calls, swaps, spends, outflow>>

\* bridgeEthToOg up to its transaction.
SendBridge ==
  /\ pc = "bridge"
  /\ tick.ethOut <= eth
  /\ mempool' = Append(mempool, [kind |-> "bridge", id |-> swaps - 1, ts |-> tick.now,
                                 amount |-> tick.ethOut])
  /\ tick' = [tick EXCEPT !.ogBefore = ogWallet]
  /\ pc' = "poll"
  /\ UNCHANGED <<clock, ledger, reserve, eth, transit, ogWallet, log, unforwarded, calls, swaps,
                 spends, outflow>>

\* The poll loop, once the transaction is mined: the balance has grown, by whatever arrived.
SeeArrival ==
  /\ pc = "poll"
  /\ mempool = <<>>
  /\ ogWallet > tick.ogBefore
  /\ tick' = [tick EXCEPT !.ogDelta = ogWallet - tick.ogBefore]
  /\ pc' = "deposit"
  /\ UNCHANGED <<clock, wallet, log, unforwarded, calls, swaps, spends, outflow>>

\* A plausible slip: everything in the wallet is deposited.
DepositAll ==
  /\ pc = "deposit"
  /\ ledger' = ledger + ogWallet
  /\ ogWallet' = 0
  /\ pc' = "record"
  /\ UNCHANGED <<clock, reserve, eth, mempool, transit, log, tick, unforwarded, calls, swaps,
                 spends, outflow>>

\* depositToLedger: the measured difference. That Number(formatEther()) rounds it to a double, far
\* below the gas money, is left out.
Deposit ==
  /\ pc = "deposit"
  /\ ledger' = ledger + tick.ogDelta
  /\ ogWallet' = ogWallet - tick.ogDelta
  /\ pc' = "record"
  /\ UNCHANGED <<clock, reserve, eth, mempool, transit, log, tick, unforwarded, calls, swaps,
                 spends, outflow>>

\* SpendLog.record: read, prune, append; writeFile truncates the file, then fills it, and read
\* takes a truncated file for an empty log.
BeginWrite ==
  /\ pc = "record"
  /\ tick' = [tick EXCEPT !.next = Recent(log, tick.now) \cup
       {[id |-> swaps - 1, ts |-> tick.now, amount |-> tick.amount]}]
  /\ log' = {}
  /\ pc' = "write"
  /\ UNCHANGED <<clock, wallet, unforwarded, calls, swaps, spends, outflow>>

EndWrite ==
  /\ pc = "write"
  /\ log' = tick.next
  /\ EndTick
  /\ UNCHANGED <<clock, wallet, unforwarded, calls, swaps, spends>>

\* A leg throws or times out and execute answers ok = false, or the process dies: either way
\* nothing is recorded, a transaction that was sent stays sent, and a file that was being
\* written stays truncated.
Abort ==
  /\ pc # "idle"
  /\ EndTick
  /\ UNCHANGED <<clock, wallet, log, unforwarded, calls, swaps, spends>>

Next ==
  \/ Pay \/ ForwardNet \/ Infer \/ PassTime
  \/ MineSwap \/ MineBridge \/ MineReverted \/ Arrive
  \/ Check \/ SendSwap \/ SeeSwap \/ SendBridge \/ SeeArrival \/ Deposit
  \/ BeginWrite \/ EndWrite \/ Abort

Spec == Init /\ [][Next]_vars

---------------------------------------------------------------------------
RecentSpends == Recent(spends, clock)

(* The rolling cap is overrun only by swaps that the log does not hold: whatever fails, comes *)
(* late or crashes, the recorded spends of a window stay within the cap (decideTopup with     *)
(* SpendLog.record and spentToday).                                                           *)
OverrunIsUnrecorded ==
  /\ Total(Recent(log, clock)) <= DailyCap
  /\ Total(RecentSpends) <= DailyCap + Total(RecentSpends \ log)

(* What is deposited came over the bridge: the wallet keeps its gas money, whichever transfers *)
(* arrive while a tick measures its balance (bridgeEthToOg's difference).                      *)
GasMoneyKept == ogWallet >= GasFloat

(* A top-up whose swap is mined while its tick waits for it breaches the floor only by what    *)
(* left the reserve, to the vault or into a late swap of an earlier tick, after the tick read  *)
(* it (policy.ts:14, "a reserve floor that is never breached").                                *)
TopupsKeepFloor ==
  [][(pc = "swapping" /\ mempool' = <<>> /\ spends' # spends) =>
       reserve' + outflow >= Floor]_vars

(* "Hard ceiling on auto-spend per 24h window" (policy.ts:55).                                 *)
DailyCapHolds == Total(RecentSpends) <= DailyCap
===========================================================================
