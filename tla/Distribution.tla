---------------------------- MODULE Distribution ----------------------------
(***************************************************************************)
(* Paying the holders from the page of an agent: it lists the holders when *)
(* it is loaded; a click snaps the vault, waits for the receipt, and sends *)
(* one distributeTo for each of them without waiting for these             *)
(* (apps/web/src/components/distribute-button.tsx, loadHolders in          *)
(* apps/web/src/lib/agents.ts), while shares are sold and traded and       *)
(* others distribute too.                                                  *)
(*                                                                         *)
(* The wallet's transactions are mined in the order in which they were     *)
(* sent.  Other pages are among the others, who snap and distribute too.   *)
(***************************************************************************)
EXTENDS RevenueVault, IPOSale

CONSTANT MaxClicks  \* bound: clicks on the button

ASSUME DistributionAssumption == MaxClicks \in Nat

VARIABLES page,     \* the state of the page
          mempool,  \* what its wallet sent and no block holds yet
          clicks    \* clicks so far

pageVars == <<page, mempool, clicks>>
distVars == <<vars, saleVars, pageVars>>

\* pc: "idle", "snap" (awaits the receipt), "push" and "done".  mined and id: the receipt, id 0
\* when the transaction reverted; then the snapshot that is distributed.  own: the one that the
\* click took, 0 if none (history).
PageState == [pc : {"idle", "snap", "push", "done"}, listed : SUBSET Holder,
              left : SUBSET Holder, mined : BOOLEAN, id : Nat, own : Nat]

Tx == [kind : {"snap"}, awaited : BOOLEAN] \cup [kind : {"pay"}, id : Nat, holder : Holder]

DistributionTypeOK ==
  /\ TypeOK
  /\ SaleTypeOK
  /\ page \in PageState
  /\ mempool \in Seq(Tx)
  /\ clicks \in Nat

---------------------------------------------------------------------------
\* loadHolders: the balances that the Transfer events add up to, and the creator's own.
ListedNow == {h \in Holder : balances[h] > 0}

Idle(listed) == [pc |-> "idle", listed |-> listed, left |-> {}, mined |-> FALSE, id |-> 0,
                 own |-> 0]

DistributionInit ==
  /\ Init /\ SaleInit
  /\ page = Idle(ListedNow) /\ mempool = <<>> /\ clicks = 0

\* A page that is gone, or has given up, sees no receipt of what its wallet sent.
Unawaited ==
  [i \in DOMAIN mempool |-> IF mempool[i].kind = "snap"
                            THEN [mempool[i] EXCEPT !.awaited = FALSE] ELSE mempool[i]]

\* The page is loaded anew. (In the middle of a distribution, that is GiveUp and Load.)
Load ==
  /\ page.pc \in {"idle", "done"}
  /\ page' = Idle(ListedNow)
  /\ UNCHANGED <<vars, saleVars, mempool, clicks>>

\* The button: the wallet sends snap().
Click ==
  /\ page.pc = "idle"
  /\ clicks < MaxClicks
  /\ clicks' = clicks + 1
  /\ page' = [page EXCEPT !.pc = "snap"]
  /\ mempool' = Append(mempool, [kind |-> "snap", awaited |-> TRUE])
  /\ UNCHANGED <<vars, saleVars>>

\* snap() is mined: it takes a snapshot, or reverts for an empty vault.
MineSnap ==
  /\ mempool # <<>> /\ Head(mempool).kind = "snap"
  /\ IF usdc > 0 THEN Snap ELSE UNCHANGED vars
  /\ mempool' = Tail(mempool)
  /\ page' = IF Head(mempool).awaited
             THEN [page EXCEPT !.mined = TRUE,
                               !.id = IF usdc > 0 THEN Len(snapshots) + 1 ELSE 0]
             ELSE page
  /\ UNCHANGED <<saleVars, clicks>>

\* distributeTo is mined: it settles, or reverts.
MinePay ==
  /\ mempool # <<>> /\ Head(mempool).kind = "pay"
  /\ LET tx == Head(mempool)
         pays == /\ tx.id \in SnapshotIds
                 /\ ~claimedAt[tx.id][tx.holder]
                 /\ ProRata(tx.id, tx.holder) <= usdc
     IN IF pays THEN Settle(tx.id, tx.holder) ELSE UNCHANGED vars
  /\ mempool' = Tail(mempool)
  /\ UNCHANGED <<saleVars, page, clicks>>

\* A plausible slip: the snapshot to distribute is looked up in the vault, not in the receipt.
SeeReceiptTakingNewest ==
  /\ page.pc = "snap" /\ page.mined
  /\ page' = [page EXCEPT !.pc = "push", !.left = page.listed, !.mined = FALSE,
                          !.id = Len(snapshots), !.own = page.id]
  /\ UNCHANGED <<vars, saleVars, mempool, clicks>>

\* The receipt of snap() arrives, whatever its status: without a Snapped event in it, the
\* first snapshot is distributed.
SeeReceipt ==
  /\ page.pc = "snap" /\ page.mined
  /\ page' = [page EXCEPT !.pc = "push", !.left = page.listed, !.mined = FALSE,
                          !.id = IF @ = 0 THEN 1 ELSE @, !.own = page.id]
  /\ UNCHANGED <<vars, saleVars, mempool, clicks>>

\* One distributeTo is sent. The page goes from the largest holder to the smallest; here the
\* order is any.
Push(h) ==
  /\ page.pc = "push" /\ h \in page.left
  /\ page' = [page EXCEPT !.left = @ \ {h}]
  /\ mempool' = Append(mempool, [kind |-> "pay", id |-> page.id, holder |-> h])
  /\ UNCHANGED <<vars, saleVars, clicks>>

\* All are sent: "paid out to n holders".
Report ==
  /\ page.pc = "push" /\ page.left = {}
  /\ page' = [page EXCEPT !.pc = "done"]
  /\ UNCHANGED <<vars, saleVars, mempool, clicks>>

\* The wallet is told not to sign, or the receipt takes too long: the button is offered again,
\* and what was sent stays sent.
GiveUp ==
  /\ page.pc \in {"snap", "push"}
  /\ page' = Idle(page.listed)
  /\ mempool' = Unawaited
  /\ UNCHANGED <<vars, saleVars, clicks>>

PageNext ==
  \/ Load \/ Click \/ MineSnap \/ MinePay \/ SeeReceipt
  \/ \E h \in Holder : Push(h)
  \/ Report \/ GiveUp

\* What others do to the vault: any of them may snap and distribute, also from another page.
VaultNext ==
  \/ \E amount \in 1 .. MaxRevenue : Fund(amount)
  \/ Snap
  \/ \E s \in SnapshotIds, h \in Holder : Settle(s, h)

\* Of the token only what a page can meet is taken: shares that move.
Trade ==
  \/ \E from \in Holder : \E to \in Holder \ {from}, n \in 1 .. TotalSupply : Transfer(from, to, n)
  \/ NextBlock

DistributionNext ==
  \/ Trade /\ UNCHANGED <<vaultVars, saleVars, pageVars>>
  \/ SaleNext /\ UNCHANGED <<vaultVars, pageVars>>
  \/ VaultNext /\ UNCHANGED <<saleVars, pageVars>>
  \/ PageNext

DistributionSpec == DistributionInit /\ [][DistributionNext]_distVars

---------------------------------------------------------------------------
(* A page that reports a distribution has paid it: once its transactions are mined, all who   *)
(* were listed are settled for its snapshot, although no receipt was looked at. Two things    *)
(* can make a payment revert: snap() itself reverted, and snapshots overlapped. If the page   *)
(* listed all whom the snapshot counts, it owes nothing any more ("pays it pro-rata to all    *)
(* holders", agent/[ticker]/page.tsx:251-252).                                                *)
ReportedIsPaid ==
  (page.pc = "done" /\ mempool = <<>> /\ page.own # 0 /\ ~overlapped) =>
    /\ \A h \in page.listed : claimedAt[page.own][h]
    /\ (\A h \in Holder : ProRata(page.own, h) > 0 => h \in page.listed) => Owed(page.own) = 0
===========================================================================
