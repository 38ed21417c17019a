--------------------------- MODULE RevenueVault ---------------------------
(***************************************************************************)
(* RevenueVault.sol on top of ShareToken: the vault collects payments,     *)
(* snap() records its balance with a past block, and claim/distributeTo    *)
(* pay each holder the share of that balance that its votes at that block  *)
(* give it (contracts/src/revenue/RevenueVault.sol).                       *)
(*                                                                         *)
(* Snapshot ids are 1..Len(snapshots) here, 0-based in the contract.       *)
(***************************************************************************)
EXTENDS ShareToken, Sequences

CONSTANTS MaxRevenue,   \* bound: what customers pay in one behaviour
          MaxSnapshots  \* bound: how often snap() is called

ASSUME RevenueVaultAssumption == MaxRevenue \in Nat /\ MaxSnapshots \in Nat

VARIABLES usdc,       \* payment-asset balance of the vault
          received,   \* history: all that was ever paid in
          snapshots,  \* _snapshots
          claimedAt,  \* claimedAt[s][h]: settled
          paid,       \* history: paid[s][h], what h was paid for snapshot s
          overlapped  \* history: some snap() ran while an earlier snapshot still owed

vaultVars == <<usdc, received, snapshots, claimedAt, paid, overlapped>>
vars == <<tokenVars, vaultVars>>

Snapshot == [timepoint : Nat, balanceAtSnapshot : Nat]
SnapshotIds == 1 .. Len(snapshots)

TypeOK ==
  /\ TokenTypeOK
  /\ usdc \in Nat
  /\ received \in Nat
  /\ snapshots \in Seq(Snapshot)
  /\ claimedAt \in Seq([Holder -> BOOLEAN]) /\ Len(claimedAt) = Len(snapshots)
  /\ paid \in Seq([Holder -> Nat]) /\ Len(paid) = Len(snapshots)
  /\ overlapped \in BOOLEAN

---------------------------------------------------------------------------
\* A plausible slip: the division rounds up.
ProRataRoundedUp(s, h) ==
  LET snapshot == snapshots[s]
      holderShares == PastVotes(h, snapshot.timepoint)
      totalShares == PastSupply(snapshot.timepoint)
  IN IF holderShares > 0 /\ totalShares > 0
     THEN (snapshot.balanceAtSnapshot * holderShares + totalShares - 1) \div totalShares
     ELSE 0

\* A plausible slip: today's votes are read, not those of the timepoint.
ProRataOfToday(s, h) ==
  LET snapshot == snapshots[s]
      totalShares == PastSupply(snapshot.timepoint)
  IN IF votes[h] > 0 /\ totalShares > 0
     THEN (snapshot.balanceAtSnapshot * votes[h]) \div totalShares
     ELSE 0

\* A plausible slip: today's supply is read, not that of the timepoint.
ProRataOfTodaysSupply(s, h) ==
  LET snapshot == snapshots[s]
      holderShares == PastVotes(h, snapshot.timepoint)
  IN IF holderShares > 0 /\ supply > 0
     THEN (snapshot.balanceAtSnapshot * holderShares) \div supply
     ELSE 0

\* The pro-rata amount of _settle and pendingFor.
ProRata(s, h) ==
  LET snapshot == snapshots[s]
      holderShares == PastVotes(h, snapshot.timepoint)
      totalShares == PastSupply(snapshot.timepoint)
  IN IF holderShares > 0 /\ totalShares > 0
     THEN (snapshot.balanceAtSnapshot * holderShares) \div totalShares
     ELSE 0

PendingFor(s, h) == IF claimedAt[s][h] THEN 0 ELSE ProRata(s, h)

Owed(s) == SumOf([h \in Holder |-> PendingFor(s, h)])
TotalOwed == SumOf([s \in SnapshotIds |-> Owed(s)])

Init ==
  /\ TokenInit
  /\ usdc = 0
  /\ received = 0
  /\ snapshots = <<>>
  /\ claimedAt = <<>>
  /\ paid = <<>>
  /\ overlapped = FALSE

\* fund(), or a plain ERC-20 transfer from an x402 settlement.
Fund(amount) ==
  /\ received + amount <= MaxRevenue
  /\ received' = received + amount
  /\ usdc' = usdc + amount
  /\ UNCHANGED <<tokenVars, snapshots, claimedAt, paid, overlapped>>

\* snap(): the current balance, with the last closed block as timepoint.
Snap ==
  /\ Len(snapshots) < MaxSnapshots
  /\ usdc > 0
  /\ snapshots' = Append(snapshots, [timepoint |-> block - 1, balanceAtSnapshot |-> usdc])
  /\ claimedAt' = Append(claimedAt, [h \in Holder |-> FALSE])
  /\ paid' = Append(paid, [h \in Holder |-> 0])
  /\ overlapped' = (overlapped \/ TotalOwed > 0)
  /\ UNCHANGED <<tokenVars, usdc, received>>

\* A plausible slip: the payment is not checked against the balance.
SettleUncovered(s, h) ==
  LET amount == ProRata(s, h)
  IN /\ ~claimedAt[s][h]
     /\ claimedAt' = [claimedAt EXCEPT ![s][h] = TRUE]
     /\ paid' = [paid EXCEPT ![s][h] = @ + amount]
     /\ usdc' = usdc - amount
     /\ UNCHANGED <<tokenVars, received, snapshots, overlapped>>

\* A plausible slip: distributeTo pays a holder that has claimed once more.
SettleAgain(s, h) ==
  LET amount == ProRata(s, h)
  IN /\ amount <= usdc
     /\ claimedAt' = [claimedAt EXCEPT ![s][h] = TRUE]
     /\ paid' = [paid EXCEPT ![s][h] = @ + amount]
     /\ usdc' = usdc - amount
     /\ UNCHANGED <<tokenVars, received, snapshots, overlapped>>

\* _settle, reached by claim (the holder) and by distributeTo (anyone). A payment the vault
\* cannot cover reverts the whole call, the claimedAt mark included.
Settle(s, h) ==
  LET amount == ProRata(s, h)
  IN /\ ~claimedAt[s][h]
     /\ amount <= usdc
     /\ claimedAt' = [claimedAt EXCEPT ![s][h] = TRUE]
     /\ paid' = [paid EXCEPT ![s][h] = @ + amount]
     /\ usdc' = usdc - amount
     /\ UNCHANGED <<tokenVars, received, snapshots, overlapped>>

Next ==
  \/ TokenNext /\ UNCHANGED vaultVars
  \/ \E amount \in 1 .. MaxRevenue : Fund(amount)
  \/ Snap
  \/ \E s \in SnapshotIds, h \in Holder : Settle(s, h)

Spec == Init /\ [][Next]_vars

---------------------------------------------------------------------------
\* What each snapshot is worth to each holder.
Worth == [s \in SnapshotIds |-> [h \in Holder |-> ProRata(s, h)]]

\* The vault as a payer of dividends: a snapshot declares one, by the votes of the last closed
\* block, which nobody can move any more.
Payer == INSTANCE Dividends WITH
  register <- past[block - 1], cash <- usdc, entitled <- Worth, disbursed <- paid

(* The vault pays dividends: what a snapshot is worth to each holder is fixed by snap() and   *)
(* paid once, from the money that is there, whatever is traded, delegated, burned, funded or  *)
(* snapped before, between and after, in any order of claims (snap, _settle and the           *)
(* checkpoints of ShareToken).                                                                *)
PaysDividends == Payer!Spec

(* A snapshot never pays out more than the balance it recorded, to all holders together, for *)
(* every history of transfers, delegations and burns before and after it (_settle's floor    *)
(* division over getPastVotes and getPastTotalSupply).                                       *)
PaidWithinSnapshot ==
  \A s \in SnapshotIds : SumOf(paid[s]) <= snapshots[s].balanceAtSnapshot

(* What a holder is paid for a snapshot was fixed when it was taken, whatever is traded      *)
(* between snap() and the claim, and is paid once: claimedAt and getPastVotes.               *)
PaidOnceInFull ==
  \A s \in SnapshotIds, h \in Holder :
    paid[s][h] = IF claimedAt[s][h] THEN ProRata(s, h) ELSE 0

(* No step changes what a snapshot owes a holder except the settlement with that holder:     *)
(* later trades cannot dilute an earlier distribution (revenue.mdx:33-34).                   *)
LaterTradesDoNotDilute ==
  [][\A s \in SnapshotIds, h \in Holder :
       PendingFor(s, h)' # PendingFor(s, h) =>
         /\ PendingFor(s, h)' = 0
         /\ usdc' = usdc - PendingFor(s, h)
         /\ paid'[s][h] = paid[s][h] + PendingFor(s, h)]_vars

(* As long as every snap() waits until the earlier snapshots are settled, the vault covers   *)
(* all that it owes: each claim goes through.                                                *)
SerialSnapshotsSolvent == ~overlapped => TotalOwed <= usdc

(* With overlapping snapshots the vault may owe more than it holds, but for any one snapshot *)
(* it falls short by no more than what the other snapshots have drawn.                       *)
ShortfallIsOthersDraw ==
  \A s \in SnapshotIds :
    Owed(s) <= usdc + SumOf([t \in SnapshotIds \ {s} |-> SumOf(paid[t])])

(* Each holder can pull its share of any snapshot (revenue.mdx:44-46: "each holder's share   *)
(* of that snapshot's balance is their fraction of the supply at that timepoint. Holders can *)
(* pull their share with `claim`"). _settle reverts when the vault holds less.               *)
EveryClaimResolves == \A s \in SnapshotIds, h \in Holder : PendingFor(s, h) <= usdc
===========================================================================
