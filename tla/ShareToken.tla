---------------------------- MODULE ShareToken ----------------------------
(***************************************************************************)
(* ShareToken.sol: the ERC-20 shares of one agent, with the ERC20Votes     *)
(* checkpoints from which RevenueVault reads who held what at a past block *)
(* (contracts/src/shares/ShareToken.sol).                                  *)
(*                                                                         *)
(* ERC20, ERC20Votes and ERC20Burnable come from OpenZeppelin, which is    *)
(* not in the repository; what they do is modelled from how the contract   *)
(* overrides and the vault reads them.  A transaction is one action, and   *)
(* NextBlock closes the block in which the last ones ran.  Amounts are     *)
(* whole share units: the real supply is 10^24 of them.                    *)
(***************************************************************************)
EXTENDS Integers, FiniteSets, Sums

CONSTANTS Holder,       \* the addresses that may hold shares
          NoHolder,     \* address(0): the delegate of whoever has none
          TotalSupply,  \* the units minted at construction
          MaxBlock      \* bound: the last block number of a behaviour

ASSUME ShareTokenAssumption ==
  /\ IsFiniteSet(Holder)
  /\ NoHolder \notin Holder
  /\ TotalSupply \in Nat \ {0}
  /\ MaxBlock \in Nat \ {0}

VARIABLES balances,  \* units held
          delegatee, \* whom a holder's units are counted for
          votes,     \* units counted for a delegate: its latest checkpoint
          supply,    \* units in existence
          block,     \* block.number
          past,      \* past[b]: the votes and the supply when block b closed
          optedOut   \* history: who delegated to nobody and received nothing since

tokenVars == <<balances, delegatee, votes, supply, block, past, optedOut>>

Checkpoint == [votes : [Holder -> Nat], supply : Nat]

TokenTypeOK ==
  /\ balances \in [Holder -> Nat]
  /\ delegatee \in [Holder -> Holder \cup {NoHolder}]
  /\ votes \in [Holder -> Nat]
  /\ supply \in Nat
  /\ block \in Nat \ {0}
  /\ past \in [0 .. block - 1 -> Checkpoint]
  /\ optedOut \in SUBSET Holder

---------------------------------------------------------------------------
\* getPastVotes and getPastTotalSupply: only for a block that has closed.
PastVotes(h, timepoint) == past[timepoint].votes[h]
PastSupply(timepoint) == past[timepoint].supply

Credit(vs, d, n) == IF d = NoHolder THEN vs ELSE [vs EXCEPT ![d] = @ + n]

\* _moveDelegateVotes: n units stop counting for one delegate and count for another.
MoveVotes(vs, from, to, n) == Credit(Credit(vs, from, -n), to, n)

\* Construction mints the whole supply to one recipient, who is auto-delegated.
TokenInit ==
  \E recipient \in Holder :
    /\ balances = [h \in Holder |-> IF h = recipient THEN TotalSupply ELSE 0]
    /\ delegatee = [h \in Holder |-> IF h = recipient THEN recipient ELSE NoHolder]
    /\ votes = balances
    /\ supply = TotalSupply
    /\ block = 1
    /\ past = [b \in {0} |-> [votes |-> [h \in Holder |-> 0], supply |-> 0]]
    /\ optedOut = {}

\* A plausible slip: the receiver is delegated to itself, what it already held is not counted.
TransferNotCountingHeld(from, to, n) ==
  LET autoDelegated == IF delegatee[to] = NoHolder
                       THEN [delegatee EXCEPT ![to] = to]
                       ELSE delegatee
  IN /\ n <= balances[from]
     /\ delegatee' = autoDelegated
     /\ votes' = MoveVotes(votes, autoDelegated[from], autoDelegated[to], n)
     /\ balances' = [[balances EXCEPT ![from] = @ - n] EXCEPT ![to] = @ + n]
     /\ optedOut' = optedOut \ {to}
     /\ UNCHANGED <<supply, block, past>>

\* A plausible slip: plain ERC20Votes, which delegates nobody on receive.
TransferWithoutDelegating(from, to, n) ==
  /\ n <= balances[from]
  /\ votes' = MoveVotes(votes, delegatee[from], delegatee[to], n)
  /\ balances' = [[balances EXCEPT ![from] = @ - n] EXCEPT ![to] = @ + n]
  /\ optedOut' = optedOut \ {to}
  /\ UNCHANGED <<delegatee, supply, block, past>>

\* _update on a transfer: a receiver without a delegate is delegated to itself, with what
\* it already holds, before the units move.
Transfer(from, to, n) ==
  LET autoDelegated == IF delegatee[to] = NoHolder
                       THEN [delegatee EXCEPT ![to] = to]
                       ELSE delegatee
      selfCounted == IF delegatee[to] = NoHolder
                     THEN MoveVotes(votes, NoHolder, to, balances[to])
                     ELSE votes
  IN /\ n <= balances[from]
     /\ delegatee' = autoDelegated
     /\ votes' = MoveVotes(selfCounted, autoDelegated[from], autoDelegated[to], n)
     /\ balances' = [[balances EXCEPT ![from] = @ - n] EXCEPT ![to] = @ + n]
     /\ optedOut' = optedOut \ {to}
     /\ UNCHANGED <<supply, block, past>>

\* ERC20Burnable.burn, and burnFrom as Fractionalizer.redeem calls it: _update to address(0)
\* delegates nobody.
Burn(h, n) ==
  /\ n \in 1 .. balances[h]
  /\ balances' = [balances EXCEPT ![h] = @ - n]
  /\ votes' = MoveVotes(votes, delegatee[h], NoHolder, n)
  /\ supply' = supply - n
  /\ UNCHANGED <<delegatee, block, past, optedOut>>

\* ERC20Votes.delegate: to another holder, to oneself, or to nobody.
Delegate(h, d) ==
  /\ votes' = MoveVotes(votes, delegatee[h], d, balances[h])
  /\ delegatee' = [delegatee EXCEPT ![h] = d]
  /\ optedOut' = IF d = NoHolder THEN optedOut \cup {h} ELSE optedOut \ {h}
  /\ UNCHANGED <<balances, supply, block, past>>

\* The block closes: its last checkpoint is what later blocks read for it.
NextBlock ==
  /\ block < MaxBlock
  /\ block' = block + 1
  /\ past' = [b \in 0 .. block |->
                IF b = block THEN [votes |-> votes, supply |-> supply] ELSE past[b]]
  /\ UNCHANGED <<balances, delegatee, votes, supply, optedOut>>

TokenNext ==
  \/ \E from, to \in Holder, n \in 0 .. TotalSupply : Transfer(from, to, n)
  \/ \E h \in Holder, n \in 1 .. TotalSupply : Burn(h, n)
  \/ \E h \in Holder, d \in Holder \cup {NoHolder} : Delegate(h, d)
  \/ NextBlock

---------------------------------------------------------------------------
\* What a delegate's checkpoint should say: the units of those who chose it.
DelegatedTo(d) == [h \in Holder |-> IF delegatee[h] = d THEN balances[h] ELSE 0]

(* A delegate's checkpoint is the sum of the balances delegated to it, whatever sequence of *)
(* transfers, self-transfers, delegations and burns came before (ShareToken._update and the *)
(* ERC20Votes bookkeeping it drives).                                                       *)
VotesMatchDelegations == \A d \in Holder : votes[d] = SumOf(DelegatedTo(d))

(* Units are neither created nor lost except by burning, and no checkpoint ever counts more *)
(* votes than there was supply: else the vault would pay out more than a snapshot holds.    *)
VotesWithinSupply ==
  /\ SumOf(balances) = supply
  /\ SumOf(votes) <= supply
  /\ \A b \in DOMAIN past : SumOf(past[b].votes) <= past[b].supply

(* Every holder is counted without opting in: units count for nobody only when their holder *)
(* delegated them to nobody and has received nothing since (the auto-delegation of _update). *)
HoldersAreCounted ==
  \A h \in Holder : (balances[h] > 0 /\ delegatee[h] = NoHolder) => h \in optedOut
===========================================================================
