------------------------------ MODULE IPOSale ------------------------------
(***************************************************************************)
(* IPOSale.sol on top of ShareToken: the creator of an agent, to whom the  *)
(* whole supply was minted, approves an allocation, and the sale sells it  *)
(* at a fixed price while its window is open                               *)
(* (contracts/src/ipo/IPOSale.sol, with the parameters that                *)
(* apps/operator/src/store/finance-deploy.ts gives it).                    *)
(*                                                                         *)
(* The block number stands for its timestamp.  A buyer who has not the     *)
(* USDC, or has not approved it, reverts, which is as if it had not tried. *)
(***************************************************************************)
EXTENDS ShareToken

CONSTANTS Creator,        \* recipient of the supply and beneficiary of the sale
          WholeShare,     \* units of a whole share: 1e18 in the contract
          PricePerShare,  \* payment units asked for a whole share
          MaxShares,      \* units offered
          StartsAt,       \* first block of the window
          EndsAt          \* first block after the window

ASSUME IPOSaleAssumption ==
  /\ Creator \in Holder
  /\ {WholeShare, PricePerShare, MaxShares} \subseteq Nat \ {0}
  /\ {StartsAt, EndsAt} \subseteq Nat /\ StartsAt < EndsAt

VARIABLES sold,       \* units sold
          allowance,  \* units the sale may still pull from the creator
          raised,     \* history: payment units the creator got
          purchases   \* history: purchases that went through

saleVars == <<sold, allowance, raised, purchases>>

SaleTypeOK == {sold, allowance, raised, purchases} \subseteq Nat

SaleInit ==
  /\ balances[Creator] = TotalSupply
  /\ sold = 0 /\ allowance = 0 /\ raised = 0 /\ purchases = 0

\* ShareToken.approve for the sale, as the launch page calls it: the whole allocation, also
\* when part of it is sold.
Approve ==
  /\ allowance' = MaxShares
  /\ UNCHANGED <<tokenVars, sold, raised, purchases>>

\* A plausible slip: the price is rounded up to whole shares.
CostOfWholeShares(amount) == PricePerShare * ((amount + WholeShare - 1) \div WholeShare)

\* The price of a purchase, rounded down.
Cost(amount) == (amount * PricePerShare) \div WholeShare

\* buy: the window, the allocation, the payment to the creator, the shares from the creator.
Buy(buyer, amount) ==
  /\ StartsAt <= block /\ block < EndsAt
  /\ amount > 0
  /\ sold + amount <= MaxShares
  /\ amount <= allowance
  /\ Transfer(Creator, buyer, amount)
  /\ sold' = sold + amount
  /\ allowance' = allowance - amount
  /\ raised' = raised + Cost(amount)
  /\ purchases' = purchases + 1

SaleNext ==
  \/ Approve
  \/ \E buyer \in Holder, amount \in 1 .. MaxShares : Buy(buyer, amount)

---------------------------------------------------------------------------
(* The creator gets the price of what was sold, but for the rounding of buy(), which favours  *)
(* the buyer by less than one payment unit for each purchase, in whatever pieces the          *)
(* allocation is bought.                                                                      *)
SaleRoundsDown ==
  LET short == sold * PricePerShare - raised * WholeShare
  IN 0 <= short /\ short <= purchases * (WholeShare - 1)
===========================================================================
