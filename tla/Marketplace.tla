---------------------------- MODULE Marketplace ----------------------------
(***************************************************************************)
(* Marketplace.sol: one best bid per agent, escrowed in the contract until *)
(* it is outbid, expires or is accepted (contracts/src/market).            *)
(* The payment asset is an ERC-20 whose transfers revert when they cannot  *)
(* be made (SafeERC20); a bidder's allowance is part of its decision to bid.*)
(***************************************************************************)
EXTENDS AgentNFT

CONSTANTS Budget   \* what each person has to bid with

ASSUME MarketplaceAssumption == Budget \in Nat

VARIABLES usdc,    \* payment-asset balances
          bestBid  \* _bestBid

marketVars == <<usdc, bestBid>>

NoBid == [bidder |-> NoAccount, price |-> 0, expiresAt |-> 0]
Bid == [bidder : Person, price : Nat \ {0}, expiresAt : Nat]

MarketTypeOK ==
  /\ usdc \in [Person \cup {Market} -> Nat]
  /\ bestBid \in [Token -> Bid \cup {NoBid}]

---------------------------------------------------------------------------
MarketInit ==
  /\ usdc = [a \in Person \cup {Market} |-> IF a = Market THEN 0 ELSE Budget]
  /\ bestBid = [t \in Token |-> NoBid]

\* safeTransfer from the contract's balance, or reverts.
PayOut(balance, to, n) == [[balance EXCEPT ![Market] = @ - n] EXCEPT ![to] = @ + n]

\* A plausible slip: the new bid replaces the old one, which nobody refunds.
PostBidNoRefund(bidder, t, price, expiresAt) ==
  /\ price > bestBid[t].price
  /\ expiresAt > now
  /\ price <= usdc[bidder]
  /\ usdc' = [usdc EXCEPT ![bidder] = @ - price, ![Market] = @ + price]
  /\ bestBid' = [bestBid EXCEPT ![t] =
                   [bidder |-> bidder, price |-> price, expiresAt |-> expiresAt]]
  /\ UNCHANGED nftVars

\* postBid: strictly above the standing bid, even one that has expired; the token need not
\* be minted. The escrow is pulled before the standing bid is refunded.
PostBid(bidder, t, price, expiresAt) ==
  LET prev == bestBid[t]
      pulled == [usdc EXCEPT ![bidder] = @ - price, ![Market] = @ + price]
  IN /\ price > prev.price
     /\ expiresAt > now
     /\ price <= usdc[bidder]
     /\ usdc' = IF prev.bidder # NoAccount THEN PayOut(pulled, prev.bidder, prev.price)
                                           ELSE pulled
     /\ bestBid' = [bestBid EXCEPT ![t] =
                      [bidder |-> bidder, price |-> price, expiresAt |-> expiresAt]]
     /\ UNCHANGED nftVars

\* A plausible slip: the bid is still there after it was accepted.
AcceptKeepingBid(seller, t) ==
  LET bid == bestBid[t]
  IN /\ bid.bidder # NoAccount
     /\ now < bid.expiresAt
     /\ owner[t] = seller
     /\ bid.price <= usdc[Market]
     /\ ITransfer(Market, t, bid.bidder)
     /\ usdc' = PayOut(usdc, seller, bid.price)
     /\ UNCHANGED bestBid

\* accept: the owner takes the standing bid; the contract moves the token with iTransfer, which
\* it must be approved for, and releases the escrow.
Accept(seller, t) ==
  LET bid == bestBid[t]
  IN /\ bid.bidder # NoAccount
     /\ now < bid.expiresAt
     /\ owner[t] = seller
     /\ bestBid' = [bestBid EXCEPT ![t] = NoBid]
     /\ ITransfer(Market, t, bid.bidder)
     /\ bid.price <= usdc[Market]
     /\ usdc' = PayOut(usdc, seller, bid.price)

\* cancelExpired: by anyone.
CancelExpired(t) ==
  LET bid == bestBid[t]
  IN /\ bid.bidder # NoAccount
     /\ now >= bid.expiresAt
     /\ bestBid' = [bestBid EXCEPT ![t] = NoBid]
     /\ bid.price <= usdc[Market]
     /\ usdc' = PayOut(usdc, bid.bidder, bid.price)
     /\ UNCHANGED nftVars

MarketNext ==
  \/ \E p \in Person, t \in Token, price \in 1 .. Budget, e \in 1 .. MaxTime + 1 :
       PostBid(p, t, price, e)
  \/ \E p \in Person, t \in Token : Accept(p, t)
  \/ \E t \in Token : CancelExpired(t)

---------------------------------------------------------------------------
Escrow == [t \in Token |-> bestBid[t].price]

(* The contract holds exactly the standing bids of all tokens, so every refund and every     *)
(* release goes through, whichever token it is for.                                          *)
EscrowCoversBids == usdc[Market] = SumOf(Escrow)

\* The abstract specification: each standing bid is an account of its own.
Accounts == INSTANCE EscrowAccounts WITH
  Nobody <- NoAccount,
  holder <- owner,
  purse <- [p \in Person |-> usdc[p]],
  bid <- [t \in Token |-> [bidder |-> bestBid[t].bidder, price |-> bestBid[t].price]]

(* The contract, with its one balance for all bids, and everything else that moves a token,  *)
(* implement delivery against payment: money that was bid leaves the contract only to the    *)
(* owner, in the transaction that gives the token to the bidder, or back to the bidder       *)
(* (postBid's refund, accept, cancelExpired).                                                *)
DeliveryAgainstPayment == Accounts!Spec
===========================================================================
