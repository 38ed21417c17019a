--------------------------- MODULE Fractionalizer ---------------------------
(***************************************************************************)
(* Fractionalizer.sol: locks an agent's token and mints its share supply;  *)
(* whoever holds the whole supply burns it and gets the token back         *)
(* (contracts/src/shares/Fractionalizer.sol).                              *)
(* Of the ShareToken that fractionalize deploys, only the balances matter  *)
(* here; module ShareToken has the rest.                                   *)
(***************************************************************************)
EXTENDS AgentNFT

CONSTANTS ShareSupply   \* TOTAL_SUPPLY of every ShareToken

ASSUME FractionalizerAssumption == ShareSupply \in Nat \ {0}

VARIABLES active,  \* vaults[t].active
          shares   \* shares[t][h]: balances of the ShareToken in vaults[t]

lockerVars == <<active, shares>>

LockerTypeOK ==
  /\ active \in [Token -> BOOLEAN]
  /\ shares \in [Token -> [Person -> Nat]]

---------------------------------------------------------------------------
LockerInit ==
  /\ active = [t \in Token |-> FALSE]
  /\ shares = [t \in Token |-> [h \in Person |-> 0]]

\* fractionalize: by the owner, who has approved the contract; a fresh ShareToken.
Fractionalize(caller, t, recipient) ==
  /\ ~active[t]
  /\ owner[t] = caller
  /\ TransferFrom(Locker, t, Locker)
  /\ shares' = [shares EXCEPT ![t] =
                  [h \in Person |-> IF h = recipient THEN ShareSupply ELSE 0]]
  /\ active' = [active EXCEPT ![t] = TRUE]

\* redeem: the caller's balance is the whole supply, and is burned. A supply of which every
\* share was burned is everybody's whole balance.
Redeem(caller, t) ==
  /\ active[t]
  /\ shares[t][caller] = SumOf(shares[t])
  /\ shares' = [shares EXCEPT ![t][caller] = 0]
  /\ active' = [active EXCEPT ![t] = FALSE]
  /\ TransferFrom(Locker, t, caller)

\* ERC-20 balances after n went from one holder to another.
Moved(balance, from, to, n) == [[balance EXCEPT ![from] = @ - n] EXCEPT ![to] = @ + n]

\* ERC-20 transfer of the live ShareToken.
TradeShares(t, from, to, n) ==
  /\ n <= shares[t][from]
  /\ shares' = [shares EXCEPT ![t] = Moved(@, from, to, n)]
  /\ UNCHANGED <<nftVars, active>>

\* ERC20Burnable.burn of the live ShareToken.
BurnShares(t, h, n) ==
  /\ n <= shares[t][h]
  /\ shares' = [shares EXCEPT ![t][h] = @ - n]
  /\ UNCHANGED <<nftVars, active>>

LockerNext ==
  \/ \E p \in Person, t \in Token : \E r \in Person : Fractionalize(p, t, r)
  \/ \E p \in Person, t \in Token : Redeem(p, t)
  \/ \E t \in Token, n \in 1 .. ShareSupply, h \in Person :
       \/ \E to \in Person : TradeShares(t, h, to, n)
       \/ BurnShares(t, h, n)

---------------------------------------------------------------------------
(* Shares that anyone holds are backed: their token is locked in the contract, which nothing *)
(* but redeem moves it out of, and they are part of one supply. An approval given before     *)
(* the lock, a bid on the token or a second fractionalize does not break it.                 *)
SharesAreBacked ==
  \A t \in Token :
    /\ SumOf(shares[t]) > 0 => active[t]
    /\ active[t] => owner[t] = Locker
    /\ SumOf(shares[t]) <= ShareSupply
===========================================================================
