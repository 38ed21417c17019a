--------------------------- MODULE EscrowAccounts ---------------------------
(***************************************************************************)
(* What the Marketplace promises (contracts/src/market/Marketplace.sol):   *)
(* delivery against payment.  A bid is money set aside on an account of    *)
(* its own, from which it goes to the seller in the step that hands the    *)
(* token to the bidder, or back to the bidder, and nowhere else.  The one  *)
(* balance that the contract keeps, expiry, approvals and the locks are    *)
(* how the contract does it.                                               *)
(***************************************************************************)
EXTENDS Naturals

CONSTANTS Person, Token, Account, Nobody

VARIABLES holder,  \* who has a token, Nobody for none
          purse,   \* the money of a person
          bid      \* the account of a token: the money set aside and who can get it back

vars == <<holder, purse, bid>>

NoMoney == [bidder |-> Nobody, price |-> 0]

Init ==
  /\ holder \in [Token -> Account \cup {Nobody}]
  /\ purse \in [Person -> Nat]
  /\ bid = [t \in Token |-> NoMoney]

\* What p gets when b is returned.
Returned(b, p) == IF b.bidder = p THEN b.price ELSE 0

\* A higher bid takes the place of the one before, which is returned.
Place(p, t, price) ==
  /\ price > bid[t].price
  /\ purse' = [q \in Person |-> purse[q] - (IF q = p THEN price ELSE 0) + Returned(bid[t], q)]
  /\ bid' = [bid EXCEPT ![t] = [bidder |-> p, price |-> price]]
  /\ UNCHANGED holder

Withdraw(t) ==
  /\ bid[t].bidder # Nobody
  /\ purse' = [q \in Person |-> purse[q] + Returned(bid[t], q)]
  /\ bid' = [bid EXCEPT ![t] = NoMoney]
  /\ UNCHANGED holder

\* The token against the money.
Deliver(seller, t) ==
  /\ bid[t].bidder # Nobody
  /\ holder[t] = seller
  /\ holder' = [holder EXCEPT ![t] = bid[t].bidder]
  /\ purse' = [purse EXCEPT ![seller] = @ + bid[t].price]
  /\ bid' = [bid EXCEPT ![t] = NoMoney]

\* Tokens are minted and given away, which moves no money.
GiveAway(t) ==
  /\ \E a \in Account \cup {Nobody} : holder' = [holder EXCEPT ![t] = a]
  /\ UNCHANGED <<purse, bid>>

Next ==
  \E t \in Token :
    \/ \E p \in Person : \E price \in 1 .. purse[p] : Place(p, t, price)
    \/ Withdraw(t)
    \/ \E seller \in Person : Deliver(seller, t)
    \/ GiveAway(t)

Spec == Init /\ [][Next]_vars
=============================================================================
