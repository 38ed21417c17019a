------------------------- MODULE AgentMarket_proofs -------------------------
(***************************************************************************)
(* The token market, for any set of persons and renters, any number of     *)
(* tokens, any budget and any share supply: one escrow balance covers the  *)
(* bids on all tokens, outstanding shares lock their token, grants end     *)
(* with an acquisition, and the whole implements delivery against payment. *)
(***************************************************************************)
EXTENDS AgentMarket, Sums_proofs

USE AgentNFTAssumption, MarketplaceAssumption, FractionalizerAssumption

(* A grant is never stamped with a later version than the token's, and one that the version *)
(* and an expiry still support is younger than the last acquisition.                        *)
GrantsStamped ==
  \A t \in Token, u \in Renter :
    /\ grantedAtVersion[t][u] <= usageVersion[t]
    /\ grantedAtVersion[t][u] = usageVersion[t] /\ grantExpiresAt[t][u] > 0 => u \in grantedSince[t]

(* A locked token is the contract's, nobody is approved for it, nobody operates for the      *)
(* contract, and a token that is not minted has no owner.                                    *)
LocksHold ==
  /\ \A t \in Token : active[t] => owner[t] = Locker /\ approved[t] = NoAccount
  /\ \A a : <<Locker, a>> \notin approvedForAll
  /\ \A t \in Token : t > nextId => owner[t] = NoAccount

(* The inductive invariant. *)
MarketInv == TypeOK /\ GrantsStamped /\ LocksHold /\ SharesAreBacked /\ EscrowCoversBids

LEMMA TokenFacts == IsFiniteSet(Token) /\ Token \subseteq Nat \ {0} /\ IsFiniteSet(Person)
BY FS_Interval DEF Token

---------------------------------------------------------------------------
(* What a change of one bid does to the escrow. *)
Prices(bids) == [t \in Token |-> bids[t].price]

LEMMA EscrowSwap ==
  ASSUME NEW bids \in [Token -> Bid \cup {NoBid}], NEW t \in Token, NEW b \in Bid \cup {NoBid}
  PROVE  /\ SumOf(Prices(bids)) \in Nat /\ bids[t].price \in Nat /\ b.price \in Nat
         /\ bids[t].price <= SumOf(Prices(bids))
         /\ [bids EXCEPT ![t] = b] \in [Token -> Bid \cup {NoBid}]
         /\ SumOf(Prices([bids EXCEPT ![t] = b])) = SumOf(Prices(bids)) - bids[t].price + b.price
<1> DEFINE new == [bids EXCEPT ![t] = b]
           f == Prices(bids)
           g == Prices(new)
<1>1. \A c \in Bid \cup {NoBid} : c.price \in Nat
  BY DEF Bid, NoBid
<1>2. new \in [Token -> Bid \cup {NoBid}] /\ new[t] = b /\ \A u \in Token \ {t} : new[u] = bids[u]
  OBVIOUS
<1>3. /\ f \in [Token -> Nat] /\ g \in [Token -> Nat]
      /\ \A u \in Token \ {t} : g[u] = f[u]
      /\ f[t] = bids[t].price /\ g[t] = b.price
  BY <1>1, <1>2 DEF Prices
<1>4. SumOf(g) = SumOf(f) - f[t] + g[t] /\ SumOf(f) \in Nat /\ f[t] <= SumOf(f)
  <2> HIDE DEF f, g
  <2>0. IsFiniteSet(Token)
    BY TokenFacts
  <2>1. SumOf(g) = SumOf(f) - f[t] + g[t]
    BY ONLY <1>3, <2>0, t \in Token, SumUpdate
  <2>2. SumOf(f) \in Nat
    BY <1>3, SumIsNat, TokenFacts
  <2>3. f[t] <= SumOf(f)
    BY <1>3, SumBoundsTerm, TokenFacts
  <2> QED BY <2>1, <2>2, <2>3
<1> QED BY <1>1, <1>2, <1>3, <1>4

(* Money in the contract and in the purses. *)
Funded(money, bids) ==
  /\ money \in [Person \cup {Market} -> Nat]
  /\ bids \in [Token -> Bid \cup {NoBid}]
  /\ money[Market] = SumOf(Prices(bids))

LEMMA FundedIs == Funded(usdc, bestBid) <=> MarketTypeOK /\ EscrowCoversBids
BY DEF Funded, MarketTypeOK, EscrowCoversBids, Escrow, Prices

(* The three transactions of the Marketplace keep the contract funded: the pot covers every  *)
(* refund and every release.                                                                 *)
LEMMA PayOutFunded ==
  ASSUME NEW money, NEW bids, Funded(money, bids), NEW t \in Token, NEW to \in Person
  PROVE  Funded(PayOut(money, to, bids[t].price), [bids EXCEPT ![t] = NoBid])
<1>1. NoBid \in Bid \cup {NoBid} /\ NoBid.price = 0
  BY DEF NoBid
<1> DEFINE new == [bids EXCEPT ![t] = NoBid]
<1>0. bids \in [Token -> Bid \cup {NoBid}]
  BY DEF Funded
<1>5. /\ SumOf(Prices(bids)) \in Nat /\ bids[t].price \in Nat
      /\ bids[t].price <= SumOf(Prices(bids))
      /\ new \in [Token -> Bid \cup {NoBid}]
      /\ SumOf(Prices(new)) = SumOf(Prices(bids)) - bids[t].price + NoBid.price
  BY <1>0, <1>1, EscrowSwap
<1>2. /\ money \in [Person \cup {Market} -> Nat] /\ to # Market
      /\ bids[t].price \in Nat /\ bids[t].price <= money[Market]
      /\ SumOf(Prices(new)) = money[Market] - bids[t].price
  BY <1>1, <1>5 DEF Funded
<1>3. /\ PayOut(money, to, bids[t].price) \in [Person \cup {Market} -> Nat]
      /\ PayOut(money, to, bids[t].price)[Market] = money[Market] - bids[t].price
  BY <1>2 DEF PayOut
<1> QED BY <1>2, <1>3, <1>5 DEF Funded

LEMMA PostBidFunded ==
  ASSUME Funded(usdc, bestBid), NEW p \in Person, NEW t \in Token, NEW price \in 1 .. Budget,
         NEW e \in 1 .. MaxTime + 1, PostBid(p, t, price, e)
  PROVE  Funded(usdc', bestBid')
<1> DEFINE b == [bidder |-> p, price |-> price, expiresAt |-> e]
           prev == bestBid[t]
           pulled == [usdc EXCEPT ![p] = @ - price, ![Market] = @ + price]
           new == [bestBid EXCEPT ![t] = b]
<1>0. /\ usdc \in [Person \cup {Market} -> Nat] /\ bestBid \in [Token -> Bid \cup {NoBid}]
      /\ usdc[Market] = SumOf(Prices(bestBid))
      /\ b \in Bid \cup {NoBid} /\ b.price = price
  BY DEF Funded, Bid
<1>1. /\ SumOf(Prices(bestBid)) \in Nat /\ prev.price \in Nat /\ b.price \in Nat
      /\ prev.price <= SumOf(Prices(bestBid))
      /\ new \in [Token -> Bid \cup {NoBid}]
      /\ SumOf(Prices(new)) = SumOf(Prices(bestBid)) - prev.price + b.price
  <2>1. bestBid \in [Token -> Bid \cup {NoBid}] /\ b \in Bid \cup {NoBid}
    BY <1>0
  <2> HIDE DEF b
  <2> QED BY ONLY <2>1, t \in Token, EscrowSwap
<1>2. /\ price <= usdc[p] /\ bestBid' = new
      /\ usdc' = IF prev.bidder # NoAccount THEN PayOut(pulled, prev.bidder, prev.price) ELSE pulled
  BY DEF PostBid
<1>3. /\ pulled \in [Person \cup {Market} -> Nat] /\ pulled[Market] = usdc[Market] + price
  BY <1>0, <1>2
<1>4. CASE prev.bidder = NoAccount
  <2>1. prev.price = 0
    BY <1>0, <1>4 DEF Bid, NoBid
  <2> QED BY <1>0, <1>1, <1>2, <1>3, <1>4, <2>1 DEF Funded
<1>5. CASE prev.bidder # NoAccount
  <2>1. prev.bidder \in Person /\ prev.bidder # Market
    BY <1>0, <1>5 DEF Bid, NoBid
  <2>2. /\ PayOut(pulled, prev.bidder, prev.price) \in [Person \cup {Market} -> Nat]
        /\ PayOut(pulled, prev.bidder, prev.price)[Market] = usdc[Market] + price - prev.price
    <3> HIDE DEF pulled, prev
    <3> QED BY <1>0, <1>1, <1>3, <2>1 DEF PayOut
  <2>3. /\ usdc' \in [Person \cup {Market} -> Nat] /\ bestBid' \in [Token -> Bid \cup {NoBid}]
        /\ usdc'[Market] = SumOf(Prices(bestBid'))
    <3> HIDE DEF pulled, prev, new, b
    <3> QED BY <1>0, <1>1, <1>2, <1>5, <2>2
  <2> QED BY <2>3 DEF Funded
<1> QED BY <1>4, <1>5

LEMMA AcceptFunded ==
  ASSUME Funded(usdc, bestBid), NEW p \in Person, NEW t \in Token, Accept(p, t)
  PROVE  Funded(usdc', bestBid')
BY PayOutFunded DEF Accept

LEMMA CancelFunded ==
  ASSUME Funded(usdc, bestBid), NEW t \in Token, CancelExpired(t)
  PROVE  Funded(usdc', bestBid')
<1>1. bestBid[t].bidder \in Person
  BY DEF CancelExpired, Funded, Bid, NoBid
<1> QED BY <1>1, PayOutFunded DEF CancelExpired

---------------------------------------------------------------------------
(* The steps, one by one. *)
LEMMA Steps ==
  ASSUME [Next]_vars
  PROVE  \/ UNCHANGED vars
         \/ /\ UNCHANGED <<marketVars, lockerVars>>
            /\ \/ \E to \in Person \cup {Locker} : Mint(to)
               \/ \E c \in Person, t \in Token, to \in Account \cup {NoAccount} : ITransfer(c, t, to)
               \/ \E c \in Person, t \in Token, to \in Account : TransferFrom(c, t, to)
               \/ \E c \in Person, t \in Token, to \in Approvable \cup {NoAccount} : Approve(c, t, to)
               \/ \E c \in Person, t \in Token, u \in Renter, e \in 0 .. MaxTime + 1 :
                    AuthorizeUsage(c, t, u, e)
               \/ \E c \in Person, t \in Token, u \in Renter : RevokeUsage(c, t, u)
               \/ \E c \in Person, o \in Operator, on \in BOOLEAN : SetApprovalForAll(c, o, on)
               \/ Tick
         \/ /\ UNCHANGED lockerVars
            /\ \/ \E p \in Person, t \in Token, price \in 1 .. Budget, e \in 1 .. MaxTime + 1 :
                    PostBid(p, t, price, e)
               \/ \E p \in Person, t \in Token : Accept(p, t)
               \/ \E t \in Token : CancelExpired(t)
         \/ /\ UNCHANGED marketVars
            /\ \/ \E p \in Person, t \in Token, r \in Person : Fractionalize(p, t, r)
               \/ \E p \in Person, t \in Token : Redeem(p, t)
               \/ \E t \in Token, n \in 1 .. ShareSupply, h, to \in Person : TradeShares(t, h, to, n)
               \/ \E t \in Token, n \in 1 .. ShareSupply, h \in Person : BurnShares(t, h, n)
BY DEF Next, NFTNext, MarketNext, LockerNext

(* The escrow, whatever is done. *)
LEMMA FundedStep ==
  ASSUME Funded(usdc, bestBid), [Next]_vars
  PROVE  Funded(usdc', bestBid')
<1>1. CASE UNCHANGED marketVars
  BY <1>1 DEF marketVars
<1>2. CASE \E p \in Person, t \in Token, price \in 1 .. Budget, e \in 1 .. MaxTime + 1 :
             PostBid(p, t, price, e)
  BY <1>2, PostBidFunded
<1>3. CASE \E p \in Person, t \in Token : Accept(p, t)
  BY <1>3, AcceptFunded
<1>4. CASE \E t \in Token : CancelExpired(t)
  BY <1>4, CancelFunded
<1>5. UNCHANGED vars => UNCHANGED marketVars
  BY DEF vars
<1> QED BY <1>1, <1>2, <1>3, <1>4, <1>5, Steps

---------------------------------------------------------------------------
LEMMA TypeInit == Init => TypeOK
BY TokenFacts DEF Init, NFTInit, MarketInit, LockerInit, TypeOK, NFTTypeOK, MarketTypeOK,
                  LockerTypeOK, NoBid

(* A transfer keeps the token's types, whoever makes it. *)
LEMMA TransferTypes ==
  ASSUME NFTTypeOK, NEW c, NEW t \in Token, NEW to \in Account \cup {NoAccount},
         ITransfer(c, t, to) \/ TransferFrom(c, t, to)
  PROVE  NFTTypeOK'
<1>1. CASE ITransfer(c, t, to)
  BY <1>1 DEF NFTTypeOK, ITransfer, Update
<1>2. CASE TransferFrom(c, t, to)
  BY <1>2 DEF NFTTypeOK, TransferFrom, Update, grantVars
<1> QED BY <1>1, <1>2

LEMMA NFTTypeStep ==
  ASSUME TypeOK, [Next]_vars
  PROVE  NFTTypeOK'
<1>0. NFTTypeOK /\ Token \subseteq Nat /\ nextId + 1 \in Int
  BY TokenFacts DEF TypeOK, NFTTypeOK
<1>1. CASE UNCHANGED nftVars
  BY <1>0, <1>1 DEF nftVars, grantVars, NFTTypeOK
<1>2. ASSUME NEW to \in Person \cup {Locker}, Mint(to) PROVE NFTTypeOK'
  BY <1>0, <1>2 DEF NFTTypeOK, Mint, grantVars, Account, Token
<1>3. ASSUME NEW c \in Person, NEW t \in Token, NEW to \in Approvable \cup {NoAccount}, Approve(c, t, to)
      PROVE  NFTTypeOK'
  BY <1>0, <1>3 DEF NFTTypeOK, Approve, grantVars
<1>4. ASSUME NEW c \in Person, NEW t \in Token, NEW u \in Renter, NEW e \in 0 .. MaxTime + 1,
             AuthorizeUsage(c, t, u, e)
      PROVE  NFTTypeOK'
  BY <1>0, <1>4 DEF NFTTypeOK, AuthorizeUsage
<1>5. ASSUME NEW c \in Person, NEW t \in Token, NEW u \in Renter, RevokeUsage(c, t, u)
      PROVE  NFTTypeOK'
  BY <1>0, <1>5 DEF NFTTypeOK, RevokeUsage
<1>6. ASSUME NEW c \in Person, NEW o \in Operator, NEW on \in BOOLEAN, SetApprovalForAll(c, o, on)
      PROVE  NFTTypeOK'
  BY <1>0, <1>6 DEF NFTTypeOK, SetApprovalForAll, grantVars, Account
<1>7. CASE Tick
  BY <1>0, <1>7 DEF NFTTypeOK, Tick, grantVars
<1>8. ASSUME NEW p \in Person, NEW t \in Token, Accept(p, t) PROVE NFTTypeOK'
  <2>1. bestBid[t].bidder \in Account \cup {NoAccount}
    BY DEF TypeOK, MarketTypeOK, Bid, NoBid, Account
  <2> QED BY <1>0, <1>8, <2>1, TransferTypes DEF Accept
<1>9. ASSUME NEW p \in Person, NEW t \in Token, NEW r \in Person,
             Fractionalize(p, t, r) \/ Redeem(p, t)
      PROVE  NFTTypeOK'
  BY <1>0, <1>9, TransferTypes DEF Fractionalize, Redeem, Account
<1>10. ASSUME NEW c \in Person, NEW t \in Token, NEW to \in Account \cup {NoAccount},
              ITransfer(c, t, to) \/ TransferFrom(c, t, to)
       PROVE  NFTTypeOK'
  BY <1>0, <1>10, TransferTypes
<1>11. \/ UNCHANGED vars
       \/ \E p \in Person, t \in Token, price \in 1 .. Budget, e \in 1 .. MaxTime + 1 : PostBid(p, t, price, e)
       \/ \E t \in Token : CancelExpired(t)
       \/ \E t \in Token, n \in 1 .. ShareSupply, h, to \in Person : TradeShares(t, h, to, n)
       \/ \E t \in Token, n \in 1 .. ShareSupply, h \in Person : BurnShares(t, h, n)
       => UNCHANGED nftVars
  BY DEF vars, PostBid, CancelExpired, TradeShares, BurnShares
<1> QED BY <1>1, <1>2, <1>3, <1>4, <1>5, <1>6, <1>7, <1>8, <1>9, <1>10, <1>11, Steps

---------------------------------------------------------------------------
(* Nobody but the contract itself can move a locked token. *)
LEMMA Unlocked ==
  ASSUME LocksHold, NEW c \in Person \cup {Market}, NEW t \in Token, ApprovedOrOwner(c, t)
  PROVE  ~active[t] /\ ~(t > nextId)
<1>1. c # Locker /\ c # NoAccount /\ Locker # NoAccount
  OBVIOUS
<1> QED BY <1>1 DEF LocksHold, ApprovedOrOwner

LEMMA LocksInit == Init => LocksHold
BY DEF Init, NFTInit, LockerInit, LocksHold

LEMMA LocksStep ==
  ASSUME TypeOK, LocksHold, [Next]_vars
  PROVE  LocksHold'
<1>0. /\ nextId \in Nat /\ Token \subseteq Nat /\ Locker \notin Person /\ NoAccount \notin Person
      /\ Locker # NoAccount /\ Market # Locker /\ Market # NoAccount
      /\ active \in [Token -> BOOLEAN] /\ owner \in [Token -> Account \cup {NoAccount}]
      /\ approved \in [Token -> Account \cup {NoAccount}]
  BY TokenFacts DEF TypeOK, NFTTypeOK, LockerTypeOK
<1>1. CASE UNCHANGED <<owner, approved, approvedForAll, nextId, active>>
  BY <1>1 DEF LocksHold
<1>2. ASSUME NEW to \in Person \cup {Locker}, Mint(to), UNCHANGED active PROVE LocksHold'
  BY <1>0, <1>2 DEF LocksHold, Mint
<1>3. ASSUME NEW c \in Person \cup {Market}, NEW t \in Token, NEW to \in Account \cup {NoAccount},
             ITransfer(c, t, to) \/ TransferFrom(c, t, to), UNCHANGED active
      PROVE  LocksHold'
  <2>1. ~active[t] /\ ~(t > nextId)
    BY <1>3, Unlocked DEF ITransfer, TransferFrom
  <2>2. /\ owner' = [owner EXCEPT ![t] = to] /\ approved' = [approved EXCEPT ![t] = NoAccount]
        /\ UNCHANGED <<approvedForAll, nextId, active>>
    BY <1>3 DEF ITransfer, TransferFrom, Update
  <2> QED BY <1>0, <2>1, <2>2 DEF LocksHold
<1>4. ASSUME NEW c \in Person, NEW t \in Token, NEW to \in Approvable \cup {NoAccount}, Approve(c, t, to),
             UNCHANGED active
      PROVE  LocksHold'
  <2>1. ~active[t]
    BY <1>0, <1>4 DEF LocksHold, Approve
  <2> QED BY <1>0, <1>4, <2>1 DEF LocksHold, Approve
<1>5. ASSUME NEW c \in Person, NEW o \in Operator, NEW on \in BOOLEAN, SetApprovalForAll(c, o, on),
             UNCHANGED active
      PROVE  LocksHold'
  BY <1>0, <1>5 DEF LocksHold, SetApprovalForAll
<1>6. ASSUME NEW p \in Person, NEW t \in Token, Accept(p, t), UNCHANGED active PROVE LocksHold'
  <2>1. bestBid[t].bidder \in Account \cup {NoAccount}
    BY DEF TypeOK, MarketTypeOK, Bid, NoBid, Account
  <2> QED BY <1>3, <1>6, <2>1 DEF Accept
<1>7. ASSUME NEW p \in Person, NEW t \in Token, NEW r \in Person, Fractionalize(p, t, r)
      PROVE  LocksHold'
  <2>1. /\ owner' = [owner EXCEPT ![t] = Locker] /\ approved' = [approved EXCEPT ![t] = NoAccount]
        /\ active' = [active EXCEPT ![t] = TRUE] /\ UNCHANGED <<approvedForAll, nextId>>
        /\ ~(t > nextId)
    BY <1>0, <1>7 DEF Fractionalize, TransferFrom, Update, LocksHold
  <2> QED BY <1>0, <2>1 DEF LocksHold
<1>8. ASSUME NEW p \in Person, NEW t \in Token, Redeem(p, t) PROVE LocksHold'
  <2>1. /\ owner' = [owner EXCEPT ![t] = p] /\ approved' = [approved EXCEPT ![t] = NoAccount]
        /\ active' = [active EXCEPT ![t] = FALSE] /\ UNCHANGED <<approvedForAll, nextId>>
        /\ ~(t > nextId)
    BY <1>0, <1>8 DEF Redeem, TransferFrom, Update, LocksHold
  <2> QED BY <1>0, <2>1 DEF LocksHold
<1>9. UNCHANGED lockerVars => UNCHANGED active
  BY DEF lockerVars
<1>10. \/ UNCHANGED vars
       \/ /\ UNCHANGED active
          /\ \/ \E c \in Person, t \in Token, u \in Renter, e \in 0 .. MaxTime + 1 :
                  AuthorizeUsage(c, t, u, e)
             \/ \E c \in Person, t \in Token, u \in Renter : RevokeUsage(c, t, u)
             \/ Tick
             \/ \E p \in Person, t \in Token, price \in 1 .. Budget, e \in 1 .. MaxTime + 1 :
                  PostBid(p, t, price, e)
             \/ \E t \in Token : CancelExpired(t)
       \/ \E t \in Token, n \in 1 .. ShareSupply, h, to \in Person : TradeShares(t, h, to, n)
       \/ \E t \in Token, n \in 1 .. ShareSupply, h \in Person : BurnShares(t, h, n)
       => UNCHANGED <<owner, approved, approvedForAll, nextId, active>>
  BY DEF vars, nftVars, lockerVars, AuthorizeUsage, RevokeUsage, Tick, PostBid, CancelExpired,
         TradeShares, BurnShares
<1>11. CASE \E c \in Person, t \in Token, to \in Account \cup {NoAccount} :
              UNCHANGED active /\ (ITransfer(c, t, to) \/ TransferFrom(c, t, to))
  BY <1>3, <1>11
<1> QED BY <1>1, <1>2, <1>4, <1>5, <1>6, <1>7, <1>8, <1>9, <1>10, <1>11, Steps DEF lockerVars

---------------------------------------------------------------------------
(* The shares of one token: a trade moves some, a burn takes some away, a redemption the     *)
(* rest.                                                                                     *)
LEMMA SharesMoved ==
  ASSUME NEW f \in [Person -> Nat], NEW from \in Person, NEW to \in Person, NEW n \in Nat, n <= f[from]
  PROVE  /\ Moved(f, from, to, n) \in [Person -> Nat]
         /\ SumOf(Moved(f, from, to, n)) = SumOf(f)
<1> DEFINE mid == [f EXCEPT ![from] = @ - n]
           g == [mid EXCEPT ![to] = @ + n]
<1>1. /\ mid \in [Person -> Nat] /\ mid[from] = f[from] - n
      /\ \A y \in Person \ {from} : mid[y] = f[y]
  OBVIOUS
<1>2. /\ g \in [Person -> Nat] /\ g[to] = mid[to] + n
      /\ \A y \in Person \ {to} : g[y] = mid[y]
  <2> HIDE DEF mid
  <2> QED BY <1>1
<1> HIDE DEF mid, g
<1>3. SumOf(mid) = SumOf(f) - f[from] + mid[from]
  BY <1>1, SumUpdate, TokenFacts
<1>4. SumOf(g) = SumOf(mid) - mid[to] + g[to]
  BY <1>1, <1>2, SumUpdate, TokenFacts
<1>5. SumOf(f) \in Nat /\ SumOf(mid) \in Nat
  BY <1>1, SumIsNat, TokenFacts
<1>6. f[from] \in Nat /\ mid[to] \in Nat
  BY <1>1
<1>7. SumOf(g) = SumOf(f)
  BY <1>1, <1>2, <1>3, <1>4, <1>5, <1>6
<1> QED BY <1>2, <1>7 DEF mid, g, Moved

LEMMA SharesTaken ==
  ASSUME NEW f \in [Person -> Nat], NEW h \in Person, NEW n \in Nat, n <= f[h]
  PROVE  /\ [f EXCEPT ![h] = @ - n] \in [Person -> Nat]
         /\ SumOf([f EXCEPT ![h] = @ - n]) = SumOf(f) - n
<1> DEFINE g == [f EXCEPT ![h] = @ - n]
<1>1. /\ g \in [Person -> Nat] /\ g[h] = f[h] - n /\ \A y \in Person \ {h} : g[y] = f[y]
  OBVIOUS
<1> HIDE DEF g
<1>2. SumOf(g) = SumOf(f) - f[h] + g[h] /\ SumOf(f) \in Nat
  BY <1>1, SumUpdate, SumIsNat, TokenFacts
<1>3. SumOf(g) = SumOf(f) - n
  BY <1>1, <1>2
<1> QED BY <1>1, <1>3 DEF g

LEMMA SharesMinted ==
  ASSUME NEW r \in Person
  PROVE  /\ [h \in Person |-> IF h = r THEN ShareSupply ELSE 0] \in [Person -> Nat]
         /\ SumOf([h \in Person |-> IF h = r THEN ShareSupply ELSE 0]) = ShareSupply
<1> DEFINE g == [h \in Person |-> IF h = r THEN ShareSupply ELSE 0]
<1>1. g \in [Person -> Nat] /\ g[r] = ShareSupply /\ \A y \in Person \ {r} : g[y] = 0
  OBVIOUS
<1> HIDE DEF g
<1>2. SumOf(g) = g[r]
  BY <1>1, SumOfOne, TokenFacts
<1> QED BY <1>1, <1>2 DEF g

LEMMA LockerTypeInit == Init => LockerTypeOK /\ SharesAreBacked
<1> SUFFICES ASSUME Init PROVE LockerTypeOK /\ SharesAreBacked
  OBVIOUS
<1>1. LockerTypeOK /\ \A t \in Token : ~active[t]
  BY DEF Init, LockerInit, LockerTypeOK
<1>2. ASSUME NEW t \in Token PROVE SumOf(shares[t]) = 0
  <2>1. shares[t] \in [Person -> Nat] /\ \A y \in Person : shares[t][y] = 0
    BY DEF Init, LockerInit
  <2> QED BY <2>1, SumOfZeros
<1> QED BY <1>1, <1>2 DEF SharesAreBacked

(* What a step of the Fractionalizer leaves in its books. *)
LEMMA SharesStep ==
  ASSUME TypeOK, LocksHold, SharesAreBacked, [Next]_vars
  PROVE  LockerTypeOK' /\ SharesAreBacked'
<1>0. /\ active \in [Token -> BOOLEAN] /\ shares \in [Token -> [Person -> Nat]]
      /\ \A t \in Token : /\ SumOf(shares[t]) <= ShareSupply /\ SumOf(shares[t]) \in Nat
                          /\ SumOf(shares[t]) > 0 => active[t]
  BY SumIsNat, TokenFacts DEF TypeOK, LockerTypeOK, SharesAreBacked
<1>1. LocksHold'
  BY LocksStep
<1>2. ASSUME NEW t \in Token, NEW f \in [Person -> Nat], NEW on \in BOOLEAN,
             shares' = [shares EXCEPT ![t] = f], active' = [active EXCEPT ![t] = on],
             SumOf(f) <= ShareSupply, SumOf(f) > 0 => on
      PROVE  LockerTypeOK' /\ SharesAreBacked'
  BY <1>0, <1>1, <1>2 DEF LockerTypeOK, SharesAreBacked, LocksHold
<1>3. CASE UNCHANGED lockerVars
  BY <1>0, <1>1, <1>3 DEF lockerVars, LockerTypeOK, SharesAreBacked, LocksHold
<1>4. ASSUME NEW p \in Person, NEW t \in Token, NEW r \in Person, Fractionalize(p, t, r)
      PROVE  LockerTypeOK' /\ SharesAreBacked'
  <2> DEFINE f == [h \in Person |-> IF h = r THEN ShareSupply ELSE 0]
  <2>1. shares' = [shares EXCEPT ![t] = f] /\ active' = [active EXCEPT ![t] = TRUE]
    BY <1>4 DEF Fractionalize
  <2>2. f \in [Person -> Nat] /\ SumOf(f) = ShareSupply
    BY SharesMinted
  <2>3. SumOf(f) <= ShareSupply
    BY <2>2
  <2> HIDE DEF f
  <2> QED BY <1>2, <2>1, <2>2, <2>3
<1>5. ASSUME NEW p \in Person, NEW t \in Token, Redeem(p, t)
      PROVE  LockerTypeOK' /\ SharesAreBacked'
  <2> DEFINE n == shares[t][p]
             f == [shares[t] EXCEPT ![p] = 0]
  <2>1. n \in Nat /\ n = SumOf(shares[t]) /\ shares[t] \in [Person -> Nat]
    BY <1>0, <1>5 DEF Redeem
  <2>2. shares' = [shares EXCEPT ![t] = f] /\ active' = [active EXCEPT ![t] = FALSE]
    BY <1>5 DEF Redeem
  <2>3. f \in [Person -> Nat] /\ SumOf(f) = SumOf(shares[t]) - n
    <3>1. f = [shares[t] EXCEPT ![p] = @ - n]
      BY <2>1
    <3> HIDE DEF f
    <3> QED BY <2>1, <3>1, SharesTaken
  <2> HIDE DEF f, n
  <2>4. SumOf(f) <= ShareSupply /\ (SumOf(f) > 0 => FALSE)
    BY <2>1, <2>3
  <2> QED BY <1>2, <2>2, <2>3, <2>4
<1>6. ASSUME NEW t \in Token, NEW n \in 1 .. ShareSupply, NEW h \in Person, NEW to \in Person,
             TradeShares(t, h, to, n)
      PROVE  LockerTypeOK' /\ SharesAreBacked'
  <2> DEFINE bal == shares[t]
             f == Moved(bal, h, to, n)
  <2>1. n \in Nat /\ n <= bal[h] /\ bal \in [Person -> Nat]
    BY <1>0, <1>6 DEF TradeShares
  <2>2. shares' = [shares EXCEPT ![t] = f]
    BY <1>6 DEF TradeShares
  <2>3. active' = [active EXCEPT ![t] = active[t]]
    BY <1>0, <1>6 DEF TradeShares
  <2>4. f \in [Person -> Nat] /\ SumOf(f) = SumOf(bal)
    <3> HIDE DEF bal
    <3> QED BY <2>1, SharesMoved
  <2>5. SumOf(f) <= ShareSupply /\ (SumOf(f) > 0 => active[t]) /\ active[t] \in BOOLEAN
    BY <1>0, <2>4
  <2> HIDE DEF f, bal
  <2> QED BY <1>2, <2>2, <2>3, <2>4, <2>5
<1>7. ASSUME NEW t \in Token, NEW n \in 1 .. ShareSupply, NEW h \in Person, BurnShares(t, h, n)
      PROVE  LockerTypeOK' /\ SharesAreBacked'
  <2> DEFINE f == [shares[t] EXCEPT ![h] = @ - n]
  <2>1. n \in Nat /\ n <= shares[t][h] /\ shares[t] \in [Person -> Nat]
    BY <1>0, <1>7 DEF BurnShares
  <2>2. shares' = [shares EXCEPT ![t] = f] /\ active' = [active EXCEPT ![t] = active[t]]
    <3>1. active' = active
      BY <1>7 DEF BurnShares
    <3>2. active = [active EXCEPT ![t] = active[t]]
      BY <1>0
    <3> QED BY <1>7, <3>1, <3>2 DEF BurnShares
  <2>3. f \in [Person -> Nat] /\ SumOf(f) = SumOf(shares[t]) - n
    BY <2>1, SharesTaken
  <2> HIDE DEF f
  <2>4. SumOf(f) <= ShareSupply /\ (SumOf(f) > 0 => active[t])
    BY <1>0, <2>1, <2>3
  <2> QED BY <1>0, <1>2, <2>2, <2>3, <2>4
<1>8. UNCHANGED vars => UNCHANGED lockerVars
  BY DEF vars
<1> QED BY <1>3, <1>4, <1>5, <1>6, <1>7, <1>8, Steps

---------------------------------------------------------------------------
LEMMA GrantsInit == Init => GrantsStamped
BY DEF Init, NFTInit, GrantsStamped

LEMMA GrantsStep ==
  ASSUME TypeOK, GrantsStamped, [Next]_vars
  PROVE  GrantsStamped'
<1>0. /\ usageVersion \in [Token -> Nat] /\ grantedAtVersion \in [Token -> [Renter -> Nat]]
      /\ grantExpiresAt \in [Token -> [Renter -> Nat]] /\ grantedSince \in [Token -> SUBSET Renter]
  BY DEF TypeOK, NFTTypeOK
<1>1. CASE UNCHANGED grantVars
  BY <1>1 DEF grantVars, GrantsStamped
<1>2. ASSUME NEW c, NEW t \in Token, NEW to, ITransfer(c, t, to) PROVE GrantsStamped'
  BY <1>0, <1>2 DEF ITransfer, GrantsStamped
<1>3. ASSUME NEW c \in Person, NEW t \in Token, NEW u \in Renter, NEW e \in 0 .. MaxTime + 1,
             AuthorizeUsage(c, t, u, e)
      PROVE  GrantsStamped'
  BY <1>0, <1>3 DEF AuthorizeUsage, GrantsStamped
<1>4. ASSUME NEW c \in Person, NEW t \in Token, NEW u \in Renter, RevokeUsage(c, t, u)
      PROVE  GrantsStamped'
  BY <1>0, <1>4 DEF RevokeUsage, GrantsStamped
<1>5. ASSUME NEW p \in Person, NEW t \in Token, Accept(p, t) PROVE GrantsStamped'
  BY <1>2, <1>5 DEF Accept
<1>6. \/ UNCHANGED vars
      \/ \E to \in Person \cup {Locker} : Mint(to)
      \/ \E c \in Person, t \in Token, to \in Account : TransferFrom(c, t, to)
      \/ \E c \in Person, t \in Token, to \in Approvable \cup {NoAccount} : Approve(c, t, to)
      \/ \E c \in Person, o \in Operator, on \in BOOLEAN : SetApprovalForAll(c, o, on)
      \/ Tick
      \/ \E p \in Person, t \in Token, price \in 1 .. Budget, e \in 1 .. MaxTime + 1 : PostBid(p, t, price, e)
      \/ \E t \in Token : CancelExpired(t)
      \/ \E p \in Person, t \in Token, r \in Person : Fractionalize(p, t, r)
      \/ \E p \in Person, t \in Token : Redeem(p, t)
      \/ \E t \in Token, n \in 1 .. ShareSupply, h, to \in Person : TradeShares(t, h, to, n)
      \/ \E t \in Token, n \in 1 .. ShareSupply, h \in Person : BurnShares(t, h, n)
      => UNCHANGED grantVars
  BY DEF vars, nftVars, Mint, TransferFrom, Approve, SetApprovalForAll, Tick, PostBid, CancelExpired,
         Fractionalize, Redeem, TradeShares, BurnShares
<1> QED BY <1>1, <1>2, <1>3, <1>4, <1>5, <1>6, Steps

---------------------------------------------------------------------------
LEMMA InvInit == Init => MarketInv
<1> SUFFICES ASSUME Init PROVE MarketInv
  OBVIOUS
<1>1. TypeOK /\ GrantsStamped /\ LocksHold /\ SharesAreBacked
  BY TypeInit, GrantsInit, LocksInit, LockerTypeInit
<1>2. Escrow \in [Token -> Nat] /\ \A t \in Token : Escrow[t] = 0
  BY DEF Init, MarketInit, Escrow, NoBid
<1>3. SumOf(Escrow) = 0
  BY <1>2, SumOfZeros
<1>4. usdc[Market] = 0
  BY DEF Init, MarketInit
<1> QED BY <1>1, <1>3, <1>4 DEF MarketInv, EscrowCoversBids

LEMMA InvStep == MarketInv /\ [Next]_vars => MarketInv'
<1> SUFFICES ASSUME MarketInv, [Next]_vars PROVE MarketInv'
  OBVIOUS
<1>1. TypeOK /\ GrantsStamped /\ LocksHold /\ SharesAreBacked /\ EscrowCoversBids
  BY DEF MarketInv
<1>2. NFTTypeOK' /\ GrantsStamped' /\ LocksHold' /\ LockerTypeOK' /\ SharesAreBacked'
  BY <1>1, NFTTypeStep, GrantsStep, LocksStep, SharesStep
<1>3. Funded(usdc, bestBid)
  BY <1>1, FundedIs DEF TypeOK
<1>4. Funded(usdc', bestBid')
  BY <1>3, FundedStep
<1>5. MarketTypeOK' /\ EscrowCoversBids'
  BY <1>4 DEF Funded, MarketTypeOK, EscrowCoversBids, Escrow, Prices
<1> QED BY <1>2, <1>5 DEF MarketInv, TypeOK

(* The inductive invariant holds in every reachable state. *)
THEOREM MarketInvariant == Spec => []MarketInv
<1>1. Init => MarketInv
  BY InvInit
<1>2. MarketInv /\ [Next]_vars => MarketInv'
  BY InvStep
<1> QED BY <1>1, <1>2, PTL DEF Spec

(* Type correctness of the token, the Marketplace and the Fractionalizer together.           *)
THEOREM TypeCorrect == Spec => []TypeOK
<1>1. MarketInv => TypeOK
  BY DEF MarketInv
<1> QED BY <1>1, MarketInvariant, PTL

(* postBid, accept, cancelExpired: one contract balance covers the standing bids on all      *)
(* tokens, however many tokens and bidders there are.                                        *)
THEOREM EscrowCovered == Spec => []EscrowCoversBids
<1>1. MarketInv => EscrowCoversBids
  BY DEF MarketInv
<1> QED BY <1>1, MarketInvariant, PTL

(* fractionalize, redeem and every other way to move a token or a share: outstanding shares  *)
(* are part of one supply and their token is locked.                                         *)
THEOREM SharesBacked == Spec => []SharesAreBacked
<1>1. MarketInv => SharesAreBacked
  BY DEF MarketInv
<1> QED BY <1>1, MarketInvariant, PTL

(* iTransfer, authorizeUsage, revokeUsage: a live grant was issued after the token's last    *)
(* acquisition.                                                                              *)
THEOREM GrantsEnd == Spec => []GrantsEndWithAcquisition
<1>1. MarketInv => GrantsEndWithAcquisition
  BY DEF MarketInv, TypeOK, NFTTypeOK, GrantsStamped, GrantsEndWithAcquisition, IsAuthorized
<1> QED BY <1>1, MarketInvariant, PTL

---------------------------------------------------------------------------
(* The refinement. *)
LEMMA InitAccounts == Init => Accounts!Init
BY DEF Init, NFTInit, MarketInit, NoBid, Accounts!Init, Accounts!NoMoney, Account

LEMMA PostBidPlaces ==
  ASSUME MarketTypeOK, NEW p \in Person, NEW t \in Token, NEW price \in 1 .. Budget,
         NEW e \in 1 .. MaxTime + 1, PostBid(p, t, price, e)
  PROVE  Accounts!Next
<1>0. /\ usdc \in [Person \cup {Market} -> Nat] /\ bestBid \in [Token -> Bid \cup {NoBid}]
      /\ price \in 1 .. usdc[p] /\ UNCHANGED owner
  BY DEF MarketTypeOK, PostBid, nftVars
<1>1. bestBid' = [bestBid EXCEPT ![t] = [bidder |-> p, price |-> price, expiresAt |-> e]]
  BY DEF PostBid
<1>2. ASSUME NEW q \in Person
      PROVE  usdc'[q] = usdc[q] - (IF q = p THEN price ELSE 0)
                          + (IF bestBid[t].bidder = q THEN bestBid[t].price ELSE 0)
  <2>1. bestBid[t].price \in Nat /\ (bestBid[t].bidder # NoAccount => bestBid[t].bidder \in Person)
    BY <1>0 DEF Bid, NoBid
  <2> QED BY <1>0, <2>1 DEF PostBid, PayOut
<1>3. Accounts!Place(p, t, price)
  <2>1. price > bestBid[t].price
    BY DEF PostBid
  <2>2. [u \in Token |-> [bidder |-> bestBid'[u].bidder, price |-> bestBid'[u].price]]
          = [[u \in Token |-> [bidder |-> bestBid[u].bidder, price |-> bestBid[u].price]]
               EXCEPT ![t] = [bidder |-> p, price |-> price]]
    BY <1>0, <1>1
  <2> QED BY <1>0, <1>2, <2>1, <2>2 DEF Accounts!Place, Accounts!Returned
<1> QED BY <1>0, <1>3 DEF Accounts!Next

LEMMA CancelWithdraws ==
  ASSUME MarketTypeOK, NEW t \in Token, CancelExpired(t)
  PROVE  Accounts!Next
<1>0. /\ usdc \in [Person \cup {Market} -> Nat] /\ bestBid \in [Token -> Bid \cup {NoBid}]
      /\ UNCHANGED owner /\ bestBid' = [bestBid EXCEPT ![t] = NoBid]
      /\ bestBid[t].bidder # NoAccount
  BY DEF MarketTypeOK, CancelExpired, nftVars
<1>1. bestBid[t].price \in Nat /\ bestBid[t].bidder \in Person
  BY <1>0 DEF Bid, NoBid
<1>2. ASSUME NEW q \in Person
      PROVE  usdc'[q] = usdc[q] + (IF bestBid[t].bidder = q THEN bestBid[t].price ELSE 0)
  BY <1>0, <1>1 DEF CancelExpired, PayOut
<1>3. Accounts!Withdraw(t)
  BY <1>0, <1>2 DEF Accounts!Withdraw, Accounts!Returned, Accounts!NoMoney, NoBid
<1> QED BY <1>3 DEF Accounts!Next

LEMMA AcceptDelivers ==
  ASSUME MarketTypeOK, NEW p \in Person, NEW t \in Token, Accept(p, t), owner \in [Token -> Account \cup {NoAccount}]
  PROVE  Accounts!Next
<1>0. /\ usdc \in [Person \cup {Market} -> Nat] /\ bestBid \in [Token -> Bid \cup {NoBid}]
      /\ bestBid' = [bestBid EXCEPT ![t] = NoBid] /\ bestBid[t].bidder # NoAccount
      /\ owner[t] = p /\ owner' = [owner EXCEPT ![t] = bestBid[t].bidder]
      /\ usdc' = PayOut(usdc, p, bestBid[t].price)
  BY DEF MarketTypeOK, Accept, ITransfer, Update
<1>1. bestBid[t].price \in Nat
  BY <1>0 DEF Bid, NoBid
<1>2. \A q \in Person : usdc'[q] = IF q = p THEN usdc[q] + bestBid[t].price ELSE usdc[q]
  BY <1>0, <1>1 DEF PayOut
<1>3. Accounts!Deliver(p, t)
  BY <1>0, <1>2 DEF Accounts!Deliver, Accounts!NoMoney, NoBid
<1> QED BY <1>3 DEF Accounts!Next

(* A token that moves by itself. *)
LEMMA MoveGivesAway ==
  ASSUME NEW t \in Token, NEW to \in Account \cup {NoAccount}, owner' = [owner EXCEPT ![t] = to],
         UNCHANGED marketVars
  PROVE  Accounts!Next
<1>1. Accounts!GiveAway(t)
  BY DEF Accounts!GiveAway, marketVars
<1> QED BY <1>1 DEF Accounts!Next

LEMMA StepAccounts == MarketInv /\ [Next]_vars => [Accounts!Next]_Accounts!vars
<1> SUFFICES ASSUME MarketInv, [Next]_vars PROVE Accounts!Next \/ UNCHANGED Accounts!vars
  OBVIOUS
<1>0. /\ MarketTypeOK /\ owner \in [Token -> Account \cup {NoAccount}] /\ nextId \in 0 .. MaxToken
  BY DEF MarketInv, TypeOK, NFTTypeOK
<1>1. UNCHANGED <<owner, usdc, bestBid>> => UNCHANGED Accounts!vars
  BY DEF Accounts!vars
<1>2. ASSUME NEW to \in Person \cup {Locker}, Mint(to), UNCHANGED marketVars PROVE Accounts!Next
  <2>1. nextId + 1 \in Token /\ owner' = [owner EXCEPT ![nextId + 1] = to]
    BY <1>0, <1>2 DEF Mint, Token
  <2> QED BY <1>2, <2>1, MoveGivesAway DEF Account
<1>3. ASSUME NEW c, NEW t \in Token, NEW to \in Account \cup {NoAccount},
             ITransfer(c, t, to) \/ TransferFrom(c, t, to), UNCHANGED marketVars
      PROVE  Accounts!Next
  <2>1. owner' = [owner EXCEPT ![t] = to]
    BY <1>3 DEF ITransfer, TransferFrom, Update
  <2> QED BY <1>3, <2>1, MoveGivesAway
<1>4. ASSUME NEW p \in Person, NEW t \in Token, NEW r \in Person,
             Fractionalize(p, t, r) \/ Redeem(p, t), UNCHANGED marketVars
      PROVE  Accounts!Next
  BY <1>3, <1>4 DEF Fractionalize, Redeem, Account
<1>5. \/ UNCHANGED vars
      \/ /\ UNCHANGED marketVars
         /\ \/ \E c \in Person, t \in Token, to \in Approvable \cup {NoAccount} : Approve(c, t, to)
            \/ \E c \in Person, t \in Token, u \in Renter, e \in 0 .. MaxTime + 1 :
                 AuthorizeUsage(c, t, u, e)
            \/ \E c \in Person, t \in Token, u \in Renter : RevokeUsage(c, t, u)
            \/ \E c \in Person, o \in Operator, on \in BOOLEAN : SetApprovalForAll(c, o, on)
            \/ Tick
            \/ \E t \in Token, n \in 1 .. ShareSupply, h, to \in Person : TradeShares(t, h, to, n)
            \/ \E t \in Token, n \in 1 .. ShareSupply, h \in Person : BurnShares(t, h, n)
      => UNCHANGED <<owner, usdc, bestBid>>
  BY DEF vars, nftVars, marketVars, Approve, AuthorizeUsage, RevokeUsage, SetApprovalForAll, Tick,
         TradeShares, BurnShares
<1>6. CASE \E c \in Person, t \in Token, to \in Account \cup {NoAccount} :
             UNCHANGED marketVars /\ (ITransfer(c, t, to) \/ TransferFrom(c, t, to))
  BY <1>3, <1>6
<1>7. CASE \E p \in Person, t \in Token, price \in 1 .. Budget, e \in 1 .. MaxTime + 1 :
             PostBid(p, t, price, e)
  BY <1>0, <1>7, PostBidPlaces
<1>8. CASE \E p \in Person, t \in Token : Accept(p, t)
  BY <1>0, <1>8, AcceptDelivers
<1>9. CASE \E t \in Token : CancelExpired(t)
  BY <1>0, <1>9, CancelWithdraws
<1> QED BY <1>1, <1>2, <1>4, <1>5, <1>6, <1>7, <1>8, <1>9, Steps

(* The market implements delivery against payment: bid money leaves the contract to the      *)
(* owner only with the token going to the bidder, and otherwise only back to the bidder.     *)
THEOREM DeliversAgainstPayment == Spec => DeliveryAgainstPayment
<1>1. Init => Accounts!Init
  BY InitAccounts
<1>2. MarketInv /\ [Next]_vars => [Accounts!Next]_Accounts!vars
  BY StepAccounts
<1> QED BY <1>1, <1>2, MarketInvariant, PTL DEF Spec, DeliveryAgainstPayment, Accounts!Spec

=============================================================================
