------------------------ MODULE Distribution_proofs ------------------------
(***************************************************************************)
(* What the vault guarantees for any set of holders, any supply and any    *)
(* number of payments, blocks and snapshots, with the checkpoint           *)
(* accounting of ShareToken that it rests on. Then Distribution: the sale  *)
(* and the page take only steps that the vault allows, so what is proved   *)
(* of the vault holds here; the sale rounds down; and a distribution that  *)
(* is reported is paid, for any number of clicks.                          *)
(***************************************************************************)
EXTENDS Distribution, Sums_proofs, SequenceTheorems

USE ShareTokenAssumption

(* Units counted for d, and units counted for anybody, as functions of the holder. *)
CountedFor(bal, del, d) == [h \in Holder |-> IF del[h] = d THEN bal[h] ELSE 0]
Counted(bal, del) == [h \in Holder |-> IF del[h] = NoHolder THEN 0 ELSE bal[h]]

(* The bookkeeping of ERC20Votes, for given balances, delegates and votes. *)
Booked(bal, del, vs) ==
  /\ bal \in [Holder -> Nat]
  /\ del \in [Holder -> Holder \cup {NoHolder}]
  /\ vs \in [Holder -> Nat]
  /\ \A d \in Holder : vs[d] = SumOf(CountedFor(bal, del, d))
  /\ SumOf(vs) = SumOf(Counted(bal, del))

(* The inductive invariant of the token: the properties the runs check, with the total of the *)
(* votes tied to the balances that are delegated at all.                                     *)
TokenInv ==
  /\ TokenTypeOK
  /\ Booked(balances, delegatee, votes)
  /\ SumOf(balances) = supply
  /\ \A b \in DOMAIN past : SumOf(past[b].votes) <= past[b].supply
  /\ HoldersAreCounted

---------------------------------------------------------------------------
(* Setting one balance and crediting the difference to its holder's delegate keeps the books. *)
LEMMA AdjustBooked ==
  ASSUME NEW bal, NEW del, NEW vs, Booked(bal, del, vs),
         NEW h \in Holder, NEW m \in Nat
  PROVE  Booked([bal EXCEPT ![h] = m], del, Credit(vs, del[h], m - bal[h]))
<1> DEFINE bal2 == [bal EXCEPT ![h] = m]
           vs2 == Credit(vs, del[h], m - bal[h])
<1>1. /\ bal \in [Holder -> Nat] /\ del \in [Holder -> Holder \cup {NoHolder}]
      /\ vs \in [Holder -> Nat] /\ bal2 \in [Holder -> Nat]
  BY DEF Booked
<1>2. /\ bal2[h] = m
      /\ \A y \in Holder \ {h} : bal2[y] = bal[y]
  BY <1>1
<1>4. \A d : CountedFor(bal, del, d) \in [Holder -> Nat]
             /\ CountedFor(bal2, del, d) \in [Holder -> Nat]
  BY <1>1 DEF CountedFor
<1>5. Counted(bal, del) \in [Holder -> Nat] /\ Counted(bal2, del) \in [Holder -> Nat]
  BY <1>1 DEF Counted
<1>6. ASSUME NEW d \in Holder
      PROVE  SumOf(CountedFor(bal2, del, d))
               = vs[d] + (IF del[h] = d THEN m - bal[h] ELSE 0)
  <2> DEFINE f == CountedFor(bal, del, d)
             g == CountedFor(bal2, del, d)
  <2>1. /\ \A y \in Holder \ {h} : g[y] = f[y]
        /\ f[h] = IF del[h] = d THEN bal[h] ELSE 0
        /\ g[h] = IF del[h] = d THEN m ELSE 0
    BY <1>1, <1>2 DEF CountedFor
  <2>2. f \in [Holder -> Nat] /\ g \in [Holder -> Nat]
    BY <1>4
  <2>3. vs[d] = SumOf(f)
    BY DEF Booked
  <2> HIDE DEF f, g
  <2>4. SumOf(g) = SumOf(f) - f[h] + g[h]
    BY <2>1, <2>2, SumUpdate
  <2>5. SumOf(g) = vs[d] + (IF del[h] = d THEN m - bal[h] ELSE 0)
    BY <1>1, <2>1, <2>3, <2>4
  <2> QED BY <2>5 DEF g
<1>7. \A d \in Holder : SumOf(CountedFor(bal2, del, d)) \in Nat
  <2> HIDE DEF bal2
  <2> QED BY <1>4, SumIsNat
<1>8. /\ vs2 \in [Holder -> Nat]
      /\ \A d \in Holder : vs2[d] = SumOf(CountedFor(bal2, del, d))
  <2>1. \A d \in Holder : vs2[d] = vs[d] + (IF del[h] = d THEN m - bal[h] ELSE 0)
    BY <1>1 DEF Credit
  <2>2. DOMAIN vs2 = Holder /\ vs2 = [d \in Holder |-> vs2[d]]
    BY <1>1 DEF Credit
  <2> HIDE DEF vs2, bal2
  <2>3. \A d \in Holder : vs2[d] = SumOf(CountedFor(bal2, del, d))
    BY <2>1, <1>6
  <2> QED BY <2>2, <2>3, <1>7
<1>9. SumOf(vs2) = SumOf(Counted(bal2, del))
  <2> DEFINE f == Counted(bal, del)
             g == Counted(bal2, del)
  <2>1. /\ \A y \in Holder \ {h} : g[y] = f[y]
        /\ f[h] = IF del[h] = NoHolder THEN 0 ELSE bal[h]
        /\ g[h] = IF del[h] = NoHolder THEN 0 ELSE m
    BY <1>1, <1>2 DEF Counted
  <2>2. f \in [Holder -> Nat] /\ g \in [Holder -> Nat] /\ SumOf(vs) = SumOf(f)
    BY <1>5 DEF Booked
  <2> HIDE DEF f, g
  <2>3. SumOf(g) = SumOf(f) - f[h] + g[h]
    BY <2>1, <2>2, SumUpdate
  <2>4. SumOf(f) \in Nat
    BY <2>2, SumIsNat
  <2>5. CASE del[h] = NoHolder
    <3>1. vs2 = vs
      BY <2>5 DEF Credit
    <3> HIDE DEF vs2
    <3> QED BY <2>1, <2>2, <2>3, <2>4, <2>5, <3>1 DEF g
  <2>6. CASE del[h] # NoHolder
    <3>1. del[h] \in Holder
      BY <1>1, <2>6
    <3>2. /\ vs2[del[h]] = vs[del[h]] + (m - bal[h])
          /\ \A y \in Holder \ {del[h]} : vs2[y] = vs[y]
      BY <1>1, <2>6, <3>1 DEF Credit
    <3> HIDE DEF vs2
    <3>3. SumOf(vs2) = SumOf(vs) - vs[del[h]] + vs2[del[h]]
      BY <1>1, <1>8, <3>1, <3>2, SumUpdate
    <3>4. SumOf(vs2) = SumOf(g)
      BY <1>1, <2>1, <2>2, <2>3, <2>4, <2>6, <3>1, <3>2, <3>3
    <3> QED BY <3>4 DEF g
  <2> QED BY <2>5, <2>6
<1> QED BY <1>1, <1>8, <1>9 DEF Booked

(* Choosing a delegate for an empty account moves no votes. *)
LEMMA RedelegateEmptyBooked ==
  ASSUME NEW bal, NEW del, NEW vs, Booked(bal, del, vs),
         NEW h \in Holder, bal[h] = 0, NEW d \in Holder \cup {NoHolder}
  PROVE  Booked(bal, [del EXCEPT ![h] = d], vs)
<1> DEFINE del2 == [del EXCEPT ![h] = d]
<1>1. del2 \in [Holder -> Holder \cup {NoHolder}]
  BY DEF Booked
<1>2. \A e \in Holder : CountedFor(bal, del2, e) = CountedFor(bal, del, e)
  BY DEF Booked, CountedFor
<1>3. Counted(bal, del2) = Counted(bal, del)
  BY DEF Booked, Counted
<1> HIDE DEF del2
<1>4. Booked(bal, del2, vs)
  BY <1>1, <1>2, <1>3 DEF Booked
<1> QED BY <1>4 DEF del2

(* delegate(), and the auto-delegation of _update: the holder's units change sides. *)
LEMMA DelegateBooked ==
  ASSUME NEW bal, NEW del, NEW vs, Booked(bal, del, vs),
         NEW h \in Holder, NEW d \in Holder \cup {NoHolder}
  PROVE  Booked(bal, [del EXCEPT ![h] = d], MoveVotes(vs, del[h], d, bal[h]))
<1> DEFINE emptied == [bal EXCEPT ![h] = 0]
           taken == Credit(vs, del[h], 0 - bal[h])
           del2 == [del EXCEPT ![h] = d]
<1>1. bal \in [Holder -> Nat] /\ del \in [Holder -> Holder \cup {NoHolder}]
  BY DEF Booked
<1>2. Booked(emptied, del, taken)
  BY AdjustBooked
<1>3. emptied[h] = 0 /\ [emptied EXCEPT ![h] = bal[h]] = bal /\ del2[h] = d
  BY <1>1
<1>4. Booked(emptied, del2, taken)
  <2> HIDE DEF emptied, taken
  <2> QED BY <1>2, <1>3, RedelegateEmptyBooked
<1>5. bal[h] \in Nat
  BY <1>1
<1> HIDE DEF emptied, taken, del2
<1>6. Booked([emptied EXCEPT ![h] = bal[h]], del2, Credit(taken, del2[h], bal[h] - emptied[h]))
  BY <1>4, <1>5, AdjustBooked
<1>7. Booked(bal, del2, Credit(taken, d, bal[h]))
  <2>1. bal[h] - emptied[h] = bal[h]
    BY <1>3, <1>5
  <2> QED BY <1>3, <1>6, <2>1, Zenon
<1>8. 0 - bal[h] = -bal[h]
  BY <1>5
<1> QED BY <1>7, <1>8 DEF taken, del2, MoveVotes

(* A transfer between delegated accounts, to oneself included. *)
LEMMA MoveBooked ==
  ASSUME NEW bal, NEW del, NEW vs, Booked(bal, del, vs),
         NEW from \in Holder, NEW to \in Holder, NEW n \in Nat, n <= bal[from]
  PROVE  LET moved == [[bal EXCEPT ![from] = @ - n] EXCEPT ![to] = @ + n]
         IN  /\ Booked(moved, del, MoveVotes(vs, del[from], del[to], n))
             /\ SumOf(moved) = SumOf(bal)
<1> DEFINE k == bal[from] - n
           less == [bal EXCEPT ![from] = k]
           taken == Credit(vs, del[from], k - bal[from])
           m == less[to] + n
           more == [less EXCEPT ![to] = m]
           given == Credit(taken, del[to], m - less[to])
<1>1. bal \in [Holder -> Nat] /\ bal[from] \in Nat /\ k \in Nat /\ k - bal[from] = -n
  BY DEF Booked
<1> HIDE DEF k
<1>2. Booked(less, del, taken) /\ SumOf(less) = SumOf(bal) - bal[from] + k
  <2>1. Booked(less, del, taken)
    BY <1>1, AdjustBooked, Zenon
  <2>2. /\ less \in [Holder -> Nat] /\ less[from] = k
        /\ \A y \in Holder \ {from} : less[y] = bal[y]
    BY <1>1
  <2> HIDE DEF less
  <2>3. SumOf(less) = SumOf(bal) - bal[from] + k
    BY <1>1, <2>2, SumUpdate
  <2> QED BY <2>1, <2>3
<1> HIDE DEF less, taken
<1>3. less \in [Holder -> Nat] /\ less[to] \in Nat /\ m \in Nat /\ m - less[to] = n
  BY <1>2 DEF Booked
<1> HIDE DEF m
<1>4. Booked(more, del, given) /\ SumOf(more) = SumOf(less) - less[to] + m
  <2>1. Booked(more, del, given)
    BY <1>2, <1>3, AdjustBooked, Zenon
  <2>2. /\ more \in [Holder -> Nat] /\ more[to] = m
        /\ \A y \in Holder \ {to} : more[y] = less[y]
    BY <1>3
  <2> HIDE DEF more
  <2>3. SumOf(more) = SumOf(less) - less[to] + m
    BY <1>3, <2>2, SumUpdate
  <2> QED BY <2>1, <2>3
<1>5. SumOf(bal) \in Nat
  BY <1>1, SumIsNat
<1>6. SumOf(more) = SumOf(bal)
  BY <1>1, <1>2, <1>3, <1>4, <1>5
<1>7. more = [[bal EXCEPT ![from] = @ - n] EXCEPT ![to] = @ + n]
  BY <1>1 DEF less, m, k
<1>8. given = MoveVotes(vs, del[from], del[to], n)
  BY <1>1, <1>3 DEF taken, MoveVotes
<1> QED BY <1>4, <1>6, <1>7, <1>8
---------------------------------------------------------------------------
(* The freshly deployed token satisfies the invariant. *)
LEMMA TokenInitInv == TokenInit => TokenInv
<1> SUFFICES ASSUME NEW recipient \in Holder,
                    balances = [h \in Holder |-> IF h = recipient THEN TotalSupply ELSE 0],
                    delegatee = [h \in Holder |-> IF h = recipient THEN recipient ELSE NoHolder],
                    votes = balances, supply = TotalSupply, block = 1, optedOut = {},
                    past = [b \in {0} |-> [votes |-> [h \in Holder |-> 0], supply |-> 0]]
             PROVE  TokenInv
  BY DEF TokenInit
<1> USE DEF ShareTokenAssumption
<1>1. TokenTypeOK
  BY DEF TokenTypeOK, Checkpoint
<1>2. balances[recipient] = TotalSupply /\ \A y \in Holder \ {recipient} : balances[y] = 0
  OBVIOUS
<1>3. balances \in [Holder -> Nat]
  BY <1>1 DEF TokenTypeOK
<1>4. SumOf(balances) = TotalSupply
  BY <1>2, <1>3, SumOfOne
<1>5. ASSUME NEW d \in Holder
      PROVE  votes[d] = SumOf(CountedFor(balances, delegatee, d))
  <2> DEFINE f == CountedFor(balances, delegatee, d)
  <2>1. /\ f \in [Holder -> Nat]
        /\ f[recipient] = IF d = recipient THEN TotalSupply ELSE 0
        /\ \A y \in Holder \ {recipient} : f[y] = 0
    BY DEF CountedFor
  <2> HIDE DEF f
  <2>2. SumOf(f) = f[recipient]
    BY <2>1, SumOfOne
  <2>3. votes[d] = f[recipient]
    BY <2>1
  <2> QED BY <2>2, <2>3 DEF f
<1>6. Counted(balances, delegatee) = balances
  BY DEF Counted
<1>7. Booked(balances, delegatee, votes)
  BY <1>1, <1>5, <1>6 DEF Booked, TokenTypeOK
<1>8. \A b \in DOMAIN past : SumOf(past[b].votes) <= past[b].supply
  <2> DEFINE none == [h \in Holder |-> 0]
  <2>1. SumOf(none) = 0
    BY SumOfZeros
  <2> QED BY <2>1
<1>9. HoldersAreCounted
  BY DEF HoldersAreCounted
<1> QED BY <1>1, <1>4, <1>7, <1>8, <1>9 DEF TokenInv

(* A transfer keeps it: first the receiver is delegated to itself, then the units move. *)
LEMMA TransferInv ==
  ASSUME TokenInv, NEW from \in Holder, NEW to \in Holder, NEW n \in 0 .. TotalSupply,
         Transfer(from, to, n)
  PROVE  TokenInv'
<1> DEFINE del == IF delegatee[to] = NoHolder
                  THEN [delegatee EXCEPT ![to] = to] ELSE delegatee
           vs == IF delegatee[to] = NoHolder
                 THEN MoveVotes(votes, NoHolder, to, balances[to]) ELSE votes
           moved == [[balances EXCEPT ![from] = @ - n] EXCEPT ![to] = @ + n]
<1>1. Booked(balances, delegatee, votes)
  BY DEF TokenInv
<1>2. Booked(balances, del, vs)
  <2>1. CASE delegatee[to] = NoHolder
    BY <1>1, <2>1, DelegateBooked
  <2>2. CASE delegatee[to] # NoHolder
    BY <1>1, <2>2
  <2> QED BY <2>1, <2>2
<1>3. n \in Nat /\ n <= balances[from]
  BY DEF Transfer, ShareTokenAssumption
<1>4. /\ delegatee' = del /\ balances' = moved
      /\ votes' = MoveVotes(vs, del[from], del[to], n)
      /\ optedOut' = optedOut \ {to}
      /\ UNCHANGED <<supply, block, past>>
  BY DEF Transfer
<1>5. HoldersAreCounted'
  <2>1. \A h \in Holder : del[h] = NoHolder => delegatee[h] = NoHolder /\ h # to
    BY <1>1 DEF Booked, ShareTokenAssumption
  <2>2. \A h \in Holder \ {to} : moved[h] <= balances[h]
    BY <1>1, <1>3 DEF Booked
  <2>3. moved \in [Holder -> Int] /\ balances \in [Holder -> Int]
    BY <1>1, <1>3 DEF Booked
  <2> HIDE DEF del, moved
  <2> QED BY <1>4, <2>1, <2>2, <2>3 DEF HoldersAreCounted, TokenInv
<1> HIDE DEF del, vs
<1>6. Booked(moved, del, MoveVotes(vs, del[from], del[to], n)) /\ SumOf(moved) = SumOf(balances)
  BY <1>2, <1>3, MoveBooked
<1>7. Booked(balances, delegatee, votes)' /\ SumOf(balances)' = supply'
  <2>1. SumOf(balances) = supply
    BY DEF TokenInv
  <2> QED BY <1>4, <1>6, <2>1
<1>8. TokenTypeOK'
  <2>1. TokenTypeOK
    BY DEF TokenInv
  <2> QED BY <1>4, <1>7, <2>1 DEF TokenTypeOK, Booked
<1> QED BY <1>4, <1>5, <1>7, <1>8 DEF TokenInv

(* Burning keeps it: the units leave the holder, its delegate and the supply. *)
LEMMA BurnInv ==
  ASSUME TokenInv, NEW h \in Holder, NEW n \in 1 .. TotalSupply, Burn(h, n)
  PROVE  TokenInv'
<1> DEFINE m == balances[h] - n
           less == [balances EXCEPT ![h] = m]
<1>1. Booked(balances, delegatee, votes) /\ TokenTypeOK /\ SumOf(balances) = supply
  BY DEF TokenInv
<1>2. balances[h] \in Nat /\ n \in Nat /\ n <= balances[h]
  BY <1>1 DEF TokenTypeOK, Burn
<1>3. m \in Nat /\ m - balances[h] = -n
  BY <1>2
<1>4. balances' = less /\ votes' = Credit(votes, delegatee[h], -n) /\ supply' = supply - n
  BY DEF Burn, MoveVotes, Credit
<1> HIDE DEF m
<1>5. Booked(less, delegatee, Credit(votes, delegatee[h], m - balances[h]))
  BY <1>1, <1>3, AdjustBooked, Zenon
<1>6. Booked(balances, delegatee, votes)'
  BY <1>3, <1>4, <1>5 DEF Burn
<1>7. SumOf(less) = SumOf(balances) - balances[h] + m
  <2>1. /\ balances \in [Holder -> Nat] /\ less \in [Holder -> Nat] /\ less[h] = m
        /\ \A y \in Holder \ {h} : less[y] = balances[y]
    BY <1>1, <1>3 DEF TokenTypeOK
  <2> HIDE DEF less
  <2>2. SumOf(less) = SumOf(balances) - balances[h] + less[h]
    BY <2>1, SumUpdate DEF ShareTokenAssumption
  <2> QED BY <2>1, <2>2
<1>8. SumOf(balances)' = supply' /\ supply' \in Nat
  <2>1. balances[h] <= SumOf(balances)
    BY <1>1, SumBoundsTerm DEF TokenTypeOK, ShareTokenAssumption
  <2>2. supply \in Nat
    BY <1>1 DEF TokenTypeOK
  <2> QED BY <1>1, <1>2, <1>3, <1>4, <1>7, <2>1, <2>2
<1>9. TokenTypeOK'
  BY <1>1, <1>6, <1>8 DEF Burn, TokenTypeOK, Booked
<1>10. HoldersAreCounted'
  BY <1>1, <1>2, <1>3, <1>4 DEF TokenInv, HoldersAreCounted, Burn, TokenTypeOK
<1>11. \A b \in DOMAIN past' : SumOf(past'[b].votes) <= past'[b].supply
  BY DEF TokenInv, Burn
<1> QED BY <1>6, <1>8, <1>9, <1>10, <1>11 DEF TokenInv

(* Delegating keeps it. *)
LEMMA DelegateInv ==
  ASSUME TokenInv, NEW h \in Holder, NEW d \in Holder \cup {NoHolder}, Delegate(h, d)
  PROVE  TokenInv'
<1>1. Booked(balances, delegatee, votes) /\ TokenTypeOK
  BY DEF TokenInv
<1>2. Booked(balances, delegatee, votes)'
  BY <1>1, DelegateBooked DEF Delegate
<1>3. TokenTypeOK'
  BY <1>1, <1>2 DEF Delegate, TokenTypeOK, Booked
<1>4. HoldersAreCounted'
  BY <1>1 DEF TokenInv, HoldersAreCounted, Delegate, TokenTypeOK, ShareTokenAssumption
<1> QED BY <1>2, <1>3, <1>4 DEF TokenInv, Delegate

(* Closing a block keeps it: the votes of the block become its checkpoint. *)
LEMMA NextBlockInv ==
  ASSUME TokenInv, NextBlock
  PROVE  TokenInv'
<1>1. Booked(balances, delegatee, votes) /\ TokenTypeOK /\ SumOf(balances) = supply
  BY DEF TokenInv
<1>2. SumOf(votes) <= supply
  <2> DEFINE f == Counted(balances, delegatee)
  <2>1. f \in [Holder -> Nat] /\ \A y \in Holder : f[y] <= balances[y]
    BY <1>1 DEF Booked, Counted
  <2>2. SumOf(votes) = SumOf(f) /\ balances \in [Holder -> Nat]
    BY <1>1 DEF Booked
  <2> HIDE DEF f
  <2>3. SumOf(f) <= SumOf(balances)
    BY <2>1, <2>2, SumMonotone DEF ShareTokenAssumption
  <2> QED BY <1>1, <2>2, <2>3
<1>3. /\ block \in Nat \ {0} /\ block' = block + 1
      /\ past' = [b \in 0 .. block |->
                    IF b = block THEN [votes |-> votes, supply |-> supply] ELSE past[b]]
  BY <1>1 DEF NextBlock, TokenTypeOK
<1>4. past' \in [0 .. block' - 1 -> Checkpoint]
  <2>1. past \in [0 .. block - 1 -> Checkpoint] /\ votes \in [Holder -> Nat] /\ supply \in Nat
    BY <1>1 DEF TokenTypeOK
  <2>2. \A b \in 0 .. block : b # block => b \in 0 .. block - 1
    BY <1>3
  <2>3. block' - 1 = block
    BY <1>3
  <2> QED BY <1>3, <2>1, <2>2, <2>3 DEF Checkpoint
<1>5. TokenTypeOK'
  BY <1>1, <1>3, <1>4 DEF NextBlock, TokenTypeOK
<1>6. \A b \in DOMAIN past' : SumOf(past'[b].votes) <= past'[b].supply
  <2>1. \A b \in 0 .. block - 1 : SumOf(past[b].votes) <= past[b].supply
    BY <1>1 DEF TokenInv, TokenTypeOK
  <2>2. \A b \in 0 .. block : b # block => b \in 0 .. block - 1
    BY <1>3
  <2> QED BY <1>2, <1>3, <2>1, <2>2
<1>7. UNCHANGED <<balances, delegatee, votes, supply, optedOut>>
  BY DEF NextBlock
<1> QED BY <1>5, <1>6, <1>7 DEF TokenInv, HoldersAreCounted

(* Every step of the token keeps the invariant. *)
LEMMA TokenNextInv == TokenInv /\ [TokenNext]_tokenVars => TokenInv'
<1> SUFFICES ASSUME TokenInv, [TokenNext]_tokenVars PROVE TokenInv'
  OBVIOUS
<1>1. ASSUME NEW from \in Holder, NEW to \in Holder, NEW n \in 0 .. TotalSupply,
             Transfer(from, to, n)
      PROVE  TokenInv'
  BY <1>1, TransferInv
<1>2. ASSUME NEW h \in Holder, NEW n \in 1 .. TotalSupply, Burn(h, n)
      PROVE  TokenInv'
  BY <1>2, BurnInv
<1>3. ASSUME NEW h \in Holder, NEW d \in Holder \cup {NoHolder}, Delegate(h, d)
      PROVE  TokenInv'
  BY <1>3, DelegateInv
<1>4. CASE NextBlock
  BY <1>4, NextBlockInv
<1>5. CASE UNCHANGED tokenVars
  BY <1>5 DEF tokenVars, TokenInv, TokenTypeOK, HoldersAreCounted, Booked
<1> QED BY <1>1, <1>2, <1>3, <1>4, <1>5 DEF TokenNext

(* The invariant gives what the runs check. *)
LEMMA TokenInvImplies ==
  TokenInv => /\ TokenTypeOK /\ VotesMatchDelegations
              /\ VotesWithinSupply /\ HoldersAreCounted
<1> SUFFICES ASSUME TokenInv
             PROVE  TokenTypeOK /\ VotesMatchDelegations /\ VotesWithinSupply
  BY DEF TokenInv
<1>1. Booked(balances, delegatee, votes) /\ TokenTypeOK /\ SumOf(balances) = supply
  BY DEF TokenInv
<1>2. VotesMatchDelegations
  BY <1>1 DEF Booked, VotesMatchDelegations, DelegatedTo, CountedFor
<1>3. SumOf(votes) <= supply
  <2> DEFINE f == Counted(balances, delegatee)
  <2>1. f \in [Holder -> Nat] /\ \A y \in Holder : f[y] <= balances[y]
    BY <1>1 DEF Booked, Counted
  <2>2. SumOf(votes) = SumOf(f) /\ balances \in [Holder -> Nat]
    BY <1>1 DEF Booked
  <2> HIDE DEF f
  <2>3. SumOf(f) <= SumOf(balances)
    BY <2>1, <2>2, SumMonotone DEF ShareTokenAssumption
  <2> QED BY <1>1, <2>2, <2>3
<1> QED BY <1>1, <1>2, <1>3 DEF TokenInv, VotesWithinSupply

HIDE ShareTokenAssumption

---------------------------------------------------------------------------
(* What snapshot s was worth to each holder, and what it still owes. *)
Entitlements(s) == [h \in Holder |-> ProRata(s, h)]
Pendings(s) == [h \in Holder |-> PendingFor(s, h)]
Owings == [s \in SnapshotIds |-> Owed(s)]
DrawnBy(ids) == [t \in ids |-> SumOf(paid[t])]

(* The inductive invariant: the properties of the runs, on top of the token's, with the fact *)
(* that a snapshot's timepoint is a block that has closed.                                   *)
VaultInv ==
  /\ TokenInv
  /\ TypeOK
  /\ \A s \in SnapshotIds : snapshots[s].timepoint \in 0 .. block - 1
  /\ PaidOnceInFull
  /\ SerialSnapshotsSolvent
  /\ ShortfallIsOthersDraw

---------------------------------------------------------------------------
(* A closed block keeps its checkpoint: only NextBlock writes past, for the block it closes. *)
LEMMA PastFixed ==
  ASSUME TokenTypeOK, [TokenNext]_tokenVars, NEW b \in 0 .. block - 1
  PROVE  past'[b] = past[b] /\ b \in 0 .. block' - 1
<1>1. past \in [0 .. block - 1 -> Checkpoint] /\ block \in Nat \ {0}
  BY DEF TokenTypeOK
<1>2. CASE NextBlock
  BY <1>1, <1>2 DEF NextBlock
<1>3. CASE UNCHANGED <<block, past>>
  BY <1>1, <1>3
<1>4. NextBlock \/ UNCHANGED <<block, past>>
  BY DEF TokenNext, Transfer, Burn, Delegate, tokenVars
<1> QED BY <1>2, <1>3, <1>4

(* Hence what a snapshot is worth to a holder never changes. *)
LEMMA ProRataFixed ==
  ASSUME VaultInv, [TokenNext]_tokenVars, NEW s \in SnapshotIds, snapshots'[s] = snapshots[s],
         NEW h \in Holder
  PROVE  ProRata(s, h)' = ProRata(s, h)
<1>1. past'[snapshots[s].timepoint] = past[snapshots[s].timepoint]
  BY PastFixed DEF VaultInv, TypeOK
<1> QED BY <1>1 DEF ProRata, PastVotes, PastSupply

(* The pro-rata shares of B under the votes w out of T: natural numbers, together at most B. *)
Shares(B, w, T) == [h \in Holder |-> IF w[h] > 0 /\ T > 0 THEN (B * w[h]) \div T ELSE 0]

LEMMA SharesWithinBalance ==
  ASSUME NEW B \in Nat, NEW w \in [Holder -> Nat], NEW T \in Nat, SumOf(w) <= T
  PROVE  /\ Shares(B, w, T) \in [Holder -> Nat]
         /\ SumOf(Shares(B, w, T)) \in Nat
         /\ SumOf(Shares(B, w, T)) <= B
<1> DEFINE f == Shares(B, w, T)
<1>1. /\ \A h \in Holder : f[h] = IF w[h] > 0 /\ T > 0 THEN (B * w[h]) \div T ELSE 0
      /\ f = [h \in Holder |-> f[h]]
  BY DEF Shares
<1> HIDE DEF f
<1>2. ASSUME NEW h \in Holder
      PROVE  f[h] \in Nat /\ IF T = 0 THEN f[h] = 0 ELSE f[h] * T <= w[h] * B
  <2>1. w[h] \in Nat /\ B * w[h] \in Nat /\ B * w[h] = w[h] * B
    OBVIOUS
  <2>2. CASE w[h] > 0 /\ T > 0
    <3>1. f[h] = (B * w[h]) \div T
      BY <1>1, <2>2
    <3>2. f[h] \in Nat /\ f[h] * T <= B * w[h]
      BY <2>1, <2>2, <3>1, FloorBound
    <3> QED BY <2>1, <2>2, <3>2
  <2>3. CASE ~(w[h] > 0 /\ T > 0)
    <3>1. f[h] = 0
      BY <1>1, <2>3
    <3> QED BY <2>1, <3>1
  <2> QED BY <2>2, <2>3
<1>3. f \in [Holder -> Nat]
  BY <1>1, <1>2
<1>4. SumOf(f) <= B /\ SumOf(f) \in Nat
  BY <1>2, <1>3, SharesWithinWhole, SumIsNat, ShareTokenAssumption DEF ShareTokenAssumption
<1> QED BY <1>3, <1>4 DEF f

(* A snapshot is worth a natural amount to each holder, and at most its balance to all. *)
LEMMA WorthWithinBalance ==
  ASSUME VaultInv, NEW s \in SnapshotIds
  PROVE  /\ Entitlements(s) \in [Holder -> Nat]
         /\ SumOf(Entitlements(s)) <= snapshots[s].balanceAtSnapshot
<1> DEFINE c == past[snapshots[s].timepoint]
           B == snapshots[s].balanceAtSnapshot
<1>1. c \in Checkpoint /\ B \in Nat /\ SumOf(c.votes) <= c.supply
  <2>1. snapshots[s] \in Snapshot /\ snapshots[s].timepoint \in 0 .. block - 1
    BY DEF VaultInv, TypeOK, SnapshotIds
  <2>2. past \in [0 .. block - 1 -> Checkpoint]
    BY DEF VaultInv, TokenInv, TokenTypeOK
  <2> QED BY <2>1, <2>2 DEF VaultInv, TokenInv, Snapshot
<1>2. Entitlements(s) = Shares(B, c.votes, c.supply)
  BY DEF Entitlements, Shares, ProRata, PastVotes, PastSupply
<1> HIDE DEF c, B
<1>3. /\ Shares(B, c.votes, c.supply) \in [Holder -> Nat]
      /\ SumOf(Shares(B, c.votes, c.supply)) <= B
  BY <1>1, SharesWithinBalance DEF Checkpoint
<1> QED BY <1>2, <1>3 DEF B

(* The amounts that the invariant speaks of are natural numbers. *)
LEMMA AmountsAreNat ==
  ASSUME VaultInv
  PROVE  /\ \A s \in SnapshotIds, h \in Holder : ProRata(s, h) \in Nat
         /\ \A s \in SnapshotIds : Pendings(s) \in [Holder -> Nat]
         /\ \A s \in SnapshotIds : Owed(s) = SumOf(Pendings(s)) /\ Owed(s) \in Nat
         /\ Owings \in [SnapshotIds -> Nat] /\ TotalOwed = SumOf(Owings) /\ TotalOwed \in Nat
         /\ \A ids \in SUBSET SnapshotIds :
              DrawnBy(ids) \in [ids -> Nat] /\ SumOf(DrawnBy(ids)) \in Nat
         /\ IsFiniteSet(SnapshotIds)
<1>0. SnapshotIds = 1 .. Len(snapshots) /\ Len(snapshots) \in Nat /\ IsFiniteSet(SnapshotIds)
  BY FS_Interval DEF VaultInv, TypeOK, SnapshotIds
<1>1. \A s \in SnapshotIds : Entitlements(s) \in [Holder -> Nat]
  BY WorthWithinBalance
<1>2. \A s \in SnapshotIds, h \in Holder : ProRata(s, h) \in Nat
  <2> TAKE s \in SnapshotIds, h \in Holder
  <2>1. Entitlements(s)[h] = ProRata(s, h)
    BY DEF Entitlements
  <2> QED BY <1>1, <2>1
<1>3. \A s \in SnapshotIds : Pendings(s) \in [Holder -> Nat]
  BY <1>2 DEF Pendings, PendingFor
<1>4. \A s \in SnapshotIds : Owed(s) = SumOf(Pendings(s)) /\ Owed(s) \in Nat
  BY <1>3, SumIsNat, ShareTokenAssumption DEF Owed, Pendings, ShareTokenAssumption
<1>5. Owings \in [SnapshotIds -> Nat]
  BY <1>4 DEF Owings
<1>6. TotalOwed = SumOf(Owings) /\ TotalOwed \in Nat
  BY <1>0, <1>5, SumIsNat DEF TotalOwed, Owings
<1>7. \A t \in SnapshotIds : SumOf(paid[t]) \in Nat
  <2>1. \A t \in SnapshotIds : paid[t] \in [Holder -> Nat]
    BY DEF VaultInv, TypeOK, SnapshotIds
  <2> QED BY <2>1, SumIsNat, ShareTokenAssumption DEF ShareTokenAssumption
<1>8. ASSUME NEW ids \in SUBSET SnapshotIds
      PROVE  DrawnBy(ids) \in [ids -> Nat] /\ SumOf(DrawnBy(ids)) \in Nat
  <2>1. DrawnBy(ids) \in [ids -> Nat]
    BY <1>7 DEF DrawnBy
  <2>2. IsFiniteSet(ids)
    BY <1>0, FS_Subset
  <2> QED BY <2>1, <2>2, SumIsNat
<1> QED BY <1>0, <1>2, <1>3, <1>4, <1>5, <1>6, <1>8

---------------------------------------------------------------------------
(* The empty vault satisfies the invariant. *)
LEMMA VaultInitInv == Init => VaultInv
<1> SUFFICES ASSUME Init PROVE VaultInv
  OBVIOUS
<1>1. TokenInv
  BY TokenInitInv DEF Init
<1>2. SnapshotIds = {} /\ snapshots = <<>> /\ paid = <<>> /\ claimedAt = <<>>
  BY DEF Init, SnapshotIds
<1>3. TypeOK
  <2>1. /\ snapshots \in Seq(Snapshot)
        /\ claimedAt \in Seq([Holder -> BOOLEAN]) /\ Len(claimedAt) = Len(snapshots)
        /\ paid \in Seq([Holder -> Nat]) /\ Len(paid) = Len(snapshots)
    BY <1>2
  <2> QED BY <1>1, <2>1 DEF Init, TypeOK, TokenInv
<1>4. SerialSnapshotsSolvent
  <2>1. TotalOwed = 0
    <3> DEFINE f == [s \in SnapshotIds |-> Owed(s)]
    <3>1. f \in [SnapshotIds -> Nat] /\ \A y \in SnapshotIds : f[y] = 0
      BY <1>2
    <3> HIDE DEF f
    <3>2. SumOf(f) = 0
      BY <3>1, SumOfZeros
    <3> QED BY <3>2 DEF f, TotalOwed
  <2> QED BY <2>1 DEF SerialSnapshotsSolvent, Init
<1> QED BY <1>1, <1>2, <1>3, <1>4 DEF VaultInv, PaidOnceInFull, ShortfallIsOthersDraw

(* A step that touches neither the snapshots nor what was settled leaves every debt as it is. *)
LEMMA DebtsFixed ==
  ASSUME VaultInv, [TokenNext]_tokenVars, UNCHANGED <<snapshots, claimedAt, paid>>
  PROVE  /\ SnapshotIds' = SnapshotIds
         /\ \A s \in SnapshotIds, h \in Holder :
              /\ ProRata(s, h)' = ProRata(s, h)
              /\ PendingFor(s, h)' = PendingFor(s, h)
         /\ \A s \in SnapshotIds : Owed(s)' = Owed(s)
         /\ TotalOwed' = TotalOwed
         /\ \A ids \in SUBSET SnapshotIds : DrawnBy(ids)' = DrawnBy(ids)
<1>1. SnapshotIds' = SnapshotIds
  BY DEF SnapshotIds
<1>2. \A s \in SnapshotIds, h \in Holder : ProRata(s, h)' = ProRata(s, h)
  BY ProRataFixed
<1>3. \A s \in SnapshotIds, h \in Holder : PendingFor(s, h)' = PendingFor(s, h)
  BY <1>2 DEF PendingFor
<1>4. \A s \in SnapshotIds : Owed(s)' = Owed(s)
  BY <1>3 DEF Owed
<1>5. TotalOwed' = TotalOwed
  BY <1>1, <1>4 DEF TotalOwed
<1>6. \A ids \in SUBSET SnapshotIds : DrawnBy(ids)' = DrawnBy(ids)
  BY DEF DrawnBy
<1> QED BY <1>1, <1>2, <1>3, <1>4, <1>5, <1>6

(* Trading shares and receiving payments keep the invariant. *)
LEMMA TradeOrFundInv ==
  ASSUME VaultInv, [TokenNext]_tokenVars, UNCHANGED <<snapshots, claimedAt, paid, overlapped>>,
         usdc' \in Nat, usdc' >= usdc, received' \in Nat
  PROVE  VaultInv'
<1>1. TokenInv'
  BY TokenNextInv DEF VaultInv
<1>2. /\ SnapshotIds' = SnapshotIds
      /\ \A s \in SnapshotIds, h \in Holder :
           /\ ProRata(s, h)' = ProRata(s, h)
           /\ PendingFor(s, h)' = PendingFor(s, h)
      /\ \A s \in SnapshotIds : Owed(s)' = Owed(s)
      /\ TotalOwed' = TotalOwed
      /\ \A ids \in SUBSET SnapshotIds : DrawnBy(ids)' = DrawnBy(ids)
  BY DebtsFixed
<1>3. TypeOK'
  BY <1>1, <1>2 DEF VaultInv, TypeOK, TokenInv
<1>4. \A s \in SnapshotIds' : snapshots'[s].timepoint \in 0 .. block' - 1
  BY <1>2, PastFixed DEF VaultInv, TypeOK
<1>5. PaidOnceInFull'
  BY <1>2 DEF VaultInv, PaidOnceInFull
<1>6. SerialSnapshotsSolvent'
  BY <1>2, AmountsAreNat DEF VaultInv, SerialSnapshotsSolvent, TypeOK
<1>7. ShortfallIsOthersDraw'
  <2> SUFFICES ASSUME NEW s \in SnapshotIds
               PROVE  Owed(s)' <= usdc' + SumOf(DrawnBy(SnapshotIds \ {s}))'
    BY <1>2 DEF ShortfallIsOthersDraw, DrawnBy
  <2> DEFINE ids == SnapshotIds \ {s}
  <2>1. Owed(s) <= usdc + SumOf(DrawnBy(ids))
    BY DEF VaultInv, ShortfallIsOthersDraw, DrawnBy
  <2>2. Owed(s) \in Nat /\ usdc \in Nat /\ SumOf(DrawnBy(ids)) \in Nat
    BY AmountsAreNat DEF VaultInv, TypeOK
  <2>3. Owed(s)' = Owed(s) /\ DrawnBy(ids)' = DrawnBy(ids) /\ ids' = ids
    BY <1>2
  <2> QED BY <2>1, <2>2, <2>3
<1> QED BY <1>1, <1>3, <1>4, <1>5, <1>6, <1>7 DEF VaultInv

(* snap() keeps it: the new snapshot owes at most the balance it records, and a vault that *)
(* owed nothing owes nothing else.                                                         *)
LEMMA SnapInv ==
  ASSUME VaultInv, Snap
  PROVE  VaultInv'
<1>0. PICK n \in Nat : n = Len(snapshots)
  BY DEF VaultInv, TypeOK
<1> DEFINE new == n + 1
           ids == 1 .. n
           added == [timepoint |-> block - 1, balanceAtSnapshot |-> usdc]
<1>1. /\ SnapshotIds = ids /\ new \notin ids /\ 1 .. new = ids \cup {new} /\ IsFiniteSet(ids)
      /\ block \in Nat \ {0} /\ usdc \in Nat /\ TokenTypeOK /\ added \in Snapshot
  <2>1. SnapshotIds = ids /\ new \notin ids /\ 1 .. new = ids \cup {new} /\ IsFiniteSet(ids)
    <3>1. IsFiniteSet(ids)
      BY FS_Interval
    <3> QED BY <1>0, <3>1 DEF SnapshotIds
  <2>2. block \in Nat \ {0} /\ usdc \in Nat /\ TokenTypeOK
    BY DEF VaultInv, TypeOK, TokenTypeOK
  <2> QED BY <2>1, <2>2 DEF Snapshot
<1>2. /\ snapshots \in Seq(Snapshot)
      /\ claimedAt \in Seq([Holder -> BOOLEAN]) /\ Len(claimedAt) = n
      /\ paid \in Seq([Holder -> Nat]) /\ Len(paid) = n
  BY <1>0 DEF VaultInv, TypeOK
<1>3. /\ snapshots' = Append(snapshots, added)
      /\ claimedAt' = Append(claimedAt, [h \in Holder |-> FALSE])
      /\ paid' = Append(paid, [h \in Holder |-> 0])
      /\ overlapped' = (overlapped \/ TotalOwed > 0)
      /\ UNCHANGED tokenVars /\ UNCHANGED <<usdc, received>>
  BY DEF Snap
<1> HIDE DEF added
<1>4. /\ snapshots' \in Seq(Snapshot) /\ Len(snapshots') = new
      /\ claimedAt' \in Seq([Holder -> BOOLEAN]) /\ Len(claimedAt') = new
      /\ paid' \in Seq([Holder -> Nat]) /\ Len(paid') = new
  <2>1. [h \in Holder |-> FALSE] \in [Holder -> BOOLEAN] /\ [h \in Holder |-> 0] \in [Holder -> Nat]
    OBVIOUS
  <2> QED BY <1>0, <1>1, <1>2, <1>3, <2>1
<1>5. SnapshotIds' = 1 .. new
  BY <1>4 DEF SnapshotIds
<1>6. /\ \A s \in ids : /\ snapshots'[s] = snapshots[s]
                        /\ claimedAt'[s] = claimedAt[s]
                        /\ paid'[s] = paid[s]
      /\ snapshots'[new] = added
      /\ claimedAt'[new] = [h \in Holder |-> FALSE]
      /\ paid'[new] = [h \in Holder |-> 0]
  BY <1>0, <1>2, <1>3
<1>7. TokenInv'
  BY <1>3, TokenNextInv DEF VaultInv
<1>8. \A s \in 1 .. new : /\ snapshots'[s] \in Snapshot
                          /\ snapshots'[s].timepoint \in 0 .. block' - 1
  <2>1. block' = block /\ added.timepoint \in 0 .. block - 1
    BY <1>1, <1>3 DEF tokenVars, added
  <2>2. \A s \in ids : snapshots[s] \in Snapshot /\ snapshots[s].timepoint \in 0 .. block - 1
    BY <1>0, <1>1, <1>2 DEF VaultInv
  <2> QED BY <1>1, <1>6, <2>1, <2>2
<1>9. TypeOK'
  <2>1. overlapped' \in BOOLEAN
    BY <1>3 DEF VaultInv, TypeOK
  <2> QED BY <1>3, <1>4, <1>7, <2>1 DEF VaultInv, TypeOK, TokenInv
<1>10. \A s \in ids, h \in Holder :
         ProRata(s, h)' = ProRata(s, h) /\ PendingFor(s, h)' = PendingFor(s, h)
  BY <1>1, <1>3, <1>6, ProRataFixed DEF PendingFor
<1>11. \A s \in ids : Owed(s)' = Owed(s)
  BY <1>10 DEF Owed
<1>12. Owed(new)' \in Nat /\ Owed(new)' <= usdc
  <2> DEFINE c == past[block - 1]
  <2>1. /\ c \in Checkpoint /\ SumOf(c.votes) <= c.supply
        /\ past' = past
    BY <1>1, <1>3 DEF VaultInv, TokenInv, TokenTypeOK, tokenVars
  <2>2. Pendings(new)' = Shares(usdc, c.votes, c.supply)
    <3>1. added.timepoint = block - 1 /\ added.balanceAtSnapshot = usdc
      BY DEF added
    <3>2. \A h \in Holder : ~claimedAt'[new][h]
      BY <1>6
    <3>3. \A h \in Holder : ProRata(new, h)' =
            IF c.votes[h] > 0 /\ c.supply > 0 THEN (usdc * c.votes[h]) \div c.supply ELSE 0
      <4> HIDE DEF new
      <4> QED BY <1>6, <2>1, <3>1 DEF ProRata, PastVotes, PastSupply
    <3> HIDE DEF new, c
    <3> QED BY <3>2, <3>3 DEF Pendings, PendingFor, Shares
  <2> HIDE DEF c
  <2>3. /\ SumOf(Shares(usdc, c.votes, c.supply)) \in Nat
        /\ SumOf(Shares(usdc, c.votes, c.supply)) <= usdc
    BY <1>1, <2>1, SharesWithinBalance DEF Checkpoint
  <2>4. Owed(new)' = SumOf(Pendings(new)')
    BY DEF Owed, Pendings
  <2> QED BY <2>2, <2>3, <2>4
<1>13. PaidOnceInFull'
  BY <1>1, <1>5, <1>6, <1>10 DEF VaultInv, PaidOnceInFull
<1>14. SerialSnapshotsSolvent'
  <2>1. SUFFICES ASSUME ~overlapped' PROVE TotalOwed' <= usdc'
    BY DEF SerialSnapshotsSolvent
  <2>2. TotalOwed = 0
    <3>1. TotalOwed \in Nat
      BY AmountsAreNat
    <3>2. ~(TotalOwed > 0)
      BY <1>3, <2>1
    <3> QED BY <3>1, <3>2
  <2> DEFINE f == Owings
             g == Owings'
  <2>3. f \in [ids -> Nat] /\ TotalOwed = SumOf(f) /\ \A s \in ids : f[s] = Owed(s)
    BY <1>1, AmountsAreNat DEF Owings
  <2>4. TotalOwed' = SumOf(g) /\ g = [s \in 1 .. new |-> Owed(s)']
    BY <1>5 DEF TotalOwed, Owings
  <2>5. /\ g \in [ids \cup {new} -> Nat]
        /\ \A s \in ids : g[s] = f[s]
        /\ g[new] = Owed(new)'
    <3>1. \A s \in ids : Owed(s)' = f[s] /\ f[s] \in Nat
      BY <1>11, <2>3
    <3> HIDE DEF f, g
    <3> QED BY <1>1, <1>12, <2>4, <3>1
  <2> HIDE DEF f, g, ids, new
  <2>6. SumOf(g) = SumOf(f) + g[new]
    BY <1>1, <2>3, <2>5, SumExtend
  <2> QED BY <1>3, <1>12, <2>2, <2>3, <2>4, <2>5, <2>6
<1>15. ShortfallIsOthersDraw'
  <2> SUFFICES ASSUME NEW s \in 1 .. new
               PROVE  Owed(s)' <= usdc' + SumOf(DrawnBy((1 .. new) \ {s})')
    BY <1>5 DEF ShortfallIsOthersDraw, DrawnBy
  <2> DEFINE others == (1 .. new) \ {s}
             rest == ids \ {s}
             drawn == DrawnBy(others)'
  <2>1. drawn = [t \in others |-> SumOf(paid'[t])]
    BY DEF DrawnBy
  <2>2. /\ DrawnBy(rest) \in [rest -> Nat] /\ SumOf(DrawnBy(rest)) \in Nat
        /\ IsFiniteSet(rest)
        /\ \A t \in rest : drawn[t] = DrawnBy(rest)[t]
    <3>1. \A t \in rest : t \in others /\ paid'[t] = paid[t]
      BY <1>1, <1>6
    <3> QED BY <1>1, <2>1, <3>1, AmountsAreNat, FS_Subset DEF DrawnBy
  <2>3. CASE s = new
    <3>1. others = rest
      BY <1>1, <2>3
    <3>2. drawn = DrawnBy(rest)
      <4>1. DrawnBy(rest) = [t \in rest |-> SumOf(paid[t])]
        BY DEF DrawnBy
      <4>2. \A t \in rest : paid'[t] = paid[t]
        BY <1>6
      <4> QED BY <2>1, <3>1, <4>1, <4>2
    <3> HIDE DEF drawn, rest
    <3>3. Owed(s)' <= usdc' + SumOf(drawn)
      BY <1>1, <1>3, <1>12, <2>2, <2>3, <3>2
    <3> QED BY <3>3 DEF drawn
  <2>4. CASE s # new
    <3>1. s \in ids /\ others = rest \cup {new} /\ new \notin rest
      BY <1>1, <2>4
    <3>2. drawn[new] = 0
      <4> DEFINE z == [h \in Holder |-> 0]
      <4>1. z \in [Holder -> Nat] /\ \A y \in Holder : z[y] = 0
        OBVIOUS
      <4>2. paid'[new] = z
        BY <1>6
      <4> HIDE DEF z
      <4>3. SumOf(z) = 0
        BY <4>1, SumOfZeros
      <4> QED BY <2>1, <3>1, <4>2, <4>3
    <3>3. drawn \in [rest \cup {new} -> Nat]
      <4>1. \A t \in rest \cup {new} : drawn[t] \in Nat
        <5> HIDE DEF drawn, rest, new
        <5> QED BY <2>2, <3>2
      <4>2. DOMAIN drawn = rest \cup {new} /\ drawn = [t \in rest \cup {new} |-> drawn[t]]
        BY <2>1, <3>1
      <4> HIDE DEF drawn, rest
      <4> QED BY <4>1, <4>2
    <3> HIDE DEF drawn, rest
    <3>4. SumOf(drawn) = SumOf(DrawnBy(rest)) + drawn[new]
      BY <2>2, <3>1, <3>3, SumExtend
    <3>5. Owed(s) <= usdc + SumOf(DrawnBy(rest))
      BY <1>1, <3>1 DEF VaultInv, ShortfallIsOthersDraw, DrawnBy, rest
    <3>6. Owed(s)' <= usdc' + SumOf(drawn)
      BY <1>1, <1>3, <1>11, <2>2, <3>1, <3>2, <3>4, <3>5
    <3> QED BY <3>6 DEF drawn
  <2> QED BY <2>3, <2>4
<1> QED BY <1>5, <1>7, <1>8, <1>9, <1>13, <1>14, <1>15 DEF VaultInv

(* A settlement keeps it: the debt, the balance and the payment change by the same amount. *)
LEMMA SettleInv ==
  ASSUME VaultInv, NEW s \in SnapshotIds, NEW h \in Holder, Settle(s, h)
  PROVE  VaultInv'
<1>0. PICK a \in Nat : a = ProRata(s, h)
  BY AmountsAreNat
<1>1. PICK n \in Nat : n = Len(snapshots)
  BY DEF VaultInv, TypeOK
<1> DEFINE ids == 1 .. n
<1>2. SnapshotIds = ids /\ IsFiniteSet(ids) /\ s \in ids
  <2>1. IsFiniteSet(ids)
    BY FS_Interval
  <2> QED BY <1>1, <2>1 DEF SnapshotIds
<1>3. /\ claimedAt \in Seq([Holder -> BOOLEAN]) /\ Len(claimedAt) = n
      /\ paid \in Seq([Holder -> Nat]) /\ Len(paid) = n
      /\ usdc \in Nat
  BY <1>1 DEF VaultInv, TypeOK
<1>4. /\ ~claimedAt[s][h] /\ a <= usdc /\ usdc' = usdc - a
      /\ claimedAt' = [claimedAt EXCEPT ![s][h] = TRUE]
      /\ paid' = [paid EXCEPT ![s][h] = @ + a]
      /\ UNCHANGED tokenVars /\ UNCHANGED <<received, snapshots, overlapped>>
  BY <1>0 DEF Settle
<1>5. SnapshotIds' = ids
  BY <1>1, <1>4 DEF SnapshotIds
<1>6. /\ \A t \in ids : paid[t] \in [Holder -> Nat] /\ claimedAt[t] \in [Holder -> BOOLEAN]
      /\ \A t \in ids \ {s} : paid'[t] = paid[t] /\ claimedAt'[t] = claimedAt[t]
      /\ paid'[s] = [paid[s] EXCEPT ![h] = @ + a]
      /\ claimedAt'[s] = [claimedAt[s] EXCEPT ![h] = TRUE]
  BY <1>2, <1>3, <1>4
<1>7. TokenInv'
  BY <1>4, TokenNextInv DEF VaultInv
<1>8. TypeOK'
  <2>1. claimedAt' \in Seq([Holder -> BOOLEAN]) /\ Len(claimedAt') = n
    <3>1. [claimedAt[s] EXCEPT ![h] = TRUE] \in [Holder -> BOOLEAN]
      BY <1>2, <1>6
    <3> QED BY <1>2, <1>3, <1>4, <3>1
  <2>2. paid' \in Seq([Holder -> Nat]) /\ Len(paid') = n
    <3>1. [paid[s] EXCEPT ![h] = @ + a] \in [Holder -> Nat]
      BY <1>0, <1>2, <1>6
    <3> QED BY <1>2, <1>3, <1>4, <3>1
  <2>3. usdc' \in Nat
    BY <1>0, <1>3, <1>4
  <2> QED BY <1>1, <1>4, <1>7, <2>1, <2>2, <2>3 DEF VaultInv, TypeOK, TokenInv
<1>9. \A t \in ids, g \in Holder : ProRata(t, g)' = ProRata(t, g)
  BY <1>2, <1>4, ProRataFixed
<1>10. \A t \in ids : snapshots'[t].timepoint \in 0 .. block' - 1
  BY <1>2, <1>4 DEF VaultInv, tokenVars
<1>11. \A t \in ids, g \in Holder :
         PendingFor(t, g)' = IF t = s /\ g = h THEN 0 ELSE PendingFor(t, g)
  BY <1>2, <1>6, <1>9 DEF PendingFor
<1>12. PaidOnceInFull'
  <2>1. \A t \in ids, g \in Holder :
          paid[t][g] = IF claimedAt[t][g] THEN ProRata(t, g) ELSE 0
    BY <1>2 DEF VaultInv, PaidOnceInFull
  <2>2. paid[s][h] = 0 /\ paid'[s][h] = a /\ claimedAt'[s][h]
    BY <1>0, <1>2, <1>4, <1>6, <2>1
  <2>3. \A t \in ids, g \in Holder : ~(t = s /\ g = h) =>
          paid'[t][g] = paid[t][g] /\ claimedAt'[t][g] = claimedAt[t][g]
    BY <1>2, <1>6
  <2> QED BY <1>0, <1>5, <1>9, <2>1, <2>2, <2>3 DEF PaidOnceInFull
<1>13. /\ \A t \in ids : Owed(t) \in Nat
       /\ \A t \in ids \ {s} : Owed(t)' = Owed(t)
       /\ Owed(s)' = Owed(s) - a /\ Owed(s)' \in Nat
  <2>1. \A t \in ids : /\ Pendings(t) \in [Holder -> Nat]
                       /\ Owed(t) = SumOf(Pendings(t)) /\ Owed(t) \in Nat
    BY <1>2, AmountsAreNat
  <2>2. \A t \in ids \ {s} : Owed(t)' = Owed(t)
    BY <1>11 DEF Owed
  <2>3. Owed(s)' = SumOf(Pendings(s)') /\ Pendings(s)' = [Pendings(s) EXCEPT ![h] = 0]
    BY <1>2, <1>11 DEF Owed, Pendings
  <2>4. Pendings(s)[h] = a
    BY <1>0, <1>4 DEF Pendings, PendingFor
  <2> DEFINE f == Pendings(s)
             g == [f EXCEPT ![h] = 0]
  <2>5. f \in [Holder -> Nat]
    BY <1>2, <2>1
  <2> HIDE DEF f
  <2>6. g \in [Holder -> Nat] /\ g[h] = 0 /\ \A y \in Holder \ {h} : g[y] = f[y]
    BY <2>5
  <2> HIDE DEF g
  <2>7. SumOf(g) = SumOf(f) - f[h] + g[h] /\ SumOf(g) \in Nat /\ SumOf(f) \in Nat
    <3>1. SumOf(g) = SumOf(f) - f[h] + g[h]
      BY <2>5, <2>6, SumUpdate, ShareTokenAssumption DEF ShareTokenAssumption
    <3>2. SumOf(g) \in Nat /\ SumOf(f) \in Nat
      BY <2>5, <2>6, SumIsNat, ShareTokenAssumption DEF ShareTokenAssumption
    <3> QED BY <3>1, <3>2
  <2>8. Owed(s)' = Owed(s) - a /\ Owed(s)' \in Nat
    <3>1. Owed(s)' = SumOf(g) /\ Owed(s) = SumOf(f) /\ f[h] = a
      BY <1>2, <2>1, <2>3, <2>4 DEF f, g
    <3> QED BY <1>0, <2>6, <2>7, <3>1
  <2> QED BY <2>1, <2>2, <2>8
<1>14. SerialSnapshotsSolvent'
  <2> DEFINE f == Owings
             g == Owings'
  <2>1. /\ f \in [ids -> Nat] /\ TotalOwed = SumOf(f) /\ TotalOwed \in Nat
        /\ \A t \in ids : f[t] = Owed(t)
    BY <1>2, AmountsAreNat DEF Owings
  <2>2. TotalOwed' = SumOf(g) /\ g = [t \in ids |-> Owed(t)']
    BY <1>5 DEF TotalOwed, Owings
  <2>3. /\ g \in [ids -> Nat] /\ g[s] = f[s] - a
        /\ \A t \in ids \ {s} : g[t] = f[t]
    <3>1. \A t \in ids : Owed(t)' \in Nat
      BY <1>13
    <3> HIDE DEF f, g
    <3> QED BY <1>2, <1>13, <2>1, <2>2, <3>1
  <2>4. f[s] \in Nat
    BY <1>2, <2>1
  <2> HIDE DEF f, g
  <2>5. SumOf(g) = SumOf(f) - f[s] + g[s]
    BY <1>2, <2>1, <2>3, SumUpdate
  <2>6. TotalOwed' = TotalOwed - a
    BY <1>0, <2>1, <2>2, <2>3, <2>4, <2>5
  <2>7. ~overlapped => TotalOwed <= usdc
    BY DEF VaultInv, SerialSnapshotsSolvent
  <2>8. ~overlapped' => TotalOwed' <= usdc'
    BY <1>0, <1>3, <1>4, <2>1, <2>6, <2>7
  <2> QED BY <2>8 DEF SerialSnapshotsSolvent
<1>15. ShortfallIsOthersDraw'
  <2> SUFFICES ASSUME NEW t \in ids
               PROVE  Owed(t)' <= usdc' + SumOf(DrawnBy(ids \ {t})')
    BY <1>5 DEF ShortfallIsOthersDraw, DrawnBy
  <2> DEFINE others == ids \ {t}
             f == DrawnBy(others)
             g == DrawnBy(others)'
  <2>1. /\ f = [u \in others |-> SumOf(paid[u])]
        /\ g = [u \in others |-> SumOf(paid'[u])]
        /\ f \in [others -> Nat] /\ SumOf(f) \in Nat /\ IsFiniteSet(others)
    BY <1>2, AmountsAreNat, FS_Subset DEF DrawnBy
  <2>2. Owed(t) <= usdc + SumOf(f)
    BY <1>2 DEF VaultInv, ShortfallIsOthersDraw, DrawnBy
  <2>3. CASE t = s
    <3>1. g = f
      BY <1>6, <2>1, <2>3
    <3>2. Owed(t)' = Owed(t) - a /\ Owed(t)' \in Nat /\ Owed(t) \in Nat
      BY <1>2, <1>13, <2>3
    <3> HIDE DEF f, g, others
    <3>3. PICK o \in Nat : o = Owed(t)
      BY <3>2
    <3>4. PICK m \in Nat : m = SumOf(f)
      BY <2>1
    <3>5. usdc' = usdc - a /\ a <= usdc /\ usdc \in Nat
      BY <1>3, <1>4
    <3>6. SumOf(g) = m
      BY <3>1, <3>4
    <3>7. o <= usdc + m
      BY <2>2, <3>3, <3>4
    <3>8. o - a <= usdc' + m
      BY <1>0, <3>5, <3>7
    <3>9. Owed(t)' <= usdc' + SumOf(g)
      BY <3>2, <3>3, <3>6, <3>8
    <3> QED BY <3>9 DEF g, others
  <2>4. CASE t # s
    <3>1. s \in others
      BY <1>2, <2>4
    <3>2. SumOf(paid'[s]) = SumOf(paid[s]) + a /\ SumOf(paid[s]) \in Nat
      <4> DEFINE p == paid[s]
                 q == paid'[s]
      <4>1. /\ p \in [Holder -> Nat] /\ q \in [Holder -> Nat] /\ q[h] = p[h] + a
            /\ \A y \in Holder \ {h} : q[y] = p[y]
        BY <1>0, <1>2, <1>6
      <4> HIDE DEF p, q
      <4>2. SumOf(q) = SumOf(p) - p[h] + q[h]
        BY <4>1, SumUpdate, ShareTokenAssumption DEF ShareTokenAssumption
      <4>3. SumOf(p) \in Nat
        BY <4>1, SumIsNat, ShareTokenAssumption DEF ShareTokenAssumption
      <4>4. SumOf(q) = SumOf(p) + a
        BY <1>0, <4>1, <4>2, <4>3
      <4> QED BY <4>3, <4>4 DEF p, q
    <3>3. /\ g[s] = f[s] + a /\ f[s] \in Nat
          /\ \A u \in others \ {s} : g[u] = f[u] /\ f[u] \in Nat
      <4>1. f[s] = SumOf(paid[s]) /\ g[s] = SumOf(paid'[s])
        BY <2>1, <3>1
      <4>2. \A u \in others \ {s} : paid'[u] = paid[u]
        BY <1>6
      <4>3. \A u \in others \ {s} : g[u] = f[u]
        BY <2>1, <4>2
      <4>4. \A u \in others : f[u] \in Nat
        BY <2>1
      <4> HIDE DEF f, g, others
      <4> QED BY <3>1, <3>2, <4>1, <4>3, <4>4
    <3>4. DOMAIN g = others /\ g = [u \in others |-> g[u]]
      BY <2>1
    <3> HIDE DEF f, g, others
    <3>5. g \in [others -> Nat]
      BY <1>0, <3>3, <3>4
    <3>6. SumOf(g) = SumOf(f) - f[s] + g[s]
      BY <2>1, <3>1, <3>3, <3>5, SumUpdate
    <3>7. Owed(t)' = Owed(t) /\ Owed(t) \in Nat
      BY <1>13, <2>4
    <3>8. Owed(t)' <= usdc' + SumOf(g)
      BY <1>0, <1>3, <1>4, <2>1, <2>2, <3>3, <3>6, <3>7
    <3> QED BY <3>8 DEF g, others
  <2> QED BY <2>3, <2>4
<1> QED BY <1>5, <1>7, <1>8, <1>10, <1>12, <1>14, <1>15 DEF VaultInv

---------------------------------------------------------------------------
(* Every step of the vault keeps the invariant. *)
LEMMA VaultNextInv == VaultInv /\ [Next]_vars => VaultInv'
<1> SUFFICES ASSUME VaultInv, [Next]_vars PROVE VaultInv'
  OBVIOUS
<1>1. usdc \in Nat /\ received \in Nat
  BY DEF VaultInv, TypeOK
<1>2. CASE TokenNext /\ UNCHANGED vaultVars
  BY <1>1, <1>2, TradeOrFundInv DEF vaultVars
<1>3. ASSUME NEW amount \in 1 .. MaxRevenue, Fund(amount) PROVE VaultInv'
  <2>1. UNCHANGED tokenVars /\ UNCHANGED <<snapshots, claimedAt, paid, overlapped>>
    BY <1>3 DEF Fund
  <2>2. usdc' \in Nat /\ usdc' >= usdc /\ received' \in Nat
    <3>1. amount \in Nat
      BY RevenueVaultAssumption DEF RevenueVaultAssumption
    <3> QED BY <1>1, <1>3, <3>1 DEF Fund
  <2> QED BY <2>1, <2>2, TradeOrFundInv
<1>4. CASE Snap
  BY <1>4, SnapInv
<1>5. ASSUME NEW s \in SnapshotIds, NEW h \in Holder, Settle(s, h) PROVE VaultInv'
  BY <1>5, SettleInv
<1>6. CASE UNCHANGED vars
  BY <1>1, <1>6, TradeOrFundInv DEF vars, vaultVars
<1> QED BY <1>2, <1>3, <1>4, <1>5, <1>6 DEF Next

(* What the settlements of a snapshot paid is at most what it is worth. *)
LEMMA VaultInvPaysWithin == VaultInv => PaidWithinSnapshot
<1> SUFFICES ASSUME VaultInv, NEW s \in SnapshotIds
             PROVE  SumOf(paid[s]) <= snapshots[s].balanceAtSnapshot
  BY DEF PaidWithinSnapshot
<1> DEFINE p == paid[s]
           e == Entitlements(s)
           B == snapshots[s].balanceAtSnapshot
<1>1. p \in [Holder -> Nat] /\ B \in Nat
  <2>1. snapshots[s] \in Snapshot /\ paid[s] \in [Holder -> Nat]
    BY DEF VaultInv, TypeOK, SnapshotIds
  <2> QED BY <2>1 DEF Snapshot
<1>2. e \in [Holder -> Nat] /\ SumOf(e) <= B
  BY WorthWithinBalance
<1>3. \A h \in Holder : p[h] <= e[h]
  <2>1. \A h \in Holder : p[h] = IF claimedAt[s][h] THEN e[h] ELSE 0
    BY DEF VaultInv, PaidOnceInFull, Entitlements
  <2> HIDE DEF p, e
  <2> QED BY <1>2, <2>1
<1> HIDE DEF p, e, B
<1>4. SumOf(p) <= SumOf(e) /\ SumOf(p) \in Nat /\ SumOf(e) \in Nat
  BY <1>1, <1>2, <1>3, SumMonotone, SumIsNat, ShareTokenAssumption DEF ShareTokenAssumption
<1>5. SumOf(p) <= B
  BY <1>1, <1>2, <1>4
<1> QED BY <1>5 DEF p, B

(* No step but the settlement with a holder changes what a snapshot owes it. *)
LEMMA DebtStep ==
  ASSUME VaultInv, [Next]_vars, NEW s \in SnapshotIds, NEW h \in Holder,
         PendingFor(s, h)' # PendingFor(s, h)
  PROVE  /\ PendingFor(s, h)' = 0
         /\ usdc' = usdc - PendingFor(s, h)
         /\ paid'[s][h] = paid[s][h] + PendingFor(s, h)
<1>1. /\ snapshots \in Seq(Snapshot) /\ s \in 1 .. Len(snapshots)
      /\ claimedAt \in Seq([Holder -> BOOLEAN]) /\ Len(claimedAt) = Len(snapshots)
      /\ paid \in Seq([Holder -> Nat]) /\ Len(paid) = Len(snapshots)
  BY DEF VaultInv, TypeOK, SnapshotIds
<1>2. ASSUME [TokenNext]_tokenVars, UNCHANGED <<snapshots, claimedAt, paid>> PROVE FALSE
  BY <1>2, DebtsFixed
<1>3. ASSUME Snap PROVE FALSE
  <2>1. snapshots'[s] = snapshots[s] /\ claimedAt'[s] = claimedAt[s]
    BY <1>1, <1>3 DEF Snap
  <2>2. UNCHANGED tokenVars
    BY <1>3 DEF Snap
  <2>3. ProRata(s, h)' = ProRata(s, h)
    BY <2>1, <2>2, ProRataFixed
  <2> QED BY <2>1, <2>3 DEF PendingFor
<1>4. ASSUME NEW t \in SnapshotIds, NEW g \in Holder, Settle(t, g)
      PROVE  /\ PendingFor(s, h)' = 0
             /\ usdc' = usdc - PendingFor(s, h)
             /\ paid'[s][h] = paid[s][h] + PendingFor(s, h)
  <2>1. /\ ~claimedAt[t][g] /\ usdc' = usdc - ProRata(t, g)
        /\ claimedAt' = [claimedAt EXCEPT ![t][g] = TRUE]
        /\ paid' = [paid EXCEPT ![t][g] = @ + ProRata(t, g)]
        /\ UNCHANGED tokenVars /\ UNCHANGED snapshots
    BY <1>4 DEF Settle
  <2>2. ProRata(s, h)' = ProRata(s, h)
    BY <2>1, ProRataFixed
  <2>3. claimedAt'[s][h] # claimedAt[s][h]
    BY <2>2 DEF PendingFor
  <2>4. s = t /\ h = g
    <3>1. t \in 1 .. Len(snapshots)
      BY DEF SnapshotIds
    <3>2. s # t => claimedAt'[s] = claimedAt[s]
      BY <1>1, <2>1, <3>1
    <3>3. s = t /\ h # g => claimedAt'[s][h] = claimedAt[s][h]
      <4>1. claimedAt[s] \in [Holder -> BOOLEAN]
        BY <1>1
      <4> QED BY <1>1, <2>1, <3>1, <4>1
    <3> QED BY <2>3, <3>2, <3>3
  <2>5. claimedAt'[s][h] /\ ~claimedAt[s][h] /\ PendingFor(s, h) = ProRata(s, h)
    BY <1>1, <2>1, <2>4 DEF PendingFor
  <2>6. paid'[s][h] = paid[s][h] + ProRata(s, h)
    BY <1>1, <2>1, <2>4
  <2>7. PendingFor(s, h)' = 0
    BY <2>5 DEF PendingFor
  <2> QED BY <2>1, <2>4, <2>5, <2>6, <2>7
<1>5. \/ [TokenNext]_tokenVars /\ UNCHANGED <<snapshots, claimedAt, paid>>
      \/ Snap
      \/ \E t \in SnapshotIds, g \in Holder : Settle(t, g)
  BY DEF Next, Fund, vars, vaultVars
<1> QED BY <1>2, <1>3, <1>4, <1>5

---------------------------------------------------------------------------
\* The vault implements Dividends.

(* The votes of the last closed block are a sound register, with the sums of this module. *)
LEMMA RegisterSound == TokenInv => Payer!Sound(past[block - 1])
<1> SUFFICES ASSUME TokenInv PROVE Payer!Sound(past[block - 1])
  OBVIOUS
<1>1. past[block - 1] \in Checkpoint /\ block - 1 \in DOMAIN past
  BY DEF TokenInv, TokenTypeOK
<1>2. SumOf(past[block - 1].votes) <= past[block - 1].supply
  BY <1>1 DEF TokenInv
<1>3. Payer!SumOf(past[block - 1].votes) = SumOf(past[block - 1].votes)
  BY DEF Payer!SumOf, Payer!Units, Payer!Cardinality, SumOf, Units, Cardinality
<1> QED BY <1>1, <1>2, <1>3 DEF Payer!Sound, Payer!Register, Checkpoint

(* As long as no snapshot is added, all of them are worth what they were. *)
LEMMA WorthFixed ==
  ASSUME VaultInv, [TokenNext]_tokenVars, UNCHANGED snapshots
  PROVE  Worth' = Worth
<1>1. SnapshotIds' = SnapshotIds
  BY DEF SnapshotIds
<1>2. \A s \in SnapshotIds, h \in Holder : ProRata(s, h)' = ProRata(s, h)
  BY ProRataFixed
<1> QED BY <1>1, <1>2 DEF Worth

(* Trading changes nothing but the register, and that only when a block closes. *)
LEMMA TradesAreTrades ==
  ASSUME VaultInv, VaultInv', TokenNext, UNCHANGED vaultVars
  PROVE  Payer!Trade
<1>1. Payer!Sound(past[block - 1])'
  <2>1. TokenInv'
    BY DEF VaultInv
  <2> QED BY <2>1, RegisterSound, PTL
<1>2. UNCHANGED <<usdc, Worth, paid>>
  BY WorthFixed DEF vaultVars
<1> QED BY <1>1, <1>2 DEF Payer!Trade

(* A sequence with one more element, as a function. *)
LEMMA AppendedAsFunction ==
  ASSUME NEW S, NEW n \in Nat, NEW f \in [1 .. n -> S], NEW e \in S
  PROVE  Append(f, e) = [s \in 1 .. n + 1 |-> IF s = n + 1 THEN e ELSE f[s]]
<1>1. f \in Seq(S) /\ Len(f) = n
  OBVIOUS
<1> DEFINE g == [s \in 1 .. n + 1 |-> IF s = n + 1 THEN e ELSE f[s]]
<1>2. g \in Seq(S) /\ Len(g) = n + 1
  <2>1. \A s \in 1 .. n + 1 : s # n + 1 => s \in 1 .. n
    OBVIOUS
  <2>2. g \in [1 .. n + 1 -> S]
    BY <2>1
  <2> HIDE DEF g
  <2> QED BY <2>2
<1>3. \A s \in 1 .. n + 1 : g[s] = IF s = n + 1 THEN e ELSE f[s]
  OBVIOUS
<1> HIDE DEF g
<1>4. Append(f, e) \in Seq(S) /\ Len(Append(f, e)) = n + 1
  BY <1>1
<1>5. \A s \in 1 .. n + 1 : Append(f, e)[s] = g[s]
  BY <1>1, <1>3
<1>6. Append(f, e) = g
  BY <1>2, <1>4, <1>5, SeqEqual
<1> QED BY <1>6 DEF g

(* snap() declares a dividend: the new snapshot is worth to each holder its part of the cash *)
(* by the votes of the last closed block, and the earlier ones are worth what they were.      *)
LEMMA SnapDeclares ==
  ASSUME VaultInv, Snap
  PROVE  Payer!Declare
<1>0. PICK n \in Nat : n = Len(snapshots)
  BY DEF VaultInv, TypeOK
<1> DEFINE r == past[block - 1]
           added == [timepoint |-> block - 1, balanceAtSnapshot |-> usdc]
           parts == [h \in Holder |-> Payer!Part(h)]
<1>1. /\ snapshots \in Seq(Snapshot) /\ usdc > 0
      /\ snapshots' = Append(snapshots, added)
      /\ paid' = Append(paid, [h \in Holder |-> 0])
      /\ UNCHANGED tokenVars /\ UNCHANGED usdc
  BY DEF VaultInv, TypeOK, Snap
<1>2. /\ SnapshotIds = 1 .. n /\ SnapshotIds' = 1 .. n + 1
      /\ snapshots'[n + 1] = added
      /\ \A s \in 1 .. n : snapshots'[s] = snapshots[s]
  BY <1>0, <1>1 DEF SnapshotIds
<1>3. UNCHANGED <<past, block>>
  BY <1>1 DEF tokenVars
<1>4. \A s \in 1 .. n, h \in Holder : ProRata(s, h)' = ProRata(s, h)
  BY <1>1, <1>2, ProRataFixed
<1>5. ASSUME NEW h \in Holder
      PROVE  ProRata(n + 1, h)' = Payer!Part(h) /\ Payer!Part(h) \in Nat
  <2>1. /\ r.votes \in [Holder -> Nat] /\ r.supply \in Nat /\ SumOf(r.votes) <= r.supply
    <3>1. r \in Checkpoint /\ block - 1 \in DOMAIN past
      BY DEF VaultInv, TokenInv, TokenTypeOK
    <3> QED BY <3>1 DEF VaultInv, TokenInv, Checkpoint
  <2>2. r.votes[h] \in Nat /\ r.votes[h] <= r.supply
    <3>1. SumOf(r.votes) \in Nat /\ r.votes[h] <= SumOf(r.votes)
      BY <2>1, SumIsNat, SumBoundsTerm, ShareTokenAssumption DEF ShareTokenAssumption
    <3> QED BY <2>1, <3>1
  <2>3. ProRata(n + 1, h)' = IF r.votes[h] > 0 /\ r.supply > 0
                             THEN (usdc * r.votes[h]) \div r.supply ELSE 0
    BY <1>2, <1>3 DEF ProRata, PastVotes, PastSupply
  <2>4. r.votes[h] > 0 /\ r.supply > 0 <=> r.votes[h] # 0
    BY <2>1, <2>2
  <2>5. Payer!Part(h) = Shares(usdc, r.votes, r.supply)[h]
    BY <2>4 DEF Payer!Part, Shares
  <2>6. Shares(usdc, r.votes, r.supply) \in [Holder -> Nat]
    BY <2>1, SharesWithinBalance DEF VaultInv, TypeOK
  <2>7. Payer!Part(h) \in Nat
    BY <2>5, <2>6
  <2>8. ProRata(n + 1, h)' = Payer!Part(h)
    BY <2>3, <2>4 DEF Payer!Part
  <2> QED BY <2>7, <2>8
<1>6. Worth' = Append(Worth, parts)
  <2>1. Worth' = [s \in 1 .. n + 1 |-> IF s = n + 1 THEN parts ELSE Worth[s]]
    <3>1. Worth' = [s \in 1 .. n + 1 |-> [h \in Holder |-> ProRata(s, h)']]
      BY <1>2 DEF Worth
    <3>2. \A s \in 1 .. n : Worth[s] = [h \in Holder |-> ProRata(s, h)']
      BY <1>2, <1>4 DEF Worth
    <3>3. parts = [h \in Holder |-> ProRata(n + 1, h)']
      BY <1>5
    <3>4. \A s \in 1 .. n + 1 : s # n + 1 => s \in 1 .. n
      BY <1>0
    <3> QED BY <3>1, <3>2, <3>3, <3>4
  <2>2. Worth \in [1 .. n -> [Holder -> Nat]] /\ parts \in [Holder -> Nat]
    <3>1. \A s \in 1 .. n, h \in Holder : ProRata(s, h) \in Nat
      BY <1>2, AmountsAreNat
    <3>2. Worth = [s \in 1 .. n |-> Entitlements(s)]
      BY <1>2 DEF Worth, Entitlements
    <3>3. \A s \in 1 .. n : Entitlements(s) \in [Holder -> Nat]
      BY <3>1 DEF Entitlements
    <3>4. parts \in [Holder -> Nat]
      BY <1>5
    <3>5. Worth \in [1 .. n -> [Holder -> Nat]]
      BY <3>2, <3>3
    <3> QED BY <3>4, <3>5
  <2> HIDE DEF parts
  <2>3. Append(Worth, parts) = [s \in 1 .. n + 1 |-> IF s = n + 1 THEN parts ELSE Worth[s]]
    <3> DEFINE W == Worth
               S == [Holder -> Nat]
    <3>1. W \in [1 .. n -> S] /\ parts \in S
      BY <2>2
    <3> HIDE DEF W, S
    <3>2. Append(W, parts) = [s \in 1 .. n + 1 |-> IF s = n + 1 THEN parts ELSE W[s]]
      BY <3>1, AppendedAsFunction
    <3> QED BY <3>2 DEF W
  <2> QED BY <2>1, <2>3
<1> QED BY <1>1, <1>3, <1>6 DEF Payer!Declare

(* A settlement disburses the holder's whole part, once; one that is worth nothing does too. *)
LEMMA SettleDisburses ==
  ASSUME VaultInv, NEW s \in SnapshotIds, NEW h \in Holder, Settle(s, h)
  PROVE  s \in DOMAIN Worth /\ Payer!Disburse(s, h)
<1>1. /\ ~claimedAt[s][h] /\ ProRata(s, h) <= usdc
      /\ paid' = [paid EXCEPT ![s][h] = @ + ProRata(s, h)]
      /\ usdc' = usdc - ProRata(s, h)
      /\ UNCHANGED tokenVars /\ UNCHANGED snapshots
  BY DEF Settle
<1>2. paid[s][h] = 0 /\ ProRata(s, h) \in Nat /\ Worth[s][h] = ProRata(s, h)
  BY <1>1, AmountsAreNat DEF VaultInv, PaidOnceInFull, Worth
<1>3. paid' = [paid EXCEPT ![s][h] = Worth[s][h]]
  <2>1. paid \in Seq([Holder -> Nat]) /\ Len(paid) = Len(snapshots) /\ s \in 1 .. Len(paid)
    BY DEF VaultInv, TypeOK, SnapshotIds
  <2>2. paid[s][h] + ProRata(s, h) = Worth[s][h]
    BY <1>2
  <2> QED BY <1>1, <2>1, <2>2
<1>4. Worth' = Worth
  BY <1>1, WorthFixed
<1>5. UNCHANGED <<past, block>>
  BY <1>1 DEF tokenVars
<1> QED BY <1>1, <1>2, <1>3, <1>4, <1>5 DEF Payer!Disburse, Worth

(* Every step of the vault is a step of the payer, or changes nothing of it. *)
LEMMA PayerStep ==
  ASSUME VaultInv, VaultInv', [Next]_vars
  PROVE  [Payer!Next]_(Payer!vars)
<1>1. CASE TokenNext /\ UNCHANGED vaultVars
  BY <1>1, TradesAreTrades DEF Payer!Next
<1>2. ASSUME NEW amount \in 1 .. MaxRevenue, Fund(amount) PROVE Payer!Collect
  <2>1. usdc \in Nat /\ amount \in Nat \ {0} /\ usdc' = usdc + amount
    BY <1>2, RevenueVaultAssumption DEF VaultInv, TypeOK, Fund, RevenueVaultAssumption
  <2>2. UNCHANGED tokenVars /\ UNCHANGED <<snapshots, paid>>
    BY <1>2 DEF Fund
  <2>3. Worth' = Worth
    BY <2>2, WorthFixed
  <2>4. UNCHANGED <<past, block>>
    BY <2>2 DEF tokenVars
  <2> QED BY <2>1, <2>2, <2>3, <2>4 DEF Payer!Collect
<1>3. CASE Snap
  BY <1>3, SnapDeclares DEF Payer!Next
<1>4. ASSUME NEW s \in SnapshotIds, NEW h \in Holder, Settle(s, h) PROVE Payer!Next
  BY <1>4, SettleDisburses DEF Payer!Next
<1>5. CASE UNCHANGED vars
  <2>1. UNCHANGED tokenVars /\ UNCHANGED <<snapshots, paid, usdc>>
    BY <1>5 DEF vars, vaultVars
  <2>2. Worth' = Worth
    BY <2>1, WorthFixed
  <2>3. UNCHANGED <<past, block>>
    BY <2>1 DEF tokenVars
  <2> QED BY <2>1, <2>2, <2>3 DEF Payer!vars
<1> QED BY <1>1, <1>2, <1>3, <1>4, <1>5 DEF Next, Payer!Next

(* The empty vault has declared nothing. *)
LEMMA PayerInit == Init => Payer!Init
<1> SUFFICES ASSUME Init PROVE Payer!Init
  OBVIOUS
<1>1. Payer!Sound(past[block - 1])
  BY VaultInitInv, RegisterSound DEF VaultInv
<1>2. Worth = <<>> /\ usdc = 0 /\ paid = <<>>
  <2>1. SnapshotIds = {}
    BY DEF Init, SnapshotIds
  <2> QED BY <2>1 DEF Init, Worth
<1> QED BY <1>1, <1>2 DEF Payer!Init

---------------------------------------------------------------------------
(* The invariant holds in every state of every behaviour. *)
THEOREM VaultInvariant == Spec => []VaultInv
BY VaultInitInv, VaultNextInv, PTL DEF Spec

(* Every variable keeps its type. *)
THEOREM TypeCorrect == Spec => []TypeOK
<1>1. VaultInv => TypeOK
  BY DEF VaultInv
<1> QED BY <1>1, VaultInvariant, PTL

(* A delegate's votes are the sum of the balances delegated to it (ShareToken._update). *)
THEOREM VotesTrackBalances == Spec => []VotesMatchDelegations
<1>1. VaultInv => VotesMatchDelegations
  BY TokenInvImplies DEF VaultInv
<1> QED BY <1>1, VaultInvariant, PTL

(* Shares are conserved and no checkpoint counts more votes than there was supply. *)
THEOREM SharesConserved == Spec => []VotesWithinSupply
<1>1. VaultInv => VotesWithinSupply
  BY TokenInvImplies DEF VaultInv
<1> QED BY <1>1, VaultInvariant, PTL

(* Nobody who holds shares goes uncounted without having chosen so. *)
THEOREM NobodyForgotten == Spec => []HoldersAreCounted
<1>1. VaultInv => HoldersAreCounted
  BY TokenInvImplies DEF VaultInv
<1> QED BY <1>1, VaultInvariant, PTL

(* A snapshot never pays more than the balance it recorded. *)
THEOREM NeverOverpays == Spec => []PaidWithinSnapshot
BY VaultInvPaysWithin, VaultInvariant, PTL

(* Every holder is paid its snapshot share once, and nothing else. *)
THEOREM PaysEachShareOnce == Spec => []PaidOnceInFull
<1>1. VaultInv => PaidOnceInFull
  BY DEF VaultInv
<1> QED BY <1>1, VaultInvariant, PTL

(* If no snap() overlaps an open snapshot, the vault covers every debt. *)
THEOREM SolventWhenSerial == Spec => []SerialSnapshotsSolvent
<1>1. VaultInv => SerialSnapshotsSolvent
  BY DEF VaultInv
<1> QED BY <1>1, VaultInvariant, PTL

(* If they overlap, one snapshot's shortfall is bounded by what the others have drawn. *)
THEOREM ShortfallBounded == Spec => []ShortfallIsOthersDraw
<1>1. VaultInv => ShortfallIsOthersDraw
  BY DEF VaultInv
<1> QED BY <1>1, VaultInvariant, PTL

(* Later trades cannot change what an earlier snapshot owes (revenue.mdx:33-34). *)
THEOREM TradesDoNotDilute == Spec => LaterTradesDoNotDilute
<1> DEFINE DebtsOnlySettle ==
      \A s \in SnapshotIds, h \in Holder :
        PendingFor(s, h)' # PendingFor(s, h) =>
          /\ PendingFor(s, h)' = 0
          /\ usdc' = usdc - PendingFor(s, h)
          /\ paid'[s][h] = paid[s][h] + PendingFor(s, h)
<1>1. VaultInv /\ [Next]_vars => [DebtsOnlySettle]_vars
  BY DebtStep
<1>2. QED BY <1>1, VaultInvariant, PTL DEF Spec, LaterTradesDoNotDilute

(* The vault implements Dividends, for any history of trades, payments, snapshots and claims: *)
(* snap() fixes what each holder gets, and each gets that once, as far as the money goes.     *)
THEOREM VaultPaysDividends == Spec => PaysDividends
<1>1. VaultInv /\ VaultInv' /\ [Next]_vars => [Payer!Next]_(Payer!vars)
  BY PayerStep
<1> QED BY PayerInit, <1>1, VaultInvariant, PTL DEF Spec, PaysDividends, Payer!Spec

---------------------------------------------------------------------------
\* The sale and the page that distributes.

(* The transactions of the page's wallet. *)
Awaits(i) == mempool[i].kind = "snap" /\ mempool[i].awaited
Sent(s, h) ==
  \E i \in DOMAIN mempool :
    mempool[i].kind = "pay" /\ mempool[i].id = s /\ mempool[i].holder = h

(* The page waits for the one snap() whose receipt it will take. *)
AwaitsOne ==
  \A i \in DOMAIN mempool : Awaits(i) =>
    /\ page.pc = "snap" /\ ~page.mined
    /\ \A j \in DOMAIN mempool : Awaits(j) => j = i

(* What a receipt and a distribution name is a snapshot. *)
PageKnowsItsSnapshot ==
  /\ page.mined => page.pc = "snap"
  /\ (page.mined /\ page.id # 0) => page.id \in SnapshotIds
  /\ page.own # 0 => /\ page.own \in SnapshotIds /\ page.id = page.own
                     /\ page.pc \in {"push", "done"}
  /\ page.pc = "done" => page.left = {}

(* Whoever is not left to be paid is paid, or will be by what the wallet has sent. *)
PaidOrSent ==
  (page.own # 0 /\ ~overlapped) =>
    \A h \in page.listed \ page.left : claimedAt[page.own][h] \/ Sent(page.own, h)

PageInv == AwaitsOne /\ PageKnowsItsSnapshot /\ PaidOrSent

(* The inductive invariant. Nothing is burned here, and the sale pays for what it moved. *)
DistInv ==
  /\ VaultInv
  /\ DistributionTypeOK
  /\ supply = TotalSupply
  /\ SaleRoundsDown
  /\ PageInv

---------------------------------------------------------------------------
(* A purchase moves shares as a transfer does. *)
LEMMA BuyIsTransfer ==
  ASSUME TokenInv, supply = TotalSupply, NEW buyer \in Holder,
         NEW amount \in 1 .. MaxShares, Buy(buyer, amount)
  PROVE  TokenNext
<1>1. Transfer(Creator, buyer, amount) /\ Creator \in Holder /\ amount \in Nat
  BY IPOSaleAssumption DEF Buy, IPOSaleAssumption
<1>2. amount <= balances[Creator]
  BY <1>1 DEF Transfer
<1>3. /\ balances \in [Holder -> Nat] /\ SumOf(balances) = TotalSupply
      /\ IsFiniteSet(Holder) /\ TotalSupply \in Nat
  BY ShareTokenAssumption DEF TokenInv, TokenTypeOK, ShareTokenAssumption
<1>4. balances[Creator] <= TotalSupply /\ balances[Creator] \in Nat
  BY <1>1, <1>3, SumBoundsTerm
<1>5. amount \in 0 .. TotalSupply
  BY <1>1, <1>2, <1>3, <1>4
<1> QED BY <1>1, <1>5 DEF TokenNext

(* The head of the queue, and the queue without it. *)
LEMMA HeadIsTx ==
  ASSUME mempool \in Seq(Tx), mempool # <<>>
  PROVE  /\ Head(mempool) \in Tx /\ Head(mempool) = mempool[1]
         /\ Head(mempool).kind = "pay" => Head(mempool).id \in Nat /\ Head(mempool).holder \in Holder
         /\ Tail(mempool) \in Seq(Tx)
         /\ \A i \in DOMAIN Tail(mempool) : i + 1 \in DOMAIN mempool /\ Tail(mempool)[i] = mempool[i + 1]
         /\ \A i \in DOMAIN mempool \ {1} : i - 1 \in DOMAIN Tail(mempool)
                                           /\ Tail(mempool)[i - 1] = mempool[i]
<1>1. Len(mempool) \in Nat \ {0} /\ DOMAIN mempool = 1 .. Len(mempool)
  OBVIOUS
<1>2. Head(mempool) = mempool[1] /\ Head(mempool) \in Tx
  BY <1>1
<1>3. Head(mempool).kind = "pay" => Head(mempool).id \in Nat /\ Head(mempool).holder \in Holder
  BY <1>2 DEF Tx
<1>4. /\ Tail(mempool) \in Seq(Tx) /\ Len(Tail(mempool)) = Len(mempool) - 1
      /\ \A i \in 1 .. Len(mempool) - 1 : Tail(mempool)[i] = mempool[i + 1]
  BY <1>1
<1> QED BY <1>1, <1>2, <1>3, <1>4

(* Every step is one of the vault's, or leaves it alone. *)
LEMMA RefinesVault ==
  ASSUME TokenInv, DistributionTypeOK, supply = TotalSupply, [DistributionNext]_distVars
  PROVE  [Next]_vars
<1>1. CASE Trade /\ UNCHANGED <<vaultVars, saleVars, pageVars>>
  <2>1. \A n \in 1 .. TotalSupply : n \in 0 .. TotalSupply
    BY ShareTokenAssumption DEF ShareTokenAssumption
  <2> QED BY <1>1, <2>1 DEF Trade, TokenNext, Next
<1>2. CASE SaleNext /\ UNCHANGED <<vaultVars, pageVars>>
  <2>1. CASE Approve
    BY <1>2, <2>1 DEF Approve, vars
  <2>2. ASSUME NEW buyer \in Holder, NEW amount \in 1 .. MaxShares, Buy(buyer, amount)
        PROVE  [Next]_vars
    <3>1. TokenNext
      BY <2>2, BuyIsTransfer
    <3> QED BY <1>2, <3>1 DEF Next
  <2> QED BY <1>2, <2>1, <2>2 DEF SaleNext
<1>3. CASE VaultNext /\ UNCHANGED <<saleVars, pageVars>>
  BY <1>3 DEF VaultNext, Next
<1>4. CASE MineSnap
  BY <1>4 DEF MineSnap, Next
<1>5. CASE MinePay
  <2> DEFINE tx == Head(mempool)
  <2>1. UNCHANGED vars \/ (tx.id \in SnapshotIds /\ Settle(tx.id, tx.holder)
                           /\ tx.kind = "pay" /\ mempool # <<>>)
    BY <1>5 DEF MinePay
  <2>2. (mempool # <<>> /\ tx.kind = "pay") => tx.holder \in Holder
    BY HeadIsTx DEF DistributionTypeOK
  <2>3. CASE tx.id \in SnapshotIds /\ Settle(tx.id, tx.holder) /\ tx.holder \in Holder
    BY <2>3 DEF Next
  <2> QED BY <2>1, <2>2, <2>3
<1>6. CASE Load \/ Click \/ SeeReceipt \/ Report \/ GiveUp \/ (\E h \in Holder : Push(h))
           \/ UNCHANGED distVars
  BY <1>6 DEF Load, Click, SeeReceipt, Report, GiveUp, Push, distVars
<1> QED BY <1>1, <1>2, <1>3, <1>4, <1>5, <1>6 DEF DistributionNext, PageNext

(* A snapshot stays, what is settled stays settled, and an overlap is not forgotten. *)
LEMMA VaultIsMonotone ==
  ASSUME VaultInv, [Next]_vars
  PROVE  /\ SnapshotIds \subseteq SnapshotIds'
         /\ \A s \in SnapshotIds, h \in Holder : claimedAt[s][h] => claimedAt'[s][h]
         /\ overlapped => overlapped'
<1>1. /\ SnapshotIds = 1 .. Len(snapshots) /\ Len(snapshots) \in Nat
      /\ SnapshotIds' = 1 .. Len(snapshots')
      /\ claimedAt \in Seq([Holder -> BOOLEAN]) /\ Len(claimedAt) = Len(snapshots)
      /\ snapshots \in Seq(Snapshot)
  BY DEF VaultInv, TypeOK, SnapshotIds
<1>2. CASE UNCHANGED <<snapshots, claimedAt, overlapped>>
  BY <1>1, <1>2
<1>3. CASE Snap
  <2>1. /\ Len(snapshots') = Len(snapshots) + 1
        /\ \A s \in 1 .. Len(claimedAt) : claimedAt'[s] = claimedAt[s]
    BY <1>1, <1>3 DEF Snap
  <2>2. overlapped => overlapped'
    <3>1. overlapped' = (overlapped \/ TotalOwed > 0)
      BY <1>3 DEF Snap
    <3> QED BY <3>1, Zenon
  <2>3. SnapshotIds \subseteq SnapshotIds'
    BY <1>1, <2>1
  <2>4. \A s \in SnapshotIds, h \in Holder : claimedAt[s][h] => claimedAt'[s][h]
    BY <1>1, <2>1
  <2> QED BY <2>2, <2>3, <2>4
<1>4. ASSUME NEW t \in SnapshotIds, NEW g \in Holder, Settle(t, g)
      PROVE  /\ snapshots' = snapshots /\ overlapped' = overlapped
             /\ \A s \in SnapshotIds, h \in Holder : claimedAt[s][h] => claimedAt'[s][h]
  <2>1. \A s \in SnapshotIds : claimedAt[s] \in [Holder -> BOOLEAN]
    BY <1>1
  <2> QED BY <1>1, <1>4, <2>1 DEF Settle
<1>5. CASE \E s \in SnapshotIds, h \in Holder : Settle(s, h)
  BY <1>1, <1>4, <1>5
<1> QED BY <1>2, <1>3, <1>5 DEF Next, vars, vaultVars, Fund

(* While no snapshots overlapped the vault covers every payment that is owed. *)
LEMMA CoversEach ==
  ASSUME VaultInv, ~overlapped, NEW s \in SnapshotIds, NEW h \in Holder, ~claimedAt[s][h]
  PROVE  ProRata(s, h) <= usdc
<1>1. /\ Pendings(s) \in [Holder -> Nat] /\ Owed(s) = SumOf(Pendings(s)) /\ Owed(s) \in Nat
      /\ Owings \in [SnapshotIds -> Nat] /\ TotalOwed = SumOf(Owings) /\ TotalOwed \in Nat
      /\ IsFiniteSet(SnapshotIds)
      /\ ProRata(s, h) \in Nat
  BY AmountsAreNat
<1>2. Pendings(s)[h] = ProRata(s, h) /\ Owings[s] = Owed(s)
  BY DEF Pendings, PendingFor, Owings
<1>3. ProRata(s, h) <= Owed(s)
  BY <1>1, <1>2, SumBoundsTerm, ShareTokenAssumption DEF ShareTokenAssumption
<1>4. Owed(s) <= TotalOwed
  BY <1>1, <1>2, SumBoundsTerm
<1>5. TotalOwed <= usdc /\ usdc \in Nat
  BY DEF VaultInv, SerialSnapshotsSolvent, TypeOK
<1> QED BY <1>1, <1>3, <1>4, <1>5

---------------------------------------------------------------------------
(* What is bought in one purchase is paid for, but for less than one payment unit. *)
LEMMA CostRoundsDown ==
  ASSUME NEW a \in Nat
  PROVE  /\ Cost(a) \in Nat
         /\ a * PricePerShare - Cost(a) * WholeShare \in 0 .. WholeShare - 1
<1> DEFINE m == a * PricePerShare
<1>1. m \in Nat /\ WholeShare \in Nat \ {0}
  BY IPOSaleAssumption DEF IPOSaleAssumption
<1>2. Cost(a) = m \div WholeShare
  BY DEF Cost
<1> HIDE DEF m
<1>3. \A x \in Nat, w \in Nat \ {0} : x \div w \in Nat /\ x - (x \div w) * w \in 0 .. w - 1
  OBVIOUS
<1>4. Cost(a) \in Nat /\ m - Cost(a) * WholeShare \in 0 .. WholeShare - 1
  BY <1>1, <1>2, <1>3
<1> QED BY <1>4 DEF m

LEMMA BuyRoundsDown ==
  ASSUME SaleTypeOK, SaleRoundsDown, NEW buyer \in Holder, NEW a \in 1 .. MaxShares, Buy(buyer, a)
  PROVE  SaleTypeOK' /\ SaleRoundsDown'
<1>1. /\ WholeShare \in Nat \ {0} /\ PricePerShare \in Nat /\ MaxShares \in Nat
      /\ sold \in Nat /\ raised \in Nat /\ purchases \in Nat /\ allowance \in Nat
      /\ a \in Nat /\ a <= allowance
  BY IPOSaleAssumption DEF IPOSaleAssumption, SaleTypeOK, Buy
<1> DEFINE c == Cost(a)
<1>2. c \in Nat /\ a * PricePerShare - c * WholeShare \in 0 .. WholeShare - 1
  BY <1>1, CostRoundsDown
<1>3. /\ sold' = sold + a /\ raised' = raised + c /\ purchases' = purchases + 1
      /\ allowance' = allowance - a
  BY DEF Buy
<1> HIDE DEF c
<1>4. SaleTypeOK'
  BY <1>1, <1>2, <1>3 DEF SaleTypeOK
<1>5. /\ (sold + a) * PricePerShare = sold * PricePerShare + a * PricePerShare
      /\ (raised + c) * WholeShare = raised * WholeShare + c * WholeShare
      /\ (purchases + 1) * (WholeShare - 1) = purchases * (WholeShare - 1) + (WholeShare - 1)
  BY <1>1, <1>2
<1>6. /\ sold * PricePerShare \in Nat /\ a * PricePerShare \in Nat
      /\ raised * WholeShare \in Nat /\ c * WholeShare \in Nat
      /\ purchases * (WholeShare - 1) \in Nat
  BY <1>1, <1>2
<1>7. LET short == sold * PricePerShare - raised * WholeShare
      IN 0 <= short /\ short <= purchases * (WholeShare - 1)
  BY DEF SaleRoundsDown
<1>8. LET short == (sold + a) * PricePerShare - (raised + c) * WholeShare
      IN 0 <= short /\ short <= (purchases + 1) * (WholeShare - 1)
  BY <1>1, <1>2, <1>5, <1>6, <1>7
<1> QED BY <1>3, <1>4, <1>8 DEF SaleRoundsDown

---------------------------------------------------------------------------
(* The wallet's queue and the page's state, where a step leaves the page alone. *)
LEMMA VaultKeepsPageInv ==
  ASSUME DistInv, [Next]_vars, UNCHANGED <<page, mempool>>
  PROVE  PageInv'
<1>1. /\ SnapshotIds \subseteq SnapshotIds'
      /\ \A s \in SnapshotIds, h \in Holder : claimedAt[s][h] => claimedAt'[s][h]
      /\ overlapped => overlapped'
  BY VaultIsMonotone DEF DistInv
<1>2. AwaitsOne'
  BY DEF DistInv, PageInv, AwaitsOne, Awaits
<1>3. PageKnowsItsSnapshot'
  BY <1>1 DEF DistInv, PageInv, PageKnowsItsSnapshot
<1>4. PaidOrSent'
  <2> SUFFICES ASSUME page.own # 0, ~overlapped, NEW h \in page.listed \ page.left
               PROVE  claimedAt'[page.own][h] \/ Sent(page.own, h)'
    BY <1>1 DEF PaidOrSent
  <2>1. page.own \in SnapshotIds /\ h \in Holder
    BY DEF DistInv, PageInv, PageKnowsItsSnapshot, DistributionTypeOK, PageState
  <2>2. claimedAt[page.own][h] \/ Sent(page.own, h)
    BY DEF DistInv, PageInv, PaidOrSent
  <2> QED BY <1>1, <2>1, <2>2 DEF Sent
<1> QED BY <1>2, <1>3, <1>4 DEF PageInv

(* The page and its wallet, step by step. *)
LEMMA LoadOrClickPageInv ==
  ASSUME DistInv, Load \/ Click
  PROVE  PageInv' /\ page' \in PageState /\ mempool' \in Seq(Tx)
<1>1. page \in PageState /\ mempool \in Seq(Tx) /\ AwaitsOne /\ PageKnowsItsSnapshot
  BY DEF DistInv, DistributionTypeOK, PageInv
<1>2. CASE Load
  <2>1. page' = Idle(ListedNow) /\ mempool' = mempool /\ page.pc # "snap"
    BY <1>2 DEF Load
  <2>2. page' \in PageState
    BY <2>1 DEF Idle, ListedNow, PageState
  <2>3. AwaitsOne'
    BY <1>1, <2>1 DEF AwaitsOne, Awaits
  <2>4. PageKnowsItsSnapshot' /\ PaidOrSent'
    BY <2>1 DEF Idle, PageKnowsItsSnapshot, PaidOrSent
  <2> QED BY <1>1, <2>1, <2>2, <2>3, <2>4 DEF PageInv
<1>3. CASE Click
  <2> DEFINE tx == [kind |-> "snap", awaited |-> TRUE]
  <2>1. /\ page.pc = "idle" /\ page' = [page EXCEPT !.pc = "snap"]
        /\ mempool' = Append(mempool, tx)
    BY <1>3 DEF Click
  <2>2. tx \in Tx /\ page' \in PageState
    BY <1>1, <2>1 DEF Tx, PageState
  <2>3. ~page.mined /\ page.own = 0 /\ \A i \in DOMAIN mempool : ~Awaits(i)
    BY <1>1, <2>1 DEF PageKnowsItsSnapshot, AwaitsOne
  <2>4. /\ page'.pc = "snap" /\ page'.mined = page.mined /\ page'.own = page.own
        /\ page'.id = page.id
    BY <1>1, <2>1 DEF PageState
  <2>5. /\ DOMAIN mempool = 1 .. Len(mempool) /\ Len(mempool) \in Nat
        /\ DOMAIN mempool' = 1 .. Len(mempool) + 1
        /\ \A i \in DOMAIN mempool : mempool'[i] = mempool[i]
    BY <1>1, <2>1, <2>2
  <2>6. AwaitsOne'
    <3>1. \A i \in DOMAIN mempool' : Awaits(i)' => i = Len(mempool) + 1
      BY <2>3, <2>5 DEF Awaits
    <3> QED BY <2>3, <2>4, <3>1 DEF AwaitsOne
  <2>7. PageKnowsItsSnapshot' /\ PaidOrSent'
    BY <2>3, <2>4 DEF PageKnowsItsSnapshot, PaidOrSent
  <2> QED BY <1>1, <2>1, <2>2, <2>6, <2>7 DEF PageInv
<1> QED BY <1>2, <1>3

LEMMA MineSnapPageInv ==
  ASSUME DistInv, [Next]_vars, MineSnap
  PROVE  PageInv' /\ page' \in PageState /\ mempool' \in Seq(Tx)
<1> DEFINE tx == Head(mempool)
<1>1. /\ page \in PageState /\ mempool \in Seq(Tx)
      /\ AwaitsOne /\ PageKnowsItsSnapshot /\ PaidOrSent
  BY DEF DistInv, DistributionTypeOK, PageInv
<1>2. /\ mempool # <<>> /\ tx.kind = "snap" /\ mempool' = Tail(mempool)
      /\ page' = IF tx.awaited
                 THEN [page EXCEPT !.mined = TRUE, !.id = IF usdc > 0 THEN Len(snapshots) + 1 ELSE 0]
                 ELSE page
      /\ usdc > 0 => Snap
  BY DEF MineSnap
<1>3. /\ SnapshotIds \subseteq SnapshotIds'
      /\ \A s \in SnapshotIds, h \in Holder : claimedAt[s][h] => claimedAt'[s][h]
      /\ overlapped => overlapped'
  BY VaultIsMonotone DEF DistInv
<1>4. /\ tx = mempool[1] /\ mempool' \in Seq(Tx) /\ 1 \in DOMAIN mempool
      /\ \A i \in DOMAIN mempool' : i + 1 \in DOMAIN mempool /\ mempool'[i] = mempool[i + 1]
                                   /\ i \in Nat \ {0}
      /\ \A i \in DOMAIN mempool \ {1} : i - 1 \in DOMAIN mempool' /\ mempool'[i - 1] = mempool[i]
  BY <1>1, <1>2, HeadIsTx
<1>5. ASSUME NEW s, NEW h, Sent(s, h)
      PROVE  Sent(s, h)'
  <2>1. PICK i \in DOMAIN mempool :
          mempool[i].kind = "pay" /\ mempool[i].id = s /\ mempool[i].holder = h
    BY <1>5 DEF Sent
  <2>2. i # 1
    BY <1>2, <1>4, <2>1
  <2> QED BY <1>4, <2>1, <2>2 DEF Sent
<1>6. CASE ~tx.awaited
  <2>1. page' = page
    BY <1>2, <1>6
  <2>2. AwaitsOne'
    <3>1. \A i \in DOMAIN mempool' : Awaits(i)' => Awaits(i + 1)
      BY <1>4 DEF Awaits
    <3> QED BY <1>1, <1>4, <2>1, <3>1 DEF AwaitsOne
  <2>3. PageKnowsItsSnapshot'
    BY <1>1, <1>3, <2>1 DEF PageKnowsItsSnapshot
  <2>4. PaidOrSent'
    <3> SUFFICES ASSUME page.own # 0, ~overlapped, NEW h \in page.listed \ page.left
                 PROVE  claimedAt'[page.own][h] \/ Sent(page.own, h)'
      BY <1>3, <2>1 DEF PaidOrSent
    <3>1. page.own \in SnapshotIds /\ h \in Holder
      BY <1>1 DEF PageKnowsItsSnapshot, PageState
    <3>2. claimedAt[page.own][h] \/ Sent(page.own, h)
      BY <1>1 DEF PaidOrSent
    <3> QED BY <1>3, <1>5, <2>1, <3>1, <3>2
  <2> QED BY <1>1, <1>4, <2>1, <2>2, <2>3, <2>4 DEF PageInv
<1>7. CASE tx.awaited
  <2>1. Awaits(1)
    BY <1>2, <1>4, <1>7 DEF Awaits
  <2>2. page.pc = "snap" /\ \A j \in DOMAIN mempool : Awaits(j) => j = 1
    BY <1>1, <1>4, <2>1 DEF AwaitsOne
  <2>3. page.own = 0
    BY <1>1, <2>2 DEF PageKnowsItsSnapshot
  <2> DEFINE new == IF usdc > 0 THEN Len(snapshots) + 1 ELSE 0
  <2>4. /\ snapshots \in Seq(Snapshot) /\ Len(snapshots) \in Nat /\ usdc \in Nat
    BY DEF DistInv, VaultInv, TypeOK
  <2>5. new \in Nat /\ (new # 0 => new \in SnapshotIds')
    <3>1. CASE usdc > 0
      <4>1. Len(snapshots') = Len(snapshots) + 1
        BY <1>2, <2>4, <3>1 DEF Snap
      <4> QED BY <2>4, <3>1, <4>1 DEF SnapshotIds
    <3> QED BY <3>1
  <2>6. page' = [page EXCEPT !.mined = TRUE, !.id = new]
    BY <1>2, <1>7
  <2> HIDE DEF new
  <2>7. /\ page' \in PageState /\ page'.pc = "snap" /\ page'.own = 0
        /\ page'.id = new
    BY <1>1, <2>2, <2>3, <2>5, <2>6 DEF PageState
  <2>8. \A i \in DOMAIN mempool' : ~Awaits(i)'
    <3>1. \A i \in DOMAIN mempool' : Awaits(i)' => Awaits(i + 1)
      BY <1>4 DEF Awaits
    <3> QED BY <1>4, <2>2, <3>1
  <2> QED BY <1>4, <2>5, <2>7, <2>8 DEF PageInv, AwaitsOne, PageKnowsItsSnapshot, PaidOrSent
<1> QED BY <1>6, <1>7

LEMMA MinePayPageInv ==
  ASSUME DistInv, [Next]_vars, MinePay
  PROVE  PageInv' /\ page' \in PageState /\ mempool' \in Seq(Tx)
<1> DEFINE tx == Head(mempool)
           pays == /\ tx.id \in SnapshotIds
                   /\ ~claimedAt[tx.id][tx.holder]
                   /\ ProRata(tx.id, tx.holder) <= usdc
<1>1. /\ page \in PageState /\ mempool \in Seq(Tx)
      /\ AwaitsOne /\ PageKnowsItsSnapshot /\ PaidOrSent
  BY DEF DistInv, DistributionTypeOK, PageInv
<1>2. /\ mempool # <<>> /\ tx.kind = "pay" /\ mempool' = Tail(mempool) /\ page' = page
      /\ pays => Settle(tx.id, tx.holder)
  BY DEF MinePay
<1>3. /\ SnapshotIds \subseteq SnapshotIds'
      /\ \A s \in SnapshotIds, h \in Holder : claimedAt[s][h] => claimedAt'[s][h]
      /\ overlapped => overlapped'
  BY VaultIsMonotone DEF DistInv
<1>4. /\ tx = mempool[1] /\ mempool' \in Seq(Tx) /\ tx.holder \in Holder
      /\ \A i \in DOMAIN mempool' : i + 1 \in DOMAIN mempool /\ mempool'[i] = mempool[i + 1]
                                   /\ i \in Nat \ {0}
      /\ \A i \in DOMAIN mempool \ {1} : i - 1 \in DOMAIN mempool' /\ mempool'[i - 1] = mempool[i]
  BY <1>1, <1>2, HeadIsTx
<1>5. AwaitsOne'
  <2>1. \A i \in DOMAIN mempool' : Awaits(i)' => Awaits(i + 1)
    BY <1>4 DEF Awaits
  <2> QED BY <1>1, <1>2, <1>4, <2>1 DEF AwaitsOne
<1>6. PageKnowsItsSnapshot'
  BY <1>1, <1>2, <1>3 DEF PageKnowsItsSnapshot
<1>7. PaidOrSent'
  <2> SUFFICES ASSUME page.own # 0, ~overlapped, NEW h \in page.listed \ page.left
               PROVE  claimedAt'[page.own][h] \/ Sent(page.own, h)'
    BY <1>2, <1>3 DEF PaidOrSent
  <2>1. page.own \in SnapshotIds /\ h \in Holder
    BY <1>1 DEF PageKnowsItsSnapshot, PageState
  <2>2. CASE claimedAt[page.own][h]
    BY <1>3, <2>1, <2>2
  <2>3. CASE ~claimedAt[page.own][h]
    <3>1. PICK i \in DOMAIN mempool :
            mempool[i].kind = "pay" /\ mempool[i].id = page.own /\ mempool[i].holder = h
      BY <1>1, <2>3 DEF PaidOrSent, Sent
    <3>2. CASE i = 1
      <4>1. tx.id = page.own /\ tx.holder = h
        BY <1>4, <3>1, <3>2
      <4>2. ProRata(tx.id, tx.holder) <= usdc
        BY <2>1, <2>3, <4>1, CoversEach DEF DistInv
      <4>3. Settle(page.own, h)
        BY <1>2, <2>1, <2>3, <4>1, <4>2
      <4>4. claimedAt' = [claimedAt EXCEPT ![page.own][h] = TRUE]
        BY <4>3 DEF Settle
      <4>5. claimedAt \in Seq([Holder -> BOOLEAN]) /\ page.own \in DOMAIN claimedAt
        BY <2>1 DEF DistInv, VaultInv, TypeOK, SnapshotIds
      <4> QED BY <2>1, <4>4, <4>5
    <3>3. CASE i # 1
      <4>1. i - 1 \in DOMAIN mempool' /\ mempool'[i - 1] = mempool[i] /\ page' = page
        BY <1>2, <1>4, <3>1, <3>3
      <4>2. Sent(page.own, h)'
        BY <3>1, <4>1 DEF Sent
      <4> QED BY <4>2
    <3> QED BY <3>2, <3>3
  <2> QED BY <2>2, <2>3
<1> QED BY <1>1, <1>2, <1>4, <1>5, <1>6, <1>7 DEF PageInv

LEMMA SeeOrReportPageInv ==
  ASSUME DistInv, SeeReceipt \/ Report
  PROVE  PageInv' /\ page' \in PageState /\ mempool' \in Seq(Tx)
<1>1. /\ page \in PageState /\ mempool \in Seq(Tx)
      /\ AwaitsOne /\ PageKnowsItsSnapshot /\ PaidOrSent
  BY DEF DistInv, DistributionTypeOK, PageInv
<1>2. CASE SeeReceipt
  <2>1. /\ page.pc = "snap" /\ page.mined /\ UNCHANGED <<vars, mempool>>
        /\ page' = [page EXCEPT !.pc = "push", !.left = page.listed, !.mined = FALSE,
                                !.id = IF page.id = 0 THEN 1 ELSE page.id, !.own = page.id]
    BY <1>2 DEF SeeReceipt
  <2>2. /\ page' \in PageState /\ page'.pc = "push" /\ page'.left = page'.listed
        /\ ~page'.mined /\ page'.own = page.id
        /\ page'.own # 0 => page'.id = page'.own
    BY <1>1, <2>1 DEF PageState
  <2>3. AwaitsOne'
    BY <1>1, <2>1 DEF AwaitsOne, Awaits
  <2>4. PageKnowsItsSnapshot'
    BY <1>1, <2>1, <2>2 DEF PageKnowsItsSnapshot, SnapshotIds, vars, vaultVars
  <2>5. PaidOrSent'
    BY <2>2 DEF PaidOrSent
  <2> QED BY <1>1, <2>1, <2>2, <2>3, <2>4, <2>5 DEF PageInv
<1>3. CASE Report
  <2>1. /\ page.pc = "push" /\ page.left = {} /\ UNCHANGED <<vars, mempool>>
        /\ page' = [page EXCEPT !.pc = "done"]
    BY <1>3 DEF Report
  <2>2. /\ page' \in PageState /\ page'.pc = "done" /\ page'.left = page.left
        /\ page'.listed = page.listed /\ page'.mined = page.mined
        /\ page'.own = page.own /\ page'.id = page.id
    BY <1>1, <2>1 DEF PageState
  <2>3. AwaitsOne'
    BY <1>1, <2>1 DEF AwaitsOne, Awaits
  <2>4. PageKnowsItsSnapshot'
    BY <1>1, <2>1, <2>2 DEF PageKnowsItsSnapshot, SnapshotIds, vars, vaultVars
  <2>5. PaidOrSent'
    BY <1>1, <2>1, <2>2 DEF PaidOrSent, Sent, vars, vaultVars
  <2> QED BY <1>1, <2>1, <2>2, <2>3, <2>4, <2>5 DEF PageInv
<1> QED BY <1>2, <1>3

LEMMA PushPageInv ==
  ASSUME DistInv, NEW g \in Holder, Push(g)
  PROVE  PageInv' /\ page' \in PageState /\ mempool' \in Seq(Tx)
<1> DEFINE tx == [kind |-> "pay", id |-> page.id, holder |-> g]
<1>1. /\ page \in PageState /\ mempool \in Seq(Tx)
      /\ AwaitsOne /\ PageKnowsItsSnapshot /\ PaidOrSent
  BY DEF DistInv, DistributionTypeOK, PageInv
<1>2. /\ page.pc = "push" /\ g \in page.left /\ UNCHANGED vars
      /\ page' = [page EXCEPT !.left = page.left \ {g}]
      /\ mempool' = Append(mempool, tx)
  BY DEF Push
<1>3. /\ page' \in PageState /\ page'.pc = "push" /\ page'.left = page.left \ {g}
      /\ page'.listed = page.listed /\ page'.mined = page.mined
      /\ page'.own = page.own /\ page'.id = page.id
  BY <1>1, <1>2 DEF PageState
<1>4. /\ tx.kind = "pay" /\ tx.id = page.id /\ tx.holder = g /\ tx \in Tx
  BY <1>1 DEF Tx, PageState
<1> HIDE DEF tx
<1>5. /\ DOMAIN mempool = 1 .. Len(mempool) /\ Len(mempool) \in Nat
      /\ DOMAIN mempool' = 1 .. Len(mempool) + 1 /\ mempool' \in Seq(Tx)
      /\ mempool'[Len(mempool) + 1] = tx
      /\ \A i \in DOMAIN mempool : mempool'[i] = mempool[i]
  BY <1>1, <1>2, <1>4
<1>6. AwaitsOne'
  <2>1. \A i \in DOMAIN mempool : ~Awaits(i)
    BY <1>1, <1>2 DEF AwaitsOne
  <2>2. \A i \in DOMAIN mempool' : ~Awaits(i)'
    BY <1>4, <1>5, <2>1 DEF Awaits
  <2> QED BY <2>2 DEF AwaitsOne
<1>7. PageKnowsItsSnapshot'
  BY <1>1, <1>2, <1>3 DEF PageKnowsItsSnapshot, SnapshotIds, vars, vaultVars
<1>8. PaidOrSent'
  <2> SUFFICES ASSUME page.own # 0, ~overlapped, NEW h \in page.listed \ page'.left
               PROVE  claimedAt[page.own][h] \/ Sent(page.own, h)'
    BY <1>2, <1>3 DEF PaidOrSent, vars, vaultVars
  <2>1. CASE h = g
    <3>1. page.id = page.own
      BY <1>1 DEF PageKnowsItsSnapshot
    <3> QED BY <1>3, <1>4, <1>5, <2>1, <3>1 DEF Sent
  <2>2. CASE h # g
    <3>1. claimedAt[page.own][h] \/ Sent(page.own, h)
      BY <1>1, <1>3, <2>2 DEF PaidOrSent
    <3> QED BY <1>3, <1>5, <3>1 DEF Sent
  <2> QED BY <2>1, <2>2
<1> QED BY <1>3, <1>5, <1>6, <1>7, <1>8 DEF PageInv

LEMMA GiveUpPageInv ==
  ASSUME DistInv, GiveUp
  PROVE  PageInv' /\ page' \in PageState /\ mempool' \in Seq(Tx)
<1>1. page \in PageState /\ mempool \in Seq(Tx)
  BY DEF DistInv, DistributionTypeOK
<1>2. page' = Idle(page.listed) /\ mempool' = Unawaited
  BY DEF GiveUp
<1>3. page' \in PageState
  BY <1>1, <1>2 DEF Idle, PageState
<1>4. ASSUME NEW i \in DOMAIN mempool
      PROVE  mempool'[i] \in Tx /\ ~(mempool'[i].kind = "snap" /\ mempool'[i].awaited)
  <2>1. mempool[i] \in Tx
    BY <1>1
  <2>2. CASE mempool[i].kind = "snap"
    <3>1. mempool'[i] = [mempool[i] EXCEPT !.awaited = FALSE]
      BY <1>2, <2>2 DEF Unawaited
    <3>2. mempool[i] \in [kind : {"snap"}, awaited : BOOLEAN]
      BY <2>1, <2>2 DEF Tx
    <3>3. mempool'[i] \in [kind : {"snap"}, awaited : BOOLEAN] /\ mempool'[i].awaited = FALSE
      BY <3>1, <3>2
    <3> QED BY <3>3 DEF Tx
  <2>3. CASE mempool[i].kind # "snap"
    BY <1>2, <2>1, <2>3 DEF Unawaited
  <2> QED BY <2>2, <2>3
<1>5. mempool' \in Seq(Tx) /\ DOMAIN mempool' = DOMAIN mempool
  <2>1. mempool' = [i \in 1 .. Len(mempool) |-> mempool'[i]] /\ Len(mempool) \in Nat
    BY <1>1, <1>2 DEF Unawaited
  <2>2. mempool' \in [1 .. Len(mempool) -> Tx]
    BY <1>1, <1>4, <2>1
  <2> QED BY <1>1, <2>1, <2>2
<1>6. AwaitsOne'
  BY <1>4, <1>5 DEF AwaitsOne, Awaits
<1>7. PageKnowsItsSnapshot' /\ PaidOrSent'
  BY <1>2 DEF Idle, PageKnowsItsSnapshot, PaidOrSent
<1> QED BY <1>3, <1>5, <1>6, <1>7 DEF PageInv

---------------------------------------------------------------------------
(* The start: nothing is sold, and the page offers its button. *)
LEMMA DistributionInitInv == DistributionInit => DistInv
<1> SUFFICES ASSUME DistributionInit PROVE DistInv
  OBVIOUS
<1>1. VaultInv /\ SaleInit
  BY VaultInitInv DEF DistributionInit
<1>2. supply = TotalSupply
  BY DEF DistributionInit, Init, TokenInit
<1>3. /\ page.pc = "idle" /\ ~page.mined /\ page.own = 0 /\ page \in PageState
      /\ mempool = <<>> /\ mempool \in Seq(Tx) /\ clicks = 0
  BY DEF DistributionInit, Idle, ListedNow, PageState
<1>4. SaleTypeOK /\ SaleRoundsDown
  <2>1. WholeShare \in Nat /\ PricePerShare \in Nat
    BY IPOSaleAssumption DEF IPOSaleAssumption
  <2>2. 0 * PricePerShare - 0 * WholeShare = 0 /\ 0 * (WholeShare - 1) = 0
    BY <2>1
  <2> QED BY <1>1, <2>2 DEF SaleInit, SaleTypeOK, SaleRoundsDown
<1>5. PageInv
  BY <1>3 DEF PageInv, AwaitsOne, PageKnowsItsSnapshot, PaidOrSent
<1> QED BY <1>1, <1>2, <1>3, <1>4, <1>5 DEF DistInv, DistributionTypeOK, VaultInv

(* Nothing is burned: only trade and the sale touch the token, and both only move shares. *)
LEMMA SupplyKept ==
  ASSUME DistInv, [DistributionNext]_distVars
  PROVE  supply' = supply
<1>1. CASE Trade \/ SaleNext
  BY <1>1 DEF Trade, SaleNext, Approve, Buy, Transfer, NextBlock, tokenVars
<1>2. CASE VaultNext
  BY <1>2 DEF VaultNext, Fund, Snap, Settle, tokenVars
<1>3. CASE PageNext \/ UNCHANGED distVars
  BY <1>3 DEF PageNext, distVars, Load, Click, MineSnap, MinePay, SeeReceipt, Push, Report,
    GiveUp, Snap, Settle, vars, tokenVars
<1> QED BY <1>1, <1>2, <1>3 DEF DistributionNext

(* Every step preserves the invariant. *)
LEMMA DistributionNextInv ==
  ASSUME DistInv, [DistributionNext]_distVars
  PROVE  DistInv'
<1>1. [Next]_vars /\ VaultInv'
  <2>1. [Next]_vars
    BY RefinesVault DEF DistInv, VaultInv
  <2> QED BY <2>1, VaultNextInv DEF DistInv
<1>2. supply' = TotalSupply
  BY SupplyKept DEF DistInv
<1>3. /\ page \in PageState /\ mempool \in Seq(Tx) /\ clicks \in Nat
      /\ SaleTypeOK /\ SaleRoundsDown /\ PageInv
  BY DEF DistInv, DistributionTypeOK
<1>4. SaleTypeOK' /\ SaleRoundsDown'
  <2>1. CASE UNCHANGED saleVars
    BY <1>3, <2>1 DEF saleVars, SaleTypeOK, SaleRoundsDown
  <2>2. CASE Approve
    <3>1. MaxShares \in Nat
      BY IPOSaleAssumption DEF IPOSaleAssumption
    <3> QED BY <1>3, <2>2, <3>1 DEF Approve, SaleTypeOK, SaleRoundsDown
  <2>3. CASE \E buyer \in Holder, amount \in 1 .. MaxShares : Buy(buyer, amount)
    BY <1>3, <2>3, BuyRoundsDown
  <2>4. SaleNext \/ UNCHANGED saleVars
    BY DEF DistributionNext, PageNext, Load, Click, MineSnap, MinePay, SeeReceipt, Push,
      Report, GiveUp, distVars
  <2> QED BY <2>1, <2>2, <2>3, <2>4 DEF SaleNext
<1>5. PageInv' /\ page' \in PageState /\ mempool' \in Seq(Tx) /\ clicks' \in Nat
  <2>1. CASE UNCHANGED pageVars
    BY <1>1, <1>3, <2>1, VaultKeepsPageInv DEF pageVars
  <2>2. CASE PageNext
    <3>1. clicks' = clicks \/ clicks' = clicks + 1
      BY <2>2 DEF PageNext, Load, Click, MineSnap, MinePay, SeeReceipt, Push, Report, GiveUp
    <3>2. clicks' \in Nat
      BY <1>3, <3>1
    <3> QED BY <1>1, <2>2, <3>2, LoadOrClickPageInv, MineSnapPageInv, MinePayPageInv,
              SeeOrReportPageInv, PushPageInv, GiveUpPageInv DEF PageNext
  <2> QED BY <2>1, <2>2 DEF DistributionNext, distVars
<1> QED BY <1>1, <1>2, <1>4, <1>5 DEF DistInv, DistributionTypeOK, VaultInv

(* A report whose payments are mined is the truth. *)
LEMMA DistInvPays == DistInv => ReportedIsPaid
<1> SUFFICES ASSUME DistInv, page.pc = "done", mempool = <<>>, page.own # 0, ~overlapped
             PROVE  /\ \A h \in page.listed : claimedAt[page.own][h]
                    /\ (\A h \in Holder : ProRata(page.own, h) > 0 => h \in page.listed)
                         => Owed(page.own) = 0
  BY DEF ReportedIsPaid
<1>1. page.left = {} /\ page.own \in SnapshotIds
  BY DEF DistInv, PageInv, PageKnowsItsSnapshot
<1>2. \A h \in page.listed : claimedAt[page.own][h]
  <2>1. \A s, h : ~Sent(s, h)
    BY DEF Sent
  <2> QED BY <1>1, <2>1 DEF DistInv, PageInv, PaidOrSent
<1>3. ASSUME \A h \in Holder : ProRata(page.own, h) > 0 => h \in page.listed
      PROVE  Owed(page.own) = 0
  <2>1. /\ Pendings(page.own) \in [Holder -> Nat]
        /\ Owed(page.own) = SumOf(Pendings(page.own))
        /\ \A h \in Holder : ProRata(page.own, h) \in Nat
    BY <1>1, AmountsAreNat DEF DistInv
  <2>2. \A h \in Holder : PendingFor(page.own, h) = 0
    BY <1>2, <1>3, <2>1 DEF PendingFor
  <2>3. \A h \in Holder : Pendings(page.own)[h] = 0
    BY <2>2 DEF Pendings
  <2> QED BY <2>1, <2>3, SumOfZeros
<1> QED BY <1>2, <1>3

---------------------------------------------------------------------------
(* The inductive invariant holds in every reachable state. *)
THEOREM DistributionInvariant == DistributionSpec => []DistInv
BY DistributionInitInv, DistributionNextInv, PTL DEF DistributionSpec

(* Every variable of the vault, the sale and the page keeps its type. *)
THEOREM DistributionTypes == DistributionSpec => []DistributionTypeOK
<1>1. DistInv => DistributionTypeOK
  BY DEF DistInv
<1> QED BY <1>1, DistributionInvariant, PTL

(* The sale and the page are one way to use the vault: whatever is proved of every behaviour *)
(* of the vault holds while shares are sold and distributions run.                           *)
THEOREM DistributionUsesVault == DistributionSpec => Spec
<1>1. DistributionInit => Init
  BY DEF DistributionInit
<1>2. DistInv /\ [DistributionNext]_distVars => [Next]_vars
  BY RefinesVault DEF DistInv, VaultInv
<1> QED BY <1>1, <1>2, DistributionInvariant, PTL DEF DistributionSpec, Spec

(* Hence the holders are paid dividends also while shares are sold and pages distribute.      *)
THEOREM PagesPayDividends == DistributionSpec => PaysDividends
BY DistributionUsesVault, VaultPaysDividends

(* The creator is short of the price by less than one payment unit a purchase (buy).         *)
THEOREM SaleLosesOnlyRounding == DistributionSpec => []SaleRoundsDown
<1>1. DistInv => SaleRoundsDown
  BY DEF DistInv
<1> QED BY <1>1, DistributionInvariant, PTL

(* Unless snapshots overlap, a distribution that the page reports is paid once its           *)
(* transactions are mined, although it looks at none of their receipts.                      *)
THEOREM ReportsArePaid == DistributionSpec => []ReportedIsPaid
BY DistInvPays, DistributionInvariant, PTL
===========================================================================
