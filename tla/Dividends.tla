----------------------------- MODULE Dividends -----------------------------
(***************************************************************************)
(* What the RevenueVault promises (contracts/src/revenue/RevenueVault.sol): *)
(* a dividend fixes, when it is declared, what each holder gets of the     *)
(* money that is there, and each gets that once and in full, in any order  *)
(* and whatever is traded meanwhile, as far as the money goes.  The votes  *)
(* of past blocks, delegation and the marks of who has claimed are how the *)
(* contracts do it.                                                        *)
(***************************************************************************)
EXTENDS Naturals, Sequences, Sums

CONSTANT Holder

VARIABLES register,  \* what a dividend declared now goes by: the votes, out of which supply
          cash,      \* the money there is
          entitled,  \* entitled[d][h]: what dividend d is worth to h
          disbursed  \* disbursed[d][h]: what h got of it

vars == <<register, cash, entitled, disbursed>>

\* Votes are never more than there is supply.
Register == [votes : [Holder -> Nat], supply : Nat]
Sound(r) == r \in Register /\ SumOf(r.votes) <= r.supply

Init ==
  /\ Sound(register)
  /\ cash = 0
  /\ entitled = <<>> /\ disbursed = <<>>

\* Shares change hands, or are burned.
Trade ==
  /\ Sound(register')
  /\ UNCHANGED <<cash, entitled, disbursed>>

Collect ==
  /\ cash' \in Nat /\ cash' > cash
  /\ UNCHANGED <<register, entitled, disbursed>>

\* The pro-rata part of h, rounded down.
Part(h) == IF register.votes[h] = 0 THEN 0 ELSE (cash * register.votes[h]) \div register.supply

Declare ==
  /\ cash > 0
  /\ entitled' = Append(entitled, [h \in Holder |-> Part(h)])
  /\ disbursed' = Append(disbursed, [h \in Holder |-> 0])
  /\ UNCHANGED <<register, cash>>

\* h has got nothing of dividend d yet, and gets all of it.
Disburse(d, h) ==
  /\ disbursed[d][h] = 0
  /\ entitled[d][h] <= cash
  /\ disbursed' = [disbursed EXCEPT ![d][h] = entitled[d][h]]
  /\ cash' = cash - entitled[d][h]
  /\ UNCHANGED <<register, entitled>>

Next ==
  \/ Trade
  \/ Collect
  \/ Declare
  \/ \E d \in DOMAIN entitled, h \in Holder : Disburse(d, h)

Spec == Init /\ [][Next]_vars
=============================================================================
