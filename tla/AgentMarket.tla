---------------------------- MODULE AgentMarket ----------------------------
(***************************************************************************)
(* The contracts that can move an agent's token, together: the token, the  *)
(* Marketplace and the Fractionalizer, each transaction one step.          *)
(***************************************************************************)
EXTENDS Marketplace, Fractionalizer

vars == <<nftVars, marketVars, lockerVars>>

TypeOK == NFTTypeOK /\ MarketTypeOK /\ LockerTypeOK

Init == NFTInit /\ MarketInit /\ LockerInit

Next ==
  \/ NFTNext /\ UNCHANGED <<marketVars, lockerVars>>
  \/ MarketNext /\ UNCHANGED lockerVars
  \/ LockerNext /\ UNCHANGED marketVars

Spec == Init /\ [][Next]_vars
===========================================================================
