------------------------- MODULE X402Gateway_proofs -------------------------
(***************************************************************************)
(* Proofs about X402Gateway, for any number of requests and of payments,   *)
(* any TTL and any number of restarts.                                     *)
(***************************************************************************)
EXTENDS X402Gateway, TLAPS

\* What was asked of the facilitator, and what it did, fits the handler of the request.
SettlingFits ==
  \A c \in Call :
    /\ req[c].pc \in {"new", "read", "verify"} => settling[c] = "idle"
    /\ req[c].pc = "accepted" => settling[c] = "charged"
    /\ req[c].pc = "refused" => settling[c] # "charged" /\ settling[c] # "asked"
    /\ settling[c] = "charged" => req[c].payment \in charged

\* A payment is charged for one request.
ChargedOnce ==
  /\ \A c, d \in Call : c # d /\ settling[c] = "charged" /\ settling[d] = "charged" =>
                          req[c].payment # req[d].payment
  /\ \A p \in charged : \E c \in Call : settling[c] = "charged" /\ req[c].payment = p

\* Who is past verification signed for the recipient that the gateway asked for.
SignedAsAsked ==
  \A c \in Call : req[c].pc \in {"settle", "accepted"} => signedFor[req[c].payment] = PayTo(c)

\* The vault that the operator knows is in the challenge.
VaultIsKept ==
  \A c \in Call :
    /\ req[c].pc = "read" => ~req[c].knew
    /\ req[c].pc \in {"verify", "settle", "accepted"} /\ req[c].knew => req[c].vault = "vault"

\* The stamp of an answer is the time of the answer.
StampedWhenAnswered ==
  \A c \in Call : inFlight[c].status \in Final => inFlight[c].stamp = answeredAt[c]

GatewayInv ==
  /\ TypeOK /\ now \in 0 .. MaxTime
  /\ SettlingFits
  /\ ChargedOnce
  /\ SignedAsAsked
  /\ VaultIsKept
  /\ StampedWhenAnswered

LEMMA InitGateway == Init => GatewayInv
<1>1. ASSUME Init PROVE TypeOK /\ now \in 0 .. MaxTime
  BY <1>1, GatewayAssumption DEF Init, TypeOK, Request, Entry, Absent, Recipient, Final
<1>2. ASSUME Init PROVE SettlingFits /\ ChargedOnce /\ SignedAsAsked /\ VaultIsKept
                        /\ StampedWhenAnswered
  BY <1>2 DEF Init, SettlingFits, ChargedOnce, SignedAsAsked, VaultIsKept,
              StampedWhenAnswered, Absent, Final
<1> QED BY <1>1, <1>2 DEF GatewayInv

\* Pruning keeps entries entries, and drops them or leaves them alone.
LEMMA PrunedTable ==
  ASSUME NEW table \in [Call -> Entry]
  PROVE  /\ Pruned(table) \in [Call -> Entry]
         /\ \A c \in Call :
              \/ Pruned(table)[c] = table[c]
              \/ /\ Pruned(table)[c] = Absent
                 /\ now - table[c].stamp > Ttl
BY GatewayAssumption DEF Pruned, Entry, Absent, Final

\* The actions that leave the requests and the facilitator alone.
LEMMA KeepsHandlers ==
  ASSUME GatewayInv, UNCHANGED <<split, signedFor, handlers>>
  PROVE  SettlingFits' /\ ChargedOnce' /\ SignedAsAsked' /\ VaultIsKept'
BY DEF GatewayInv, SettlingFits, ChargedOnce, SignedAsAsked, VaultIsKept, PayTo, handlers

LEMMA KeepsTable ==
  ASSUME GatewayInv, UNCHANGED <<inFlight, answeredAt>>
  PROVE  StampedWhenAnswered'
BY DEF GatewayInv, StampedWhenAnswered

\* A step of one request that asks nothing of the facilitator.
LEMMA KeepsSettling ==
  ASSUME GatewayInv, NEW c \in Call, NEW r \in Request,
         req' = [req EXCEPT ![c] = r],
         UNCHANGED <<split, signedFor, settling, charged>>,
         r.payment = req[c].payment \/ settling[c] = "idle",
         r.pc \in {"new", "read", "verify"} => settling[c] = "idle",
         r.pc = "accepted" => settling[c] = "charged",
         r.pc = "refused" => settling[c] # "charged" /\ settling[c] # "asked"
  PROVE  SettlingFits' /\ ChargedOnce'
<1>1. \A d \in Call : req'[d] = IF d = c THEN r ELSE req[d]
  BY DEF GatewayInv, TypeOK
<1>2. SettlingFits'
  BY <1>1 DEF GatewayInv, SettlingFits
<1>3. ChargedOnce'
  <2>1. \A d \in Call : settling[d] = "charged" => req'[d].payment = req[d].payment
    BY <1>1
  <2> QED BY <2>1 DEF GatewayInv, ChargedOnce
<1> QED BY <1>2, <1>3

LEMMA StepGateway == GatewayInv /\ [Next]_vars => GatewayInv'
<1> SUFFICES ASSUME GatewayInv, [Next]_vars PROVE GatewayInv' OBVIOUS
<1> USE GatewayAssumption
<1>1. CASE AttachFinance
  <2>1. TypeOK' /\ now' \in 0 .. MaxTime
    BY <1>1 DEF AttachFinance, GatewayInv, TypeOK, handlers, process
  <2> QED BY <1>1, <2>1, KeepsHandlers, KeepsTable DEF AttachFinance, GatewayInv, process
<1>2. CASE RegisterOnChain
  <2>1. TypeOK' /\ now' \in 0 .. MaxTime
    BY <1>2 DEF RegisterOnChain, GatewayInv, TypeOK, handlers, process
  <2> QED BY <1>2, <2>1, KeepsHandlers, KeepsTable DEF RegisterOnChain, GatewayInv, process
<1>3. CASE PassTime
  <2>1. TypeOK' /\ now' \in 0 .. MaxTime
    BY <1>3 DEF PassTime, GatewayInv, TypeOK, handlers, process
  <2> QED BY <1>3, <2>1, KeepsHandlers, KeepsTable DEF PassTime, GatewayInv, process
<1>4. ASSUME NEW c \in Call, NEW p \in Payment, NEW hasBody \in BOOLEAN, Receive(c, p, hasBody)
      PROVE GatewayInv'
  <2> DEFINE r == [pc |-> IF financed \/ InInfoCache THEN "verify" ELSE "read",
                   payment |-> p, hasBody |-> hasBody,
                   vault |-> IF financed THEN "vault" ELSE VaultOf(infoCache),
                   knew |-> financed \/ infoCache = "vault"]
  <2>0. req[c].pc = "new" /\ settling[c] = "idle"
    BY <1>4 DEF Receive, GatewayInv, SettlingFits
  <2>1. r \in Request
    BY DEF Request, GatewayInv, TypeOK, VaultOf
  <2>2. req' = [req EXCEPT ![c] = r]
    BY <1>4 DEF Receive
  <2>3. UNCHANGED <<split, signedFor, settling, charged, inFlight, answeredAt, now>>
    BY <1>4 DEF Receive, process
  <2>4. TypeOK' /\ now' \in 0 .. MaxTime
    BY <1>4, <2>1, <2>2 DEF Receive, GatewayInv, TypeOK, process
  <2>5. SettlingFits' /\ ChargedOnce'
    BY <2>0, <2>1, <2>2, <2>3, KeepsSettling
  <2>6. \A d \in Call : req'[d] = IF d = c THEN r ELSE req[d]
    BY <2>2 DEF GatewayInv, TypeOK
  <2>7. SignedAsAsked'
    BY <2>3, <2>6 DEF GatewayInv, SignedAsAsked, PayTo
  <2>8. VaultIsKept'
    <3>1. infoCache = "vault" => VaultOf(infoCache) = "vault"
      BY DEF VaultOf
    <3>2. r.knew => r.vault = "vault" /\ r.pc = "verify"
      BY <3>1 DEF InInfoCache
    <3> HIDE DEF r
    <3> QED BY <2>6, <3>2 DEF GatewayInv, VaultIsKept
  <2> QED BY <2>3, <2>4, <2>5, <2>7, <2>8, KeepsTable DEF GatewayInv
<1>5. ASSUME NEW c \in Call, ReadInfo(c) PROVE GatewayInv'
  <2>1. PICK info \in {OnChain, "null"} :
          /\ infoCache' = info
          /\ req' = [req EXCEPT ![c].pc = "verify", ![c].vault = VaultOf(info)]
    BY <1>5 DEF ReadInfo
  <2> DEFINE r == [req[c] EXCEPT !.pc = "verify", !.vault = VaultOf(info)]
  <2>2. info \in {"null", "bare", "vault"}
    BY DEF OnChain, GatewayInv, TypeOK
  <2>3. r \in Request /\ req[c] \in Request
    BY DEF Request, GatewayInv, TypeOK, VaultOf
  <2>4. req' = [req EXCEPT ![c] = r]
    BY <2>1 DEF GatewayInv, TypeOK
  <2>5. UNCHANGED <<split, signedFor, settling, charged, inFlight, answeredAt, now>>
    BY <1>5 DEF ReadInfo
  <2>6. req[c].pc = "read" /\ settling[c] = "idle" /\ ~req[c].knew
    BY <1>5 DEF ReadInfo, GatewayInv, SettlingFits, VaultIsKept
  <2>7. r.pc = "verify" /\ r.payment = req[c].payment /\ r.knew = req[c].knew
    BY <2>3 DEF Request
  <2>8. TypeOK' /\ now' \in 0 .. MaxTime
    BY <1>5, <2>1, <2>2, <2>3, <2>4 DEF ReadInfo, GatewayInv, TypeOK
  <2> HIDE DEF r
  <2>9. SettlingFits' /\ ChargedOnce'
    BY <2>3, <2>4, <2>5, <2>6, <2>7, KeepsSettling
  <2>10. \A d \in Call : req'[d] = IF d = c THEN r ELSE req[d]
    BY <2>4 DEF GatewayInv, TypeOK
  <2>11. SignedAsAsked' /\ VaultIsKept'
    BY <2>5, <2>6, <2>7, <2>10 DEF GatewayInv, SignedAsAsked, VaultIsKept, PayTo
  <2> QED BY <2>5, <2>8, <2>9, <2>11, KeepsTable DEF GatewayInv
<1>6. ASSUME NEW c \in Call, Refuse(c) PROVE GatewayInv'
  <2> DEFINE r == [req[c] EXCEPT !.pc = "refused"]
  <2>1. r \in Request /\ r.pc = "refused" /\ r.payment = req[c].payment
    BY DEF Request, GatewayInv, TypeOK
  <2>2. req' = [req EXCEPT ![c] = r]
    BY <1>6 DEF Refuse, GatewayInv, TypeOK
  <2>3. UNCHANGED <<split, signedFor, settling, charged, inFlight, answeredAt, now>>
    BY <1>6 DEF Refuse, process
  <2>4. settling[c] = "idle"
    BY <1>6 DEF Refuse, GatewayInv, SettlingFits
  <2>5. TypeOK' /\ now' \in 0 .. MaxTime
    BY <1>6, <2>1, <2>2 DEF Refuse, GatewayInv, TypeOK, process
  <2> HIDE DEF r
  <2>6. SettlingFits' /\ ChargedOnce'
    BY <2>1, <2>2, <2>3, <2>4, KeepsSettling
  <2>7. \A d \in Call : req'[d] = IF d = c THEN r ELSE req[d]
    BY <2>2 DEF GatewayInv, TypeOK
  <2>8. SignedAsAsked' /\ VaultIsKept'
    BY <2>1, <2>3, <2>7 DEF GatewayInv, SignedAsAsked, VaultIsKept, PayTo
  <2> QED BY <2>3, <2>5, <2>6, <2>8, KeepsTable DEF GatewayInv
<1>7. ASSUME NEW c \in Call, Admit(c) PROVE GatewayInv'
  <2>1. TypeOK' /\ now' \in 0 .. MaxTime
    BY <1>7 DEF Admit, GatewayInv, TypeOK, process, Request
  <2>2. \A d \in Call : /\ req'[d] = IF d = c THEN [req[c] EXCEPT !.pc = "settle"] ELSE req[d]
                        /\ settling'[d] = IF d = c THEN "asked" ELSE settling[d]
                        /\ req'[d].payment = req[d].payment /\ req'[d].vault = req[d].vault
                        /\ req'[d].knew = req[d].knew
    BY <1>7 DEF Admit, GatewayInv, TypeOK, Request
  <2>3. /\ UNCHANGED <<split, signedFor, charged, inFlight, answeredAt, now>>
        /\ req[c].pc = "verify" /\ req'[c].pc = "settle" /\ settling[c] = "idle"
        /\ signedFor[req[c].payment] = PayTo(c)
    BY <1>7, <2>2 DEF Admit, process, GatewayInv, SettlingFits, TypeOK, Request
  <2>4. SettlingFits' /\ ChargedOnce'
    <3>1. SettlingFits'
      BY <2>2, <2>3 DEF GatewayInv, SettlingFits
    <3>2. \A d \in Call : (settling'[d] = "charged") = (settling[d] = "charged")
      BY <2>2, <2>3
    <3> QED BY <2>2, <2>3, <3>1, <3>2 DEF GatewayInv, ChargedOnce
  <2>5. SignedAsAsked'
    BY <2>2, <2>3 DEF GatewayInv, SignedAsAsked, PayTo
  <2>6. VaultIsKept'
    BY <2>2, <2>3 DEF GatewayInv, VaultIsKept
  <2> QED BY <2>1, <2>3, <2>4, <2>5, <2>6, KeepsTable DEF GatewayInv
<1>8. ASSUME NEW c \in Call, FacilitatorSettles(c) PROVE GatewayInv'
  <2>1. TypeOK' /\ now' \in 0 .. MaxTime
    BY <1>8 DEF FacilitatorSettles, GatewayInv, TypeOK, process, Request
  <2>2. UNCHANGED <<split, signedFor, req, inFlight, answeredAt, now>>
    BY <1>8 DEF FacilitatorSettles, process
  <2>3. SignedAsAsked' /\ VaultIsKept'
    BY <2>2 DEF GatewayInv, SignedAsAsked, VaultIsKept, PayTo
  <2>4. SettlingFits' /\ ChargedOnce'
    <3>0. /\ settling[c] = "asked" /\ req[c].pc \notin {"new", "read", "verify", "refused", "accepted"}
          /\ req[c].payment \in Payment
      BY <1>8 DEF FacilitatorSettles, GatewayInv, SettlingFits, TypeOK, Request
    <3>1. CASE /\ req[c].payment \notin charged
               /\ charged' = charged \cup {req[c].payment}
               /\ settling' = [settling EXCEPT ![c] = "charged"]
      <4>1. \A d \in Call : settling'[d] = IF d = c THEN "charged" ELSE settling[d]
        BY <3>1 DEF GatewayInv, TypeOK
      <4>2. SettlingFits'
        BY <2>2, <3>0, <3>1, <4>1 DEF GatewayInv, SettlingFits
      <4>3. ChargedOnce'
        BY <2>2, <3>0, <3>1, <4>1 DEF GatewayInv, ChargedOnce, SettlingFits
      <4> QED BY <4>2, <4>3
    <3>2. CASE settling' = [settling EXCEPT ![c] = "failed"] /\ UNCHANGED charged
      <4>1. \A d \in Call : settling'[d] = IF d = c THEN "failed" ELSE settling[d]
        BY <3>2 DEF GatewayInv, TypeOK
      <4>2. \A d \in Call : (settling'[d] = "charged") = (settling[d] = "charged")
        BY <3>0, <4>1
      <4>3. SettlingFits'
        BY <2>2, <3>0, <3>2, <4>1 DEF GatewayInv, SettlingFits
      <4> QED BY <2>2, <3>2, <4>2, <4>3 DEF GatewayInv, ChargedOnce
    <3> QED BY <1>8, <3>1, <3>2 DEF FacilitatorSettles
  <2> QED BY <2>1, <2>2, <2>3, <2>4, KeepsTable DEF GatewayInv
<1>9. ASSUME NEW c \in Call, Accept(c) PROVE GatewayInv'
  <2> DEFINE r == [req[c] EXCEPT !.pc = "accepted"]
             table == [inFlight EXCEPT ![c] = [status |-> "running", stamp |-> now]]
  <2>1. r \in Request /\ r.pc = "accepted" /\ r.payment = req[c].payment
        /\ r.vault = req[c].vault /\ r.knew = req[c].knew
    BY DEF Request, GatewayInv, TypeOK
  <2>2. req' = [req EXCEPT ![c] = r] /\ req[c].pc = "settle" /\ settling[c] = "charged"
    BY <1>9 DEF Accept, Start, GatewayInv, TypeOK
  <2>3. UNCHANGED <<split, signedFor, settling, charged, answeredAt, now>>
    BY <1>9 DEF Accept, Start
  <2>4. table \in [Call -> Entry] /\ table[c].status = "running"
        /\ \A d \in Call \ {c} : table[d] = inFlight[d]
    BY DEF GatewayInv, TypeOK, Entry, Final
  <2>5. inFlight' = Pruned(table)
    BY <1>9 DEF Accept, Start
  <2> HIDE DEF r, table
  <2>6. TypeOK' /\ now' \in 0 .. MaxTime
    <3>1. inFlight' \in [Call -> Entry]
      BY <2>4, <2>5, PrunedTable
    <3>2. req' \in [Call -> Request]
      BY <2>1, <2>2 DEF GatewayInv, TypeOK
    <3>3. task' \subseteq Call /\ UNCHANGED <<financed, registry, infoCache, crashes>>
      BY <1>9 DEF Accept, Start, GatewayInv, TypeOK
    <3> QED BY <2>3, <3>1, <3>2, <3>3 DEF GatewayInv, TypeOK
  <2>7. SettlingFits' /\ ChargedOnce'
    BY <2>1, <2>2, <2>3, KeepsSettling
  <2>8. \A d \in Call : req'[d] = IF d = c THEN r ELSE req[d]
    BY <2>2 DEF GatewayInv, TypeOK
  <2>9. SignedAsAsked' /\ VaultIsKept'
    BY <2>1, <2>2, <2>3, <2>8 DEF GatewayInv, SignedAsAsked, VaultIsKept, PayTo
  <2>10. StampedWhenAnswered'
    <3>1. \A d \in Call : inFlight'[d] = table[d] \/ inFlight'[d] = Absent
      BY <2>4, <2>5, PrunedTable
    <3> QED BY <2>3, <2>4, <3>1 DEF GatewayInv, StampedWhenAnswered, Absent, Final
  <2> QED BY <2>3, <2>6, <2>7, <2>9, <2>10 DEF GatewayInv
<1>10. ASSUME NEW c \in Call, FailSettlement(c) PROVE GatewayInv'
  <2> DEFINE r == [req[c] EXCEPT !.pc = IF settling[c] = "failed" THEN "refused" ELSE "unanswered"]
  <2>1. r \in Request /\ r.payment = req[c].payment
        /\ r.pc = IF settling[c] = "failed" THEN "refused" ELSE "unanswered"
    BY DEF Request, GatewayInv, TypeOK
  <2>2. req' = [req EXCEPT ![c] = r]
    BY <1>10 DEF FailSettlement, GatewayInv, TypeOK
  <2>3. UNCHANGED <<split, signedFor, settling, charged, inFlight, answeredAt, now>>
    BY <1>10 DEF FailSettlement, process
  <2>4. TypeOK' /\ now' \in 0 .. MaxTime
    BY <1>10, <2>1, <2>2 DEF FailSettlement, GatewayInv, TypeOK, process
  <2> HIDE DEF r
  <2>5. SettlingFits' /\ ChargedOnce'
    BY <2>1, <2>2, <2>3, KeepsSettling
  <2>6. \A d \in Call : req'[d] = IF d = c THEN r ELSE req[d]
    BY <2>2 DEF GatewayInv, TypeOK
  <2>7. SignedAsAsked' /\ VaultIsKept'
    BY <2>1, <2>3, <2>6 DEF GatewayInv, SignedAsAsked, VaultIsKept, PayTo
  <2> QED BY <2>3, <2>4, <2>5, <2>7, KeepsTable DEF GatewayInv
<1>11. ASSUME NEW c \in Call, Finish(c) PROVE GatewayInv'
  <2>1. PICK status \in Final :
          inFlight' = [inFlight EXCEPT ![c] = [status |-> status, stamp |-> now]]
    BY <1>11 DEF Finish
  <2>2. TypeOK' /\ now' \in 0 .. MaxTime
    BY <1>11, <2>1 DEF Finish, GatewayInv, TypeOK, handlers, Entry
  <2>3. StampedWhenAnswered'
    BY <1>11, <2>1 DEF Finish, GatewayInv, StampedWhenAnswered, TypeOK
  <2> QED BY <1>11, <2>2, <2>3, KeepsHandlers DEF Finish, GatewayInv
<1>12. CASE Poll
  <2>1. inFlight' = Pruned(inFlight) /\ inFlight \in [Call -> Entry]
    BY <1>12 DEF Poll, GatewayInv, TypeOK
  <2>2. TypeOK' /\ now' \in 0 .. MaxTime
    BY <1>12, <2>1, PrunedTable DEF Poll, GatewayInv, TypeOK, handlers
  <2>3. StampedWhenAnswered'
    <3>1. \A d \in Call : inFlight'[d] = inFlight[d] \/ inFlight'[d] = Absent
      BY <2>1, PrunedTable
    <3> QED BY <1>12, <3>1 DEF Poll, GatewayInv, StampedWhenAnswered, Absent, Final
  <2> QED BY <1>12, <2>2, <2>3, KeepsHandlers DEF Poll, GatewayInv
<1>13. CASE Crash
  <2>1. \A c \in Call :
          /\ req'[c] \in Request
          /\ \/ req'[c] = req[c] /\ req[c].pc \notin {"read", "verify", "settle"}
             \/ req'[c].pc = "killed"
          /\ req'[c].payment = req[c].payment
    BY <1>13 DEF Crash, GatewayInv, TypeOK, Request
  <2>2. UNCHANGED <<split, financed, registry, signedFor, settling, charged, answeredAt, now>>
    BY <1>13 DEF Crash
  <2>3. TypeOK' /\ now' \in 0 .. MaxTime
    BY <1>13, <2>1, <2>2 DEF Crash, GatewayInv, TypeOK, Entry, Absent
  <2>4. SettlingFits'
    BY <2>1, <2>2 DEF GatewayInv, SettlingFits
  <2>5. ChargedOnce'
    BY <2>1, <2>2 DEF GatewayInv, ChargedOnce
  <2>6. SignedAsAsked' /\ VaultIsKept'
    BY <2>1, <2>2 DEF GatewayInv, SignedAsAsked, VaultIsKept, PayTo
  <2>7. StampedWhenAnswered'
    BY <1>13 DEF Crash, StampedWhenAnswered, Absent, Final
  <2> QED BY <2>3, <2>4, <2>5, <2>6, <2>7 DEF GatewayInv
<1>14. CASE UNCHANGED vars
  <2>1. TypeOK' /\ now' \in 0 .. MaxTime
    BY <1>14 DEF vars, GatewayInv, TypeOK, handlers, process
  <2> QED BY <1>14, <2>1, KeepsHandlers, KeepsTable DEF vars, GatewayInv, process
<1> QED BY <1>1, <1>2, <1>3, <1>4, <1>5, <1>6, <1>7, <1>8, <1>9, <1>10, <1>11, <1>12, <1>13,
           <1>14 DEF Next

---------------------------------------------------------------------------
\* The gateway implements PaidCalls.

\* Only accepted calls run.
RunsAreAccepted == \A c \in task : req[c].pc = "accepted"

LEMMA InitRuns == Init => RunsAreAccepted
BY DEF Init, RunsAreAccepted

LEMMA StepRuns == GatewayInv /\ RunsAreAccepted /\ [Next]_vars => RunsAreAccepted'
<1> SUFFICES ASSUME GatewayInv, RunsAreAccepted, [Next]_vars PROVE RunsAreAccepted'
  OBVIOUS
<1>0. req \in [Call -> Request] /\ task \subseteq Call
  BY DEF GatewayInv, TypeOK
<1>1. ASSUME NEW c \in Call, NEW p \in Payment, NEW hasBody \in BOOLEAN, Receive(c, p, hasBody)
      PROVE RunsAreAccepted'
  BY <1>0, <1>1 DEF Receive, RunsAreAccepted, process
<1>2. ASSUME NEW c \in Call, ReadInfo(c) \/ Refuse(c) \/ Admit(c) \/ FailSettlement(c)
      PROVE RunsAreAccepted'
  <2>1. req[c].pc # "accepted" /\ task' = task /\ \A d \in Call \ {c} : req'[d] = req[d]
    BY <1>0, <1>2 DEF ReadInfo, Refuse, Admit, FailSettlement, process
  <2> QED BY <1>0, <2>1 DEF RunsAreAccepted
<1>3. ASSUME NEW c \in Call, Accept(c) PROVE RunsAreAccepted'
  BY <1>0, <1>3 DEF Accept, Start, RunsAreAccepted, Request
<1>4. ASSUME NEW c \in Call, FacilitatorSettles(c) \/ Finish(c) PROVE RunsAreAccepted'
  BY <1>4 DEF FacilitatorSettles, Finish, RunsAreAccepted, handlers, process
<1>5. CASE Crash
  BY <1>5 DEF Crash, RunsAreAccepted
<1>6. CASE AttachFinance \/ RegisterOnChain \/ PassTime \/ Poll \/ UNCHANGED vars
  BY <1>6 DEF AttachFinance, RegisterOnChain, PassTime, Poll, vars, RunsAreAccepted, handlers, process
<1> QED BY <1>1, <1>2, <1>3, <1>4, <1>5, <1>6 DEF Next

\* The variables of PaidCalls, as the gateway gives them.
Sales == [c \in Call |-> SaleOf(c)]
Purchases == [c \in Call |-> IF settling[c] = "charged" THEN {req[c].payment} ELSE {}]
Readable == {c \in Call : inFlight[c].status \in Final}

(* Nothing of a sale changes when no request, settlement and run does. *)
LEMMA SalesKept ==
  ASSUME UNCHANGED <<req, settling, charged, task>>
  PROVE  Sales' = Sales /\ Purchases' = Purchases
BY DEF Sales, Purchases, SaleOf

(* A step that moves the sale of c from one state to another, and pays nothing. *)
LEMMA SaleMoves ==
  ASSUME NEW c \in Call, UNCHANGED settling,
         \A d \in Call \ {c} : req'[d] = req[d] /\ (d \in task' <=> d \in task),
         settling[c] = "charged" => req'[c].payment = req[c].payment
  PROVE  /\ Sales' = [Sales EXCEPT ![c] = SaleOf(c)']
         /\ Purchases' = Purchases
<1>1. \A d \in Call : SaleOf(d)' = IF d = c THEN SaleOf(c)' ELSE SaleOf(d)
  BY DEF SaleOf
<1>2. Purchases' = Purchases
  BY DEF Purchases
<1> QED BY <1>1, <1>2 DEF Sales

(* Pruning forgets answers, and takes none for one. *)
LEMMA PruningForgets ==
  ASSUME NEW table \in [Call -> Entry], inFlight' = Pruned(table),
         \A d \in Call : table[d].status \in Final => inFlight[d].status \in Final
  PROVE  Readable' \subseteq Readable
<1>1. \A d \in Call : inFlight'[d] = table[d] \/ inFlight'[d] = Absent
  BY PrunedTable
<1> QED BY <1>1 DEF Readable, Absent, Final

(* Every step of the gateway is a step of a sale, or changes nothing of the sales. *)
LEMMA StepSells ==
  ASSUME GatewayInv, RunsAreAccepted, [Next]_vars
  PROVE  [Shop!Next]_(Shop!vars)
<1> DEFINE Stays == Sales' = Sales /\ Purchases' = Purchases /\ Readable' = Readable /\ charged' = charged
<1>0. /\ req \in [Call -> Request] /\ task \subseteq Call /\ inFlight \in [Call -> Entry]
      /\ settling \in [Call -> {"idle", "asked", "charged", "failed"}]
  BY DEF GatewayInv, TypeOK
<1>a. ASSUME Stays PROVE [Shop!Next]_(Shop!vars)
  BY <1>a DEF Sales, Purchases, Readable, Shop!vars
<1>1. ASSUME NEW c \in Call, NEW p \in Payment, NEW hasBody \in BOOLEAN, Receive(c, p, hasBody)
      PROVE Stays
  <2>1. /\ req[c].pc = "new" /\ settling[c] = "idle" /\ req'[c].pc \in {"read", "verify"}
        /\ \A d \in Call \ {c} : req'[d] = req[d]
        /\ UNCHANGED <<settling, charged, task, inFlight>>
    BY <1>0, <1>1 DEF Receive, process, GatewayInv, SettlingFits
  <2>2. SaleOf(c)' = "open" /\ Sales[c] = "open"
    BY <2>1 DEF SaleOf, Sales
  <2> QED BY <2>1, <2>2, SaleMoves DEF Sales, Readable
<1>2. ASSUME NEW c \in Call, ReadInfo(c) PROVE Stays
  <2>1. /\ req[c].pc = "read" /\ settling[c] = "idle" /\ req'[c].pc = "verify"
        /\ \A d \in Call \ {c} : req'[d] = req[d]
        /\ UNCHANGED <<settling, charged, task, inFlight>>
    BY <1>0, <1>2 DEF ReadInfo, GatewayInv, SettlingFits, Request
  <2>2. SaleOf(c)' = "open" /\ Sales[c] = "open"
    BY <2>1 DEF SaleOf, Sales
  <2> QED BY <2>1, <2>2, SaleMoves DEF Sales, Readable
<1>3. ASSUME NEW c \in Call, Refuse(c) PROVE Shop!Refuse(c)
  <2>1. /\ req[c].pc = "verify" /\ settling[c] = "idle" /\ req'[c].pc = "refused"
        /\ \A d \in Call \ {c} : req'[d] = req[d]
        /\ UNCHANGED <<settling, charged, task, inFlight>>
    BY <1>0, <1>3 DEF Refuse, process, GatewayInv, SettlingFits, Request
  <2>2. SaleOf(c)' = "refused" /\ Sales[c] = "open"
    BY <2>1 DEF SaleOf, Sales
  <2>3. Sales' = [Sales EXCEPT ![c] = "refused"] /\ Purchases' = Purchases
    BY <2>1, <2>2, SaleMoves
  <2> QED BY <2>1, <2>2, <2>3 DEF Shop!Refuse, Sales, Purchases
<1>4. ASSUME NEW c \in Call, Admit(c) PROVE Stays
  <2>1. \A d \in Call :
          /\ d # c => req'[d] = req[d] /\ settling'[d] = settling[d]
          /\ d = c => /\ settling[d] = "idle" /\ settling'[d] = "asked"
                      /\ req[d].pc = "verify" /\ req'[d].pc = "settle"
    BY <1>0, <1>4 DEF Admit, GatewayInv, SettlingFits, Request
  <2>2. UNCHANGED <<charged, task, inFlight>>
    BY <1>4 DEF Admit, process
  <2>3. \A d \in Call : SaleOf(d)' = SaleOf(d)
    BY <2>1, <2>2 DEF SaleOf
  <2>4. Purchases' = Purchases
    BY <2>1 DEF Purchases
  <2> QED BY <2>2, <2>3, <2>4 DEF Sales, Readable
<1>5. ASSUME NEW c \in Call, FacilitatorSettles(c) PROVE [Shop!Next]_(Shop!vars)
  <2>1. /\ settling[c] = "asked" /\ UNCHANGED <<req, task, inFlight>>
        /\ req[c].pc \in {"settle", "unanswered", "killed"} /\ req[c].payment \in Payment
    BY <1>0, <1>5 DEF FacilitatorSettles, process, GatewayInv, SettlingFits, Request
  <2>2. CASE /\ req[c].payment \notin charged
             /\ charged' = charged \cup {req[c].payment}
             /\ settling' = [settling EXCEPT ![c] = "charged"]
    <3>1. \A d \in Call : settling'[d] = IF d = c THEN "charged" ELSE settling[d]
      BY <1>0, <2>2
    <3>2. \A d \in Call : SaleOf(d)' = IF d = c THEN (IF req[c].pc = "settle" THEN "owed" ELSE "lost")
                                       ELSE SaleOf(d)
      BY <2>1, <3>1 DEF SaleOf
    <3>3. Sales[c] = "open"
      BY <2>1 DEF Sales, SaleOf
    <3>4. Sales' = [Sales EXCEPT ![c] = IF req[c].pc = "settle" THEN "owed" ELSE "lost"]
      BY <3>2 DEF Sales
    <3>5. Purchases' = [Purchases EXCEPT ![c] = {req[c].payment}]
      BY <2>1, <3>1 DEF Purchases
    <3> PICK p \in Payment : p = req[c].payment
      BY <2>1
    <3>6. Shop!Charge(c, p)
      BY <2>1, <2>2, <3>3, <3>4, <3>5 DEF Shop!Charge, Sales, Purchases
    <3>7. Shop!Next
      BY <3>6 DEF Shop!Next
    <3> QED BY <3>7
  <2>3. CASE settling' = [settling EXCEPT ![c] = "failed"] /\ UNCHANGED charged
    <3>1. \A d \in Call : settling'[d] = IF d = c THEN "failed" ELSE settling[d]
      BY <1>0, <2>3
    <3>2. \A d \in Call : SaleOf(d)' = SaleOf(d)
      BY <2>1, <3>1 DEF SaleOf
    <3>3. Purchases' = Purchases
      BY <2>1, <3>1 DEF Purchases
    <3>4. Stays
      BY <2>1, <2>3, <3>2, <3>3 DEF Sales, Readable
    <3> QED BY <3>4, <1>a
  <2> QED BY <1>5, <2>2, <2>3 DEF FacilitatorSettles
<1>6. ASSUME NEW c \in Call, Accept(c) PROVE Shop!Serve(c)
  <2> DEFINE table == [inFlight EXCEPT ![c] = [status |-> "running", stamp |-> now]]
  <2>1. /\ req[c].pc = "settle" /\ settling[c] = "charged" /\ req'[c].pc = "accepted"
        /\ req'[c].payment = req[c].payment
        /\ \A d \in Call \ {c} : req'[d] = req[d]
        /\ task' = task \cup {c} /\ UNCHANGED <<settling, charged>>
    BY <1>0, <1>6 DEF Accept, Start, Request
  <2>2. SaleOf(c)' = "running" /\ Sales[c] = "owed"
    BY <2>1 DEF SaleOf, Sales
  <2>3. Sales' = [Sales EXCEPT ![c] = "running"] /\ Purchases' = Purchases
    BY <2>1, <2>2, SaleMoves
  <2>4. Readable' \subseteq Readable
    <3>1. table \in [Call -> Entry]
      BY <1>0, GatewayAssumption DEF GatewayInv, Entry, Final
    <3>2. \A d \in Call : table[d].status \in Final => inFlight[d].status \in Final
      BY <1>0 DEF Final
    <3>3. inFlight' = Pruned(table)
      BY <1>6 DEF Accept, Start
    <3> HIDE DEF table
    <3> QED BY <3>1, <3>2, <3>3, PruningForgets
  <2> QED BY <2>1, <2>2, <2>3, <2>4 DEF Shop!Serve, Shop!Forget, Sales, Purchases, Readable
<1>7. ASSUME NEW c \in Call, FailSettlement(c) PROVE [Shop!Next]_(Shop!vars)
  <2>1. /\ req[c].pc = "settle" /\ req'[c].payment = req[c].payment
        /\ req'[c].pc = IF settling[c] = "failed" THEN "refused" ELSE "unanswered"
        /\ \A d \in Call \ {c} : req'[d] = req[d]
        /\ UNCHANGED <<settling, charged, task, inFlight>>
    BY <1>0, <1>7 DEF FailSettlement, process, Request
  <2>2. Sales' = [Sales EXCEPT ![c] = SaleOf(c)'] /\ Purchases' = Purchases
    BY <2>1, SaleMoves
  <2>3. Readable' = Readable
    BY <2>1 DEF Readable
  <2>4. CASE settling[c] = "failed"
    <3>1. SaleOf(c)' = "refused" /\ Sales[c] = "open"
      BY <2>1, <2>4 DEF SaleOf, Sales
    <3>2. Shop!Refuse(c)
      BY <2>1, <2>2, <2>3, <3>1 DEF Shop!Refuse, Sales, Purchases, Readable
    <3> QED BY <3>2 DEF Shop!Next
  <2>5. CASE settling[c] = "charged"
    <3>1. SaleOf(c)' = "lost" /\ Sales[c] = "owed"
      BY <2>1, <2>5 DEF SaleOf, Sales
    <3>2. Sales' = [d \in Call |-> IF d \in {c} THEN "lost" ELSE Sales[d]]
      BY <2>2, <3>1 DEF Sales
    <3>3. {c} \in SUBSET {d \in Call : Sales[d] \in {"owed", "running"}}
      BY <3>1
    <3>4. Shop!Lose
      BY <2>1, <2>2, <2>3, <3>2, <3>3 DEF Shop!Lose, Shop!Forget, Sales, Purchases, Readable
    <3> QED BY <3>4 DEF Shop!Next
  <2>6. CASE settling[c] \notin {"failed", "charged"}
    <3>1. SaleOf(c)' = "open" /\ Sales[c] = "open"
      BY <2>1, <2>6 DEF SaleOf, Sales
    <3>2. Stays
      BY <2>1, <2>2, <2>3, <3>1 DEF Sales
    <3> QED BY <3>2, <1>a
  <2> QED BY <2>4, <2>5, <2>6
<1>8. ASSUME NEW c \in Call, Finish(c) PROVE Shop!Answer(c)
  <2>1. PICK status \in Final :
          inFlight' = [inFlight EXCEPT ![c] = [status |-> status, stamp |-> now]]
    BY <1>8 DEF Finish
  <2>2. /\ c \in task /\ task' = task \ {c} /\ UNCHANGED <<req, settling, charged>>
        /\ req[c].pc = "accepted" /\ settling[c] = "charged"
    BY <1>8 DEF Finish, handlers, RunsAreAccepted, GatewayInv, SettlingFits
  <2>3. SaleOf(c)' = "answered" /\ Sales[c] = "running"
    BY <2>2 DEF SaleOf, Sales
  <2>4. Sales' = [Sales EXCEPT ![c] = "answered"] /\ Purchases' = Purchases
    BY <2>2, <2>3, SaleMoves
  <2>5. Readable' = Readable \cup {c}
    BY <1>0, <2>1 DEF Readable
  <2> QED BY <2>2, <2>3, <2>4, <2>5 DEF Shop!Answer, Sales, Purchases, Readable
<1>9. CASE Poll
  <2>1. UNCHANGED <<req, settling, charged, task>> /\ inFlight' = Pruned(inFlight)
    BY <1>9 DEF Poll, handlers
  <2>2. Sales' = Sales /\ Purchases' = Purchases
    BY <2>1, SalesKept
  <2>3. Readable' \subseteq Readable
    BY <1>0, <2>1, PruningForgets
  <2>4. Sales' = [d \in Call |-> IF d \in {} THEN "lost" ELSE Sales[d]]
    BY <2>2 DEF Sales
  <2>5. Shop!Lose
    BY <2>1, <2>2, <2>3, <2>4 DEF Shop!Lose, Shop!Forget, Sales, Purchases, Readable
  <2> QED BY <2>5 DEF Shop!Next
<1>10. CASE Crash
  <2> DEFINE gone == {d \in Call : Sales[d] \in {"owed", "running"}}
  <2>1. \A d \in Call :
          /\ req'[d].payment = req[d].payment
          /\ req'[d].pc = IF req[d].pc \in {"read", "verify", "settle"} \/ d \in task
                          THEN "killed" ELSE req[d].pc
    BY <1>0, <1>10 DEF Crash, Request
  <2>2. task' = {} /\ UNCHANGED <<settling, charged>> /\ Readable' = {}
    BY <1>10 DEF Crash, Readable, Absent, Final
  <2>3. ASSUME NEW d \in Call
        PROVE  SaleOf(d)' = IF SaleOf(d) \in {"owed", "running"} THEN "lost" ELSE SaleOf(d)
    <3>1. d \in task => req[d].pc = "accepted" /\ settling[d] = "charged"
      BY DEF RunsAreAccepted, GatewayInv, SettlingFits
    <3>2. req[d].pc \in {"read", "verify"} => settling[d] = "idle"
      BY DEF GatewayInv, SettlingFits
    <3> QED BY <2>1, <2>2, <3>1, <3>2 DEF SaleOf
  <2>4. Sales' = [d \in Call |-> IF d \in gone THEN "lost" ELSE Sales[d]]
    BY <2>3 DEF Sales
  <2>5. Purchases' = Purchases
    BY <2>1, <2>2 DEF Purchases
  <2>6. Shop!Lose
    BY <2>2, <2>4, <2>5 DEF Shop!Lose, Shop!Forget, Sales, Purchases, Readable
  <2> QED BY <2>6 DEF Shop!Next
<1>11. CASE AttachFinance \/ RegisterOnChain \/ PassTime \/ UNCHANGED vars
  <2>1. UNCHANGED <<req, settling, charged, task, inFlight>>
    BY <1>11 DEF AttachFinance, RegisterOnChain, PassTime, vars, handlers, process
  <2>2. Stays
    BY <2>1, SalesKept DEF Readable
  <2> QED BY <2>2, <1>a
<1>12. [Shop!Next]_(Shop!vars)
  BY <1>1, <1>2, <1>3, <1>4, <1>5, <1>6, <1>7, <1>8, <1>9, <1>10, <1>11, <1>a DEF Next, Shop!Next
<1> QED BY <1>12

(* Nothing has been sold when the operator starts. *)
LEMMA InitSells == Init => Shop!Init
BY DEF Init, Shop!Init, SaleOf, Absent, Final

---------------------------------------------------------------------------
(* GatewayInv is an invariant of the gateway: what the facilitator did fits what the handlers *)
(* wait for, and a payment is charged for one request.                                        *)
THEOREM GatewayInvariant == Spec => []GatewayInv
BY InitGateway, StepGateway, PTL DEF Spec

(* Every variable of the gateway keeps its type. *)
THEOREM TypeCorrect == Spec => []TypeOK
<1>1. GatewayInv => TypeOK
  BY DEF GatewayInv
<1> QED BY <1>1, GatewayInvariant, PTL

(* No payment starts two runs, and every run was paid for, to whom the gateway asked, however *)
(* many requests carry a payment and however they interleave.                                 *)
THEOREM PaidOncePerCall == Spec => []OnePaymentOneCall
<1>1. GatewayInv => OnePaymentOneCall
  BY DEF GatewayInv, OnePaymentOneCall, Accepted, SettlingFits, ChargedOnce, SignedAsAsked
<1> QED BY <1>1, GatewayInvariant, PTL

(* The gateway implements PaidCalls, for any number of requests, payments and restarts: each  *)
(* payment buys one call, a call runs and is answered once and only after it was paid.        *)
THEOREM GatewaySells == Spec => SellsPaidCalls
<1>1. GatewayInv /\ RunsAreAccepted /\ [Next]_vars => [Shop!Next]_(Shop!vars)
  BY StepSells
<1>2. Spec => []RunsAreAccepted
  BY InitRuns, StepRuns, GatewayInvariant, PTL DEF Spec
<1> QED BY InitSells, <1>1, <1>2, GatewayInvariant, PTL DEF Spec, SellsPaidCalls, Shop!Spec

(* The vault that the operator knew when a request came is the one that is paid. *)
THEOREM VaultIsPaid == Spec => []KnownVaultIsPaid
<1>1. GatewayInv => KnownVaultIsPaid
  BY DEF GatewayInv, KnownVaultIsPaid, Accepted, SignedAsAsked, VaultIsKept, PayTo
<1> QED BY <1>1, GatewayInvariant, PTL

(* An answer stays in the table for the TTL, unless the operator restarts. *)
THEOREM AnswersStay == Spec => AnswersAreKept
<1>1. GatewayInv /\ [Next]_vars =>
        [\A c \in Call :
           (inFlight[c].status \in Final /\ inFlight'[c].status = "absent") =>
             \/ now - answeredAt[c] > Ttl
             \/ crashes' # crashes]_vars
  <2> SUFFICES ASSUME GatewayInv, [Next]_vars, NEW c \in Call,
                      inFlight[c].status \in Final, inFlight'[c].status = "absent",
                      crashes' = crashes
               PROVE  now - answeredAt[c] > Ttl
    OBVIOUS
  <2>1. inFlight[c].stamp = answeredAt[c] /\ inFlight[c].status # "absent"
        /\ inFlight \in [Call -> Entry]
    BY DEF GatewayInv, StampedWhenAnswered, Final, TypeOK
  <2>2. inFlight' # inFlight
    BY <2>1
  <2>3. ASSUME NEW d \in Call, Accept(d) PROVE now - answeredAt[c] > Ttl
    <3> DEFINE table == [inFlight EXCEPT ![d] = [status |-> "running", stamp |-> now]]
    <3>1. table \in [Call -> Entry]
      BY <2>1 DEF GatewayInv, TypeOK, Entry
    <3>2. inFlight' = Pruned(table)
      BY <2>3 DEF Accept, Start
    <3>3. table[d].status = "running" /\ table[d].stamp = now
          /\ \A e \in Call \ {d} : table[e] = inFlight[e]
      BY <2>1
    <3> HIDE DEF table
    <3>4. table[c].status # "absent"
      BY <2>1, <3>3
    <3>5. now - table[c].stamp > Ttl
      BY <3>1, <3>2, <3>4, PrunedTable
    <3> QED BY <2>1, <3>3, <3>5, GatewayAssumption DEF GatewayInv
  <2>4. ASSUME NEW d \in Call, Finish(d) PROVE FALSE
    BY <2>1, <2>4 DEF Finish, Final
  <2>5. CASE Poll
    BY <2>1, <2>5, PrunedTable DEF Poll
  <2>6. CASE Crash
    BY <2>6, GatewayAssumption DEF Crash, GatewayInv, TypeOK
  <2>7. ASSUME NEW d \in Call, NEW p \in Payment, NEW hasBody \in BOOLEAN, Receive(d, p, hasBody)
        PROVE FALSE
    BY <2>2, <2>7 DEF Receive, process
  <2>8. ASSUME NEW d \in Call,
               ReadInfo(d) \/ Refuse(d) \/ Admit(d) \/ FacilitatorSettles(d) \/ FailSettlement(d)
        PROVE FALSE
    BY <2>2, <2>8 DEF ReadInfo, Refuse, Admit, FacilitatorSettles, FailSettlement, process
  <2>9. CASE AttachFinance \/ RegisterOnChain \/ PassTime \/ UNCHANGED vars
    BY <2>2, <2>9 DEF AttachFinance, RegisterOnChain, PassTime, vars, process
  <2> QED BY <2>3, <2>4, <2>5, <2>6, <2>7, <2>8, <2>9 DEF Next
<1> QED BY <1>1, GatewayInvariant, PTL DEF Spec, AnswersAreKept
===========================================================================
