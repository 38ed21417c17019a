---------------------------- MODULE X402Gateway ----------------------------
(***************************************************************************)
(* The x402 gateway of the operator: a call to POST /x402/infer is priced, *)
(* verified and settled by a facilitator, started in the background and    *)
(* polled for under its call id (apps/operator/src/http/server.ts and      *)
(* x402-v2.ts, with the AgentRegistry cache of chain/clients.ts).          *)
(*                                                                         *)
(* The facilitator and the chain are external: a signed authorization can  *)
(* be executed once, and pays whom it was signed for.  Every await of a    *)
(* handler is a boundary between two steps.  One agent is modelled: no two *)
(* agents share a recipient cache entry or a call.                         *)
(***************************************************************************)
EXTENDS Naturals

CONSTANTS Call,       \* the requests; an accepted one is known by its call id
          Payment,    \* signed payment authorizations, by nonce
          Ttl,        \* INFLIGHT_TTL_MS, in clock units
          MaxTime,    \* bound: clock
          MaxCrashes  \* bound: restarts of the operator

ASSUME GatewayAssumption == Ttl \in Nat /\ MaxTime \in Nat /\ MaxCrashes \in Nat

VARIABLES now,        \* Date.now()
          split,      \* readSplitConfig().enabled: set when the operator starts
          financed,   \* the dynamic registry knows the agent's vault
          registry,   \* AgentRegistry on chain: "none", "bare" (no vaultBase) or "vault", which is
                      \* the one on chain or the one static-vaults.ts puts in its place
          infoCache,  \* AgentInfoCache: "none", "null", or what the registry had
          signedFor,  \* signedFor[p]: the payTo that p was signed for
          req,        \* the handlers of the requests
          settling,   \* what the facilitator did of the settle call of a request
          charged,    \* payments executed on chain
          inFlight,   \* inFlight[c]: the entry of call c
          task,       \* calls whose runInferenceAsync is under way
          crashes,    \* restarts so far
          answeredAt  \* history: when the run of a call ended

handlers == <<req, settling, charged>>
process == <<infoCache, inFlight, task>>
vars == <<now, split, financed, registry, signedFor, handlers, process, crashes, answeredAt>>

Recipient == {"vault", "default", "reserve", "zero"}
Final == {"complete", "error"}

\* pc: "new"; "read" and "verify" await the AgentRegistry and the facilitator, "settle" the
\* answer to settle; then "accepted", "refused", "unanswered" (no answer to settle came) or
\* "killed" (by a crash).  knew: the operator knew the agent's vault when the request came.
Request == [pc : {"new", "read", "verify", "settle", "accepted", "refused", "unanswered",
                  "killed"},
            payment : Payment, hasBody : BOOLEAN, vault : {"vault", "default", "zero"}, knew : BOOLEAN]

Entry == [status : {"absent", "running"} \cup Final, stamp : 0 .. MaxTime]
Absent == [status |-> "absent", stamp |-> 0]

TypeOK ==
  /\ {now, crashes} \subseteq Nat
  /\ {split, financed} \subseteq BOOLEAN
  /\ registry \in {"none", "bare", "vault"}
  /\ infoCache \in {"none", "null", "bare", "vault"}
  /\ signedFor \in [Payment -> Recipient]
  /\ req \in [Call -> Request]
  /\ settling \in [Call -> {"idle", "asked", "charged", "failed"}]
  /\ charged \subseteq Payment
  /\ inFlight \in [Call -> Entry]
  /\ task \subseteq Call
  /\ answeredAt \in [Call -> 0 .. MaxTime]

---------------------------------------------------------------------------
\* resolvePayTo.
PayTo(c) == IF split THEN "reserve" ELSE req[c].vault

InInfoCache == infoCache # "none"

\* info?.vaultBase ?? deps.defaultVaultAddress: a vault that is the zero address is a vault.
VaultOf(info) ==
  CASE info = "vault" -> "vault" [] info = "bare" -> "zero" [] OTHER -> "default"

Init ==
  /\ now = 0 /\ crashes = 0
  /\ split \in BOOLEAN
  /\ financed \in BOOLEAN /\ registry \in {"none", "bare", "vault"}
  /\ infoCache = "none"
  /\ signedFor \in [Payment -> IF split THEN {"reserve"} ELSE {"vault", "default", "zero"}]
  /\ \E p \in Payment :
       req = [c \in Call |-> [pc |-> "new", payment |-> p, hasBody |-> FALSE,
                              vault |-> "default", knew |-> FALSE]]
  /\ settling = [c \in Call |-> "idle"]
  /\ charged = {}
  /\ inFlight = [c \in Call |-> Absent]
  /\ task = {}
  /\ answeredAt = [c \in Call |-> 0]

\* pruneInFlight on the entries in table.
Pruned(table) ==
  [c \in Call |-> IF table[c].status # "absent" /\ now - table[c].stamp > Ttl
                  THEN Absent ELSE table[c]]

\* The agent gets its vault: in the dynamic registry (attachFinance), or on chain.
AttachFinance ==
  /\ ~financed
  /\ financed' = TRUE
  /\ UNCHANGED <<now, split, registry, signedFor, handlers, process, crashes, answeredAt>>

\* AgentRegistry.register: once, with or without a vault.
RegisterOnChain ==
  /\ registry = "none"
  /\ registry' \in {"bare", "vault"}
  /\ UNCHANGED <<now, split, financed, signedFor, handlers, process, crashes, answeredAt>>

PassTime ==
  /\ now < MaxTime
  /\ now' = now + 1
  /\ UNCHANGED <<split, financed, registry, signedFor, handlers, process, crashes, answeredAt>>

---------------------------------------------------------------------------
\* A plausible slip: the AgentRegistry is asked first, the dynamic registry never.
ReceiveAskingChainFirst(c, p, hasBody) ==
  /\ req[c].pc = "new"
  /\ req' = [req EXCEPT ![c] =
       [pc |-> IF InInfoCache THEN "verify" ELSE "read", payment |-> p, hasBody |-> hasBody,
        vault |-> VaultOf(infoCache), knew |-> financed \/ infoCache = "vault"]]
  /\ UNCHANGED <<now, split, financed, registry, signedFor, settling, charged, process,
                 crashes, answeredAt>>

\* handleInfer up to its first real await: the dynamic registry, then AgentInfoCache.forToken.
\* A client may send one payment several times.
Receive(c, p, hasBody) ==
  /\ req[c].pc = "new"
  /\ req' = [req EXCEPT ![c] =
       [pc |-> IF financed \/ InInfoCache THEN "verify" ELSE "read",
        payment |-> p, hasBody |-> hasBody,
        vault |-> IF financed THEN "vault" ELSE VaultOf(infoCache),
        knew |-> financed \/ infoCache = "vault"]]
  /\ UNCHANGED <<now, split, financed, registry, signedFor, settling, charged, process,
                 crashes, answeredAt>>

\* staticVaultOverride, for a registered agent, is a vault as well.
OnChain == IF registry = "none" THEN "null" ELSE registry

\* The read of the AgentRegistry: a vault, not registered, or a failure; the last two are
\* cached alike, and for good.
ReadInfo(c) ==
  /\ req[c].pc = "read"
  /\ \E info \in {OnChain, "null"} :
       /\ infoCache' = info
       /\ req' = [req EXCEPT ![c].pc = "verify",
                             ![c].vault = VaultOf(info)]
  /\ UNCHANGED <<now, split, financed, registry, signedFor, settling, charged, inFlight, task, crashes, answeredAt>>

\* requirePayment refuses: an invalid or failed verification, with a fresh 402; or the request
\* turns out to have no body.
Refuse(c) ==
  /\ req[c].pc = "verify"
  /\ req' = [req EXCEPT ![c].pc = "refused"]
  /\ UNCHANGED <<now, split, financed, registry, signedFor, settling, charged, process,
                 crashes, answeredAt>>

\* A plausible slip: the body is looked at once the payment is settled.
AdmitWithoutBody(c) ==
  /\ req[c].pc = "verify"
  /\ signedFor[req[c].payment] = PayTo(c) /\ req[c].payment \notin charged
  /\ req' = [req EXCEPT ![c].pc = IF req[c].hasBody THEN "settle" ELSE "refused"]
  /\ settling' = [settling EXCEPT ![c] = "asked"]
  /\ UNCHANGED <<now, split, financed, registry, signedFor, charged, process, crashes,
                 answeredAt>>

\* The verification holds, the request is complete, and settle is called.
Admit(c) ==
  /\ req[c].pc = "verify"
  /\ signedFor[req[c].payment] = PayTo(c) /\ req[c].payment \notin charged
  /\ req[c].hasBody
  /\ req' = [req EXCEPT ![c].pc = "settle"]
  /\ settling' = [settling EXCEPT ![c] = "asked"]
  /\ UNCHANGED <<now, split, financed, registry, signedFor, charged, process, crashes,
                 answeredAt>>

\* The facilitator executes the authorization, once, or refuses it; a crash of the operator
\* does not stop it.  USDC pays nothing to the zero address.
FacilitatorSettles(c) ==
  /\ settling[c] = "asked"
  /\ \/ /\ req[c].payment \notin charged /\ signedFor[req[c].payment] # "zero"
        /\ charged' = charged \cup {req[c].payment}
        /\ settling' = [settling EXCEPT ![c] = "charged"]
     \/ /\ settling' = [settling EXCEPT ![c] = "failed"]
        /\ UNCHANGED charged
  /\ UNCHANGED <<now, split, financed, registry, signedFor, req, process, crashes, answeredAt>>

\* What handleInfer does with a settled payment, up to its answer with the call id; the
\* forwarding of the net that it kicks off is in module FundingLoop.
Start(c) ==
  /\ req' = [req EXCEPT ![c].pc = "accepted"]
  /\ inFlight' = Pruned([inFlight EXCEPT ![c] = [status |-> "running", stamp |-> now]])
  /\ task' = task \cup {c}
  /\ UNCHANGED <<now, split, financed, registry, infoCache, signedFor, settling, charged,
                 crashes, answeredAt>>

\* A plausible slip: settle.success is not looked at.
AcceptUnsettled(c) ==
  /\ req[c].pc = "settle"
  /\ settling[c] \in {"charged", "failed"}
  /\ Start(c)

Accept(c) ==
  /\ req[c].pc = "settle"
  /\ settling[c] = "charged"
  /\ Start(c)

\* settlePayment answers success = false: the facilitator refused, or no answer came and
\* nobody knows what it did or will do.
FailSettlement(c) ==
  /\ req[c].pc = "settle"
  /\ req' = [req EXCEPT ![c].pc = IF settling[c] = "failed" THEN "refused" ELSE "unanswered"]
  /\ UNCHANGED <<now, split, financed, registry, signedFor, settling, charged, process,
                 crashes, answeredAt>>

---------------------------------------------------------------------------
\* A plausible slip: the answer is only put where an entry still is.
FinishWherePresent(c) ==
  /\ c \in task
  /\ task' = task \ {c}
  /\ \E status \in Final :
       inFlight' = IF inFlight[c].status = "absent" THEN inFlight
                   ELSE [inFlight EXCEPT ![c] = [status |-> status, stamp |-> now]]
  /\ answeredAt' = [answeredAt EXCEPT ![c] = now]
  /\ UNCHANGED <<now, split, financed, registry, infoCache, signedFor, handlers,
                 crashes>>

\* A plausible slip: the entry keeps the time it was started at.
FinishKeepingStart(c) ==
  /\ c \in task
  /\ task' = task \ {c}
  /\ \E status \in Final : inFlight' = [inFlight EXCEPT ![c].status = status]
  /\ answeredAt' = [answeredAt EXCEPT ![c] = now]
  /\ UNCHANGED <<now, split, financed, registry, infoCache, signedFor, handlers,
                 crashes>>

\* runInferenceAsync ends: with an answer and its receipt, or with an error.
Finish(c) ==
  /\ c \in task
  /\ task' = task \ {c}
  /\ \E status \in Final :
       inFlight' = [inFlight EXCEPT ![c] = [status |-> status, stamp |-> now]]
  /\ answeredAt' = [answeredAt EXCEPT ![c] = now]
  /\ UNCHANGED <<now, split, financed, registry, infoCache, signedFor, handlers,
                 crashes>>

\* handleInferResult, for any call: a poll prunes the whole table.
Poll ==
  /\ inFlight' = Pruned(inFlight)
  /\ UNCHANGED <<now, split, financed, registry, infoCache, signedFor, handlers, task, crashes, answeredAt>>

\* The operator dies and comes back: all it had in memory is gone. settle calls that were sent
\* stay sent.
Crash ==
  /\ crashes < MaxCrashes
  /\ crashes' = crashes + 1
  /\ req' = [c \in Call |->
       IF req[c].pc \in {"read", "verify", "settle"} \/ c \in task
       THEN [req[c] EXCEPT !.pc = "killed"] ELSE req[c]]
  /\ infoCache' = "none"
  /\ inFlight' = [c \in Call |-> Absent]
  /\ task' = {}
  /\ UNCHANGED <<now, split, financed, registry, signedFor, settling, charged, answeredAt>>

Next ==
  \/ AttachFinance \/ RegisterOnChain \/ PassTime
  \/ \E c \in Call, p \in Payment, hasBody \in BOOLEAN : Receive(c, p, hasBody)
  \/ \E c \in Call :
       \/ ReadInfo(c) \/ Refuse(c) \/ Admit(c) \/ FacilitatorSettles(c)
       \/ Accept(c) \/ FailSettlement(c) \/ Finish(c)
  \/ Poll
  \/ Crash

\* A run ends: its turns are counted, its requests are taken to return, and an error is caught.
Fairness == \A c \in Call : WF_vars(Finish(c))

Spec == Init /\ [][Next]_vars /\ Fairness

---------------------------------------------------------------------------
Accepted == {c \in Call : req[c].pc = "accepted"}

(* A call that runs was paid for, to the recipient the gateway asked for, by a payment of its *)
(* own: neither a payment sent twice, nor one whose first settlement failed or went           *)
(* unanswered, starts two runs (handleInfer's check of settle.success).                       *)
OnePaymentOneCall ==
  \A c \in Accepted :
    /\ req[c].payment \in charged
    /\ signedFor[req[c].payment] = PayTo(c)
    /\ \A d \in Accepted \ {c} : req[d].payment # req[c].payment

\* How far the sale of a call has got, for somebody who sees the payments. A request that was killed
\* or got no answer is open as long as the facilitator may still charge for it.
SaleOf(c) ==
  IF settling[c] # "charged" THEN IF req[c].pc = "refused" THEN "refused" ELSE "open"
  ELSE CASE req[c].pc = "settle" -> "owed"
         [] req[c].pc = "accepted" -> IF c \in task THEN "running" ELSE "answered"
         [] OTHER -> "lost"

Shop == INSTANCE PaidCalls WITH
  sale <- [c \in Call |-> SaleOf(c)],
  spent <- charged,
  bought <- [c \in Call |-> IF settling[c] = "charged" THEN {req[c].payment} ELSE {}],
  answers <- {c \in Call : inFlight[c].status \in Final}

(* The gateway sells paid calls: whatever requests carry the same payment, however slow the   *)
(* facilitator is and whenever the operator restarts, each payment buys one call, a call runs *)
(* and is answered once and only after it was paid, and a refusal is final: no settlement     *)
(* that comes late charges for it (handleInfer, requirePayment, runInferenceAsync).           *)
SellsPaidCalls == Shop!Spec

(* Once the operator knows an agent's vault, whatever it knew or cached before, payments for  *)
(* the agent go there, or to the reserve with the vault as the recipient of the net           *)
(* (server.ts:739-740, "Check there FIRST before falling back to chain-side AgentRegistry").  *)
KnownVaultIsPaid ==
  \A c \in Accepted : req[c].knew =>
    /\ req[c].vault = "vault"
    /\ ~split => signedFor[req[c].payment] = "vault"

(* An answer can be polled for the whole TTL after the run ended, however long the run took   *)
(* and whether or not its entry was pruned while it ran; only a restart loses it earlier      *)
(* (server.ts:110, "keep results 10 min for polling").                                        *)
AnswersAreKept ==
  [][\A c \in Call :
       (inFlight[c].status \in Final /\ inFlight'[c].status = "absent") =>
         \/ now - answeredAt[c] > Ttl
         \/ crashes' # crashes]_vars

(* A call whose id was handed out gets its answer, unless a crash kills it: also the one      *)
(* that was pruned while it ran (server.ts:90, "polls /x402/calls/:callId until status        *)
(* flips").                                                                                   *)
AcceptedIsAnswered ==
  \A c \in Call : c \in task ~> (inFlight[c].status \in Final \/ req[c].pc = "killed")

(* "Settlement is the caller's job after the work succeeds (so we never settle for failed     *)
(* work)": no payment is taken for a call that ends in an error. handleInfer settles first,   *)
(* then starts the run.                                                                       *)
FailedWorkIsFree ==
  \A c \in Call : inFlight[c].status = "error" => req[c].payment \notin charged
===========================================================================
