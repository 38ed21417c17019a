---------------------------- MODULE LaunchClient ----------------------------
(***************************************************************************)
(* The launch page of the web application and the operator's side of a     *)
(* launch, together: the page mints the token, registers it, has its       *)
(* finance deployed, polls for it and approves the sale                    *)
(* (apps/web/src/app/app/launch/launch-client.tsx, with module Launchpad). *)
(*                                                                         *)
(* A request can be lost, answered in vain, or arrive after the page has   *)
(* given it up and sent it again (fetchJsonWithRetry).  One page, one      *)
(* wallet account and one launch; requests of others come besides.         *)
(***************************************************************************)
EXTENDS Launchpad

CONSTANTS MaxAttempts, \* retries + 1 of fetchJsonWithRetry
          MaxOthers    \* bound: registrations that are not the page's

ASSUME LaunchClientAssumption == MaxAttempts \in Nat \ {0} /\ MaxOthers \in Nat

VARIABLES page,   \* the state of LaunchClient
          posts,  \* the attempts at POST /agents/register that are on their way
          lapse   \* history: finance was dropped by a registration, a deletion or a restart

clientVars == <<page, posts, lapse>>
launchVars == <<vars, clientVars>>

\* pc: "ready" to mint, "minting", "registering" the minted token, "registered" or
\* "unregistered"; "polling" for the finance, which is then "shown", or has "failed";
\* "approved": the sale may take the shares.  attempt: of fetchJsonWithRetry; reg: the
\* registration it has become, 0 before it arrives; shown: the finance on the page.
Page == [pc : {"ready", "minting", "registering", "registered", "unregistered", "polling",
               "shown", "failed", "approved"},
         token : Token, attempt : 0 .. MaxAttempts, reg : Nat, shown : Nat]

LaunchTypeOK ==
  /\ TypeOK
  /\ page \in Page
  /\ posts \subseteq 1 .. MaxAttempts
  /\ lapse \in BOOLEAN

LaunchInit ==
  /\ Init
  /\ \E t \in Token :
       page = [pc |-> "ready", token |-> t, attempt |-> 0, reg |-> 0, shown |-> 0]
  /\ posts = {}
  /\ lapse = FALSE

At(pc) == page.pc = pc
Goto(pc) == page' = [page EXCEPT !.pc = pc]

Minted(t) == t # page.token \/ page.pc \notin {"ready", "minting"}

---------------------------------------------------------------------------
\* mint: the manifest is pinned under the hash the page has computed, and the wallet signs.
Mint == At("ready") /\ Goto("minting") /\ UNCHANGED <<vars, posts, lapse>>

MintFails == At("minting") /\ Goto("ready") /\ UNCHANGED <<vars, posts, lapse>>

\* The receipt has the Transfer event; the effect that registers the token runs.
MintConfirmed ==
  /\ At("minting")
  /\ page' = [page EXCEPT !.pc = "registering", !.attempt = 1]
  /\ posts' = {1}
  /\ UNCHANGED <<vars, lapse>>

\* A transport failure, a gateway error or the timeout: the request is sent again, and the one
\* before may still arrive.
RetryRegister ==
  /\ At("registering") /\ page.attempt < MaxAttempts
  /\ page' = [page EXCEPT !.attempt = @ + 1, !.reg = 0]
  /\ posts' = posts \cup {page.attempt + 1}
  /\ UNCHANGED <<vars, lapse>>

GiveUpRegister ==
  /\ At("registering") /\ page.attempt = MaxAttempts
  /\ Goto("unregistered")
  /\ UNCHANGED <<vars, posts, lapse>>

\* The registration drops the finance that the record has.
Lapsing(t) == lapse' = (lapse \/ cache[t].finance # 0)

PostArrives(a) ==
  /\ a \in posts
  /\ posts' = posts \ {a}
  /\ Register(page.token, FALSE)
  /\ page' = IF At("registering") /\ a = page.attempt
             THEN [page EXCEPT !.reg = registrations'] ELSE page
  /\ Lapsing(page.token)

\* The registration that f flushes is the one that the page waits for.
Awaited(f) ==
  /\ f.by = "register" /\ f.token = page.token
  /\ At("registering") /\ f.content[f.token].reg = page.reg

\* The answer of a registration reaches the page, or is lost.
LandAndAnswer(f) ==
  /\ Land(f)
  /\ page' = page \/ (Awaited(f) /\ Goto("registered"))
  /\ UNCHANGED <<posts, lapse>>

\* deployFinance up to the answer of its POST: by the effect once the token is registered, by
\* the button later.
KickDeploy ==
  /\ page.pc \in {"registered", "failed"}
  /\ Known(page.token)
  /\ Goto("polling")
  /\ IF Unfinanced(page.token) THEN DeployFinance(page.token) ELSE UNCHANGED vars
  /\ UNCHANGED <<posts, lapse>>

\* No answer, or that there is no such agent.
KickFails ==
  /\ At("registered")
  /\ Goto("failed")
  /\ UNCHANGED <<vars, posts, lapse>>

\* handleDeployFinanceStatus: the entry, or else the record; 0 for an answer that is an error.
Answer ==
  CASE status[page.token] = "complete" -> reported[page.token]
    [] status[page.token] = "error" -> 0
    [] OTHER -> cache[page.token].finance

\* A plausible slip: the page shows what is in the record, complete or not.
ShowAnyhow ==
  /\ At("polling")
  /\ page' = [page EXCEPT !.pc = "shown", !.shown = cache[page.token].finance]
  /\ UNCHANGED <<vars, posts, lapse>>

\* pollFinanceStatus: "deploying" and "idle" are polled again.
ShowFinance ==
  /\ At("polling")
  /\ status[page.token] # "deploying"
  /\ Answer # 0
  /\ page' = [page EXCEPT !.pc = "shown", !.shown = Answer]
  /\ UNCHANGED <<vars, posts, lapse>>

\* pollFinanceStatus throws: on an error or an agent that is not known, when the polls fail, or
\* at the end of its ten minutes.
PollFails ==
  /\ At("polling")
  /\ Goto("failed")
  /\ UNCHANGED <<vars, posts, lapse>>

\* approveShares, for the sale on the page.
ApproveShares == At("shown") /\ Goto("approved") /\ UNCHANGED <<vars, posts, lapse>>

---------------------------------------------------------------------------
\* Registrations that are not the page's, of tokens that are minted.
OthersRegister(t, withFinance) ==
  /\ Minted(t)
  /\ registrations - (page.attempt - Cardinality(posts)) < MaxOthers
  /\ Register(t, withFinance)
  /\ Lapsing(t)
  /\ UNCHANGED <<page, posts>>

LaunchJobStep(j) == JobStep(j) /\ UNCHANGED clientVars

LaunchFlushStep(f) == (Open(f) /\ UNCHANGED clientVars) \/ LandAndAnswer(f)

LaunchNext ==
  \/ Mint \/ MintFails \/ MintConfirmed \/ RetryRegister \/ GiveUpRegister
  \/ \E a \in posts : PostArrives(a)
  \/ KickDeploy \/ KickFails \/ ShowFinance \/ PollFails \/ ApproveShares
  \/ \E t \in Token :
       \/ \E withFinance \in BOOLEAN : OthersRegister(t, withFinance)
       \/ Delete(t) /\ lapse' = TRUE /\ UNCHANGED <<page, posts>>
       \/ (DeployFinance(t) \/ PollFinance(t)) /\ UNCHANGED clientVars
  \/ \E j \in jobs : LaunchJobStep(j)
  \/ \E f \in flushes : LaunchFlushStep(f)
  \/ Crash /\ lapse' = TRUE /\ UNCHANGED <<page, posts>>

\* As in Launchpad.
LaunchFairness ==
  /\ \A t \in Token : WF_launchVars(\E j \in jobs : j.token = t /\ LaunchJobStep(j))
  /\ WF_launchVars(\E f \in flushes : LaunchFlushStep(f))

LaunchSpec == LaunchInit /\ [][LaunchNext]_launchVars /\ LaunchFairness

---------------------------------------------------------------------------
FinanceOnPage == page.pc \in {"shown", "approved"}

(* The sale on the page, which the creator approves to take the shares, is the one in the     *)
(* agent's record, which buyers are sent to: whatever was lost, repeated or retried on the    *)
(* way, unless a registration came when the record had its finance (or the agent was deleted  *)
(* or the operator restarted).                                                                *)
ShownIsAttached == FinanceOnPage /\ ~lapse => cache[page.token].finance = page.shown

(* "Retrying on those is safe" (launch-client.tsx:1324), "Idempotent + safe to retry"         *)
(* (server.ts:353): once a launch has come to rest, the agent has the finance that the page   *)
(* shows.                                                                                     *)
RetryIsSafe ==
  FinanceOnPage /\ jobs = {} /\ flushes = {} => cache[page.token].finance = page.shown
===========================================================================
