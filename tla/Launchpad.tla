----------------------------- MODULE Launchpad -----------------------------
(***************************************************************************)
(* Launching an agent: registration, deletion, and the background jobs     *)
(* that deploy its share token, vault and sale and attach them to its      *)
(* record (the /agents handlers of apps/operator/src/http/server.ts, with  *)
(* store/finance-deploy.ts).                                               *)
(*                                                                         *)
(* Every await that waits for the file or a chain is a boundary.  A        *)
(* creator's signature and the credentials of a registration are left out; *)
(* the deployer's key is configured.                                       *)
(***************************************************************************)
EXTENDS DynamicRegistry

CONSTANTS MaxRegistrations, \* bound: POST /agents/register
          MaxMishaps        \* bound: deletions, deployments that fail, and restarts

ASSUME LaunchpadAssumption == {MaxRegistrations, MaxMishaps} \subseteq Nat

VARIABLES status,    \* financeInFlight: the state of an entry
          reported,  \* the finance in an entry that is complete
          jobs,      \* runFinanceDeployAsync under way
          stacks,    \* finance stacks numbered so far
          registrations, \* so far
          mishaps,   \* so far
          crashes,   \* those of them that are restarts
          deploys,   \* history: jobs of a token that went on to deploy
          excuses,   \* history: what makes it right to deploy for a token again
          acked      \* history: agents whose registration was answered, and not deleted

financeVars == <<status, reported, jobs, stacks>>
counters == <<registrations, mishaps, crashes>>
history == <<deploys, excuses, acked>>
vars == <<registryVars, financeVars, counters, history>>

\* at: the contract that is deployed next, then the awaits of attachFinance, of the ENS
\* registration and of attachEnsName.  reg: the registration the job has read; stack: what it
\* has deployed.
Job == [token : Token, reg : Nat, stack : Nat,
        at : {"share", "vault", "sale", "attach", "ens", "name"}]
NewJob(t) == [token |-> t, reg |-> cache[t].reg, stack |-> 0, at |-> "share"]

TypeOK ==
  /\ RegistryTypeOK
  /\ status \in [Token -> {"absent", "deploying", "complete", "error"}]
  /\ reported \in [Token -> Nat]
  /\ jobs \subseteq Job
  /\ {stacks, registrations, mishaps, crashes} \subseteq Nat
  /\ deploys \in [Token -> Nat] /\ excuses \in [Token -> Nat]
  /\ acked \subseteq Token

Init ==
  /\ RegistryInit
  /\ status = [t \in Token |-> "absent"]
  /\ reported = [t \in Token |-> 0]
  /\ jobs = {} /\ stacks = 0
  /\ registrations = 0 /\ mishaps = 0 /\ crashes = 0
  /\ deploys = [t \in Token |-> 0] /\ excuses = [t \in Token |-> 0]
  /\ acked = {}

---------------------------------------------------------------------------
Mishap == mishaps < MaxMishaps /\ mishaps' = mishaps + 1

\* handleRegisterAgent up to the flush: the record of an earlier registration is replaced, its
\* finance included; finance that was deployed elsewhere may be given.
Register(t, withFinance) ==
  LET reg == registrations + 1
  IN /\ registrations < MaxRegistrations
     /\ registrations' = reg
     /\ stacks' = IF withFinance THEN stacks + 1 ELSE stacks
     /\ Put([cache EXCEPT ![t] = [reg |-> reg,
                                  finance |-> IF withFinance THEN stacks' ELSE 0]],
            "register", t)
     /\ excuses' = IF Known(t) THEN [excuses EXCEPT ![t] = @ + 1] ELSE excuses
     /\ UNCHANGED <<status, reported, jobs, mishaps, crashes, deploys, acked>>

\* handleDeleteAgent.
Delete(t) ==
  /\ Known(t)
  /\ Mishap
  /\ Put([cache EXCEPT ![t] = NoRecord], "delete", t)
  /\ acked' = acked \ {t}
  /\ excuses' = [excuses EXCEPT ![t] = @ + 1]
  /\ UNCHANGED <<financeVars, registrations, crashes, deploys>>

\* A plausible slip: a job that is under way is not noticed.
StartDeployAgain(t) ==
  /\ status' = [status EXCEPT ![t] = IF ~Known(t) THEN "error"
                                     ELSE IF cache[t].finance # 0 THEN "complete"
                                     ELSE "deploying"]
  /\ IF status'[t] = "deploying"
     THEN /\ jobs' = jobs \cup {NewJob(t)}
          /\ deploys' = [deploys EXCEPT ![t] = @ + 1]
     ELSE UNCHANGED <<jobs, deploys>>
  /\ reported' = [reported EXCEPT ![t] = cache[t].finance]

\* A plausible slip: the job does not look whether the agent has its finance.
StartDeployOfFinanced(t) ==
  IF status[t] = "deploying" THEN UNCHANGED <<status, reported, jobs, deploys>>
  ELSE /\ status' = [status EXCEPT ![t] = IF Known(t) THEN "deploying" ELSE "error"]
       /\ reported' = [reported EXCEPT ![t] = 0]
       /\ IF Known(t)
          THEN /\ jobs' = jobs \cup {NewJob(t)}
               /\ deploys' = [deploys EXCEPT ![t] = @ + 1]
          ELSE UNCHANGED <<jobs, deploys>>

\* startFinanceDeployAsync, and runFinanceDeployAsync up to its first deployment.
StartDeploy(t) ==
  IF status[t] = "deploying" THEN UNCHANGED <<status, reported, jobs, deploys>>
  ELSE /\ status' = [status EXCEPT ![t] = IF ~Known(t) THEN "error"
                                          ELSE IF cache[t].finance # 0 THEN "complete"
                                          ELSE "deploying"]
       /\ reported' = [reported EXCEPT ![t] = cache[t].finance]
       /\ IF status'[t] = "deploying"
          THEN /\ jobs' = jobs \cup {NewJob(t)}
               /\ deploys' = [deploys EXCEPT ![t] = @ + 1]
          ELSE UNCHANGED <<jobs, deploys>>

Unfinanced(t) == cache[t].finance = 0 /\ status[t] # "deploying"

\* handleDeployFinance: POST /agents/:tokenId/deploy-finance.
DeployFinance(t) ==
  /\ Known(t) /\ Unfinanced(t)
  /\ StartDeploy(t)
  /\ UNCHANGED <<registryVars, stacks, counters, excuses, acked>>

\* handleDeployFinanceStatus: its pruneFinanceInFlight drops a terminal state once the TTL has
\* passed (to every handler it is then as good as absent), and never a job that is under way.
PollFinance(t) ==
  /\ status[t] \in {"complete", "error"}
  /\ status' = [status EXCEPT ![t] = "absent"]
  /\ reported' = [reported EXCEPT ![t] = 0]
  /\ UNCHANGED <<registryVars, jobs, stacks, counters, history>>

---------------------------------------------------------------------------
Advance(j, at, stack) == jobs' = (jobs \ {j}) \cup {[j EXCEPT !.at = at, !.stack = stack]}

EndJob(j, outcome) ==
  /\ jobs' = jobs \ {j}
  /\ status' = [status EXCEPT ![j.token] = outcome]
  /\ reported' = [reported EXCEPT ![j.token] = IF outcome = "complete" THEN j.stack ELSE 0]

\* deployFinanceStack, first two contracts.
DeployContract(j) ==
  /\ j.at \in {"share", "vault"}
  /\ Advance(j, IF j.at = "share" THEN "vault" ELSE "sale", 0)
  /\ UNCHANGED <<registryVars, status, reported, stacks, counters, history>>

\* The third one completes the stack, and attachFinance puts it into the record, if there is
\* one; without a record there is nothing to flush either.
AttachFinance(j) ==
  /\ j.at = "sale"
  /\ stacks' = stacks + 1
  /\ IF Known(j.token)
     THEN Put([cache EXCEPT ![j.token].finance = stacks'], "attach", j.token)
          /\ Advance(j, "attach", stacks')
     ELSE Advance(j, "ens", stacks') /\ UNCHANGED registryVars
  /\ UNCHANGED <<status, reported, counters, history>>

\* A plausible slip: the failure is logged, and the entry stays as it is.
FailUnnoticed(j) ==
  /\ j.at \in {"share", "vault", "sale"}
  /\ Mishap
  /\ jobs' = jobs \ {j}
  /\ excuses' = [excuses EXCEPT ![j.token] = @ + 1]
  /\ UNCHANGED <<registryVars, status, reported, stacks, registrations, crashes, deploys, acked>>

\* A plausible slip: the job deploys again by itself.
FailAndRetry(j) ==
  /\ j.at \in {"share", "vault", "sale"}
  /\ Advance(j, "share", 0)
  /\ UNCHANGED <<registryVars, status, reported, stacks, counters, history>>

\* A deployment fails or its receipt times out; what was deployed is not used again.
FailDeploy(j) ==
  /\ j.at \in {"share", "vault", "sale"}
  /\ Mishap
  /\ EndJob(j, "error")
  /\ excuses' = [excuses EXCEPT ![j.token] = @ + 1]
  /\ UNCHANGED <<registryVars, stacks, registrations, crashes, deploys, acked>>

\* registerSubname and attachEnsName; a failure is not fatal.
RegisterName(j) ==
  /\ j.at = "ens"
  /\ \/ /\ Known(j.token)
        /\ Put(cache, "name", j.token)
        /\ Advance(j, "name", j.stack)
        /\ UNCHANGED <<status, reported>>
     \/ EndJob(j, "complete") /\ UNCHANGED registryVars
  /\ UNCHANGED <<stacks, counters, history>>

\* What the awaiter of a flush does next.
Continue(f) ==
  CASE f.by = "register" ->
         /\ StartDeploy(f.token)
         /\ acked' = IF Known(f.token) THEN acked \cup {f.token} ELSE acked
    [] f.by = "delete" -> UNCHANGED <<status, reported, jobs, deploys, acked>>
    [] f.by = "attach" ->
         /\ \E j \in jobs : j.token = f.token /\ j.at = "attach" /\ Advance(j, "ens", j.stack)
         /\ UNCHANGED <<status, reported, deploys, acked>>
    [] f.by = "name" ->
         /\ \E j \in jobs : j.token = f.token /\ j.at = "name" /\ EndJob(j, "complete")
         /\ UNCHANGED <<deploys, acked>>

Open(f) == OpenFile(f) /\ UNCHANGED <<financeVars, counters, history>>

Land(f) == FillFile(f) /\ Continue(f) /\ UNCHANGED <<stacks, counters, excuses>>

\* All jobs and handlers die with the operator.
Crash ==
  /\ Mishap
  /\ crashes' = crashes + 1
  /\ Reload
  /\ status' = [t \in Token |-> "absent"]
  /\ reported' = [t \in Token |-> 0]
  /\ jobs' = {}
  /\ excuses' = [t \in Token |-> excuses[t] + 1]
  /\ UNCHANGED <<stacks, registrations, deploys, acked>>

JobStep(j) == DeployContract(j) \/ AttachFinance(j) \/ FailDeploy(j) \/ RegisterName(j)
FlushStep(f) == Open(f) \/ Land(f)

Next ==
  \/ \E t \in Token :
       \/ \E withFinance \in BOOLEAN : Register(t, withFinance)
       \/ Delete(t) \/ DeployFinance(t) \/ PollFinance(t)
  \/ \E j \in jobs : DeployContract(j) \/ AttachFinance(j) \/ FailDeploy(j) \/ RegisterName(j)
  \/ \E f \in flushes : Open(f) \/ Land(f)
  \/ Crash

\* Transactions are mined or time out, and the file system answers.
Fairness ==
  /\ \A t \in Token : WF_vars(\E j \in jobs : j.token = t /\ JobStep(j))
  /\ WF_vars(\E f \in flushes : FlushStep(f))

Spec == Init /\ [][Next]_vars /\ Fairness

---------------------------------------------------------------------------
(* A retry does not deploy twice: an agent gets more than one stack only when a deployment    *)
(* failed, the agent was deleted or registered again, or the operator was restarted           *)
(* (server.ts:486-487: "Avoids double-deploys when the web client retries").                  *)
DeploysAreExplained == \A t \in Token : deploys[t] <= 1 + excuses[t]

(* The finance of a registration is not replaced: only another registration, a restart, or a  *)
(* job that was started for an earlier registration changes it (runFinanceDeployAsync,        *)
(* attachFinance).                                                                            *)
FinanceStays ==
  [][\A t \in Token :
       (cache[t].finance # 0 /\ cache'[t].finance # cache[t].finance) =>
         \/ cache'[t].reg # cache[t].reg
         \/ crashes' # crashes
         \/ \E j \in jobs : j.token = t /\ j.reg # cache[t].reg]_vars

\* What a job in an await of a flush waits for.
Waiting == {"attach", "name"}
Awaits(j, f) == f.by = j.at /\ f.token = j.token

(* An entry that says "deploying" is worked on: there is a job for it, the job waits for a    *)
(* flush only while that is under way, and no flush comes back to a job that is gone,         *)
(* whatever is registered, deleted, deployed or restarted meanwhile (runFinanceDeployAsync).  *)
DeploysAreWorkedOn ==
  /\ \A t \in Token : status[t] = "deploying" =>
       \E j \in jobs : j.token = t /\ (j.at \in Waiting => \E f \in flushes : Awaits(j, f))
  /\ \A f \in flushes : f.by \in Waiting => \E j \in jobs : Awaits(j, f)

\* The steps a job has left: three contracts, opening and filling the file, the name, the file.
OfStage == [share |-> 8, vault |-> 7, sale |-> 6, attach |-> 5, ens |-> 3, name |-> 2]
StepsLeft(j) == OfStage[j.at] - (IF \E f \in flushes : Awaits(j, f) /\ f.opened THEN 1 ELSE 0)

StepOf(j) == JobStep(j) \/ \E f \in flushes : Awaits(j, f) /\ FlushStep(f)

(* Every step of a job, or of the flush it waits for, leaves it fewer steps, and nothing else *)
(* that happens gives it more: a deployment is never begun again by itself, and is over after *)
(* as many steps (deployFinanceStack, attachFinance, attachEnsName).                          *)
DeploysRunDown ==
  [][\A j \in jobs : \A i \in jobs' : i.token = j.token =>
       /\ StepsLeft(i)' <= StepsLeft(j)
       /\ StepOf(j) => StepsLeft(i)' < StepsLeft(j)]_vars

(* A deployment that was reported as under way ends, in a stack or in an error, unless the    *)
(* operator dies: an entry that says "deploying" blocks every retry and is never pruned        *)
(* (server.ts:148).                                                                           *)
DeploysEnd == \A t \in Token : status[t] = "deploying" ~> status[t] # "deploying"

(* Agents that were registered are there after a restart (index.ts:61-62, "from disk so they  *)
(* survive operator restarts").                                                               *)
RegisteredAgentsSurvive == \A t \in acked : Known(t)
===========================================================================
