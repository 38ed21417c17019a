# Slopstock in TLA+

A verification project for slopstock: agents as on-chain assets that earn money per
inference call and pay it out to their shareholders. The modules here are translated from
`contracts/src` (Solidity), `apps/operator/src` and `apps/web/src` (TypeScript); TLC checks them
on small instances and TLAPS proves the core of them for every value of the constants.
`PROJECT.json` maps every definition to the lines it stands for.

- [1. The system](#1-the-system)
- [2. Modules](#2-modules)
- [3. Runs](#3-runs)
- [4. Proofs](#4-proofs)
- [5. Findings](#5-findings)
- [6. Not modelled](#6-not-modelled)
- [7. Plan](#7-plan)

## 1. The system

Money enters when a customer pays for a call (x402), in USDC, to the wallet of the operator
or directly to the agent's vault. The operator runs the agent, keeps a slice of the payment to
buy compute, and forwards the net to the agent's `RevenueVault`. Shareholders claim from the
vault in proportion to their `ShareToken` balance. An agent gets its shares in one of two ways: its
creator launches it from the web application, and the operator deploys a share token, a vault
and a sale (`IPOSale`) for it; or its owner locks the token (`StratumAgentNFT`) in the
`Fractionalizer`. The token itself can be sold through the `Marketplace`.

```
 launch page --register, poll--> registry, finance jobs --deploy--> ShareToken, vault, IPOSale
                                          |
 customer --x402--> gateway --run--> Hermes runtime --snapshot--> blob store, ENS pointer
                      ^ |                | loop
                      | |                +--query_agent: pays other agents--+
                      +-|---------------------------------------------------+
                        | pays
                        v
                  operator wallet --> funding loop --swap, bridge--> compute ledger
                        | forwardNetToVault
                        v
 agent page --snap--> RevenueVault <--reads past votes-- ShareToken <--mints-- Fractionalizer
            --pay-->                                        ^ sells               | locks
                                                          IPOSale                 v
                                           Marketplace --iTransfer-->  StratumAgentNFT
```

### Contracts

| component | state | operations | hard behaviour | what makes it correct |
|---|---|---|---|---|
| ShareToken | balances, delegates, vote checkpoints per block, supply | transfer (auto-delegates the receiver), delegate, burn | delegation inside `_update`, self-transfers, delegating to nobody, burns | a delegate's votes are the balances behind it; no checkpoint exceeds its supply; every holder is counted |
| RevenueVault | USDC balance, snapshots, claimed marks | `fund`, `snap`, `claim`, `distributeTo` | snapshots overlap; claims read the past while shares trade on; floor division | no snapshot overpays; paid once and in full; later trades do not dilute; who waits can be paid |
| IPOSale | units sold, the creator's allowance | `buy`, and `approve` on the token | rounding of each purchase; the allowance and the creator's balance move besides | the creator misses nothing but rounding |
| StratumAgentNFT | owners, approvals, usage grants with version and expiry | `mint`, `iTransfer`, ERC-721 transfers, `authorizeUsage`, `revokeUsage` | two kinds of transfer, only one ends the grants | a live grant is younger than the last acquisition |
| Marketplace | one escrow balance, best bid per token | `postBid`, `accept`, `cancelExpired` | all bids share one balance; expiry races with acceptance | the escrow is exactly the standing bids; delivery against payment |
| Fractionalizer | which token is locked, share supply of each | `fractionalize`, `redeem` | old approvals and bids outlive the lock | outstanding shares lock the token |
| AgentRegistry | one record per agent | `register`, once | the vault may be zero, for good | the vault that is known is paid |
| StratumResolver, TestnetUSDC | ENS records; a faucet | - | - | see section 6 |

The contracts call each other synchronously, so a transaction is one step; their concurrency is
the order in which transactions of different accounts run, and what happens between the block
an operation refers to and the one it runs in.

### Operator

| component | state | operations | hard behaviour | what makes it correct |
|---|---|---|---|---|
| Self-funding loop (`funding/`) | spend log on disk, the wallet's USDC, ETH and OG, the compute ledger | a periodic tick: read, decide, swap, bridge, poll, deposit, record | any leg fails or times out and the transaction is mined later; the process dies; balance differences are measured while other money moves | caps and floor hold, gas money stays |
| x402 gateway (`http/server.ts`) | calls in flight, settled payments (memory) | challenge, verify, settle, run asynchronously, poll, prune | settlement precedes the work; a lost answer; the TTL; restarts | one run per payment; a paid call is answered |
| Dynamic registry, finance deployment (`store/`) | registry cache and its JSON file, deploy jobs in flight | register, delete, deploy three contracts, attach | flushes of several handlers interleave; a job outlives the record it started from; restarts | what was attached survives a restart; one stack per agent |
| Hermes runtime (`runtime/hermes.ts`, `storage/snapshot.ts`) | agent directory, `bundle.lock.json`, pending ENS pointer, receipts | load, task, snapshot, publish pointer, flush at shutdown, restore after a wipe | snapshots of consecutive tasks publish concurrently; tasks of one agent run at once on one lock; files are archived while they are written; a restore that fails falls back to the seed | the pointer never goes back, and what it names can be loaded; a running agent knows what was published; a graceful stop loses nothing |
| Hermes loop and tools (`hermes-loop.ts`, `hermes-tools.ts`) | a conversation; `MEMORY.md`, skills, the agent's working wallet | a bounded loop of model replies and tools; `query_agent` pays another agent and waits | agents that call each other in circles; fallback after an unanswered payment; files read, changed and written by several tasks; requests without a deadline | no unexplained second charge, notes and skills are kept, nobody waits for another task for ever |
| The rest (LLM backends, credential store, MCP server, demo agents) | none of their own | - | - | see section 6 |

The operator is a single Node process: its handlers interleave at every `await`, so every await
is a boundary between actions. Handlers share the wallet, the registry file, the agents'
directories and the spend log.

### Web application

| component | state | operations | hard behaviour | what makes it correct |
|---|---|---|---|---|
| Launch page (`launch-client.tsx`) | where the launch is, attempts, what it shows | mint, register with retries, deploy, poll, approve the sale | a request that was given up arrives after its repetition | the sale the creator approves is the one in the agent's record |
| Agent page (`distribute-button.tsx`) | holders as listed when it was loaded, the distribution under way | `snap`, then one `distributeTo` per holder | no receipt of a payment is looked at; a click after giving up; holders change meanwhile | a reported distribution is paid |

## 2. Modules

| module | models | extends |
|---|---|---|
| `Sums` | the sum of a function, by counting | - |
| `ShareToken` | `ShareToken.sol` with the ERC20Votes behaviour it drives | `Sums` |
| `Dividends` | abstract: what the RevenueVault promises | `Sums` |
| `RevenueVault` | `RevenueVault.sol` over `ShareToken`, composed; its refinement of `Dividends` | `ShareToken` |
| `IPOSale` | `IPOSale.sol` over `ShareToken`, with the creator's approval | `ShareToken` |
| `Distribution` | the distribution button of the agent page over vault, token and sale | `RevenueVault`, `IPOSale` |
| `AgentNFT` | `StratumAgentNFT.sol` with the ERC-721 it inherits | `Sums` |
| `EscrowAccounts` | abstract: what the Marketplace promises | - |
| `Marketplace` | `Marketplace.sol` over `AgentNFT`; its refinement of `EscrowAccounts` | `AgentNFT` |
| `Fractionalizer` | `Fractionalizer.sol` over `AgentNFT` | `AgentNFT` |
| `AgentMarket` | the three of them composed: everything that moves a token | `Marketplace`, `Fractionalizer` |
| `FundingLoop` | `apps/operator/src/funding` with the wallet, the chain and the bridge | `Sums` |
| `PaidCalls` | abstract: what the gateway promises | - |
| `X402Gateway` | the paid-call handlers of `http/server.ts`, `x402-v2.ts`, the registry cache of `chain/clients.ts`, the on-chain AgentRegistry, the facilitator; its refinement of `PaidCalls` | - |
| `DynamicRegistry` | `store/dynamic-registry.ts`: the table and its file | - |
| `Launchpad` | the agent handlers of `http/server.ts` and the deployment job over `DynamicRegistry` | `DynamicRegistry` |
| `LaunchClient` | the launch page composed with `Launchpad` | `Launchpad` |
| `HermesRuntime` | `runtime/hermes.ts`: directory, snapshots, pointer, receipts, restarts | - |
| `AgentLoop` | `hermes-loop.ts`, `hermes-tools.ts`, `memory-files.ts`, `skills.ts`, `ens-agent-resolver.ts` | - |
| `MC*` | the instances for TLC | the module they name |
| `*_proofs` | theorems and lemmas | the module they name |

Operators named in a comment "A plausible slip" are mutations: wrong variants of the definition
below them, used by no specification, with which each property is shown to be breakable.
Variables and fields called "history" are read by no action of the code; they record what a
property has to speak about.

### How state and actions correspond to the code

**ShareToken.** `balances`, `delegatee`, `votes` are `_balances`, `_delegatee` and the latest
checkpoint of `_delegateCheckpoints`. `past[b]` is what `getPastVotes` and
`getPastTotalSupply` read for a closed block `b`; `NextBlock` closes a block. `Transfer` is
`_update` whole: a receiver without a delegate is delegated to itself with what it already
holds, and then the units move. `optedOut` is history: who delegated to `address(0)`
and received nothing since. OpenZeppelin is not in the repository and is modelled from how the
contracts override and call it. Allowances and permits, which decide who may call and not what
a call does, are left out (but for the sale's, in `IPOSale`).

**RevenueVault.** `usdc` is the vault's balance; `Fund` stands for `fund()` and for a plain
transfer into it. `Snap` records the whole balance with timepoint `block - 1`. `Settle` is
`_settle`, which `claim` and `distributeTo` share; a settlement of amount 0 marks the holder as
claimed, and one the balance does not cover reverts. `received`, `paid` and `overlapped` are
history.

**Dividends.** A dividend fixes when it is declared what each holder gets of the money there is, and each
gets that once and in full, as far as the money goes. Whatever is traded meanwhile is `Trade`, which
touches neither. Blocks, checkpoints of past votes, delegation and claim marks are not in it. The mapping (`Payer` in
`RevenueVault`) takes the votes of the last closed block for the register, the vault's balance for
the cash, and for what dividend `d` is worth to a holder, `Worth`, what `_settle` would compute now: that this
never changes is part of what is shown.

**IPOSale.** `Buy` is `buy`: window, allocation, payment, shares, in one transaction. The block number
stands for its timestamp. A buyer who has not the USDC, or did not approve it, reverts, which
leaves no trace and is no step. `Approve` is `approveShares` of the launch page: it approves the whole
allocation each time, also when part of it is sold.

**Distribution.** `page` is the button's state: "idle", "snap" (the receipt of `snap()` is awaited), "push"
(one `distributeTo` after another is sent, none is awaited) and "done" (reported as paid out).
`mempool` is what the page's wallet sent, mined in that order. A `snap()` that reverts has a receipt
without a `Snapped` event, and the page then distributes the first snapshot, as the code
does. `GiveUp` (a rejected signature, a timeout) offers the button again and leaves in flight what was
sent. `VaultNext` is everybody else: payments into the vault, snapshots and settlements of other
accounts and pages. `loadHolders` is one step: the logs and the balances it reads belong to one block
here. It lists whoever holds units; the page sends from the largest holder to the smallest, here in any
order.

**AgentNFT, Marketplace, Fractionalizer.** `caller` is `msg.sender`, and contracts call with
their own address: `Accept` moves the token with `ITransfer(Market, ...)` and therefore needs
the approval the code needs. `now` is `block.timestamp`. A bid may be posted for a token that is
not minted, `iTransfer` may send to `address(0)` (it calls `_update` without a receiver check),
and `redeem` with no shares left succeeds for anybody, all as in the code.
`grantedSince` is history: who was granted usage since the token's last `iTransfer`. `Approvable` and
`Operator` bound who is ever approved for a token, or for all tokens of an owner.

**EscrowAccounts.** Each bid is money on an account of its own, which leaves it in one of two
ways: to the seller in the step that hands the token to the bidder, or back to the bidder. One pooled
balance, expiry, approvals, locks and grants are not in it. The mapping (in `Marketplace`)
reads the holder of a token off `owner`, the purses off the persons' money and the accounts off the
best bids.

**FundingLoop.** A tick is one program counter (`pc`) and its locals (`tick`); each await of
`runTopupCheck`, `swapUsdcToEth`, `bridgeEthToOg`, `depositToLedger` and `SpendLog.record` is a
boundary. A transaction that was sent sits in `mempool` and is mined in nonce order
(`MineSwap`, `MineBridge`, `MineReverted`), also after its tick gave up. `Abort` is every way a
tick ends early: a leg that throws or times out, and a crash. `BeginWrite`/`EndWrite` are the
truncation and the filling of the log file by `writeFile`; `SpendLog.read` takes a broken file
for an empty log. `Check` may read the ledger as 0, as `getLedgerBalance` does when the broker
fails. `ForwardNet` runs concurrently, as it is not awaited, and may fail.
Abstractions: one USDC buys one ETH buys one OG, gas and slippage cost nothing, the deposit
transaction is mined as it is sent, the timestamp of a spend is the time of its tick's decision, the amount that is deposited is exact (the code
`Number(formatEther())` of `executor.ts:323` rounds it to a double, an error far below the gas money),
dry runs are left out, and one runner owns the wallet.

**X402Gateway.** A request goes through `handleInfer` with its `pc` at the await it has reached:
`Receive` (dynamic registry, cached registry information), `ReadInfo` (`AgentInfoCache.forToken`),
`Refuse`/`Admit` (verification, body), then `Accept` or `FailSettlement` after the facilitator.
The facilitator is a step of its own, `FacilitatorSettles`, so its answer can be lost and it can
settle after the operator gave up or died. `Start` enters the call into `inFlight` and prunes the
table; `Finish` is the end of `runInferenceAsync`, and it may come after the entry was pruned.
The agent's record in the on-chain AgentRegistry is "none", "bare" (registered with a zero vault) or
"vault", written once; an override of `static-vaults.ts` is a vault like the one on chain. `infoCache` keeps a failed read ("null") and a zero vault for good, as the code
does: until the next restart the agent's payments then go to the default vault, unless the dynamic
registry knows the agent. `KnownVaultIsPaid` therefore speaks of requests that came when the operator
knew the vault; finance is only ever attached in this module, and that another registration drops it
is `Launchpad`'s. A signed payment may be sent with several requests, and each request may have been
priced before the agent's vault was known. `answeredAt` and `knew` are history.

**PaidCalls.** The sale of a call is open until it is paid or refused; once paid it is owed, then running, then
answered, or it is lost. One payment buys one call. Verification, whom is paid, call ids, clocks, pruning and
restarts are not in it. The mapping (`Shop` in `X402Gateway`) reads the sale off what the facilitator did and
where the handler is. A request that was killed by a restart, or got no answer, is still open, since the
facilitator may yet charge for it; a refused one is not.

**DynamicRegistry, Launchpad.** Every writer of the registry changes `cache` and awaits a flush
that carries what the cache then held (`Put`). `OpenFile` and `FillFile` are the truncation and the
writing inside `writeFile`; flushes overlap freely, and a file over which two were written may
not parse. `Reload` is a restart: a file that does not parse becomes an empty registry.
A record is reduced to the number of its registration and of its finance stack, 0 for none.
A deployment job (`jobs`, one per entry of `financeInFlight` that says "deploying") waits at each
contract (`DeployContract`, `AttachFinance`, `FailDeploy`), at its flushes and at the ENS
registration (`RegisterName`, which may fail without consequence). `Land` ends a flush and runs what
its awaiter does next (`Continue`), for a registration the start of the job. `status` and `reported` are
the entry of `financeInFlight` and the stack in it. One bound, `MaxMishaps`, counts deletions, failed
deployments and restarts together. `excuses` counts what makes another deployment legitimate, `torn`
whether flushes overlapped, `acked` whose registration was answered.

**LaunchClient.** `page` is the state of the launch page and `posts` the attempts at
`POST /agents/register` that are on their way. `fetchJsonWithRetry` sends an attempt again after a transport
failure or a timeout (`RetryRegister`), and the one before may still arrive (`PostArrives`), in any order.
The answer comes with the flush of the registration, if the page still waits for it, or is lost
(`LandAndAnswer`). `KickDeploy` and `ShowFinance` are `deployFinance` and `pollFinanceStatus`, read from
the entry or else the record as `handleDeployFinanceStatus` does. `OthersRegister` is a registration of the same
token that is not the page's. `lapse` is history: a registration, a deletion or a restart dropped a finance.

**HermesRuntime.** What a task teaches is a set of entries of the agent's directory `disk`: rows of
`memory.db`, and a change to a skill of the seed, which the next load overwrites for a seed
agent. The directory's content has the receipts file (`tape`), and of `bundle.lock.json` and `memory.db` whether they
can be read: the lock is "torn" from the truncation of a `writeFile` to its end, "mixed" while several are under way,
and stays torn when a crash hits one. `pc[t]` is the await a call has reached: "restore" and "untar" (`Begin`,
`ReadPointer`, `Untar`, `RestoreFails`), "prepare" (`Prepare`: the seed), "open" (`Open`: database and lock read;
`LoadFails` if one does not open, now and at every later call), "lock" (`Loaded` ends its write), "run" (`Work`, which ends
with `bundleHashBefore` read), "hash" (`Compare`, when the directory is hashed: the hashes are compared and a write of the
lock begins), "save" or "saveChanged" (`Finish`: the lock is written) and "reply" (`Reply`: the receipt).
`snap[t]` is its snapshot chain, which nobody awaits: `Export` (receipts into the directory), `Tar` (what the archive
caught while other tasks wrote), `Upload`, `Relock` (the lock with the blob's identifier, and the decision of
`maybePublishPointer`), `Publish`. A launched agent makes an AgentState for every call and never restores; a seed
agent's runtime, cached by the router, keeps one (`shared`). `pendingPointer` and `lastPublished` are the module-level
maps; `Terminate`, `Flush` are the shutdown handler, `Crash` loses everything in memory, `Wipe` the disk. An ENS
write whose sender stopped, or no longer waits for the receipt, may still be mined (`sent`, `LandLate`). An open
database whose file is replaced by a restore writes nowhere (`stale`). `lock.version` is left out: it is written and never
read (two tasks that read one hash before both count one change in it). `mishaps` is history: which races and
faults have happened, so that each property can name the ones that excuse it; `seq`, `answered` and `packs` are history too.

**AgentLoop.** A call is a task of one agent; `call[c].at` is the await it has reached. Each tool is an
action: what it computes is left open, what it changes (files, wallet, another call) is not. `Note`/`NoteWrite`
and `ManageSkill`/`SkillWrite`, `Synthesize`/`Upsert` are the read and the write of a file, between which other tasks run;
`draft` is what was read. A note whose write fails is reported as noted (`NoteFails`). `query_agent` is `Resolve`,
`Verified`/`Refuse`, `PayEns` or the static map (`PayListed`), and polling until the deadline. Payments start a call at
this operator's gateway, so the number of calls bounds the circles; a call that finds no free slot cannot pay.
The requests to the backend, to a peer and of a poll have no deadline: `Hang`, and `HangPaid` for one that was paid
for, leave the task at "hung" for ever. `charges` and `trust` are history.

## 3. Runs

| run | module | states | what it shows |
|---|---|---|---|
| `revenue_vault` | MCRevenueVault | 392,460 | votes and vault accounting over every order of trades, delegations, burns, payments, snapshots and claims; the vault implements `Dividends` |
| `distribution` | MCDistribution | 5,152,869 | the sale loses rounding only; a distribution the page reports is paid unless snapshots overlap |
| `agent_market` | MCAgentMarket | 176,056 | grants end with an acquisition; outstanding shares lock the token; the escrow is the standing bids; the contracts implement `EscrowAccounts` |
| `funding_loop` | MCFundingLoop | 3,785,683 | recorded spends keep the cap; gas money stays; the floor is missed only by what left the reserve meanwhile |
| `x402_gateway` | MCX402Gateway | 1,517,876 | one run per payment, the known vault is paid, answers stay for the TTL and come for every accepted call; the gateway implements `PaidCalls` |
| `launchpad` | MCLaunchpad | 753,147 | the launch page with the operator: the file follows the registry; retries deploy nothing twice; finance stays with its registration; the page shows what the record has; every deployment is worked on, has only so many steps, and ends |
| `hermes_runtime` | MCHermesRuntime | 2,473,952 | the published pointer forgets nothing and can be loaded, a running agent knows it, receipts travel with what they paid for, a graceful stop keeps the work |
| `agent_loop` | MCAgentLoop | 619,437 | a second charge only after a lost answer, nobody stuck in a circle of calls nor going on for ever, notes and skill versions lost only to overlapping or failed writes |
| `overlapping_snapshots` | MCRevenueVault | - | violated: a claim the vault cannot cover |
| `failed_bridge` | MCFundingLoop | - | violated: the daily cap, by a tick that failed after its swap |
| `lost_registration` | Launchpad | - | violated: an agent whose registration was answered is gone after a restart |
| `retried_registration` | MCLaunchpad | - | violated: the page shows, at rest, a stack that the agent does not have |

**Bounds and why they are enough.**

- *Vault.* Two holders and three units: a division with a remainder, self-delegation,
  delegation to the other and to nobody, a holder who sells out. Two blocks after the first and
  two snapshots: trades before, between and after the snapshots, and an overlapping pair with
  the claims in any order. Three units of revenue can come in before, between and after them.
  What a third holder or a third snapshot could add is covered by the proofs (section 4), which
  have no bounds. Holders are interchangeable, so symmetry is sound.
- *Distribution.* A creator and a buyer, two units, two blocks, two units of revenue and two snapshots: a
  snapshot before and after the sale, and one of somebody else under the page's. Two
  units are offered, each half of a whole share, at a price of one payment unit for a whole share: bought one by one
  they cost nothing, twice, and together they cost 1. The window is one block. Two clicks: a distribution that was
  given up, with its transactions in flight, under the next one. Only the proofs have more holders and more
  than two purchases.
- *Market.* Two persons are buyer and seller, and the contracts are accounts too, so approvals of
  a person and of either contract race with the locks; only the contracts are ever operators
  for all tokens of a person, which to the token is what a person would be. One token and one renter,
  as no definition relates the grants of two tokens; versions up to 2, so that a grant of version
  0 meets a later version. A budget of 2 allows an outbid. `MaxTime = 1` lets a bid or a grant expire.
  Tokens meet in the one escrow balance; any number of them is covered by `EscrowCovered` and
  `DeliversAgainstPayment` (section 4). Persons are interchangeable.
- *Funding.* Three payments of 4 with half forwarded, a floor of 1, a cap of 3 for a tick and a
  day, a window of 2 with the clock going up to 3: a first swap leaves the window while a later
  one is in flight, the daily cap truncates a second top-up, and three swaps put a late swap,
  a late bridge transfer and a current tick side by side.
- *Gateway.* Two requests and two payments: the same payment sent twice, before and after it was
  settled, and a second call that prunes or outlives the first. A TTL of 1 and a clock up to 2 let
  an entry be pruned while its run goes on, and after it ended. One restart, anywhere.
- *Launchpad and launch page.* One agent, two registrations, two attempts of the page (six in the code:
  each further one only repeats the second), one registration by others, and one deletion, failed
  deployment or restart anywhere: a job that outlives its record and meets the next one, a flush of a job
  under the flush of a registration, an attempt that arrives when the page has its finance already.
  Records of different agents meet only in the file, which `lost_registration` shows with two.
- *Hermes.* One agent, as agents share only the process: three tasks, the first of which was answered and
  published, or failed, before the operator was last stopped. The other two run one after the other or at
  once, each with its snapshot chain. One stop (crash or shutdown, with a wipe or not) and one fault
  (a failed task, restore, export, upload or ENS write), anywhere. A state in which more than one kind of mishap has
  happened is checked but not continued (`FewMishaps`): there most properties are excused. The proofs have no such
  bound. Tasks but the first are interchangeable.
- *Agent loop.* Two agents, one of them in the static map, and two calls, so an agent can call
  the other, be called by it, or have both calls itself. The wallets hold two and one payments: enough for
  the second charge of a query, and running out. Two turns and a skill for two tools, so that a task ends by
  running out of turns and one that recovers is worth a skill; a `MEMORY.md` of two lines keeps one when
  it is full and written to. Three
  calls do not finish in reasonable time. The two listings and the ENS records are enumerated in `MCAgentLoop`.

Except for the gateway's, the runs set `CHECK_DEADLOCK FALSE`: the bounds on blocks, payments,
swaps, registrations, stops and calls stop every behaviour, and nobody is obliged to act. (In the
gateway a poll is always possible.) That a task of an agent is not stuck is a property of its own,
`NobodyIsStuck`; that it does not go on for ever is `TasksRunDown`.

**Fairness.** Only what the operator itself goes on doing is fair. In `X402Gateway` each run ends
(`WF` of `Finish`): its turns are counted, and an error is caught and written as the answer. That its requests
return is an assumption: the code sets no deadline on those to the model and to peers, and relies on the HTTP client to
fail them. (`AgentLoop` does without the assumption: there a request may hang.) In `Launchpad`, and in `LaunchClient` above it, the steps of a job are weakly fair
for each agent, since a deployment is mined or its receipt times out, and so are the steps of
flushes, since the file system answers. Neither asks for strong fairness, and no client, the launch page
included, is assumed to do anything: an answer is there to be polled whether or not anybody polls.
The contracts have no fairness: nothing makes anybody call them (an expired bid stays until someone
cancels it, a claim until someone claims it). Nor has the funding loop: it has a timer, but each of
its legs may fail for ever, and the code retries nothing within a tick. Hermes publishes with the next
task or not at all; what it owes is said of the moment it stops (`GracefulStopKeepsWork`).

## 4. Proofs

Eight modules hold the theorems. Each is for every value of the constants: any finite set of holders,
persons, requests, tokens, any supply, policy, price and bound. The only assumptions are those the modules name
(`ShareTokenAssumption`, `MarketplaceAssumption`, ...).

| module | theorem | property |
|---|---|---|
| `Distribution_proofs` | `VaultInvariant` | the inductive invariant `VaultInv` |
| | `TypeCorrect` | `TypeOK`; in particular no balance goes negative |
| | `VotesTrackBalances` | `VotesMatchDelegations` |
| | `SharesConserved` | `VotesWithinSupply` |
| | `NobodyForgotten` | `HoldersAreCounted` |
| | `NeverOverpays` | `PaidWithinSnapshot` |
| | `PaysEachShareOnce` | `PaidOnceInFull` |
| | `SolventWhenSerial` | `SerialSnapshotsSolvent` |
| | `ShortfallBounded` | `ShortfallIsOthersDraw` |
| | `TradesDoNotDilute` | the action property `LaterTradesDoNotDilute` |
| | `VaultPaysDividends` | `PaysDividends`, the refinement of `Dividends` |
| | `DistributionInvariant` | the inductive invariant `DistInv` |
| | `DistributionTypes` | `DistributionTypeOK` |
| | `PagesPayDividends` | `PaysDividends`, with the sale and the page as users |
| | `DistributionUsesVault` | the vault's `Spec`: what is proved of the vault holds here |
| | `SaleLosesOnlyRounding` | `SaleRoundsDown` |
| | `ReportsArePaid` | `ReportedIsPaid` |
| `AgentMarket_proofs` | `MarketInvariant` | the inductive invariant `MarketInv` |
| | `TypeCorrect` | `TypeOK` |
| | `EscrowCovered` | `EscrowCoversBids` |
| | `SharesBacked` | `SharesAreBacked` |
| | `GrantsEnd` | `GrantsEndWithAcquisition` |
| | `DeliversAgainstPayment` | `DeliveryAgainstPayment`, the refinement of `EscrowAccounts` |
| `FundingLoop_proofs` | `FundingInvariant` | the inductive invariant `FundInv` |
| | `TypeCorrect` | `TypeOK` |
| | `GasKept` | `GasMoneyKept` |
| | `OverrunUnrecorded` | `OverrunIsUnrecorded` |
| | `FloorKept` | the action property `TopupsKeepFloor` |
| `X402Gateway_proofs` | `GatewayInvariant` | the inductive invariant `GatewayInv` |
| | `TypeCorrect` | `TypeOK` |
| | `PaidOncePerCall` | `OnePaymentOneCall` |
| | `VaultIsPaid` | `KnownVaultIsPaid` |
| | `AnswersStay` | the action property `AnswersAreKept` |
| | `GatewaySells` | `SellsPaidCalls`, the refinement of `PaidCalls` |
| `LaunchClient_proofs` | `PadInvariant` | the inductive invariant `PadInv` |
| | `FileFollows` | `FileIsCurrent` |
| | `DeploysExplained` | `DeploysAreExplained` |
| | `FinanceKept` | the action property `FinanceStays` |
| | `DeploysWorkedOn` | `DeploysAreWorkedOn` |
| | `DeploysEndByCount` | the action property `DeploysRunDown` |
| | `LaunchInvariant` | the inductive invariant `LaunchInv` |
| | `LaunchTypes` | `LaunchTypeOK` |
| | `ShownAttached` | `ShownIsAttached` |
| | `LaunchFileFollows`, `LaunchDeploysExplained`, `LaunchFinanceKept`, `LaunchDeploysWorkedOn`, `LaunchDeploysEndByCount` | the five of `Launchpad`, under the page |
| `HermesRuntime_proofs` | `HermesFits` | the inductive invariant `Fits` |
| | `TypeCorrect` | `TypeOK` |
| | `PublishedLoad` | `PublishedLoads` |
| | `AgentRemembers` | `RunningAgentRemembers` |
| | `PointerKeeps` | the action property `PointerForgetsNothing` |
| | `TapeFollows` | `TapeFollowsBrain` |
| | `StopKeeps` | the action property `GracefulStopKeepsWork` |
| `AgentLoop_proofs` | `LoopInvariant` | the inductive invariant `LoopInv` |
| | `TypeCorrect` | `TypeOK` |
| | `SecondChargeExplained` | `SecondChargeFollowsLoss` |
| | `NotesKept` | the action property `NotesAreKept` |
| | `VersionsCounted` | the action property `VersionsCountWrites` |
| | `TasksRunOut` | the action property `TasksRunDown` |

The theorems about the vault, its token included, stand with those about the page that distributes its
money, and those about the launchpad with those about the launch page. `Sums_proofs` holds the lemmas about
sums. The type invariants, `VotesWithinSupply` and `SerialSnapshotsSolvent` are proved and in no run.

**Vault.** The token's invariant `TokenInv` says that `votes[d]` is the sum of the
balances delegated to `d`, that balances sum up to the supply, that votes never exceed it, and
the same of every closed block. Conservation of votes is not inductive by itself: a burn or a
transfer subtracts from a delegate's votes, and only the equation with the delegated balances
shows that this stays in `Nat` and within the supply. `MoveBooked` and `DelegateBooked` are the two
facts about a transfer and a delegation from which each action's step follows.

The vault's invariant `VaultInv` adds that each snapshot refers to a closed block, which makes
`ProRata` a constant of the snapshot (`PastFixed`, `ProRataFixed`) - this is why later trades
cannot dilute it - and that settled holders were paid exactly that. From the token's invariant,
the votes of a closed block are within its supply, so the floored shares sum up to at most the
recorded balance (`SharesWithinBalance`). Solvency needs the history variable `overlapped`: as
long as nobody snapped while money was owed, what is owed is within the balance. In general each
snapshot is short by at most what the others have drawn (`ShortfallIsOthersDraw`), and this is the
form that is inductive.

For the refinement of `Dividends`, each transaction maps to one abstract step or to none: a transfer, a delegation
and a burn change only the block that is open and leave the register alone; the end of a block is a `Trade`, whose
register is sound because of `VotesWithinSupply` of the block that closes; `Snap` declares (`SnapDeclares`), and since its
timepoint is the last closed block, the register it goes by is the one of the mapping; a settlement disburses
(`SettleDisburses`), also when it reverts for lack of money, which both forbid, and one of amount 0 is no step. That
`Worth` stays as it was needs `ProRataFixed`: a refinement mapping that is computed from the present state
has to be shown constant, which is what "fixed when it is declared" means.

**Distribution.** Every step of page and sale is a step of the vault or leaves it alone, so `VaultInv`
carries over. `ReportedIsPaid` follows from `PaidOrSent`: whoever the page has passed is
settled, or a transaction in the mempool names them; when that is mined, the vault's solvency (no overlap) lets it
settle. `AwaitsOne` and `PageKnowsItsSnapshot` say which snapshot this is: of all the `snap()`s in the mempool,
those of clicks given up included, the page awaits one.

**Market.** `MarketInv` adds to the properties that no grant is stamped with a later version than the
token's (`GrantsStamped`), and that a locked token is the contract's with nobody approved for it
(`LocksHold`) - without which an old approval could move it out from under the shares. For the refinement, each
step that is not a bid's is a `GiveAway` or a stutter, and `EscrowCoversBids` shows that the one balance
never lacks what an account of `EscrowAccounts` has.

**Gateway.** `GatewayInv` relates each handler's program counter to what the facilitator did for it
(`SettlingFits`): "accepted" means charged, and "refused" means never charged. With `ChargedOnce` - a payment is
charged for one request - two accepted calls cannot share a payment. `VaultIsKept` and `SignedAsAsked` carry the vault
from the moment the operator knew it to the challenge and the signature.

For the refinement of `PaidCalls`, `RunsAreAccepted` is needed besides: a call that is running was accepted. With
`SettlingFits` it tells, of each request, which sale the mapping reads off it (`SalesKept`, `SaleMoves`): the
facilitator's charge is `Charge`, into "owed" if the handler still waits, and into "lost" if it failed or was
killed; a refusal is final, since nothing was submitted for it; `Start` is `Serve`, the end of a run `Answer`, and a
restart loses whatever was owed or running. Pruning only ever drops answers (`PruningForgets`). The first version of
the mapping had two overlapping cases, on which the proof failed and TLC did not.

**Launchpad.** `FlushIsCurrent` says that the only flush under way carries the cache, unless some
overlapped: this is what `FileIsCurrent` needs of the moments between opening and filling the file. Registrations are
numbered and no table anywhere holds a number yet to come (`Numbered`), so a job cannot mistake a new
record for the one it started from, and one job at most works for an agent. `LaunchInv` adds that, as long as no
finance was dropped, record, entry and page agree; `LaunchNext` is shown to take only Launchpad's steps, so the
theorems about it hold under the page as well. `Worked` ties jobs and flushes together: each entry that says "deploying"
has its job, and a job that waits for the file and the flush it waits for belong to each other alone. It needs
that one job works for an agent, or the flush of one could wake the other. From it, `DeploysRunDown` is a variant:
`StepsLeft` counts the contracts, the flushes and the name. The two are the safety half of `DeploysEnd`, for every
number of agents; that the steps are taken is fairness, and left to TLC.

**Funding.** `RoomInCap` says that the log has room for what a tick is about to spend, at the time the tick
took: the window only moves on, so it still has when the tick records it. `FloorCovered` carries what the tick read of
the reserve, less what left it since (`outflow`), to the moment its swap is mined; `SwapIsLast` says that this swap
is the last transaction of the wallet. `GasAside` keeps the gas money out of both balances whose difference is
deposited.

**Hermes.** `Fits` says of every step what the shape of the code only suggests: who runs a task, or packs its
snapshot, does so over a directory that some load has given a lock (`LockFits`); a process that is down has no memory;
every snapshot holds a lock; and no trace of a task is anywhere before the task has worked (`RowsFit`). A lemma for each
action says what it does to these. Four invariants stand on `Fits`, one for each question, as no one of them needs
another:

- `LoadsFit`: one task at a time is writing the lock, unless writes have clashed; who has loaded finds it whole when
  nobody writes, as a lock torn by a crash lets no load end. A snapshot counts once its archive is closed (`Sealed`).
- `RememberFit`: `RunningAgentRemembers` compares the directory with the pointer. To survive the next write of the
  pointer this must be said of every snapshot that may become it - packed, pending, or being flushed - and newer ones
  must know what older ones do. Before the load there is nothing to compare; what is known then is that the
  load will restore what the pointer names. `PointerForgetsNothing` is a consequence, step by step. An archive that
  caught what was written after it was begun breaks the order of the snapshots, and is an excuse of the second alone.
- `TapeFit`: the receipt of an answered task is wherever its result is, or in `receipts.db`; a snapshot holds those of the
  tasks answered before its export, and while `tar` still reads, no result of such a task comes in anew. A wipe has to count as
  a loss of receipts (`receiptsLost`) not only what the pointer's snapshot lacks, but what any snapshot lacks whose
  write was sent and may still be mined: with four tasks and two stops, an older snapshot mined after the wipe
  is restored without its receipts, and the next export publishes it.
- `KeepFit`: what an answered task taught the agent is published, pending, or in the hash of a chain that has yet to write
  it (`Covered`), from the moment its task has compared the hashes. A task whose hash equals the last published one is
  skipped by `maybePublishPointer`; `LastFits` says that this is right, as the pointer knows that hash's results. The
  property needs no excuse for lost receipts, for a torn lock, nor for a launched agent that is not restored.

The one assumption is that `NoBlob` is no blob.

**Agent loop.** `LoopInv` relates the place a call has reached to what its query has been charged (`QueriesPay`):
nothing before a payment, and one unanswered charge of the published route at most when it falls back to the
static map. `PeersAnswer` says whom a poll waits for. For the
files, `WritersKnow` says that two calls of an agent between the read and the write of one file are both marked
as overlapped, and that a call that is not has read what the file holds: this is what lets
the write of its draft keep every note, and count every version. `TasksRunDown` is a variant: each step of a call
lowers `Left`, which counts the turns and the awaits of a turn, and no step of another call raises it. With
`NobodyIsStuck`, which TLC checks, it says that every task ends, without any assumption on its peers, unless a request
that has no deadline hangs.

**Sums without induction.** A recursive sum would need induction over the domain, which the
provers cannot do through the library's theorems. `Sums` therefore defines the sum as a
cardinality: `f` is the bag in which `x` occurs `f[x]` times. Splitting, updating, scaling and
bounding a sum (`Sums_proofs`) then follow from the library's theorems on `Cardinality`.

**Only model-checked.** What is out of the prover's reach: liveness under fairness (`AcceptedIsAnswered`,
`DeploysEnd`) and `ENABLED` (`NobodyIsStuck`). Every other property of a run that passes is a theorem. Of
`DeploysEnd` and `NobodyIsStuck`, what is not liveness or `ENABLED` is proved apart (`DeploysWorkedOn`,
`DeploysEndByCount`, `TasksRunOut`). The three abstract specifications promise safety only, so the refinements are
proved whole.

## 5. Findings

Four runs are expected to be violated; each quotes what the repository says of the program.

1. `overlapping_snapshots`: `snap()` records the whole balance, money that earlier snapshots owe
   included. After a second `snap()`, claims on the newer snapshot can use up what the older one
   owes, and the last claim reverts. `SerialSnapshotsSolvent` and `ShortfallIsOthersDraw` say
   precisely when this cannot happen and how far it goes.
2. `failed_bridge`: a tick that fails after its swap records no spend, so the next tick may spend
   the daily cap again. `OverrunIsUnrecorded` shows that only unrecorded swaps overrun the cap.
3. `lost_registration`: launched agents shall "survive operator restarts", but flushes of
   `registry.json` are neither serialised nor atomic, and a file that does not parse counts as an
   empty registry. `FileIsCurrent` says when a restart loses nothing: as long as no flushes overlapped
   and no crash hit one.
4. `retried_registration`: repeating a registration after a timeout "is safe" (`launch-client.tsx:1324`,
   `server.ts:353`). When the first one arrives after all, it replaces the record without its finance; if the job is past
   `attachFinance` by then, nothing attaches one again, and the creator approves a sale the record does not
   have. `ShownIsAttached` says that nothing but this (or a deletion, or a restart) separates page and record.

Four more sentences of the repository are stated in the modules, next to the properties, and are in no run: TLC refutes
each of them when the configuration of the module names it as the `INVARIANT`.

5. `FailedWorkIsFree` (`X402Gateway`): "settlement is the caller's job after the work succeeds (so we never settle for
   failed work)" (`x402-v2.ts:117-118`, and again in `:142`). The one caller settles first and starts the run then
   (`server.ts:781-783`, "prepaid-API model"), and a run that fails gives nothing back. `SellsPaidCalls` says what the
   gateway does instead: a call is refused before it is charged or not at all, and runs and is answered once it is charged.
6. `AnyOperatorRehydrates` (`HermesRuntime`): "Any operator can rehydrate any agent from chain + Walrus alone"
   (`snapshot.ts:22-23`). The lock is written in place while another call's archive is made; a snapshot that caught it empty
   is published, and every load of it fails in `JSON.parse` (`hermes.ts:260`). `PublishedLoads` says that a snapshot is
   loadable unless exactly this happened, or two tasks wrote the lock at once.
7. `SnapshotCapturesReceipts` (`HermesRuntime`): receipts are folded into the directory "so the snapshot captures them"
   (`hermes.ts:332-333`), but the receipt of the call that makes the snapshot is recorded after `runTask` returned
   (`server.ts:866`), and the export comes first. `TapeFollowsBrain` speaks of the calls answered before the export.
8. `UnverifiedIsNotPaid` (`AgentLoop`): "we never pay an unverified agent" (`hermes-tools.ts:306-307`). The check is
   skipped when no agentId could be read (`:367-369`), and the published endpoint is paid all the same. (That the fallback to
   the static map is not verified is announced by the same comment.)

Met while modelling, and told here without a run of their own:

- Grants "auto-clear on transfer" (`StratumAgentNFT.sol:10`), but only `iTransfer` clears them; after `transferFrom`
  the seller's grants live on. `GrantsEndWithAcquisition` therefore speaks of `iTransfer`.
- `note` says "noted" also when the append to `MEMORY.md` failed (`hermes-tools.ts:267`).
- OG that arrives after its tick timed out stays in the wallet, though "re-run will pick it up" (`executor.ts:317`):
  a re-run deposits only the growth that it measures itself.
- A launched agent never restores from its pointer, though `hermes.ts:171-173` and the documentation of snapshots say
  that a directory that is gone is restored: the router has written `system.md` into it before `load` looks.
- The cron entrypoint builds its `LiveTopupExecutor` without the `chain` that the constructor reads
  (`self-fund-topup.ts:54`, `executor.ts:201`), so it throws before the check, dry run or not. The two runners on one
  wallet that it would otherwise make do not exist.
- A failed read of the AgentRegistry, and a zero vault, are cached until the next restart (`chain/clients.ts:108`).
- The launch page takes the answer that the agent is not known for a failure of the whole poll, though its comment says
  otherwise (`launch-client.tsx:1410`), and a second wallet account repeats the registration.
- The distribution button, clicked again after it gave up, snaps over what the first snapshot still owes
  (`distribute-button.tsx:108`), and reports a `snap()` that reverted as paid out (`:157`): `ReportedIsPaid` excludes
  exactly these two.

## 6. Not modelled

- `setMappings`, `iClone` (always reverts), token metadata and sealed keys of `StratumAgentNFT`:
  nothing on chain reads them. Its approval rules, transfers and grants are modelled.
- `StratumResolver`, `TestnetUSDC`, the Move allowlist: records behind one owner check, and a
  faucet.
- Of the gateway: several agents and prices, the usage-grant, profile, receipts and test endpoints.
  Of the launchpad: credentials, the signature of a deletion, what is deployed, disk errors, and that two agents may
  have one ticker. Of the registry contract: who may register.
- ENS subnames: a sequence of transactions each of which may be repeated without effect. That the whole may fail is
  `RegisterName`.
- The cron entrypoint `self-fund-topup.ts`, which cannot run at this commit (section 5). `FundingLoop` has one runner.
- Of Hermes: what hashes and archives consist of, `lock.version` and `lastUpdated`, directories driven by a manifest, several agents. Of the loop:
  what a tool computes, prompts, the parser, the simpler tool set that no runtime kind selects by default.
- LLM backends and their wire formats, prices, encryption, blob storage clients, pinning of receipts, the credential
  store: wrappers of external services, with no state of their own.
- Of the web application: the pages to acquire an agent and to subscribe, and those that only read. The MCP server, the
  command-line subscriber, the gateway stub, the demo agents, the shared packages: clients of the parts above, scripts and
  types.

## 7. Plan

In order of importance; what is done is marked.

1. Done: `ShareToken`, `RevenueVault` - checked and proved; refinement of `Dividends`.
2. Done: `AgentNFT`, `Marketplace`, `Fractionalizer`, `AgentMarket` - checked and proved; refinement of `EscrowAccounts`.
3. Done: `FundingLoop` - checked and proved, one runner.
4. Done: `X402Gateway` - checked, with liveness, and proved but for that; refinement of `PaidCalls`; one agent.
5. Done: `DynamicRegistry`, `Launchpad`, `LaunchClient` - checked, with liveness, and proved but for that.
6. Done: `HermesRuntime` - checked and proved.
7. Done: `AgentLoop` - checked, and proved but for `NobodyIsStuck`.
8. Done: `IPOSale`, `Distribution` - checked and proved.
9. The subscribe page and the command-line subscriber over `X402Gateway` (a client that signs, polls and gives up), and
   the acquire page over `Marketplace` (it reports a bid as filled without looking at the receipt).
10. A second runner in `FundingLoop`, once the cron entrypoint runs; the steps of an ENS subname with a failure between any two; agents that share a
    ticker.
