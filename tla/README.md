# A verification project for Balancer V2

TLA+ modules of the Balancer V2 contracts and of the programs that deploy and call them (`pkg/`,
`pvt/`), TLC configurations that check them on small instances, and proofs that TLAPS checks. Every
definition is translated from the Solidity, Vyper or TypeScript source; `PROJECT.json` maps each to its file and
lines.

The project covers the Vault (its storage, its operations, its pause, and the consent it asks for), the
timelock that governs the protocol and the migration to it, two kinds of Pools with their
mathematics and clients, and the deployment tasks. The inventory below is of the whole
repository, and the plan at the end says what comes next.

1. [The system](#1-the-system)
2. [The modules](#2-the-modules)
3. [The runs](#3-the-runs)
4. [The proofs](#4-the-proofs)
5. [Where comments and code disagree](#5-where-comments-and-code-disagree)
6. [What is left out of the modelled parts](#6-what-is-left-out-of-the-modelled-parts)
7. [The plan](#7-the-plan)

## 1. The system

The **Vault** holds the tokens of all Pools. Pools are contracts that price swaps, joins and
exits; the Vault calls them, moves the tokens and keeps the books. Users reach the Vault
directly or through **relayers**. Asset Managers take Pool tokens out of the Vault and bring
them back. An **Authorizer** decides who may call privileged functions, and the
TimelockAuthorizer makes many of those calls wait. Around this core are the BAL token's
economy (voting escrow, gauges, minters, distributors) and tools.

Contracts run in Ethereum transactions: a call runs alone, to its end or without a trace.
What is concurrent all the same: calls that hand control to other contracts half way and
may be reentered; transactions of different parties in any order; and time that passes between
them. There are no messages to lose and no crashes.

Off the chain it is otherwise. The **deployment tasks** are scripts that people run against a
network: a process may die between two steps, the chain goes on without it, and all it remembers is in the
files it wrote. **balancer-js** reads a nonce, asks a user to sign, and the signature arrives
whenever somebody submits it. The **clients and reference mathematics** of the tests (`pvt/helpers`) say, in
decimals, what contracts compute in integers.

| Component | State | Operations | Interacts with | Hard | What makes it correct |
|---|---|---|---|---|---|
| TimelockAuthorizer, TimelockExecutor | root, pending root, permissions, delays, scheduled executions | schedule, execute, cancel, claim root, manage granters and revokers, grant, revoke, renounce | every contract with `authenticate`; itself, through its executor | delay changes that overtake each other, executions run or cancelled by whoever comes first, general and specific permissions | promised waiting times hold; an execution runs once and when due; root is traceable; no path around a delay |
| Vault storage: PoolRegistry, PoolTokens, the three `*PoolsBalance`, BalanceAllocation | Pools, their tokens and Asset Managers, packed words of cash, managed and last change block | register and deregister, update balances | every Vault operation | three layouts of one thing, shared words, swap-and-pop, shortcuts that read a nonzero word as "registered" | each layout implements one ledger; nothing is left behind in a slot; amounts fit |
| Vault operations: Swaps, PoolBalances, UserBalance, AssetManagers, FlashLoans, Fees, ProtocolFeesCollector, AssetTransfersHandler | token balances, Internal Balance, the reentrancy lock | swap, batchSwap, joinPool, exitPool, manageUserBalance, managePoolBalance, flashLoan, withdrawCollectedFees | Pools, tokens, borrowers, Asset Managers | external calls between reading and writing balances | the books match the tokens at every point; no lost update; solvency |
| Emergency pause: TemporarilyPausable | the flag and two deadlines | pause, unpause | Vault and Pools | deadlines | a pause ends by itself, never returns, and lets value out only |
| Vault authorization: VaultAuthorization, SignaturesValidator | relayer approvals, nonces, the Authorizer | setRelayerApproval, setAuthorizer, `authenticateFor` | Authorizer, relayers, users | signatures that are replayed, late, or of another call | a relayer acts for a user only with both approvals or a signature that is used once |
| TimelockAuthorizerMigrator | four cursors over lists of roles | migrate, finalize | TimelockAuthorizer, the old authorizer | migration in steps of any size | after finalizing every role of the lists is there |
| Containers and words: EnumerableMap, EnumerableSet, WordCodec | arrays and index mappings | set, remove, insert bits | Vault storage, Pools | indexes after swap-and-pop | the index mapping inverts the array; a field never disturbs its neighbours |
| Pool base: BasePool, RecoveryMode, ProtocolFeeCache, PriceRateCache, BalancerPoolToken | supply, pause, Recovery Mode, cached fees and rates | initialise, join, exit, swap, enable and disable Recovery Mode | Vault, ProtocolFeePercentagesProvider | caches that anyone may refresh, exits that must work when all else fails | proportional exits never need the cached or external values; fees are due once |
| Pool controllers and factories | managers, a pause window shared by a factory's Pools, disabled factories | transfer a manager, create a Pool | Pools, Authorizer | two-step transfers, windows that end during deployment | ownership is claimed by its nominee; no Pool after disabling |
| Weighted pools (also LBP and Managed) | weights over time, swap switch, token lists | gradual updates, add and remove tokens | Vault | changes that start, end or are replaced in one second | weights stay within bounds and sum to one |
| Stable pools | amplification over time, rate caches, BPT inside the Pool | start and stop amplification updates | Vault, rate providers | bounds on the rate of change | each change stays within the daily rate |
| Linear pools | targets, wrapped rate | swap, set targets, rebalance | Vault, rebalancers | invariants in integers | rebalancing never costs the Pool |
| Primary and secondary issue pools, Orderbook | orders, market and limit lists, trades | issue, place, edit, cancel, match and settle orders | Vault, a balance manager | a book that is reordered while it is matched | every order is filled, cancelled or in the book, once |
| FeeDistributor | cursors by week for time, tokens and users, tokens per week | checkpoint, deposit, claim | VotingEscrow | three cursors moved by different calls, loops with an upper bound | all that is claimed was deposited; nothing is lost between weeks |
| DistributionScheduler | a linked list of weekly rewards per gauge and token | schedule, start distribution | gauges | insertion in the middle while the head moves | the list is sorted and holds exactly what is still to be paid |
| VotingEscrow, delegation, SmartWalletChecker | locks, slopes, checkpoints | create, increase, withdraw, checkpoint | FeeDistributor, GaugeController | decaying sums kept by scheduled slope changes | the total is the sum of the locks |
| GaugeController, GaugeAdder | votes, weights per week and type | vote, add gauges | VotingEscrow, minters | votes that expire, weights filled in week by week | a user's votes never exceed her power |
| Gauges | stakes, working supply, integrals | deposit, withdraw, checkpoint, claim | BalancerMinter, VotingEscrow | rates that change between checkpoints | rewards paid are rewards accrued |
| BAL minting: BalancerMinter, BalancerTokenAdmin | minted per user and gauge, approvals, inflation epoch | mint, update the rate | gauges, BAL | several minters for one user | each reward is minted once; supply follows the schedule |
| MerkleOrchard, MerkleRedeem | roots, claimed bitmaps, remaining balances | create distributions, claim | Vault | claims merged into words and channels | each claim pays once, and a channel pays no more than it holds |
| Relayers | temporary storage for chained references | multicall, joins, swaps, wrapping | Vault | references within one multicall | a reference is read with the value last written, and is cleared |
| Deployment tasks: `task.ts`, `verifier.ts`, the scripts and inputs under `tasks/` | output files per task and network, deployment transactions, contracts on the chain, what the explorer has verified | run (live, test, check; forced or not), deploy, save, verify, read | the chain, the block explorer, outputs of other tasks | processes that die between a transaction and its record; tasks that build on each other's outputs; an explorer that lags | what is recorded is what the scripts would deploy; running again completes; a check that passes vouches for it |
| Action ids, artifacts: `actionId.ts`, `artifact.ts`, `buildinfo.ts` | action-ids.json and its expected collisions; build-info, ABI and bytecode files | save, look up and check ids; extract and check artifacts | the chain, scripts that grant permissions, users of the package | contracts replaced while ids are read; files that outlive what they were made of | a check that passes vouches for what is looked up |
| balancer-js: signatures, encoders, normalised weights | none | sign, encode, normalise | Vault, BalancerMinter, Pools | nonces that are read early and used late | what is signed is what is checked |
| Models of the tests: clients and `math.ts` of the Pools | none but of the contracts | build a request, estimate | Pools through the Vault | decimals against integers, BPT at an index among the tokens | estimates and contracts agree, and contracts never err for the trader |
| Standalone utilities, governance scripts, test scaffolding | | | | | see `PROJECT.json` for why they are not modelled |

`PROJECT.json` lists, under `hazards`, what in this code is hard to test, at the line where it bites,
with the properties that are there for it. It keeps to the modelled code but for two; others of code that is not modelled are
named in the plan.

## 2. The modules

```
TimelockAuthorizer ── TimelockAuthorizerHistory ── TimelockAuthorizer_proofs
                 └─── TimelockDelayPromise
BalanceAllocation ─── PoolTokens ──(implements)──> PoolLedger
                           └─── PoolTokens_proofs
TemporarilyPausable ── Vault ── Vault_proofs
SignedConsent ─── SignedConsent_proofs
TimelockMigrationInput ── (lists of) ── TimelockAuthorizerMigrator ── TimelockAuthorizerMigrator_proofs
FixedPointMath ── WeightedMath ─┬─ WeightedPool ──────┬─ WeightedPool_proofs
             │                  └─ WeightedReference ─┘
             ├─── Decimals ──── (WeightedReference, StableReference)
             └─── StableMath ── ComposableStablePool ── StableReference
DeploymentTasks ── Deployments ── Deployments_proofs
(ActionIds, Artifacts, SourceTrimming) ── PublishedFiles_proofs
```

Lines are EXTENDS. The `MC*` modules only hold the values of the constants of small instances. Three of them also
put components together that **share no state**: `MCVaultConsent` (the Vault's operations; consent; run `vault_books`),
`MCContracts` (pause; migration; WeightedPool; its mathematics; ComposableStablePool with its
mathematics) and `MCOffchain` (tasks; action ids; artifacts; trimming). A variable `explored` picks one of
them in the initial state, and only that one moves: the behaviours are those of each component
alone, with all its initial states, and not their product, which would say no more.

**TimelockAuthorizer** is `TimelockAuthorizer.sol` with `TimelockExecutor.sol`. Its variables are
those of the contract: `_root`, `_pendingRoot`, `_isPermissionGranted` (the set `granted` of
permissions that are true), `_delaysPerActionId`, `_scheduledExecutions`, and `block.timestamp`
(`now`). Every function that changes state is an action that happens in one step, as a
transaction does; `Transaction(sender)` is any of them, sent by `sender`. A `require` is a guard. `Execute` runs the scheduled call as well. When the target is
the authorizer, the call changes its state (`setPendingRoot`, `setDelay`, `grantPermissions`,
`revokePermissions`). The call is the last thing `execute` does but for an event, so a reentering target does
what it could do in the next transaction. Hashes are pairs and triples.

**TimelockAuthorizerHistory** adds two history variables: who sent the transaction that scheduled an execution, and who was
root then (`scheduledLog`, written by `HTransaction(sender)` whatever the transaction checks of its sender), and for each action the time
before which nothing may run (`floor`). The promises of the
timelock span several transactions, and cannot be said without them. **TimelockDelayPromise** adds the one
history variable that a stronger reading of a comment needs.

**BalanceAllocation** is the library of the same name: a word of cash, managed and last change
block, as numbers of `AmountSize` and `BlockSize` values, with its overflow checks, and the pairs
of words that Two Token Pools share.

**PoolTokens** is the storage of the Vault: `PoolRegistry`, `PoolTokens`, and the three layouts in
`GeneralPoolsBalance` (an EnumerableMap), `MinimalSwapInfoPoolsBalance` (a set and a mapping of words)
and `TwoTokenPoolsBalance` (two tokens and shared words under a pair hash). An action is one call of the
Vault that reaches storage. The Vault's lookups and shortcuts are those of the code, with the
swap-and-pop that reorders tokens. **PoolLedger** says what the storage is for, whatever the layout: a
Pool has a set of tokens and a balance for each. `Ledger == INSTANCE PoolLedger WITH ...` in
PoolTokens maps the layouts to it, and `ImplementsPoolLedger` is its specification.

**TemporarilyPausable** is the pause, by itself and within the Vault.

**Vault** is how tokens and books move. What may be interrupted is a *frame* of the call stack, with
one action for each part between two external calls:

| Code | Actions |
|---|---|
| `batchSwap`, `swap` | `StartSwap`; per hop `AskPool` (balances are read, the Pool is called) and `PoolAnswers` (they are written); `EndSwap` settles the deltas |
| `joinPool`, `exitPool` | `StartJoinOrExit` (balances are read, the Pool is called); `JoinTransfer`/`ExitTransfer` per token; `EndJoinOrExit` writes the balances |
| `flashLoan` | `StartLoan`, `EndLoan` |
| `manageUserBalance` | `DepositInternal`, `WithdrawInternal`, `TransferInternal`, `TransferExternal` |
| `managePoolBalance` | `WithdrawPoolBalance`, `DepositPoolBalance`, `UpdateManagedBalance` |
| `registerTokens`, `deregisterTokens` | `RegisterTokens`, `DeregisterTokens` |
| `setPaused`, `withdrawCollectedFees` | `SetPaused`, `WithdrawCollectedFees` |
| ERC20 transfers by others, time | `TransferToken`, `TimePasses` |

All of these may come while a frame is open, and their own guards decide: `nonReentrant` is the
conjunct `NotEntered`, `whenNotPaused` is `IsNotPaused`. `unclaimed` is a history variable: tokens that reached the Vault without a call
(flash loans are taken from it, so that it is negative while one is open).

**SignedConsent** is `VaultAuthorization`, `EOASignaturesValidator` and its `ExtraCalldata` variant, the approvals of `BalancerMinter`,
and `signatures.ts` of balancer-js, which makes the signatures. Reading the nonce
(`ReadNonce`) and signing (`SignTypedData`) are two steps, and what is signed stays in `signed`, to be submitted by
anybody with any calldata. `calls` is the history of calls that succeeded, from which alone the property
`EveryCallConsented` works out who had approved whom and which signatures were used.

**TimelockAuthorizerMigrator** is the contract of that name: `migrate(n)` for any n of `Batches`, with sums as wide as
`MaxCounter` says (the documented `migrate(MAX_UINT256)` is among them), the delay of root,
`claimRoot`, `finalizeMigration`, and the old Authorizer, which lets the migrator finish or not.
**TimelockMigrationInput** is the input of mainnet (`input/mainnet.ts`), whose lists are one of the cases.

**FixedPointMath** is `FixedPoint.sol` with a unit of 10 000 and, of `LogExpMath`, the square root. **WeightedMath** is
`WeightedMath.sol`, with what `ExternalFees`/`InvariantGrowthProtocolSwapFees` add to it. **WeightedPool** is a Pool
of two tokens of equal weight: `_onInitializePool`, joins and exits of every kind, swaps, Recovery Mode and
its exits, the pause, the cached protocol fees with those due on swaps and yield, called as the client of `pvt/helpers` calls it.
A calculation that reverts is a guard: an invariant of zero, a division by zero, a fee percentage above the provider's maximum, or protocol fees that would take
the whole Pool (`FeesCanBePaid`), which `complement` turns into a division by zero. A `userData` is a record of one of the kinds in
`JoinUserData` and `ExitUserData`.
**ComposableStablePool** has two tokens and its own BPT, at any place among them: swaps, swaps for BPT (which are joins and exits that
move preminted BPT), joins and exits (which mint and burn), on **StableMath** (`StableMath.sol`, Newton's iterations
included). **WeightedReference** and **StableReference** are the `math.ts` of the tests and what the clients estimate, in the exact
fractions of **Decimals**, with the properties that compare the contracts with them.

**DeploymentTasks** is the scripts (`index.ts`) and inputs (`input.ts`) of the tasks under `tasks/`, as data: the steps of each and where its arguments
come from. **Deployments** is `task.ts` that runs them. A *site* is a network and the tasks run there. The chain is a
sequence of contracts; `out` holds the output files and `txs` the recorded transactions, which survive; `run`, the process, does not. What tasks
that are not looked at have deployed is given (`Given`).

| Code | Actions |
|---|---|
| `task.run` in LIVE, TEST and CHECK mode, with `--force` or without | `Start` |
| `deploy`: the output has the contract; or it is sent, recorded, and its transaction saved | `UseRecorded`; `SendDeployment`, `RecordAddress`, `saveContractDeploymentTransactionHash` |
| `deployAndVerify`, `verify`, `Verifier.call` | `VerifyContract` |
| `check` | `CheckDeployment` |
| getters of a contract, `save`, a test of the network in a script | `ReadContract`, `SaveContract`, `RequireNetwork` |
| the process dies; the explorer finds bytecode | `Crash`, `FindBytecode` |

**ActionIds** is `actionId.ts` with the commands of `hardhat.config.ts` that call it: ids are read from the chain, one await after the other (`ComputeIds`),
and written later (`saveActionIds`), while contracts are redeployed, Pools created, and processes die. Filtered lists are the elements at
some places of a list (`Those`).
**Artifacts** is `artifact.ts` and `buildinfo.ts`: the build-info a task deploys from, and the two files extracted of each
contract. An extraction goes through the files it has left (`extracting`, `CurrentFile`), of each the ABI and then the bytecode. **SourceTrimming** is what `verifier.ts` submits to the explorer: the recursion over imports, with the set
that it hands down and takes back, is a function of what has been found and the imports still to be looked at.

## 3. The runs

Where time, executions or amounts are bounded the instance stops in the end, and so all runs that pass
have `CHECK_DEADLOCK FALSE`. The contracts wait for nobody: a deadlock would be a state where no
transaction succeeds, and these have functions that always may be called. That tasks do not wait for each other in a circle is a
property (`NoCircularWait`).

| Run | Question | Instance | Distinct states |
|---|---|---|---|
| timelock | Does every order of delay changes keep what was promised, and root pass only by nomination? | two users, who may be root, one of whom may be permitted `setAuthorizer`; delays of 0, 1, 3 and 4 (4 is refused), 3 executions, 5 seconds | 1 133 864 |
| timelock_permissions | Is a delay on granting or revoking a way around? | two users, permissions over `setAuthorizer`, of which the grant may be delayed, protected executions too | 286 104 |
| storage | Do the three layouts implement the ledger? | a Pool of any specialization, 3 tokens, amounts to 2, 2 blocks | 24 473 |
| vault_books | Do the Vault's tokens match its books? And who consented to its calls? | 2 Pools, 1 token with a supply of 3, fees of 0 and 1; 1 user, 2 relayers, 1 minter, 2 signatures, 3 calls | 242 844 and 257 852 |
| vault_swaps | Is what a call read still so when it writes? What still moves during a pause? | 1 Pool, 2 tokens, 2 hops, fees of 0 and 1, pause window of 1 and buffer of 2 seconds | 318 870 |
| contracts | Does the pause end? Is the migration faithful? Do Pools ever lose to a trader? | see below | 71 623 |
| offchain | Do the records of deployments, ids and artifacts stay true through crashes and reruns? | see below | 647 159 |
| timelock_cancel, timelock_promise, storage_repeated_token, migrator_completion, deployments_check | see section 5 | | |

**Timelock.** Three executions are the fewest in which a reduction, an increase and a call that is
governed by both overlap, and in which two nominations and a claim overlap with a delay change; delays let a change be
accepted or too long, and a reduction (from 3 to 1) leave something of the delay. Two users let one be root
while the other is pending. The governed calls are those to `setAuthorizer`: the second user, once she is permitted them, schedules them, root or not, with and without a promise
(`floor`) to keep; some run exactly when it ends, after an increase and a reduction. `timelock_permissions` follows the permission over one function: when granting (revoking) it has a
delay, it appears (disappears) only by an execution. Lists of executors are empty in `timelock`, and one account
(protected executions) in `timelock_permissions`.

**Storage.** Two tokens let swap-and-pop move the last one into the place of the first; the third is never registered, and what is
asked of it is refused. Lists of three, and what leaves the middle of one, are for the proof (`LedgerIsImplemented`), which holds of any tokens and lists; amounts to 2 in words of 3 values reach the overflow checks of cash,
managed and their sum. Lists to register include the zero address, a repeated token and the wrong order.
Lists to deregister have no repeated token: `storage_repeated_token` shows what happens with one, and
without that the layouts do implement the ledger.

**Vault.** `vault_books` has one token, so that all money that could be mixed up is money of the same
kind, two Pools, and a supply of 3 that gives one unit each to them and to Internal Balance at once. `vault_swaps` has two hops, so that one
hop's output may be the next one's input; both go through the same Pool, where reads may become stale. `MaxDepth` is 2, which leaves room
for a second frame: that there never is one is due to the lock and not to the bound. `vault_books` sets
both deadlines of the pause to 0.

**Consent** (in `vault_books`). Two signatures and three calls are enough for an approval to be given, revoked and overtaken by
what was signed before, for two signatures with one nonce to compete, and for a deadline to pass in between. One relayer's permission comes and goes.

**Contracts.** *Pause:* windows of 90 and 120 days, a day at a time. *Migration:* up to 3 roles, 2 granters and 2 revokers, and the lists of mainnet; counters of 6 bits,
more than mainnet's lists need, with a batch of 63, the model's `MAX_UINT256`, after which a partial migration wraps. *WeightedPool:* five operations, joined to a Pool at unity of 10 000 so
that roundings of one unit weigh 10^14 times what they weigh in the code; limits (in, out, invariant ratios) that requests reach and exceed; two rates, for yield. *Mathematics:* balances
in and out of balance with amounts below, at and above the limits, fees of 0, 5% and 10%. *ComposableStablePool:* BPT first, in the middle and last, low and
higher amplification, with and without a fee, three operations; after each the functions are compared with the reference on
the balances reached. Operations are of 300 units, comparisons of 50 and 300. Slack and tolerances are in the configuration: a share may lose 3 units of the invariant,
estimates of the reference differ by no more than the rounding of a few units. That small losses do not add up is the
other half of `PoolKeepsItsValue`, without any slack: the product of the balances never falls but for LPs that give up BPT (`TradesKeepProduct`).

**Offchain.** *Tasks:* every task of the repository alone on every network, and seven sites where processes die and runs are forced
(tasks that build on each other, getters and `save`, scripts that pass on `--force` and one that does not). One crash and one forced run
are enough to leave every state a step can be interrupted in, and to run over it again; one site has two crashes. *Ids:* an adaptor, two contracts called through it, a factory and its Pool, two
changes of the chain. *Artifacts:* files of two tasks, with build-infos that define a contract twice or have lost its ABI. *Trimming:* every import graph of four sources with at
most two imports each, circular ones too, with names of their own or with two sources of one name, either of which may be the one that is needed.

**Fairness.** Where a liveness property is checked, and no more:

- `UnpausedForever`: time passes (`WF(Tick)`), which no contract needs to
  provide. At exactly `BufferPeriodEndTime` a paused contract is still paused and can no longer be unpaused; that second
  is part of the model.
- `MigrationEnds`: somebody migrates and finalizes (anybody may), the delay passes, and the new root claims what it was promised
  (`WF` of each). It is said of an old Authorizer that in the end lets the migrator finish.
- `RunningAgainCompletes`: a running process goes on unless it dies, the explorer finds what there is (`WF`), and the operator runs the tasks
  again and again (`SF`: a run can only be started when none is in progress). It is said of behaviours without
  forced runs, on networks for which the scripts and inputs are made.

The other parties are never obliged to act.

## 4. The proofs

TLC checks each property on an instance; the theorems say it for every value of the constants that satisfies the
assumption of the module: any number of tokens, Pools, users, signatures, tasks, any width of words and counters, histories of any length. Where the model has
a bound (`MaxTime`, `MaxExecutions`, `MaxHops`, `MaxBlock`, `maxCrashes`) it is a constant of the theorem as well. No theorem is assumed: each rests
on the assumptions on constants alone, which TLC evaluates on the instances.

| Module | Assumption: what of the code it stands for | Theorems |
|---|---|---|
| TimelockAuthorizer_proofs | `ConstantsAssumption`: special addresses differ, `MIN_DELAY` is positive | `TypeCorrect`, `Invariance`, `DelaysAreHonoured`, `RootIsTraceable`, `ExecutionsSettleOnce`, `TimelockReconfigures`, `NoWayAroundGrantDelays` |
| PoolTokens_proofs | `StorageAssumption`: addresses are numbers and zero is no token, as the contract compares them; `MaxBlock` fits its bits | `StorageTypeCorrect`, `StorageIsConsistent`, `LedgerIsImplemented` |
| Vault_proofs | `PauseAssumption`: the Pause Window ends no later than the Buffer Period (the constructor adds them); `VaultAssumption`: finitely many Pools and accounts, each Pool with an Asset Manager | `TypeCorrect`, `ReadsStayFresh`, `BalancesOfRegisteredTokens`, `PauseDrainsPools`, `NeverPausedAnew`, `BooksInvariance`, `BooksAlwaysBalance`, `AlwaysSolvent`, `PauseOnlyDrains` |
| SignedConsent_proofs | `ConsentAssumption`: calldata names users, and the Vault's entries are not the minter's | `ConsentIsAlwaysGiven` |
| TimelockAuthorizerMigrator_proofs | `MigratorAssumption`: lists are lists, batches fit the counter | `MigrationIsFaithful` |
| PublishedFiles_proofs | `ActionIdsAssumption`: the functions of a contract are listed once each; `ArtifactsAssumption`: build-infos are lists of contracts with their files; `TrimAssumption`: inputs are lists of sources | `IdsInvariant`, `RecordedIdsVouchedFor`, `GrantsReachExpected`, `RecordingAgainHarmless`, `PublishedFilesAgree`, `TrimmedInputExact` |
| WeightedPool_proofs | `PoolAssumption`: the unit is even and positive, ratios and the largest swap fee are parts of it, the minimum BPT are positive, requests are unsigned, initial percentages are within the provider's maxima, rates are not so small that `powDown` takes them for zero; `WeightsAssumption`: `ONE` can be divided among the largest number of tokens, lists have a positive sum | `PoolInvariant`, `PoolNeverDrained`, `PoolFeesChargedOnce`, `PoolLimitsAreAccepted`, `PoolTradesKeepProduct`, `NormalizedWeightsAddUp` |
| Deployments_proofs | `SitesAssumption`: a site is a network of the repository and a list of its tasks | `Invariance`, `UnforcedRunsAlwaysAgree`, `ChecksVouch`, `ForcedRunsAlwaysRepair`, `DeploymentsAlwaysAccountedFor` |

**The timelock.** The inductive invariant `HInv` has what is wanted
(`DelayHonoured`; `RootChainOfCustody`: every root since the first was nominated by a transaction that the root of the time sent, and nobody else gets a change of root or of a delay scheduled)
and what it takes to keep it:

- `PromisesWithinDelays`: no promise exceeds the current delay. Else a call scheduled with that delay would
  break it.
- `PendingChangesKeepPromises`: a pending delay change, from the moment when it can run, still keeps every
  promise made so far. A reduction waits for the difference to the delay of the time when it was *scheduled*, and promises
  made while it was pending are not counted, which is why `floor` rises only while none is pending.
- `RanWhenDue`, `RootChangesWait`, `PendingRootNominated`: the steps of a root's nomination.

Each action is first brought into one of four shapes (`Schedules`, `Runs`, `Cancels`, `LeavesExecutions`),
and the invariant is proved once per shape. The two action properties (`TimelockReconfigures`,
`NoWayAroundGrantDelays`) follow from `TypeOK`, action by action: none but an execution
changes a permission whose granting (revoking) is delayed.

**The storage and its ledger.** Words come first: what is read from a packed word is what was put into it
(`Cash`, `Managed`, `LastChangeBlock` of `ToBalance`), from division with remainder. From there on a word is its three fields. `StorageIInv` joins the types with

- `LayoutInv`: slots that are not in use are clear, the words that two tokens share for managed balances have no block, a pair is in order;
- `ListedOnceAndFitting` and `ManagersOfRegisteredTokens`, which `StorageInv` asks for. Its other part, that a nonzero word means a registered token, follows.

Then each call is told by its *effect*, whatever the layout: it `Adds` or `Removes` tokens, `Moves` balances of registered
ones, or lets a block pass. Both the invariant and the refinement come from the effects: under the mapping of `Ledger`, `Init` is PoolLedger's, and each effect is one of
its actions or a stutter (`LedgerIsImplemented`, for the safety that `ImplementsPoolLedger` consists of). `StorageIsConsistent` and `LedgerIsImplemented` have a hypothesis,
`NoTokenTwice`: no list to deregister names a token twice. Without it they are false, as run `storage_repeated_token` shows; the code leaves it to
the Pools, and those of the repository keep it.

**The Vault's lock.** `VaultInv` joins the types with `OneCall` (the stack never has two frames),
`ReadsHavePool` (a frame that has read balances says of which Pool), `ReadsAreFresh` and
`OnlyRegisteredTokensHaveBalance`. They need each other: writing back is harmless as the values are
fresh and of registered tokens, and values stay fresh as only the one call on the stack writes.
`PausedInv` adds that a call that goes on during a pause is an exit
(the pause cannot begin while a call is in progress, as `setPaused` takes the lock) and that exits have
nonnegative amounts to take. `NeverPausedAnew` needs the order of the two deadlines only.

**The Vault's books.** `BooksInv` adds to `VaultInv`:

- `FramesSettle`: a swap is between two tokens, and a join or exit has booked nothing for the tokens that have not moved yet;
- `Covered`: what nobody claims is short by what is out on loan and by nothing else, without which a flash loan could end below what it began with;
- `AllBalanced`: for each token, what the Vault holds is the Pools' balances, the Internal Balances, what the call in progress still settles, and what nobody claims.

Balances are sums over Pools and accounts (`SumFunction`). How a sum changes with one of its values is proved first, by induction over
the number of indices, as an argument about the least counterexample (`WFMin` of the library, on the numbers). Then each
operation is looked at for one token, from the side of the tokens and from that of the books. `AlwaysSolvent` takes away the call in
progress; `PauseOnlyDrains` needs `PausedInv` too.

**Consent.** The contracts keep approvals and nonces; `EveryCallConsented` knows only the calls that succeeded. `ConsentInv` therefore says that
what is kept is what the history says (`ApprovalsRecorded`: an approval is that of the last call about it; a nonce counts the
signatures used), from which no signature can be used twice: one that was used has a nonce below the next one.

**The migration.** `MigratorInv`: what is granted is a prefix of each list, and a list is begun only when those before it are through (`MigratedInOrder`); what each
stage of the transfer of root says of the stages before (`RootFollowsCompletion`, `HandedOverToRoot`). It holds where the sum of two
counters wraps, and whatever `migrate` is called with. With no revokers the first call completes the migration: `MigratedFaithfully` says what is left then (section 5).

**Action ids.** `IdInv`: what is in the file, or computed and not yet written, are entries that say truly whether the adaptor was asked and list each function once, one entry for a
contract (`FileInv`, `SavingInv`); a check's verdict counts only while every entry matches the chain and the ids are unique (`VerdictInv`). `Those` picks elements in the order
of their ranks among the places; with that, a collision that passes is one that the expected list has, entry by entry. Recording an unchanged contract again
puts the same entry at the same place, so that the verdict does not depend on it.

**Artifacts.** `ArtifactInv`: a file that was extracted stays what the task deploys until its build-info is replaced (`FreshIsExtracted`), half way through the
ABI is there (`HalfExtracted`), and a check's verdict is dropped with the first change (`PassedMatches`). That what is extracted is what is deployed
needs that the name of a contract is that of one source, which `findContractSourceName` asserts.

**Trimming.** First that the recursion ends: with each new source fewer are left, and with each import that is known the list gets shorter (`Left`). A function that
gives the right answer as long as less than m is left to do exists for every m, and so the one that the model defines with CHOOSE satisfies its equation. Then, by the
same measure, what a search finds contains what it began with and the imports of all that is new (closed), and nothing that a closed set with these would
not contain (least). What is closed, here, is told by file names: a lookup gives the first source of a name (`LookupIsFirst`), so that a search finds what imports lead to when each
is taken for the first of its name (`SearchFollows`), whatever namesakes there are. That is the import closure exactly when each source in it is the first of its name (`FollowedIsNeeded`): a later namesake does no harm, and a
needed source behind another is never submitted.

**Deployments.** Of the scripts the proofs use only that a script is in order (`WellScripted`: no two results have the same name, a step passes, reads and saves only what earlier steps
deployed or read) and that no task reads its own outputs (`Reader`). Both are proved of every task in the repository. `DeploymentsInv`, true between any two steps of
any runs, on any network and for any list of tasks, with any number of deaths and forced runs:

- `EnvOK`: what a run holds of the steps behind it is what is recorded of them (in check runs too), and a contract read of another is the one created next to it;
- `CreatedOK`: a contract sent and not yet recorded is the one its step would make *now*, though the files of other tasks may have been written since the run began;
- `UnforcedInv`: as long as no run was forced, what is recorded agrees and has all its arguments, and what `save` recorded is read of what is recorded. Arguments that were there stay, as nothing is replaced;
- `VouchInv`: what a check or a forced run has behind it is recorded, agrees, and is traced;
- `LossInv`, `NeedInv`: how many contracts are lost, or were created more than once, against how many processes died or were forced. A contract in hand is not counted, nor a step that a forced run has still to come to.

Steps that write nothing to the chain's files are one lemma (`QuietStep`); sending, recording and saving are one each.

**WeightedPool.** From the bottom up, each lemma about the code's functions as the model has them:

- *Fixed point.* What `mulDown`, `mulUp`, `divDown`, `divUp` and `complement` round is less than a unit (`Products`, `Quotients`), from `Floor` and its converse. `IntegerRoot` is defined by recursion along a
  decreasing argument: that the function exists, and that a positive number has a positive root, is an argument about a least counterexample (`RootTableExists`, `Root`). So are sums of a list
  (`Total`, a fold): the table of sums exists (`TotalTableExists`) and what is added at the end of a list is added to its sum (`TotalOfAppend`).
- *Outcomes.* Every kind of join and exit, and each direction of a swap, reverts or gives natural numbers (`BptOut`, `TokenIn`, `BptIn`, `TokenOut`, `TokensOut`, `OutGivenIn`, `InGivenOut`), and what goes out leaves something of
  each token: swaps by `_MAX_OUT_RATIO`, exits because `_calculateInvariant` refuses an invariant of zero, and those in Recovery Mode, which calculate none, because
  the zero address holds BPT.
- *The invariant.* `PoolInv`: the types (with percentages that the provider accepts), and the Pool is `Empty` or `Backed`: the minimum BPT are locked, there are tokens of both kinds, and the stored invariant and
  the highest rates are positive. `NeverDrained` alone is not inductive: that there are `MinimumBpt` BPT does not tell that an exit in Recovery Mode leaves any token, that they are locked does.
- *Steps.* Each operation keeps the invariant and, if it changes LPs' BPT or the cache, leaves `Settled`: the stored invariant is the current one and the rates are at their highest, from which
  nothing is due (`NothingDue`); and `PaysItsFees`: the collector's BPT grow by what was due before the step, and by what the step itself owes (`Paid`), which is nothing when nothing is traded (`NothingTraded`). Only leaving Recovery Mode
moves what growth is measured from without paying (`RecoveryIsFree`). Together that is `PoolFeesChargedOnce`.
- *Limits.* What the client computes from the supply before the fees is compared with ratios of a supply that has grown by them: fees can only widen the limit (`JoinLimit`, `ExitLimit`).
  That an exit needs a whole `unit` beyond the limit to be refused is the resolution of the ratio, and exact.
- *Trades.* A swap's amounts, with the fee taken before or added after, are on the right side of the curve: the product of the balances does not fall (`CurveGivenIn`, `CurveGivenOut`),
  whatever the amount and the fee. Joins only add. An exit that burns nothing pays nothing (`ExitOfNothing`).

**Weights.** A list of the largest length gets equal weights; one that adds up to `ONE` is taken as it is; of any other each normalized weight but the last is rounded down, and the last is what is missing: the
list adds up to `ONE` exactly (`Normalized`, with `TotalOfAppend`).

**Only model-checked.**

- Liveness (`UnpausedForever`, `MigrationEnds`, `RunningAgainCompletes`): fairness with `ENABLED` is beyond the prover.
- `WeightedMathFavoursThePool`, `StableMathFavoursThePool`, `StableShareNeverFalls` and the half `ShareValueNeverFalls` of `PoolKeepsItsValue`: they compare rounded results within tolerances that are numbers of the
  configuration, enough for the amounts compared and not for all; and the iterations of Newton's method end for numerical reasons. What holds without tolerance is proved (`PoolTradesKeepProduct`).
- `NoCircularWait`: it speaks of the repository's tasks only, constants of the model, and TLC evaluates it for every network; there is nothing to generalise.
- Violations (section 5), which are counterexamples.

## 5. Where comments and code disagree

Each has a run that TLC ends with a counterexample, and an entry in `PROJECT.json` with the quotation.

| Run | Comment | Code |
|---|---|---|
| timelock_cancel | who may schedule may cancel (`TimelockAuthorizer.sol:558`) | `cancel` asks for the plain id of `grantPermissions`, scheduling for the extended one: a granter can schedule a grant and not cancel it |
| timelock_promise | never possible to execute sooner than the current delay (479) | a reduction waits by the delay of when it was scheduled; an increase in between is undone at once. `DelayHonoured` is what does hold |
| storage_repeated_token | nonzero balances only if both tokens are registered (`TwoTokenPoolsBalance.sol:56`, 109) | deregistering `[A, A]` from a Two Token Pool looks at the words of the pair (A, A), which are zero, and deletes the pair (A, B) with its balances. Only the Pool can do this |
| migrator_completion | the revokers, which are set up last, tell whether the full migration is complete (`TimelockAuthorizerMigrator.sol:146`) | with no revokers, as on mainnet, they are complete from the start: the first `migrate(n)` completes the migration, whatever n. Root is handed over, and the other roles cannot be migrated |
| deployments_check | check-deployments verifies that the recorded addresses correspond exactly to a run of the task (`DEPLOYING.md:115`) | only what `deploy` makes is compared. What a script records with `task.save` is not: a forced run that dies before it leaves the relayer of the old library beside the new library, and every check passes |

Smaller things met while modelling, without a run:

- A root that nominates itself and claims loses its powers: `claimRoot` grants before it revokes (`TimelockAuthorizer.sol:446`).
- `migrate(MAX_UINT256)` after a partial migration wraps (`TimelockAuthorizerMigrator.sol:161`) and migrates nothing of the
  list it is in; any other number goes on. `MigratedFaithfully` and `MigrationEnds` hold all the same.
- `_calcTokenOutGivenExactBptIn`: `WeightedMath.sol:377` rounds the taxable amount after the fee up, where :374 says that fees are rounded up (so that what remains would be rounded down); an
  exit may get one unit more than the exact amount, which `ExitsFavourThePool` allows for. Likewise the joins of `StableMath`, of which a comment says that BPT out are
  rounded down overall (`StableMath.sol:209`), may be off by what a unit of the invariant makes.
- The client's largest decrease of the invariant may be one unit beyond what the Pool accepts, and its virtual supply of a Stable Pool takes all BPT for preminted ones, which a join or exit makes untrue.
- `signatures.ts` takes the nonce 0 for one that is not given, and reads it from the contract.
- The verifier's pause between two attempts is not awaited (`verifier.ts:66`).
- The script of `20220325-ve-delegation` does not pass on the force of its run for the delegation (`index.ts:9`): a forced run replaces the proxy and keeps the
  delegation. `ForcedRunsRepair` leaves that step out.

## 6. What is left out of the modelled parts

- Transactions that revert leave no trace, so neither do they in the models; neither gas nor events are modelled.
- WeightedPool: other numbers of tokens and weights (powers would need the series of `LogExpMath`, numerical analysis rather than states), scaling
  (both tokens have 18 decimals), tokens that hand over control during a join or exit (in Vault), transfers of BPT (one account stands for all holders). Authorised
  calls are made at will, and the pause is any boolean (its deadlines are in TemporarilyPausable).
- ComposableStablePool: the protocol's share of fees, rates, changes of amplification, pause and Recovery Mode; `_AMP_PRECISION` is 1.
- SignedConsent: the Vault's pause, `setAuthorizer`, signatures checked by contracts (EIP-1271), and what authorized calls then do. A relayer
  is permitted for all entry points at once, in the code for each by its selector (`VaultAuthorization.sol:118`).
- TimelockAuthorizerMigrator: the roles of the old Authorizer, which the constructor compares, and the delays of the mainnet input (`executeDelays`, `grantDelays`).
- Deployments: two processes on the same files, the accounts that send, task ids given as a name. Retries of the verifier change no state. Queries of the clients are not modelled.
- SourceTrimming: imports whose path has no slash, or a name with other than letters, digits and underscores, for which `verifier.ts:211` throws; every import has a source in the input.
- The Vault: ETH and WETH wrapping, `queryBatchSwap`, the fee percentages (fees are any small
  amount), tokens that charge for transfers or lie, `authenticateFor` (in SignedConsent) and allowances (taken as given), limits
  and deadlines (they only make calls fail). Pools, borrowers and recipients are external: they answer with any amount
  and may call the Vault. PoolTokens and Vault are two views of the same balances; Vault has no
  specializations and no blocks, PoolTokens no tokens that move. What a layout
  refuses (a third token of a Two Token Pool, say) is a guard in PoolTokens and possible in Vault.
- Arrays of operations (`manageUserBalance`, `managePoolBalance`, `grantPermissions`...) are as many
  calls, since each operation is checked and applied before the next one.
- The index mappings inside EnumerableMap and EnumerableSet: an array stands for both, and that the mapping
  inverts it is a module of the plan.
- `TimelockAuthorizer`: `getActionId` of a target is taken as given; `scheduleDelayChange` is tried for a set of ids.

## 7. The plan

*Proofs first:*

1. A bound on what a share can lose in one operation, in terms of the Pool's size, in place of the number `Slack`.
2. Of ComposableStablePool what does not depend on where Newton's method ends: the virtual supply is that of the holders, through preminted, minted and burned BPT.
3. WeightedPool with more tokens and other weights, from properties of `pow` as assumptions.
4. The modules below that are marked (P), as they are written.

*Then modules*, in this order; those marked (P) are written to be proved about.

5. **DistributionScheduler** (P): the linked list of each gauge and token implements a sorted bag of
   rewards (abstract specification); nothing is paid twice or skipped.
6. **FeeDistributor** with the part of **VotingEscrow** that it reads: the three cursors, the bound of 20
   weeks; conservation: what is claimed was deposited, and claims do not depend on the order of checkpoints.
7. **EnumerableMap / EnumerableSet** with index mappings, below PoolTokens, and **WordCodec**.
8. **GradualValueChange**, **StablePoolAmplification**, **ManagedPool**, rate caches: bounds at every second of overlapping updates
   (hazards at `GradualValueChange.sol:72` and `StablePoolAmplification.sol:142`).
9. **BalancerMinter**'s amounts, **BalancerTokenAdmin**: rewards are minted once, by whichever minter (`BalancerMinter.sol:183`); supply stays on the schedule in every epoch.
10. **MerkleOrchard**: claims merged by word and channel pay each distribution once (`MerkleOrchard.sol:237`).
11. **VotingEscrow**, **GaugeController**, gauges: sums of decaying locks against their definition, over weeks.
12. **LinearPool**, **PrimaryIssuePool**, **SecondaryIssuePool** with **Orderbook**, whose list is reordered while it is matched (`Orderbook.sol:301`).
13. Relayers' chained references, Pool controllers and factories, `BaseCoordinator`; `setAuthorizer` composed with the timelock.
