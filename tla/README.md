# DeltaPrime lending pools and Prime Accounts: a verification project

TLA+ models of the contracts under `src/contracts` and of the programs around
them (the dashboard, the liquidation bots, the deployment scripts), TLC runs
that check them on small instances, and TLAPS proofs of what holds for every
instance. Line numbers refer to the sources as they are in this repository.

## The system

Depositors lend a token to a **pool** and earn interest. **Prime Accounts**
(smart loans, one per wallet) borrow from pools, hold assets and use them in
other protocols. Everything happens in transactions: a transaction runs alone,
and one that reverts leaves no trace. Concurrency is therefore the interleaving
of whole transactions of users, Prime Accounts, the owner and foreign protocols,
at block times that several of them may share. What is hard is arithmetic that
has to agree between two contracts, or between two keys of one mapping, after
any such interleaving.

Around the contracts run programs that are concurrent in the ordinary sense.
The **dashboard** shows a copy of the chain that events patch and timers
replace; **bots** and **monitors** poll the chain, wait for confirmations with a
timeout and die of errors nobody catches; **scripts** deploy the system step by
step and are run again when a step fails. They meet the chain only through
transactions and reads, so each is modelled with what it sees of the chain.

| Component | State | Operations | Interacts with | What makes it correct |
|---|---|---|---|---|
| `Pool` | principals of deposits and loans, totals under its own address, locks, allowances, cap | deposit, withdraw, transfer(From), lock, borrow, repay, owner's settings | two indices, rates calculator, registry, rewarder, token, vPrime controller | solvency, no value made or lost, locks and cap respected, interest never negative |
| `WrappedNativeTokenPool` | as `Pool` | deposit and withdraw native coins | as `Pool` | the same, through a second way in and out |
| `LinearIndex` | index, its time and rate, recorded indices, time of every holder's update | setRate, updateUser, getIndexedValue | owned by a pool | a holder is scaled by an index that was right when it was last updated |
| Rates calculators | spread | two pure functions | called by the pool | deposits never earn more than loans pay |
| Deposit rewarders | stakes, reward per token, period, rewards, funds | stake/unstake (by the pool), claim, notify, addDeposits | pool, reward token | what is deposited and not staked is interest, rewards are covered, never blocks the pool |
| `SmartLoansFactory`, `OwnershipFacet` | two mappings, a list, owner and proposed owner in each account | create, propose, accept, whitelist | pools ask `canBorrow` | one account per wallet, one owner per account |
| `vPrime`, `vPrimeController` | checkpoints of a piecewise linear balance per account | snapshot updates, lookups | notified by pools and sPrime | balance within its cap, history unchanged by later updates |
| `TokenManager` | asset lists, exposure, pending exposure | add, remove, change exposure | asked by every facet | list and map agree, exposure within its limit |
| Prime Account facets | owned assets, staked positions, freeze, reentrancy flag | fund, withdraw, borrow, repay, swap, stake | pools, factory, token manager, exchanges | solvent after every owner's action |
| Liquidation | whitelist of liquidators | liquidate | Prime Account, pools | only insolvent accounts, health improves |
| GMX V2 facets and callbacks | freeze, pending exposure | request a deposit or withdrawal, called back on execution or cancellation | exchange keepers | every request is settled once, the account is not frozen for ever |
| Diamond | selector table, pause, per-account sets | cut, pause, proxy calls | every facet | one facet per selector |
| Enrolment scripts | list of holders, batches | list holders page by page, add their deposits | explorer, rewarder | every stake is the deposit of its account |
| Dashboard | stores, open modal, operations under way, buttons | open, type, submit; events, timers, refreshes | wallet, chain, router | what is shown becomes true, previews are kept, the page settles |
| Liquidation bots | pass, position of the pass, transactions sent | pick accounts, close positions, liquidate | chain, each other | every liquidatable account is reached, nothing is left open |
| Monitors | ages of insolvent accounts; a marker in a file | poll, alarm, report | chain, explorer, health check service | alarms are true, failures are reported once |
| Deployment scripts | records of addresses, stamped commits, contracts | deploy, initialise, register, cut, pause | chain, records | pools wired, records name what is in use, not left paused |
| `sPrime`, `TimeLock`, `PrimeVesting`, `PrimeBridge`, recovery, lists | see `PROJECT.json` | | | not modelled |

`PROJECT.json` lists every component with its status and reason, and under
`hazards` what is hard to test, each at its line.

## Modules

| Module | Models | Extends |
|---|---|---|
| `PoolBase` | addresses, block time, 18-decimal fixed point (scaled) | |
| `LinearIndex` | `LinearIndex.sol` as operators on a record | `PoolBase` |
| `RatesCalculator` | `WavaxVariableUtilisationRatesCalculator.sol` | `PoolBase` |
| `DepositRewarder` | `DepositRewarderAbstract/Native/ERC20.sol` as operators on a record | `PoolBase` |
| `Pool` | `Pool.sol`: the state machine | the three above |
| `PoolWithRewarder` | `Pool` with the rewarder's own entry points | `Pool` |
| `RewarderLaunch` | `getAvalancheDepositors.js`, `initializeDepositRewarder.js`: a rewarder added to a running pool | `PoolWithRewarder` |
| `WrappedNativeTokenPool` | `WrappedNativeTokenPool.sol` | `Pool` |
| `LoanOwnership` | abstract specification: who owns an account | |
| `SmartLoansFactory` | `SmartLoansFactory.sol`, `...RestrictedAccess.sol`, `OwnershipFacet.sol` | |
| `VPrime` | `vPrime.sol`: checkpoints, balance, lookups | |
| `VPrimeController` | `vPrimeController.sol` and the pools' notifications | `VPrime` |
| `TokenManager` | exposure and pending exposure of `TokenManager.sol` | |
| `PrimeAccount` | `AssetsOperationsFacet.sol`, `SolvencyFacetProd.sol`, `SmartLoanLiquidationFacet.sol` | `TokenManager` |
| `GmxV2` | `GmxV2Facet.sol`, `GmxV2CallbacksFacet.sol`: requests and callbacks, the state machine of Prime Accounts | `PrimeAccount` |
| `DeploySteps` | what a migration script may do, as a small language of steps | |
| `ArbitrumScripts`, `AvalancheScripts` | the scripts of `src/deploy`, each a sequence of steps | `DeploySteps` |
| `DeployRules` | how the scripts are written: the rules that make them safe to run again | `DeploySteps` |
| `Deployment` | the machine that runs scripts, is cut off and started again | `DeployRules` |
| `Modals`, `SwapModal` | the modals: previews, validators, inputs, router answers, what they submit | |
| `FundsStore` | the stores, their updates and refreshes; the chain as they see it | `Modals` |
| `TableRows` | the rows that open modals and turn what they submit into requests | `FundsStore`, `SwapModal` |
| `Dashboard` | the state machine: user, wallet, chain, timers | `TableRows` |
| `LiquidationBots` | the three bots and the helpers that close positions | |
| `BotMonitor` | `monitor-and-notify-insolvent-loans.js` beside the bots | `LiquidationBots` |
| `FailedTxMonitor` | `monitor-liquidation-txs.js` | `BotMonitor` |
| `MC...` | small instances for TLC | |
| `SumLemmas` | lemmas on products, quotients and sums | |
| `PoolProofs` (with the rewarder), `VPrimeProofs`, `GmxProofs`, `MonitorProofs`, `DashboardProofs`, `DeploymentProofs` | proofs (those of the factory end its own module) | the module they are about |

**Transactions.** An action is one external call with all the calls it makes.
`require`, custom reverts and checked subtractions are guards. `TypeOK` states
that no value is negative, and `token`, `deposited`, `borrowed` and the
rewarder are computed with plain integers, so a subtraction whose guard the
code lacked would show.

**Pool.** `deposited` and `borrowed` are `_deposited` and `borrowed` of the
contract, keyed by accounts and by `PoolAddr` (`address(this)`) for the totals.
`depositIndex` and `borrowIndex` are the two `LinearIndex` contracts.
`Accumulated`/`Touched` are `_accumulateDepositInterest` and
`_accumulateBorrowingInterest`, `UpdateRates` is `_updateRates`, `TakeDeposit`
and `PayOut` what the token and the native entry points share, and
`MoveDeposit` what `transfer` and `transferFrom` share. `hasCalculator = FALSE`
is the frozen pool. `Tick` advances `block.timestamp`; any number of
transactions share a block.

**Rewarder.** `rewarder` is the storage of the contract plus `funds`, the reward
tokens it holds. The pool's actions call `StakeFor` and `WithdrawFor`.
`PoolWithRewarder` adds claims, notifications, the duration and `addDeposits`.

**A rewarder for a running pool.** `script` is the state of the two scripts that
bring the stakes of a new rewarder up to the deposits: `StartListing`, `FetchPage` and
`FetchFails` read the holders from an explorer, sorted in some order, a page at a
time; `ProcessBatch` and `BatchFails` enrol them. Users deposit, withdraw and transfer
between any two of these steps. What the scripts do not survive is kept in
`smooth`: a list read before the pool calls the rewarder, a holder that leaves while
pages are being read (the pages behind it shift), a page whose failure looks like the
last page, a batch that fails and is skipped, and a transfer while the scripts run
(from an account not yet enrolled to an enrolled one the stake does not follow). No
rewards are announced until the scripts are done, so that stakes earn nothing meanwhile.

**Factory.** `ownersToLoans`, `loansToOwners` and `loans` are the factory's,
`contractOwner` and `proposedOwner` the storage of every account. Proposal and
acceptance are separate transactions.

**Voting power.** `checkpoints` and `needsUpdate` are the contract's; the key
`Total` is `address(this)`, whose checkpoints are the total supply. `holds` is
what the controller would compute of a user's deposits, loans and sPrime, in
dollars; it changes with a notification (`NotifyWithPrices` when the transaction
carries oracle prices, `NotifyWithoutPrices` when not) or without one when
prices move and locks expire (`Revalue`). `Written` leaves the list alone when
the last checkpoint is of the same second, because `_writeCheckpoint` assigns to
a copy in memory. Years and days are scaled to ticks.

**Prime Accounts.** `account[a]` is the diamond storage of an account with its token
balances and debts. `WithReceived` and `WithSpent` are `_increaseExposure` and
`_decreaseExposure` on the list of owned assets, `Increased` and `Decreased` on the
token manager's sums. `Healthy` is a health ratio of at least one, computed over the
listed assets only. `Liquidate` is `liquidate` from its checks to its last transfer; its three
transfers of a third are rounded as in the code, with shares in thousandths. Left out of it are a
debt named twice, the native coin, and the staked form in which GLP is transferred. A debt is swapped
through the account's exchange (`SwapDebt`) or through ParaSwap (`SwapDebtParaSwap`), which may bring
less than is to be repaid: the account's own tokens make up for it. `Tick` lets debts
grow and chooses new prices. What the pools, the exchange and wallets hold is
outside; pools are those of `Pool`, reduced to what an account sees of them.

**GMX V2.** A request is one transaction (`Deposit`, `Withdrawal`): checks, the tokens
leave, the account freezes, the minimum becomes pending. Settling it is another one,
by the exchange: tokens come in, then the callback runs. When the callback reverts (the
exposure limit, or an account a liquidator has unfrozen) the exchange goes on, so
`CallbackFailed` leaves tokens that are not listed, exposure that is not counted and
a pending amount that stays. The ghost variable `alarms` records these accounts; what
holds for them is stated separately.

**Deployment.** A plan is a list of scripts and what is deployed before. `Step` does
the next step of the running script, `CutOff` stops it after any of them (a dropped
connection, a refused verification), also between the transaction by which a factory makes a
pool and the file in which the script keeps its address (`Make`). Some scripts await the
submission of a transaction and not its mining (`arbitrum/23:144-151`, `arbitrum/12:89`,
`avalanche/12:60-62`). Transactions of one sender are mined in the order of their nonces, so a late one delays
those behind it and overtakes nothing: it takes effect in its step. One that is dropped, or reverts
when it is mined, is left out. `RunAgain` and `RunOnNewCommit` start it from its
first step. `deploy` does nothing when the recorded contract has the same bytecode and
arguments, as hardhat-deploy does; the bytecode contains the stamp that
`embedCommitHash` writes into a source, so another commit means another contract, even
where the source is the same, and stamping `Pool` alters its dependents. Steps that work
once (initialisers, registrations, cuts that add or remove functions) throw the second
time. A cut behind one of these leaves a script that can never be run again:
script 8 of Arbitrum initialises without deploying, 14 registers before it goes on, 23 pauses
first, 12 of Avalanche removes functions and adds them. Scripts 13 and 14 of Arbitrum
both register USDT, so they are parts of different plans. Script 6 of Avalanche reads a
record (`AddressProviderTUP`) that no script of the network makes; `Provided` excuses it.
What makes a plan safe to cut off and run again is stated about its text, in `DeployRules`:
a script that stops the diamond reopens it later; ownership and indices are set by
initialisers only, and a pool is initialised after both indices were entrusted to it with no
redeployment between; a script that has a factory make a pool files it in the next step and deploys the
proxy after it; one that
deploys a registered pool anew registers it afterwards. `PlansAssumption` asks these of every
plan, and TLC finds them true of all the scripts of both networks in the run `deployment`.
Addresses of the production chain written into scripts 11 and 26 stand for the recorded
diamond; `avalanche/20_paraswap` only verifies such an address and has no definition. Blocks that
are commented out are left out. `38_timelock` says "15 minutes" of a delay of a day.

**Dashboard.** A modal is a record of what it was opened with, what is typed, whether its
validators object and what it previews. `ops` are the operations submitted, each with
its status from `asked` to `done` (listed at the head of `Dashboard`). Pools are read in one step and
committed in another (`ReadPools`, `CommitPools`), and transactions may be mined between; only the read
after a repayment follows at once. Amounts are 1 and 2,
prices constant, interest and other users left out, so that the accounting can
be compared exactly. The farm is one of Vector Finance; what is staked in those of
Yield Yak comes from a subgraph (`stakeStore.js:199-202`), which is not modelled. A refresh is assumed to end
within the delay after which the next one starts. Merged: the two balance reads of one refresh and the
repeated status read after five seconds; the quote that removing liquidity awaits is part of submitting. Known and left
out of the properties by an explicit condition, each worth a look by the
authors: MAX for a repayment or an unstaking shows zero even when something remains; a deposit
or withdrawal of a pool beyond what there is shows more than was moved until
the pools are read again half a minute later; a signature by the wrong wallet shows a deposit
that was never made; a refresh event unlocks the buttons while another
transaction is still mined, and sending one closes whichever modal is open. The inputs of the modal
that swaps (`SwapInputs`) are its two amounts, its two assets, the button that reverses them and the slippage.
Its button does not wait for the router (`checkingPrices`), and an answer is applied
whichever question it belongs to: it sets amount, minimum and path, and may be
negative when the amount is typed away. A swap is previewed when such an answer arrives; `since` says what was changed after
the last one. A slippage typed later (`SwapModal.vue:382`) changes the minimum that is submitted and the
balance shown, but not the health beside it, so the swap may do worse than shown; and the path of an
answer about other assets is submitted all the same (218, 252), so that other assets are swapped than those
shown. TLC reaches both; `PreviewKept` excepts them. A modal computes its
preview when something is typed or answered, from the balances in its hands, and these are the
store's own objects: another transaction's update changes them in place and nothing computes
the preview again (`weighed` keeps the balances the preview was made of). It takes three
overlapping operations to submit such a preview, one more than the run has, since opening a
modal takes buttons that a refresh has given back; the attempt to prove `PreviewKept` showed it. The row that opens the modal to borrow throws, because `pools` is an array, so
nothing submitted there is heard. The validator "exceeds debt" of the modal that repays is
commented out; `setupValidators` of the modal that wraps is never called, nor is
`scheduleHardRefresh` of the rows.

**Bots.** An account has a class (how its value, its debt and its health ratio compare) and
the positions it holds. A pass of a bot reads all accounts, then for each low one closes
positions in the order of its helpers, one confirmation at a time, and liquidates.
`HelperTimesOut` gives up waiting for a transaction that may be mined later (`late`),
`CallFails` is a read that throws. The flash loan bot is called from outside, since its own
monitor only logs; the others loop. What the code does and a reader may not expect: the ltv
loop and the monitor subtract the Vector position in the wrong unit and list
accounts worth no more than their debts, which the ltv bot then leaves alone as bankrupt unless
they are exactly even; the wallet's bot looks for GLP before it empties the vault that holds GLP; one
failed liquidation ends the loop of the wallet's bot for good. No bot closes a staked
position: `unstakeStakedPositions` hands texts it has decoded to a constructor
that takes them in another order (`utlis.js:208`, `_helpers.ts:1621`), decodes one of them again, throws at the first
position (213) and catches that (220), so the bot goes on with all of them open; what must be
closed therefore excepts them (`Staked`): `NothingLeftOpen` is false without the exception. The
wallet's bot approves tokens of a bankrupt account too before it leaves it alone (stage `leaving`). Amounts and the owner's
own staking are left out.

**Monitors.** `insolventLoans` are the ages the first monitor keeps; `seen` is what they should be.
Entries are deleted inside the loop over the accounts that are insolvent
now, so an empty list deletes nothing and an entry may be too old later (`kept`). An account that cannot
be read, or a post that is refused, ends its process (`MonitorEnds`), and somebody starts it again with
empty records (`MonitorRestarted`): ages count from the start of the process. The second monitor
keeps the block of the last failed transaction in a file: `Look` writes it before `Posted`
sends the report, nobody waits for the post, and a page may end inside a block. `missed` are the
failures lost in one of these ways. The block of successes is not kept, so a page full of
them holds the monitor up; no property is about that.

**Abstractions.** Integers are unbounded. `PerMille` stands for 1e15 and
`RateToRay` for 1e9, so that the literals of the calculators keep their
proportions. TLC uses small values (a WAD of 1000), for which rounding is
coarser than in the contracts; the proofs hold for every value. The token is a plain one: no fee, no
callback. In `Pool` the vPrime controller is configured as absent (`tokenManager` unset,
`Pool.sol:118-123`), a configuration the code supports; `VPrimeController` has it
present and takes the pool's balances as given.
`setVestingDistributor` is left out: the pool never reads what it sets.
Initialisation happens at time 1, in one step with the first rates.

## Runs

| Run | Question | Bounds |
|---|---|---|
| `pool_value` | types, interest never negative, solvency, sums, index history under the owner's changes, value preserved; both pairs of entry points of the wrapped pool | 2 depositors, 1 borrower, 3 block times, frozen or not, any registry |
| `pool_locks` | what is locked stays, deposits only move, debts follow tokens; allowances and a spread | 2 depositors, 1 borrower, up to 2 locks each, 2 block times |
| `rewards` | stakes against deposits that earn interest, reward arithmetic and funds; the enrolment of a running pool | 2 depositors, pages and batches of 1; 3 block times with rewards over periods of 1 and 2, one reward that may be sent twice; or 2 with a borrower and the scripts; or 1 with a cap that is set and lifted |
| `factory` | registry, list, implements `LoanOwnership` | 3 wallets, 3 accounts, restricted variant |
| `vprime` | drift to the limit, snapshots, binary search, past votes | 1 user, 2 portfolios, 6 block times, up to 6 checkpoints |
| `accounts` | solvency between ticks, owned assets, fair liquidation, thawing | 1 account, 3 assets, 2 pools, 2 price vectors, 3 block times, 1 request |
| `exchange` | freeze, pending and protocol exposure | 2 accounts, 3 assets, 2 block times, 3 requests, no debts |
| `deployment` | wiring, records, pause, completion of migrations | every script of both networks, cut off at most twice per migration |
| `dashboard` | stores against chain, previews, settling | 7 users, 2 operations each, amounts 1 and 2 |
| `bots` | positions closed, accounts attended, alarms and reports | 2 accounts, 7 teams, 2 (once 5) price moves, 5 transactions in pages of 2 |
| `wrapped_pool_locks` | violation, see below | |
| `vprime_total` | violation, see below | |

*Why the bounds suffice.* Interest appears after one tick, meets a rate change
in the second, and an account left behind for two ticks is brought up to date
with a recorded index in the third. Loans of 23 of 25 or 50 put utilisation
(92% or 46%) in the steepest and in the flattest piece of the rate; repaying
and borrowing again crosses break points. A year is one tick, so rates up to
310% per tick make rounding and interest visible on balances of a few units. A second
depositor is needed for a transfer and for sums, a third adds no new relation. In `rewards` the
constraint `OneAtATime` keeps rewards, loans and the cap apart, because stakes know nothing of interest and
rewards nothing of what is not staked; each meets all that moves deposits.
Two locks overlap or expire apart. Three wallets let a proposal compete with
a creation and with another proposal. Six checkpoints take the search through its
shortcut for lists of more than five; one user suffices where no property relates
users. In `accounts` a debt of 20 grows to 28, just above what 60 tokens cover, and a
price four times as high makes an account with a swapped debt bankrupt, so ordinary
liquidations, at either bonus, and healing all occur; the amounts are chosen so
that a callback at its minimum fits where one above it, or a third request, breaches
the limit of 41 in `exchange`. Pages and batches of one account are the smallest for
which a page shifts and a batch can fail behind another. Two operations of the dashboard are
enough for one's update to meet the other's refresh; the user who swaps changes
the inputs three times, so that an answer of the router can be overtaken twice. A migration
cut off twice shows what a second run, on the same commit or a later one, makes of the
remains of the first. Two accounts suffice for a pass in which the first one fails and the
second one waits, a page of two of five transactions for one that ends inside a block.

`CHECK_DEADLOCK FALSE` is set where the system really stops: in the runs of pools, votes and
accounts the block time is bounded and at the bound nothing may be left to do, a migration
ends, and a user of the dashboard may have done all he wanted. The factory and the bots
never stop.

Symmetry is used only in `rewards` and `exchange`, over depositors and accounts that their
constants treat alike, and never with a liveness property.

*Violations.* Each checks one statement of the repository that the code does not
meet:

- `wrapped_pool_locks`: `withdrawNativeToken` does not consult locks.
- `vprime_total`: the second change of the total supply in one second is lost, so
  the recorded total is not the sum of the recorded balances. For the same reason
  a pair locked in the second of another update is not vested at once.

What does not match and has no run: a transfer to an address excluded from the rewarder
leaves the sender's stake in place (`Pool.sol`, "Handle rewards"), while rewards are said to be
proportional to the stake in the pool; `liquidation-bot.js:86` speaks of unstaking everything before a
liquidation and `utlis.js:213` passes over USDC only, while staked positions are never closed;
`SwapModal.vue:63` announces "Values after transaction", which a later slippage and a late answer belie (see
above); the README of the repository (44-45) excludes that deposits
exceed loans plus balance, which rounding can cause and a test (`pool-health.test.ts:441-442`) tolerates; `LinearIndex.sol:80-81` says ray
operations round up, the library floors; `SmartLoansFactory.sol:20` says
the factory owns a new account until it is funded, the code sets the
creator as owner at once.

## Properties

- *Interest* (`InterestNeverNegative`, `IndexHistory`): the interest of
  `Pool.sol:675` is a checked subtraction; if it could be negative, every later
  transaction of the account would revert. It rests on the history of the index:
  the recorded entry is set, not above the current index, equal to it when made in
  this block, and equal to what `updateIndex` is about to record.
- *Value* (`EquityPreserved`, `DebtsFollowTokens`, `DepositsOnlyMove`): within a
  block, cash + loans − deposits is constant; debts move only with tokens, and
  a deposit falls only by what somebody else gets.
- *Rounding* (`SolventUpToRounding`, `TotalsAgree`): totals and sums differ by
  rounding, at most one unit per account and tick; assets cover deposits but for
  two units per tick. These are bounds over the checked instances.
- *Locks* (`LockedIsCovered`).
- *Rewards* (`UnstakedIsInterest`, `NeverOverstaked`, `StakesAddUp`, `RewarderNeverBlocks`,
  `RewardsCovered`): nobody is staked for more than its deposit. The two are not equal: interest is
  credited to a deposit (`Pool.sol:568-570`) and not to its stake
  (`DepositRewarderAbstract.sol:151-159`). Of a rewarder that was there from the beginning, or whose
  scripts ran smoothly, what is deposited and not staked is at most the interest earned.
- *Votes* (`CheckpointsSorted`, `LookupFinds`, `PastVotesFixed`, `DriftsToLimit`,
  `SnapshotKeepsBalance`): `PastVotesFixed` is the promise a governor relies on;
  `SnapshotKeepsBalance` lists the ways in which an update may change a balance in
  one second, the mark of `setUserNeedsUpdate` (which falls back to the last
  recorded votes) among them.
- *Ownership* (`RegistryAgrees`, `LoansListed`, `ImplementsOwnership`).

- *Accounts* (`StaysSolvent`, `HeldIsCounted`, `LiquidationIsFair`): an account is
  surely healthy when it would be healthy whichever way its open request is
  settled, at the minimum or cancelled; no transaction of anybody takes that away, only
  time and prices do. A liquidation costs an account at most the bonus on the debt that is
  repaid (`LiquidationIsFair`). Both of its exceptions are real: tokens of a failed
  callback repay debts without being counted, and an asset that a liquidator supplies
  beyond its debt to an account that did not have it is missing from the prices
  cached at the start of `liquidate`, so that the share paid out is too large.
- *Exposure* (`PendingIsRequested`, `ExposureIsHeld`, `FrozenWhileRequested`): three
  records in two contracts agree over the transactions of several accounts.
- *Liveness* (`FrozenThaws`): a frozen account thaws unless its callback fails.

- *Deployment* (`PoolsWired`, `RecordsAgree`, `NotLeftPaused`, `MigrationCompletes`): pools and
  indices refer to one another; between scripts the records name what is in use and the diamond
  runs (where a script was cut off or threw neither need hold, and what becomes of these states is what
  `MigrationCompletes` is about); a migration completes unless a cut fell behind a step that works once.
- *Dashboard* (`QuietMeansTrue`, `UpdatesFollowChain`, `PreviewKept`, `Settles`): an update
  does to the stores what the transaction did to the chain when they agreed before;
  when nothing is under way everything shown is true; the health a modal previewed is the
  health that results, and at least that after a swap, if the preview was made of the balances
  that the operation meets and no less than what was typed is repaid; of a swap, if it is one between
  the assets shown and nothing was changed after the last answer of the router, whichever question that was to.
- *Bots and monitors* (`NothingLeftOpen`, `InsolventIsAttended`, `AlarmsAreTrue`): a liquidation is
  sent only when no vault, LP token or GLP that its bot knows of is left open, unless a helper failed; an account that
  stays liquidatable is attended to unless the loop has died; an alarm or a report is about
  something that happened and comes once.

*Fairness.* `FrozenThaws` assumes that the exchange settles every request
(`WF_vars(key \in open /\ ExchangeStep(key))`): keepers are paid by the execution fee
for executing or cancelling it, and either is always possible. Nothing else is assumed to
happen: not time, nor an owner's or a liquidator's step. After a failed callback nobody
owes the account anything (`unfreezeAccount` is a liquidator's choice), so the property
ends there.

`MigrationCompletes` assumes that a script that can go on does, and that somebody runs a
script again that was cut off or threw; cuts are bounded. `Settles` assumes that a
wallet answers, a transaction is mined, a call returns and a timer fires
(`WF` for each operation): the user owes nothing. `InsolventIsAttended` assumes that the process
of a bot takes its steps: a call returns or fails and a confirmation comes or times out; no price ever has
to move, and nobody has to call the flash loan bot.

## Proofs

The theorems hold for every value of the constants that the modules' assumptions allow:
any accounts, amounts, prices, scales, time bounds. The assumptions say that sets of
addresses are disjoint and, where something is summed over them, finite; that scales are
positive, spreads below 100% and coverage ratios below one; and, for the bots and the
dashboard, that an initial state is one the program can start in (`ScenarioAssumption`:
teams and positions exist; an account that does not exist holds nothing); and of migrations
that their scripts follow the rules of `DeployRules`. TLC evaluates all of them in the runs.

**Sums and induction.** Totals are folds, and the library's induction theorems cannot be
instantiated here. `SumLemmas` does the induction with a smallest counterexample: a
collection of finite sets has a minimal member, so a fact that held for every proper
subset of it but not for itself is contradicted. From this follow the type of a sum, that equal terms
give equal sums, that an element can be taken out, and what one changed term, or growing terms, do.
The same trick proves the binary search right (a smallest window for which it failed).

**Pool** (`PoolProofs`). `Spec => []IInv` for

    IInv == TypeOK /\ IndexHistory /\ RewardsNeverNegative(rewarder, now)

and from it `TypeCorrect`, `IndexHistoryHolds` and `InterestHolds`. `TypeOK` alone is not
inductive: that a principal stays a natural number needs the recorded index to be positive
and not above the current one, that is `IndexHistory`; and the rewards stay natural only if
`updatedAt` is not past the end of the period and no account has been paid beyond the present
reward per token. The argument for a step: `SetRate` and `UpdateUser` preserve the history
of an index (`SetRateOK`, `UpdateUserOK`), time only raises the index (`TimePasses`), and a
principal over a sound history does not shrink (`IndexedValueBounds`).

From the same invariant, a pool neither creates nor destroys value within a block
(`EquityHolds`, `DepositsMove`, `DebtsFollow`). No rounding appears in these, and the reason is one
lemma per write to an index (`UpdateUserValues`, `SetRateValues`): in the block of the
write no principal is worth another amount afterwards, because a sound history already holds
the value that is written wherever an entry is overwritten. Each entry point then adds
its amount to some values and leaves all others (`DepositSide`, `LoanSide`, `MoveMoves`),
which makes every step one of the seven kinds of `ValueStep`; the theorems are arithmetic on those.
`NativeEquityHolds` and `NativeSound` say the same of the pool of the wrapped native token with its
two further entry points.

`LocksHold`: what is locked stays covered. Taking from a deposit is guarded by the balance less the locks,
interest only adds, and of the unexpired locks time only takes some away, which is a fact
about sums over a list whose selected part shrinks. The wrapped pool does not have this theorem: its run shows the
violation.

**Rewarder** (also in `PoolProofs`), beside any pool and with the enrolment scripts.
`NeverBlocks` extends the pool's invariant to the rewarder's own entry points: a call on
the rewarder leaves the pool's part alone (`OnlyTheRewarder`), and any record whose
`updatedAt` is the present, capped by the end of the period, has no negative difference
(`UpdatedIsSound`). `TotalIsTheStakes`: `totalSupply` is the sum of the stakes, the two written
in different functions. `ClaimsCovered`: what all accounts have earned, rounded down one
by one, and what the period will still pay are together in the rewarder. It has the hypothesis that no
notification announces more than is sent with it, which is how the native rewarder is
written (`msg.value`) and how the checked instance notifies; the one for tokens compares
with its whole balance and relies on the notifier. `StakesWithinDeposits`: nobody is
staked for more than its deposit, in any order of users' transactions with pages and
batches. A batch sets a stake to the deposit of that moment; from then on, and for all who deposit
after the pool knows its rewarder, stake and deposit move together but for interest, and the invariant
`Enrolment` says from which phase of the scripts on this is so. It has the hypothesis `Excluded = {}`, because a transfer to an excluded address leaves the sender's
stake in place (see above).

**Voting power** (`VPrimeProofs`). The invariant adds to the types and the order of the
lists that every checkpoint's rate is the one its own balance and limit call for
(`RatesAimAtLimits`). `SnapshotKeepsBalance` needs it where the code drops the second
checkpoint of a second: the list then ends in an older checkpoint, whose limit cuts the
balance only by the rest of a division. It also needs that what is vested from the start is
never above the limit (`VestedWithinLimit`). `LookupsFind`: the search, with its shortcut near the end of
lists longer than five, returns the last checkpoint not later than the second asked for, in lists of any length.
`PastIsSettled`: lists only grow, by checkpoints of the present second, so the one that is found for a second
that is over is always the same.

**Prime Accounts** (`GmxProofs`). The inductive invariant is

    IInv == TypeOK /\ RequestsMatch /\ OneWhileFrozen /\ PendingTotals
            /\ PendingOfAccounts /\ AllListed /\ ExposureFollows

An account is frozen while exactly one open request is its own; what is pending, per
account and per group, is what the open requests wait for (a callback that resets it to zero instead of
subtracting is right only because there is one request per account); what an account holds
is listed unless a callback failed; the exposure of a group is the sum of what accounts count.
`FrozenHolds`, `PendingHolds`, `ExposureHolds` and `HeldHolds` are its readings.
`SolventStays` is about steps. The weighted value, every product rounded down, is superadditive:
what a settled request brings in weighs at least the minimum that the check before it weighed. `Sure` states
surely healthy in the form `HealthyAt` that each transaction's own solvency check gives. `LiquidationFair` balances
a liquidation in dollars: what settles the debts is what leaves the account and the
liquidator, and what is paid out is at most that share of the account which the liquidator is
owed, since every division of the code rounds it down.

**Monitors and bots** (`MonitorProofs`). `AlarmsHold`: the part about insolvent accounts needs
that entries not in `kept` are as old as what was seen; the part about failed
transactions that the list is sorted by block, that what is left of the page lies between
marker and cut, and that whatever lies up to the marker has been reported, is about to be,
or is missed. `BotsClose`: the invariant says of a pass what its helpers have looked for
so far (`Looked`) and that none of it has come back (`NothingBehind`), which holds because a
position that another one turns into is looked for later; transactions that come late only close.

**Factory** (`SmartLoansFactory`). The inductive invariant of the registry, its parts as
theorems, and that every step of `SmartLoansFactory` is a step of `LoanOwnership` or a stutter
(`Refinement`). Type correctness (`TypeCorrect`) is proved and not run.

**Deployment** (`DeploymentProofs`). For any number of scripts, contracts and cuts, of migrations that
follow the rules. The inductive invariant (`Mended`) says of each thing that a script may have left half
done which step still to come mends it:

    IInv == Shape /\ Named /\ Reopening /\ Entrusted /\ WiredPools
            /\ Proxies /\ Implemented /\ Registrations

`Shape` includes `Handed`: what a script files next is the contract made last, which no record names and
nothing refers to yet, wherever the script was cut off between the two. A stopped diamond is unpaused by a later step of the running script (`Reopening`); a pool whose
factory made another implementation is deployed anew later (`Implemented`); a registered pool that was
replaced is registered again later (`Registrations`). Run again from its first step, a script has all of
these ahead of it again; at its end none is left, which is where `PauseEnds` and `RecordsHold` come from.
`WiredHolds` needs more history: that an index belongs to its pool holds from the step that says so, over
later scripts too, until one of the two is deployed anew (`Entrusted`), and an initialised pool keeps what it
was given, because an initialiser that has run throws (`WiredPools`). A step does one of six things
(`StepIs`), and whatever it does it leaves names, constructor arguments and wired fields of existing
contracts alone (`StepGrows`). That the migration completes is liveness and stays with TLC.

**Dashboard** (`DashboardProofs`). `QuietHolds`: for any account, amounts, coverage and any
number of overlapping operations, what is shown when nothing is under way is true. The invariant says of
each part of the stores that it is true or that an operation of the account has been mined and has yet
to commit that part (`Shown`); and of what a refresh has read and not committed that it is
true or that a transaction was mined since whose own refresh waits for this one (`HeldIsTrue`). The second
half is where the timers matter: it uses that a refresh ends within the delay after which the
next one starts. `AnswerIsTrue` says the same of what the pools answered and nobody has committed. What updates from events write does not occur in the argument at all, so the
theorem holds for wrong ones too. That the first refresh may announce an account is the
invariant `LoanIsKnown`.

That the updates are right is `UpdatesFollowChainHolds`, and that previews come true
`PreviewKeptHolds`. Both rest on a second inductive part,

    Accounted == StoreOK(st) /\ ChainOK(ch) /\ ModalOK(modal) /\ OpsOK

`ModalOK` says of a modal that its health is what the value typed makes of the balances it was
computed from (`HealthCurrent`); of the modal that swaps, as long as nothing was typed, chosen or reversed since the
last answer, which may come late, out of order and about other assets than the modal shows;
`OpOK` says that an operation's request does what its modal previewed, and its event what the
request asked for; `ChainOK` that nobody owes less than nothing, without which the swap of a
debt or a repayment of more than the debt would come out differently on the two sides.
For each kind of operation a lemma compares the arithmetic of the store with that of the
chain (`FundFollows` to `PoolFollows`, together `UpdateFollows`), and a step that confirms
one operation is no other step (`OnlyConfirm`). For previews, what the modal foresaw is compared with what happened
(`ForeseenHappens`): the same, but that a swap may bring more than its minimum,
and the health function grows with what is held (`HealthGrows`, from a lemma on fractions), so the
result is no worse.

**Only model-checked.**

- `SolventUpToRounding`, `TotalsAgree`: their bounds (so many units per tick) are of the checked
  instances. Growing indices multiply earlier rounding, so no such bound holds for all constants.
- `UnstakedIsInterest`: it needs that the scripts ran smoothly and were complete, and a sum of roundings;
  the half of it that must hold whatever happens is `NeverOverstaked`.
- `FrozenThaws`, `InsolventIsAttended`, `Settles`, `MigrationCompletes`: liveness is outside the prover's reach.

## Plan

1. Done: pool, index, rates, rewarder with its enrolment, wrapped pool, factory and
   ownership, vPrime and its controller, Prime Accounts with solvency, liquidation,
   exposure and GMX V2, the deployment scripts, the dashboard, the bots and monitors.
2. Done: proofs of all action properties and of all invariants that the runs check but the
   two of rounding and `UnstakedIsInterest`.
3. Staked positions of an account, and with them `Recovery`; the native coin of an account.
4. `TokenManager`'s asset lists, the vPrime controller together with the pool.

## Not modelled

- `sPrime`: nearly all of it is arithmetic of an exchange position outside this repository.
- Exchange and yield integrations: every facet forwards a call to a foreign protocol.
- `RecoveryFacet`: needs the staked positions of an account. `_withdraw` reads
  `positions[i]` again after it has been removed by swap and pop, which is another position by then,
  or none.
- `VestingDistributor`: retired; `Pool.sol:47` keeps its field "to preserve the storage layout".
- `TimeLock` (Compound's, unchanged), `PrimeVesting`, `PrimeBridge`, `PoolRewarder`, the lists:
  small contracts that nothing else here depends on.
- Health meter, loupe and other views; APR, prices, charts and layout of the dashboard.
- Code generators, analyses and one-off scripts under `tools/scripts` and `lambda`: they keep no
  state that another part reads.
- Deployment constants, proxies, mocks, interfaces and third-party libraries.
