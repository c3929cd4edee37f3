# Infolast: a verification project

This directory holds TLA+ modules, TLC configurations and TLAPS proofs about
Infolast, a token launch on Ethereum Sepolia: a token sale, an airdrop and a
vesting schedule on chain (`smart/`), a TypeScript backend that mirrors the
chain into PostgreSQL, runs the airdrop's task and verification pipeline and
publishes Merkle roots (`f/`), and a Next.js front end (`front/`).

Paths below are relative to the repository. `tlc -config X.cfg M` runs a
configuration, `tlapm M.tla` checks the proofs of a module.

## 1. The system and its parts

| Part | State | Operations | What makes it hard |
|---|---|---|---|
| Event sync engine (`f/src/core/blockchain`) | checkpoint and gap record in `SyncState`; per-process in-flight set; a run's cursor | `runEventSync`, range clamping, splitting, retry | overlapping runs, crashes between store and checkpoint, provider plan limits, a chain that grows during a run |
| Purchase mirror (`f/src/modules/purchase`) | `Purchase`, `User` rows | event processing, front-end report, price backfill | find-then-write races, prices that come late, poison events |
| Vesting mirror (`f/src/modules/vesting`) | `VestingSchedule`, `VestingClaimEvent` rows | allocation and claim events, front-end claim report | replays after a failed batch, reports that overtake the indexer, sums recomputed from rows |
| Vesting, Sale, Airdrop contracts (`smart/contracts`) | allocations, claims, caps, windows, roles | deposit, allocate, claim, buy, finalize, ... | solvency across contracts, caps at their boundary, windows |
| Timelock, Token, PriceOracle contracts | roles, balances, prices | grant/revoke, schedule/execute, transfer, quote | last-role lockout, wallet cap, stale prices, rounding |
| Merkle rebuild (`f/src/modules/airdrop`) | participants' points and dirty flags, Merkle roots, proofs, jobs | recalculation, snapshot, root switch, push on chain | points that change during a recalculation, concurrent rebuilds, a failed push |
| Airdrop claim (`f/src/modules/airdrop`) | `DistributionClaim` | record claim, sync claim transaction | check-then-create race, crash while waiting for a receipt |
| Verification (`f/src/modules/verification`) | verification records, caches | verify, reverify, sweep, eligibility | state read before an await, stale caches |
| Account linking (`verification`, `core/telegram`, `TelegramLinking.tsx`) | link tokens, linked accounts; a page's timers | generate, consume, link, unlink, poll | one-time tokens, timers that outlive their link |
| Tasks and admin (`f/src/modules/tasks`, `admin`) | user tasks, points | submit, approve, reject, distribute, edit, delete | double reward, crash between approval and reward |
| HTTP middleware (`f/src/core/middleware`, `auth`) | rate-limit records, idempotency keys | authenticate, require a role, limit, deduplicate | one store for all limiters, look-up and mark in two awaits |
| Pages (`front/src/pages`) | component state of a browser tab | connect, claim, buy, submit, administer, report | async handlers that outlive a wallet switch, retries, late answers |
| Cron, queues, locks (`f/src/core`) | timers, queues, Redis locks | hourly rebuild, five-minute syncs | overlapping ticks |
| Users, risk, fraud | users, scores, risk profiles | fraud scan, scoring, status | scans that nobody waits for, each query of another moment |

How they interact:

- The **Sale** and the **Airdrop** contracts hold no schedule of their own:
  both call `Vesting.allocate`, each after reading what Vesting has left.
- The **sync engine** is one loop used twice, for the Sale's `Purchased` events
  and for Vesting's `Allocated` and `Claimed`; the mirrors are its handlers. The
  cron calls it in PM2 instance 0, admin routes call it in any instance.
- An approved **task** adds points to an airdrop participant. The **rebuild**
  turns points into allocations, allocations into a Merkle tree, and the tree's
  root into the Airdrop contract's `merkleRoot`. It is called by the hourly
  cron, two HTTP routes and a queue worker.
- A **claim** is made by the user's wallet at the contract and reported to the
  backend afterwards, which asks **verification** first.
- The **pages** read contracts, send transactions from the user's wallet, and
  report their hashes to the backend. Everything they report the backend could
  also learn from the chain, except airdrop claims.
- The **admin pages** ask `/auth/check-role`, which reads the Airdrop's roles,
  then call routes behind the **middleware**: rate limiter, signature, role.

Backend handlers are `async` functions without locks between them: every `await`
is a point where another handler, another process, an exception or a crash may
intervene. The models therefore have one step per await. Contract calls are
atomic: the models of contracts have one step per transaction. A React component
runs one handler at a time, but a handler that awaits continues with the values it
closed over: the models of pages split each handler at its requests.

What makes each component correct, in a sentence: the engine loses no block silently and
always gets on; Vesting stays solvent and pays on schedule; Sale and Airdrop sell and
pay out only what Vesting has, within their caps and windows; the published root always
has its proofs, and a skipped rebuild means database and contract agree; what lies
behind an indexer's checkpoint is in the tables; a task pays once; nobody passes the
claim gate without having been a member while it was asked; a token links one account;
nobody is blocked but for a cluster of accounts; what a dashboard tells was recorded; a
page offers only what the contracts take and reports what was mined.

## 2. Modules and how they correspond to the code

| Module | Models | Built on |
|---|---|---|
| `SyncRanges` | `sync-utils.ts`: the range arithmetic, as operators | |
| `SyncEngine` | `runEventSync` (`sync-engine.ts:155-381`), its stores and its callers | `SyncRanges` |
| `IndexLedger` | abstract: what an indexer promises of its checkpoint | |
| `AdaptiveFetch` | `fetchRangeAdaptive` (`sync-engine.ts:383-433`) with `retry` | `SyncRanges` |
| `BlockTimestamps` | one attempt to fetch a range: logs, `resolveBlockTimestamps` and its cache | `AdaptiveFetch` |
| `EventMirror` | what both mirrors share: log, checkpoint, user rows, calls | |
| `PurchaseMirror` | `f/src/modules/purchase`, the backfill script | `EventMirror` |
| `VestingMirror` | `f/src/modules/vesting` | `EventMirror` |
| `Dashboards` | the analytics, statistics and profiles told of the mirrors' tables | `PurchaseMirror`, `VestingMirror` |
| `Vesting` | `Vesting.sol`: deposit, allocate, claim, rescue | |
| `TokenLaunch` | `Sale.sol` and `Airdrop.sol` around one Vesting | `V == INSTANCE Vesting` |
| `Governance` | `Timelock.sol`, roles of Vesting and oracle, `deploy-complete.ts` | |
| `PriceOracle` | `PriceOracle.sol` | |
| `TokenRules` | `Token.sol` | |
| `Contracts` | the four contracts that share no state, side by side | `Vesting`, `Governance`, `PriceOracle`, `TokenRules` |
| `MerkleRebuild` | `approveTask`, `recalculateAllocations`, `rebuildAndSync`, `isRebuildNeeded` | |
| `TaskReward` | `f/src/modules/tasks`, `admin`: submission, review, reward, edits | |
| `Verification` | `verification.service.ts`, its repository, queue, jobs and caches | |
| `AirdropClaim` | `claim.service.ts`, its validation and repository, beside the links | `Verification`, `DeepLink` |
| `DeepLink` | deep-link tokens and the Telegram webhook | |
| `ApiGate` | `core/middleware`, `core/auth` | |
| `WalletPage` | what the airdrop, vesting and buy pages share | |
| `AirdropPage`, `VestingPage`, `BuyPage` | one page each, against its contract | `WalletPage` |
| `Pages` | the three pages in one tab | `AirdropPage`, `VestingPage`, `BuyPage` |
| `TaskCards` | the task cards of `airdrop.tsx` | |
| `TelegramLink` | `TelegramLinking.tsx`, and a visitor's cards and linking together | `TaskCards` |
| `FraudScan` | `fraud-detector.service.ts`, which every submission starts | |
| `AdminPages` | `pages/admin`: tasks, verification tasks, review | `ApiGate` |
| `...MC` | instances and scenes for TLC | |
| `...Proofs` | theorems and proofs, one module for each group above (section 4) | |
| `SumLemmas` | what sums over finite sets do, for the proofs | |

**SyncEngine.** A call of `runEventSync` moves `pc[c]` through its awaits:
read the head, read the checkpoint, store the start gap, fetch a batch, clamp or
skip it on a plan limit, process it, commit the checkpoint. `chain` is the real
head; `head[c]` is what the provider answered (up to `HeadLag` behind, as load
balanced RPC nodes are). `Serves` decides whether the provider answers
`eth_getLogs`: it refuses a range that begins before its window (`ProviderWindow`
blocks, by the head at that moment). `indexed` is the set of blocks whose events
are stored, `reported` the blocks ever written to a gap record, `gapRecord` the
one value `SyncState` keeps. `Throw` is any exception, `Crash` the end of a
process, `PersistPoison` an event that can never be stored. Blocks stand for
their events. Back-off delays are left out; block times are `BlockTimestamps`'s.

**AdaptiveFetch** opens up the one await that `SyncEngine` takes as atomic: the
tree of halves, each with its attempts, answered in any order.

**BlockTimestamps** opens up one such attempt. The logs of each type of event are
asked for; the blocks they occur in are looked up in `timestampCache`, a Map with a
limit that drops its oldest entry and that all attempts of the process share, or asked
for, `TIMESTAMP_CONCURRENCY` at a time. A block's time is written as the block itself,
so a time is wrong when it is another block's. A request that fails three times
leaves `null` in the cache, where it stays until it is the oldest: `refused` remembers
the blocks that happened to.

**IndexLedger** is the abstract specification: blocks become accounted for (stored
or reported), and a checkpoint may only be set where nothing below it is
unaccounted. It may move back: two processes can overlap, and the run that
finishes last wins.

**EventMirror, PurchaseMirror, VestingMirror** open up the other await, the one that
stores a batch. `log` is what the contract emitted, `checkpoint` how much of it
`SyncState` covers; a run takes the next `EventsPerRun` events and handles each in the
steps of `processEvent`: find the row, find or create the user, look up the price or the
schedule, write. A report of a page (`processFrontendPurchase`, `recordFrontendClaim`)
goes through the same steps for one event it was told of. A purchase is looked up on
chain first; `POST /vesting/claim` is public and stores what it is told, so a vesting
report may name any wallet, amount and transaction (`misreported`). `Die` ends a call at
any of the steps. A currency missing from `DEFAULT_CURRENCY_MAP` throws, a price that
cannot be had is null and left to the backfill. Each schedule is a row found by wallet
and without a unique key; `raced` remembers two calls that met there, because what they
then do is lost updates.

**Dashboards** are handlers that only read, but not in one step: `Promise.all` sends
four or six queries, and each is answered from the tables of its own moment; a profile
asks for the wallet's participation first and for its rows afterwards. `before` and
`moved` are histories: how many rows there were when the dashboard was asked for, and
whether a table has changed since. `entrants` stands for the table of the airdrop's
participants, to which others only add.

**Vesting.** One variable per storage word that matters (`total`, `claimed`, their
running totals) and the ERC-20 balances (`pool`, `wallet`, `elsewhere`). `PayUser`
is Token's transfer with the wallet cap. `rescued` counts what governance has
taken out, so that solvency can be stated in the presence of rescues. A pause of
the token stops calls, which shows here as users who do not call.

**TokenLaunch** has the same Vesting state and adds the Sale's and the Airdrop's.
Each purchase or airdrop claim is `V!allocate` together with the caller's own
bookkeeping, in one step; the price of a purchase is any amount. A Merkle root is
the set of its leaves. `updateVesting` may point the Airdrop at another Vesting
contract, after which its claims allocate elsewhere (`vestingHere`).

**Governance.** `step` counts the mined transactions of the deployment script, of
which every prefix is a state the system can be left in. `holders` are
OpenZeppelin's mappings, `members` the Timelock's own record of them, which its
"last member" check counts; five functions change the one and must change the
other. One `operation` is scheduled, cancelled, executed. Vesting's `grantRole` and
`revokeRole` ask for two roles at once, which the script gives to two accounts:
after it, nobody gains a role there (`VestingRolesOnlyShrink`). `MINIMUM_DELAY` is
checked by the constructor only, so an executed operation may set a shorter delay
(`lowered`). The deployer stays the admin of the Timelock's own roles (see the end of
section 3), which is why `NewPowersWait` exempts a role that has such an admin.

**PriceOracle.** Currencies have a typed-in price or a feed, either with its age. A
feed has decimals of its own, as a unit (`FeedUnit`): `_toPriceUnit` cuts a tail off or
multiplies, and an answer may come to nothing.
Views are operators and `Reverts` is their revert, so that what `getQuoteInfo`
answers and what `quote` charges can be compared. Integer division is the
contract's. With prices of one digit the 20 % bound on a change admits only some
of the moves; `tokenPriceUsd` starts where it can move.

**TokenRules** is `_update` with the cap, its exclusions, the exchange's pair and the
pause. **MerkleRebuild**: `pc[c]` follows each call of `approveTask` (approvers) or
`rebuildAndSync` (rebuilders) through its awaits. A tree is the sequence of its leaves,
because the leaf order is by points and equal points may come in either order, giving
different roots for the same leaves. The comparisons of `updatedAt` and `createdAt` with
the latest `completedAt` are kept as two sets of facts (`updatedSince`, `claimedSince`),
which `Complete` resets. `blocked` are the users the fraud scan has blocked; the
recalculation, the check of the cron and the tree each leave them out when they read.
`overlapped` and `abandoned` are histories of two rebuilds at
once and of a call left with its transaction pending. `mempool` holds the admin wallet's
transactions in nonce order; one whose sender has failed or died stays there without
owner. `Fail` ends any set of calls: one for an exception, several for a crash. A task
is approved once here; what two approvals of one task do to it is `TaskReward`'s
subject.

**TaskReward.** One user, some tasks, the user's submissions and the reviewers'
requests. The reward is a transaction at READ COMMITTED: it reads `rewardGiven` and the
points, and writes `rewardGiven` and a sum of points, which appear at once at its
commit; the recalculation of the allocation that follows is outside it, and passes over
a user whom the scan of his submission has blocked (`BanUser`), though he can still be
approved and paid points. `raced` and
`lost` are histories of what the code cannot exclude: overlapping rewards, and an
approval that dies after it has set VERIFIED. Automatically verified submissions never
reach the reward code; that is what the code does, and `UnpaidIsExplained` names it.

**Verification and AirdropClaim.** One user, one record for each verification task.
Callers are jobs of the verification queue, the cron's runs of `reverificationAll`,
which may overlap, callers of `checkEligibility` and of `verifyBeforeClaim`; a step ends
at an await whose answer can change. No process imports the two queues' workers: jobs
are modelled as served, since without them nobody becomes VERIFIED; what
`triggerReverification` enqueues is not here. The membership cache's writes are not
awaited (`late`). `record` takes each value the service writes; `member` is what
Telegram would answer. `recordClaim` wraps the gate: validation, existing claim, gate,
PENDING row, receipt, settled row. Of the hash a request posts only the receipt's status
is looked at: it may be the wallet's claim at the Airdrop (`AirdropTxs`, of which one
succeeds), the hash of another request, or any other transaction. `Restart` ends all
requests at once.

**DeepLink.** `token` and `meta` are the two Redis keys with their lives; an update
validates, reads accounts, consumes by `GETDEL`, writes the account. Updates run
side by side in pairs of Telegram accounts and tokens.

**ApiGate.** A rate limiter's record is keyed by client address only, so all
limiters count in one record with their own maxima; `admitted` is the history that
`WindowBudget` reads. A claim request looks its key up and marks it in separate
steps, and then runs. `Serves` is the chain of signature, role and limiter that a
controller sits behind. Roles are the Airdrop contract's.

**FraudScan.** A submission starts `analyzeFraudPatterns` and goes on. `scan[c]` is what
a scan has found so far: it reads the user with the points, counts recent purchases,
counts the users created within a minute, saves a profile, and on a CRITICAL one blocks
the user and writes the audit entry. The tables change in between, `Cluster` is the
number of look-alikes that makes a sybil, and two scans of one user may be under way.

**Pages.** A handler is a flow that awaits the wallet's signature with the values it
closed over; `txs` is every transaction the page ever sent, `tx` the one whose
receipt is being waited for, `told` what the receipt query has answered, `syncs`
the report calls with their remaining attempts. The contract's own rules are
written a second time from Solidity (`Accepts`, `SaleTakes`), so that what the button
offers is compared with what a transaction would do. `shown` / `read` / `seen` are
the values of the page's reads, which may be older than the contract. A flow or a
transaction is `kept` while its wallet has stayed connected and nothing it was prepared
from has changed; a `jolt` is a switch, a reload or a rejection.
`AdminPages` and `TaskCards` abstract a row to the version of the list it was read
from; `TelegramLink` follows the interval and the timer of its two refs, which a
success clears only in part.

Behaviour met while modelling that no document of the repository contradicts, and that
the models therefore simply contain: several allocations of one wallet are mirrored as
the last grant; `getCurrencies` lists a removed and re-added currency twice; an
idempotency key stays burned when its request failed; all limiters share one counter; a
stale Telegram timer ends a later wait; `buy.tsx` sets its step to idle while a report
is retried; a block time that could not be had stays null in the cache, and an event
without one is dated now by the vesting handler, at the epoch by the purchase handler,
whose upsert of a redelivered event writes such a date over a good one; to the
calculator a bigint zero is false, so a cap of zero that is left is no cap, and the
wallet's purchases count twice against it: a wallet that has bought exactly its cap is
offered a purchase that reverts, which `Checked` therefore leaves out (TLC's wallets
have room, so the double count matters to the proof only); a user whom the scan has
blocked may still be approved and paid, but keeps the allocation he had; when a rebuild
has died between deactivating one root and activating the next and all participants it
had updated are blocked before the next tick, the cron skips without an active root; two
overlapping claim requests may both end CLAIMED, with one hash or with one that is no
claim.

## 3. What the runs check

Several runs have **scenes**: the first state picks one component, the others'
variables stand still. States add up instead of multiplying, and one run answers
one question about a group of parts. A property whose name is a conjunction of
named parts is listed with its parts; each part has its own comment in its module.

| Run | Question and properties | Holds |
|---|---|---|
| `sync_two_processes` | two overlapping runs, plan limits, lagging nodes, poison, one fault: `NoSilentLoss`, `ImplementsLedger`, `RunKeepsItsRange` (`RunAccountsForItsRange`, `NothingRecentGivenUp`) | yes |
| `sync_live` | one process, two callers, two faults: `CheckpointNeverMovesBack`, `RunEnds`, `EveryBlockAccountedFor` | yes |
| `sync_narrow_plan` | `RunEnds` when the provider serves exactly the lookback | **violated** |
| `sync_gap_record` | `SkippedBlocksStayRecorded` | **violated** |
| `launch` | `SaleIsAccountedFor` (`SalesAreVested`, `SaleWithinCap`), `OneAirdropEach`, `ClosedForGood`, `ImplementsVesting` | yes |
| `rebuild_together` | scenes: two rebuilds at once; the cron with a reviewer; the cron alone after faults: `PublishedRootsHaveProofs`, `LoneSkipMeansInSync`, `NoRootOverpays`, `QuietRebuildRecovers` | yes |
| `rebuild_skip` | `SkipMeansNoChange` | **violated** |
| `contracts` | scenes: Vesting with a tight cap and rescues; payout in full; roles; oracle; token: `PaysAsPromised` (`Solvent`, `OnSchedule`), `VestedIsNeverTakenBack`, `PayoutIsComplete`, `BooksAreWhole` (`BooksBalance`, `WalletCapHolds`, `SupplyIsWhole`), `KeysAreKept` (`TimelockKeepsItsKeys`, `MembersAreHolders`), `PowersAreBounded` (`VestingRolesOnlyShrink`, `ExecutedAfterDelay`, `NewPowersWait`), `OracleIsFair` (`PreviewIsTheQuote`, `RoundTripNeverGains`, `FeedIsNotRoundedUp`, `SupportedAreListed`) | yes |
| `backend` | scenes: purchase mirror; vesting mirror; either with a dashboard or a profile asked for; one adaptive fetch; two attempts that date their blocks: `PurchasesMirrored` (`NoPurchaseDropped`, `RowsAreTheBuyers`), `VestingMirrored` (`ClaimsMirrored`, `StatsAddUp`, `SingleGrantMirrored`, `ProgressIsAPercentage`), `DashboardsInv` (`AnalyticsAddUp`, `StatsAreRecorded`, `ProfilesHold`), `FetchesAreSound` (`FetchIsWhole`: `ResolvedBatchIsComplete`, `FailureRejectsBatch`; `TimesAreTrue`: `CacheIsTrue`, `BatchIsDated`, `FewAtATime`), `UsdIsFinal`, `MirrorsCatchUp` (`PurchasesCaughtUp`, `ClaimsCaughtUp`, `BatchSettled`) | yes |
| `claims` | scenes: thirteen casts of claims, jobs, sweeps and queries; two tokens raced: `GateIsLive`, `RevokedInTheEnd`, `ClaimsInv` (`SecondClaimOverlaps`, `PendingIsAttended`, `ClaimedIsMined`), `LinksInv` (`TokenConsumedOnce`, `LinkFollowsConsent`, `OneOwner`), `NothingUnasked` (`NeverFabricated`, `LinkNotTaken`) | yes |
| `pages` | scenes: airdrop, vesting and buy page: `PagesTellTheTruth` (`ReportsAreOwn`, `ReportNeverExceedsPayment`, `NoticesAgree`, `StagesTellTheTruth`), `OffersAreTaken` (`OfferedClaimIsAccepted`, `OfferedPurchaseFits`), `ConfirmedIsReported` | yes |
| `rewards` | scenes: rewards of one user; middleware; admin pages; task cards; Telegram linking; fraud scans: `RewardsInv` (`PaidOnce`, `PointsAddUp`, `RecordsTellThePay`, `UnpaidIsExplained`), `GateInv` (`WindowBudget`, `DuplicatesOverlap`), `AdminPagesInv` (`OpenPageIsServed`, `ListCatchesUp`, `FormMatchesTask`, `SpinnersHaveCause`), `VisitorPagesInv` (`DoubleSubmitNeedsAnother`, `AcceptedIsShown`, `OnePollAtATime`, `WaitingHasAnEnd`, `LinkedMeansLinked`), `FraudInv` (`BlockedForACluster`, `BlocksAreAudited`, `BlockedStaysSuspect`) | yes |

The first conjunct of a grouped invariant is the type invariant of its modules.
`SyncEngine`, `TokenLaunch` and `MerkleRebuild` have theirs proved instead, and
`DashboardsInv` rests on its mirrors'.

Many properties have an exception built in: "unless two requests overlapped", "unless an
error is shown". Each exception is a history variable set by exactly the step that
causes it, and names a weakness of the code that the models show is the *only* way to
the bad state. Without it, TLC finds the counterexample: two rewards that overlap pay
twice (`PaidOnce` without `raced`), an approval that dies after setting VERIFIED leaves
a task nobody can pay (`UnpaidIsExplained` without `lost`), two claims between check and
row both get one (`SecondClaimOverlaps`), a restart leaves a PENDING claim that blocks
the user (`PendingIsAttended`), an indexer and a report that meet at a schedule lose an
update (`StatsAddUp`), of two scans the one that counted first saves last and unsays the
other (`BlockedStaysSuspect` without `met`). Of two overlapping rebuilds with two orders
of equal points, the second may die between deactivating the first's root and activating
its own, and the first's completion has already told the cron that nothing changed;
`LoneSkipMeansInSync` therefore speaks of rebuilds that do not overlap, and of users not
all of whom have been blocked. Other exceptions name what a row or report was told
rather than what the code did: `ProgressIsAPercentage` speaks of rows nobody
misreported, and `ReportsAreOwn` of wallets that have stayed connected and pages not
used during a retry - after a switch the pages do post another address.

### The three disagreements

1. *A run that never ends* (`sync_narrow_plan`). On a plan limit the batch is
   clamped to a floor computed from the head read when the run began. If the
   provider serves exactly the lookback and a block is mined before the logs are
   asked for, the batch already begins at that floor, the clamp changes nothing,
   and the loop repeats the refused request for ever, without delay, holding the
   in-flight label (`sync-engine.ts:257-291`). The header of the file promises that
   a plan limit "clamps the range instead of retrying the same impossible request
   forever". `sync_live` shows the condition under which runs do end: a provider
   window larger than the lookback by the blocks mined during a run.
2. *A gap record that forgets* (`sync_gap_record`). Each clamp overwrites the one
   gap record with its own range; the merged gap stays in a local variable. After
   two skipped batches the first one's blocks are neither indexed nor recorded,
   against "never silently lost" and "kept until an operator backfills them".
   (`NoSilentLoss` counts a block as reported once its range was written, logged
   and stored, even if overwritten later.)
3. *A change the cron does not see* (`rebuild_skip`). Points approved after a
   rebuild has read the participants and before its job completes carry an
   `updatedAt` older than `completedAt`, and the dirty flag is cleared by the
   recalculations; every later tick is skipped with "No changes detected" until
   some other change triggers a rebuild.

Three smaller ones show in the models and have no run of their own; the properties make
an exception for each:

- `Timelock.sol:14` has "Admin: Deployer initially, then renounced". No script renounces,
  so the deployer keeps the Timelock's `DEFAULT_ADMIN_ROLE` and can make anyone a
  proposer or an executor without delay (`NewPowersWait`; Vesting's own roles are out of
  his reach, `VestingRolesOnlyShrink`).
- `telegram.provider.ts:22` has the cache of memberships "invalidated on reverification
  checks". It is left to expire, so for a quarter of an hour a cached yes can make a
  record VERIFIED again that a sweep has just revoked (`RevokedInTheEnd` waits for it).
- `vesting.domain.ts:76` calls progress a percentage "(0-100)". A second allocation
  overwrites the mirrored total with its own amount, after which progress may exceed it
  (`ProgressIsAPercentage` speaks of single allocations).

### Bounds, and why they are enough

- `sync_two_processes`: six blocks, batches, lookback and window of two,
  a chain that starts at its first block. This is small, but ranges can be below,
  across and above the floor, a batch can straddle it or be skipped whole, and a
  start gap can exist. `MaxHead` bounds the chain, `MaxFaults` exceptions and
  crashes together. Two calls are enough for a run to read the checkpoint before
  and write it after the other.
- `sync_live`: the chain is at block six when the first run starts and grows once,
  so that skipping, clamping and serving all happen under fairness.
- `launch`: two wallets, a pool of three that Sale, two roots and governance
  compete for, a sale that starts after deployment so that its window can be moved.
  The clock runs past both windows, so that finalize and reclaim happen.
- `rebuild_together`: two participants, tied from the start in the scene of two
  rebuilds; with too few points for a token at first in the reviewed one, tied and
  with a remainder once both tasks are approved, so that rounding in
  `calculateAllocation` shows; apart in the quiet one, which has two faults instead
  of one. Failures, and a block of either user, may hit between any two awaits.
- `contracts`: in *vesting*, amounts 1 and 3, which four stages do not divide, a wallet
  cap that binds, a clock through every stage (`MaxTime`), allocations in mid-schedule,
  rescues up to `MaxRescued`; *payout* has room in the wallets and no rescue. *roles*
  starts with the script's first transaction, may stop after any, and makes `MaxChanges`
  = 2 further calls: one to change a role, one to use the change; the clock (`MaxClock`
  = 4) passes both the delay (2) and the lock (3). *oracle* has a unit that the price
  does not divide, so that all floors bite, one feed with more decimals than the oracle
  and one with fewer, answers (`Answers`) of nothing, of less than a unit of the
  oracle's and of more, a list of two (`MaxListed`), and as many blocks (`MaxBlock` = 2)
  as make a price stale and fresh again. *token*: a supply of four and a cap of one, so
  the third transfer to a wallet meets it.
- `backend`: three events of which two a batch, so a failed batch has stored one and a
  later run delivers it again; two indexers and one report, two calls at a time, one
  death. At most one transaction is misreported, the first or the second, which need not
  be on chain, and then there are two events, one indexer and no death (`FewLies`; the
  proofs have no such bound); a report meets two events at most. Prices 0 (none), 1 and 2: enough to be missed, found and
  moved. The fetch has a four-block range, at most two events per answer, two attempts:
  the recursion is two levels deep on both sides. Where somebody looks on there are two
  events, one indexer and no death, since what matters is a write between two queries
  (`Looked`); under the vesting dashboard a page may report before the indexer begins,
  which makes a schedule without a total. The dating scene has three blocks with events,
  a cache of two and two requests at a time, so that an entry is dropped while another
  attempt needs it; the spans are the whole chain or what lies behind a checkpoint after
  its first block (`Spans`).
- `claims`: a *cast* says which callers, tasks and how many moves, errors and changes
  take part. The casts pair callers that share a variable, two at most: each property is
  about a pair, two sweeps among them. Two claims have a transaction each at the
  Airdrop, a third posts a hash that is no claim, a fourth the first's. *links*: two
  users, two Telegram accounts, two tokens, two updates, one upset.
- `pages`: two wallets, two transactions, one jolt (switch, reload, rejection) and
  two moves of governance, or one of the sale's. The airdrop page
  reports once, as in the code; the vesting and buy pages try three times, here two and
  one, since each attempt is the same step. Grants of 3 and
  4 over four stages show the double rounding.
- `rewards`: two submissions and one upset make every sequence of approve, reject,
  submit again, approve again by two reviewers. Two limiters of budget 1 and 2
  stand for the code's 30 and 100, with one window, as the defaults of both are 60
  seconds. A behaviour of *tasks* has its upset or a block of the user, not both
  (`TaskBudget`); the reviewers are interchangeable (`EitherReviewer`), which is
  sound as the run checks invariants only. The admin scene trades four calls for three
  switches (`AdminBudget`), the first of which connects. Six requests, three links and ten minutes as one step in *link*. Two scans and a
  cluster of two in *fraud*: the second look-alike may sign up between any two queries.

`CHECK_DEADLOCK FALSE` is set where the system may stop: the clock or the supply
of tokens is used up, a batch is settled, every bounded call is made.

### Fairness

- `SyncEngine`: weak fairness of every call's own steps (a pending await settles:
  the JSON-RPC client has a timeout, which is an exception) and of `Start` (the cron
  fires every five minutes). Neither mining nor failures are fair; failures are
  bounded, since nothing can be promised of a process that dies for ever.
- `backend`: one weak fairness of `Work`, the disjunction of the indexers' steps (in
  the third scene of the fetch's). It includes the start of a run, for the cron
  fires, and no step of a page, a report or a price.
- `contracts`, payout scene only: blocks are mined, and a user who can claim does so
  in the end. This is an assumption on users; without it tokens simply stay.
- `rebuild_together`, quiet scene only: the cron keeps firing, started calls go on,
  transactions are mined. There are no approvals (with them the third disagreement
  stands in the way) and no ties: with ties a rebuild may for ever publish another
  order of the same leaves.
- `claims`: started jobs and sweeps run on, Redis drops keys when their time is over,
  and the cron begins a run of each sweep that is at rest: it fires every six hours.
  That anyone asks for a claim or for eligibility is not assumed.
- `pages`: blocks are mined, receipts polled, reports answered. Users click or not.

## 4. What is proved

Every safety property of the passing runs is a theorem, for every value of the constants
that satisfies the modules' assumptions. The assumptions (each module's ASSUME, named)
are types, finite sets of users, participants, tasks and blocks, disjoint sets of
callers, distinct currencies, stages that make a hundred per cent (four of 25 in the
code), feeds whose unit divides the oracle's or is divided by it (powers of ten in the
code), and a deployment that fits the supply; `GovAssumption` says besides that
deployer, multisig and Timelock are three addresses (in `deploy-complete.ts` the multisig
is one of its own). Two theorems
have a hypothesis of their own, named below: one process, one approver.

The two temporal forms are proved alike: for an invariant `I`, a strengthening that Init
establishes, every step preserves and that implies `I`; for a property of steps, the
strengthening and that a step from it is allowed.

- **`SumLemmas`**. `SumFunctionOnSet` of the community modules is a recursive function on
  subsets. The module shows that it exists for a finite set and is unique, that the
  sum is an element's value and the sum of the rest whichever element is taken out
  (`SumSplits`, by a smallest counterexample), and what changing an entry, adding two
  functions or comparing parts does. All books below rest on it.
- **`SyncEngineProofs`**: `TypeCorrect`, `NoSilentLossHolds`, `EngineImplementsLedger`,
  `RunsKeepTheirRanges`, `OneProcessMovesOn`. The checkpoint alone is not inductive: the
  run that will write it must know that nothing below its cursor is missing.
  `CursorSound` says so at each label of the loop: everything below the cursor is
  accounted for, when a start gap is about to be stored it will be by that gap, and a
  batch about to be committed is stored, one about to be skipped reported. `RunSound`
  adds what a run knows of itself: its head was the chain's, so what it clamps away lies
  below the floor of any later head, and its gap holds what it has skipped.
  `OneProcessMovesOn` assumes that there is one process: `LabelHeld` says that a running
  call holds the in-flight label alone, so between reading the checkpoint and moving it
  (`Ahead`) it is the only writer. With two processes the checkpoint may move back, and
  `IndexLedger` allows it.
- **`VestingProofs`**: `VestingTypeCorrect`, `VestingBooksBalance`, `VestingSolvent`,
  `VestingOnSchedule`, `VestingPaysAsPromised`, `VestingNeverTakenBack`. `claim`
  subtracts one user's claim from a running total, so solvency needs that the totals are
  the sums of the users' entries (`BooksBalance`), and that nobody is ahead of schedule,
  so that the reserve covers each user's share of it.
- **`TokenLaunchProofs`**: `LaunchImplementsVesting` maps each step of the
  composition to a step of Vesting or a stutter, so `LaunchSolvent` follows from
  the Vesting theorem. `LaunchClosedForGood` rests on the window: once finalized,
  the airdrop's window is over and cannot be moved (`AirdropOver`), and time only
  goes on. `LaunchSaleIsAccountedFor` joins what is allocated (`LaunchSalesAreVested`) and
  what is sold in all (`LaunchSaleWithinCap`, a sum). `LaunchOneAirdropEach` has a
  small invariant of its own, and `LaunchTypeCorrect` bounds the Sale's and Airdrop's
  balances by what lies outside Vesting.
- **`ContractsProofs`**: `GovTypeCorrect`, `TimelockKeysAreKept`,
  `GovPowersAreBounded`, `OracleFair`, `ContractsBooksAreWhole`. The check on the last
  proposer counts the Timelock's own record, so the invariant says that the record is
  the role table's. That nobody gains a role of Vesting needs `ScriptPowers`: only the
  deployer ever holds its governance, and once the script is done the deployer is not its
  admin. The delay needs `DelayKept`: while no operation has lowered it, what is pending
  becomes ready `MINIMUM_DELAY` after it was scheduled. For `NewPowersWait` each call that
  grants a role needs its admin: the Timelock acts by an operation only. For the oracle
  the work is in its floors: two divisions and what they leave, and what the scaling of
  a feed's answer leaves (`FeedScales`). `TokenInv` is that the supply is the sum of
  the balances, with the sale's share counted before and after it is minted.
- **`RewardsProofs`**, rebuild: `RebuildTypeCorrect`, `PublishedRootsHaveProofsHolds`,
  `NoRootOverpaysHolds`, `LoneSkipMeansInSyncHolds`. `Advance`: where a rebuild stands
  tells whether its root has a row and its proofs; rows and proofs are only ever added.
  That no root overpays is `TreesInv`: no tree on chain or in the mempool gives a leaf
  more than today's points are worth. Allocations are computed from points read earlier
  (`AllocationInv`), so points must not shrink, which two rewards at once can make them
  do: hence the hypothesis `OneApprover`. A lone rebuild is followed through all its
  stages (`Stage`): its root is the active one, its transaction the only one, and while
  it is past its snapshot some participant is newer than the last completion, so the
  cron would not skip unless all of those have been blocked.
- **`RewardsProofs`**, the rest: `RewardsAreSound`, `GateIsKept`, `AdminPagesAreSound`,
  `VisitorPagesAreSound`, `ScansAreSound`. As long as no two rewards overlapped,
  `PaidInv` relates each record to what its task paid and the points to the sum of it,
  with what the one call in its reward has read. `Budget` splits a limiter's history at
  the start of its window; any stretch as long as a window meets two of them, hence two
  budgets. `ListInv` says which answers of which version may still come; `OneWait` that
  timers and polls of a link belong to the last begun. `ScansInv` carries a scan's count
  to its write: a cohort only grows, and until two scans met the profile cannot be older
  than the scan that blocked.
- **`ClaimsProofs`**: `LinksAreSound`, `LinksAreNotTaken`, `GateAsksLive`,
  `ClaimsAreSound`, `StatusIsEarned`, `NothingIsUnasked`. `TokensGone` says that
  a consumed token is not in Redis and was consumed by one update. `Backed` says of every
  call what its yes rests on: it was true once, and at a gate since the gate began; `Told`
  the same of the cache and of the writes to it still under way. `RowsInv` ties a row
  to the place its request is in.
- **`ClaimsProofs`**, the pages: `PagesAreTruthful`, `OffersAreAccepted`. `WalletInv` is
  what the pages share: what is `kept` was sent by the connected wallet; the step says
  "waiting" only for a payment; every report under way is its sender's; and, until a
  click has met a retry, reports concern the last transaction, which is mined, and do
  not run beside a handler (`ReportingInOrder`). Each shared operation preserves it by a
  lemma of its own, which the three pages cite. `EligibilityIsTrue` also counts
  requests: never more are under way than connections and jolts have made. For the
  vesting page the amount is followed from the read to the block (`CaptureIsCovered`):
  what was read, what a flow captured, what a pending transaction asks is at most what
  is releasable now, unless the wallet has claimed since, because entitlements only grow
  (`MaturedGrows`); and a confirmed claim turns the button off (`claimOnChainSuccess`),
  so that no click meets a report. `QuarterAndShare` bounds what the page's rounded
  quarter and the contract's rounded multiple differ by. For the offers, `NoNewFlow`
  shows that only a click starts a handler, and its guards are compared with the
  contract's rules one by one.
- **`BackendProofs`**: `PurchasesAreMirrored`, `UsdStaysFinal`, `VestingIsMirrored`,
  `DashboardsAreSound`, `FetchesAreWhole`, `TimesStayTrue`, `FetchesStaySound`.
  `RunsLeaveNothing`: a run in which nothing has failed leaves no event without its row
  behind its position, whichever indexer or page wrote it. For schedules
  (`VestingIndInv`), where no two calls met, a sum about to be saved is today's, and a
  row whose sum is not has a claim that is not yet covered. `WithinGrants` needs no such
  condition: no wallet claims more on chain than it was allocated, no schedule says more
  than was claimed, also not in a save still to come, as long as nobody misreports, which
  makes progress a percentage.
  `FetchInv` says that the parts of a batch lie end to end whatever was split, so that
  the answers put together are the range, in order. `TimesInv` follows an attempt: what
  it has found is what it knows, misses and asks for, and every time is the block's own
  or that of a block that was refused. `DashInv` relates each answer given to the
  tables: none counts less than there was when it was asked for or more than there is,
  and if nothing moved it is what the same query would answer now; `KnownPaid` says that
  only purchases in a known currency have rows.

Proving changed the models where they could not be right: `ListCatchesUp` excused a list
that another had ever overtaken, and now only one that came last (`newest`);
`LoneSkipMeansInSync` was false of two overlapping rebuilds with tied points,
`StatsAddUp` and `SingleGrantMirrored` turned out to need no condition on who is at work,
and `Checked` had forgotten the wallet that stands exactly at its cap. The pages'
strengthening was an invariant of TLC's on the run's instance, and with two jolts, before
it was proved.

Only model-checked:

- All liveness properties (`RunEnds`, `EveryBlockAccountedFor`, `QuietRebuildRecovers`,
  `MirrorsCatchUp`, `PayoutIsComplete`, `RevokedInTheEnd`, `ConfirmedIsReported`): the
  prover reasons neither about ENABLED nor fairness.
- The three violations, which are TLC's counterexamples.

## 5. What is not modelled, and the plan

Not modelled, and why:

- *Risk engine and classification service*: arithmetic over one read, without state
  between two calls. That a verdict sets a user's status enters `AirdropClaim` as
  `BlockUser`; nothing in the code lifts it.
- *Chain reorganisations*: the code has no handling of them to check; logs are
  taken up to the head.
- *Redis lock and nonce manager* (`core/locks`, `core/blockchain`): called by no
  code path. `tasks/workers/task-worker.ts`: imported by nothing.
- *The task list of verification tasks shown to a visitor* (`tasks.tsx`): its route
  (`verification.routes.ts:33`) asks for the ADMIN role and the page sends no credentials,
  so the list is always refused and its `handleVerify` cannot run.
- *The Telegram adapter's own request budget*: a refused request is one of the
  errors of a check. *Errors of the verification log* and *an edit of a verification
  task's channel* (`PUT /tasks/:id`): nothing reads the log, and an edit is one of the
  moves that make a member a stranger.
- *Two queues*: the workers of the verification and of the reverification queue are
  imported by no process (`apps/worker/main.ts`), so `triggerReverification` enqueues
  what nobody takes; `claim.worker.ts` is imported, but nothing enqueues a claim.
- *Treasury address and role tables of Sale and Airdrop, ERC-20 approvals*: standard
  OpenZeppelin code; who may call is fixed after deployment.
- *Message formats, wording, HTTP plumbing, rendering, landing pages, gas,
  maintenance scripts that only read* (`verify-chain.ts`).

The plan for safety is done: what the runs check of it is proved. What is left is out of
the prover's reach (section 4) or outside the models (above).
