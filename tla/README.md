# Verification of the DeFi lending backend

TLA+ models, TLC runs and TLAPS proofs for the Go backend of a lending
protocol (`src/cmd`, `src/internal`). The indexer mirrors an EVM chain into a
store, the liquidator watches positions and sends liquidation transactions, the
worker evaluates risk rules and sends notifications, the oracle polls price feeds,
and the API server answers HTTP requests and pushes updates over WebSocket. The repository's design document is
`src/docs/superpowers/specs/2026-04-03-defi-lending-backend-design.md`, below
"the design".

`PROJECT.json` holds the machine-readable side: components, runs, the map from
definitions to source lines, the mutants that show each
property can fail, the hazards and the theorems.

## 1. Inventory

| Component (source) | State | Operations | Interacts with | What is hard | What makes it correct |
|---|---|---|---|---|---|
| Block listener (`indexer/listener`) | a goroutine, the subscription's queue, a 64-slot channel | `Subscribe` (dial, backfill, live), `Poll` | node by RPC and WebSocket; indexer by channel | blocks announced during the backfill, reorganisations, failing calls, fall-back to polling | no hole in the numbers it sends |
| Reorg detector (`indexer/reorg`) | window of block hashes | `RecordBlock`, `DetectReorg`, `Rollback` | called by the indexer | repeated and interleaved branches, `uint64` underflow in the pruning | the window is linked, bounded and holds the last block |
| Indexer service and event consumer (`indexer`, `indexer/consumer`) | the header in hand; stored blocks, events, checkpoint | `runChain`, `ProcessBlock`, `SaveEvent`, `HandleReorg` | listener, detector, node, store, Kafka | several store calls without a transaction, crashes in between, logs asked by number | the store equals the chain once caught up; no event without its block; no block before the checkpoint is missing |
| Event parser (`indexer/parser`) | none | `ParseLog` | called by the indexer | decoding | malformed logs are skipped and nothing else |
| WebSocket hub and handler (`api/websocket`) | client set, user index, topic maps; per client a send channel and its topics; two queues | register, unregister, subscribe, broadcast, send to user, read pump, write pump | browsers, broadcasters | maps used outside the lock, channels closed while in use, full buffers and queues | each channel closed once; index and subscriptions consistent; slow and gone clients are removed |
| Scan loop (`liquidation/service.go`) | the candidate list | `scan` on each tick | scanner, executor | works on live pointers while positions change | survives, picks the right entries, does not liquidate twice |
| Executor (`liquidation/executor`) | nonce counter, pending transactions | `Execute`, `nextNonce`, `MarkConfirmed`, `MarkFailed` | node | a failure after the nonce is taken, restarts, lost answers | nonces without holes; what is tracked was sent |
| Position scanner (`liquidation/scanner`) | position map, min-heap with back pointers | `SetPosition`, `RemovePosition`, `RefreshAll`; reads `FindLiquidatable`, `MostDangerous` | scan loop, rate computer | back pointers through `container/heap` | the root is minimal, back pointers are right |
| Rate computer (`liquidation/ratecomputer`, `common/math`) | a pool per market: totals, indices, rates, timestamp | `SetPool`, `HandleEvent`, `CalibratePool`; reads `CurrentBorrowIndex`, `CurrentLiquidityIndex` | the lending contract through events and snapshots; scanner | late and repeated events, snapshots applied out of step, fixed-point rounding | equals the contract after the last event; an event's interest is bounded; rates rise with use |
| Notification service (`notification`) | last delivery per key | `Notify`, `NotifyMultiChannel` | store, senders | check and record are separate critical sections | cooldown holds, starts only with a delivery |
| Risk engine (`risk`, `cmd/worker`) | rule set | `Check…`, `ReloadRules`, `emitEvent`, `HandleAlert` | rule store, notifications | reloads against long checks | rules do not change under a check and reloads do not starve |
| Health factors (`scanner.CalculateHealthFactor`, `account.GetOverview`) | none | two computations over one account | rate computer | two different figures, stored values of any age, rounding near one, markets without a pool | monotone in debt and collateral; rounding neither liquidates a covered account nor hides a shortfall that counts |
| Price oracle (`oracle`) | the price in hand; Redis entries with expiry | `RunLoop`, `FetchAndUpdate`; reads `GetPrice`, `GetPrices` | Chainlink, Redis, Kafka, database | each of five calls per feed may fail, the cache is the only memory, signed answers | downstream ends up with a stable price; jumps and dead feeds are warned about |
| Market service (`market`) | Redis entries with expiry | `ListMarkets`, `GetMarketDetail`, `GetHistory` | Redis, database | a slow read overwrites a newer entry | an old value does not outlive its TTL |
| Account service (`account`) | none | `Login`, `GetPositions`, `GetHistory`, `BuildTx` | database, browsers | byte offsets that depend on the amount | calldata says what was asked for |
| API middleware and router (`api`, `api/middleware`) | Redis counters, tokens | CORS, logging, rate limit, JWT | Redis, browsers | concurrent requests, expiry against the minute's end, fail-open | the quota of a minute |
| Chain adapter, infrastructure | clients | wrappers | everything | pure I/O | modelled only as the node of the indexer and of the executor |

Package paths are relative to `src/internal`.

## 2. Modules

| Module | Models | Uses |
|---|---|---|
| `ChainNode` | the EVM node: growth, reorganisations, announcements (external) | |
| `BlockListener` | the listener goroutine and its channel | `ChainNode` |
| `ReorgDetector` | the detector, as operators on the window | `ChainNode` |
| `Indexer` | `runChain`, the consumer, the store, Kafka, crashes | `BlockListener`, `ReorgDetector` |
| `EventStore` | abstract: how the indexer's tables may change | |
| `IndexerRefinement` | `Indexer` implements `EventStore` | `Indexer`, `EventStore` |
| `IndexerProofs` | theorems about `Indexer`: types, orphans, the stream of headers; its store: the refinement, linkage, the checkpoint; the caught-up store | `IndexerRefinement` |
| `WebSocketHub` | hub, handler, pumps, broadcasters | |
| `HubProofs` | theorems about `WebSocketHub` | `WebSocketHub` |
| `Liquidation` | scan loop, executor, the callers and the node | |
| `LiquidationProofs` | theorems about `Liquidation` | `Liquidation` |
| `PositionScanner` | the map and the heap with `container/heap`'s sifting | |
| `ScannerProofs` | theorems about `PositionScanner` | `PositionScanner` |
| `Notification` | `Notify` by several goroutines, with a clock | |
| `RiskEngine` | checks, reloads, the bridge to the notifications | `Notification` |
| `WorkerProofs` | theorems about `Notification` and `RiskEngine` | `RiskEngine` |
| `WadRay` | fixed-point arithmetic, as operators at a scale that is a constant | |
| `RateComputer` | the pools, and the contract, feed and calibrator around them | `WadRay` |
| `HealthFactor` | the scanner's and the overview's health factor, as operators | `RateComputer` |
| `RateProofs` | theorems about `RateComputer` and `HealthFactor` | `HealthFactor` |
| `PriceOracle` | the polling loop, Redis, Kafka, the database and the aggregators | |
| `OracleProofs` | theorems about `PriceOracle` | `PriceOracle` |
| `Calldata` | the bytes of transactions for users and of liquidations, as operators | |
| `ApiServer` | middleware, routes and handlers of market and account | `Calldata` |
| `ApiProofs` | theorems about `ApiServer` and `Calldata` | `ApiServer` |

`MC*` modules add symmetry sets and constants that a `.cfg` cannot write.
Definitions whose comment begins with "Mutation" or "A mutation" are
plausible bugs. No specification uses them; `PROJECT.json` names the property that
each one breaks.

### How state and actions correspond to the code

**Chain.** A hash commits to the ancestry of a block, so a block is modelled as
its ancestry: a sequence of choices. Parent, number and equality of hashes are
those of sequences. A node changes by growing or by switching to another branch
at most `MaxDepth` blocks below its head, and announces every block that is new on its chain.

**Listener.** `lpc` is the position in `Subscribe` or `Poll`. Every RPC is one
step with a failing variant. The channel, and the header waiting to enter it,
are the queue `out` of capacity `OutCap`; sends block when it is full.

**Indexer.** `pc` names the next call of `runChain`. Each store call
(`DeleteEventsFromBlock`, `DeleteBlocksFromBlock`, `UpdateSyncStatus`,
`SaveBlock`, `SaveEvent`), `FilterLogs` and `Publish` is one step with a
failing variant that follows the code's `continue`. Detection and recording are
in memory and belong to the step that receives the header. `Restart` can happen
between any two steps and keeps the store only. The store is the `EventStore`
interface, taken as durable; `cmd/indexer` wires an in-memory stand-in that
keeps only the checkpoint.

**Hub.** `HandleUpgrade`, the two pumps, the `Run` loop and a broadcaster are
separate actors. A broadcast takes the topic's map under the lock and then
walks it without, one client per step. Unsynchronised access to a map that
another goroutine writes has Go's outcomes: it goes on, or the runtime kills
the process (`crashed = "race"`). A send on a closed channel and a second close
panic (`CloseSend`). There is one broadcaster; a second would only add more of the interleavings
that already end in a panic. The capacities (256 messages per client, 64 in each queue) are the constants
`SendCap` and `QueueCap`. The
`/ws` route has no JWT middleware, and `HandleUpgrade` reads the context key
`user_address` (`handler.go:61`) while the middleware sets `wallet_address`
(`auth.go:152`); wired as it is, every client is anonymous. The model keeps both
anonymous clients and clients with an address, the contract of `NewHub`'s index.

**Liquidation.** One goroutine scans; each RPC and each unlocked read is a step.
`scan` holds pointers into the scanner's map, so an update in place is visible
to it and a removal is not: `held` is the removed position that the pointer still
shows. A transaction carries the tick of the scan that sent it. Cancellation of the loop's context
ends the process, which is `Restart`. Prices and indices decide only whether a refreshed position is
liquidatable. `SetPosition`, `RemovePosition`, `MarkConfirmed` and `MarkFailed`
have no caller in the repository except tests; the model's callers are the ones
that `Scanner()` and the executor's comments invite.

**Scanner.** `queue` is the slice, `heapIndex` the back pointers. Push, fix and
remove sift as `container/heap` does (external), through `Less` and `Swap`: `UpStep` and `DownStep`
are the bodies of its two loops, `Up` and `Down` iterate them until nothing moves.

**Notification and risk.** The mutex protects `lastSent` only, so the check, the
save, the delivery and the record are separate steps and the clock moves in
between. A check holds the read lock while it saves events and waits for
`Notify`. A reader does not overtake a waiting writer, as `sync.RWMutex`
guarantees. `CheckFlashLoan` reports one event per user, so an event is a rule and whom it is
about. A delivery remembers what `recordSent` wrote for it.

**Event store.** `EventStore` is the contract the readers of the tables get: an event
enters after its block and leaves before it; the checkpoint moves forward only to
a stored block and backward only to just below a truncation. It knows nothing of
listeners, detectors, faults or processes. `IndexerRefinement` instantiates it
with the indexer's own `blocks`, `events` and `sync`, so that each step of the
indexer, every failure and restart included, is one of its steps or a
stutter.

**Rate computer.** Every method takes the mutex, so each is one action. The contract is
external and keeps the history of its states; `delivered` says up to which of its events
the feed has got, and may go back by one when the consumer restarts before its
commit. A snapshot is read in one step and applied in a later one, and `SetPool` may get a state
that is older than the chain's. `inStep` and
`once` are ghosts that record whether the last snapshot was of the last event
handled and whether an event came twice. `WAD`, `RAY` and the year are constants, since
10^27 is outside TLC's integers; the formulas are those of `big.Int`, whose
division is floored for positive divisors. The code's comments call the rates per-second;
the formulas divide by `SECONDS_PER_YEAR`, and so does the model. `RayToWad` rounds half up, though its
comment says it truncates.

**Health factors.** The scanner's is a function of the pools, so the module has no
variables; its properties range over accounts with entries opened at the first or
at the last event handled, in markets with and without a pool. The overview's is a function of
stored decimal texts, of any age; a text that does not parse adds nothing, as in the code.
Only the refuted `LiquidatableShown` speaks of it, and takes the texts to be of now: with older or skipped ones
nothing relates the two figures.

**Oracle.** `pc` is the next outside call of `FetchAndUpdate`. A feed's round has an
age, counted up to `MaxAge`, which lies well past the heartbeat; a cache entry has a remaining TTL. The answer is decoded as the code does it, the bytes of an `int256` as an
unsigned word. The alerts are the two log warnings. `smooth` is a ghost: the last
price of the feed was compared, cached and published. No `cmd` starts the oracle.

**API.** A connection serves one request at a time; a step ends at a Redis or
database call. Counter, cache entry and token hold the ticks they have left. The rate limiter takes
the key of the minute in one step (`KeyRequest`) and increments the counter in a later one
(`RateLimited`), by when the minute, and the counter, may be over; minutes are numbered modulo `MaxMinutes`.
Redis may fail at each use; a limiter without a `Store`, as `cmd/api` wires it, lets a request through
uncounted in the same way (`FailOpen`).
Signatures are reduced to who signed
and whom the message names. Byte sequences are real ones with small lengths, so that an amount can be
shorter than, as long as and longer than a word, and longer than the whole
calldata. `HexToAddress` pads, crops and stops at what is no hex digit, so an asset is a text that may be
malformed, too short or too long.

## 3. Runs

Passing runs, with the bounds that matter:

| Run | Question | Bounds |
|---|---|---|
| `indexer_ws` | Over a healthy subscription: is there a hole in the headers (`NoGap`), is a caught-up store the canonical chain (`CaughtUpInSync`), does it catch up (`EventuallyInSync`), types | height 3, window 2, a reorg of up to 2 blocks anywhere, 2 logs per block of which 1 malformed |
| `indexer_poll` | Polling: is there a hole, are neighbours in the detector's window and in the store parent and child (`DetectorLinked`, `StoredLinked`), does the window keep the current block (`RecordedBlockKept`)? | window 2, height 4, a reorg to any height, an RPC and a store failure |
| `indexer_faults` | Crashes and failures together: is there an event without its block (`EventsHaveBlocks`), a checkpoint ahead of the blocks (`BlocksCovered`, as long as only crashes happen), a write `EventStore` does not allow (`ImplementsEventStore`)? | height 2, 2 crashes, a reorg, an RPC and a store failure |
| `hub_safe` | Are registry, index, channels and subscriptions consistent? (`IndexedRegistered`, `ClosedIffRemoved`, `SubscriptionsAgree`) | 2 clients, one user, one topic, capacities 1 |
| `hub_live` | Are slow clients dropped and connections torn down? (`SlowClientDropped`, `Teardown`) | 1 client, capacities 1 |
| `liq_safe` | Is what the executor tracks what the node has (`TrackedAccepted`), does only a failure after `nextNonce` leave a hole in the nonces (`NonceGapFree`), does no tick liquidate a borrower twice (`OncePerTick`)? | 2 borrowers, 2 scans, 1 failure, 1 restart |
| `scanner` | Is the heap's root minimal and every index right? (`MostDangerousIsMinimal`, `IndexConsistent`) | 6 positions, 3 health factors and nil |
| `notify` | Is only stored mail delivered (`PersistFirst`), is every recorded cooldown that of a delivery (`CooldownEarned`), does a goroutine keep its own (`SpacedPerCaller`)? | 2 callers, 2 channels of which 1 has a sender, 5 ticks, 1 failure |
| `risk_rules` | Do the rules stay as they are under a check (`HitsEnabled`), and do reloads reach the engine (`RulesCaughtUp`)? | 2 callers, 1 rule that may report 2 users, 1 failure |
| `rates` | Is the pool the contract after the last event handled (`ReplicatesPrefix`), by how much can an event move an index (`AccrualBounded`), does the rate rise with use across the kink (`RateRisesWithUse`), are health factors monotone (`HealthMonotone`) and fairly rounded (`RoundingFair`), does compounding match the power (`CompoundedMatchesPower`)? | 2 markets of which 1 has a pool, 2 events of 4 kinds, 1 redelivery after each `SetPool`, snapshots at any time, 3 seconds of a 4 second year, RAY = 60 |
| `oracle` | Are prices positive words (`OracleTypeOK`), is a published jump warned about (`JumpAlerted`), does a stable price arrive (`DownstreamConverges`), is a dead feed warned about again and again (`StaleFeedAlerted`)? | 2 feeds, the first polled always broken; answers -1, 0, 2, 3; heartbeat 1, ages up to 3, TTL up to 2; any number of failures |
| `api` | Does an old market value go with its TTL (`StaleAtMostTTL`), is calldata what was asked for (`CalldataFaithful`), is the quota of a minute kept for the requests keyed and counted in it (`QuotaPerMinute`)? | 2 connections of 1 client, limit 1, 2 minutes of 2 ticks, every route but `detail` and `account_history`, whose steps are those of `list` and `positions`; words of 3 bytes, 2 actions, 2 assets, 4 amounts |

Why the bounds are enough. A height of 3 or 4 holds a common ancestor and
two branches of length at least one, a backfill of more than one block and a
header announced during it; a window of 2 under a chain of 3 or 4 makes records
prune, and with a subscription makes an old header come again below it. Height 2 in `indexer_faults` still has a parent to fork from and a
checkpoint between two blocks, and leaves room for four disturbances at once. Capacities of 1 make the full-queue cases frequent instead of rare.
Six heap entries give three levels with a complete and an incomplete bottom, so
that a removal can sift up as well as down. Two callers, clients or borrowers are
the fewest that interfere. Two crashes allow one during the recovery from another.
A RAY of 60 is small enough for every rounding to show and divisible enough
for the kink to lie between reachable utilizations; two events put one before and one
after a snapshot. A TTL of 2 lets an entry expire between two polls or survive one.
Two borrowers and two scans give four submissions, enough for a hole, a restart that
fills it and a nonce that the node then refuses.

`CHECK_DEADLOCK FALSE` is set where the bounded environment really stops:
the chain has reached its height, all clients have come and gone, or all
ticks are used. The scanner, notification, risk, oracle and API runs
check deadlock.

**Assumptions of the passing runs.** The subscription runs let a reorganisation
end on a head that is not lower (`MayShrink = FALSE`): with a lower head,
polling after a broken subscription and the backfill's bound both refer to blocks
that are gone. `indexer_ws` has a reorganisation of at most the window's size. Nothing in the code makes the window large enough:
`maxBlocks` is `2 * Confirmations`, and a deeper reorganisation leaves old events in the store. A large
window alone does not help against repeated old headers either (`RecordedBlockKept` and `StoredBlockKept` below).
`CaughtUpInSync` and `EventuallyInSync` are stated for a healthy subscription.

**Fairness.**
- `FairIndexerSpec`: weak fairness of the listener's and of the indexer's
  goroutine. Both loop until their context ends, and their RPC and store calls
  return. Nothing is assumed of the node, the subscription or the process.
- `FairHubSpec`: weak fairness of `Run`, the pumps and the broadcaster; strong
  fairness of the two sends into the unregister queue, because Go serves
  goroutines blocked on a channel in order, so one that waits again and again
  while others take the free slot is served.
- `FairLiquidationSpec` (for the refuted `SubmittedMined`): the node keeps mining
  the transactions it can. That every submission is mined as long as no nonce is lost
  follows from `NonceGapFree`: without a hole the node can always mine the next one.
- `FairOracleSpec`: weak fairness of the loop, whose ticker keeps firing and whose calls
  return; strong fairness of the successful outcomes, per feed, of the fetch from a
  reliable contract, of the publication and of the save. The code retries each of them at
  the next poll for ever, so it is enough that they do not fail every time. Nothing
  is assumed of Redis, of the broken feed or of the clock.
- `FairRiskSpec`: the ticker fires, `sync.RWMutex` gives a waiting writer the
  lock once the readers have left, and the calls inside a check return (they
  may fail).

### Disagreements

The code departs from some sentences of its comments, tests and design. Each is stated
as a property, most of them at the end of their module under "What the docs and comments say and
the code does not do", and TLC refutes it when it takes the place of the properties of the passing run that the
last column names, after the change that it gives, if any.

| Property | Code | What happens | Configuration |
|---|---|---|---|
| `ReindexedFromFork` | `service.go:122` (indexer) | polling, the blocks from a detected fork on are deleted, only the incoming header is stored and the parent is never fetched again; the design (line 83) says to re-index from the fork point | `indexer_poll` |
| `CheckpointCovers` | `service.go:133` (indexer) | the checkpoint moves before the events are stored; a crash loses them | `indexer_faults` |
| `BackfillComplete` | `block_listener.go:85` | one failing call ends the backfill and leaves a hole | `indexer_faults` |
| `LogsOfBlock` | `service.go:140` (indexer) | logs are asked by number and may be another block's | `indexer_ws` |
| `RecordedBlockKept` | `detector.go:33` | an old header comes again below height `maxBlocks`: the pruning bound wraps around and the window is emptied | `indexer_ws` with `LogCount = 0`, `Malformed = {}` |
| `StoredBlockKept` | `detector.go:33` | an abandoned header that waited in the subscription's queue while the backfill went past its height finds no hash to be compared with and replaces the stored block | `indexer_ws` with `MaxDepth = 1`, `LogCount = 0`, `Malformed = {}`, as a PROPERTY |
| `UserReachable` | `hub.go:93` | closing an old connection removes the user's newer one from the index | `hub_safe` |
| `UnregisteredGone` | `hub.go:66` | an unregistration served before its registration leaves a dead client | `hub_safe` |
| `NoPanic` | `hub.go:156` | a broadcast sends on a channel that was closed meanwhile | `hub_safe` |
| `SubmittedMined` | `executor.go:159` | a submission that fails after `nextNonce` blocks all later ones of the wallet; the design (line 273) says that failures are retried | `liq_safe` with one borrower, `FairLiquidationSpec`, no symmetry, as a PROPERTY |
| `LargestDebtPicked` | `service.go:93` (liquidation) | the first debt is taken, not the largest | `liq_safe` with one borrower, `DebtLists <- TwoEntries`, no symmetry, as a PROPERTY |
| `NoDuplicateLiquidation` | `service.go:105` (liquidation) | the next tick liquidates a borrower again while the first is unmined | `liq_safe` |
| `PendingCountExact` | `executor.go:174` | a confirmation before the insertion into `pending` is lost | `liq_safe` |
| `ScanSurvives` | `service.go:93` (liquidation) | a position emptied after the length check makes `Debts[0]` panic | `liq_safe` |
| `SpacedByCooldown` | `service.go:53` (notification) | two concurrent callers both pass the throttle; the design (line 318) says that the same alert is not sent again during the cooldown | `notify` |
| `EveryChannelReached` | `service.go:105` (notification) | the first channel's delivery throttles the others | `notify` with `HasSender = {webhook, email}` |
| `SuppressedWasSent` | `worker/main.go:89` | the alert about one user silences that about another | `risk_rules` |
| `AccruedOnce` | `model.go:204` | after a snapshot that is ahead of the events, the first of them moves the timestamp back and its interest is charged again; the comment (line 34) says "locally replicates" | `rates` |
| `LiquidatableShown` | `service.go:57` (account) | the overview divides without thresholds and shows a liquidatable account above one; the design (line 157) shares the health factor with the liquidation engine | `rates` |
| `NegativeRefused` | `chainlink.go:68` | a negative answer passes as a huge price; the comment (line 61) gives `int256 answer`, and line 71 means to refuse what is not positive | `oracle` |
| `EveryJumpAlerted` | `service.go:59` (oracle) | after the cache entry expired a jump goes unnoticed; the design (line 184) asks for an alert | `oracle`, as a PROPERTY |
| `EveryCalldataFaithful` | `service.go:115` (account) | a negative amount loses its sign, one longer than a word overwrites the asset and a malformed asset becomes another address; the comment (line 110) says "selector + asset + amount" | `api` |

Others need no run. The rate limit counts calendar minutes, so twice the limit passes around a boundary, and a
request that is counted after its minute comes on top, where the comment (`ratelimit.go:23`) says "sliding
window"; `QuotaPerMinute` says what is kept. `FindLiquidatable` ranges over a map, so its result is not "sorted by
most dangerous first" (`scanner.go:192`); the model's scan visits candidates in any order. The oracle has no fallback source (design, line 187).
Candidates are a snapshot (`service.go:83`, liquidation): a borrower who repays while earlier ones
are executed is liquidated all the same, and the contract reverts it.

## 4. Proofs

All theorems hold for every value of the constants that satisfies the named
`ASSUME`s of the modules: bounds, durations, prices and limits are naturals, capacities, scales and
TTLs positive; the lists of entries are lists of naturals; `NoBorrower`, `NoClient` and
`Anon` are not borrowers, clients and users; `Word` exceeds any height plus the
window; the oracle's list of feeds is not empty; the optimal utilization is at most one;
selectors, addresses, words and amounts are byte sequences, the first two of their
fixed length, and a word holds an address; the markets are finitely many and no threshold is above one. Any
number of clients, callers, borrowers, positions, markets, feeds and connections may interleave. Some theorems
have a hypothesis of their own: on the window (`NoSilentReplacement`), on what has disturbed the
subscription (`StreamHasNoHole`, `CaughtUpStoreIsTheChain`) and on the
scale of time (`CompoundingIsThePower`).

An invariant that a run checks is seldom inductive. The strengthening that is stands
beside it in the component's module, as a conjunction of named parts; the proof
has one step per action. `SyncInv`, which needs predicates that serve the proof alone, stands in
`IndexerProofs`, and `ScannerInv` with the invariants of the heap's loops in `ScannerProofs`.

Induction over data is done on sets: the least-element form of well-founded induction (`WFMin` on
`Nat`) gives `Induction`, that a set which contains 0 and every successor of its elements
contains `Nat`, and `SubsetInduction` for the subsets of a finite set. A recursive function, such as the
fold behind `SumFunction` or the loops of `container/heap`, is first shown to exist that way, and
then what it computes.

**`IndexerProofs`.**
- `IndexerTypeCorrect` and `NoOrphanEvents` (`EventsHaveBlocks`), from `IndexerInv`. Deleting blocks
  keeps `EventsHaveBlocks` only because the events of those heights are already gone
  (`EventsGone`), and saving an event only because the block in hand is
  stored (`StoredInHand`) and the logs are of its height (`LogInHand`), although,
  as the refuted `LogsOfBlock` shows, not necessarily of its hash. Lemmas on `Put`,
  `Keep`, `RecordBlock` and sequences of blocks carry the data part. Both modes,
  reorganisations, crashes at each step and all failures are covered.
- `StreamHasNoHole` (`NoGap` while `Healthy`): when polling without any condition, and over a subscription until
  a call fails or a reorganisation lowers the head, which is where `NoGap` ends. `StreamInv` says that
  the numbers sent are an interval while backfilling and polling (`NumbersInOrder`), that
  the head read before the backfill is not above the chain's (`HeadReached`),
  and that each announced header follows headers of all lower numbers, in the
  backfill or before it in the queue (`AnnouncedCovered`).
- `IndexerImplementsEventStore` (`ImplementsEventStore`): each action is a step of `EventStore` or a
  stutter. Storing an event and truncating blocks are allowed by `IndexerInv`; moving the checkpoint
  back needs that the fork is a height of the block's ancestry (`ForkInHand`) and that no
  block from it on is left (`RolledBack`). `EventStoreKeepsBlocks` shows that the abstract specification
  alone gives its readers `EventsHaveBlocks`.
- `PolledNeighboursLinked` (`DetectorLinked`), `PolledBlockIsRecorded`
  (`RecordedBlockKept`), `PolledStoredNeighboursLinked` (`StoredLinked`, until a restart), from `PollInv`. The
  two about links are about neighbouring numbers only: a polled rollback leaves a gap (`ReindexedFromFork`), and blocks on
  its two sides may be of two branches. The argument is that when
  polling, the channel carries consecutive numbers, so the window ends just below the next one
  (`PolledInOrder`), a detected fork is the parent of the header in hand, and the topmost stored block, if it is
  the last header's, is in the window (`StoredInOrder`).
- `NoSilentReplacement` (`StoredBlockKept` under a hypothesis): when polling, `PollInv` gives it for any window. Over a subscription it
  takes a window at least as high as the chain: then the detector
  knows every stored block (`WindowInv`), and another hash at its height is always a
  detected reorganisation. With a smaller window TLC refutes it, as section 3 says.
- `CheckpointHasNoHole` (`BlocksCovered`, which speaks of the behaviours in which only crashes have
  happened), from `StreamInv` and `CoverInv`: everything on its way is canonical
  (`AllCanonical`), every number sent is stored, in hand or in the channel, and a header in the channel
  comes after all lower ones (`AllCovered`). So the checkpoint, which `ProcessBlock` moves after the
  block is stored, has no hole below it, and a restart begins right above it.
- `CaughtUpStoreIsTheChain` (`CaughtUpInSync` while `Faultless`: over a subscription, until a call fails, the
  process restarts or a reorganisation lowers the head, and with a window that suffices). A window that spans
  the chain suffices; so does one at least as deep as the reorganisations, as `2 * Confirmations` is meant to
  be, once the chain was at least window + depth - 1 high when the listener started (`WindowSuffices`). On a
  lower chain `RecordBlock`'s unsigned subtraction wraps around when a low height comes a second time, and the
  window is emptied. The proof joins
  `StreamInv`, `WindowInv` and `SyncInv`. `QueueInv` is about the headers on their way: each canonical block
  is an ancestor of the header in hand or comes after it, and the same for each header in the channel and in
  the subscription's queue (`Overtaken`). `IndexInv` is about the store: each canonical block is to come, being
  indexed or settled with all its logs stored and published (`AllAccounted`); what a rollback deletes of the
  canonical chain is to come (`RollbackCovered`); logs fetched by number that are another block's belong to a
  block that is on its way (`LogsAccounted`); and an event is of the window's block of its height or will be
  deleted by a header on its way (`EventsExplained`). With nothing on its way only "settled" and "the window's
  block" are left. This is why the wrong logs of the refuted `LogsOfBlock` do not stay. What a short window
  forgets does no harm: a header is less than a reorganisation's depth above those still behind it, unless
  these repeat what the backfill fetched (`Shallow`), so a forgotten block is either too deep to be replaced or
  a repetition that is followed by the blocks it precedes (`LogsInv`, `RecordDrops`, `ForgottenEvent`).

**`HubProofs`**: `IndexIsSound` (`IndexedRegistered`), `NoDoubleClose`
(`ClosedIffRemoved`) and `SubscriptionsConsistent` (`SubscriptionsAgree`, which
speaks of clients whose channel is open), from the inductive `HubInvariant`:
what each client's registration, queue entries and pump positions imply for the
maps of the hub.

**`LiquidationProofs`.**
- `TrackedAreAccepted` (`TrackedAccepted`) for any
  failures and restarts. It needs `SentAccepted`, which says that between the send
  and the insertion the node already has the transaction for that borrower, and
  `CandidatesPresent`, which says that a pointer into the map shows a position.
- `NoncesHaveNoGap` (`NonceGapFree`) covers the behaviours in which no call has failed
  after `nextNonce` yet (`burns = 0`). Its invariant `GapInv` adds `CounterInStep` (the
  counter, or the nonce in hand, is the first one that the node does not have) and
  `MinedAccepted` (mined transactions were accepted, so a restarted executor's
  `PendingNonceAt` is that number too).
- `AtMostOncePerTick` (`OncePerTick`): a borrower still to be visited in this tick, or in hand before the
  send, has no transaction of this tick, and none is of a later one (`TickInv`).

**`WorkerProofs`.** `NothingUnsavedDelivered` (`PersistFirst`), `OnlyDeliveriesThrottle`
(`CooldownEarned`) and `EachCallerSpaced` (`SpacedPerCaller`), from `NotificationInv`: what a caller
past the throttle, the save or the delivery knows of the store and of the senders, and
that a delivery is recorded in `lastSent` unless its own caller is about to record it
(`DeliveryRecorded`). The time in `lastSent` is one that `recordSent` wrote for a delivery under the key; it may be later than the delivery,
because `recordSent` reads the clock again. That is what a caller can rely on; between two callers it says nothing, which is
how `SpacedByCooldown` fails. `RulesStableUnderCheck` (`HitsEnabled`) rests on the read lock:
whoever has rules to report is inside a check (`HitsInCheck`). `AlertsKeepThePromises` carries the three
results to the composed worker: each step of `RiskEngine` is a step of
the notification service or leaves it alone.

**`OracleProofs`.** `PricesArePositive` (`OracleTypeOK`) and the action property `JumpsAreAlerted`
(`JumpAlerted`), from `OracleInv`: the cache entry of a feed whose last price went all the way
is the published price, if it has not expired (`CacheFollows`), and the price in hand was compared with it
(`Compared`).

**`RateProofs`.** `PoolsReplicateTheContract` (`ReplicatesPrefix`), `BorrowRateIsMonotone`
(`RateRisesWithUse`) and the action property `AccrualIsBounded` (`AccrualBounded`: no event lowers an index or charges
more than the highest rate for all the time there has been, even one whose timestamp lies before the pool's), from `RateInv`: each
state of the contract is what its event makes of the one before (`ContractHistory`), snapshots are
states of the contract (`SnapshotOfChain`), and a pool's totals follow the events even where its
indices do not (`TotalsFollow`, which the first theorem states as well: an out-of-step snapshot spoils the
indices and nothing else). The contract charges by the formulas of the code, so replication is about the order of
accruing, applying and recalculating, and about what late events and snapshots do to it. The lemmas below them bound the rounded
products and quotients of `WadRay` at every scale, not only at the run's. For the health factors they
are joined by lemmas on finite sums (any element may be taken out, sums keep order and common factors):
- `HealthFactorIsMonotone` (`HealthMonotone`): one more entry adds to its sum, and a quotient that is rounded
  half up rises with the dividend and falls with the divisor.
- `LiquidationsAreEarned` (`RoundingFair`): `RayDiv` rounds half up, so a quotient below RAY has a dividend below its
  divisor, and a shortfall that rounding hides is at most the debt's share of 1 / (2 * RAY).
- `CompoundingIsThePower` (`CompoundedMatchesPower`): the difference to the power is a sum of the losses of the
  floors and of the two rounded products, each with its own factor; the floors lose less than a unit
  each, and what they leave covers the products' error. The upper bound fails for a year of one
  period, and both need the rate to be bounded, hence the hypotheses: at least two periods a year and at most
  RAY a period at full utilization.

**`ScannerProofs`.** `HeapIndexed` (`IndexConsistent`) and `MostDangerousFirst` (`MostDangerousIsMinimal`), for any
number of positions, from `ScannerInv`: the queue and `heapIndex` are inverse to each other (`HeapOver`) and no
position is less than its parent (`Ordered`). `up` keeps the order everywhere but above the element that moves,
`down` everywhere but below it, and in both the neighbours of the moving element are in order across it (`UpInv`,
`DownInv`), so that an exchange repairs one place without spoiling another. `Fix` is right whichever of the two it
needs: when `down` moves nothing, only the parent can be out of order. Each loop ends within the
number of places. That a position is not less than the root follows by induction along its parents.

**`ApiProofs`.** `QuotaIsKept` (`QuotaPerMinute`): whoever took this minute's key and was let through in it is in its counter, and a
counter lives to the end of its minute (`CounterHolds`), however late the requests of other minutes are counted. `StaleValuesExpire` (`StaleAtMostTTL`): an old
entry's remaining TTL and the time since the last reader that held an old value add up to at most the TTL
(`OldExpires`). `CalldataIsFaithful` (`CalldataFaithful`): the bytes that `Copy` writes into one word
are not touched by the writes of the others, for all lengths.

**Model-checked only.**
- The liveness properties (`EventuallyInSync`, `SlowClientDropped`, `Teardown`, `RulesCaughtUp`,
  `DownstreamConverges`, `StaleFeedAlerted`): fairness is outside the proof system's reach.
- `NoGap` after a failing call or a lower head, and `DetectorLinked` and `StoredLinked` over a subscription, are
  not claimed.

## 5. Not modelled, and why

- `EstimateProfit` and `CalculateAPY`: no caller. The design (line 269) asks for a profit check
  before execution.
- Token signing, signature recovery, log decoding: reduced to their outcome (whose token,
  who signed, whether the log parses).
- The unlocked map of `cmd/indexer`'s stand-in store: several chains write it;
  the model has one chain.
- Configuration, the clients of Redis, PostgreSQL and Kafka, start-up and shutdown: pure I/O.

## 6. What remains

Every invariant and action property of the runs is also a theorem. What is left to model checking alone is
liveness, and, for the properties above that hold under a hypothesis, nothing is claimed outside it. A next step
would be a hypothesis for `CaughtUpStoreIsTheChain` that admits restarts of the indexer at rest, and a
proof for the parts of `EventuallyInSync` that are safety: the queue's measure falls with each step of the
indexer.
