# Verification of nft-live-feed

TLA+ models of the backend of `nft-live-feed` (and of the part of its frontend that talks to the event stream), the TLC
configurations that check them on small instances, and theorems proved by TLAPS for every value of the constants.
`PROJECT.json` maps every definition to the lines it models and lists the runs, the mutants, the hazards and the theorems.

## 1. The system

One Node process (a singleton, guarded by a lock file) watches Solana programs by websocket and by polling, decodes
marketplace sales and NFT mints, stores them in Postgres and in memory, enriches them from several services, and pushes
every change to browsers over server-sent events. JavaScript runs one callback at a time, so a *step* of every model is
what runs between two awaits, timers or callbacks. What makes the system hard is what may come in between: answers
that arrive late and out of order, the same transaction delivered by several sources, timers, restarts and half-dead sockets.

### Components, their state and their operations

| component | state | operations | talks to | what makes it correct |
|---|---|---|---|---|
| mint accumulator (`mints/accumulator.ts`) | one row per collection: identity, counts, 60 s and 5 min windows, `displayState`, `shownReason`; `evictedNonNft`; `countedMints` | `recordMint`, the resolvers' patches, the 30 s sweep, `evictMintGroup`, restore from the snapshot | called by the parsers and the enrichers; emits `mint_status` | only rows that earned it are in ACTIVE, and clients know |
| counted ledger and snapshot (`mints/counted-ledger.ts`, `mints/snapshot.ts`, handlers in `index.ts`, `runtime/lock.ts`) | two files, a dirty flag, a debounce timer, an asynchronous flush | append, flush, tick, flush on a signal, boot | fed by `recordMint`; hydrates the accumulator | a redelivered mint is counted once over restarts |
| minted counts of a row (accumulator, `core-supply-refresher.ts`) | `supplyMintedLocal`, `supplyMintedOnChain`, `mintedCount`, `observedMints` | a mint, the DAS answer, the on-chain refresh, the LaunchMyNFT patch | DAS and RPC answers | no column is ahead of the chain, SUPPLY never falls |
| feed sampler (`mints/feed-sampler.ts`) | a sequence number per collection | sampling of a mint by velocity tier | called by `recordMint` | a hot collection is thinned out, never hidden |
| sale pipeline (`db/insert.ts`, `enrichment/image-retry.ts`, `ingestion/me-raw/ingest.ts`) | the `sale_events` table, blocked mints, deferral slots | insert, deferred emit, enrichment (update or delete), patch by the raw parse, image retry | two insert legs per sale; emits `sale`, `meta`, `remove`, `rawpatch` | table and screens agree |
| concurrency limiter (`ingestion/concurrency.ts`) | `running`, three queues, a gate | `run`, `exec`, `dispatchNext`, `abortQueued` | every RPC caller; the gate is `runtime/mode.ts` | no slot leaked, none idle, priority kept |
| event stream (`server/sse.ts`, pages of `frontend/src/app`) | the clients, a per-address counter, the batch queue and its timer, replay rings; a page's connection and cards | connect, batch, broadcast, heartbeat, teardown; snapshot, reconnect, recover | listens to the event bus | what a live page shows is current, slots come back |
| transaction fetch (`me-raw/ingest.ts`) | in-flight sets and caches per scope, a shared call, a negative cache, a cooldown | `fetchRawTx`, `ingestMeRaw` | limiter, RPC, the table | what the caches, the cooldown and the dedupe save is never the sale itself |
| AMM poller (`ingestion/amm-poller.ts`) | persisted cursor and catch-up marker, in-memory backlog and outcomes | sweep, catch-up, backlog, start, stop | `poller_state`, ingest | the cursor passes only what has a terminal outcome, and reaches the head |
| listener (`ingestion/listener.ts`), runtime mode (`runtime/mode.ts`) | sockets, reconnect and restart timers, clocks, poll chains; mode, generation | start, stop, reconnect, watchdog, hard refresh, transition | everything that ingests | no stream is dropped, silence is repaired, one poll chain remains |
| seller holdings (`enrichment/seller-holdings.ts`) | a counter row per seller and collection, chains of promises | decrement, seed, reconcile | Postgres, DAS | concurrent sales get distinct, right numbers |
| listings store (`server/listings-store.ts`) | listings by id with three indexes, suppressed mints | snapshot replacement, deltas, eviction | marketplaces, event bus | a sold listing does not come back |
| enrichment workers, resolvers, reconcile | a queue, a cache and a throttle each | ticks | accumulator, bus | each item is tried again until answered |
| parsers, REST tools, analytics, pixel forge, trait extractor, sign-in | none or a TTL cache | request in, answer out | | unit tests and fixtures |

Interactions: parsers call `recordMint` and `insertSaleEvent` directly; both emit on one synchronous in-process bus
(`events/emitter.ts`), so an emit is part of its caller's step; the hub's listeners build a frame and queue it. The
enrichers call back into the accumulator or the sale pipeline after an await, by key, and find the row changed or gone.
The accumulator and the ledger meet again only at boot. `PROJECT.json` lists under `hazards` what can go wrong at each of
these places, with the line and the properties that watch it, or the reason none does yet.

## 2. Modules

| module | models | abstract from |
|---|---|---|
| `FifoSet` | the bounded insertion-ordered sets (`countedMints`, the ledger's entries) | |
| `MintPersistence` | counting mints over restarts: boot, `recordMint`'s dedupe gate, the flush in its awaited steps, the snapshot tick, signals, kills, failed writes, a stop in the middle of a flush | the other fields of a row; one flush in flight at a time (the debounce makes a second one possible only if the first takes 5 s); the snapshot's TTLs. The ledger's `TTL_MS` is there: entries age in the order they were added (`EntriesExpire`), no write contains an old one (`Young`), and boot drops any number of the oldest, which allows more than six hours do |
| `MintRow` | the display state of one row through every operation of the accumulator | names and images to one bit; time to ticks of the window length; the restored snapshot is the current one; `evictedNonNft` to whether it holds this group and how many others came after it, which is all its FIFO cap looks at |
| `SupplyColumn` | the four writers of a row's minted counts, the wire form and the restart | counted mints are distinct (that is `MintPersistence`) |
| `FeedSampler`, `MintFeed` | the card sampler's tiers and running sequence number; `MintFeed` composes it with `MintRow`, whose 5-minute window is the velocity and whose sweep, eviction and restart make it forget | |
| `SellerHoldings` | the stored count of one seller and collection: atomic decrement, the chain of first-sight scans, the shared reconciling scan | the ring of recent sells; scans that lag behind the chain |
| `ListingsStore` | the listings of one collection: the snapshot task from slot to frame, late Tensor and on-chain rows, retry, sales, delists and lists, suppression, hints, eviction, a page's loads and frames | prices, ranks, names; collections read in several pages; unknown mints waiting for their collection; frames arrive as they are sent |
| `SaleInsert` | one or more sales through both insert legs, each query split into "executes" and "returns" | every sale has a mint address; seller holdings; the image retry's schedule |
| `TxFetch` | the fetch of one sale's transaction by websocket, poller, webhook and mint trackers: scopes, caches, shared request, retries, cooldown, and `ingestMeRaw` up to the insert | candidates that are no sale; times to live (everything may expire in any order, which allows more than the real times do) |
| `PollerCursor` | one target of the AMM poller: the sweep from await to await, pages, budget, backlog, catch-up marker, cursor, mode changes, failed queries, crashes | signatures are numbers in chain order; ages and depths of the backlog to four levels of pressure; the FIFO caps of its two memories |
| `Listener` | the sockets of every stream, reconnect, stagger and refresh timers, the watchdog's three tiers, hard refresh, mode changes, the poll chain | a socket is connecting, delivering or silent; clocks to "ran out"; what a notification starts |
| `CallPool` | what callers rely on: at most `Max` calls served at once, a call begins, waits, or is answered | |
| `Limiter` | `run`, `exec`, `dispatchNext`, `abortQueued` with gate, delay and shedding; implements `CallPool` | staleness of the low queue is a prefix length; an idle call may be made again |
| `SseHub` | the hub, its connections and the pages that come and go; implements `RowFeed` | frames are a row's version, a sale, its badge and its enrichment patches; removals; a write to a live socket arrives, and the page dispatches its frames one by one, later and in order (`inbox`, `Receives`), or loses them with the connection; a dead socket's buffer is full; `localStorage`, the pause buffer and a restart of the server |
| `RowFeed` | what the event stream promises the pages that follow one row: who joins is sent the row, a delivery sends it to all who listen, and a page shows what it was sent one announcement after the other | |
| `*Proofs` | the theorems about the module of that name; `MintProofs` is about `MintFeed` and `MintPersistence`, `StoredCountsProofs` about `SupplyColumn` and `SellerHoldings`, `PagesProofs` about `SseHub` and `ListingsStore` | |
| `MC*` | constants for TLC; `MCStoredCounts` puts two modules that share nothing side by side, and a rigid variable says which of them moves; it, `MCMintPersistence` and `MCListings` instantiate their component, and their properties are the ones the theorems state | |

Correspondence of state and actions. Every variable has the name of the source's where there is one (`countedMints` is
`counted`, `sseClients` are the `conn` records whose stage is `open`, `batchQueue` is `queue`, `inFlightByScope` is
`inFlight`). Every action is one handler up to its next await. In `MintRow` all writers end in `WriteAndEmit`, as
`buildStatus` and `emitMintStatus` end the code's; `TryPromote`, `AfterMint` and `Swept` are the promotion ladder, the
revival and the sweep. In `SaleInsert` a call is a program counter per (sale, leg): `fast` and `raw` are the two callers
of `insertSaleEvent`; `InsertExecutes` is the database's step and `InsertReturns` the process's, and an enrichment of
another sale may run in between. In `SseHub` a connection is `open` while it is in `sseClients`, `gone` when its socket is
dead and nobody was told, `cleaned` after `cleanup()` and before its last event.

In `TxFetch` a caller's `pc` is where it stands in `ingestMeRaw`, and `rpc` is the one entry of `sharedRpcInFlight` that
all who wait share; `Settle` is the request's `finally`, the waiters' continuations included, which run before any timer.
In `PollerCursor` a sweep is a record that lives across its awaits (`sweep[w]`), every continuation starts with the
generation check (`Stale`), and `Scanned` is the synchronous stretch from the last page to the first dispatch. The
histories say what the two persisted rows cannot: `walked`, the signatures a catch-up walk went over in sweeps that ran out
of pages; `lost`, those of them a crash caught unresolved in the memory backlog; `gap`, what the cursor was moved over without
a page having reached it; `base`, up to where a sweep that found no cursor did not look. In `Listener` the code finds a socket
only through `activeSockets`; a socket whose entry was overwritten or deleted goes on as one of `orphans`, and timers
are counted because none is ever cancelled.

In `SellerHoldings` a call's `pc` is the await it is in, `asOf` and `late` of a scan and `slack` of the row are histories: what
the scan could know, and which sales overlapped it. In `ListingsStore` `news` are events on their way and `upstream` is what the
marketplaces answer, which is behind `listed`, what is on the chain; `snapshot` is the task of `inFlight`, with what it has
read so far.

A definition named `X_Something` is a variant of `X`, a plausible bug in that code that no specification uses; it shows
that a property can fail.

## 3. Runs

| run | question | bounds | expected |
|---|---|---|---|
| `mint_persistence` | are mints counted once over restarts, and does each key get to disk? | 3 keys, 2 rows, caps of 2 (so that both windows overflow), each key counted at most twice; entries expire in memory and at boot; kills, read and write errors and stops in the middle of a flush | pass |
| `mint_feed` | the display state of a Core launchpad collection and of a LaunchMyNFT drop; does it resurface in the live feed, and is nothing left of it when it is dropped? | threshold 4, bursts 2 and 3, counts up to 13, windows of 0 and 1 ticks, cooldown 2, snapshot 3, eviction 4, 2 evicted groups remembered; tiers of 1, 3 and 4, sequence modulo 12 | pass |
| `stored_counts` | the minted counts of a Core row; the stored count of a seller's holdings | 3 mints on chain, 2 requests, 2 restarts; 3 sales at a time, a wallet of 5, thresholds of 2, 2 upsets | pass |
| `sale_insert` | do table and screens agree? | 2 sales of one mint, 7 kinds of sale (named or not, under the floor or not, blacklisted or not and where that is seen), deferral cap 1, failing queries, 1 restart | pass |
| `tx_fetch` | does any saving, failure or crash lose the sale? | one caller of each kind, retries 1 and 0, 2 nulls, 2 rate limits, 3 events | pass |
| `tx_errors` | is a failed request ever the end of the process? | the same with 2 events | **violated** |
| `poller` | does the cursor skip a signature, and does it reach the head? | 5 signatures, one failed on chain, pages of 1, 2 pages per sweep, budget 2, 2 upsets | pass |
| `poller_lean` | do a sweep's pages reach the cursor it moves, with the page budget of the lean modes? | 6 signatures, pages of 2, 2 pages per sweep, threshold 2 | **violated** |
| `listener` | is a stream ever dropped, silence repaired, a poll chain doubled? | 1 sales target, `mpl_core`, the heartbeat; 1 fault, 1 change, 1 hard refresh, any number of watchdog restarts | pass |
| `limiter` | slots, priority, gate, liveness, refinement | 4 calls, 2 slots, with and without delay and shedding | pass |
| `listings` | does a sold mint stay away, and does the page come to show what is listed? | 1 mint, 2 owners, a pool, 3 marketplaces; listed on one of them, 2 moves on the chain, 1 fault, 1 retry | pass |
| `sse_hub` | slots, currency of pages, badges, patches, liveness | one page from 2 addresses, 2 connections, 1 per address, queue forced out at 3, 1 sale; 2 changes of the row and a badge, or an enrichment and a retry | pass |

What the properties say (the comment above each in its module says what it is about):

* `MintPersistence`: `NoDoubleCount` (a mint whose key never left the dedupe window, by a cap, by the TTL or with a process
  that had not saved it, is in the totals at most once, over any restarts and faults), `NoForgottenKey` (a key of the last
  `TTL_MS` in memory is in the file, or a flush or a mark stands for it), `LedgerCatchesUp`.
* `MintRow`: `NamelessIsShownByBypassOnly`, `ClientsSeeTheRow` (no change of display state is silent),
  `VolumeIsActive` (identity and volume lead to ACTIVE in whichever order they come; the one mint of grace is the
  revival's), `VolumeRowsStayActive`, `QuietRowsLeaveActive` (no sweep leaves a
  quiet row under the threshold in ACTIVE, whatever the reason it was shown for).
* `FeedSampler`: `Resurfaces` (the 1-of-N rule still lets a card through in bounded time while N changes with the window).
* `MintFeed`: `EvictionIsComplete` (a group evicted as not an NFT stays out until a restart or until as many others
  as the capped set holds were evicted after it, and the sampler keeps nothing of a row that is gone).
* `SupplyColumn`: `NeverAheadOfChain`, `SupplyNeverFalls`.
* `SellerHoldings`: `DriftIsOneScans` (the stored count is off by no more than the sales that overlapped the scan it came from;
  errors do not add up), `HiddenIsVerified` (a badge is not hidden on the word of subtractions alone).
* `ListingsStore`: `SoldStaysAway` (no writer brings a suppressed sale back, whatever it read before the sale), `PageConverges`
  (once the chain is quiet, store and open page come to show what is listed).
* `SaleInsert`: `CardsHaveRows` (the card of a settled sale has its row, unless the patch's `remove` frame overtook the deferred
  `sale` frame, which the history `overtaken` records), `StoredIsShown`, `DeferralEnds`.
* `TxFetch`: `InFlightIsHonest` (a scope is shut exactly while one of its callers waits), `RecentMeansDelivered` (no scope
  hides a signature from the other), `BestEffortMeansStored` (what the cooldown silences is a correction of a stored sale),
  `TerminalMeansStored` (what lets the cursor pass stands for a row), `SaleIsStored`.
* `PollerCursor`: `NothingSkipped` (the cursor passes only what is resolved, what a catch-up walk left in the backlog and what
  a sweep's pages did not reach, and the last only with a budget under the threshold), which contains `PagesReachTheCursor`, the
  property of the lean run; `PollerCatchesUp`.
* `Listener`: `EveryStreamIsHeld`, `SilenceEnds`, `OnePollChainRemains`.
* `Limiter`: `SlotsAreCounted`, `NoIdleSlot`, `FirstOfTheHighest`, `ClosedGateStartsNothing`, `HighIsServed`,
  `ImplementsPool`.
* `SseHub`: `SlotsMatchConnections` (the counter of each address is the number of its open connections, whatever tears
  them down), `ImplementsRowFeed` (replay, batches, evictions and dead sockets amount to a feed of the row: a page comes to
  show what it was sent on joining or by the last delivery it could hear), `LateTabHasThePatches` (once a page took all it was sent and
  nothing is queued, a card has its badge and all its last patch says, while the rings hold them), `QueueDrains`, `DeadConnectionsLeave`.

The `TypeOK` of every module is a theorem, for every value of the constants, and so is every safety and action property of every passing run (section 5).

### Why the bounds are enough

A cap of two with three keys is the smallest where a window overflows while another key is still in it. In `MintRow` the
thresholds are scaled so that each of the three ladders can be reached first, and every window can empty before the
cooldown and the eviction. The three tiers of `MintFeed` are left and entered with every fill of the 5-minute window, and 13
mints take the sequence once around its period of 12; the theorem says the same of the real five tiers (1, 1, 3, 8, 22). Two sales of one mint are needed because one's enrichment blocks the other's mint; a deferral
cap of one makes the cap bite. Four calls on two slots make two wait, so that priorities and shedding have a choice.
In `SseHub` two addresses with one slot each let a zombie keep its slot while the page comes back from elsewhere, so
that both the refusal and a broadcast to a live and a dead client happen; the global ceiling is as large as the number of
connections and is not exercised. A queue of two frames lets an older frame follow a newer replay.
The changes of the row, a badge and the patches of a sale are not mixed in one behaviour (`OneTopic`): the reducer keeps them apart,
and the two patches are an enrichment without a floor and a retry that has only that (`FloorIsLate`), so that the second replaces a
fuller one. With one sale a ring's entry is replaced and never pushed out. The theorems have neither restriction.
Two remembered groups of `MintRow` let the set forget this one after it was evicted and while its row could come back.

In `TxFetch` one caller of each kind is enough for a request that is shared across scopes, joined by a best-effort caller
and started by one; one retry makes the two kinds of request differ, as two and one do in the code. In `PollerCursor` a
gap of five with two pages of one signature takes three sweeps to walk, so the marker is written, moved on and cleared,
each with a failure, a mode change or a crash in front of it; one failed signature makes a row that needs no ingestion.
Three sales of one pair are the least where one is in a first-sight scan, one waits behind it and one subtracts; a wallet of
five is subtracted down to the threshold and refilled past it. One mint of `ListingsStore` is enough, since rows of different
mints meet only in the snapshot they come with; the two moves are a sale and a relisting by the buyer, or a delist and a list
elsewhere, so an old answer of each marketplace can meet a new row.

Three targets of the listener are the least where one is busy, one has a clock of its own and one has no notifications.

`Sweeps` holds one sweep in the runs, for the sake of `PollerCatchesUp`. The comment at `amm-poller.ts:1021` says the guard prevents an
overlap, but `stopAmmPoller` clears the guard while a sweep of the old generation still awaits its ingests, so a stop and a
start admit a second one; and when the old sweep ends it frees the guard of the new one, which admits a third. The last part
of a sweep (`:876` on) writes cursor and marker without looking at its generation. `CursorSkipsNothing` is proved for any number
of them: an old sweep may take the cursor back, and a sweep that found no cursor may move it over a walk another one has
begun since, which counts as `base`, but what a sweep itself moves the cursor over is looked at.

### Fairness

Only what the runtime does by itself is fair. No environment action (mints, pages, kills, closes, silence of a network)
is fair anywhere. Weak, unless said otherwise:

* `MintPersistence`: timers fire and awaited file operations end.
* `SaleInsert`: queries are answered (perhaps with an error) and the deferral timer fires; enrichment answers need not come.
* `Limiter`: a call that runs settles (the RPC callers pass an `AbortSignal`) and its delay ends; no caller need come back.
* `SseHub`: the batch timer and each heartbeat fire, and a socket whose write threw is destroyed, so its close event follows.
* `Listener`: handshakes end, timers fire, the watchdog ticks, the clock of a silent stream runs out, poll calls return.
* `PollerCursor`: the tick fires, queries are answered, an ingest settles. Strongly fair: an ingest tried again and
  again ends terminal some time (the backoff of the queue never gives up), and a backlog left waiting grows old, so that
  the sweep which gives it the whole budget comes back (`backlogReserveShare` looks at the age of its head).
* `ListingsStore`: requests end and suppressions expire, messages arrive unless lost, the marketplaces catch up, and the open
  page reloads, every five minutes and so past the 30 s for which a snapshot is young.
* `TxFetch`: requests settle and times to live run out. Strongly fair: a request made again and again gets a slot and
  an answer some time, an insert a database, and the poller its turn.

`CHECK_DEADLOCK FALSE` is set where a finite world is finished: `SaleInsert` when all sales are settled, `TxFetch` when the
sale is stored, `Listener` when every bound is used up, and `StoredCounts` when the wallet is empty.

## 4. Disagreements the runs show

1. `poller_lean`: a sweep is `saturated` only with more pages than `LOW_PAGE_THRESHOLD` (5), and the lean modes allow 5
   (`poll:mmm` 2). A gap longer than that is never walked: the newest rows are taken and the cursor moves over the others
   (`amm-poller.ts:389`, against the comment at `:303` that nothing "would be silently dropped on cursor advance").
2. `tx_errors`: `pending.finally(...)` makes a second promise nobody catches (`me-raw/ingest.ts:407`). When the request
   throws, that is an unhandled rejection, and `runtime/lock.ts:92` ends the process; `ingest.ts:743` says "Never throws".

Seen while modelling and not given a run (the hazards of `PROJECT.json` name most of their lines):

* `acquireSingleton` registers its SIGTERM handler first and that one exits the process (`runtime/lock.ts:90`), so the
  snapshot's "Graceful flush on SIGTERM" (`mints/snapshot.ts:219`, `index.ts:106`) never runs: the totals since the last
  tick of 20 s are gone;
* a stop in the middle of a ledger flush loses its keys (`mints/counted-ledger.ts:150`), and a kill between the snapshot
  and the ledger counts the mints in between twice (`index.ts:123`); these keys are in the history `gone` of `MintPersistence`;
* a flush that fails "Re-marks dirty on failure to retry next tick" (`mints/counted-ledger.ts:120`), but there is no tick: it sets
  no timer, so the keys wait for the next mint. This is `FailedFlushWaits`, the one case `LedgerCatchesUp` leaves out;
* `recordMint` assigns the Core flag from every event, against its comment "Sticky-true" (`mints/accumulator.ts:758`, `:768`);
* with the deferral on, the `remove` of a cNFT under the floor can precede its deferred `sale` frame, and the card stays
  (`db/insert.ts:713` against `:241`); `SaleInsert` has it, and `CardsHaveRows` keeps these sales apart as `overtaken`;
* a cooled LaunchMyNFT row goes straight back to ACTIVE (`mints/accumulator.ts:847` against `:831`), and a cooled row
  without identity is reachable, which `accumulator-revival.test.ts:91` says it is not;
* the floor of MINTED (`mints/accumulator.ts:445`) holds only right after a refresh;
* the refresher's comment promises "most-recently-active first" and its sort takes the oldest verified
  (`core-supply-refresher.ts:120`, `:140`); undecodable collections keep the head of it;
* a page that connects while frames wait in the batch queue gets the replay first and the older frames after it, and
  `onMintStatus` looks at no version: between two of them it shows a row older than the one it had (`server/sse.ts:728`);
* a page's error path reconnects without a backfill (`feed/page.tsx:726`), although the backfill's comment speaks of "any
  events missed while the stream was dead"; `remove` frames are not replayed;
* the sale-meta replay ring keeps one patch per sale and replaces it (`events/emitter.ts:821`); the image retry always sends
  `offerDelta: null` (`image-retry.ts:274`) and the offer is stored nowhere, so after a retry no later page ever shows it, though
  the ring's comment says replaying "closes" the gap. A removed sale stays in the ring too, which is harmless: no card matches;
* the poller's completion of a walk looks at the last sweep's rows only (`amm-poller.ts:913`; the comment above says "Never
  loses data"): what the earlier sweeps of the walk left is in the memory backlog, and a crash loses it, which is the
  history `lost`. The backlog is not drained by a sweep without rows (`:704`); two sweeps of a target may overlap (section 3), and
  then the persisted cursor may go back, so that what it had passed is fetched again;
* in the lean modes the prefilter's dispatch resolves `duplicate` when a fetch is under way or recent
  (`mmm-prefilter.ts:179`), and the cursor lets go of a sale that has no row: the mutant `Poll_RecentIsDone` of `TxFetch`;
* nulls of the gate, of a shed or aborted task and of the cooldown count for the negative cache although no
  `getTransaction` was made; a primary caller of the mint scope may share a best-effort call; the opensea prefilter's skip
  marks the signature fetched (`listener.ts:1098`); `stopAmmPoller` aborts the whole queue of the limiter on any change of mode;
* reconnect, stagger and hard-refresh timers of the listener are never cancelled, so a restart leaves orphan sockets
  that deliver twice, contradicting the comment near `listener.ts:1323`; `stopListener` is called only right before
  `startListener`, so the guards on `running` never fire;
* a socket terminated while CONNECTING has lost its error listener (`listener.ts:1337`, `:1387`, compare `:2079`): its error
  event is uncaught and `lock.ts:93` exits. `Crashes` of `Listener` is this step, and the process comes back;
* with the mint tracker warm, messages do not touch the clock, so `mpl_core` is restarted about every minute, and with the
  sales off as well everything is; a start or stop does not reset the clocks, which a comment of `mode.ts` promises;
* a holdings scan may already have another sale whose decrement runs after it, so the stored count is too low, and a decrement
  between a scan's read and its write is overwritten, so it is too high (`seller-holdings.ts:252`, `db/insert.ts:216`);
  the comment at `seller-holdings.ts:53` says "The number itself stays accurate". `DriftIsOneScans` is the bound there is;
* `add()` suppresses a sold mint "so they can't reappear as buyable until upstream catches up" (`listings-store.ts:124`), but the
  `listing_snapshot` frames of `ensureFresh` (`:1370`) and `refreshTensorLate` (`:1175`) carry what was read and not what was
  admitted, so an open page shows the sold mint again until its next load or frame. "No suppressed sale on the page" is violated
  in `ListingsStore` after a sale that lands between the read and the frame, or one the marketplace has not seen;
* an ME that times out or does not connect counts as an empty answer (`listings-store.ts:791`; the comment at `:771` is about
  error statuses only), as do a failing Tensor and MMM, and the rows are gone until the next refresh;
* a delist at one marketplace suppresses the mint at all of them, so a sibling row goes with the next snapshot, which the comment
  at `:352` calls not correct; `byPoolKey` loses a pool's collection when any one of its rows is removed (`:205`); a list waiting
  in `pendingStream` is replayed after a sale in between and brings the mint back (`:1660`); late on-chain rows may be added to
  a collection evicted during their await, where no sweep finds them (`:1234`); of a big collection a row beyond the first page
  whose delist was missed is kept by every snapshot (`:1281`).

## 5. Theorems

All are of the form `Spec => []P` or `Spec => [][A]_vars`, for every value of the constants that satisfies the named
assumption of the module. Every invariant was checked by TLC on the instances above before it was proved, and the
mutants of the runs break the same properties.

| module | theorem | argument |
|---|---|---|
| `MintProofs` | `FifoTrimProperties`, `FifoAddProperties` | what the bounded set keeps, drops and bounds; used by the next |
| | `LedgerTypeCorrect`, `KeysAreNotForgotten` | `NoForgottenKey` is not inductive: while a flush writes, the file will soon be its copy. `FlushCoversEntries` says the copy has every key that is not too old, or the ledger is dirty again; entries only age, so what a write left out as too old stays out |
| | `CountedAtMostOnce` | under every fault; `CountedOnce` relates tallies to keys in memory, in the ledger, in the file and in the snapshot, and to the keys that left the window (`gone`) |
| | `CleanStopsKeepKeys` (for `Faults = {}`) | no process ends with a key of the last `TTL_MS` unsaved: the stop's own flush writes what `FlushCoversEntries` says is due |
| | `LedgerFileKeepsKeys` | each write of the ledger file takes no key out of it but those older than `TTL_MS` and those already out of the window; `WriteKeepsFile` says it of the copy a flush holds while the process counts on |
| | `RowTypeCorrect`, `IdentityGate`, `NoSilentChange`, `EvictionIsFinal`, `VolumeLeadsToActive`, `VolumeIsForLife`, `QuietRowsGo` | one invariant `RowInv` over a single row; `VolumeIsActive` needs `CooledIsBelowThreshold` (a cooled row has not reached the threshold), `EvictionIsFinal` that the set remembers the group while fewer than its cap were evicted since (`SetRemembers`), the last needs `ReasonFits`, and one lemma per operator says it makes good rows of good rows |
| | `FeedImplementsRow`, `FeedTypeCorrect` | the composition's steps are steps of the row or leave it alone, so all of the above holds of it |
| | `CollectionsResurface`, `NothingIsLeft` | for any tiers and any common multiple as period: each `keepEvery` divides it, so the sequence meets a multiple before it comes round; the sampler's entry exists only beside a row that has a mint |
| `StoredCountsProofs` | `SupplyTypeCorrect`, `NoColumnAheadOfChain`, `SupplyIsMonotone`, `SnapshotIsWhatIsShown` | `IInv` bounds each of the four fields, the frame and the saved row by the chain, and the local count by what was counted |
| | `HoldingsTypeCorrect`, `DriftDoesNotAddUp`, `LowNumbersAreLookedInto` | `Left` is the wallet less the sales that still have to subtract; `Sound`: row, first-sight scan and shared scan are each within their own overlap (`Near`) of it, so a write that overwrites a row brings its own error and not the sum; `Flow` says which call may scan, seed or wait |
| `SaleInsertProofs` | `SaleTypeCorrect`, `NoGhostCards`, `NoLostFrames` | for every kind of sale. `Agree` relates the program counters of both legs to table, screens and blocked mints, and says when a frame can still come after its removal (`FrameIsLate`); one lemma per action |
| `TxFetchProofs` | `TypeCorrect`, `NobodyIsLeftWaiting`, `ScopesAreApart`, `CooldownCostsNoSale`, `TerminalIsStored` | the five statements together are inductive: `InFlightIsHonest` says whom a request answers, `BestEffortMeansStored` and `TerminalMeansStored` carry the row from one caller to the next, and one lemma per stage of a request keeps all five |
| `PollerCursorProofs` | `PollerTypeCorrect`, `CursorSkipsNothing` | for any number of overlapping sweeps and any page budget. `NothingSkipped` says nothing of sweeps under way. `Passed` is what the cursor may have behind it, and no step takes a signature out of it, so what a sweep has read stays true of it whatever the others do (`SoundStays`). `Honest`: a marker's walk has been over all from `before` to `frozen`; `Books`: what the memory remembers is resolved, waits or was lost in a crash; `SweepIsSound`: the rows of a sweep have no holes (a page is the newest part of a range, the next goes on right below) and come down to the cursor it read at a short page. With a budget over the threshold no sweep ends short of it unnoticed, so `gap` stays empty; without, it is disagreement 1 |
| `ListenerProofs` | `ListenerTypeCorrect`, `StreamsAreHeld` | a stream with no entry has a timer, since every step that takes an entry away starts one or opens a socket |
| `LimiterProofs` | `LimiterTypeCorrect`, `SlotsNeverLeak`, `LimiterIsWorkConserving`, `KillSwitch`, `QueueIsInOrder`, `LimiterImplementsPool` | `IInv`: each waiting task is in one bucket once, the counter is the number of slots held, and nothing waits beside a free slot; every step maps to a step of `CallPool` or a stutter |
| `PagesProofs` | `SlotsAreConnections` | each counter is the cardinality of the open connections of its address; `FreedSlots`, `KeptSlots` and `OpenedSlots` say what evicting any set, changing none and opening one does to all of them |
| | `SseTypeCorrect`, `LateTabsCatchUp` | `PagesInv`: what a page that can be reached does not show yet is on its way or in the queue (`Served`), the queue ends with the row as it is and brings no card without what the rings remember of it (`Promised`), and no patch overtakes its card (`Ordered`, from `OnlyEmitted`: a sale has no frame before its card is emitted); `OwnConnection`: a response object is not reused under a page |
| | `HubImplementsRowFeed`, `PagesShowTheRow` | from the same invariant, one lemma per action: a flush is a delivery, a frame that forces one out too, a connect with its replay is a join, a frame the page dispatches is shown, whatever dies or is torn down only leaves; the other is what `RowFeed` promises, its `OnlyTheRow` |
| | `StoreTypeCorrect`, `SoldMintsStayAway` | inductive by itself once it is seen that every writer of rows goes through `Admitted` (`RowsGoThroughAdmitted`) and suppression starts with the sale's own step |

Only model-checked: liveness, which is beyond the prover (`LedgerCatchesUp`, `DeferralEnds`, `HighIsServed`, `QueueDrains`,
`DeadConnectionsLeave`, `PollerCatchesUp`, `SaleIsStored`, `SilenceEnds`, `OnePollChainRemains`, `PageConverges`). Proved and in
no run: `RestartShowsTheSnapshot` (a restart shows exactly the counts of the snapshot), `CleanStopsKeepKeys`,
`LedgerFileKeepsKeys`, `EvictionIsFinal` and `PagesShowTheRow`.

No theorem assumes more than the named assumption of its module, except `CleanStopsKeepKeys`, whose statement is about `Faults = {}`.
What the code does lose is kept apart in a history a property names: `gone`, `overtaken`, `walked` with `lost`, `gap` and `base`.

## 6. Not modelled

The repository has about 143,000 lines, and these modules stand for about 4 % of them. Most of the rest is no state
machine: pages of the frontend beyond connection and reducer (layout, filters), parsers, transaction builders and
analytics (pure functions of bytes and rows, with fixture tests), stateless REST tools, pixel forge and the trait extractor
(separate programs). Sign-in and rate limiting are maps whose behaviour is that of the wall clock. The event bus is
synchronous, so it has no states of its own but the replay rings, which are in `SseHub`. `PROJECT.json` has the full list with reasons.

State machines that are left: the batching of the core supply refresher, the singleton lock's check and write, the mint
reconcile, the queues of the mint enrichment workers, the mint blacklist, the FIFO caps of the poller's
memories and its cadence. Their hazards are listed without a property.

## 7. Plan

Order: what is most central and most concurrent first. Written: `MintPersistence`, `MintRow`, `SaleInsert`,
`SupplyColumn`, `Limiter` over `CallPool`, `SseHub`, `FeedSampler`, `PollerCursor`, `Listener` with the runtime mode, `TxFetch`,
`MintFeed`, `SellerHoldings`, `ListingsStore`, `RowFeed` over `SseHub`. Next, each in place of a smaller run or as a part of an existing one:

1. `CoreSupplyRefresher` (with `SupplyColumn`), `MintReconcile` (with `MintPersistence`), removals in `SseHub`,
   `SingletonLock`, `MintEnricher`: small modules, one hazard each.
2. `ListingsStore` with collections of several pages and with `pendingStream`; its frames through `SseHub`'s queue.
3. Composition: `TxFetch` over `Limiter`; `SaleInsert`'s frames through `SseHub`'s queue; `SellerHoldings`' answers as its badges.

Theorems: every safety and action property of the runs is proved. What is left to say of the present modules: the pages of
`ListingsStore` against an abstract list of what is for sale, as `RowFeed` is for the hub; the counting over restarts against an
abstract counter; how far the cursor can go back when sweeps overlap.
