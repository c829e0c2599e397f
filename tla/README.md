# dealstream: a verification project

TLA+ models of dealstream, the TLC runs that check them and the theorems TLAPS
proves about them. Everything is translated from the Go and SQL sources; line
numbers below and in `PROJECT.json` refer to files under `src/`.

## 1. The system

    feedgen  --HTTP-->  ingestd  --SQL-->  Postgres   <--SQL--  api  <-->  Redis
    (8 feeds)           (8 workers,        ClickHouse <--------'
                         1 writer)

| Component | Source | State it keeps | Operations |
|---|---|---|---|
| Feed stream | `internal/feedgen/stream.go` | capped buffer of updates, next sequence number, diverged prices, status | `Tick`, `Current`, `Since`, `Stats`, `SetStatus` |
| Feed server | `internal/feedgen/server.go`, `cmd/feedgen` | the epoch of the instance | `GET catalog`, `GET offers`, set status |
| Product universe | `internal/feedgen/universe.go` | none (hash of seed and index) | `Product`, `Carried`, `RetailerBaseCents` |
| Feed worker, one per retailer | `internal/ingest/worker.go`, `client.go` | `cursorState`; its text in `ingest_cursors` | `catalogStep`, `offersStep`, `processItems`, `saveCursor` |
| Normalisation | `internal/ingest/normalize.go` | none | `Normalize`, `parsePrice`, `NormalizeSKU`, `SpikeSuspect` |
| Offer store | `internal/ingest/store.go` | tables products, offers, quarantine; id cache; spike streaks | `UpsertBatch`, `resolveProducts`, `heldPrices`, `Quarantine`, `LoadCursor`, `SaveCursor` |
| ClickHouse writer | `internal/ingest/chwriter.go` | buffer, two counters, notify and kick channels | `Add`, `WaitFlushed`, `Run`, `flush` |
| Daemon | `cmd/ingestd` | two contexts | start, cancel, wait for workers, drain |
| Cache | `internal/api/cache.go` | flights; Redis keys | `GetOrFill` |
| API handlers | `internal/api/*.go`, `cmd/api` | Postgres pool of 16, `retailersMu` | search, product, history, similar, collections, deals |
| Deals | `internal/api/deals.go` | Redis key `deals:top` | refresh loop, read |
| Migrations | `cmd/migrate`, `db/*` | table `schema_migrations` | apply, record |
| Embedding backfill | `cmd/embed`, `internal/embed` | column `products.embedding` | batch loop, index |
| Showcase, metrics, config, dbstat | `internal/api/showcase.go`, ... | none the system acts on | rendering, counters |

How they interact. A worker asks its feed for a page (catalog first, then
changes), normalises it, upserts it, quarantines what was refused, hands the
accepted observations to the shared writer, waits until the writer has flushed
them, and only then saves its cursor. Eight workers share the products table,
the id cache, the streak map and the writer. The api reads what they wrote,
through a cache that coalesces misses, on a bounded pool.

What is hard: the watermark that stands for a set of rows while flushes fail
and the buffer overflows; cursors that must claim neither too much (after
crashes, failed saves, feed restarts) nor too little; timestamps that order
updates across two endpoints; workers creating the same product or locking the
same rows; a spike check whose side effects precede statements that may fail; a
leader that dies with followers behind it; a handler that holds two
connections; handlers of several statements that read tables while they are
written, and streams that break half-way; a backfill that may overlap with
another. `PROJECT.json` lists each as a hazard at its line, with the
properties that would catch it.

What makes each component correct:

- stream: the buffer is the newest part of the history; `Since` is exact.
- worker: whoever reports an empty backlog is in sync; a cursor claims only
  what is stored; once the feed rests, the offers converge.
- store: one product per SKU; Postgres is never behind ClickHouse; nothing of a
  page vanishes; price jumps need persistence, and the check heals itself.
- writer: counters, order and cap; a released row is not in the buffer, and is
  durable while nothing was dropped; no lost wake-up; the drain comes last.
- pipeline: a saved cursor never passes an observation ClickHouse lacks.
- cache: one fill per key; no follower without a leader; Redis never goes back.
- items: a stored price is one the retailer asked, or the x100 bug on an item
  cheap enough for the cap to let it through; a SKU has one spelling.
- reads: a collection shows the cheapest products that qualify and is short only
  for a reason; a search that was cut says so; an outage is a 500; the points of
  a history carry names; deals come back after an eviction.
- pool and locks: no circular wait, and every request and statement ends.
- migrations: what is recorded is in effect; files take effect in order.
- backfill: once all runs are done, every product they met has an embedding and
  there is an index, whatever overlapped and whoever died.

## 2. The modules

| Module | Models | State and actions in terms of the code |
|---|---|---|
| `CHWriter` | `chwriter.go`, shutdown in `cmd/ingestd/main.go` | A buffered row is its enqueue number. One action per critical section of `mu`: `Add`, the locked test of `WaitFlushed` (`Release`, `Block`), `Take`, `Ack`, `Requeue`. Between them: the insert (`InsertOk`, `InsertFails`, which may have stored any of its rows), the sends on `kick`, the select. `open[c]` says that the notify channel `c` captured is not closed yet. |
| `FeedStream` | `stream.go` | Methods are atomic, as in the code. A price-and-stock state is the number of the event that produced it; `log` is the history the buffer is compared with. |
| `FeedSync` (extends `FeedStream`) | `server.go`, `worker.go`, the guard of `store.go` | `/catalog` is built item by item (`Read`, `StampItem`, then `RespondCatalog`), because the handler holds no lock over the page. `wk` is the place of the worker; `saved` is the cursor text, encoded and parsed as in the code. |
| `HistoryCursor` | the contract in `chwriter.go:14-23` and `worker.go:201-205` | Abstract: observations get stored, and a cursor moves only over stored ones. |
| `IngestPipeline` (instances of `CHWriter` and `HistoryCursor`) | workers, writer and cursors of one process, and its next lives | `AddPage`, `Return` (saves, or fails to), `Inside` (all other writer steps), `Restart`. `CursorPromise` is the refinement of `HistoryCursor`. |
| `FeedItem` | `appendItem`, `normalize.go` | Operators: an item as the feed intends it, what it looks like on the wire, and what `Normalize` makes of that. The random draws of `appendItem` are a record, the item's mess: x100 prices, wrong currency, old timestamp, missing field, price format with its drift, SKU style, mangled copy. Prices are cents, so bounds and roundings are the code's. |
| `OfferStore` (extends `FeedItem`) | `processItems`, `UpsertBatch` and its helpers | Workers fetch pages of raw items, normalise them, and quarantine the refused ones. A retried page is fetched again, with its mess drawn anew. One action per SQL statement or critical section, for concurrent workers. A writing statement may report an error after it committed. |
| `RowLocks` | the multi-row insert of `resolveProducts` | One row at a time in the order the code sorted them, each locked until the statement commits. |
| `Cache` | `cache.go` | A flight is named by its leader. A payload is the version of the rows it was computed from. |
| `ConnPool` | handlers of `internal/api` on the pool of `cmd/api` | Who holds which connection and `retailersMu`. `BreakOff` is the early `break` in `loadCollection`, which keeps its connection. |
| `Migrate` | `cmd/migrate` | Per process: the file and the statement it is at; what is executed and what is recorded. |
| `Storefront` | `collections.go`, `search.go`, `products.go`, `deals.go` | One action per statement of `loadCollection`, `runSearch`, `loadProduct`, `handleHistory`, `refreshDeals` and `handleDeals`, each on its own snapshot, beside the writes of ingestd (`Create`, `Upsert`, `Observe`, `EnsureRetailer`). A statement may fail, and the stream of its rows may break. State: the tables, the cached retailer names, the key `deals:top` that Redis may evict, the request under way. |
| `Embedding` | `cmd/embed` | Per run: the statement it is at and the batch it has read. `Select` and `Update` are the loop; `Drop`, `Look` and `Create` are `ensureIndex`. Runs die, are repeated, and overlap; ingestd inserts products. |

`MC<Module>.tla` adds symmetry sets for TLC where no liveness is checked, and the
tables, rules, queries and messes of an instance; the `.cfg` files choose among them. `<Module>Proofs.tla` extends a module with
its theorems; `OfferStoreProofs` also holds those about `RowLocks`, and
`StorefrontProofs` those about `ConnPool`, whose definitions are named apart
for that. A definition whose comment begins with (Fault) is a plausible mistake in the
definition that follows it. No specification uses one; replacing the definition
by its faulty form must violate the property the `mutants` list of
`PROJECT.json` names, so that each property is known to have teeth.

## 3. The runs

Passing runs:

| Run | Bounds | What it shows |
|---|---|---|
| `writer` | 2 callers, cap 2, batches up to 3, 4 rows | counters, nothing lost, FIFO, bounded memory, watermarks, drain last; `WaitersReturn`: no waiter sleeps forever once ClickHouse recovers; `ShutdownEnds`, even when it never does |
| `sync` | 3 indexes, 2 carried, buffer 2, page 1, 3 updates, 1 feed restart, 1 crash, quiet pages | `SinceIsExact` for every cursor and limit; `Synced`, `NothingSkipped`, `NoRegress`; `EventuallySynced` |
| `pipeline` | 2 workers, page 1, cap 2, 2 positions, 4 rows, 1 restart | `NothingDropped`, `CursorPromise` |
| `store` | 2 retailers, 2 products, 2 items each in pages of 2, spellings, missing and foreign fields, 1 failed statement | `OneProduct`, `OffersCoverEvents`, `NothingVanishes` |
| `store_spikes` | 1 retailer, 1 product, prices 100, 2000 and 2003 cents in every format, the x100 bug, 5 items, 1 crash | `PricesAreMeant`, `SelfHeals`; `JumpsAreObserved` when no statement fails |
| `locks` | 3 workers, 3 keys | `NoDeadlock`, `StatementsEnd` |
| `cache` | 2 requests that repeat, 1 key, 2 changes | `OneFill`, `NeverBackwards`, `RequestsEnd` |
| `pool` | 3 connections, 3 requests, 2 collections | `PoolDrains`, `RequestsEnd` |
| `read` | 12 tables of 3 products in 3 shops, 1 write, scan cap 4, candidate cap 2, pages of 1, 1 deal | `CheapestFirst`, `PageComplete`, `CutIsReported`, `DealsAreDislocations`, `DealsComeBack`, `OutageIsA500`, `PointsAreNamed` |
| `migrate` | 2 processes, 3+1 files, 2 crashes | `RecordedIsApplied`, `InOrder`, `CompletesUnlessTorn` |
| `similar` | 2 runs of the backfill, 4 starts, batches of 2, 3 products that grow to 5 | `RerunIsSafe`, `BackfillEnds` |

Why the bounds are enough. Each is the smallest at which the hazards occur
together. The writer overflows while a flush is in flight with a cap of 2 and a
batch of 3. The feed's buffer loses an update once there are three, and a
sequence number aliases after one restart. Two workers are enough for every
race on the shared tables, as all of them are pairwise; a lock circle may
take three. A streak of three with an interruption needs five items. In the
cache a request that has ended begins again, so two of them also play the
leader, the next leader and a late reader of one flight. Three products in
three shops give six offers at most for a scan cap of 4, three matches for a
candidate cap of 2, and the odd number of prices that a median needs beside the
even one; one write between two statements of a request is what its snapshots
can differ by. Two runs of the backfill are one that drops the index and one
that looks for it. The proofs of section 5 remove the bounds of most modules.
The lower price bound of a search is symmetric to the upper one and left out;
the category of an offer is that of its product.

`sync` assumes `Quiet`: the feed does not tick while it builds a
catalog page. Without that assumption `sync_pin` and `MCFeedSync_stamp` fail, and
most other guarantees of the worker depend on them.

Statements of the repository that the code does not keep. One of them is a
violation run (quoted under `findings` in `PROJECT.json`):

| Run | Statement | What happens |
|---|---|---|
| `sync_pin` | updates that land mid-sync get replayed (`worker.go:88-89`) | `as_of_seq` is read after the items |

The others can be seen by running TLC by hand on the configuration named:

| Configuration, property | Statement | What happens |
|---|---|---|
| `MCMigrate_wedge`, `Completes` | files are applied once and recorded (`cmd/migrate/main.go:1-3`) | a crash in between makes every later run fail on `001_init.sql` |
| `MCCHWriter_contract`, `ReleasedIsSettled` | a released row is written or dropped (`chwriter.go:79-80`) | the cap trims while a flush is in flight, and the credit goes to the rows in flight |
| `MCFeedSync_stamp`, `NewerWins` | out-of-order updates cannot regress a price (`README.md:51`) | an item is stamped after its state was read |
| `MCFeedSync_burst`, `NewerWins` | last update per SKU wins (`store.go:110`) | updates of one tick share a timestamp; the first one stays |
| `MCCache_retry`, `FollowersRetry` | followers retry as new leaders (`cache.go:39-40`) | they return the leader's cancellation |
| `MCOfferStore_retry`, `JumpsAreObserved` | three consecutive observations (`README.md:49`) | a retried page counts again |
| `MCOfferStore_heal`, `SelfHeals` | after this many rejections the price is accepted (`store.go:34-35`) | the streak is deleted before the upsert that may fail |
| `MCOfferStore_blip`, `JumpsPersist` | a persistent spike is the truth (`store.go:35-36`) | three different spikes count as one that persists |
| `MCStorefront_history`, `HistoryIsWhole` | a database outage must surface as one (`products.go:65-67`) | `handleHistory` does not look at `rows.Err` (`products.go:133`): a stream that breaks is served as a complete answer |
| `MCStorefront_cut`, `TruncatedIsCut` | truncated says the match set outran the cap (`search.go:134`) | a match set of exactly the cap is marked as well |
| `MCStorefront_relevance`, `RelevantFirst` | the form calls the default order relevance (`showcase.go:470`) | candidates are taken by relevance and shown by id |
| `MCEmbedding_empty`, `TrainedOnVectors` | the index trains on real vectors (`cmd/embed/main.go:2-3`) | with no product in the table, it is built on none |

`MCCHWriter_contract` is masked in ingestd: every worker waits before it adds
again, so the buffer cannot reach its cap (`pipeline`, `NothingDropped`).
`MCFeedStream` is the change feed alone with bursts and longer histories, for a
look at `Since` that the server and the worker do not slow down.

## 4. Fairness

- Goroutines, requests and statements that can step, step (weak fairness).
- `CHWriter`: Go's select picks among ready cases at random, so a context that
  stays done is taken: strong fairness of `FlushOnDone`. `WaitersReturn` also
  assumes that ClickHouse does not fail every insert forever (`Recovers`);
  `ShutdownEnds` does not. Nobody has to call `Add` or to shut down.
- `FeedSync`: requests, upserts and saves may fail again and again but not
  forever, and a dead retailer is revived. Ticks, restarts and crashes are never
  forced.
- `RowLocks`: Postgres queues waiters (strong fairness of `Insert`). Nobody has
  to abort.
- `ConnPool`: pgxpool and `sync.Mutex` serve their waiters, handlers issue
  finitely many queries. No client has to hang up; the code sets no deadline.
- `Migrate`: somebody runs migrate again.
- `Storefront`: a request ends; the loop of `deals.go` goes on for ever, and its
  statements do not fail every time (strong fairness of `Refresh`, `QueryDeals`,
  `SetDeals`). No write and no eviction is forced.
- `Embedding`: a run that has started takes its next step, if it does not die.
  Nobody has to start one, and products stop coming at the bound `Last`.

## 5. The proofs

All theorems are checked by TLAPS without bounds on clients, rows, workers,
keys, connections, requests, products, files or runs.

- `CHWriterProofs`. The invariant `WriterInv` is the type invariant,
  `CountersAgree`, `BufferIsNewest`, `BoundedMemory`, `NothingLost` and three
  strengthenings: `BatchState` (without a flush in flight the batch is empty,
  and before its acknowledgement it is already durable), `Contiguous` (the batch
  starts right above `flushedSeq`, or the buffer is exactly full and rows have
  been dropped) and `ReleasedIsCredited` (a released watermark is at or below
  `flushedSeq`, which never decreases). They are needed because a requeue puts
  the batch in front of the buffer: the result is the newest rows in order only
  if nothing is missing between the two, or if the buffer is full and the whole
  batch is dropped. `KeepNewestIsSuffix`, `KeptOrDropped`
  and `ConcatElements` are the facts about sequences; `TrimStep` is the cap as
  one lemma, shared by `Add` and `Requeue`. The safety properties of the
  run `writer` and `ReleasedNotBuffered` follow; `NoRowAfterTheDrain` has a small invariant of its own.
- `IngestPipelineProofs`. `PipeInv` takes over `WriterInv`, by an instance of
  `CHWriterProofs`, for the steps of the writer, and adds what the composition
  gives: `OnePageEach` (a row the watermark does not cover belongs to the last
  page of some worker), `DurableIsEnqueued`, `PageInHand` and
  `CursorsAreCovered`. `OutstandingFits` counts: a row beyond the watermark is
  told apart by its worker and its distance to that worker's watermark, so there
  are at most workers times page size of them, which `PipelineAssumption` puts
  within the cap (8 x 500 against 500 000 in the repository). Hence
  `NothingDropped`; so a released row is stored; so every step is one of
  `HistoryCursor` or none (`CursorPromise`). `ReleasedIsStored` is proved on the
  way; no run lists it, since `CursorPromise` rests on it.
- `FeedSyncProofs`, in three layers.
  - `StreamInv`: updates are numbered without a gap, and the buffer is the end
    of the history. `NextIsStreamNext` turns an index of the buffer into one of
    the history; `ExactAtCursor` is then `SinceIsExact` for one cursor, the 410
    conditions included.
  - `SyncInv`, for quiet pages: the position and the saved one claim only what
    rows have (`Claims`), nothing bears a time to come (`Dated`), a catalog page
    has all of its stretch, newer than every update at or before its `as_of_seq`,
    and an offers page has every update between the position and the next
    (`Pages`). While the worker waits, the claim of the next position is stored
    already; so a crash or a failed save may fall anywhere. `NothingSkipped`
    follows.
  - `FaithInv`, for quiet pages and one update per tick: there is a monotone
    timeline of every product's state such that each row, each item in hand and
    each log entry shows the state of its own time (`Dates`); the history after
    any position ends, for every product it names, at the current state
    (`Tells`); and a product the sync has passed is stored as it is unless an
    update follows (`Holds`). `Synced` and `NoRegress` follow.

  Both hypotheses are needed, and each is a finding about the code: without
  `Quiet`, an item may be stamped after its state was read (`MCFeedSync_stamp`)
  and the pinned position claim an update in between (`sync_pin`); with bursts,
  two updates share a timestamp and the older may stay (`MCFeedSync_burst`).
  Stated apart, they show which guarantee hangs on which: `SinceIsExact` on
  none, `NothingSkipped` on `Quiet` alone.
- `OfferStoreProofs`, the offer store. `StoreInv` follows an item from the feed to
  its tables, for statements that fail before or after they commit and crashes
  in between: what a worker holds is what `Normalize` leaves of an offer of the
  feed, its price as meant (`PageTypes`); identities are given in increasing
  order (`IdsAreBounded`), and one in the cache or in hand is the one in the table
  (`IdsAreCurrent`, `OneProduct`), because no product is ever deleted; past the
  upsert an accepted item has a row that is as new (`RowsAreWritten`), past the
  quarantine a refused one is kept (`RejectsAreKept`). `OneProduct`,
  `OffersCoverEvents`, `PricesAreMeant` and `NothingVanishes` follow without
  hypotheses. `HealInv` is the spike check for `MaxFailures = 0`, crashes
  allowed: the held row is the one the upsert meets (`HeldIsCurrent`), a streak
  counts observations once each (`StreaksAreEarned`), a rejection is counted until
  an acceptance ends both (`RejectionsAreCounted`). It gives `SelfHeals` and
  `JumpsAreObserved`. With a failed statement both are false
  (`MCOfferStore_heal`, `MCOfferStore_retry`), because the streaks change before
  the upsert that may fail.
- `OfferStoreProofs`, the row locks. `LockInv` (every lock is below every key
  still wanted) is inductive because a statement moves to its least remaining
  key. In a circle of waiters, the one that wants the greatest key would wait
  for a lock of a worker that wants a greater one (`GreatestMember`, by
  well-founded descent on the naturals).
- `StorefrontProofs`, the answers, for any tables, rules, queries and limits,
  with writes of ingestd between any two statements. `FrontInv`: each request
  keeps to its own statements, a failure ends it, and whatever has a price
  history is of a retailer with a name; hence `OutageIsA500` and
  `PointsAreNamed`. `FirstAreCheapest` says what ORDER BY with LIMIT returns, and
  `FewHitsAreAll` that a candidate set below its cap lost nothing, which is
  `CutIsReported`. `CountInv`: between its two statements a collection holds the
  walk's items, cheapest first; `CheapestFirst` and `PageComplete` follow, the
  early `break` included. `MedianOfTheOthers` is the argument behind
  `DealsAreDislocations`: the query's median includes the cheapest price, which
  can only pull it down, so what undercuts that median undercuts the others'.
- `StorefrontProofs`, the pool. `OneLoad` bounds the holders of `more` by the
  number of collections, which `PoolAssumption` puts below the number of
  connections (6 against 16 in the repository); the pigeonhole is
  `FewCollections`.
- `CacheProofs`. `FlightInv`: a leader is the one listed, which gives `OneFill`;
  what a leader is about to store is no older than what Redis holds, which
  gives `NeverBackwards`.
- `MigrateProofs`. `MigrateInv`: the files a process has passed are recorded
  (`Behind`), and the statements of its own file it has passed are in effect
  (`Progress`).
- `EmbeddingProofs`. `BackfillInv`: past its loop, a run has left nothing it met
  without an embedding; while there is no index although a run is done, somebody
  who dropped it is under way, or has died.

Assumptions on constants are the named `ASSUME`s of the modules; TLC evaluates
them in every run. A theorem that needs more (`Quiet`, `Burst <= 1`,
`MaxFailures = 0`) says so in its statement; the runs `sync` and `store_spikes`
take the same values. Every invariant and every action property of the passing
runs is a theorem. Model-checked only is the liveness, which is outside the
prover's reach: `WaitersReturn`, `ShutdownEnds`, `EventuallySynced`,
`StatementsEnd`, both `RequestsEnd`, `DealsComeBack`, `CompletesUnlessTorn` and
`BackfillEnds`.

## 6. What is abstracted, and what is not modelled

- Titles, brands and URLs are present or absent. A SKU is a product and a
  spelling.
- Several requests at once in `Storefront`: they share only the retailer names
  and `deals:top`, each read and written in one step. Flights and connections
  are shared, and have the modules `Cache` and `ConnPool`.
- The neighbours of similar (pgvector's approximate order), the list of
  collections, and the vectors of the backfill (floating-point hashing).
- Two ingestd processes at once: the daemon is run once.
- Duplicate rows in ClickHouse: a retried insert stores them twice; the rollup
  is insensitive to that (`worker.go:203-205`).
- Postgres is a set of rows with atomic statements; ClickHouse, Redis and
  pgxpool are modelled from how the code uses them.
- Showcase and routing (rendering of what the handlers answer), metrics,
  configuration, dbstat: no state the system acts on. The product universe is a
  pure function; which products a retailer carries is a constant.
- The creation of `schema_migrations` itself.
- A panic in a cache fill (see the hazards).

## 7. Plan

Done, in this order: `CHWriter` and its proofs; `FeedStream`, `FeedSync`;
`HistoryCursor`, `IngestPipeline`; `Cache`; `OfferStore`; `RowLocks` and its
proofs; `Migrate`; `ConnPool` and its proofs; `FeedItem` and raw pages in
`OfferStore`; `Storefront`; `Embedding`; the proofs of `IngestPipeline`,
`FeedStream` inside `FeedSync`, `Cache`, `Migrate` and `Embedding`; the proofs of
`OfferStore`, of the worker in `FeedSync`, and of `Storefront`.

What is left:

1. `OfferStore`: how far a failed statement reaches. The spike check should
   keep its promises for the products of pages without one, and reject at most
   `SpikeAcceptAfter` times more per failure.
2. `FeedSync` with bursts: what `Synced` becomes when two updates share a
   timestamp (the row is one of the product's states at its time).
3. `Storefront` behind `Cache`: whether an outage that is answered with a 500 can
   be cached (errors are not stored, so the two modules should compose).
4. `Migrate`: two first runs that race on the creation of `schema_migrations`.
