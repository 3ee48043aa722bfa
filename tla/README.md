# A TLA+ model of the A-share research platform

This directory holds TLA+ modules of the platform's stateful parts, the TLC
configurations that check them on small instances, and proofs that TLAPS checks
for instances of every size. The modules are translated from the source under
`src/`; documents are quoted only where a property states what they promise.

## The system

A FastAPI backend (one uvicorn process, request handlers on a pool of threads),
a command line scanner, batch scripts, PostgreSQL, and a React dashboard.

| Component | State | Operations | What makes it correct |
|---|---|---|---|
| Database price-history sync, `backend/app/services/market_data_sync.py` | tables `stocks`, `daily_prices`, `daily_price_sync_ranges`; a request's progress | `sync_stock_price_history`: read coverage, load open dates, read stored dates, fetch each missing range, upsert, merge coverage, commit, answer | no session is called covered without its bar unless a provider lacked it on a later day; answers are complete; only what is missing is fetched; coverage rows are merged; requests end |
| BaoStock clients, `scanner/ingestion/baostock_provider.py`, `local_daily_cache_sync.py` | one global `baostock` session, two class-wide locks, the process's stdout, the connection pool | login, query, logout | a query runs within its own login; every lock, connection and stdout is given back; requests end |
| Local CSV cache sync, `local_daily_cache_sync.py`, `local_daily_cache.py` | one CSV file per stock, one class-wide lock | read bounds, fetch the tail, merge, rewrite in place, answer | the file has no hole; a reader sees no hole; stored bars are not lost; requests end |
| Batch cache script, `scripts/cache_baostock_daily.py` | the same CSV files, manifest, summary | `main` with `cache_security` for each security | what a summary calls done is in the files; one failure costs one security; cached stocks stay listed |
| Scanner runs, `scanner/scanning` | tables `scanner_runs`, `signal_definitions`, `technical_signals` | create run; load stocks, histories, definitions; evaluate; commit; mark failed | results whole or absent, counters agree with signals, signals traceable to the definition evaluated, each run gets a verdict |
| Signal rules, `scanner/signals/rules.py` | none | three rules on a history | each decides its written description |
| Ingestion, `scanner/ingestion` | tables `stocks`, `daily_prices` | validation by three providers, one upsert transaction | atomic; what a provider accepts the tables hold, to their last decimal, or refuse as a whole for a known reason |
| AShareHub provider, `asharehub_provider.py` | request count of a client | pages until a short page, within a budget | complete or an error |
| Document index, `backend/app/services/rag_documents.py`, `rag/embeddings.py` | tables `knowledge_documents`, `document_chunks` | upload, delete, search | one document per content, each chunk with its own text's vector, one model per answer |
| Research notes, `research_notes.py`, `ai/` | table `research_notes` | generate, list, delete | text safety |
| Dashboard, `frontend/src/App.tsx` | selection, ranges, pending search, loaded data | select, search, page, load | what is shown belongs to what is selected; a search synchronises once |
| Read API, `backend/app/api/repository.py`, `routes.py` | none | stock directory over database and cache, symbol lookup, price lists | pages show each stock once, a stock found leads back to itself |
| Intraday aggregation, chart data, text chunking | none | pure functions | agree with the finer data, lose nothing, terminate |

**How they interact.** The dashboard calls the backend over HTTP and may abandon
a call. `POST /stocks/{symbol}/prices/sync` first looks the stock up in the local
cache's manifest: a stock found there is served by the local CSV cache, another
by the database sync. Both reach BaoStock through one global session of its
library, each under a lock of its own. Ingestion and database sync write the same
tables through the same `upsert_market_data`; the scanner reads them in separate
statements at READ COMMITTED. The batch script and the local cache sync write
the same files; they share no lock.

**What is hard.** Requests read shared state, wait many seconds for a provider
and write what they computed from the old reads. Failures end a request at any
step, with a transaction open or a file half written. Locks are held across
provider calls. Midnight passes, and bars are published late, while a request
runs. Unique keys make transactions wait for each other. A commit can succeed
without the process hearing of it. The hazards in `PROJECT.json` list these at
their lines, each with the properties that would catch it.

## The modules

| Module | Models | Uses |
|---|---|---|
| `CoverageRanges` | the meaning of coverage: covered dates, mergeable rows, missing runs | |
| `PriceLedger` | abstract specification of the price cache of a stock | |
| `PriceHistorySync` | the database sync protocol | `CoverageRanges`; implements `PriceLedger` |
| `SyncRangeScans` | the two loops over date ranges, one action per iteration | `CoverageRanges`, whose definitions they compute |
| `ClientSessions` | abstract specification of the sessions of a client class: mutual exclusion | |
| `BaoStockSession` | the BaoStock clients of both classes around one library session | implements `ClientSessions` |
| `CacheBatch` | runs of the batch script over all securities | |
| `LocalCacheSync` | the local CSV cache sync of one file, with the batch script | |
| `ScanRun` | scanner runs | |
| `DocumentIndex` | upload and deletion of documents | |
| `Dashboard` | the page's selection, effects and requests | |
| `MarketDataBatches` | validation by the CSV, AShareHub and BaoStock providers; upsert, the columns' types and the tables' constraints | |
| `AShareHubPaging` | paging under a request budget over a service that changes | `MarketDataBatches`, `ListOrder` |
| `SignalRules` | the three rules and the history they are given | |
| `TextChunking` | normalisation and chunking of a text | |
| `PriceBars` | hours from half-hours, weeks and months from days, moving averages | `ListOrder` |
| `ListOrder` | the elements of a list at some of its places, in their order | |
| `StockDirectory` | the stock list over database and cache, resolution of a symbol | |
| `*Proofs` | theorems and proofs about the module named; `AlgorithmProofs` about every property of `MCAlgorithms` | the module, `TLAPS` |
| `MC*` | small constants for TLC; `MCAlgorithms` also the inputs of the algorithms | the module named |

Every module has one action per step that reads or changes shared state.
A transaction's writes become visible in the action of its commit; reads in
separate statements are separate actions. Operators whose comment begins "Defect
used to test" are plausible bugs: substituted for the definition that follows,
each makes TLC report the named property, so the properties do depend on the
code's behaviour. They are not part of any specification.

### PriceHistorySync

One stock, some workers, each with a `job` record that holds the local variables
of `sync_stock_price_history`; `step` is the next thing to do. `StartRequest`
validates and reads the stock row, `ReadCoverage` lists the coverage rows and
decides a cache hit, `LoadOpenDates` takes the provider's lock if it has one,
`ReadStoredDates` computes the missing runs, `FetchRange` loads one of them,
`Upsert` holds the stock row from there to the commit, `SelectRowsToMerge` and
`Commit` are `_store_merged_coverage`, `Answer` lists the prices. `Teardown` is
what ends a request on every path: the provider dependency closes its client.
`ProviderFails`, `DatabaseFails` and `Restart` end requests early. `Ingest`,
`Publish` and `NextDay` are the rest of the world. The price values of a bar are
left out: a bar is there or not. The history variable `absent` records the
sessions a provider was asked for, after their day, and did not have.

`SyncRangeScans` takes `range_is_covered` and `group_missing_sessions` apart into
iterations and shows that their results are the set-level definitions of
`CoverageRanges` that `PriceHistorySync` uses.

`PriceLedger` says what all of it is for: bars are only added, and a date is
settled only together with, or after, its justification.

### BaoStockSession

Each request of `POST /stocks/{symbol}/prices/sync` is a process; `DatabaseRequests`
use `BaoStockHistoryClient`, `CacheRequests` `BaoStockQfqDailyClient`. `BeginLogin`
takes the class's lock and redirects `sys.stdout` (the `redirect_stdout` context of
`_ensure_login`), `LoginSucceeds` and `LoginFails` restore it; `Query`, `BeginLogout`,
`Logout`, `LogoutFails` and `NothingToLogOut` are the rest of the client. `session`
is the library's one session: who logged in last. `ReadCoverage` takes a connection
of the pool, which `Store` or `Teardown` returns and `AnswerFromDatabase` may need
again; `CheckOutTimesOut` is the engine's `pool_timeout`. `ReadBounds` is the
decision under the synchroniser's lock, held until `Teardown` on a miss.

The two classes share the library and stdout but no lock. The history variables
`crossed` and `mixed` record exactly that interference; the properties except it and
say that nothing else breaks a session or loses stdout. A login or a logout that fails
(`LoginFails`, `LogoutFails`) may have ended the library's session all the same, whoever
it was. `ClientSessions` is the
specification of one class: a session opens only when no other of its class is open.

### CacheBatch

`main` of the batch script from `StartRun` to `WriteSummary`: the manifest is
rewritten first (`WriteManifest`), then the loop works on `current` through
`ReadCache` (with `next_fetch_start`), `QuerySucceeds`, `QueryFails`, `Reconnect`,
`Truncate`, `WriteChunk`, `WriteRest`. A price file is the set of dates it holds;
the rewrite can leave a prefix of them, and a part of the next row: cut after its
date it counts as a row, cut within its date (`cut`) it makes `read_cached_rows`
fail until the security is forced. `ConnectionDrops`, `WriteFails` and `Kill` are the
faults, counted in `failures`. A logout or login that raises in the middle of a
`Reconnect` ends the security with an error (`ReconnectEnds`), and of the
two only a failed login clears `logged_in`. Runs follow each other with any selection, start and
end date and options; two overlapping runs are left out. All securities are taken to
have been listed on the first date, and a query that succeeds to answer with every
session of its range: what a provider leaves out of an answer the script cannot know.
`--include-etf-fund` chooses another list of securities (`Fetchable`).

### LocalCacheSync

One stock's file as a set of `whole` rows, rows `broken` after their date, and
whether the last line was cut within its date (`garbled`). `Truncate`,
`WriteChunk` and `WriteRest` are the rewrite: `open("w")` empties the file and
the buffer is flushed in pieces that do not respect rows. `Answer` reads the
file without the lock. `Script` runs `cache_security`. `owed` is a history
variable: the bars that completed syncs found or stored.

Assumptions: the script and the server do not run at the same time (nothing in
the code prevents it, and without the assumption the later rewrite loses what
the other stored); the provider publishes sessions in order.

Its script rewrites a single file to interleave with requests and crashes of the
server; `CacheBatch` is the script's own control.

### ScanRun

Each scan is a process of some build. `CreateRun` is the first transaction.
`LoadStocks`, `LoadHistories`, `ReadDefinitions`, `InsertDefinition` and `Commit`
are the second; `MarkRunFailed` the recovery transaction. The unique key on
(code, version) is `inserting`, the uncommitted insert others wait for;
`DeadlockDetected` is PostgreSQL's answer to a cycle of waiters.
`CommitUnacknowledged` commits while the process sees an error. A price history
is a `shape`: the rules it is insufficient for and those it matches; `SignalRules` has
the rules themselves.

### DocumentIndex

`StartUpload`, `LookUp`, one `EmbedBatch` per batch of chunks (the provider's
items in any order, repeated or missing), `EmbeddingFails` with its retries,
`Insert`, `Commit`, `FindExisting` after a unique violation, `Refresh`,
`Describe`. `Delete` and `Restart`, with another embedding model, interleave.
Document ids are numbered by the uploads that may create them.

### Dashboard

What is shown and the requests of three parts: `list`, `view` with `load` (the
selected stock), and `panel` (a scanner run). Contents are abstracted to the key
they answer: a query and page, a stock with range and frequency, a run. One
action per click (`UserActs`) and per answer; an effect that runs again replaces
the part's request, which is what `controller.abort()` amounts to.
`LoadDetail` is the effect of the selected stock: a click runs it at once, a
callback of a promise leaves it `due` (React flushes effects of discrete events
synchronously, others in a later task), and `DetailSucceeds` or `DetailFails` of
the old load may come first. `requestJson` turns an abort during the reading of
an error body into an ordinary error: `stale` holds such requests and
`Stale...Fails` are their callbacks. Either window can leave a message of an
abandoned request on the page; the history variable `disturbed` names the parts
where that happened since the messages were last cleared, and the properties
about messages except them. `SyncFails` is the fallback to cached prices.

The early return of `submitSearch` for an invalid range only sets a message, so
`Ranges` holds the valid ones. The list of scanner runs, recent stocks (any
stock may be selected at any time), filters and drawing are left out.

### The algorithms

Code without shared state is modelled as operators, and `MCAlgorithms` enumerates
their inputs: an initial state is one input, its `probe`, and an invariant says what
the result must be. (The two loops of `SyncRangeScans` are probes that take steps.)

* `MarketDataBatches` states each provider's validation and, apart from it, what the
  tables hold: the length of a name, the four decimals and the largest value of the
  numeric columns, the range of a BIGINT, the check constraints and keys, and the number of
  parameters of one statement. `BatchIsStored` compares the two exactly: a batch is refused
  as a whole if and only if one of the reasons of `Refused` applies, and else each row of
  it is stored, every price and amount within half a unit of the column's last decimal
  (`Nearest`). `rounded` is the column's conversion, and the constraints are checked on
  its results, as the database does. Fields are numbers, missing or unreadable. A name
  is the number of its characters, or `Unencodable` if PostgreSQL cannot hold one of
  them. A sent number counts parts, of which `Fraction` make one unit of the column's last
  decimal. Volumes are half shares and amounts yuan whatever unit the provider sends (lots
  and thousands for AShareHub); the 28 digits to which Decimal multiplies are left out,
  as is a connection lost in the transaction, which rolls back too.
  Rows that a loop skips are left out with `Where`, which keeps the others at their
  places, so that a row is the same row before and after.
* `AShareHubPaging` requests pages of a service that may gain a row between any two
  requests or fail one, under one budget for every endpoint, code and page. The loop of
  `get_all_pages` is a recursive function of the page's number. What an endpoint serves
  for a code is the rows of the code in the endpoint's order (`Served`).
* `TextChunking` works on classes of characters: letter, space, newline, full stop,
  ideographic full stop. That a normalised text shows what the document shows is said
  position by position: the k-th visible character is the same in both (`SameVisible`).
* `PriceBars` has the server's hours (`list_hours`, with the limit applied before the
  aggregation) and the dashboard's weeks, months and averages. Both sides sort by time
  and keep the order of equal times: `InTimeOrder` puts at each place the bar before
  which so many are earlier. A group is a function from places in that order, so a
  `Summary` has its first and last bar by their places.
* `StockDirectory` has the page that begins in the database's list and ends in the
  cache's, and the resolution of the symbols it lists. A list in order is the function
  from ranks to the stocks that have them (`InOrder`).
* `SignalRules` evaluates the rules on the dates of a price table, through the
  windowed query that loads a history for all the selected rules. Averages are
  compared multiplied out: the code's Decimals divide by 5 and 20, which is exact.

## The runs

| Run | Bounds | Shows |
|---|---|---|
| `sync_database` | 2 workers, 4 dates (one closed, one suspended), 3 provider settings, 2 requests, 1 ingestion | `TypeOK`, `CoverageSound`, `ResponseComplete`, `OnlyMissingFetched`, and that the protocol implements `PriceLedger` |
| `sync_serialised` | BaoStock, 3 dates, 3 requests | `RangesMerged` when requests share a lock; `RequestsFinish` |
| `sync_unmerged` | AShareHub, 3 dates, 2 requests | **violated**: without a shared lock two requests leave coverage rows unmerged |
| `bao_session` | 3 database requests and 1 cache request, a pool of 2 | `SessionsAreExclusive` (implements `ClientSessions`), `QueriesRunInTheirSession`, `StdoutRestored`, `RequestsFinish` |
| `cache_batch` | 3 securities (one not fetched), 4 dates (one closed), 2 start and 2 end dates, 3 runs, 2 attempts a query, 2 faults | `FailuresNeedFaults`, `CompletedReachesBothEnds`, `CachedStocksStayListed` |
| `batch_hole` | the same | **violated**: a security reported completed or skipped has a hole in the range |
| `algorithms` | see below | the two loops compute their definitions (`CoverScanCorrect`, `GroupScanCorrect`); `AcceptedBatchesAreStored`, `LoadIsComplete`, `TextIsKept`, `BarsSummarisePrices`, `PagesListEveryStock`, `SignalsFollowPrices` |
| `local_cache` | 2 workers, the script once, 5 dates, 3 requests from before the list date, 1 fault | `Contiguous`, `AnswersHaveNoHole`, `CaughtUp`, `SyncsFinish` |
| `local_gap` | 2 requests, one from a later date | **violated**: `Contiguous` fails, a hole that no later sync fills |
| `scan_run` | 2 scans, 2 builds, 2 stocks, 2 rules in both orders, 3 shapes, 1 change, 1 lost acknowledgement | `NoPartialResults`, `SummaryAgrees`, `SignalsTraceable`, `VerdictReached` |
| `document_index` | 2 workers, a text of 3 chunks in 2 batches and a blank one, 2 models, 2 attempts, 4 uploads, 2 deletions | `TypeOK` (attempts bounded), `ChunksHaveTheirVectors`, `AnswersMatchTheModel`, `UploadsFinish` |
| `dashboard` | 4 clicks, 2 stocks, 2 queries (one of 2 pages), 2 ranges, 2 frequencies, 2 runs | `ChartIsCurrent`, `MessagesAreCurrent`, `ListIsCurrent`, `PanelIsCurrent`, `SearchSynchronises`, `LoadingEnds` |

Why these bounds: every conflict the modules contain is between two actors, so
two workers or scans show it; three requests are needed where a third must find
what two left behind. Four or five dates hold a closed day, a suspended session,
today, and a session after midnight. Two rules in two orders are the smallest
cycle of waiters; two batches are needed to mix up vectors across batches.
`local_cache` asks only from before the list date because `local_gap` shows that
other requests make holes: the pair says exactly on what `Contiguous` depends.
Four clicks of a user are a search, a page, a selection and a retry, in any order
among answers; what a later click replaces does not depend on earlier ones.
`bao_session` needs a third database request for the pool: one holds the lock and has
returned its connection while the two that wait for the lock hold both. `cache_batch`
needs three runs: one is cut short, one continues past the hole, one reports on it;
its start date 3 is a closed day, as the script's default start date is.
`algorithms` takes: for the loops, 4 dates, every coverage table of up to 3 rows, every
calendar and stored set; batches of up to two stocks and two prices, one row with
every mix of values, rounded up, rounded down and just beyond its column among them (the
columns hold little, and `Fraction` is 10), names of every length up to one too long,
and up to 4 stocks and 3 prices where a statement may have 18 parameters; a budget of 2 to 6 requests, pages of 1 and 2 rows, up to 3
stocks and one row added at any place before any request; texts of up to 6
characters, chunks of 1 to 4; up to 4 half-hours on each of 3 days; fourteen days for
weeks and months; 3 stocks in database and cache in any states; 7 days of closes in
1 .. 3 with windows of 2 and 3, where both orders of the averages, equality and all
boundaries occur. The windows differ, though the code's rules all need 21 bars today,
because the loading is written for any.
The bounds on requests, faults and changes are constants in the guards. As they
stop the system, the runs do not check for deadlock; the liveness properties say
instead that nothing started is left waiting.

### Findings

* `sync_unmerged`: docs/03_database_design.md:146 promises merged ranges. With
  AShareHub two requests may each select before the other commits. Coverage stays
  sound (`CoverageSound` has no such exception); a later request merges the rows.
* `local_gap`: docs/04_api_design.md:361-363 promises that the missing tail is
  fetched. A request whose `from_date` is past the cached end leaves a hole, and
  as only the latest date counts later, it is permanent.
* `batch_hole`: scripts/cache_baostock_daily.py:634 reports "cache already covers
  requested range" after comparing the first and last date only. A run that starts
  past a file's end leaves a hole, and later runs over it skip the security.
  `CompletedReachesBothEnds`, which holds, is what remains true.

Three more were met while modelling and have no run of their own:

* README.md:404-405 says that rerunning the script skips completed files. The default
  start date is not a trading day, so every file begins after it, and
  `next_fetch_start` (cache_baostock_daily.py:375) fetches the whole history again.
* README.md:494 promises that a failure rolls signals back. After a commit whose
  acknowledgement is lost (scanning/service.py:226) the run is marked `failed` with its
  signals stored: the case `unheard` that `NoPartialResults` excepts.
* docs/02_system_design.md:257-258 says that loading and retry states are handled.
  Previous (App.tsx:676), clicked after the first page failed to load while a later
  page's pagination is still there, sets the loading flag but changes no offset: no
  request is sent, and the Retry button is gone.

### What the properties except

An exception is named in the property where it is made, and each was found by
checking the property without it:

* `AcceptedBatchesAreStored` states that a batch is refused exactly when `Refused` says
  so. From any provider: a number larger than its column (`LargeNumber`), more rows than
  one INSERT has parameters for (`TooManyRows`: repository.py sends a table's rows in one
  statement), a name the database cannot encode (`UnencodableName`). From a CSV file: a
  price of a stock nobody described (`UndescribedStock`). From AShareHub: a name that is too
  long, which the CSV provider checks and this one does not (`LongName`), reversed list
  and delist dates (`ReversedDates`). From BaoStock: a repeated date (`RepeatedDate`). The batch
  rolls back. What AShareHub leaves out with a warning, prices of stocks it did not
  describe, is the only thing not stored of a batch that is.
* `LoadIsComplete` is about services that only add rows: a row removed from an earlier
  page moves another past the offset, unnoticed.
* `BarsSummarisePrices`: days with an odd number of half-hours, where the limit can cut
  an hour in two.
* `PagesListEveryStock`: tables that rest between two pages.
* `QueriesRunInTheirSession`, `StdoutRestored`: interference of the other client class.
* `FailuresNeedFaults`: files cut within a date by an earlier run, until forced.
* `CompletedReachesBothEnds` allows holes between two dates of the file.

### Fairness

A thread or process that can take its next step takes it, and a provider that
was asked answers or fails (weak fairness of `Proceed`, with the failure as an
alternative where the step is the provider's: clients have timeouts or fail on a
broken connection). In `ScanRun`, `Proceed` includes the database's deadlock
detection. Nobody is obliged to fail, to ingest, to publish, to restart or to
start a request. Locks are not assumed fair: the bounded number of requests makes
weak fairness enough. In `BaoStockSession` it includes the pool's timeout, which
SQLAlchemy has by default: without it the holder of the session lock can wait for a
connection that the waiters for its lock hold, forever. `VerdictReached` excepts scans
that were killed or could not reach the database to record their failure. In `Dashboard`, React runs due
effects and the browser ends every request (answered, refused, or broken); the
user is obliged to nothing, and clicks are bounded.

## What is proved

Every theorem holds for all values of the constants that satisfy the assumptions
named in the modules: any number of workers, securities, stocks, chunks or clicks, any
calendar, and without the bounds on requests, faults and changes that the runs need.
The strengthenings hold on the small instances too, where TLC checked them first. Each
proof has one lemma per action, or per group of actions that touch the same state.

**PriceHistorySync** (`PriceHistorySyncProofs`)

* `TypeCorrect`: `TypeOK`.
* `SyncInvariant`: `SyncInv`, the coverage soundness strengthened with `JobSound`,
  which says of each request how the past sessions of its range are accounted
  for at each step: stored, known absent, fetched and not yet written, or in
  ranges still to fetch. `CoverageSound` alone is not inductive: whether a commit
  may settle its range depends on what the request fetched steps earlier, while
  others changed the tables. The facts in `JobSound` survive those changes because
  bars and known absences only grow (`SoundJobStays`).
* `CoverageIsSound` and `ResponsesAreComplete` follow from it.
* `OnlyMissingIsFetched`: `OnlyMissingFetched`, which is inductive with the types. The work
  is in the two steps that compute ranges: no range of `group_missing_sessions` holds an
  available session (`GroupMissingOnly`).
* `ImplementsLedger`: every step is a step of `PriceLedger` or a stutter, with
  the covered dates as the settled ones. The difficult step is `Commit`: the rows
  it deletes must lie within the one it inserts, though both were computed from
  rows read before.
* `SerialisedRowsAreMerged`: if each provider's clients share a lock
  (`Serialised` holds every supporting source), `RangesMerged` always holds. The
  invariant: who is past the calendar holds the lock (`LockInv`), and so the rows
  selected for merging are still those in the table at the commit (`MergeInv`).
  `sync_unmerged` shows that the hypothesis is needed.

**LocalCacheSync** (`LocalCacheSyncProofs`)

* `TypeCorrect`: `BaseInv`, the types with the lock: exactly the request between its
  bounds and its last write holds it, and the script runs alone.
* `FileHasNoHole`, `AnswersAreWhole`: `Contiguous` and `AnswersHaveNoHole`. `Contiguous` is
  not inductive: a rewrite leaves a prefix of rows that were merged steps before, and a
  crash may cut the file at any of them. `DataInv` says that the file, the file with what a
  request has fetched for it, and the rows about to be written are each `Complete`: of the
  sessions wanted, they hold all before any that they hold; and that, unless forced, the
  rows about to be written hold those of the file.
* `NoBarIsLost`: `CaughtUp`, from `OwedKept`: what is owed is in the file or, while it is
  being rewritten, among the rows of the writer.

  The last three have the hypothesis `OneStart`: requests and script all start from one
  date, or all from before the list date. The run `local_gap` is what happens without it:
  the code then leaves a hole, so the hypothesis is the code's limit and not the proof's.
  `local_cache` satisfies it.

**CacheBatch** (`CacheBatchProofs`)

* `CompletedIsReached`: `CompletedReachesBothEnds`. It is not inductive:
  that a file reaches both ends is decided when its security is skipped or its rows
  merged, and told in the summary many steps later. `BatchInv` carries it: securities from
  the current one on have no status yet (`PlaceInv`), those with a good status reach both
  ends (`CoverInv`), and so do the rows about to be written (`RowsInv`); `FetchReaches` is
  the lemma about `next_fetch_start`.
* `CachedAreListed`: `CachedStocksStayListed`, from `ManifestInv`.
* `FailuresAreCaused`: `FailuresNeedFaults`. `FailureInv` counts credit: at every step the
  faults so far pay for the failed securities and for the attempt under way.

**BaoStockSession** (`BaoStockSessionProofs`)

* `SessionsExclude`: it implements `ClientSessions`; `QueriesAreSound` and
  `StdoutComesBack` state the two invariants. The strengthening says where the lock of a
  class is held (from the login's start to the end of `close`, by the only request of
  the class in between), and of stdout that, unless both classes redirected at once, at
  most one redirection is open, and what it saved is the original.
* `TypeCorrect`: `TypeOK`, the pool's bound included.

**ScanRun** (`ScanRunProofs`)

* `TypeCorrect`: `WellTyped`.
* `ResultsAreWhole`: `NoPartialResults`. A scan has signals, or is completed, only when it
  is past its commit (`ResultsAreLast`), and one with signals that is still to record a
  failure did not hear of its commit (`FailuresUnheard`).
* `MatchesAreTraceable`: `SignalsTraceable`. Past the check, each definition a scan uses is
  stored by its own build, or inserted by it and not yet committed, or still to insert
  (`DefinitionsHeld`); what is being inserted is not stored (`InsertsAreNew`), and nothing is
  left to insert at the commit (`ProcessesReady`).
* `SummariesAgree`: `SummaryAgrees`.

**DocumentIndex** (`DocumentIndexProofs`)

* `TypeCorrect`, `AnswersMatch`, `VectorsMatch`: `TypeOK`, `AnswersMatchTheModel` and
  `ChunksHaveTheirVectors`, from one invariant `Inv`: ids are unique, and of each upload
  `JobOK` says that the vectors so far are those of the chunks so far in order
  (`EmbeddedInOrder`), that a document of its content which appeared since its lookup is by
  its model (`RacesShareTheModel`), and that the document it refers to, while stored, is of
  its content and model (`ReferenceMatches`).

**Dashboard** (`DashboardProofs`)

* `TypeCorrect`: `Typed`.
* `ListMatches`, `PanelMatches`, `ChartMatches`, `MessagesMatch`: `ListIsCurrent`,
  `PanelIsCurrent`, `ChartIsCurrent` and `MessagesAreCurrent`. `ChartInv` adds that a load
  under way is of what is selected, unless an effect is due that replaces it; `ListInv` and
  `PanelInv` that a request under way is shown as loading, and not beside an error;
  `MessagesInv` that there is no warning during a load or beside an error.
* `SearchesSynchronise`: the action property `SearchSynchronises`, from `SearchInv`: a
  search that nothing superseded is still pending, on its first page.

**Algorithms** (`AlgorithmProofs`)

* `CoverScanIsCorrect`, `GroupScanIsCorrect`: the loops of `SyncRangeScans` compute their
  definitions for every input. The invariants are about the cursor (all before it is
  covered, and the ranges still to visit are the only ones that reach beyond)
  and about the run being built (it is a maximal run so far).
* `TablesHaveSoundSignals`, `SignalsAreSound`: `SignalsFollowPrices` for every finite table
  of prices (no close above its high) and all window lengths, the code's 5, 20, 20 and 20
  among them. The days kept by the windowed query keep their row numbers
  (`LoadedRowNumbers`), so each rule sees the windows it would see of all days
  (`VerdictOfAllDays`, `ScanSays`); the days before a day are numbered one less the day
  before (`PreviousHistory`), so yesterday's lead is the one today's rule computes, and
  between a day below and a later day above two consecutive days part (`FirstChange`).
* `BatchesAreStored`: `AcceptedBatchesAreStored` for rows of any number and values, any
  provider, any tables, and columns of any size (`ColumnAssumption`). The hypothesis
  `BatchInput` says only of what kinds the fields are: readable numbers, missing or
  unreadable, and names. What a column makes of a number is the nearest it has
  (`RoundedIsNearest`), and rounding keeps the order of the prices, so that what a provider
  compared before it holds after it (`ValidPriceFits`); the limits are those of
  `LargeNumber` exactly. `IngestOutcome` then says when the three reasons to roll back apply.
* `LoadsAreComplete`: `LoadIsComplete` for any page size, budget, codes and calendar. The
  hypothesis `IsClient` has the one thing asked of the service: that rows are only added
  (`RowsAdded`), anywhere and between any two requests. A row then only moves to later places, so
  that a row at a place before the next offset has been read, and one after it will be.
* `EveryStockIsListed`: `PagesListEveryStock` for databases and caches of any size in
  which each key has one record (`IsDirectory`), any filter and any page size. Ranks in a
  finite strict order are the places of the list (`RanksAreBijective`), and each place of
  the database's list followed by the cache's is at one place of one page.
* `TextsAreKept`: `TextIsKept` for any text, length of chunk and overlap. Of normalising,
  the invariant over the characters read is that the visible ones read are the visible
  ones kept, in order, as each step only takes or leaves spaces at the end. Of cutting,
  that from every position from which the loop goes on, the chunks to come hold all that
  is visible after it and begin there or later; positions grow, and so this is shown for
  the last ones first.
* `BarsAreExact`: `BarsSummarisePrices`. Hours, for half-hours in the order of their times
  (`HalfHours`), as the files hold them: where all days have even numbers, the limit cuts
  between two hours, what the loop has aggregated up to the end of a day is the pairs so far
  (`AggregatedIs`), and dropping pairs from the front is dropping hours. Charts, for
  prices of different days whose times follow their dates (`DailyPrices`), in any order, any interval
  and period, and months that begin before the first price (`HasStart`): sorting moves
  each price to one place (`TimeOrderIs`) and the sum of a group does not depend on the
  places (`SumMoved`); the first places of the periods are in the order of the periods,
  as `intervalStart` is monotone (`StartIs`); the running sum is that of its window
  (`RunningSum`).

These hypotheses describe the inputs the code is given, and every probe of the run
`algorithms` satisfies them.

Induction over the length of a list, the number of a page or the size of a set is
done by minimal counterexamples: the least number, or a minimal subset (`MinimalSet`), for which a
claim fails. In the same way `SumStep` shows what the folds of the library are, and
`RecursionExists` that a recursive function has a value: without it nothing can be said of one.

### What is only model-checked, and why

* The liveness properties `RequestsFinish` (twice), `SyncsFinish`, `VerdictReached`,
  `UploadsFinish` and `LoadingEnds`: liveness under fairness needs `ENABLED`, which the prover
  does not have.

Every invariant and action property of the runs that pass is a theorem. The findings are
counterexamples of TLC and need no proof.

## What is not modelled

* Research notes and the AI client: one provider call and one insert, with checks of
  the wording; no state is shared between requests.
* The rest of the read API: plain queries of signals, runs, notes and documents.
* Schema and migrations: constraints appear in the modules that rely on them; the
  migrations are run once by a tool.
* Document loading: parsing of PDF and text bytes by a library.
* Deployment, settings, command line arguments, the wording of answers and reports,
  page layout, filters and drawing.
* Price values in the synchronisation modules, and the values and explanations stored
  with a signal. Front-adjusted histories that change at a dividend, and a row cut after
  its date that still counts as cached, are data hazards without a property.
* Requests that fail validation change nothing and are left out. `LocalCacheSync` takes
  the manifest to be constant. Two overlapping server processes are not modelled, as
  the deployment runs one; nor are two overlapping runs of the batch script.

## Plan

The order was: the database sync first, as most of the platform's state and
concurrency is there, with its abstract ledger and its proofs; then the other
writers of shared state; the session under both syncs and the batch script; then the
algorithms; then proofs of every safety property that the prover can reach. Every safety
property of a run that passes is proved now. What remains would extend the model:

1. `Contiguous` under a weaker hypothesis than `OneStart`: a request may start later than
   others as long as the file is not empty and reaches the day before. `CaughtUp` and
   `AnswersHaveNoHole` do need one start, as what is owed and what an answer should hold
   are counted from the start of a request.
2. The script and the server on one file at the same time, should a document come to
   promise something of it.
3. Two overlapping server processes on one cache directory, should the deployment ever
   run them.
