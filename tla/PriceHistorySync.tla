-------------------------- MODULE PriceHistorySync --------------------------
(***************************************************************************)
(* POST /stocks/{symbol}/prices/sync for one stock kept in the database:   *)
(* concurrent requests, each on a thread of the server's pool, run         *)
(* sync_stock_price_history (backend/app/services/market_data_sync.py)     *)
(* while scanner ingestion writes the same stock, the provider publishes   *)
(* bars, days pass and the server restarts.                                *)
(*                                                                         *)
(* PostgreSQL runs at READ COMMITTED: every SELECT is one step that sees   *)
(* what is committed, and a transaction's writes appear together at its    *)
(* commit.  Row locks matter once: upsert_market_data updates the stock    *)
(* row, so of two writers of the stock the second waits for the first.     *)
(***************************************************************************)
EXTENDS CoverageRanges

CONSTANTS
  Workers,      \* the threads that serve requests
  NoWorker,     \* "nobody holds the lock"
  Sources,      \* the providers a deployment may be configured with
  Supporting,   \* those that exist and support the stock's exchange
  Serialised,   \* those whose clients share one class-wide session lock
  Horizon,      \* the last date of the model
  OpenDays,     \* the sessions of the exchange calendar
  Traded,       \* the sessions in which the stock was not suspended
  FirstToday,   \* the date the model starts on
  Listings,     \* the values the stock's list and delist date may take
  MAX_SYNC_RANGE_DAYS,
  MaxRequests,  \* bound: requests started in a behaviour
  MaxIngests    \* bound: ingestion runs in a behaviour

Days == 1 .. Horizon
Dates == 0 .. Horizon
NoDelist == Horizon + 1   \* delist_date IS NULL; list_date NULL is 0
StockRow == [list_date : Dates, delist_date : 1 .. NoDelist]

ASSUME ConstantsAssumption ==
  /\ NoWorker \notin Workers
  /\ Supporting \subseteq Sources /\ Serialised \subseteq Sources
  /\ Horizon \in Nat
  /\ Traded \subseteq OpenDays /\ OpenDays \subseteq Days
  /\ FirstToday \in Days
  /\ Listings # {}
  /\ Listings \subseteq StockRow
  /\ MAX_SYNC_RANGE_DAYS \in Nat
  /\ MaxRequests \in Nat /\ MaxIngests \in Nat

VARIABLES
  today,        \* the server's date
  published,    \* sessions whose bar the provider can return
  configured,   \* the provider chosen by the settings of this process
  session_lock, \* holder of the client class's _session_lock
  stock,        \* table stocks: the row's list_date and delist_date
  prices,       \* table daily_prices: the dates that have a bar
  rows,         \* table daily_price_sync_ranges
  next_id,      \* identity counter of that table
  stock_lock,   \* the uncommitted request that updated the stock row
  job,          \* job[w]: the request worker w is serving
  absent,       \* history: sessions a provider lacked after their own day
  requests, ingests   \* counters for the bounds

tables == <<stock, prices, rows, next_id>>
world == <<today, published, configured>>
bounds == <<requests, ingests>>
vars == <<world, tables, session_lock, stock_lock, job, absent, bounds>>

Steps == {"idle", "coverage", "calendar", "stored", "fetch", "upsert",
          "merge", "commit", "answer", "done"}

Ranges == [start_date : Days, end_date : Days]
Rows == {r \in [id : Nat, source : Sources, start_date : Days, end_date : Days] :
           r.start_date <= r.end_date}

JobType ==
  [step : Steps, from_date : Days, to_date : Days, current_date : Days,
   stock : StockRow,
   coverage : SUBSET Rows, stored : SUBSET Days, missing : SUBSET Ranges,
   fetched : SUBSET Days, writes : BOOLEAN, merging : SUBSET Rows,
   answer : SUBSET Days]

\* A worker without a request; a request that ends leaves only its response.
NoJob == [step |-> "idle", from_date |-> 1, to_date |-> 1, current_date |-> 1,
          stock |-> [list_date |-> 0, delist_date |-> NoDelist],
          coverage |-> {}, stored |-> {}, missing |-> {}, fetched |-> {},
          writes |-> FALSE, merging |-> {}, answer |-> {}]

Init ==
  /\ today = FirstToday
  /\ published = {d \in Traded : d < FirstToday}
  /\ configured \in Sources
  /\ session_lock = NoWorker /\ stock_lock = NoWorker
  /\ stock \in Listings
  /\ prices = {} /\ rows = {} /\ next_id = 0
  /\ job = [w \in Workers |-> NoJob]
  /\ absent = {}
  /\ requests = 0 /\ ingests = 0

-----------------------------------------------------------------------------
(* The request's own arithmetic on dates. *)

Earlier(a, b) == IF a <= b THEN a ELSE b
Later(a, b) == IF a >= b THEN a ELSE b

effective_start(j) == Later(j.from_date, j.stock.list_date)
effective_end(j) == Earlier(j.to_date, j.stock.delist_date)
effective_range(j) == effective_start(j) .. effective_end(j)
open_dates(j) == OpenDays \cap effective_range(j)

current_date_complete(j) ==
  \/ j.current_date \notin open_dates(j)
  \/ j.current_date \in j.stored \cup j.fetched

\* Defect used to test CoverageSound: today is always taken as completed.
completed_with_today(j) == effective_end(j)

\* An open session of today stays outside the coverage until its bar arrives.
completed_end(j) ==
  Earlier(effective_end(j),
          IF current_date_complete(j) THEN j.current_date
                                      ELSE j.current_date - 1)

\* Defect used to test TypeOK: a range without a completed part is stored too.
AlwaysCompleted(j) == TRUE

\* There is a completed part of the range to remember.
HasCompleted(j) == effective_start(j) <= completed_end(j)

-----------------------------------------------------------------------------
(* One action per step of a request. *)

At(w, step) == job[w].step = step
Update(w, j) == job' = [job EXCEPT ![w] = j]
Release(lock, w) == IF lock = w THEN NoWorker ELSE lock

\* Defect used to test RequestsFinish: the provider is not closed.
TeardownWithoutClose(w) ==
  /\ UNCHANGED session_lock
  /\ stock_lock' = Release(stock_lock, w)

\* The end of a request's dependencies, however it ended: the database session
\* closes (rolling back what is not committed), the provider is closed.
Teardown(w) ==
  /\ session_lock' = Release(session_lock, w)
  /\ stock_lock' = Release(stock_lock, w)

\* The route finds the stock, then the request is validated and clamped.
\* A request that fails validation changes nothing and is left out.
StartRequest(w, from_date, to_date) ==
  LET j == [NoJob EXCEPT !.from_date = from_date, !.to_date = to_date,
                         !.current_date = today, !.stock = stock]
      step == IF effective_start(j) > effective_end(j) THEN "answer"
                                                       ELSE "coverage"
  IN /\ job[w].step \in {"idle", "done"}
     /\ requests < MaxRequests
     /\ from_date <= to_date
     /\ to_date < from_date + MAX_SYNC_RANGE_DAYS
     /\ to_date <= today
     /\ Update(w, [j EXCEPT !.step = step])
     /\ requests' = requests + 1
     /\ UNCHANGED <<world, tables, session_lock, stock_lock, absent, ingests>>

\* _coverage_ranges reads the rows of every source; a covered range is a hit.
ReadCoverage(w) ==
  LET j == job[w]
      coverage == {r \in rows : /\ r.end_date >= effective_start(j)
                                /\ r.start_date <= effective_end(j)}
      hit == range_is_covered(coverage, effective_start(j), effective_end(j))
  IN /\ At(w, "coverage")
     /\ \/ /\ hit
           /\ Update(w, [j EXCEPT !.coverage = coverage, !.step = "answer"])
        \/ /\ ~hit /\ configured \in Supporting
           /\ Update(w, [j EXCEPT !.coverage = coverage, !.step = "calendar"])
        \/ /\ ~hit /\ configured \notin Supporting
           /\ Update(w, NoJob)
     /\ UNCHANGED <<world, tables, session_lock, stock_lock, absent, bounds>>

\* Only a client with the class-wide lock waits, for the other clients' close.
MayEnter(w) == configured \in Serialised => session_lock \in {NoWorker, w}

\* load_open_dates: the provider is entered, logged in and asked for sessions.
LoadOpenDates(w) ==
  /\ At(w, "calendar") /\ MayEnter(w)
  /\ session_lock' = IF configured \in Serialised THEN w ELSE session_lock
  /\ Update(w, [job[w] EXCEPT !.step = "stored"])
  /\ UNCHANGED <<world, tables, stock_lock, absent, bounds>>

\* The stored dates are read and the missing sessions grouped into ranges.
ReadStoredDates(w) ==
  LET j == job[w]
      stored == prices \cap effective_range(j)
      missing == group_missing_sessions(open_dates(j),
                                        stored \cup CoveredDates(j.coverage))
  IN /\ At(w, "stored")
     /\ Update(w, [j EXCEPT !.stored = stored, !.missing = missing,
                            !.writes = missing # {},
                            !.step = IF missing = {} THEN "merge" ELSE "fetch"])
     /\ UNCHANGED <<world, tables, session_lock, stock_lock, absent, bounds>>

\* load_prices for the earliest range not fetched yet.
FetchRange(w) ==
  LET j == job[w] IN
  /\ At(w, "fetch")
  /\ \E r \in j.missing :
       LET rest == j.missing \ {r}
           lacking == (OpenDays \cap Span(r)) \ published
       IN /\ \A q \in rest : r.start_date <= q.start_date
          /\ Update(w, [j EXCEPT
                          !.missing = rest,
                          !.fetched = @ \cup (published \cap Span(r)),
                          !.step = IF rest = {} THEN "upsert" ELSE "fetch"])
          /\ absent' = absent \cup {d \in lacking : d < j.current_date}
  /\ UNCHANGED <<world, tables, session_lock, stock_lock, bounds>>

\* A provider call fails: nothing is written. A login failure needs the lock.
ProviderFails(w) ==
  /\ \/ At(w, "calendar") /\ MayEnter(w)
     \/ At(w, "fetch")
  /\ Update(w, NoJob)
  /\ Teardown(w)
  /\ UNCHANGED <<world, tables, absent, bounds>>

\* upsert_market_data: the stock row and the fetched bars, not yet committed.
\* The update of the stock row waits for another writer's commit or rollback.
Upsert(w) ==
  /\ At(w, "upsert")
  /\ stock_lock = NoWorker
  /\ stock_lock' = w
  /\ Update(w, [job[w] EXCEPT !.step = "merge"])
  /\ UNCHANGED <<world, tables, session_lock, absent, bounds>>

\* _store_merged_coverage, first half: the rows it will replace are selected.
SelectRowsToMerge(w) ==
  LET j == job[w]
      mine == {r \in rows : r.source = configured}
      merging == IF HasCompleted(j)
                 THEN overlapping(mine, effective_start(j), completed_end(j))
                 ELSE {}
  IN /\ At(w, "merge")
     /\ Update(w, [j EXCEPT !.merging = merging, !.step = "commit"])
     /\ UNCHANGED <<world, tables, session_lock, stock_lock, absent, bounds>>

\* Defect used to test LedgerSpec: the merged row ends where the request does.
EndsWithRequest(row, j) ==
  LET starts == {effective_start(j)} \cup {r.start_date : r \in j.merging}
  IN /\ row.start_date \in starts /\ \A s \in starts : row.start_date <= s
     /\ row.end_date = completed_end(j)

\* The row is one that spans the completed range and every selected row.
IsMergedRow(row, j) ==
  LET starts == {effective_start(j)} \cup {r.start_date : r \in j.merging}
      ends == {completed_end(j)} \cup {r.end_date : r \in j.merging}
  IN /\ row.start_date \in starts /\ \A s \in starts : row.start_date <= s
     /\ row.end_date \in ends /\ \A e \in ends : row.end_date >= e

\* Second half and commit: the selected rows are deleted by id (one deleted
\* meanwhile is simply not found) and the merged row inserted, together with
\* the bars and the stock row as it was when the request began.
Commit(w) ==
  LET j == job[w] IN
  /\ At(w, "commit")
  /\ IF HasCompleted(j)
     THEN \E row \in [id : {next_id}, source : {configured},
                      start_date : Dates, end_date : Dates] :
            /\ IsMergedRow(row, j)
            /\ rows' = (rows \ j.merging) \cup {row}
            /\ next_id' = next_id + 1
     ELSE UNCHANGED <<rows, next_id>>
  /\ prices' = prices \cup j.fetched
  /\ stock' = IF j.writes THEN j.stock ELSE stock
  /\ stock_lock' = Release(stock_lock, w)
  /\ Update(w, [j EXCEPT !.step = "answer"])
  /\ UNCHANGED <<world, session_lock, absent, bounds>>

\* A statement or the commit fails: the transaction is rolled back, 503.
DatabaseFails(w) ==
  /\ job[w].step \in {"coverage", "stored", "upsert", "merge", "commit", "answer"}
  /\ Update(w, NoJob)
  /\ Teardown(w)
  /\ UNCHANGED <<world, tables, absent, bounds>>

\* list_prices reads the requested range for the response; then teardown.
Answer(w) ==
  LET j == job[w] IN
  /\ At(w, "answer")
  /\ Update(w, [NoJob EXCEPT !.from_date = j.from_date, !.to_date = j.to_date,
                            !.current_date = j.current_date, !.stock = j.stock,
                            !.answer = prices \cap (j.from_date .. j.to_date),
                            !.step = "done"])
  /\ Teardown(w)
  /\ UNCHANGED <<world, tables, absent, bounds>>

-----------------------------------------------------------------------------
(* The rest of the system, as the requests see it. *)

\* scanner ingestion commits a batch with this stock and bars for D.
Ingest(D, listing) ==
  /\ ingests < MaxIngests
  /\ stock_lock = NoWorker
  /\ stock' = listing
  /\ prices' = prices \cup D
  /\ ingests' = ingests + 1
  /\ UNCHANGED <<world, rows, next_id, session_lock, stock_lock, job, absent, requests>>

\* The provider can now return the bar of session d, that day or later.
Publish(d) ==
  /\ d \in Traded /\ d <= today /\ d \notin published
  /\ published' = published \cup {d}
  /\ UNCHANGED <<today, configured, tables, session_lock, stock_lock, job, absent, bounds>>

NextDay ==
  /\ today < Horizon
  /\ today' = today + 1
  /\ UNCHANGED <<published, configured, tables, session_lock, stock_lock, job, absent, bounds>>

\* The server process restarts, perhaps with another provider configured:
\* requests in flight are gone, what they had not committed is rolled back.
Restart(source) ==
  /\ \E w \in Workers : ~At(w, "idle")
  /\ configured' = source
  /\ job' = [w \in Workers |-> NoJob]
  /\ session_lock' = NoWorker /\ stock_lock' = NoWorker
  /\ UNCHANGED <<today, published, tables, absent, bounds>>

\* What a worker's thread does with the request it has.
Proceed(w) ==
  \/ ReadCoverage(w) \/ LoadOpenDates(w) \/ ReadStoredDates(w) \/ FetchRange(w)
  \/ Upsert(w) \/ SelectRowsToMerge(w) \/ Commit(w) \/ Answer(w)

Next ==
  \/ \E w \in Workers : Proceed(w) \/ ProviderFails(w) \/ DatabaseFails(w)
  \/ \E w \in Workers, from_date \in Days, to_date \in Days :
       StartRequest(w, from_date, to_date)
  \/ \E D \in SUBSET {d \in Traded : d <= today}, listing \in Listings :
       Ingest(D, listing)
  \/ \E d \in Days : Publish(d)
  \/ NextDay
  \/ \E source \in Sources : Restart(source)

Spec == Init /\ [][Next]_vars

\* A thread that can take its next step does, and a provider that was asked
\* answers or fails. Nothing obliges the database to fail, so a wait for a lock
\* is not ended that way, nor requests, days, bars or restarts to come.
Fairness == \A w \in Workers : WF_vars(Proceed(w) \/ ProviderFails(w))

FairSpec == Spec /\ Fairness

-----------------------------------------------------------------------------
(* Properties *)

\* Every variable has its type; the stored rows satisfy the table's check
\* constraint valid_date_range (end_date >= start_date).
TypeOK ==
  /\ today \in Days
  /\ published \subseteq Traded
  /\ configured \in Sources
  /\ session_lock \in Workers \cup {NoWorker}
  /\ stock_lock \in Workers \cup {NoWorker}
  /\ stock \in StockRow
  /\ prices \subseteq Days
  /\ rows \subseteq Rows
  /\ next_id \in Nat
  /\ absent \subseteq Days
  /\ requests \in 0 .. MaxRequests /\ ingests \in 0 .. MaxIngests
  /\ job \in [Workers -> JobType]

\* A date the cache will not ask a provider about again is no session, or has
\* its bar, or the provider was asked after that day and had none: whatever
\* requests, ingestion, failures and restarts do between the steps of a sync.
Settled(S, P, A) == S \cap OpenDays \subseteq P \cup A

CoverageSound == Settled(CoveredDates(rows), prices, absent)

\* "returns the full cached period": an answered request lacks the bar of no
\* past session of its range, unless a provider was asked for it and had none.
ResponseComplete ==
  \A w \in Workers : At(w, "done") =>
    \A d \in open_dates(job[w]) :
      d < job[w].current_date => d \in job[w].answer \cup absent

\* "fetches only missing trading session ranges": no range sent to the provider
\* holds a session the request had seen stored or covered.
OnlyMissingFetched ==
  \A w \in Workers : At(w, "fetch") =>
    CoveredDates(job[w].missing) \cap OpenDays \cap
      (job[w].stored \cup CoveredDates(job[w].coverage)) = {}

\* "Ranges are merged when they overlap or are adjacent": no two rows of one
\* source could be one row.
RangesMerged ==
  \A r \in rows, q \in rows :
    r # q /\ r.source = q.source => ~Mergeable(r, q)

\* What makes CoverageSound inductive: how each step of a request accounts for
\* the dates of its range, given the stored bars P and the known absences A.
PastSessions(j) == {d \in open_dates(j) : d < j.current_date}

JobSound(j, P, A) ==
  /\ j.stored \subseteq P
  /\ Settled(CoveredDates(j.coverage), P, A)
  /\ Settled(CoveredDates(j.merging), P, A)
  /\ j.step \in {"fetch", "upsert", "merge", "commit"} =>
       PastSessions(j) \subseteq P \cup A \cup j.fetched \cup CoveredDates(j.missing)
  /\ j.step \in {"upsert", "merge", "commit"} => j.missing = {}
  /\ j.step = "commit" =>
       /\ j.merging \subseteq overlapping(j.merging, effective_start(j), completed_end(j))
       /\ HasCompleted(j) \/ j.merging = {}
  /\ j.step = "answer" => Settled(PastSessions(j), P, A)
  /\ j.step = "done" => PastSessions(j) \subseteq j.answer \cup A

SyncInv == CoverageSound /\ \A w \in Workers : JobSound(job[w], prices, absent)

\* The whole protocol implements the price ledger: what is stored and what is
\* settled only grow, and the two change together at a commit.
Ledger == INSTANCE PriceLedger
            WITH bars <- prices, settled <- CoveredDates(rows)
LedgerSpec == Ledger!Spec

\* Every request ends with an answer, an error or a restart: no wait for the
\* session lock or the stock row lasts forever, on any failure path.
RequestsFinish ==
  \A w \in Workers :
    job[w].step \notin {"idle", "done"} ~>
      job[w].step \in {"idle", "done"}
=============================================================================
