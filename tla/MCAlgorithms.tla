----------------------------- MODULE MCAlgorithms -----------------------------
(***************************************************************************)
(* The algorithms, over every small input.  The two loops over dates run   *)
(* step by step, from every request; each other algorithm is a function,   *)
(* and an initial state with no step is one input of it, a probe.          *)
(***************************************************************************)
EXTENDS SyncRangeScans, AShareHubPaging, TextChunking, PriceBars, StockDirectory, SignalRules

CONSTANTS Horizon, MaxRows, TextLength

VARIABLE probe  \* <<"loops">>, or the function probed and its input

-----------------------------------------------------------------------------
(* The requests of the two loops *)

Days == 1 .. Horizon
MCRanges == {r \in [start_date : Days, end_date : Days] : r.start_date <= r.end_date}
MCRequests == {[start_date |-> 1, end_date |-> Horizon],
               [start_date |-> 2, end_date |-> Horizon]}
MCCoverage == UNION {kSubset(k, MCRanges) : k \in 0 .. MaxRows}

\* The session calendar and the stored dates of one request's range.
MCCalendar(r) == {c \in (SUBSET (r.start_date .. r.end_date)) \X (SUBSET Days) : c[2] \subseteq c[1]}

MCInputs ==
  UNION {{[coverage |-> C, start_date |-> r.start_date, end_date |-> r.end_date,
           open_dates |-> SelectSeq([d \in Days |-> d], LAMBDA d : d \in c[1]), stored |-> c[2]] :
            C \in MCCoverage, c \in MCCalendar(r)} : r \in MCRequests}

-----------------------------------------------------------------------------
(* Batches: one row with every mix of values, then few rows with every mix of keys *)

Sources == {"csv", "asharehub", "baostock"}
\* Fraction is 10 and the columns hold little: some of these are rounded, and the
\* largest are too large for some column.
Numbers == {Missing, Unreadable, -1, 0, 4, 5, 24, 25}

StockRow(s, listed, delisted, st) ==
  [stock |-> s, name |-> 1, list_date |-> listed, delist_date |-> delisted, status |-> st]
Listed(s) == StockRow(s, Missing, Missing, "active")
Named(s, name) == [Listed(s) EXCEPT !.name = name]

PriceRow(s, d, trading, o, h, l, c, v, a) ==
  [stock |-> s, trade_date |-> d, tradestatus |-> trading,
   open |-> o, high |-> h, low |-> l, close |-> c, volume |-> v, amount |-> a]
Quiet(s, d, trading) == PriceRow(s, d, trading, 11, 21, 4, 15, 4, Missing)

StockRows == {StockRow(1, 2, d, "active") : d \in {Missing, Unreadable, 1, 2}}
             \cup {Listed(2)} \cup {StockRow(2, Missing, 1, st) : st \in {Missing, Unreadable}}
PriceRows == {Quiet(s, d, t) : s \in {1, 2}, d \in {1, 3, Unreadable}, t \in {"0", "1"}}

EmptyTables == [stocks |-> {}, prices |-> {}]
OldTables == [stocks |-> {Listed(1)},
              prices |-> {stored_price(price_record(Quiet(1, d, "1"))) : d \in {1, 2}}]

Feed(stocks, prices, through) ==
  [stocks |-> stocks, prices |-> prices, expected_through |-> through, max_staleness_days |-> 1]

BatchProbe ==
  \E source \in Sources :
    \/ \E o, h, l, c \in Numbers :
         probe = <<"batch", source, EmptyTables,
                   Feed(<<Listed(1)>>, <<PriceRow(1, 1, "1", o, h, l, c, 4, 3)>>, 1)>>
    \/ \E v, a \in Numbers :
         probe = <<"batch", source, OldTables,
                   Feed(<<Listed(1)>>, <<PriceRow(1, 1, "1", 11, 21, 4, 15, v, a)>>, 1)>>
    \/ \E name \in {Missing, Unreadable, Unencodable} \cup 1 .. NameLength + 1 :
         probe = <<"batch", source, OldTables,
                   Feed(<<Named(2, name)>>, <<Quiet(2, 1, "1")>>, Missing)>>
    \/ \E m \in 1 .. 4, n \in 1 .. 3 :
         probe = <<"batch", source, EmptyTables,
                   Feed([s \in 1 .. m |-> Listed(s)], [d \in 1 .. n |-> Quiet(1, d, "1")], n)>>
    \/ \E db \in {EmptyTables, OldTables}, through \in {Missing, 1, 3},
          m, n \in 0 .. 2 :
         \E stocks \in [1 .. m -> StockRows], prices \in [1 .. n -> PriceRows] :
           probe = <<"batch", source, db, Feed(stocks, prices, through)>>

\* BaoStock is asked for one stock at a time, which the caller describes.
OwnRows(feed) == Where(feed.prices, LAMBDA r : r.stock = 1)
FeedRows(source, feed) ==
  IF source = "baostock" THEN Where(OwnRows(feed), Trading) ELSE feed.prices

Loaded(source, feed) ==
  CASE source = "csv" -> csv_load(feed)
    [] source = "asharehub" -> asharehub_batch(<<>>, feed.stocks, feed.prices)
    [] source = "baostock" -> baostock_load(Listed(1), OwnRows(feed))

\* What a provider accepts, the database stores, or refuses as a whole in exactly the
\* cases that Refused names: else no row of it is lost, changed beyond the rounding of
\* its columns, or written over another stock's or date's.
AcceptedBatchesAreStored ==
  probe[1] = "batch" =>
    BatchIsStored(probe[2], probe[3], FeedRows(probe[2], probe[4]), Loaded(probe[2], probe[4]))

-----------------------------------------------------------------------------
(* A service that gains one row between two requests, and a client of it *)

Tables(stocks, prices, calendar) ==
  [error |-> FALSE, stocks |-> stocks, prices |-> prices, calendar |-> calendar]
Session(d) == [stock |-> 1, cal_date |-> d]

Held == {Tables(s, p, <<Session(2)>>) :
              s \in {<<>>, <<Listed(1)>>, <<Listed(2), Listed(1)>>},
              p \in {<<>>, <<Quiet(2, 1, "1")>>, <<Quiet(1, 2, "1"), Quiet(2, 1, "1")>>}}

\* The same, or with a row inserted anywhere.
Grown(t) ==
  {t} \cup {[t EXCEPT !.stocks = InsertAt(@, i, Listed(3))] : i \in 1 .. Len(t.stocks) + 1}
      \cup {[t EXCEPT !.prices = InsertAt(@, i, Quiet(1, 3, "1"))] : i \in 1 .. Len(t.prices) + 1}
      \cup {[t EXCEPT !.calendar = InsertAt(@, i, Session(3))] : i \in 1 .. 2}

PagingProbe ==
  \E budget \in 2 .. 6, old \in Held, size \in 1 .. 2, codes \in {<<>>, <<1>>, <<2, 1>>},
     known \in BOOLEAN, failing \in {0, 2} :
    \E switch \in 2 .. budget, new \in Grown(old) :
      probe =
        <<"paging",
          [page_size |-> size, max_requests |-> budget, codes |-> 1 .. 3,
           ts_codes |-> IF known THEN <<1>> ELSE codes,
           known_stocks |-> IF known THEN <<Listed(1)>> ELSE <<>>,
           service |-> [n \in 1 .. budget |->
                          [(IF n < switch THEN old ELSE new) EXCEPT !.error = (n = failing)]]]>>

\* A batch AShareHub's pages were accepted into holds every row that the service held
\* from the first request on: running out of requests, an error or a row sorted into
\* an earlier page in between reject the batch, and never shorten it.
LoadIsComplete ==
  probe[1] = "paging" =>
    LET client == probe[2]
    IN IF client.known_stocks = <<>> THEN NothingLeftOut(client, load(client, 0))
       ELSE HistoryIsWhole(client, 1, load_history(client, 1))

-----------------------------------------------------------------------------

TextProbe ==
  \E length \in 0 .. TextLength, setting \in {<<1, 0>>, <<2, 0>>, <<3, 1>>, <<4, 3>>} :
    \E raw \in [1 .. length -> {"a", " ", "\n", ".", "stop"}] :
      probe = <<"text", raw, setting[1], setting[2]>>

\* No visible character of a document is missing from its chunks, whatever separators
\* it has and wherever the overlap falls, and cutting it always moves forward.
TextIsKept == probe[1] = "text" => ChunksKeepText(probe[2], probe[3], probe[4])

-----------------------------------------------------------------------------

Bar(day, time) ==
  [trade_date |-> day, timestamp |-> time, open |-> time % 5, close |-> (3 * time) % 7,
   high |-> 9 + ((time * time) % 4), low |-> (time * time) % 3, volume |-> time,
   amount |-> IF time % 3 = 0 THEN NoAmount ELSE time]

HourProbe ==
  \E lengths \in [1 .. 3 -> 0 .. 4], dates \in {<<1, 3>>, <<2, 3>>, <<1, 2>>}, limit \in 1 .. 5 :
    probe = <<"hours", FlattenSeq([d \in 1 .. 3 |-> [i \in 1 .. lengths[d] |-> Bar(d, 10 * d + i)]]),
              dates[1], dates[2], limit>>

Fortnight == [i \in 1 .. 10 |-> Bar(4 + i, 4 + i)]

ChartProbe ==
  \E dates \in SUBSET (5 .. 14), backwards \in BOOLEAN, interval \in {"1D", "1W", "1M"},
     period \in {1, 2, 3} :
    probe = <<"chart", SelectSeq(IF backwards THEN Reverse(Fortnight) ELSE Fortnight,
                                 LAMBDA bar : bar.trade_date \in dates), interval, period>>

\* Cutting a list of half-hours at a limit never puts half-hours of two different hours
\* into one bar nor loses one of the hours asked for, and a chart's bars and averages
\* are those of the prices of their week or month.
BarsSummarisePrices ==
  /\ probe[1] = "hours" => HoursAreTheLast(probe[2], probe[3], probe[4], probe[5])
  /\ probe[1] = "chart" => ChartIsExact(probe[2], probe[3], probe[4])

-----------------------------------------------------------------------------

StockKeys == {<<1, 1>>, <<1, 2>>, <<2, 1>>}
Entry(k, st, words, codes) ==
  [exchange |-> k[1], symbol |-> k[2], status |-> st, words |-> words, codes |-> codes]

\* Each stock is absent, or there in one of a few states.
OneEach(entries) == {C \in SUBSET entries : \A a, b \in C : key(a) = key(b) => a = b}
Databases == OneEach(UNION {{Entry(k, "active", {}, {}), Entry(k, "active", {"q"}, {}),
                             Entry(k, "delisted", {"q"}, {})} : k \in StockKeys})
Caches == OneEach(UNION {{Entry(k, "active", {}, {}), Entry(k, "active", {}, {"q"})} :
                           k \in StockKeys})

DirectoryProbe ==
  \E database \in Databases, cache \in Caches, st \in {"active", "delisted"},
     e \in {NotGiven, 1}, q \in {NotGiven, "q"}, limit \in 1 .. 2 :
    probe = <<"directory", database, cache, [status |-> st, exchange |-> e, query |-> q], limit>>

\* Paging over the database and the cache shows every stock that matches once, though
\* a page may end in the first and begin in the second, and each leads back to itself.
PagesListEveryStock ==
  probe[1] = "directory" => ListedOnce(probe[2], probe[3], probe[4], probe[5])

-----------------------------------------------------------------------------

Close(c, high, volume) == [close |-> c, high |-> high, volume |-> volume]
BarDates == {1 .. 7, {1, 2, 3, 4, 6, 7}}

SignalProbe ==
  \/ \E dates \in BarDates : \E closes \in [dates -> 1 .. 3] :
       probe = <<"signals", [d \in dates |-> Close(closes[d], closes[d], 1)]>>
  \/ \E closes, above \in [1 .. 5 -> {1, 2}] :
       probe = <<"signals", [d \in 1 .. 5 |-> Close(closes[d], closes[d] + above[d] - 1, 1)]>>
  \/ \E volumes \in [1 .. 5 -> 0 .. 3] :
       probe = <<"signals", [d \in 1 .. 5 |-> Close(1, 1, volumes[d])]>>

\* The signals of successive dates agree with the prices and with each other: no change
\* of the averages' order goes unsignalled or is signalled twice, breakouts rise, spikes
\* stand out, and a rule's verdict does not depend on the other rules of the scan.
SignalsFollowPrices == probe[1] = "signals" => SignalsAgree(probe[2])

-----------------------------------------------------------------------------

\* The loops have nothing to do beside a probe.
Idle ==
  /\ input = [coverage |-> {}, start_date |-> 1, end_date |-> 1, open_dates |-> <<>>, stored |-> {}]
  /\ phase = "done" /\ cursor = 1 /\ items = {} /\ covered = FALSE
  /\ indexes = {} /\ range_start = 0 /\ previous = 0 /\ ranges = {}

MCInit ==
  \/ probe = <<"loops">> /\ Init
  \/ /\ \/ BatchProbe \/ PagingProbe \/ TextProbe
        \/ HourProbe \/ ChartProbe \/ DirectoryProbe \/ SignalProbe
     /\ Idle

Loop(A) == probe = <<"loops">> /\ A /\ UNCHANGED probe

MCNext == \/ Loop(VisitItem) \/ Loop(EndOfItems)
          \/ Loop(NothingMissing) \/ Loop(FirstMissing) \/ Loop(VisitIndex) \/ Loop(LastRun)

MCSpec == MCInit /\ [][MCNext]_<<vars, probe>>
=============================================================================
