--------------------------- MODULE MarketDataBatches ---------------------------
(***************************************************************************)
(* What the three market data providers accept, and what                   *)
(* scanner/ingestion/repository.py and the tables then do with it.  A      *)
(* provider validates one complete batch or rejects it; upsert_market_data *)
(* writes the batch in one transaction, or nothing.  The tables' types and *)
(* constraints are stated apart from the providers' checks, so that the    *)
(* two can be compared.                                                    *)
(*                                                                         *)
(* A field is a number, Missing (absent or empty) or Unreadable (present,  *)
(* but not a finite number, a date, a code...).  A name is the number of   *)
(* its characters.  A sent price or amount has decimals that its column    *)
(* has not: it counts parts, of which Fraction make one unit of the        *)
(* column's last decimal.  Volumes are counted in half shares, so that an  *)
(* odd one is not a whole number of shares.                                *)
(***************************************************************************)
EXTENDS Integers, Sequences, SequencesExt, FiniteSets

CONSTANTS Missing, Unreadable,
          Unencodable,     \* a name with a character that no column can hold, such as NUL
          Fraction,
          NameLength,      \* of String(128)
          PriceLimit,      \* the largest value of Numeric(18, 4), in units of its last decimal
          AmountLimit,     \* of Numeric(24, 4)
          VolumeLimit,     \* of BIGINT
          ParameterLimit   \* of one statement: 65535

ASSUME ColumnAssumption ==
  /\ Fraction \in Nat \ {0}
  /\ NameLength \in Nat \ {0} /\ PriceLimit \in Nat /\ AmountLimit \in Nat
  /\ VolumeLimit \in Nat /\ ParameterLimit \in Nat
  /\ Unencodable \notin Int /\ Missing \notin Int

Statuses == {"active", "suspended", "delisted"}

Readable(v) == v \notin {Missing, Unreadable}
MissingOrReadable(v) == v # Unreadable
NonNegative(v) == Readable(v) /\ v >= 0

Rows(s) == {s[i] : i \in DOMAIN s}

\* The rows that a loop does not skip, each still at its place.
Where(s, Test(_)) == [i \in {j \in DOMAIN s : Test(s[j])} |-> s[i]]

Distinct(s, Key(_)) == \A i, j \in DOMAIN s : Key(s[i]) = Key(s[j]) => i = j

stock_key(row) == row.stock
price_key(row) == <<row.stock, row.trade_date>>

Rejected == [accepted |-> FALSE]
Batch(stocks, prices, warnings) ==
  [accepted |-> TRUE, stocks |-> stocks, daily_prices |-> prices, warnings |-> warnings]

-----------------------------------------------------------------------------
(* The check of one daily row, the same in the three providers.  With all    *)
(* four prices readable, high and low are each compared with the other three.*)

Prices == {"open", "high", "low", "close"}

\* Defect used to test AcceptedBatchesAreStored: low is compared with high only.
price_is_valid_but_for_low(row) ==
  /\ Readable(row.stock) /\ Readable(row.trade_date)
  /\ \A p \in Prices : NonNegative(row[p])
  /\ \A p \in Prices : row.low <= row.high /\ row[p] <= row.high
  /\ NonNegative(row.volume) /\ row.volume % 2 = 0
  /\ row.amount = Missing \/ NonNegative(row.amount)

price_is_valid(row) ==
  /\ Readable(row.stock) /\ Readable(row.trade_date)
  /\ \A p \in Prices : NonNegative(row[p])
  /\ \A p \in Prices : row.low <= row[p] /\ row[p] <= row.high
  /\ NonNegative(row.volume) /\ row.volume % 2 = 0
  /\ row.amount = Missing \/ NonNegative(row.amount)

price_record(row) ==
  [stock |-> row.stock, trade_date |-> row.trade_date,
   open |-> row.open, high |-> row.high, low |-> row.low, close |-> row.close,
   volume |-> row.volume \div 2, amount |-> row.amount]

price_records(rows) == [i \in DOMAIN rows |-> price_record(rows[i])]

-----------------------------------------------------------------------------
(* CsvMarketDataProvider: two files, each with a header and at least one row *)

csv_stock_is_valid(row) ==
  /\ Readable(row.stock)
  /\ row.name \in 1 .. NameLength \cup {Unencodable}
  /\ row.status \in Statuses \cup {Missing}
  /\ MissingOrReadable(row.list_date) /\ MissingOrReadable(row.delist_date)
  /\ Readable(row.list_date) /\ Readable(row.delist_date) => row.delist_date >= row.list_date

csv_stock_record(row) ==
  [row EXCEPT !.status = IF row.status = Missing THEN "active" ELSE row.status]

\* The stocks whose latest row is too old, when a date was expected.
stale_stocks(rows, file) ==
  {s \in {r.stock : r \in Rows(rows)} :
     \A r \in Rows(rows) :
       r.stock = s => file.expected_through - r.trade_date > file.max_staleness_days}

csv_load(file) ==
  IF /\ file.stocks # <<>> /\ file.prices # <<>>
     /\ \A r \in Rows(file.stocks) : csv_stock_is_valid(r)
     /\ \A r \in Rows(file.prices) : price_is_valid(r)
     /\ Distinct(file.stocks, stock_key) /\ Distinct(file.prices, price_key)
     /\ Readable(file.expected_through) =>
          \A r \in Rows(file.prices) : r.trade_date <= file.expected_through
  THEN Batch([i \in DOMAIN file.stocks |-> csv_stock_record(file.stocks[i])],
             price_records(file.prices),
             IF Readable(file.expected_through) THEN stale_stocks(file.prices, file) ELSE {})
  ELSE Rejected

-----------------------------------------------------------------------------
(* AShareHubMarketDataProvider, once the rows have arrived.  Unlike a file,  *)
(* an answer may be empty, a name may be long, the two dates of a stock are  *)
(* not compared, and a price of a stock that was not described is skipped    *)
(* with a warning.                                                           *)

asharehub_stock_is_valid(row) ==
  /\ Readable(row.stock) /\ Readable(row.name) /\ row.status \in Statuses
  /\ MissingOrReadable(row.list_date) /\ MissingOrReadable(row.delist_date)

\* known_stocks are the caller's own records (the history client): none are fetched.
asharehub_batch(known_stocks, stock_rows, price_rows) ==
  LET stocks == IF known_stocks = <<>> THEN stock_rows ELSE known_stocks
      described == {s.stock : s \in Rows(stocks)}
      Complete(row) == row.stock \in described
  IN IF /\ known_stocks = <<>> =>
             /\ \A r \in Rows(stock_rows) : asharehub_stock_is_valid(r)
             /\ Distinct(stock_rows, stock_key)
        /\ \A r \in Rows(price_rows) : price_is_valid(r)
        /\ Distinct(price_rows, price_key)
     THEN Batch(stocks, price_records(Where(price_rows, Complete)),
                {r.stock : r \in Rows(price_rows)} \ described)
     ELSE Rejected

-----------------------------------------------------------------------------
(* BaoStockHistoryProvider.load_prices: rows of days without trading are     *)
(* skipped before they are read, and dates are not compared with each other. *)

Trading(row) == row.tradestatus = "1"

baostock_load(stock, rows) ==
  LET traded == Where(rows, Trading)
  IN IF \A r \in Rows(traded) : price_is_valid(r)
     THEN Batch(<<stock>>, price_records(traded), {})
     ELSE Rejected

-----------------------------------------------------------------------------
(* The tables: what a column makes of a number, and the constraints, which   *)
(* are those of the value it makes.                                          *)

\* A numeric column rounds to the nearest value it has, a half away from zero.
rounded(v) == (2 * v + Fraction) \div (2 * Fraction)

stored_price(p) ==
  [p EXCEPT !.open = rounded(@), !.high = rounded(@), !.low = rounded(@), !.close = rounded(@),
            !.amount = IF @ = Missing THEN Missing ELSE rounded(@)]
stored_prices(prices) == [i \in DOMAIN prices |-> stored_price(prices[i])]

stock_satisfies_table(s) ==
  /\ s.name \in 0 .. NameLength
  /\ s.status \in Statuses
  /\ Readable(s.list_date) /\ Readable(s.delist_date) => s.delist_date >= s.list_date

price_satisfies_table(p) ==
  /\ \A f \in Prices : p[f] \in 0 .. PriceLimit /\ p.high >= p[f] /\ p.low <= p[f]
  /\ p.volume \in 0 .. VolumeLimit
  /\ p.amount # Missing => p.amount <= AmountLimit

\* One INSERT ... ON CONFLICT DO UPDATE, of so many columns: it refuses to touch a row
\* twice, and has a parameter for each value (more than the SELECTs before it).
InsertFails(rows, columns, Key(_), Satisfies(_)) ==
  \/ columns * Cardinality(DOMAIN rows) > ParameterLimit
  \/ ~Distinct(rows, Key)
  \/ \E r \in Rows(rows) : ~Satisfies(r)

Upserted(table, rows, Key(_)) ==
  Rows(rows) \cup {o \in table : \A r \in Rows(rows) : Key(r) # Key(o)}

\* ingest_market_data: the commit, or the rollback of everything.
ingest_market_data(db, batch) ==
  LET stocks == Upserted(db.stocks, batch.stocks, stock_key)
      prices == stored_prices(batch.daily_prices)
      missing_stock_keys == {p.stock : p \in Rows(prices)} \ {s.stock : s \in stocks}
  IN IF \/ InsertFails(batch.stocks, 6, stock_key, stock_satisfies_table)
        \/ missing_stock_keys # {}
        \/ InsertFails(prices, 9, price_key, price_satisfies_table)
     THEN [stored |-> FALSE, db |-> db]
     ELSE [stored |-> TRUE,
           db |-> [stocks |-> stocks, prices |-> Upserted(db.prices, prices, price_key)]]

-----------------------------------------------------------------------------
(* What the providers do not check, though the database does *)

UndescribedStock(db, batch) ==
  {p.stock : p \in Rows(batch.daily_prices)}
    \ ({s.stock : s \in db.stocks} \cup {s.stock : s \in Rows(batch.stocks)}) # {}
ReversedDates(batch) ==
  \E s \in Rows(batch.stocks) :
    Readable(s.list_date) /\ Readable(s.delist_date) /\ s.delist_date < s.list_date
LongName(batch) == \E s \in Rows(batch.stocks) : s.name # Unencodable /\ s.name > NameLength
UnencodableName(batch) == \E s \in Rows(batch.stocks) : s.name = Unencodable
RepeatedDate(batch) == ~Distinct(batch.daily_prices, price_key)
TooManyRows(batch) ==
  \/ 6 * Cardinality(DOMAIN batch.stocks) > ParameterLimit
  \/ 9 * Cardinality(DOMAIN batch.daily_prices) > ParameterLimit

\* The number is nearer to the first that the column cannot hold than to its last.
TooLarge(v, limit) == 2 * v >= (2 * limit + 1) * Fraction
LargeNumber(batch) ==
  \E p \in Rows(batch.daily_prices) :
    \/ TooLarge(p.high, PriceLimit)
    \/ p.volume > VolumeLimit
    \/ p.amount # Missing /\ TooLarge(p.amount, AmountLimit)

\* No provider bounds its numbers and rows, or knows the characters of the database.
\* Only a CSV batch can name a stock nobody described, only AShareHub's names can be
\* too long and its dates reversed, and only a BaoStock answer can repeat a date.
Refused(source, db, batch) ==
  \/ LargeNumber(batch) \/ TooManyRows(batch) \/ UnencodableName(batch)
  \/ source = "csv" /\ UndescribedStock(db, batch)
  \/ source = "asharehub" /\ (ReversedDates(batch) \/ LongName(batch))
  \/ source = "baostock" /\ RepeatedDate(batch)

\* p is the row sent as r, with no price or amount off by more than half a unit.
Nearest(stored, sent) ==
  /\ 2 * stored * Fraction <= 2 * sent + Fraction
  /\ 2 * sent <= 2 * stored * Fraction + Fraction
IsStoredAs(r, p) ==
  /\ price_key(p) = price_key(r) /\ 2 * p.volume = r.volume
  /\ \A f \in Prices : Nearest(p[f], r[f])
  /\ IF r.amount = Missing THEN p.amount = Missing ELSE Nearest(p.amount, r.amount)

\* Only AShareHub's prices of stocks it does not describe are left out.
StoredAsSent(source, rows, batch, db) ==
  \A r \in Rows(rows) :
    \/ \E p \in db.prices : IsStoredAs(r, p)
    \/ source = "asharehub" /\ r.stock \notin {s.stock : s \in Rows(batch.stocks)}

\* An accepted batch is stored as sent, or refused as a whole for a reason named above.
BatchIsStored(source, db, rows, batch) ==
  batch.accepted =>
    LET result == ingest_market_data(db, batch)
    IN IF Refused(source, db, batch) THEN ~result.stored /\ result.db = db
       ELSE /\ result.stored
            /\ StoredAsSent(source, rows, batch, result.db)
            /\ \A p \in db.prices :
                 p \notin result.db.prices => \E r \in Rows(rows) : price_key(r) = price_key(p)
=============================================================================
