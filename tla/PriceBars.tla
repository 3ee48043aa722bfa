------------------------------ MODULE PriceBars ------------------------------
(***************************************************************************)
(* How bars are built from finer ones: half-hours to hours by the server   *)
(* (list_prices of services/local_daily_cache.py, when the stock has no    *)
(* hourly file), days to weeks or months by the dashboard (chartData.ts),  *)
(* and the moving averages drawn over them.  Dates are numbered from a     *)
(* Monday, 0; the first of a month is a member of MonthStarts.             *)
(***************************************************************************)
EXTENDS ListOrder, FiniteSetsExt, Functions

CONSTANTS MonthStarts, NoAmount

ASSUME MonthAssumption == MonthStarts \subseteq Int /\ IsFiniteSet(MonthStarts)

LastOf(s, n) == IF Len(s) <= n THEN s ELSE SubSeq(s, Len(s) - n + 1, Len(s))

Values(group, field) == {group[i][field] : i \in DOMAIN group}
Total(group, places, field) == MapThenSumSet(LAMBDA i : group[i][field], places)

\* One bar of a group on either side: bars by their places in a list in time order.
Summary(group) ==
  LET first == group[Min(DOMAIN group)]
      last == group[Max(DOMAIN group)]
      paid == {i \in DOMAIN group : group[i].amount # NoAmount}
  IN [trade_date |-> last.trade_date, timestamp |-> last.timestamp,
      open |-> first.open, close |-> last.close,
      high |-> Max(Values(group, "high")), low |-> Min(Values(group, "low")),
      volume |-> Total(group, DOMAIN group, "volume"),
      amount |-> IF paid = {} THEN NoAmount ELSE Total(group, paid, "amount")]

\* Both sorts keep the order of bars of the same time.
Earlier(s, i, j) ==
  s[i].timestamp < s[j].timestamp \/ (s[i].timestamp = s[j].timestamp /\ i < j)
InTimeOrder(s) ==
  [k \in DOMAIN s |->
     s[CHOOSE i \in DOMAIN s : Cardinality({j \in DOMAIN s : Earlier(s, j, i)}) = k - 1]]

-----------------------------------------------------------------------------
(* services/local_daily_cache.py *)

\* _aggregate_intraday_day: the half-hours of a day two by two, the last one alone
\* when their number is odd.
aggregate_intraday_day(prices) ==
  LET rows == InTimeOrder(prices)
      Pair(i) == IF i < Len(rows) THEN <<rows[i], rows[i + 1]>> ELSE <<rows[i]>>
  IN [k \in 1 .. ((Len(rows) + 1) \div 2) |-> Summary(Pair(2 * k - 1))]

\* _aggregate_30m_to_60m: a day is the neighbours with one date; n is where it ends.
aggregate_30m_to_60m(prices) ==
  LET Ends(n) == n = Len(prices) \/ prices[n + 1].trade_date # prices[n].trade_date
      Begins(n) == Min({i \in 1 .. n : \A j \in i .. n : prices[j].trade_date = prices[n].trade_date})
      aggregated[n \in 0 .. Len(prices)] ==
        IF n = 0 THEN <<>>
        ELSE aggregated[n - 1] \o
               IF Ends(n) THEN aggregate_intraday_day(SubSeq(prices, Begins(n), n)) ELSE <<>>
  IN aggregated[Len(prices)]

\* The rows of a file within the dates asked for.
Within(file, from_date, to_date) ==
  Picked(file, {i \in DOMAIN file :
                  from_date <= file[i].trade_date /\ file[i].trade_date <= to_date})

\* The last ones of them.
read_prices(file, from_date, to_date, limit) == LastOf(Within(file, from_date, to_date), limit)

\* Defect used to test BarsSummarisePrices: as many half-hours are read as hours are
\* asked for.
hours_of_as_many_rows(half_hours, from_date, to_date, limit) ==
  LastOf(aggregate_30m_to_60m(read_prices(half_hours, from_date, to_date, limit)), limit)

\* list_prices for "60m" without an hourly file.
list_hours(half_hours, from_date, to_date, limit) ==
  LastOf(aggregate_30m_to_60m(read_prices(half_hours, from_date, to_date, limit * 2)), limit)

-----------------------------------------------------------------------------
(* chartData.ts *)

intervalStart(trade_date, interval) ==
  CASE interval = "1D" -> trade_date
    [] interval = "1W" -> trade_date - (trade_date % 7)
    [] interval = "1M" -> Max({m \in MonthStarts : m <= trade_date})

\* A bar for each week or month, in the order of the first price of each; days stay.
aggregatePrices(prices, interval) ==
  LET ordered == InTimeOrder(prices)
      Start(i) == intervalStart(ordered[i].trade_date, interval)
      firsts == {i \in DOMAIN ordered : \A j \in 1 .. (i - 1) : Start(j) # Start(i)}
      Group(i) == Restrict(ordered, {j \in DOMAIN ordered : Start(j) = Start(i)})
  IN IF interval = "1D" THEN ordered
     ELSE [g \in 1 .. Cardinality(firsts) |-> Summary(Group(Nth(firsts, g)))]

\* A running sum from which the close a period ago is taken away; an average is
\* given as <<sum, period>>, or not at all before a full period.
withMovingAverages(bars, period) ==
  LET sums[i \in 0 .. Len(bars)] ==
        IF i = 0 THEN 0
        ELSE sums[i - 1] + bars[i].close - (IF i > period THEN bars[i - period].close ELSE 0)
  IN [i \in DOMAIN bars |-> IF i >= period THEN <<sums[i], period>> ELSE <<>>]

-----------------------------------------------------------------------------

\* Of days with an even number of half-hours, the hours asked for are the last ones,
\* each of two half-hours of one day, whatever the limit cuts.
HoursAreTheLast(half_hours, from_date, to_date, limit) ==
  LET file == Within(half_hours, from_date, to_date)
      OfTheDay(i) == {j \in DOMAIN file : file[j].trade_date = file[i].trade_date}
  IN (\A i \in DOMAIN file : Cardinality(OfTheDay(i)) % 2 = 0) =>
       list_hours(half_hours, from_date, to_date, limit) =
         LastOf([k \in 1 .. (Len(file) \div 2) |-> Summary(<<file[2 * k - 1], file[2 * k]>>)], limit)

\* A chart has one bar for each week or month with prices, in order, made of exactly
\* its prices however they arrived, and its averages are over the bars they name.
ChartIsExact(prices, interval, period) ==
  LET bars == aggregatePrices(prices, interval)
      Start(p) == intervalStart(p.trade_date, interval)
      averages == withMovingAverages(bars, period)
  IN /\ {Start(bars[b]) : b \in DOMAIN bars} = {Start(prices[i]) : i \in DOMAIN prices}
     /\ \A b, c \in DOMAIN bars : b < c => Start(bars[b]) < Start(bars[c])
     /\ \A b \in DOMAIN bars :
          LET places == {i \in DOMAIN prices : Start(prices[i]) = Start(bars[b])}
              own == Restrict(prices, places)
              First(i) == \A j \in places : prices[i].trade_date <= prices[j].trade_date
              Final(i) == \A j \in places : prices[j].trade_date <= prices[i].trade_date
          IN /\ \E i \in places : First(i) /\ bars[b].open = prices[i].open
             /\ \E i \in places : Final(i) /\ bars[b].close = prices[i].close
             /\ bars[b].high = Max(Values(own, "high")) /\ bars[b].low = Min(Values(own, "low"))
             /\ bars[b].volume = Total(prices, places, "volume")
             /\ averages[b] = IF b < period THEN <<>>
                              ELSE <<Total(bars, (b - period + 1) .. b, "close"), period>>
=============================================================================
