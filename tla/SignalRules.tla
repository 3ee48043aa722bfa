----------------------------- MODULE SignalRules -----------------------------
(***************************************************************************)
(* The three rules of scanner/signals/rules.py on the daily prices of one  *)
(* stock, with the loading of the history they see (load_price_histories). *)
(* The prices are a function of the dates that have a bar.  Averages are   *)
(* compared as sums multiplied out, which is what the code's Decimals do:  *)
(* its windows of 5 and 20 divide every price without a remainder.         *)
(***************************************************************************)
EXTENDS Integers, FiniteSetsExt

CONSTANTS SHORT_MA_WINDOW, LONG_MA_WINDOW, BREAKOUT_LOOKBACK,
          VOLUME_LOOKBACK, VOLUME_MULTIPLIER

ASSUME RuleAssumption ==
  /\ SHORT_MA_WINDOW \in Nat \ {0} /\ LONG_MA_WINDOW \in Nat /\ SHORT_MA_WINDOW < LONG_MA_WINDOW
  /\ BREAKOUT_LOOKBACK \in Nat \ {0} /\ VOLUME_LOOKBACK \in Nat \ {0}
  /\ VOLUME_MULTIPLIER \in Nat \ {0}

required_bars ==
  [moving_average_cross |-> LONG_MA_WINDOW + 1,
   recent_breakout |-> BREAKOUT_LOOKBACK + 1,
   volume_spike |-> VOLUME_LOOKBACK + 1]
RULES == DOMAIN required_bars

\* The dates of a history are numbered from its end, as row_number() and slices do.
row_number(dates, d) == Cardinality({e \in dates : e >= d})
Window(dates, first, last) == {d \in dates : row_number(dates, d) \in first .. last}

Through(prices, data_date) == {d \in DOMAIN prices : d <= data_date}
load_price_histories(prices, data_date, max_bars) ==
  Window(Through(prices, data_date), 1, max_bars)

WindowSum(prices, dates, field) == MapThenSumSet(LAMBDA d : prices[d][field], dates)

\* How far the short average of the bars from the n-th last lies above the long one.
Lead(prices, dates, n) ==
  LONG_MA_WINDOW * WindowSum(prices, Window(dates, n, n + SHORT_MA_WINDOW - 1), "close")
    - SHORT_MA_WINDOW * WindowSum(prices, Window(dates, n, n + LONG_MA_WINDOW - 1), "close")

\* Defect used to test SignalsFollowPrices: averages that were equal do not cross.
StrictCross(prices, dates) ==
  LET previous == Lead(prices, dates, 2)
      current == Lead(prices, dates, 1)
  IN CASE previous < 0 /\ current > 0 -> "above"
       [] previous > 0 /\ current < 0 -> "below"
       [] OTHER -> "not_matched"

evaluate_moving_average_cross(prices, dates) ==
  LET previous == Lead(prices, dates, 2)
      current == Lead(prices, dates, 1)
  IN CASE previous <= 0 /\ current > 0 -> "above"
       [] previous >= 0 /\ current < 0 -> "below"
       [] OTHER -> "not_matched"

evaluate_recent_breakout(prices, dates) ==
  IF \A d \in Window(dates, 2, BREAKOUT_LOOKBACK + 1) : prices[Max(dates)].close > prices[d].high
  THEN "matched" ELSE "not_matched"

evaluate_volume_spike(prices, dates) ==
  LET previous == WindowSum(prices, Window(dates, 2, VOLUME_LOOKBACK + 1), "volume")
  IN IF previous > 0 /\ prices[Max(dates)].volume * VOLUME_LOOKBACK >= previous * VOLUME_MULTIPLIER
     THEN "matched" ELSE "not_matched"

\* What a rule says of a history that was loaded for a data date.
evaluate_rule(rule, prices, dates, data_date) ==
  IF data_date \notin dates \/ Cardinality(dates) < required_bars[rule]
  THEN "insufficient_data"
  ELSE CASE rule = "moving_average_cross" -> evaluate_moving_average_cross(prices, dates)
         [] rule = "recent_breakout" -> evaluate_recent_breakout(prices, dates)
         [] rule = "volume_spike" -> evaluate_volume_spike(prices, dates)

\* A scan of one stock: one history serves all the selected rules.
run_scan(rules, prices, data_date) ==
  LET max_bars == Max({required_bars[rule] : rule \in rules})
      dates == load_price_histories(prices, data_date, max_bars)
  IN [rule \in rules |-> evaluate_rule(rule, prices, dates, data_date)]

-----------------------------------------------------------------------------
(* What the signals of successive scans say together *)

Signal(rule, prices, d) == run_scan({rule}, prices, d)[rule]
LeadOn(prices, d) == Lead(prices, Through(prices, d), 1)
Judged(prices) == {d \in DOMAIN prices : Cardinality(Through(prices, d)) >= LONG_MA_WINDOW}

\* A scan says of a rule what it would say alone: the longer history that another
\* rule needs changes no verdict, nor turns too few bars into enough.
SelectionIsIrrelevant(prices) ==
  \A d \in DOMAIN prices, rules \in SUBSET RULES \ {{}} : \A rule \in rules :
    run_scan(rules, prices, d)[rule] = Signal(rule, prices, d)

\* Daily scans see every change of the averages' order, one that goes through days of
\* equality too, and two signals of one direction have such a change between them.
CrossesFollowTheLead(prices) ==
  LET cross(d) == Signal("moving_average_cross", prices, d) IN
  \A a, b \in Judged(prices) : a < b =>
    /\ LeadOn(prices, a) < 0 /\ LeadOn(prices, b) > 0 =>
         \E d \in Judged(prices) : a < d /\ d <= b /\ cross(d) = "above"
    /\ LeadOn(prices, a) > 0 /\ LeadOn(prices, b) < 0 =>
         \E d \in Judged(prices) : a < d /\ d <= b /\ cross(d) = "below"
    /\ cross(a) = "above" /\ cross(b) = "above" =>
         \E d \in Judged(prices) : a < d /\ d < b /\ LeadOn(prices, d) <= 0
    /\ cross(a) = "below" /\ cross(b) = "below" =>
         \E d \in Judged(prices) : a < d /\ d < b /\ LeadOn(prices, d) >= 0

\* Within the lookback, each breakout closes above the one before, as no bar closes
\* above its high.
BreakoutsRise(prices) ==
  \A a, b \in DOMAIN prices :
    /\ a < b /\ Signal("recent_breakout", prices, b) = "matched"
    /\ row_number(Through(prices, b), a) <= BREAKOUT_LOOKBACK + 1
    => prices[a].close < prices[b].close

\* A volume spike stands out from at least one day with trading before it, and never
\* from days without any.
SpikesStandOut(prices) ==
  \A b \in DOMAIN prices :
    LET previous == Window(Through(prices, b), 2, VOLUME_LOOKBACK + 1) IN
    Signal("volume_spike", prices, b) = "matched" =>
      /\ \E a \in previous : prices[a].volume > 0
      /\ \E a \in previous : prices[b].volume >= VOLUME_MULTIPLIER * prices[a].volume

SignalsAgree(prices) ==
  /\ SelectionIsIrrelevant(prices) /\ CrossesFollowTheLead(prices)
  /\ BreakoutsRise(prices) /\ SpikesStandOut(prices)
=============================================================================
