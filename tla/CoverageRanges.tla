--------------------------- MODULE CoverageRanges ---------------------------
(***************************************************************************)
(* Date ranges as backend/app/services/market_data_sync.py uses them.      *)
(* A date is a natural number (days since an epoch); a range is any record *)
(* with the inclusive fields start_date and end_date, so a coverage row of *)
(* the database is a range too.                                            *)
(***************************************************************************)
EXTENDS Naturals

\* The dates of one inclusive range.
Span(r) == r.start_date .. r.end_date

\* The dates some range of the set contains.
CoveredDates(ranges) == UNION {Span(r) : r \in ranges}

\* Defect used to test ResponseComplete: one covered date is enough.
is_touched(ranges, start_date, end_date) ==
  (start_date .. end_date) \cap CoveredDates(ranges) # {}

(***************************************************************************)
(* range_is_covered: every date from start_date to end_date is in a range. *)
(* The source decides it with one pass over the sorted ranges; module      *)
(* SyncRangeScans models that pass and shows it decides this.              *)
(***************************************************************************)
range_is_covered(ranges, start_date, end_date) ==
  start_date .. end_date \subseteq CoveredDates(ranges)

\* Defect used to test OnlyMissingFetched: one range from the first missing
\* session to the last.
one_missing_range(open_dates, available_dates) ==
  LET missing == open_dates \ available_dates
  IN {r \in [start_date : missing, end_date : missing] :
        \A d \in missing : r.start_date <= d /\ d <= r.end_date}

(***************************************************************************)
(* group_missing_sessions: the maximal runs of consecutive sessions that   *)
(* are not available. "Consecutive" is by position among the open dates,   *)
(* so a weekend inside a run does not break it.                            *)
(***************************************************************************)
group_missing_sessions(open_dates, available_dates) ==
  LET missing == open_dates \ available_dates
      Separated(d, e) == \E a \in open_dates \ missing : d < a /\ a < e
  IN {r \in [start_date : missing, end_date : missing] :
        /\ r.start_date <= r.end_date
        /\ Span(r) \cap open_dates \subseteq missing
        /\ \A d \in missing : d < r.start_date => Separated(d, r.start_date)
        /\ \A d \in missing : d > r.end_date => Separated(r.end_date, d)}

\* Defect used to test RangesMerged: adjacent rows are not selected.
only_overlapping(rows, start_date, end_date) ==
  {r \in rows : r.end_date >= start_date /\ r.start_date <= end_date}

(***************************************************************************)
(* The rows _store_merged_coverage selects: those that overlap             *)
(* start_date .. end_date or are adjacent to it by one day.                *)
(* start_date >= 1, so start_date - 1 is written end_date + 1 >= start.    *)
(***************************************************************************)
overlapping(rows, start_date, end_date) ==
  {r \in rows : r.end_date + 1 >= start_date /\ r.start_date <= end_date + 1}

\* Two ranges that one range could replace: they share a date or touch.
Mergeable(r, q) ==
  r.end_date + 1 >= q.start_date /\ q.end_date + 1 >= r.start_date
=============================================================================
