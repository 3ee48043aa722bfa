--------------------------- MODULE SyncRangeScans ---------------------------
(***************************************************************************)
(* The two loops of backend/app/services/market_data_sync.py over the      *)
(* dates of one request, in the order sync_stock_price_history runs them:  *)
(* range_is_covered moves a cursor over the sorted coverage rows and, when *)
(* the request is not covered, group_missing_sessions groups the missing   *)
(* indexes of the open dates.  Each loop is one action per iteration, and  *)
(* is shown to compute what CoverageRanges says of it.                     *)
(***************************************************************************)
EXTENDS CoverageRanges, Integers, Sequences

CONSTANT Inputs  \* the requests considered, with what the tables hold

\* A request's range is not empty, rows satisfy their check constraint, and
\* the calendar's open dates are ascending.
Increasing(s) == \A m, n \in DOMAIN s : m < n => s[m] < s[n]

ASSUME InputsAssumption ==
  \A i \in Inputs :
    /\ i.start_date \in Nat /\ i.end_date \in Nat /\ i.start_date <= i.end_date
    /\ \A r \in i.coverage : /\ r.start_date \in Nat /\ r.end_date \in Nat
                             /\ r.start_date <= r.end_date
    /\ i.open_dates \in Seq(Nat) /\ Increasing(i.open_dates)

VARIABLES
  input,        \* the request and the rows it read
  phase,        \* "cover" and "group" are the loops; "start" is between them
  cursor,       \* range_is_covered: the first date not known to be covered
  items,        \* range_is_covered: the ranges still to visit
  covered,      \* its result
  indexes,      \* group_missing_sessions: the missing indexes to visit
  range_start, previous,   \* the run being built
  ranges        \* its result

groupVars == <<indexes, range_start, previous, ranges>>
vars == <<input, phase, cursor, items, covered, groupVars>>

Init ==
  /\ input \in Inputs
  /\ phase = "cover" /\ cursor = input.start_date /\ items = input.coverage
  /\ covered = FALSE
  /\ indexes = {} /\ range_start = 0 /\ previous = 0 /\ ranges = {}

-----------------------------------------------------------------------------
(* range_is_covered *)

Decide(answer) ==
  /\ covered' = answer
  /\ phase' = IF answer THEN "done" ELSE "start"

\* Defect used to test CoverScanCorrect: the ranges are not sorted first.
AnyOrder(r) == r \in items

Earliest(r) == \A q \in items : r.start_date <= q.start_date

\* The range ends before the cursor: it adds nothing.
SkipItem(r) ==
  /\ r.end_date < cursor
  /\ UNCHANGED <<phase, cursor, covered>>

\* A gap before the earliest range left.
MeetGap(r) ==
  /\ r.end_date >= cursor /\ r.start_date > cursor
  /\ Decide(FALSE)
  /\ UNCHANGED cursor

AdvanceCursor(r) ==
  LET next == r.end_date + 1 IN
  /\ r.end_date >= cursor /\ r.start_date <= cursor
  /\ cursor' = next
  /\ IF next > input.end_date THEN Decide(TRUE) ELSE UNCHANGED <<phase, covered>>

VisitItem ==
  /\ phase = "cover"
  /\ \E r \in items :
       /\ Earliest(r)
       /\ items' = items \ {r}
       /\ SkipItem(r) \/ MeetGap(r) \/ AdvanceCursor(r)
  /\ UNCHANGED <<input, groupVars>>

EndOfItems ==
  /\ phase = "cover" /\ items = {}
  /\ IF cursor > input.end_date THEN Decide(TRUE) ELSE Decide(FALSE)
  /\ UNCHANGED <<input, cursor, items, groupVars>>

-----------------------------------------------------------------------------
(* group_missing_sessions *)

open_dates == input.open_dates
available == input.stored \cup CoveredDates(input.coverage)
missing_indexes == {i \in DOMAIN open_dates : open_dates[i] \notin available}

Least(i, S) == i \in S /\ \A k \in S : i <= k

\* The run built so far, as the code's DateRange.
Run == [start_date |-> open_dates[range_start], end_date |-> open_dates[previous]]

NothingMissing ==
  /\ phase = "start" /\ missing_indexes = {}
  /\ phase' = "done"
  /\ UNCHANGED <<input, cursor, items, covered, groupVars>>

FirstMissing ==
  /\ phase = "start"
  /\ \E i \in missing_indexes :
       /\ Least(i, missing_indexes)
       /\ range_start' = i /\ previous' = i
       /\ indexes' = missing_indexes \ {i}
  /\ phase' = "group"
  /\ UNCHANGED <<input, cursor, items, covered, ranges>>

\* Defect used to test GroupScanCorrect: a closed run does not move its start.
VisitIndexKeepingStart ==
  /\ phase = "group"
  /\ \E i \in indexes :
       /\ Least(i, indexes)
       /\ indexes' = indexes \ {i}
       /\ previous' = i
       /\ ranges' = IF i # previous + 1 THEN ranges \cup {Run} ELSE ranges
  /\ UNCHANGED <<input, phase, cursor, items, covered, range_start>>

\* An index that does not continue the run closes it.
VisitIndex ==
  /\ phase = "group"
  /\ \E i \in indexes :
       /\ Least(i, indexes)
       /\ indexes' = indexes \ {i}
       /\ previous' = i
       /\ IF i # previous + 1
          THEN ranges' = ranges \cup {Run} /\ range_start' = i
          ELSE UNCHANGED <<ranges, range_start>>
  /\ UNCHANGED <<input, phase, cursor, items, covered>>

LastRun ==
  /\ phase = "group" /\ indexes = {}
  /\ ranges' = ranges \cup {Run}
  /\ phase' = "done"
  /\ UNCHANGED <<input, cursor, items, covered, indexes, range_start, previous>>

Next == \/ VisitItem \/ EndOfItems
        \/ NothingMissing \/ FirstMissing \/ VisitIndex \/ LastRun

Spec == Init /\ [][Next]_vars

-----------------------------------------------------------------------------
(* Properties *)

\* The cursor's early exits are right: the first loop answers TRUE exactly when
\* every date of the request is in some coverage row, however they overlap.
CoverScanCorrect ==
  phase # "cover" =>
    (covered <=> range_is_covered(input.coverage, input.start_date, input.end_date))

OpenDates == {open_dates[i] : i \in DOMAIN open_dates}

\* The second loop returns the maximal runs of missing sessions: each missing
\* session in one range, no available session in any, weekends not breaking one.
GroupScanCorrect ==
  phase = "done" /\ ~covered =>
    ranges = group_missing_sessions(OpenDates, available)

\* Why the first loop is right: the dates before the cursor are covered, and no
\* range already visited reaches the cursor.
CursorInv ==
  /\ phase \in {"cover", "start", "group", "done"}
  /\ phase = "cover" =>
       /\ cursor \in Nat
       /\ input.start_date <= cursor /\ cursor <= input.end_date
       /\ input.start_date .. (cursor - 1) \subseteq CoveredDates(input.coverage)
       /\ items \subseteq input.coverage
       /\ \A r \in input.coverage \ items : r.end_date < cursor
=============================================================================
