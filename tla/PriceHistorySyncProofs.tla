----------------------- MODULE PriceHistorySyncProofs -----------------------
(***************************************************************************)
(* Proofs about PriceHistorySync, for every set of workers and providers,  *)
(* every calendar and horizon, and without its bounds on requests:         *)
(* type correctness, then SyncInv, from which CoverageSound,               *)
(* ResponseComplete and the implementation of PriceLedger follow.          *)
(***************************************************************************)
EXTENDS PriceHistorySync, FiniteSetTheorems, TLAPS

(* What the date-range operators return, for every set of dates. *)

\* Of the sets in a nonempty family of subsets of 0 .. h, one is minimal.
LEMMA MinimalSet ==
  ASSUME NEW h \in Nat, NEW F \in SUBSET (SUBSET (0 .. h)), F # {}
  PROVE  \E X \in F : \A Y \in F : Y \subseteq X => Y = X
<1>1. IsFiniteSet(0 .. h)
  BY FS_Interval
<1>2. FiniteSubsetsOf(0 .. h) = SUBSET (0 .. h)
  BY <1>1, FS_FiniteSubsetsOfFinite
<1>3. IsWellFoundedOn(StrictSubsetOrdering(0 .. h), SUBSET (0 .. h))
  BY <1>2, FS_StrictSubsetOrderingWellFounded
<1>4. PICK X \in F : \A Y \in F : ~ (<<Y, X>> \in StrictSubsetOrdering(0 .. h))
  BY <1>3, WFMin
<1>5. ASSUME NEW Y \in F, Y \subseteq X PROVE Y = X
  BY <1>4, <1>5 DEF StrictSubsetOrdering
<1> QED BY <1>5

\* A nonempty bounded set of dates has an earliest one.
LEMMA EarliestDate ==
  ASSUME NEW h \in Nat, NEW S \in SUBSET (0 .. h), S # {}
  PROVE  \E m \in S : \A n \in S : m <= n
<1> DEFINE UpTo(n) == {x \in S : x <= n}
           F == {UpTo(n) : n \in S}
<1>1. F \in SUBSET (SUBSET (0 .. h)) /\ F # {}
  OBVIOUS
<1>2. PICK X \in F : \A Y \in F : Y \subseteq X => Y = X
  <2>1. \A G \in SUBSET (SUBSET (0 .. h)) :
          G # {} => \E X \in G : \A Y \in G : Y \subseteq X => Y = X
    BY MinimalSet
  <2> HIDE DEF F
  <2> QED BY <1>1, <2>1
<1>3. PICK m \in S : X = UpTo(m)
  OBVIOUS
<1>4. ASSUME NEW n \in S PROVE m <= n
  <2>1. CASE n < m
    <3>1. ASSUME NEW x \in UpTo(n) PROVE x \in UpTo(m)
      <4>1. x \in S /\ x \in Int /\ n \in Int /\ m \in Int
        OBVIOUS
      <4> QED BY <4>1, <2>1
    <3>2. UpTo(n) = UpTo(m)
      BY <3>1, <1>2, <1>3
    <3>3. m \in UpTo(m)
      OBVIOUS
    <3> QED BY <3>2, <3>3, <2>1
  <2> QED BY <2>1
<1> QED BY <1>4

\* A nonempty bounded set of dates has a latest one.
LEMMA LatestDate ==
  ASSUME NEW h \in Nat, NEW S \in SUBSET (0 .. h), S # {}
  PROVE  \E m \in S : \A n \in S : n <= m
<1> DEFINE From(n) == {x \in S : n <= x}
           F == {From(n) : n \in S}
<1>1. F \in SUBSET (SUBSET (0 .. h)) /\ F # {}
  OBVIOUS
<1>2. PICK X \in F : \A Y \in F : Y \subseteq X => Y = X
  <2>1. \A G \in SUBSET (SUBSET (0 .. h)) :
          G # {} => \E X \in G : \A Y \in G : Y \subseteq X => Y = X
    BY MinimalSet
  <2> HIDE DEF F
  <2> QED BY <1>1, <2>1
<1>3. PICK m \in S : X = From(m)
  OBVIOUS
<1>4. ASSUME NEW n \in S PROVE n <= m
  <2>1. CASE m < n
    <3>1. ASSUME NEW x \in From(n) PROVE x \in From(m)
      <4>1. x \in S /\ x \in Int /\ n \in Int /\ m \in Int
        OBVIOUS
      <4> QED BY <4>1, <2>1
    <3>2. From(n) = From(m)
      BY <3>1, <1>2, <1>3
    <3>3. m \in From(m)
      OBVIOUS
    <3> QED BY <3>2, <3>3, <2>1
  <2> QED BY <2>1
<1> QED BY <1>4

\* group_missing_sessions leaves out no session that is not available.
LEMMA GroupMissingCovers ==
  ASSUME NEW h \in Nat, NEW sessions \in SUBSET (0 .. h),
         NEW available
  PROVE  sessions \ available
           \subseteq CoveredDates(group_missing_sessions(sessions, available))
<1> DEFINE missing == sessions \ available
           Before(d) == {s \in missing : s <= d /\ (s .. d) \cap sessions \subseteq missing}
           After(d) == {e \in missing : d <= e /\ (d .. e) \cap sessions \subseteq missing}
<1>1. SUFFICES ASSUME NEW d \in missing
               PROVE  \E r \in group_missing_sessions(sessions, available) :
                        d \in Span(r)
  BY DEF CoveredDates
<1>2. PICK s \in Before(d) : \A x \in Before(d) : s <= x
  <2>1. Before(d) \in SUBSET (0 .. h)
    OBVIOUS
  <2>2. d \in Before(d)
    OBVIOUS
  <2> HIDE DEF Before
  <2> QED BY <2>1, <2>2, EarliestDate
<1>3. PICK e \in After(d) : \A x \in After(d) : x <= e
  <2>1. After(d) \in SUBSET (0 .. h)
    OBVIOUS
  <2>2. d \in After(d)
    OBVIOUS
  <2> HIDE DEF After
  <2> QED BY <2>1, <2>2, LatestDate
<1> DEFINE r == [start_date |-> s, end_date |-> e]
           Separated(x, y) == \E a \in sessions \ missing : x < a /\ a < y
<1>4. Span(r) \cap sessions \subseteq missing /\ s <= e
  BY DEF Span
<1>5. ASSUME NEW x \in missing, x < s PROVE Separated(x, s)
  BY <1>2, <1>5
<1>6. ASSUME NEW x \in missing, x > e PROVE Separated(e, x)
  BY <1>3, <1>6
<1>7. r \in group_missing_sessions(sessions, available)
  BY <1>4, <1>5, <1>6 DEF group_missing_sessions
<1>8. d \in Span(r)
  BY DEF Span
<1> QED BY <1>7, <1>8

\* No range it returns holds a session that is available.
LEMMA GroupMissingOnly ==
  ASSUME NEW sessions, NEW available
  PROVE  CoveredDates(group_missing_sessions(sessions, available))
           \cap sessions \cap available = {}
BY DEF CoveredDates, group_missing_sessions

-----------------------------------------------------------------------------
(* Type correctness *)

USE ConstantsAssumption

LEMMA NoJobType == NoJob \in JobType
BY DEF NoJob, JobType, StockRow, Steps, Days, Dates, NoDelist, Rows, Ranges

\* The jobs the steps store are jobs.
LEMMA StepType ==
  ASSUME NEW j \in JobType, NEW s \in Steps
  PROVE  [j EXCEPT !.step = s] \in JobType
BY DEF JobType

LEMMA StartType ==
  ASSUME NEW f \in Days, NEW t \in Days, NEW c \in Days,
         NEW l \in StockRow
  PROVE  [NoJob EXCEPT !.from_date = f, !.to_date = t, !.current_date = c,
                       !.stock = l] \in JobType
BY NoJobType, Zenon DEF JobType

LEMMA CoverageType ==
  ASSUME NEW j \in JobType, NEW c \in SUBSET Rows, NEW s \in Steps
  PROVE  [j EXCEPT !.coverage = c, !.step = s] \in JobType
BY Zenon DEF JobType

LEMMA StoredType ==
  ASSUME NEW j \in JobType, NEW S \in SUBSET Days, NEW M \in SUBSET Ranges,
         NEW b \in BOOLEAN, NEW s \in Steps
  PROVE  [j EXCEPT !.stored = S, !.missing = M, !.writes = b, !.step = s] \in JobType
BY Zenon DEF JobType

LEMMA FetchedType ==
  ASSUME NEW j \in JobType, NEW M \in SUBSET Ranges, NEW F \in SUBSET Days,
         NEW s \in Steps
  PROVE  [j EXCEPT !.missing = M, !.fetched = F, !.step = s] \in JobType
BY Zenon DEF JobType

LEMMA MergingType ==
  ASSUME NEW j \in JobType, NEW M \in SUBSET Rows, NEW s \in Steps
  PROVE  [j EXCEPT !.merging = M, !.step = s] \in JobType
BY Zenon DEF JobType

LEMMA AnswerType ==
  ASSUME NEW j \in JobType, NEW A \in SUBSET Days, NEW s \in Steps
  PROVE  [NoJob EXCEPT !.from_date = j.from_date, !.to_date = j.to_date,
                       !.current_date = j.current_date, !.stock = j.stock,
                       !.answer = A, !.step = s] \in JobType
<1>1. /\ j.from_date \in Days /\ j.to_date \in Days /\ j.current_date \in Days
      /\ j.stock \in StockRow
  BY DEF JobType
<1> QED BY <1>1, NoJobType, Zenon DEF JobType

\* Storing a job in a worker's place keeps the function of jobs one of jobs.
LEMMA UpdateType ==
  ASSUME job \in [Workers -> JobType],
         NEW w \in Workers, NEW j \in JobType, Update(w, j)
  PROVE  job' \in [Workers -> JobType]
BY DEF Update

\* The dates a request computes with are dates.
LEMMA RangeTypes ==
  ASSUME NEW j \in JobType
  PROVE  /\ effective_start(j) \in Days
         /\ effective_end(j) \in Days
         /\ completed_end(j) \in Dates
         /\ open_dates(j) \subseteq Days
<1>1. /\ j.from_date \in Days /\ j.to_date \in Days /\ j.current_date \in Days
      /\ j.stock.list_date \in Dates /\ j.stock.delist_date \in 1 .. NoDelist
  BY DEF JobType, StockRow
<1>2. effective_start(j) \in Days
  BY <1>1 DEF effective_start, Later, Days, Dates
<1>3. effective_end(j) \in Days
  BY <1>1 DEF effective_end, Earlier, Days, NoDelist
<1>4. completed_end(j) \in Dates
  BY <1>1, <1>3 DEF completed_end, Earlier, Days, Dates
<1> QED BY <1>2, <1>3, <1>4 DEF open_dates

\* The ranges grouped from sessions are ranges of dates.
LEMMA GroupMissingType ==
  ASSUME NEW j \in JobType, NEW available
  PROVE  group_missing_sessions(open_dates(j), available) \subseteq Ranges
BY RangeTypes DEF group_missing_sessions, Ranges

\* The merged row is a range of dates that contains the completed range.
LEMMA MergedRowBounds ==
  ASSUME NEW j \in JobType, HasCompleted(j),
         NEW row, row.start_date \in Dates, row.end_date \in Dates,
         IsMergedRow(row, j)
  PROVE  /\ row.start_date \in Days /\ row.end_date \in Days
         /\ row.start_date <= effective_start(j)
         /\ completed_end(j) <= row.end_date
         /\ row.start_date <= row.end_date
<1>1. effective_start(j) \in Days /\ completed_end(j) \in Dates
  BY RangeTypes
<1>2. \A r \in j.merging : r.start_date \in Days
  BY DEF JobType, Rows
<1>3. row.start_date \in Days
  BY <1>1, <1>2 DEF IsMergedRow
<1>4. row.start_date <= effective_start(j) /\ completed_end(j) <= row.end_date
  BY <1>1 DEF IsMergedRow, Dates
<1> QED BY <1>1, <1>3, <1>4 DEF HasCompleted, Days, Dates

-----------------------------------------------------------------------------
(* Type correctness *)

THEOREM TypeCorrect == Spec => []TypeOK
<1>1. Init => TypeOK
  BY NoJobType DEF Init, TypeOK, Days
<1>2. TypeOK /\ [Next]_vars => TypeOK'
  <2> SUFFICES ASSUME TypeOK, [Next]_vars PROVE TypeOK'
    OBVIOUS
  <2>. USE DEF tables, world, bounds
  <2>1. ASSUME NEW w \in Workers, NEW f \in Days, NEW t \in Days,
               StartRequest(w, f, t)
        PROVE  TypeOK'
    <3> DEFINE j == [NoJob EXCEPT !.from_date = f, !.to_date = t,
                                  !.current_date = today, !.stock = stock]
    <3>1. j \in JobType
      BY StartType DEF TypeOK
    <3>2. \E s \in Steps : Update(w, [j EXCEPT !.step = s])
      BY <2>1 DEF StartRequest, Steps
    <3>3. job' \in [Workers -> JobType]
      BY <3>1, <3>2, StepType, UpdateType DEF TypeOK
    <3> QED BY <2>1, <3>3 DEF StartRequest, TypeOK
  <2>2. ASSUME NEW w \in Workers, ReadCoverage(w) PROVE TypeOK'
    <3>1. \/ \E c \in SUBSET Rows, s \in Steps :
               Update(w, [job[w] EXCEPT !.coverage = c, !.step = s])
          \/ Update(w, NoJob)
      BY <2>2 DEF ReadCoverage, TypeOK, Steps
    <3>2. job' \in [Workers -> JobType]
      BY <3>1, CoverageType, NoJobType, UpdateType DEF TypeOK
    <3> QED BY <2>2, <3>2 DEF ReadCoverage, TypeOK
  <2>3. ASSUME NEW w \in Workers, LoadOpenDates(w) PROVE TypeOK'
    <3>1. job' \in [Workers -> JobType]
      BY <2>3, StepType, UpdateType DEF LoadOpenDates, TypeOK, Steps
    <3> QED BY <2>3, <3>1 DEF LoadOpenDates, TypeOK
  <2>4. ASSUME NEW w \in Workers, ReadStoredDates(w) PROVE TypeOK'
    <3>1. job[w] \in JobType
      BY DEF TypeOK
    <3>2. \E S \in SUBSET Days, M \in SUBSET Ranges, b \in BOOLEAN, s \in Steps :
            Update(w, [job[w] EXCEPT !.stored = S, !.missing = M,
                                     !.writes = b, !.step = s])
      BY <2>4, <3>1, GroupMissingType DEF ReadStoredDates, TypeOK, Steps
    <3>3. job' \in [Workers -> JobType]
      BY <3>1, <3>2, StoredType, UpdateType DEF TypeOK
    <3> QED BY <2>4, <3>3 DEF ReadStoredDates, TypeOK
  <2>5. ASSUME NEW w \in Workers, FetchRange(w) PROVE TypeOK'
    <3>1. job[w] \in JobType /\ job[w].missing \subseteq Ranges
          /\ job[w].fetched \subseteq Days /\ published \subseteq Days
      BY DEF TypeOK, JobType
    <3>2. \E M \in SUBSET Ranges, F \in SUBSET Days, s \in Steps :
            Update(w, [job[w] EXCEPT !.missing = M, !.fetched = F, !.step = s])
      BY <2>5, <3>1 DEF FetchRange, Steps
    <3>3. job' \in [Workers -> JobType]
      BY <3>1, <3>2, FetchedType, UpdateType DEF TypeOK
    <3>4. absent' \subseteq Days
      BY <2>5 DEF FetchRange, TypeOK
    <3> QED BY <2>5, <3>3, <3>4 DEF FetchRange, TypeOK
  <2>6. ASSUME NEW w \in Workers, ProviderFails(w) PROVE TypeOK'
    <3>1. job' \in [Workers -> JobType]
      BY <2>6, NoJobType, UpdateType DEF ProviderFails, TypeOK
    <3> QED BY <2>6, <3>1 DEF ProviderFails, Teardown, Release, TypeOK
  <2>7. ASSUME NEW w \in Workers, Upsert(w) PROVE TypeOK'
    <3>1. job' \in [Workers -> JobType]
      BY <2>7, StepType, UpdateType DEF Upsert, TypeOK, Steps
    <3> QED BY <2>7, <3>1 DEF Upsert, TypeOK
  <2>8. ASSUME NEW w \in Workers, SelectRowsToMerge(w) PROVE TypeOK'
    <3>1. \E M \in SUBSET Rows, s \in Steps :
            Update(w, [job[w] EXCEPT !.merging = M, !.step = s])
      BY <2>8 DEF SelectRowsToMerge, TypeOK, Steps, overlapping
    <3>2. job' \in [Workers -> JobType]
      BY <3>1, MergingType, UpdateType DEF TypeOK
    <3> QED BY <2>8, <3>2 DEF SelectRowsToMerge, TypeOK
  <2>9. ASSUME NEW w \in Workers, Commit(w) PROVE TypeOK'
    <3>1. job[w] \in JobType /\ job[w].fetched \subseteq Days
      BY DEF TypeOK, JobType
    <3>2. job' \in [Workers -> JobType]
      BY <2>9, StepType, UpdateType DEF Commit, TypeOK, Steps
    <3>3. rows' \subseteq Rows /\ next_id' \in Nat
      <4>1. CASE HasCompleted(job[w])
        <5>1. PICK row \in [id : {next_id}, source : {configured},
                             start_date : Dates, end_date : Dates] :
                /\ IsMergedRow(row, job[w])
                /\ rows' = (rows \ job[w].merging) \cup {row}
                /\ next_id' = next_id + 1
          BY <2>9, <4>1 DEF Commit
        <5>2. row.start_date \in Days /\ row.start_date <= row.end_date
              /\ row.end_date \in Days
          BY <3>1, <4>1, <5>1, MergedRowBounds
        <5>3. row \in Rows
          BY <5>1, <5>2 DEF Rows, TypeOK
        <5> QED BY <5>1, <5>3 DEF TypeOK
      <4>2. CASE ~HasCompleted(job[w])
        BY <2>9, <4>2 DEF Commit, TypeOK
      <4> QED BY <4>1, <4>2
    <3>4. stock' \in StockRow
      BY <2>9, <3>1 DEF Commit, TypeOK, JobType
    <3> QED BY <2>9, <3>1, <3>2, <3>3, <3>4 DEF Commit, Release, TypeOK
  <2>10. ASSUME NEW w \in Workers, DatabaseFails(w) PROVE TypeOK'
    <3>1. job' \in [Workers -> JobType]
      BY <2>10, NoJobType, UpdateType DEF DatabaseFails, TypeOK
    <3> QED BY <2>10, <3>1 DEF DatabaseFails, Teardown, Release, TypeOK
  <2>11. ASSUME NEW w \in Workers, Answer(w) PROVE TypeOK'
    <3>1. \E A \in SUBSET Days, s \in Steps :
            Update(w, [NoJob EXCEPT !.from_date = job[w].from_date,
                                    !.to_date = job[w].to_date,
                                    !.current_date = job[w].current_date,
                                    !.stock = job[w].stock,
                                    !.answer = A, !.step = s])
      BY <2>11 DEF Answer, TypeOK, Steps
    <3>2. job' \in [Workers -> JobType]
      BY <3>1, AnswerType, UpdateType DEF TypeOK
    <3> QED BY <2>11, <3>2 DEF Answer, Teardown, Release, TypeOK
  <2>12. ASSUME NEW D \in SUBSET {d \in Traded : d <= today},
                NEW l \in Listings, Ingest(D, l)
         PROVE  TypeOK'
    BY <2>12 DEF Ingest, TypeOK
  <2>13. ASSUME NEW d \in Days, Publish(d) PROVE TypeOK'
    BY <2>13 DEF Publish, TypeOK
  <2>14. CASE NextDay
    BY <2>14 DEF NextDay, TypeOK, Days
  <2>15. ASSUME NEW s \in Sources, Restart(s) PROVE TypeOK'
    BY <2>15, NoJobType DEF Restart, TypeOK
  <2>16. CASE UNCHANGED vars
    BY <2>16 DEF vars, TypeOK
  <2> QED
    BY <2>1, <2>2, <2>3, <2>4, <2>5, <2>6, <2>7, <2>8, <2>9, <2>10, <2>11,
       <2>12, <2>13, <2>14, <2>15, <2>16 DEF Next, Proceed
<1> QED BY <1>1, <1>2, PTL DEF Spec

-----------------------------------------------------------------------------
(* Soundness of the coverage *)

\* Steps that copy the request's dates copy the ranges computed from them.
LEMMA SameRange ==
  ASSUME NEW j, NEW k,
         k.from_date = j.from_date, k.to_date = j.to_date,
         k.current_date = j.current_date, k.stock = j.stock
  PROVE  /\ effective_start(k) = effective_start(j)
         /\ effective_end(k) = effective_end(j)
         /\ open_dates(k) = open_dates(j)
         /\ PastSessions(k) = PastSessions(j)
BY DEF effective_start, effective_end, effective_range, open_dates, PastSessions

LEMMA SameCompleted ==
  ASSUME NEW j, NEW k,
         k.from_date = j.from_date, k.to_date = j.to_date,
         k.current_date = j.current_date, k.stock = j.stock,
         k.stored = j.stored, k.fetched = j.fetched
  PROVE  /\ completed_end(k) = completed_end(j)
         /\ HasCompleted(k) = HasCompleted(j)
<1>1. current_date_complete(k) = current_date_complete(j)
  BY SameRange DEF current_date_complete
<1> QED BY <1>1, SameRange DEF completed_end, HasCompleted

\* Prices are never deleted, and what was seen absent stays known.
Grows == prices \subseteq prices' /\ absent \subseteq absent'

\* A request that takes no step stays sound while the others work.
LEMMA SoundJobStays ==
  ASSUME NEW j, JobSound(j, prices, absent), Grows
  PROVE  JobSound(j, prices', absent')
BY DEF JobSound, Settled, Grows

\* So only the job a step replaces has to be looked at.
LEMMA OneJobStep ==
  ASSUME SyncInv, job \in [Workers -> JobType], Grows, CoverageSound',
         NEW w \in Workers, NEW j, Update(w, j), JobSound(j, prices', absent')
  PROVE  SyncInv'
<1>1. ASSUME NEW v \in Workers PROVE JobSound(job'[v], prices', absent')
  <2>1. CASE v = w
    BY <2>1 DEF Update
  <2>2. CASE v # w
    <3>1. job'[v] = job[v]
      BY <2>2 DEF Update
    <3>2. JobSound(job[v], prices, absent)
      BY DEF SyncInv
    <3> QED BY <3>1, <3>2, SoundJobStays
  <2> QED BY <2>1, <2>2
<1> QED BY <1>1 DEF SyncInv

LEMMA CoverageStaysSound ==
  ASSUME CoverageSound, Grows, UNCHANGED rows
  PROVE  CoverageSound'
BY DEF CoverageSound, Settled, Grows

LEMMA NoJobSound == \A P, A : JobSound(NoJob, P, A)
BY DEF NoJob, JobSound, Settled, CoveredDates

LEMMA StartSound ==
  ASSUME TypeOK, SyncInv, NEW w \in Workers, NEW f \in Days, NEW t \in Days,
         StartRequest(w, f, t)
  PROVE  SyncInv'
<1> DEFINE j == [NoJob EXCEPT !.from_date = f, !.to_date = t,
                              !.current_date = today, !.stock = stock]
<1>1. j \in JobType
  BY StartType DEF TypeOK
<1>2. PICK s \in {"answer", "coverage"} :
         /\ Update(w, [j EXCEPT !.step = s])
         /\ s = "answer" => effective_start(j) > effective_end(j)
  BY DEF StartRequest
<1> DEFINE k == [j EXCEPT !.step = s]
<1>3. /\ k.step = s /\ k.coverage = {} /\ k.stored = {} /\ k.merging = {}
      /\ k.from_date = j.from_date /\ k.to_date = j.to_date
      /\ k.current_date = j.current_date /\ k.stock = j.stock
  BY DEF NoJob
<1>4. s = "answer" => PastSessions(k) = {}
  <2>1. effective_start(j) \in Days /\ effective_end(j) \in Days
    BY <1>1, RangeTypes
  <2>2. s = "answer" => effective_range(j) = {}
    BY <1>2, <2>1 DEF effective_range, Days
  <2>3. PastSessions(k) = PastSessions(j)
    BY <1>3, SameRange
  <2> QED BY <2>2, <2>3 DEF PastSessions, open_dates
<1>5. JobSound(k, prices', absent')
  <2> HIDE DEF k
  <2> QED BY <1>3, <1>4 DEF JobSound, Settled, CoveredDates
<1>6. Grows /\ CoverageSound'
  BY CoverageStaysSound DEF StartRequest, tables, Grows, SyncInv
<1>7. Update(w, k)
  BY <1>2
<1> HIDE DEF k
<1> QED BY <1>5, <1>6, <1>7, OneJobStep DEF TypeOK

LEMMA ReadCoverageSound ==
  ASSUME TypeOK, SyncInv, NEW w \in Workers, ReadCoverage(w)
  PROVE  SyncInv'
<1> DEFINE j == job[w]
<1>1. Grows /\ CoverageSound'
  BY CoverageStaysSound DEF ReadCoverage, tables, Grows, SyncInv
<1>2. j \in JobType /\ JobSound(j, prices, absent)
  BY DEF TypeOK, SyncInv
<1>3. PICK c \in SUBSET rows, s \in {"answer", "calendar"} :
        \/ /\ Update(w, [j EXCEPT !.coverage = c, !.step = s])
           /\ s = "answer" =>
                range_is_covered(c, effective_start(j), effective_end(j))
        \/ Update(w, NoJob)
  BY DEF ReadCoverage
<1> DEFINE k == [j EXCEPT !.coverage = c, !.step = s]
<1>4. /\ k.step = s /\ k.coverage = c /\ k.stored = j.stored
      /\ k.merging = j.merging /\ k.from_date = j.from_date
      /\ k.to_date = j.to_date /\ k.current_date = j.current_date
      /\ k.stock = j.stock
  BY <1>2 DEF JobType
<1>5. Settled(CoveredDates(c), prices, absent)
  BY DEF SyncInv, CoverageSound, Settled, CoveredDates
<1>6. CASE Update(w, k) /\ (s = "answer" =>
             range_is_covered(c, effective_start(j), effective_end(j)))
  <2>1. s = "answer" => Settled(PastSessions(k), prices, absent)
    <3>1. PastSessions(k) = PastSessions(j)
      BY <1>4, SameRange
    <3>2. s = "answer" => PastSessions(j) \subseteq CoveredDates(c)
      BY <1>6 DEF PastSessions, open_dates, effective_range, range_is_covered
    <3> QED BY <1>5, <3>1, <3>2 DEF Settled
  <2>2. JobSound(k, prices, absent)
    BY <1>2, <1>4, <1>5, <2>1 DEF JobSound
  <2> QED BY <1>1, <1>6, <2>2, SoundJobStays, OneJobStep DEF TypeOK
<1>7. CASE Update(w, NoJob)
  BY <1>1, <1>7, NoJobSound, OneJobStep DEF TypeOK
<1> QED BY <1>3, <1>6, <1>7

LEMMA LoadOpenDatesSound ==
  ASSUME TypeOK, SyncInv, NEW w \in Workers, LoadOpenDates(w)
  PROVE  SyncInv'
<1> DEFINE k == [job[w] EXCEPT !.step = "stored"]
<1>1. Grows /\ CoverageSound' /\ Update(w, k)
  BY CoverageStaysSound DEF LoadOpenDates, tables, Grows, SyncInv
<1>2. job[w] \in JobType /\ JobSound(job[w], prices, absent)
  BY DEF TypeOK, SyncInv
<1>3. /\ k.step = "stored" /\ k.coverage = job[w].coverage
      /\ k.stored = job[w].stored /\ k.merging = job[w].merging
  BY <1>2 DEF JobType
<1> HIDE DEF k
<1>4. JobSound(k, prices, absent)
  BY <1>2, <1>3 DEF JobSound
<1> QED BY <1>1, <1>4, SoundJobStays, OneJobStep DEF TypeOK

LEMMA ReadStoredDatesSound ==
  ASSUME TypeOK, SyncInv, NEW w \in Workers, ReadStoredDates(w)
  PROVE  SyncInv'
<1> DEFINE j == job[w]
           S == prices \cap effective_range(j)
           M == group_missing_sessions(open_dates(j), S \cup CoveredDates(j.coverage))
<1>1. Grows /\ CoverageSound'
  BY CoverageStaysSound DEF ReadStoredDates, tables, Grows, SyncInv
<1>2. j \in JobType /\ JobSound(j, prices, absent) /\ j.step = "stored"
  BY DEF TypeOK, SyncInv, ReadStoredDates, At
<1>3. PICK s \in {"merge", "fetch"} :
        /\ Update(w, [j EXCEPT !.stored = S, !.missing = M,
                               !.writes = (M # {}), !.step = s])
        /\ s = "merge" => M = {}
  BY DEF ReadStoredDates
<1> DEFINE k == [j EXCEPT !.stored = S, !.missing = M, !.writes = (M # {}), !.step = s]
<1>4. /\ k.step = s /\ k.coverage = j.coverage /\ k.stored = S
      /\ k.missing = M /\ k.merging = j.merging
      /\ k.from_date = j.from_date /\ k.to_date = j.to_date
      /\ k.current_date = j.current_date /\ k.stock = j.stock
  BY <1>2 DEF JobType
<1>5. open_dates(j) \ (S \cup CoveredDates(j.coverage)) \subseteq CoveredDates(M)
  <2>1. \A O \in SUBSET (0 .. Horizon) : \A V :
          O \ V \subseteq CoveredDates(group_missing_sessions(O, V))
    BY GroupMissingCovers
  <2>2. open_dates(j) \in SUBSET (0 .. Horizon)
    BY <1>2, RangeTypes DEF Days
  <2> QED BY <2>1, <2>2
<1>6. open_dates(j) \cap CoveredDates(j.coverage) \subseteq prices \cup absent
  BY <1>2 DEF JobSound, Settled, open_dates
<1> HIDE DEF k, M
<1>7. PastSessions(k) = PastSessions(j) /\ PastSessions(j) \subseteq open_dates(j)
  BY <1>4, SameRange DEF PastSessions
<1>8. PastSessions(k) \subseteq prices \cup absent \cup k.fetched \cup CoveredDates(k.missing)
  BY <1>4, <1>5, <1>6, <1>7
<1>9. JobSound(k, prices, absent)
  BY <1>2, <1>3, <1>4, <1>8 DEF JobSound
<1>10. Update(w, k)
  BY <1>3 DEF k
<1> QED BY <1>1, <1>9, <1>10, SoundJobStays, OneJobStep DEF TypeOK

LEMMA FetchRangeSound ==
  ASSUME TypeOK, SyncInv, NEW w \in Workers, FetchRange(w)
  PROVE  SyncInv'
<1> DEFINE j == job[w]
<1>1. Grows /\ CoverageSound'
  BY CoverageStaysSound DEF FetchRange, tables, Grows, SyncInv
<1>2. j \in JobType /\ JobSound(j, prices, absent) /\ j.step = "fetch"
  BY DEF TypeOK, SyncInv, FetchRange, At
<1>3. PICK r \in j.missing, s \in {"upsert", "fetch"} :
        /\ Update(w, [j EXCEPT !.missing = j.missing \ {r},
                               !.fetched = j.fetched \cup (published \cap Span(r)),
                               !.step = s])
        /\ s = "upsert" => j.missing \ {r} = {}
        /\ absent' = absent \cup
             {d \in (OpenDays \cap Span(r)) \ published : d < j.current_date}
  BY DEF FetchRange
<1> DEFINE M == j.missing \ {r}
           F == j.fetched \cup (published \cap Span(r))
           k == [j EXCEPT !.missing = M, !.fetched = F, !.step = s]
<1>4. /\ k.step = s /\ k.coverage = j.coverage /\ k.stored = j.stored
      /\ k.missing = M /\ k.fetched = F /\ k.merging = j.merging
      /\ k.from_date = j.from_date /\ k.to_date = j.to_date
      /\ k.current_date = j.current_date /\ k.stock = j.stock
  BY <1>2 DEF JobType
<1>5. Update(w, k)
  BY <1>3
<1> HIDE DEF k
<1>6. PastSessions(k) = PastSessions(j)
      /\ \A d \in PastSessions(j) : d \in OpenDays /\ d < j.current_date
  BY <1>4, SameRange DEF PastSessions, open_dates
<1>7. PastSessions(k) \subseteq prices' \cup absent' \cup k.fetched \cup CoveredDates(k.missing)
  <2>1. SUFFICES ASSUME NEW d \in PastSessions(j)
                 PROVE  d \in prices' \cup absent' \cup F \cup CoveredDates(M)
    BY <1>4, <1>6
  <2>2. d \in prices \cup absent \cup j.fetched \cup CoveredDates(j.missing)
    BY <1>2 DEF JobSound
  <2>3. CASE d \in prices \cup absent \cup j.fetched
    BY <1>1, <2>3 DEF Grows
  <2>4. CASE d \in Span(r)
    BY <1>3, <1>6, <2>4
  <2>5. CASE d \in CoveredDates(M)
    BY <2>5
  <2> QED BY <2>2, <2>3, <2>4, <2>5 DEF CoveredDates
<1>8. JobSound(j, prices', absent')
  BY <1>1, <1>2, SoundJobStays
<1>9. JobSound(k, prices', absent')
  BY <1>3, <1>4, <1>7, <1>8 DEF JobSound
<1> QED BY <1>1, <1>5, <1>9, OneJobStep DEF TypeOK

LEMMA UpsertSound ==
  ASSUME TypeOK, SyncInv, NEW w \in Workers, Upsert(w)
  PROVE  SyncInv'
<1> DEFINE j == job[w]
           k == [j EXCEPT !.step = "merge"]
<1>1. Grows /\ CoverageSound' /\ Update(w, k)
  BY CoverageStaysSound DEF Upsert, tables, Grows, SyncInv
<1>2. j \in JobType /\ JobSound(j, prices, absent) /\ j.step = "upsert"
  BY DEF TypeOK, SyncInv, Upsert, At
<1>3. /\ k.step = "merge" /\ k.coverage = j.coverage /\ k.stored = j.stored
      /\ k.missing = j.missing /\ k.fetched = j.fetched /\ k.merging = j.merging
      /\ k.from_date = j.from_date /\ k.to_date = j.to_date
      /\ k.current_date = j.current_date /\ k.stock = j.stock
  BY <1>2 DEF JobType
<1> HIDE DEF k
<1>4. PastSessions(k) = PastSessions(j)
  BY <1>3, SameRange
<1>5. JobSound(k, prices, absent)
  BY <1>2, <1>3, <1>4 DEF JobSound
<1> QED BY <1>1, <1>5, SoundJobStays, OneJobStep DEF TypeOK

LEMMA SelectRowsToMergeSound ==
  ASSUME TypeOK, SyncInv, NEW w \in Workers, SelectRowsToMerge(w)
  PROVE  SyncInv'
<1> DEFINE j == job[w]
           M == IF HasCompleted(j)
                THEN overlapping({r \in rows : r.source = configured},
                                 effective_start(j), completed_end(j))
                ELSE {}
           k == [j EXCEPT !.merging = M, !.step = "commit"]
<1>1. Grows /\ CoverageSound' /\ Update(w, k)
  BY CoverageStaysSound DEF SelectRowsToMerge, tables, Grows, SyncInv
<1>2. j \in JobType /\ JobSound(j, prices, absent) /\ j.step = "merge"
  BY DEF TypeOK, SyncInv, SelectRowsToMerge, At
<1>3. /\ k.step = "commit" /\ k.coverage = j.coverage /\ k.stored = j.stored
      /\ k.missing = j.missing /\ k.fetched = j.fetched /\ k.merging = M
      /\ k.from_date = j.from_date /\ k.to_date = j.to_date
      /\ k.current_date = j.current_date /\ k.stock = j.stock
  BY <1>2 DEF JobType
<1>4. /\ M \subseteq rows
      /\ HasCompleted(j) \/ M = {}
      /\ M \subseteq overlapping(M, effective_start(j), completed_end(j))
  BY DEF overlapping
<1> HIDE DEF k, M
<1>5. /\ PastSessions(k) = PastSessions(j)
      /\ effective_start(k) = effective_start(j)
      /\ completed_end(k) = completed_end(j)
      /\ HasCompleted(k) = HasCompleted(j)
  BY <1>3, SameRange, SameCompleted
<1>6. Settled(CoveredDates(M), prices, absent)
  BY <1>4 DEF SyncInv, CoverageSound, Settled, CoveredDates
<1>7. JobSound(k, prices, absent)
  BY <1>2, <1>3, <1>4, <1>5, <1>6 DEF JobSound
<1> QED BY <1>1, <1>7, SoundJobStays, OneJobStep DEF TypeOK

\* The dates of the row a commit stores: each is in a row it replaces or in the
\* completed part of the request's range, whose sessions are all accounted for.
LEMMA CompletedRangeSettled ==
  ASSUME NEW j \in JobType, JobSound(j, prices, absent), j.step = "commit",
         NEW d \in effective_start(j) .. completed_end(j), d \in OpenDays
  PROVE  d \in prices \cup absent \cup j.fetched
<1>1. /\ effective_start(j) \in Days /\ effective_end(j) \in Days
      /\ completed_end(j) \in Dates /\ j.current_date \in Days
  BY RangeTypes DEF JobType
<1>2. completed_end(j) <= effective_end(j) /\ completed_end(j) <= j.current_date
  BY <1>1 DEF completed_end, Earlier, Days, Dates
<1>3. d \in open_dates(j)
  BY <1>1, <1>2 DEF open_dates, effective_range, Days, Dates
<1>4. CASE d < j.current_date
  <2>1. d \in PastSessions(j)
    BY <1>3, <1>4 DEF PastSessions
  <2>2. CoveredDates(j.missing) = {}
    BY DEF JobSound, CoveredDates
  <2> QED BY <2>1, <2>2 DEF JobSound
<1>5. CASE d = j.current_date
  <2>1. current_date_complete(j)
    BY <1>1, <1>5 DEF completed_end, Earlier, Days, Dates
  <2> QED BY <1>3, <1>5, <2>1 DEF current_date_complete, JobSound
<1> QED BY <1>1, <1>2, <1>4, <1>5 DEF Days, Dates

LEMMA MergedRowDates ==
  ASSUME NEW j \in JobType, JobSound(j, prices, absent), j.step = "commit",
         HasCompleted(j),
         NEW row, row.start_date \in Dates, row.end_date \in Dates,
         IsMergedRow(row, j)
  PROVE  /\ CoveredDates(j.merging) \subseteq Span(row)
         /\ Span(row) \subseteq (effective_start(j) .. completed_end(j))
                                \cup CoveredDates(j.merging)
<1>1. effective_start(j) \in Days /\ completed_end(j) \in Dates
  BY RangeTypes
<1>2. \A r \in j.merging : r.start_date \in Days /\ r.end_date \in Days
  BY DEF JobType, Rows
<1>3. \A r \in j.merging : /\ r.end_date + 1 >= effective_start(j)
                           /\ r.start_date <= completed_end(j) + 1
  BY DEF JobSound, overlapping
<1>4. \A r \in j.merging : row.start_date <= r.start_date /\ r.end_date <= row.end_date
  BY <1>2 DEF IsMergedRow, Days, Dates
<1>5. CoveredDates(j.merging) \subseteq Span(row)
  BY <1>2, <1>4 DEF CoveredDates, Span, Days, Dates
<1>6. ASSUME NEW d \in Span(row)
      PROVE  d \in (effective_start(j) .. completed_end(j)) \cup CoveredDates(j.merging)
  <2>1. d \in Int /\ row.start_date <= d /\ d <= row.end_date
    BY DEF Span, Dates
  <2>2. CASE d < effective_start(j)
    <3>1. PICK r \in j.merging : row.start_date = r.start_date
      BY <1>1, <2>1, <2>2 DEF IsMergedRow, Days, Dates
    <3>2. d \in Span(r)
      BY <1>1, <1>2, <1>3, <2>1, <2>2, <3>1 DEF Span, Days, Dates
    <3> QED BY <3>2 DEF CoveredDates
  <2>3. CASE d > completed_end(j)
    <3>1. PICK r \in j.merging : row.end_date = r.end_date
      BY <1>1, <2>1, <2>3 DEF IsMergedRow, Days, Dates
    <3>2. d \in Span(r)
      BY <1>1, <1>2, <1>3, <2>1, <2>3, <3>1 DEF Span, Days, Dates
    <3> QED BY <3>2 DEF CoveredDates
  <2> QED BY <1>1, <2>1, <2>2, <2>3 DEF Days, Dates
<1> QED BY <1>5, <1>6

\* A commit settles only what its bars and the absences account for, and
\* unsettles nothing.
LEMMA CommitRows ==
  ASSUME TypeOK, SyncInv, NEW w \in Workers, Commit(w)
  PROVE  /\ CoverageSound'
         /\ CoveredDates(rows) \subseteq CoveredDates(rows')
<1> DEFINE j == job[w]
<1>1. /\ j \in JobType /\ JobSound(j, prices, absent) /\ j.step = "commit"
      /\ prices' = prices \cup j.fetched /\ absent' = absent
  BY DEF TypeOK, SyncInv, Commit, At
<1>2. CASE HasCompleted(j)
  <2>1. PICK row \in [id : {next_id}, source : {configured},
                      start_date : Dates, end_date : Dates] :
          IsMergedRow(row, j) /\ rows' = (rows \ j.merging) \cup {row}
    BY <1>2 DEF Commit
  <2>2. /\ CoveredDates(j.merging) \subseteq Span(row)
        /\ Span(row) \subseteq (effective_start(j) .. completed_end(j))
                               \cup CoveredDates(j.merging)
    BY <1>1, <1>2, <2>1, MergedRowDates
  <2>3. \A d \in effective_start(j) .. completed_end(j) :
          d \in OpenDays => d \in prices \cup absent \cup j.fetched
    BY <1>1, CompletedRangeSettled
  <2>4. CoveredDates(rows') \subseteq CoveredDates(rows) \cup Span(row)
    BY <2>1 DEF CoveredDates
  <2>5. CoveredDates(rows) \subseteq CoveredDates(rows')
    BY <2>1, <2>2 DEF CoveredDates
  <2>6. CoveredDates(rows') \cap OpenDays \subseteq prices' \cup absent'
    <3>1. CoveredDates(rows) \cap OpenDays \subseteq prices \cup absent
      BY DEF SyncInv, CoverageSound, Settled
    <3>2. CoveredDates(j.merging) \cap OpenDays \subseteq prices \cup absent
      BY <1>1 DEF JobSound, Settled
    <3> QED BY <1>1, <2>2, <2>3, <2>4, <3>1, <3>2
  <2> QED BY <2>5, <2>6 DEF CoverageSound, Settled
<1>3. CASE ~HasCompleted(j)
  <2>1. rows' = rows
    BY <1>3 DEF Commit
  <2> QED BY <1>1, <2>1 DEF SyncInv, CoverageSound, Settled
<1> QED BY <1>2, <1>3

LEMMA CommitSound ==
  ASSUME TypeOK, SyncInv, NEW w \in Workers, Commit(w)
  PROVE  SyncInv'
<1> DEFINE j == job[w]
           k == [j EXCEPT !.step = "answer"]
<1>1. Grows /\ Update(w, k) /\ prices' = prices \cup j.fetched
  BY DEF Commit, Grows
<1>2. j \in JobType /\ JobSound(j, prices, absent) /\ j.step = "commit"
  BY DEF TypeOK, SyncInv, Commit, At
<1>3. /\ k.step = "answer" /\ k.coverage = j.coverage /\ k.stored = j.stored
      /\ k.merging = j.merging
      /\ k.from_date = j.from_date /\ k.to_date = j.to_date
      /\ k.current_date = j.current_date /\ k.stock = j.stock
  BY <1>2 DEF JobType
<1> HIDE DEF k
<1>4. PastSessions(k) = PastSessions(j)
  BY <1>3, SameRange
<1>5. PastSessions(j) \subseteq prices' \cup absent'
  <2>1. CoveredDates(j.missing) = {}
    BY <1>2 DEF JobSound, CoveredDates
  <2> QED BY <1>1, <1>2, <2>1 DEF JobSound, Grows
<1>6. JobSound(j, prices', absent')
  BY <1>1, <1>2, SoundJobStays
<1>7. JobSound(k, prices', absent')
  BY <1>3, <1>4, <1>5, <1>6 DEF JobSound, Settled
<1> QED BY <1>1, <1>7, CommitRows, OneJobStep DEF TypeOK

LEMMA AnswerSound ==
  ASSUME TypeOK, SyncInv, NEW w \in Workers, Answer(w)
  PROVE  SyncInv'
<1> DEFINE j == job[w]
           D == prices \cap (j.from_date .. j.to_date)
           k == [NoJob EXCEPT !.from_date = j.from_date, !.to_date = j.to_date,
                              !.current_date = j.current_date, !.stock = j.stock,
                              !.answer = D, !.step = "done"]
<1>1. Grows /\ CoverageSound' /\ Update(w, k)
  BY CoverageStaysSound DEF Answer, tables, Grows, SyncInv
<1>2. j \in JobType /\ JobSound(j, prices, absent) /\ j.step = "answer"
  BY DEF TypeOK, SyncInv, Answer, At
<1>3. /\ k.step = "done" /\ k.coverage = {} /\ k.stored = {} /\ k.merging = {}
      /\ k.answer = D
      /\ k.from_date = j.from_date /\ k.to_date = j.to_date
      /\ k.current_date = j.current_date /\ k.stock = j.stock
  BY DEF NoJob
<1> HIDE DEF k
<1>4. PastSessions(k) = PastSessions(j)
  BY <1>3, SameRange
<1>5. PastSessions(j) \subseteq OpenDays /\ PastSessions(j) \subseteq prices \cup absent
  BY <1>2 DEF PastSessions, open_dates, JobSound, Settled
<1>6. PastSessions(j) \subseteq j.from_date .. j.to_date
  BY <1>2 DEF PastSessions, open_dates, effective_range, effective_start,
              effective_end, Earlier, Later, JobType, StockRow, Days, Dates, NoDelist
<1>7. JobSound(k, prices, absent)
  BY <1>3, <1>4, <1>5, <1>6 DEF JobSound, Settled, CoveredDates
<1> QED BY <1>1, <1>7, SoundJobStays, OneJobStep DEF TypeOK

\* Steps that end a request with nothing stored.
LEMMA FailureSound ==
  ASSUME TypeOK, SyncInv, NEW w \in Workers, ProviderFails(w) \/ DatabaseFails(w)
  PROVE  SyncInv'
<1>1. Grows /\ CoverageSound' /\ Update(w, NoJob)
  BY CoverageStaysSound DEF ProviderFails, DatabaseFails, tables, Grows, SyncInv
<1> QED BY <1>1, NoJobSound, OneJobStep DEF TypeOK

\* Steps of the system around the requests.
LEMMA WorldSound ==
  ASSUME SyncInv, Grows, UNCHANGED <<rows, job>>
  PROVE  SyncInv'
<1>1. CoverageSound'
  BY CoverageStaysSound DEF SyncInv
<1>2. \A w \in Workers : JobSound(job'[w], prices', absent')
  BY SoundJobStays DEF SyncInv
<1> QED BY <1>1, <1>2 DEF SyncInv

-----------------------------------------------------------------------------
(* Whatever the requests, ingestion, failures and restarts do between the   *)
(* steps of a sync, the coverage stays sound and each request in progress   *)
(* accounts for the past sessions of its range.                             *)
THEOREM SyncInvariant == Spec => [](TypeOK /\ SyncInv)
<1>1. Init => SyncInv
  BY NoJobSound DEF Init, SyncInv, CoverageSound, Settled, CoveredDates
<1>2. TypeOK /\ SyncInv /\ [Next]_vars => SyncInv'
  <2> SUFFICES ASSUME TypeOK, SyncInv, [Next]_vars PROVE SyncInv'
    OBVIOUS
  <2>1. ASSUME NEW w \in Workers, Proceed(w) PROVE SyncInv'
    BY <2>1, ReadCoverageSound, LoadOpenDatesSound, ReadStoredDatesSound,
       FetchRangeSound, UpsertSound, SelectRowsToMergeSound, CommitSound,
       AnswerSound DEF Proceed
  <2>2. ASSUME NEW w \in Workers, ProviderFails(w) \/ DatabaseFails(w)
        PROVE  SyncInv'
    BY <2>2, FailureSound
  <2>3. ASSUME NEW w \in Workers, NEW f \in Days, NEW t \in Days,
               StartRequest(w, f, t)
        PROVE  SyncInv'
    BY <2>3, StartSound
  <2>4. ASSUME NEW D \in SUBSET {d \in Traded : d <= today},
               NEW l \in Listings, Ingest(D, l)
        PROVE  SyncInv'
    BY <2>4, WorldSound DEF Ingest, Grows
  <2>5. ASSUME NEW d \in Days, Publish(d) PROVE SyncInv'
    BY <2>5, WorldSound DEF Publish, Grows, tables
  <2>6. CASE NextDay
    BY <2>6, WorldSound DEF NextDay, Grows, tables
  <2>7. ASSUME NEW s \in Sources, Restart(s) PROVE SyncInv'
    <3>1. CoverageSound' /\ \A w \in Workers : job'[w] = NoJob
      BY <2>7, CoverageStaysSound DEF Restart, Grows, tables, SyncInv
    <3> QED BY <3>1, NoJobSound DEF SyncInv
  <2>8. CASE UNCHANGED vars
    BY <2>8, WorldSound DEF vars, tables, Grows
  <2> QED
    BY <2>1, <2>2, <2>3, <2>4, <2>5, <2>6, <2>7, <2>8 DEF Next
<1> QED BY <1>1, <1>2, TypeCorrect, PTL DEF Spec

(* No date is settled, for good, before its bar is stored or a provider     *)
(* lacked it on a later day.                                                *)
THEOREM CoverageIsSound == Spec => []CoverageSound
<1>1. TypeOK /\ SyncInv => CoverageSound
  BY DEF SyncInv
<1> QED BY <1>1, SyncInvariant, PTL

(* An answered request returns every past session of its range that a       *)
(* provider had.                                                            *)
THEOREM ResponsesAreComplete == Spec => []ResponseComplete
<1>1. TypeOK /\ SyncInv => ResponseComplete
  BY DEF SyncInv, JobSound, ResponseComplete, PastSessions, At
<1> QED BY <1>1, SyncInvariant, PTL

-----------------------------------------------------------------------------
(* Only missing sessions are fetched *)

\* No range left to fetch holds a session the request saw stored or covered.
FetchesMissing(j) ==
  j.step = "fetch" =>
    CoveredDates(j.missing) \cap OpenDays \cap
      (j.stored \cup CoveredDates(j.coverage)) = {}

\* The ranges of group_missing_sessions stay inside the request's range, so a
\* session in one of them is an open date of the request.
LEMMA GroupMissingInRange ==
  ASSUME NEW j \in JobType, NEW available
  PROVE  CoveredDates(group_missing_sessions(open_dates(j), available)) \cap OpenDays
           \cap available = {}
<1> DEFINE M == group_missing_sessions(open_dates(j), available)
<1>1. SUFFICES ASSUME NEW d \in OpenDays, d \in CoveredDates(M), d \in available
               PROVE  FALSE
  OBVIOUS
<1>2. PICK r \in M : d \in Span(r)
  BY <1>1 DEF CoveredDates
<1>3. r.start_date \in effective_range(j) /\ r.end_date \in effective_range(j)
  BY <1>2 DEF group_missing_sessions, open_dates
<1>4. effective_start(j) \in Days /\ effective_end(j) \in Days
  BY RangeTypes
<1>5. d \in effective_range(j)
  BY <1>2, <1>3, <1>4 DEF effective_range, Span, Days
<1>6. d \in open_dates(j)
  BY <1>5 DEF open_dates
<1> QED BY <1>1, <1>6, GroupMissingOnly

\* A step of a request leaves the others as they were.
LEMMA FetchJobStep ==
  ASSUME OnlyMissingFetched, job \in [Workers -> JobType],
         NEW w \in Workers, NEW j, Update(w, j), FetchesMissing(j)
  PROVE  OnlyMissingFetched'
BY DEF OnlyMissingFetched, FetchesMissing, At, Update

\* A job that is not fetching has nothing to show.
LEMMA NotFetching ==
  ASSUME NEW j, j.step # "fetch"
  PROVE  FetchesMissing(j)
BY DEF FetchesMissing

LEMMA FetchRequestStep ==
  ASSUME TypeOK, OnlyMissingFetched, NEW w \in Workers,
         Proceed(w) \/ ProviderFails(w) \/ DatabaseFails(w)
  PROVE  OnlyMissingFetched'
<1> DEFINE j == job[w]
<1>1. job \in [Workers -> JobType] /\ j \in JobType
  BY DEF TypeOK
<1>2. CASE \/ ReadCoverage(w) \/ LoadOpenDates(w) \/ Upsert(w)
           \/ SelectRowsToMerge(w) \/ Commit(w) \/ Answer(w)
           \/ ProviderFails(w) \/ DatabaseFails(w)
  <2>1. NoJob.step = "idle"
    BY DEF NoJob
  <2>2. Update(w, NoJob) => OnlyMissingFetched'
    BY <1>1, <2>1, NotFetching, FetchJobStep
  <2>3. ASSUME NEW c, NEW s \in Steps \ {"fetch"},
               Update(w, [j EXCEPT !.coverage = c, !.step = s])
        PROVE  OnlyMissingFetched'
    <3> DEFINE k == [j EXCEPT !.coverage = c, !.step = s]
    <3>1. k.step = s
      BY <1>1 DEF JobType
    <3> HIDE DEF k
    <3>2. FetchesMissing(k)
      BY <3>1, NotFetching
    <3>3. Update(w, k)
      BY <2>3 DEF k
    <3> QED BY <1>1, <3>2, <3>3, FetchJobStep
  <2>4. ASSUME NEW m, NEW s \in Steps \ {"fetch"},
               Update(w, [j EXCEPT !.merging = m, !.step = s])
        PROVE  OnlyMissingFetched'
    <3> DEFINE k == [j EXCEPT !.merging = m, !.step = s]
    <3>1. k.step = s
      BY <1>1 DEF JobType
    <3> HIDE DEF k
    <3>2. FetchesMissing(k)
      BY <3>1, NotFetching
    <3>3. Update(w, k)
      BY <2>4 DEF k
    <3> QED BY <1>1, <3>2, <3>3, FetchJobStep
  <2>5. ASSUME NEW s \in Steps \ {"fetch"}, Update(w, [j EXCEPT !.step = s])
        PROVE  OnlyMissingFetched'
    <3> DEFINE k == [j EXCEPT !.step = s]
    <3>1. k.step = s
      BY <1>1 DEF JobType
    <3> HIDE DEF k
    <3>2. FetchesMissing(k)
      BY <3>1, NotFetching
    <3>3. Update(w, k)
      BY <2>5 DEF k
    <3> QED BY <1>1, <3>2, <3>3, FetchJobStep
  <2>6. CASE ReadCoverage(w)
    BY <2>2, <2>3, <2>6 DEF ReadCoverage, Steps
  <2>7. CASE ProviderFails(w) \/ DatabaseFails(w)
    BY <2>2, <2>7 DEF ProviderFails, DatabaseFails
  <2>8. CASE LoadOpenDates(w) \/ Upsert(w) \/ Commit(w)
    BY <2>5, <2>8 DEF LoadOpenDates, Upsert, Commit, Steps
  <2>9. CASE SelectRowsToMerge(w)
    BY <2>4, <2>9 DEF SelectRowsToMerge, Steps
  <2>10. CASE Answer(w)
    <3> DEFINE k == [NoJob EXCEPT !.from_date = j.from_date, !.to_date = j.to_date,
                                  !.current_date = j.current_date, !.stock = j.stock,
                                  !.answer = prices \cap (j.from_date .. j.to_date),
                                  !.step = "done"]
    <3>1. k.step = "done"
      BY DEF NoJob
    <3>2. Update(w, k)
      BY <2>10 DEF Answer
    <3> HIDE DEF k
    <3>3. FetchesMissing(k)
      BY <3>1, NotFetching
    <3> QED BY <1>1, <3>2, <3>3, FetchJobStep
  <2> QED BY <1>2, <2>6, <2>7, <2>8, <2>9, <2>10
<1>3. CASE ReadStoredDates(w)
  <2> DEFINE S == prices \cap effective_range(j)
             M == group_missing_sessions(open_dates(j), S \cup CoveredDates(j.coverage))
  <2>1. PICK s \in {"merge", "fetch"} :
          Update(w, [j EXCEPT !.stored = S, !.missing = M,
                              !.writes = (M # {}), !.step = s])
    BY <1>3 DEF ReadStoredDates
  <2> DEFINE k == [j EXCEPT !.stored = S, !.missing = M, !.writes = (M # {}), !.step = s]
  <2>2. k.coverage = j.coverage /\ k.stored = S /\ k.missing = M
    BY <1>1 DEF JobType
  <2>3. CoveredDates(M) \cap OpenDays \cap (S \cup CoveredDates(j.coverage)) = {}
    BY <1>1, GroupMissingInRange
  <2> HIDE DEF k, M, S
  <2>4. FetchesMissing(k)
    BY <2>2, <2>3 DEF FetchesMissing
  <2>5. Update(w, k)
    BY <2>1 DEF k
  <2> QED BY <1>1, <2>4, <2>5, FetchJobStep
<1>4. CASE FetchRange(w)
  <2>1. PICK r \in j.missing, s \in {"upsert", "fetch"} :
          Update(w, [j EXCEPT !.missing = j.missing \ {r},
                              !.fetched = j.fetched \cup (published \cap Span(r)),
                              !.step = s])
    BY <1>4 DEF FetchRange
  <2> DEFINE F == j.fetched \cup (published \cap Span(r))
             k == [j EXCEPT !.missing = j.missing \ {r}, !.fetched = F, !.step = s]
  <2>2. /\ k.coverage = j.coverage /\ k.stored = j.stored
        /\ k.missing = j.missing \ {r}
    BY <1>1 DEF JobType
  <2>3. FetchesMissing(j) /\ j.step = "fetch"
    BY <1>4 DEF FetchRange, OnlyMissingFetched, FetchesMissing, At
  <2> HIDE DEF k
  <2>4. FetchesMissing(k)
    BY <2>2, <2>3 DEF FetchesMissing, CoveredDates
  <2>5. Update(w, k)
    BY <2>1 DEF k
  <2> QED BY <1>1, <2>4, <2>5, FetchJobStep
<1> QED BY <1>2, <1>3, <1>4 DEF Proceed

LEMMA FetchStep ==
  ASSUME TypeOK, OnlyMissingFetched, [Next]_vars
  PROVE  OnlyMissingFetched'
<1>1. ASSUME NEW w \in Workers, Proceed(w) \/ ProviderFails(w) \/ DatabaseFails(w)
      PROVE  OnlyMissingFetched'
  BY <1>1, FetchRequestStep
<1>2. ASSUME NEW w \in Workers, NEW f \in Days, NEW t \in Days, StartRequest(w, f, t)
      PROVE  OnlyMissingFetched'
  <2> DEFINE j == [NoJob EXCEPT !.from_date = f, !.to_date = t,
                                !.current_date = today, !.stock = stock]
  <2>1. PICK s \in {"answer", "coverage"} : Update(w, [j EXCEPT !.step = s])
    BY <1>2 DEF StartRequest
  <2> DEFINE k == [j EXCEPT !.step = s]
  <2>2. k.step = s
    BY DEF NoJob
  <2> HIDE DEF k
  <2>3. Update(w, k)
    BY <2>1 DEF k
  <2> QED BY <2>2, <2>3, NotFetching, FetchJobStep DEF TypeOK
<1>3. CASE \E s \in Sources : Restart(s)
  BY <1>3 DEF Restart, OnlyMissingFetched, At, NoJob
<1>4. CASE UNCHANGED job
  BY <1>4 DEF OnlyMissingFetched, At
<1>5. (\E D \in SUBSET {d \in Traded : d <= today}, l \in Listings : Ingest(D, l))
        \/ (\E d \in Days : Publish(d)) \/ NextDay \/ UNCHANGED vars => UNCHANGED job
  BY DEF Ingest, Publish, NextDay, vars
<1> QED BY <1>1, <1>2, <1>3, <1>4, <1>5 DEF Next

\* No range sent to the provider holds a session the request had seen stored or
\* covered (market_data_sync.py, group_missing_sessions and its loop).
THEOREM OnlyMissingIsFetched == Spec => []OnlyMissingFetched
<1>1. Init => OnlyMissingFetched
  BY DEF Init, OnlyMissingFetched, At, NoJob
<1>2. TypeOK /\ OnlyMissingFetched /\ [Next]_vars => OnlyMissingFetched'
  BY FetchStep
<1> QED BY <1>1, <1>2, TypeCorrect, PTL DEF Spec

-----------------------------------------------------------------------------
(* The implementation of the ledger *)

(* The protocol implements the price ledger: bars and settled dates only    *)
(* grow, together, and each settled session is justified when it settles.   *)
THEOREM ImplementsLedger == Spec => LedgerSpec
<1>1. Init => Ledger!Init
  BY DEF Init, Ledger!Init, CoveredDates
<1>2. TypeOK /\ TypeOK' /\ SyncInv /\ SyncInv' /\ [Next]_vars => [Ledger!Next]_(Ledger!vars)
  <2> SUFFICES ASSUME TypeOK, TypeOK', SyncInv, SyncInv', [Next]_vars
               PROVE  Ledger!Next \/ UNCHANGED Ledger!vars
    OBVIOUS
  <2>1. prices' \in SUBSET Days /\ absent' \in SUBSET Days
    BY DEF TypeOK
  <2>2. CoveredDates(rows') \in SUBSET Days
    <3>1. \A r \in rows' : Span(r) \subseteq Days
      BY DEF TypeOK, Rows, Span, Days
    <3> QED BY <3>1 DEF CoveredDates
  <2>3. CoveredDates(rows') \cap OpenDays \subseteq prices' \cup absent'
    BY DEF SyncInv, CoverageSound, Settled
  <2>4. ASSUME prices \subseteq prices', absent' = absent,
               CoveredDates(rows) \subseteq CoveredDates(rows')
        PROVE  Ledger!Next
    BY <2>1, <2>2, <2>3, <2>4 DEF Ledger!Next, Ledger!Record, Ledger!Justified
  <2>5. ASSUME absent \subseteq absent', UNCHANGED <<prices, rows>>
        PROVE  Ledger!Next
    BY <2>1, <2>5 DEF Ledger!Next, Ledger!LearnAbsent
  <2>6. ASSUME NEW w \in Workers, Commit(w) PROVE Ledger!Next
    BY <2>4, <2>6, CommitRows DEF Commit
  <2>7. ASSUME NEW w \in Workers, FetchRange(w) PROVE Ledger!Next
    BY <2>5, <2>7 DEF FetchRange, tables
  <2>8. ASSUME NEW w \in Workers,
               \/ ReadCoverage(w) \/ LoadOpenDates(w) \/ ReadStoredDates(w)
               \/ Upsert(w) \/ SelectRowsToMerge(w) \/ Answer(w)
               \/ ProviderFails(w) \/ DatabaseFails(w)
        PROVE  Ledger!Next
    BY <2>5, <2>8 DEF ReadCoverage, LoadOpenDates, ReadStoredDates, Upsert,
       SelectRowsToMerge, Answer, ProviderFails, DatabaseFails, tables
  <2>9. ASSUME NEW w \in Workers, NEW f \in Days, NEW t \in Days,
               StartRequest(w, f, t)
        PROVE  Ledger!Next
    BY <2>5, <2>9 DEF StartRequest, tables
  <2>10. ASSUME NEW D \in SUBSET {d \in Traded : d <= today},
                NEW l \in Listings, Ingest(D, l)
         PROVE  Ledger!Next
    BY <2>4, <2>10 DEF Ingest
  <2>11. ASSUME NEW d \in Days, Publish(d) PROVE Ledger!Next
    BY <2>5, <2>11 DEF Publish, tables
  <2>12. CASE NextDay
    BY <2>5, <2>12 DEF NextDay, tables
  <2>13. ASSUME NEW s \in Sources, Restart(s) PROVE Ledger!Next
    BY <2>5, <2>13 DEF Restart, tables
  <2>14. CASE UNCHANGED vars
    BY <2>5, <2>14 DEF vars, tables
  <2> QED
    BY <2>6, <2>7, <2>8, <2>9, <2>10, <2>11, <2>12, <2>13, <2>14
       DEF Next, Proceed
<1> QED BY <1>1, <1>2, SyncInvariant, PTL DEF Spec, LedgerSpec, Ledger!Spec

-----------------------------------------------------------------------------
(* Merged rows: the class-wide session lock of a provider's clients is held *)
(* from the calendar call to the end of the request, so it is what keeps    *)
(* two requests from replacing the same rows.                               *)

Inside == {"stored", "fetch", "upsert", "merge", "commit"}

MineToMerge(j) ==
  IF HasCompleted(j)
  THEN overlapping({r \in rows : r.source = configured},
                   effective_start(j), completed_end(j))
  ELSE {}

LockInv == \A w \in Workers : job[w].step \in Inside => session_lock = w

MergeInv == \A w \in Workers : At(w, "commit") => job[w].merging = MineToMerge(job[w])

SerialInv == LockInv /\ MergeInv /\ RangesMerged

\* A step that leaves the rows and the provider alone preserves the three
\* invariants if the job it stores does.
LEMMA SerialJobStep ==
  ASSUME SerialInv, job \in [Workers -> JobType], UNCHANGED <<rows, configured>>,
         NEW w \in Workers, NEW j, Update(w, j),
         session_lock' = session_lock \/ session_lock \in {NoWorker, w},
         j.step \in Inside => session_lock' = w,
         j.step = "commit" => j.merging = MineToMerge(j)
  PROVE  SerialInv'
<1>1. ASSUME NEW v \in Workers
      PROVE  /\ job'[v].step \in Inside => session_lock' = v
             /\ job'[v].step = "commit" => job'[v].merging = MineToMerge(job'[v])
  <2>1. CASE v = w
    BY <2>1 DEF Update
  <2>2. CASE v # w
    <3>1. job'[v] = job[v]
      BY <2>2 DEF Update
    <3>2. job[v].step \in Inside => session_lock = v
      BY DEF SerialInv, LockInv
    <3>3. v # NoWorker
      OBVIOUS
    <3> QED BY <2>2, <3>1, <3>2, <3>3 DEF SerialInv, MergeInv, At
  <2> QED BY <2>1, <2>2
<1>2. LockInv'
  BY <1>1 DEF LockInv
<1>3. \A v \in Workers : MineToMerge(job[v])' = MineToMerge(job'[v])
  BY DEF MineToMerge
<1>4. MergeInv'
  BY <1>1, <1>3 DEF MergeInv, At
<1>5. RangesMerged'
  BY DEF SerialInv, RangesMerged
<1> QED BY <1>2, <1>4, <1>5 DEF SerialInv

LEMMA SerialOutside ==
  ASSUME TypeOK, SerialInv, NEW w \in Workers,
         \/ \E f, d \in Days : StartRequest(w, f, d)
         \/ ReadCoverage(w) \/ ProviderFails(w) \/ DatabaseFails(w) \/ Answer(w)
  PROVE  SerialInv'
<1>1. UNCHANGED <<rows, configured>>
  BY DEF StartRequest, ReadCoverage, ProviderFails, DatabaseFails, Answer,
         tables, world
<1>2. session_lock' = session_lock \/ session_lock \in {NoWorker, w}
  BY DEF StartRequest, ReadCoverage, ProviderFails, DatabaseFails, Answer,
         Teardown, Release
<1> DEFINE Leaves == \E j : /\ Update(w, j)
                            /\ j.step \in {"idle", "done", "answer", "coverage", "calendar"}
<1>3. Leaves
  <2>1. ASSUME NEW f \in Days, NEW d \in Days, StartRequest(w, f, d) PROVE Leaves
    <3> DEFINE j == [NoJob EXCEPT !.from_date = f, !.to_date = d,
                                  !.current_date = today, !.stock = stock]
    <3>1. j \in JobType
      BY StartType DEF TypeOK
    <3>2. PICK s \in {"answer", "coverage"} : Update(w, [j EXCEPT !.step = s])
      BY <2>1 DEF StartRequest
    <3>3. [j EXCEPT !.step = s].step = s
      BY <3>1 DEF JobType
    <3> QED BY <3>2, <3>3
  <2>2. CASE ReadCoverage(w)
    <3>1. job[w] \in JobType /\ NoJob.step = "idle"
      BY DEF TypeOK, NoJob
    <3>2. \/ \E c, s : /\ s \in {"answer", "calendar"}
                       /\ Update(w, [job[w] EXCEPT !.coverage = c, !.step = s])
          \/ Update(w, NoJob)
      BY <2>2 DEF ReadCoverage
    <3>3. \A c, s : [job[w] EXCEPT !.coverage = c, !.step = s].step = s
      BY <3>1 DEF JobType
    <3>4. ASSUME NEW c, NEW s, s \in {"answer", "calendar"},
                 Update(w, [job[w] EXCEPT !.coverage = c, !.step = s])
          PROVE  Leaves
      <4> DEFINE k == [job[w] EXCEPT !.coverage = c, !.step = s]
      <4>1. Update(w, k) /\ k.step \in {"answer", "calendar"}
        BY <3>3, <3>4
      <4> HIDE DEF k
      <4> QED BY <4>1
    <3> QED BY <3>1, <3>2, <3>4
  <2>3. CASE ProviderFails(w) \/ DatabaseFails(w)
    BY <2>3 DEF ProviderFails, DatabaseFails, NoJob
  <2>4. CASE Answer(w)
    <3> DEFINE j == job[w]
               k == [NoJob EXCEPT !.from_date = j.from_date, !.to_date = j.to_date,
                                  !.current_date = j.current_date, !.stock = j.stock,
                                  !.answer = prices \cap (j.from_date .. j.to_date),
                                  !.step = "done"]
    <3>1. Update(w, k)
      BY <2>4 DEF Answer
    <3>2. k.step = "done"
      BY DEF NoJob
    <3> HIDE DEF k
    <3> QED BY <3>1, <3>2
  <2> QED BY <2>1, <2>2, <2>3, <2>4
<1> QED BY <1>1, <1>2, <1>3, SerialJobStep DEF TypeOK, Inside

LEMMA SerialInside ==
  ASSUME TypeOK, SerialInv, Sources \subseteq Serialised, NEW w \in Workers,
         \/ LoadOpenDates(w) \/ ReadStoredDates(w) \/ FetchRange(w) \/ Upsert(w)
  PROVE  SerialInv'
<1>1. UNCHANGED <<rows, configured>> /\ job[w] \in JobType
  BY DEF LoadOpenDates, ReadStoredDates, FetchRange, Upsert, tables, world, TypeOK
<1>2. session_lock' = w /\ (session_lock' = session_lock \/ session_lock \in {NoWorker, w})
  <2>1. CASE LoadOpenDates(w)
    BY <2>1 DEF LoadOpenDates, MayEnter, TypeOK
  <2>2. CASE ReadStoredDates(w) \/ FetchRange(w) \/ Upsert(w)
    <3>1. job[w].step \in Inside /\ session_lock' = session_lock
      BY <2>2 DEF ReadStoredDates, FetchRange, Upsert, At, Inside
    <3> QED BY <3>1 DEF SerialInv, LockInv
  <2> QED BY <2>1, <2>2
<1>3. \E j : Update(w, j) /\ j.step \in {"stored", "merge", "fetch", "upsert"}
  <2>1. CASE LoadOpenDates(w)
    BY <1>1, <2>1 DEF LoadOpenDates, JobType
  <2>2. CASE ReadStoredDates(w)
    <3>1. \E S, M, b, s : /\ s \in {"merge", "fetch"}
                          /\ Update(w, [job[w] EXCEPT !.stored = S, !.missing = M,
                                                      !.writes = b, !.step = s])
      BY <2>2 DEF ReadStoredDates
    <3>2. \A S, M, b, s : [job[w] EXCEPT !.stored = S, !.missing = M,
                                         !.writes = b, !.step = s].step = s
      BY <1>1 DEF JobType
    <3>3. PICK S, M, b, s : /\ s \in {"merge", "fetch"}
                            /\ Update(w, [job[w] EXCEPT !.stored = S, !.missing = M,
                                                        !.writes = b, !.step = s])
      BY <3>1
    <3> DEFINE k == [job[w] EXCEPT !.stored = S, !.missing = M, !.writes = b, !.step = s]
    <3>4. Update(w, k) /\ k.step \in {"merge", "fetch"}
      BY <3>2, <3>3
    <3> HIDE DEF k
    <3> QED BY <3>4
  <2>3. CASE FetchRange(w)
    <3>1. \E M, F, s : /\ s \in {"upsert", "fetch"}
                       /\ Update(w, [job[w] EXCEPT !.missing = M, !.fetched = F, !.step = s])
      BY <2>3 DEF FetchRange
    <3>2. \A M, F, s : [job[w] EXCEPT !.missing = M, !.fetched = F, !.step = s].step = s
      BY <1>1 DEF JobType
    <3>3. PICK M, F, s : /\ s \in {"fetch", "upsert"}
                         /\ Update(w, [job[w] EXCEPT !.missing = M, !.fetched = F, !.step = s])
      BY <3>1
    <3> DEFINE k == [job[w] EXCEPT !.missing = M, !.fetched = F, !.step = s]
    <3>4. Update(w, k) /\ k.step \in {"fetch", "upsert"}
      BY <3>2, <3>3
    <3> HIDE DEF k
    <3> QED BY <3>4
  <2>4. CASE Upsert(w)
    BY <1>1, <2>4 DEF Upsert, JobType
  <2> QED BY <2>1, <2>2, <2>3, <2>4
<1> QED BY <1>1, <1>2, <1>3, SerialJobStep DEF TypeOK

LEMMA SerialSelect ==
  ASSUME TypeOK, SerialInv, NEW w \in Workers, SelectRowsToMerge(w)
  PROVE  SerialInv'
<1> DEFINE j == job[w]
           k == [j EXCEPT !.merging = MineToMerge(j), !.step = "commit"]
<1>1. /\ UNCHANGED <<rows, configured, session_lock>> /\ Update(w, k)
      /\ j \in JobType /\ j.step = "merge"
  BY DEF SelectRowsToMerge, tables, world, TypeOK, At, MineToMerge
<1>2. /\ k.step = "commit" /\ k.merging = MineToMerge(j)
      /\ k.from_date = j.from_date /\ k.to_date = j.to_date
      /\ k.current_date = j.current_date /\ k.stock = j.stock
      /\ k.stored = j.stored /\ k.fetched = j.fetched
  BY <1>1 DEF JobType
<1> HIDE DEF k
<1>3. MineToMerge(k) = MineToMerge(j)
  BY <1>2, SameRange, SameCompleted DEF MineToMerge
<1>4. session_lock = w
  BY <1>1 DEF SerialInv, LockInv, Inside
<1> QED BY <1>1, <1>2, <1>3, <1>4, SerialJobStep DEF TypeOK

\* A row that the merge did not select does not touch the merged row.
LEMMA MergedRowApart ==
  ASSUME TypeOK, RangesMerged, NEW j \in JobType, HasCompleted(j),
         j.merging = MineToMerge(j),
         NEW row, row.start_date \in Dates, row.end_date \in Dates,
         row.source = configured, IsMergedRow(row, j),
         NEW q \in rows \ j.merging, q.source = configured
  PROVE  ~Mergeable(row, q) /\ ~Mergeable(q, row)
<1>1. /\ effective_start(j) \in Nat /\ completed_end(j) \in Nat
      /\ effective_start(j) <= completed_end(j)
  BY RangeTypes DEF Days, Dates, HasCompleted
<1>2. \A r \in rows : /\ r.start_date \in Nat /\ r.end_date \in Nat
                      /\ r.start_date <= r.end_date
  BY DEF TypeOK, Rows, Days
<1>3. q.end_date + 1 < effective_start(j) \/ completed_end(j) + 1 < q.start_date
  BY <1>1, <1>2 DEF MineToMerge, overlapping
<1>4. \A r \in j.merging : /\ r \in rows
                           /\ r.end_date + 1 >= effective_start(j)
                           /\ r.start_date <= completed_end(j) + 1
                           /\ ~Mergeable(r, q)
  BY DEF MineToMerge, overlapping, RangesMerged
<1>5. row.start_date \in Nat /\ row.end_date \in Nat
  BY DEF Dates
<1>6. CASE q.end_date + 1 < effective_start(j)
  <2>1. CASE row.start_date = effective_start(j)
    BY <1>1, <1>2, <1>5, <1>6, <2>1 DEF Mergeable
  <2>2. ASSUME NEW r \in j.merging, row.start_date = r.start_date
        PROVE  ~Mergeable(row, q) /\ ~Mergeable(q, row)
    <3>1. /\ r.end_date + 1 >= effective_start(j) /\ ~Mergeable(r, q)
          /\ r.start_date \in Nat /\ r.end_date \in Nat /\ q.end_date \in Nat
          /\ q.start_date \in Nat /\ q.start_date <= q.end_date
      BY <1>2, <1>4
    <3>2. q.end_date + 1 < r.start_date
      BY <1>1, <1>6, <3>1 DEF Mergeable
    <3> QED BY <1>5, <2>2, <3>1, <3>2 DEF Mergeable
  <2> QED BY <2>1, <2>2 DEF IsMergedRow
<1>7. CASE completed_end(j) + 1 < q.start_date
  <2>1. CASE row.end_date = completed_end(j)
    BY <1>1, <1>2, <1>5, <1>7, <2>1 DEF Mergeable
  <2>2. ASSUME NEW r \in j.merging, row.end_date = r.end_date
        PROVE  ~Mergeable(row, q) /\ ~Mergeable(q, row)
    <3>1. /\ r.start_date <= completed_end(j) + 1 /\ ~Mergeable(r, q)
          /\ r.start_date \in Nat /\ r.end_date \in Nat /\ q.end_date \in Nat
          /\ q.start_date \in Nat /\ q.start_date <= q.end_date
      BY <1>2, <1>4
    <3>2. r.end_date + 1 < q.start_date
      BY <1>1, <1>7, <3>1 DEF Mergeable
    <3> QED BY <1>5, <2>2, <3>1, <3>2 DEF Mergeable
  <2> QED BY <2>1, <2>2 DEF IsMergedRow
<1> QED BY <1>3, <1>6, <1>7

LEMMA SerialCommit ==
  ASSUME TypeOK, SerialInv, NEW w \in Workers, Commit(w)
  PROVE  SerialInv'
<1> DEFINE j == job[w]
           k == [j EXCEPT !.step = "answer"]
<1>1. /\ UNCHANGED <<configured, session_lock>> /\ Update(w, k)
      /\ j \in JobType /\ j.step = "commit" /\ session_lock = w
  BY DEF Commit, world, TypeOK, At, SerialInv, LockInv, Inside
<1>2. k.step = "answer"
  BY <1>1 DEF JobType
<1>3. ASSUME NEW v \in Workers PROVE job'[v].step \notin Inside \/ v = w
  <2>1. v # w => job'[v] = job[v]
    BY <1>1 DEF Update
  <2> QED BY <1>1, <2>1 DEF SerialInv, LockInv
<1>4. job'[w].step = "answer"
  BY <1>1, <1>2 DEF Update, TypeOK
<1>5. LockInv' /\ MergeInv'
  BY <1>3, <1>4 DEF LockInv, MergeInv, At, Inside
<1>6. RangesMerged'
  <2>1. CASE HasCompleted(j)
    <3>1. PICK row \in [id : {next_id}, source : {configured},
                        start_date : Dates, end_date : Dates] :
            IsMergedRow(row, j) /\ rows' = (rows \ j.merging) \cup {row}
      BY <2>1 DEF Commit
    <3>2. j.merging = MineToMerge(j)
      BY <1>1 DEF SerialInv, MergeInv, At
    <3>3. \A q \in rows \ j.merging :
            q.source = row.source => ~Mergeable(row, q) /\ ~Mergeable(q, row)
      BY <1>1, <2>1, <3>1, <3>2, MergedRowApart DEF SerialInv
    <3> QED BY <3>1, <3>3 DEF SerialInv, RangesMerged
  <2>2. CASE ~HasCompleted(j)
    BY <2>2 DEF Commit, SerialInv, RangesMerged
  <2> QED BY <2>1, <2>2
<1> QED BY <1>5, <1>6 DEF SerialInv

LEMMA SerialWorld ==
  ASSUME SerialInv, UNCHANGED <<rows, configured, session_lock, job>>
  PROVE  SerialInv'
BY DEF SerialInv, LockInv, MergeInv, RangesMerged, MineToMerge, At

(* When every provider's clients share a session lock, concurrent requests  *)
(* leave no two rows of one source that one row could replace.              *)
THEOREM SerialisedRowsAreMerged ==
  ASSUME Sources \subseteq Serialised
  PROVE  Spec => []RangesMerged
<1>1. Init => SerialInv
  BY DEF Init, SerialInv, LockInv, MergeInv, RangesMerged, At, NoJob, Inside
<1>2. TypeOK /\ SerialInv /\ [Next]_vars => SerialInv'
  <2> SUFFICES ASSUME TypeOK, SerialInv, [Next]_vars PROVE SerialInv'
    OBVIOUS
  <2>1. ASSUME NEW w \in Workers, Proceed(w) \/ ProviderFails(w) \/ DatabaseFails(w)
        PROVE  SerialInv'
    BY <2>1, SerialOutside, SerialInside, SerialSelect, SerialCommit DEF Proceed
  <2>2. ASSUME NEW w \in Workers, NEW f \in Days, NEW d \in Days,
               StartRequest(w, f, d)
        PROVE  SerialInv'
    BY <2>2, SerialOutside
  <2>3. ASSUME NEW D \in SUBSET {d \in Traded : d <= today},
               NEW l \in Listings, Ingest(D, l)
        PROVE  SerialInv'
    BY <2>3, SerialWorld DEF Ingest, world
  <2>4. ASSUME NEW d \in Days, Publish(d) PROVE SerialInv'
    BY <2>4, SerialWorld DEF Publish, tables
  <2>5. CASE NextDay
    BY <2>5, SerialWorld DEF NextDay, tables
  <2>6. ASSUME NEW s \in Sources, Restart(s) PROVE SerialInv'
    BY <2>6 DEF Restart, tables, SerialInv, LockInv, MergeInv, RangesMerged,
                At, NoJob, Inside
  <2>7. CASE UNCHANGED vars
    BY <2>7, SerialWorld DEF vars, tables, world
  <2> QED BY <2>1, <2>2, <2>3, <2>4, <2>5, <2>6, <2>7 DEF Next
<1>3. SerialInv => RangesMerged
  BY DEF SerialInv
<1> QED BY <1>1, <1>2, <1>3, TypeCorrect, PTL DEF Spec
=============================================================================
