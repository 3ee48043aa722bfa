-------------------------- MODULE CacheBatchProofs --------------------------
(***************************************************************************)
(* Proofs about CacheBatch, for every list of securities, calendar, number *)
(* of retries, and without its bounds on runs and faults: what the script  *)
(* calls completed or skipped reaches both ends of the range asked for,    *)
(* and every cached stock stays in the manifest.                           *)
(***************************************************************************)
EXTENDS CacheBatch, FiniteSetTheorems, TLAPS

\* Of the sets in a nonempty family of subsets of 0 .. h, one is minimal.
LEMMA MinimalSet ==
  ASSUME NEW h \in Nat, NEW F \in SUBSET (SUBSET (0 .. h)), F # {}
  PROVE  \E X \in F : \A Y \in F : Y \subseteq X => Y = X
<1>1. IsFiniteSet(0 .. h)
  BY FS_Interval
<1>2. FiniteSubsetsOf(0 .. h) = SUBSET (0 .. h)
  BY <1>1, FS_FiniteSubsetsOfFinite
<1>3. IsWellFoundedOn(StrictSubsetOrdering(0 .. h), SUBSET (0 .. h))
  BY <1>2, FS_StrictSubsetOrderingWellFounded
<1>4. PICK X \in F : \A Y \in F : ~ (<<Y, X>> \in StrictSubsetOrdering(0 .. h))
  BY <1>3, WFMin
<1>5. ASSUME NEW Y \in F, Y \subseteq X PROVE Y = X
  BY <1>4, <1>5 DEF StrictSubsetOrdering
<1> QED BY <1>5

\* A nonempty bounded set of dates has a latest one.
LEMMA LatestDate ==
  ASSUME NEW h \in Nat, NEW S \in SUBSET (0 .. h), S # {}
  PROVE  \E m \in S : \A n \in S : n <= m
<1> DEFINE From(n) == {x \in S : n <= x}
           F == {From(n) : n \in S}
<1>1. F \in SUBSET (SUBSET (0 .. h)) /\ F # {}
  OBVIOUS
<1>2. PICK X \in F : \A Y \in F : Y \subseteq X => Y = X
  <2>1. \A G \in SUBSET (SUBSET (0 .. h)) :
          G # {} => \E X \in G : \A Y \in G : Y \subseteq X => Y = X
    BY MinimalSet
  <2> HIDE DEF F
  <2> QED BY <1>1, <2>1
<1>3. PICK m \in S : X = From(m)
  OBVIOUS
<1>4. ASSUME NEW n \in S PROVE n <= m
  <2>1. CASE m < n
    <3>1. ASSUME NEW x \in From(n) PROVE x \in From(m)
      <4>1. x \in S /\ x \in Int /\ n \in Int /\ m \in Int
        OBVIOUS
      <4> QED BY <4>1, <2>1
    <3>2. From(n) = From(m)
      BY <3>1, <1>2, <1>3
    <3>3. m \in From(m)
      OBVIOUS
    <3> QED BY <3>2, <3>3, <2>1
  <2> QED BY <2>1
<1> QED BY <1>4

-----------------------------------------------------------------------------
USE BatchAssumption

Verdicts == {"none", "failed", "skipped", "completed"}
Good == {"skipped", "completed"}
Working == {"read", "query", "reconnect", "truncate", "write"}

RunType ==
  [codes : SUBSET All, start_date : Days, end_date : Days, force : BOOLEAN,
   stop_on_error : BOOLEAN, status : [All -> Verdicts]]

Steps == {"idle", "manifest", "enter", "leave", "summary"} \cup Working

BatchType ==
  /\ step \in Steps
  /\ file \in [All -> SUBSET Days] /\ rows \in SUBSET Days
  /\ index \in Nat /\ run \in RunType
  /\ summary \in [status : [All -> Verdicts], start_date : Days, end_date : Days, of_run : Nat]
  /\ runs \in Nat

-----------------------------------------------------------------------------
(* The dates *)

\* Dates are integers, and the first is one of them.
LEMMA DayFacts == Days \subseteq Int /\ 1 \in Days /\ Days \subseteq 0 .. Horizon
BY DEF Days

\* latest is well defined on a nonempty set of dates.
LEMMA LatestCached ==
  ASSUME NEW S \in SUBSET Days, S # {}
  PROVE  latest(S) \in S /\ \A e \in S : e <= latest(S)
<1>1. Horizon \in Nat /\ S \in SUBSET (0 .. Horizon)
  BY DayFacts
<1>2. \E m \in S : \A n \in S : n <= m
  BY <1>1, LatestDate
<1> QED BY <1>2 DEF latest

\* What is fetched from next_fetch_start on lets the file reach both ends, and when
\* that lies past the end nothing had to be fetched.
LEMMA FetchReaches ==
  ASSUME BatchType, NEW S \in SUBSET Days
  PROVE  /\ next_fetch_start(S) \in Int
         /\ ReachesBothEnds(S \cup (Sessions \cap next_fetch_start(S) .. run.end_date),
                            run.start_date, run.end_date)
         /\ next_fetch_start(S) > run.end_date =>
              ReachesBothEnds(S, run.start_date, run.end_date)
<1> DEFINE n == next_fetch_start(S)
<1>1. run.start_date \in Int /\ run.end_date \in Int
  BY DayFacts DEF BatchType, RunType
<1>2. CASE n = run.start_date
  <2>1. ReachesBothEnds(S \cup (Sessions \cap n .. run.end_date), run.start_date, run.end_date)
    BY <1>2 DEF ReachesBothEnds
  <2>2. ASSUME n > run.end_date PROVE run.start_date .. run.end_date = {}
    BY <1>1, <1>2, <2>2
  <2>3. n \in Int
    BY <1>1, <1>2
  <2>4. ASSUME n > run.end_date PROVE ReachesBothEnds(S, run.start_date, run.end_date)
    BY <2>2, <2>4 DEF ReachesBothEnds
  <2> QED BY <2>1, <2>3, <2>4
<1>3. CASE n # run.start_date
  <2>1. S # {} /\ n = latest(S) + 1 /\ \E d \in S : d <= run.start_date
    BY <1>3 DEF next_fetch_start
  <2>2. PICK e \in S : e <= run.start_date
    BY <2>1
  <2>3. latest(S) \in S /\ latest(S) \in Int /\ e \in Int
    BY <2>1, LatestCached, DayFacts
  <2>4. ASSUME NEW d \in Sessions, d \in run.start_date .. run.end_date, d \notin S, d < n
        PROVE  e < d /\ d < latest(S)
    BY <1>1, <2>1, <2>2, <2>3, <2>4
  <2>5. ReachesBothEnds(S \cup (Sessions \cap n .. run.end_date), run.start_date, run.end_date)
    <3>1. SUFFICES ASSUME NEW d \in Sessions \cap run.start_date .. run.end_date,
                          d \notin S, d \notin Sessions \cap n .. run.end_date
                   PROVE  e < d /\ d < latest(S)
      BY <2>3 DEF ReachesBothEnds
    <3> QED BY <1>1, <2>1, <2>3, <2>4, <3>1
  <2>6. ASSUME n > run.end_date PROVE ReachesBothEnds(S, run.start_date, run.end_date)
    <3>1. SUFFICES ASSUME NEW d \in Sessions \cap run.start_date .. run.end_date, d \notin S
                   PROVE  e < d /\ d < latest(S)
      BY <2>3 DEF ReachesBothEnds
    <3> QED BY <1>1, <2>1, <2>3, <2>4, <2>6, <3>1
  <2> QED BY <2>1, <2>3, <2>5, <2>6
<1> QED BY <1>1, <1>2, <1>3

-----------------------------------------------------------------------------
(* The inductive invariant *)

\* The securities from the one worked on have no status yet.
PlaceInv ==
  /\ step \in Working =>
       /\ index \in DOMAIN Securities
       /\ \A k \in DOMAIN Securities : k >= index => run.status[Securities[k]] = "none"
  /\ step \in {"manifest", "enter"} => \A s \in All : run.status[s] = "none"

\* What this run has reached so far, and what it is about to write.
CoverInv ==
  \A s \in All : run.status[s] \in Good =>
    ReachesBothEnds(file[s], run.start_date, run.end_date)
RowsInv ==
  step \in {"truncate", "write"} => ReachesBothEnds(rows, run.start_date, run.end_date)

\* While a run goes on, the summary is that of an earlier one.
SummaryInv ==
  /\ summary.of_run <= runs
  /\ step # "idle" => summary.of_run < runs
  /\ CompletedReachesBothEnds

BatchInv == BatchType /\ PlaceInv /\ CoverInv /\ RowsInv /\ SummaryInv

\* The security worked on is one of the list.
LEMMA CurrentFacts ==
  ASSUME PlaceInv, step \in Working
  PROVE  current \in All /\ index \in Nat
BY DEF PlaceInv, current, All

\* Before the first run nothing is promised.
LEMMA InitialBatch == Init => BatchInv
<1> SUFFICES ASSUME Init PROVE BatchInv
  OBVIOUS
<1>1. BatchType
  BY DayFacts DEF Init, BatchType, Steps, RunType, NoRun, NoSummary, NoItem, Verdicts
<1>2. PlaceInv /\ CoverInv /\ RowsInv
  BY DEF Init, PlaceInv, CoverInv, RowsInv, Working, Good, NoRun, NoItem
<1>3. SummaryInv
  BY DEF Init, SummaryInv, CompletedReachesBothEnds, NoSummary, NoItem
<1> QED BY <1>1, <1>2, <1>3 DEF BatchInv

\* The next turn is that of a later security, or the loop is over.
LEMMA NextTurn ==
  ASSUME NEW i \in Nat, GoTo(i)
  PROVE  /\ index' \in Nat
         /\ \/ step' = "leave"
            \/ step' = "read" /\ index' \in DOMAIN Securities /\ index' >= i
<1>1. DOMAIN Securities \subseteq Nat
  OBVIOUS
<1>2. CASE Places(i) = {}
  BY <1>2 DEF GoTo
<1>3. CASE Places(i) # {}
  BY <1>1, <1>3 DEF GoTo, Places
<1> QED BY <1>2, <1>3

\* What the end of the loop's body leaves, whatever became of the security.
LEMMA FinishKeeps ==
  ASSUME BatchType, PlaceInv, step \in Working,
         NEW status \in Verdicts \ {"none"}, Finish(status)
  PROVE  /\ step' \in {"leave", "read"} /\ index' \in Nat /\ rows' = {} /\ run' \in RunType
         /\ PlaceInv'
         /\ run'.start_date = run.start_date /\ run'.end_date = run.end_date
         /\ run'.status = [run.status EXCEPT ![current] = status]
<1>1. current \in All /\ index \in Nat
  BY CurrentFacts
<1>2. /\ index' \in Nat /\ rows' = {}
      /\ \/ step' = "leave"
         \/ step' = "read" /\ index' \in DOMAIN Securities /\ index' >= index + 1
  BY <1>1, NextTurn DEF Finish
<1>3. /\ run' \in RunType /\ run'.start_date = run.start_date /\ run'.end_date = run.end_date
      /\ run'.status = [run.status EXCEPT ![current] = status]
  BY <1>1 DEF Finish, BatchType, RunType
<1>4. PlaceInv'
  <2>1. SUFFICES ASSUME step' = "read", NEW k \in DOMAIN Securities, k >= index'
                 PROVE  run'.status[Securities[k]] = "none"
    BY <1>2 DEF PlaceInv, Working
  <2>2. index \in DOMAIN Securities /\ DOMAIN Securities \subseteq Nat
    BY DEF PlaceInv
  <2>3. k > index /\ Securities[k] \in All
    BY <1>1, <1>2, <2>1, <2>2 DEF All
  <2>4. Securities[k] # current
    BY <2>2, <2>3 DEF current
  <2>5. run.status[Securities[k]] = "none"
    BY <2>2, <2>3 DEF PlaceInv
  <2> QED BY <1>1, <1>3, <2>3, <2>4, <2>5 DEF BatchType, RunType
<1> QED BY <1>2, <1>3, <1>4

-----------------------------------------------------------------------------
(* The steps, by what they do to the loop *)

\* Until the run ends, the summary of an earlier run says nothing of it.
LEMMA SummaryStays ==
  ASSUME BatchInv, step # "idle", UNCHANGED <<summary, runs>>
  PROVE  SummaryInv'
<1>1. summary.of_run \in Nat /\ runs \in Nat /\ summary.of_run < runs
  BY DEF BatchInv, BatchType, SummaryInv
<1>2. summary.of_run # runs
  BY <1>1
<1> QED BY <1>1, <1>2 DEF SummaryInv, CompletedReachesBothEnds

\* The end of the script, in its own time or not.
LEMMA ExitStep ==
  ASSUME BatchInv, Exit, UNCHANGED <<file, summary, runs>>
  PROVE  BatchInv'
<1>1. BatchType'
  BY DayFacts DEF BatchInv, BatchType, Exit, Steps, RunType, NoRun, NoItem, Verdicts
<1>2. PlaceInv' /\ CoverInv' /\ RowsInv'
  BY DEF Exit, PlaceInv, CoverInv, RowsInv, Working, Good, NoRun, NoItem
<1>3. SummaryInv'
  BY DEF BatchInv, SummaryInv, CompletedReachesBothEnds, Exit
<1> QED BY <1>1, <1>2, <1>3 DEF BatchInv

\* The work on a security ends with a status that its file deserves.
LEMMA FinishStep ==
  ASSUME BatchInv, step \in Working, UNCHANGED <<summary, runs>>,
         NEW status \in Verdicts \ {"none"}, Finish(status),
         file' \in [All -> SUBSET Days],
         \A s \in All : s # current => file'[s] = file[s],
         status \in Good => ReachesBothEnds(file'[current], run.start_date, run.end_date)
  PROVE  BatchInv'
<1>1. /\ step' \in {"leave", "read"} /\ index' \in Nat /\ rows' = {} /\ run' \in RunType
      /\ PlaceInv'
      /\ run'.start_date = run.start_date /\ run'.end_date = run.end_date
      /\ run'.status = [run.status EXCEPT ![current] = status]
  BY FinishKeeps DEF BatchInv
<1>2. current \in All
  BY CurrentFacts DEF BatchInv
<1>3. BatchType'
  BY <1>1 DEF BatchInv, BatchType, Steps, Working
<1>4. CoverInv'
  <2>1. SUFFICES ASSUME NEW s \in All, run'.status[s] \in Good
                 PROVE  ReachesBothEnds(file'[s], run.start_date, run.end_date)
    BY <1>1 DEF CoverInv
  <2>2. CASE s = current
    BY <1>1, <1>2, <2>1, <2>2 DEF BatchInv, BatchType, RunType
  <2>3. CASE s # current
    <3>1. run.status[s] \in Good /\ file'[s] = file[s]
      BY <1>1, <2>1, <2>3 DEF BatchInv, BatchType, RunType
    <3> QED BY <3>1 DEF BatchInv, CoverInv
  <2> QED BY <2>2, <2>3
<1>5. RowsInv'
  BY <1>1 DEF RowsInv
<1>6. SummaryInv'
  BY SummaryStays DEF Working
<1> QED BY <1>1, <1>3, <1>4, <1>5, <1>6 DEF BatchInv

\* A step within the work on a security, which alone may have its file changed.
LEMMA WorkStep ==
  ASSUME BatchInv, step \in Working, step' \in Working,
         UNCHANGED <<run, index, summary, runs>>,
         rows' \in SUBSET Days, RowsInv',
         file' \in [All -> SUBSET Days],
         \A s \in All : s # current => file'[s] = file[s]
  PROVE  BatchInv'
<1>1. BatchType' /\ PlaceInv'
  BY DEF BatchInv, BatchType, Steps, PlaceInv, Working
<1>2. run.status[current] = "none" /\ index \in Nat
  BY CurrentFacts DEF BatchInv, PlaceInv, current
<1>3. CoverInv'
  <2>1. SUFFICES ASSUME NEW s \in All, run.status[s] \in Good
                 PROVE  ReachesBothEnds(file'[s], run.start_date, run.end_date)
    BY DEF CoverInv
  <2>2. s # current
    BY <1>2, <2>1 DEF Good
  <2> QED BY <2>1, <2>2 DEF BatchInv, CoverInv
<1>4. SummaryInv'
  BY SummaryStays DEF Working
<1> QED BY <1>1, <1>3, <1>4 DEF BatchInv

\* A step that changes neither a file nor the run, outside the loop.
LEMMA OuterStep ==
  ASSUME BatchInv, UNCHANGED <<file, summary, runs, run, index, rows>>,
         step # "idle", step' \in {"enter", "summary"},
         step' = "enter" => step = "manifest"
  PROVE  BatchInv'
<1>1. BatchType' /\ PlaceInv' /\ RowsInv'
  BY DEF BatchInv, BatchType, Steps, PlaceInv, RowsInv, Working
<1>2. CoverInv'
  BY DEF BatchInv, CoverInv
<1>3. SummaryInv'
  BY SummaryStays
<1> QED BY <1>1, <1>2, <1>3 DEF BatchInv

-----------------------------------------------------------------------------
(* The theorems *)

\* Every step of the script keeps the invariant.
LEMMA NextBatch == BatchInv /\ [Next]_vars => BatchInv'
<1> SUFFICES ASSUME BatchInv, [Next]_vars PROVE BatchInv'
  OBVIOUS
<1>0. /\ BatchType /\ PlaceInv /\ CoverInv /\ RowsInv /\ SummaryInv
      /\ run.start_date \in Days /\ run.end_date \in Days
  BY DEF BatchInv, BatchType, RunType
<1>1. ASSUME NEW codes \in SUBSET All \ {{}}, NEW s \in StartDates, NEW e \in EndDates,
             NEW force \in BOOLEAN, NEW stop \in BOOLEAN, StartRun(codes, s, e, force, stop)
      PROVE  BatchInv'
  <2>1. BatchType'
    BY <1>0, <1>1 DEF StartRun, BatchType, Steps, RunType, NoItem, Verdicts, work
  <2>2. PlaceInv' /\ CoverInv' /\ RowsInv'
    BY <1>1 DEF StartRun, PlaceInv, CoverInv, RowsInv, Working, Good, NoItem
  <2>3. SummaryInv'
    <3>1. /\ summary' = summary /\ runs' = runs + 1 /\ step' = "manifest"
          /\ summary.of_run \in Nat /\ runs \in Nat /\ summary.of_run <= runs
      BY <1>0, <1>1 DEF StartRun, BatchType, SummaryInv
    <3>2. summary.of_run < runs + 1 /\ summary.of_run # runs + 1
      BY <3>1
    <3> QED BY <3>1, <3>2 DEF SummaryInv, CompletedReachesBothEnds
  <2> QED BY <2>1, <2>2, <2>3 DEF BatchInv
<1>2. CASE WriteManifest
  BY <1>2, OuterStep DEF WriteManifest, work
<1>3. CASE DryRun
  BY <1>3, ExitStep DEF DryRun
<1>4. CASE Enter
  <2>1. CASE Exit
    BY <1>4, <2>1, ExitStep DEF Enter
  <2>2. CASE GoTo(1) /\ UNCHANGED <<run, rows, attempt>>
    <3>1. /\ index' \in Nat
          /\ \/ step' = "leave"
             \/ step' = "read" /\ index' \in DOMAIN Securities
      BY <2>2, NextTurn
    <3>2. step = "enter" /\ UNCHANGED <<file, summary, runs>>
      BY <1>4 DEF Enter
    <3>3. BatchType'
      BY <1>0, <2>2, <3>1, <3>2 DEF BatchType, Steps, Working
    <3>4. PlaceInv' /\ RowsInv'
      BY <1>0, <2>2, <3>1, <3>2 DEF PlaceInv, RowsInv, Working, All
    <3>5. CoverInv'
      BY <1>0, <2>2, <3>2 DEF CoverInv
    <3> QED BY <3>2, <3>3, <3>4, <3>5, SummaryStays DEF BatchInv
  <2> QED BY <1>4, <2>1, <2>2 DEF Enter
<1>5. CASE ReadCache
  <2> DEFINE existing == IF run.force THEN {} ELSE file[current]
  <2>1. /\ step = "read" /\ step \in Working /\ current \in All
        /\ existing \in SUBSET Days
        /\ UNCHANGED <<file, summary, runs>> /\ file' \in [All -> SUBSET Days]
    BY <1>0, <1>5, CurrentFacts DEF ReadCache, Working, BatchType
  <2>2. CASE Finish("failed")
    BY <2>1, <2>2, FinishStep DEF Verdicts, Good
  <2>3. CASE next_fetch_start(existing) > run.end_date /\ Finish("skipped")
    <3>1. ReachesBothEnds(existing, run.start_date, run.end_date)
      BY <1>0, <2>1, <2>3, FetchReaches
    <3>2. ReachesBothEnds(file[current], run.start_date, run.end_date)
      BY <3>1 DEF ReachesBothEnds
    <3> QED BY <2>1, <2>3, <3>2, FinishStep DEF Verdicts
  <2>4. CASE rows' = existing /\ step' = "query" /\ UNCHANGED <<run, index>>
    BY <2>1, <2>4, WorkStep DEF Working, RowsInv
  <2> QED BY <1>5, <2>2, <2>3, <2>4 DEF ReadCache
<1>6. CASE QuerySucceeds
  <2>1. ReachesBothEnds(rows', run.start_date, run.end_date)
    BY <1>0, <1>6, FetchReaches DEF QuerySucceeds, BatchType
  <2>2. rows' \in SUBSET Days
    BY <1>0, <1>6 DEF QuerySucceeds, BatchType
  <2>3. RowsInv' /\ file' \in [All -> SUBSET Days]
    BY <1>0, <1>6, <2>1 DEF QuerySucceeds, RowsInv, BatchType
  <2> QED BY <1>6, <2>2, <2>3, WorkStep DEF QuerySucceeds, Working
<1>7. CASE QueryFails
  <2>1. step = "query" /\ UNCHANGED <<file, summary, runs>> /\ file' \in [All -> SUBSET Days]
    BY <1>0, <1>7 DEF QueryFails, BatchType
  <2>2. CASE Finish("failed")
    BY <2>1, <2>2, FinishStep DEF Verdicts, Good, Working
  <2>3. CASE step' = "reconnect" /\ UNCHANGED <<run, work>>
    BY <1>0, <2>1, <2>3, WorkStep DEF Working, RowsInv, work, BatchType
  <2> QED BY <1>7, <2>2, <2>3 DEF QueryFails
<1>8. CASE Reconnect
  <2>1. step = "reconnect" /\ UNCHANGED <<file, summary, runs>> /\ file' \in [All -> SUBSET Days]
    BY <1>0, <1>8 DEF Reconnect, BatchType
  <2>2. CASE Finish("failed")
    BY <2>1, <2>2, FinishStep DEF Verdicts, Good, Working
  <2>3. CASE step' = "query" /\ UNCHANGED <<run, index, rows>>
    BY <1>0, <2>1, <2>3, WorkStep DEF Working, RowsInv, BatchType
  <2> QED BY <1>8, <2>2, <2>3 DEF Reconnect
<1>9. CASE Truncate
  <2>1. /\ file' \in [All -> SUBSET Days]
        /\ \A s \in All : s # current => file'[s] = file[s]
    BY <1>0, <1>9 DEF Truncate, BatchType
  <2>2. RowsInv' /\ rows' \in SUBSET Days
    BY <1>0, <1>9 DEF Truncate, RowsInv, BatchType, work
  <2> QED BY <1>9, <2>1, <2>2, WorkStep DEF Truncate, Working, work
<1>10. ASSUME NEW d \in Days, WriteChunk(d) PROVE BatchInv'
  <2>1. /\ file' \in [All -> SUBSET Days]
        /\ \A s \in All : s # current => file'[s] = file[s]
    BY <1>0, <1>10 DEF WriteChunk, BatchType
  <2>2. RowsInv' /\ rows' \in SUBSET Days
    BY <1>0, <1>10 DEF WriteChunk, RowsInv, BatchType, work
  <2> QED BY <1>10, <2>1, <2>2, WorkStep DEF WriteChunk, Working, work
<1>11. CASE WriteRest
  <2>1. /\ file' \in [All -> SUBSET Days] /\ file'[current] = rows
        /\ \A s \in All : s # current => file'[s] = file[s]
    BY <1>0, <1>11, CurrentFacts DEF WriteRest, BatchType, Working
  <2>2. ReachesBothEnds(file'[current], run.start_date, run.end_date)
    BY <1>0, <1>11, <2>1 DEF WriteRest, RowsInv
  <2> QED BY <1>11, <2>1, <2>2, FinishStep DEF WriteRest, Verdicts, Working
<1>12. CASE WriteFails
  BY <1>0, <1>12, FinishStep DEF WriteFails, Verdicts, Good, Working, BatchType
<1>13. CASE Leave
  <2>1. CASE Exit
    BY <1>13, <2>1, ExitStep DEF Leave
  <2>2. CASE step' = "summary" /\ UNCHANGED <<run, work>>
    BY <1>13, <2>2, OuterStep DEF Leave, work
  <2> QED BY <1>13, <2>1, <2>2 DEF Leave
<1>14. CASE WriteSummary
  <2>1. BatchType'
    BY <1>0, <1>14, DayFacts
    DEF WriteSummary, Exit, BatchType, Steps, RunType, NoRun, NoItem, Verdicts
  <2>2. PlaceInv' /\ CoverInv' /\ RowsInv'
    BY <1>14 DEF WriteSummary, Exit, PlaceInv, CoverInv, RowsInv, Working, Good, NoRun, NoItem
  <2>3. SummaryInv'
    BY <1>0, <1>14
    DEF WriteSummary, Exit, SummaryInv, CompletedReachesBothEnds, CoverInv, Good, BatchType
  <2> QED BY <2>1, <2>2, <2>3 DEF BatchInv
<1>15. CASE Kill
  BY <1>15, ExitStep DEF Kill
<1>16. CASE ConnectionDrops \/ UNCHANGED vars
  BY <1>16
  DEF ConnectionDrops, vars, work, counters, client, BatchInv, BatchType, PlaceInv, CoverInv,
      RowsInv, SummaryInv, CompletedReachesBothEnds
<1> QED BY <1>1, <1>2, <1>3, <1>4, <1>5, <1>6, <1>7, <1>8, <1>9, <1>10, <1>11, <1>12,
           <1>13, <1>14, <1>15, <1>16 DEF Next

\* What the summary calls completed or skipped reaches both ends of the range.
THEOREM CompletedIsReached == Spec => []CompletedReachesBothEnds
<1>1. BatchInv => CompletedReachesBothEnds
  BY DEF BatchInv, SummaryInv
<1> QED BY InitialBatch, NextBatch, <1>1, PTL DEF Spec

\* Between the manifest's truncation and its rewrite only its own file is touched:
\* past them it lists every security, and otherwise a kill tore it or nothing is cached.
ManifestInv ==
  /\ step \notin {"idle", "manifest"} => manifest = All
  /\ torn \/ manifest = All \/ \A s \in All : file[s] = {}

\* Every step keeps it.
LEMMA NextManifest == ManifestInv /\ [Next]_vars => ManifestInv'
<1> SUFFICES ASSUME ManifestInv, [Next]_vars PROVE ManifestInv'
  OBVIOUS
<1>1. ASSUME NEW codes \in SUBSET All \ {{}}, NEW s \in StartDates, NEW e \in EndDates,
             NEW force \in BOOLEAN, NEW stop \in BOOLEAN, StartRun(codes, s, e, force, stop)
      PROVE  ManifestInv'
  BY <1>1 DEF StartRun, ManifestInv
<1>2. CASE WriteManifest
  BY <1>2 DEF WriteManifest, ManifestInv
<1>3. CASE DryRun \/ Enter \/ ConnectionDrops \/ Kill \/ Leave \/ WriteSummary \/ UNCHANGED vars
  BY <1>3
  DEF DryRun, Enter, ConnectionDrops, Kill, Leave, WriteSummary, Exit, vars, ManifestInv
<1>4. CASE ReadCache \/ QuerySucceeds \/ QueryFails \/ Reconnect
  BY <1>4 DEF ReadCache, QuerySucceeds, QueryFails, Reconnect, ManifestInv
<1>5. CASE Truncate \/ WriteRest \/ WriteFails \/ \E d \in Days : WriteChunk(d)
  BY <1>5 DEF Truncate, WriteRest, WriteFails, WriteChunk, ManifestInv
<1> QED BY <1>1, <1>2, <1>3, <1>4, <1>5 DEF Next

\* A cached stock is listed in the manifest unless a kill tore it.
THEOREM CachedAreListed == Spec => []CachedStocksStayListed
<1>1. Init => ManifestInv
  BY DEF Init, ManifestInv
<1>2. ManifestInv => CachedStocksStayListed
  BY DEF ManifestInv, CachedStocksStayListed
<1> QED BY NextManifest, <1>1, <1>2, PTL DEF Spec

-----------------------------------------------------------------------------
(* Failures and faults *)

Fresh == {"idle", "manifest", "enter", "read"}
Failed == {s \in All \ cut : run.status[s] = "failed"}

\* What went wrong pays for each failed security.  A query without a session fails at
\* no charge; on a later attempt, which began with a new login, the loss of that
\* session is a fault nobody has failed for yet.
FailureInv ==
  /\ failures \in Nat /\ attempt \in Nat
  /\ Cardinality(Failed) <= failures
  /\ step = "query" /\ attempt > 1 /\ ~connected => Cardinality(Failed) < failures
  /\ step \in Fresh => attempt = 1

\* Counting securities.
LEMMA FailedCount ==
  ASSUME NEW X \in SUBSET All, NEW Y \in SUBSET All, NEW x, X \subseteq Y \cup {x}
  PROVE  /\ Cardinality(X) \in Nat /\ Cardinality(Y) \in Nat
         /\ Cardinality(X) <= Cardinality(Y) + 1
         /\ X \subseteq Y => Cardinality(X) <= Cardinality(Y)
<1>1. Len(Securities) \in Nat /\ DOMAIN Securities = 1 .. Len(Securities)
  OBVIOUS
<1>2. IsFiniteSet(1 .. Len(Securities))
  BY <1>1, FS_Interval
<1>3. Securities \in Surjection(1 .. Len(Securities), All)
  BY <1>1 DEF All, Surjection
<1>4. IsFiniteSet(All)
  BY <1>2, <1>3, FS_Surjection
<1>5. IsFiniteSet(X) /\ IsFiniteSet(Y)
  BY <1>4, FS_Subset
<1>6. IsFiniteSet(Y \cup {x}) /\ Cardinality(Y \cup {x}) <= Cardinality(Y) + 1
  <2>1. Cardinality(Y) \in Nat
    BY <1>5, FS_CardinalityType
  <2>2. /\ IsFiniteSet(Y \cup {x})
        /\ Cardinality(Y \cup {x}) = IF x \in Y THEN Cardinality(Y) ELSE Cardinality(Y) + 1
    BY <1>5, FS_AddElement
  <2> QED BY <2>1, <2>2
<1>7. Cardinality(X) <= Cardinality(Y \cup {x})
  BY <1>6, FS_Subset
<1>8. X \subseteq Y => Cardinality(X) <= Cardinality(Y)
  BY <1>5, FS_Subset
<1> QED BY <1>5, <1>6, <1>7, <1>8, FS_CardinalityType

\* A step that fails nobody, unless a fault pays for it, keeps the invariant.
LEMMA PaidStep ==
  ASSUME FailureInv, attempt' \in Nat, step' \in Fresh => attempt' = 1, NEW x,
         \/ /\ Failed' \subseteq Failed /\ failures' = failures
            /\ step' = "query" /\ attempt' > 1 /\ ~connected'
                 => step = "query" /\ attempt > 1 /\ ~connected
         \/ Failed' \subseteq Failed /\ failures' = failures + 1
         \/ Failed' \subseteq Failed \cup {x} /\ failures' = failures + 1 /\ step' # "query"
         \/ /\ Failed' \subseteq Failed \cup {x} /\ failures' = failures /\ step' # "query"
            /\ step = "query" /\ attempt > 1 /\ ~connected
  PROVE  FailureInv'
<1>1. Failed \in SUBSET All /\ Failed' \in SUBSET All /\ Failed' \subseteq Failed \cup {x}
  BY DEF Failed
<1> DEFINE n == Cardinality(Failed)
           m == Cardinality(Failed')
<1>2. /\ n \in Nat /\ m \in Nat /\ m <= n + 1
      /\ Failed' \subseteq Failed => m <= n
  BY <1>1, FailedCount
<1>3. /\ failures \in Nat /\ n <= failures
      /\ step = "query" /\ attempt > 1 /\ ~connected => n < failures
  BY DEF FailureInv
<1>4. failures' \in Nat /\ m <= failures'
  BY <1>2, <1>3
<1>5. step' = "query" /\ attempt' > 1 /\ ~connected' => m < failures'
  BY <1>2, <1>3
<1> QED BY <1>4, <1>5 DEF FailureInv

\* Only the security worked on can fail, or have its file cut or mended.
LEMMA FinishFails ==
  ASSUME BatchType, PlaceInv, step \in Working,
         NEW status \in Verdicts \ {"none"}, Finish(status),
         cut' \cup {current} = cut \cup {current}
  PROVE  /\ attempt' = 1 /\ step' # "query"
         /\ Failed' \subseteq Failed \cup {current}
         /\ status # "failed" \/ current \in cut' => Failed' \subseteq Failed
<1>1. current \in All
  BY CurrentFacts
<1>2. /\ step' \in {"leave", "read"}
      /\ run'.status = [run.status EXCEPT ![current] = status]
  BY FinishKeeps
<1>3. run.status \in [All -> Verdicts]
  BY DEF BatchType, RunType
<1>4. ASSUME NEW s \in Failed', s # current PROVE s \in Failed
  BY <1>1, <1>2, <1>3, <1>4 DEF Failed
<1>5. ASSUME status # "failed" \/ current \in cut' PROVE current \notin Failed'
  BY <1>1, <1>2, <1>3, <1>5 DEF Failed
<1>6. attempt' = 1
  BY DEF Finish
<1> QED BY <1>2, <1>4, <1>5, <1>6

\* While a security is worked on it has not failed, whatever becomes of its file.
LEMMA WorkFails ==
  ASSUME PlaceInv, step \in Working, run' = run, cut' \cup {current} = cut \cup {current}
  PROVE  Failed' \subseteq Failed
<1>1. run.status[current] = "none"
  BY DEF PlaceInv, current
<1> QED BY <1>1 DEF Failed

\* Without a run nobody has failed.
LEMMA ExitFails ==
  ASSUME FailureInv, Exit, failures' \in {failures, failures + 1}
  PROVE  FailureInv'
<1>1. Failed' = {} /\ attempt' = 1 /\ step' = "idle"
  BY DEF Exit, Failed, NoRun, NoItem
<1> QED BY <1>1, PaidStep DEF Fresh

\* Every step pays for what fails in it.
LEMMA NextFailure ==
  ASSUME retries > 0, BatchInv, FailureInv, [Next]_vars
  PROVE  FailureInv'
<1>0. BatchType /\ PlaceInv /\ attempt \in Nat /\ failures \in Nat /\ retries \in Nat
  BY DEF BatchInv, FailureInv
<1>1. ASSUME NEW codes \in SUBSET All \ {{}}, NEW s \in StartDates, NEW e \in EndDates,
             NEW force \in BOOLEAN, NEW stop \in BOOLEAN, StartRun(codes, s, e, force, stop)
      PROVE  FailureInv'
  <2>1. Failed' = {} /\ failures' = 0 /\ step' = "manifest" /\ attempt' = 1
    BY <1>1 DEF StartRun, Failed, NoItem, work, FailureInv, Fresh
  <2>2. Cardinality(Failed') = 0
    BY <2>1, FS_EmptySet
  <2> QED BY <1>0, <2>1, <2>2 DEF FailureInv
<1>2. CASE DryRun \/ Kill \/ WriteSummary
  BY <1>2, ExitFails DEF DryRun, Kill, WriteSummary, NoFault, Fault
<1>3. CASE WriteManifest
  <2>1. Failed' = Failed /\ attempt' = attempt /\ step' = "enter" /\ failures' = failures
    BY <1>3 DEF WriteManifest, Failed, NoFault, work
  <2>2. attempt = 1
    BY <1>3 DEF WriteManifest, FailureInv, Fresh
  <2> QED BY <1>0, <2>1, <2>2, PaidStep DEF Fresh
<1>4. CASE Enter
  <2>1. CASE Exit
    BY <1>4, <2>1, ExitFails DEF Enter, NoFault, Fault
  <2>2. CASE GoTo(1) /\ NoFault /\ UNCHANGED <<run, rows, attempt>>
    <3>1. Failed' = Failed /\ attempt' = attempt /\ failures' = failures /\ attempt = 1
      BY <1>4, <2>2 DEF Enter, Failed, NoFault, FailureInv, Fresh
    <3>2. step' \in {"leave", "read"}
      BY <2>2 DEF GoTo
    <3> QED BY <1>0, <3>1, <3>2, PaidStep DEF Fresh
  <2> QED BY <1>4, <2>1, <2>2 DEF Enter
<1>5. CASE ReadCache
  <2>1. step = "read" /\ cut' = cut /\ failures' = failures
    BY <1>5 DEF ReadCache, NoFault
  <2>2. CASE current \in cut /\ Finish("failed")
    <3>1. attempt' = 1 /\ step' # "query" /\ Failed' \subseteq Failed
      BY <1>0, <2>1, <2>2, FinishFails DEF Working, Verdicts
    <3> QED BY <2>1, <3>1, PaidStep DEF Fresh
  <2>3. CASE Finish("skipped")
    <3>1. attempt' = 1 /\ step' # "query" /\ Failed' \subseteq Failed
      BY <1>0, <2>1, <2>3, FinishFails DEF Working, Verdicts
    <3> QED BY <2>1, <3>1, PaidStep DEF Fresh
  <2>4. CASE UNCHANGED <<run, index, attempt>> /\ step' = "query"
    <3>1. Failed' = Failed /\ attempt' = attempt
      BY <2>1, <2>4 DEF Failed
    <3>2. attempt = 1
      BY <2>1 DEF FailureInv, Fresh
    <3> QED BY <1>0, <2>1, <3>1, <3>2, PaidStep DEF Fresh
  <2> QED BY <1>5, <2>2, <2>3, <2>4 DEF ReadCache
<1>6. CASE QuerySucceeds
  <2>1. Failed' = Failed /\ attempt' = attempt /\ step' = "truncate" /\ failures' = failures
    BY <1>6 DEF QuerySucceeds, Failed, NoFault
  <2> QED BY <1>0, <2>1, PaidStep DEF Fresh
<1>7. CASE QueryFails
  <2>1. /\ step = "query" /\ cut' = cut
        /\ failures' = IF connected THEN failures + 1 ELSE failures
    BY <1>7 DEF QueryFails, NoFault, Fault
  <2>2. CASE attempt >= attempts /\ Finish("failed")
    <3>1. attempt' = 1 /\ step' # "query" /\ Failed' \subseteq Failed \cup {current}
      BY <1>0, <2>1, <2>2, FinishFails DEF Working, Verdicts
    <3>2. attempt > 1
      BY <1>0, <2>2 DEF attempts
    <3> QED BY <2>1, <3>1, <3>2, PaidStep DEF Fresh
  <2>3. CASE step' = "reconnect" /\ UNCHANGED <<run, work>>
    <3>1. Failed' = Failed /\ attempt' = attempt
      BY <2>1, <2>3 DEF Failed, work
    <3> QED BY <1>0, <2>1, <2>3, <3>1, PaidStep DEF Fresh
  <2> QED BY <1>7, <2>2, <2>3 DEF QueryFails
<1>8. CASE Reconnect
  <2>1. step = "reconnect" /\ cut' = cut
    BY <1>8 DEF Reconnect
  <2>2. CASE Fault /\ Finish("failed")
    <3>1. attempt' = 1 /\ step' # "query" /\ Failed' \subseteq Failed \cup {current}
      BY <1>0, <2>1, <2>2, FinishFails DEF Working, Verdicts
    <3> QED BY <2>2, <3>1, PaidStep DEF Fault, Fresh
  <2>3. CASE Login(FALSE) /\ step' = "query" /\ attempt' = attempt + 1 /\ NoFault /\ run' = run
    <3>1. Failed' = Failed /\ failures' = failures /\ attempt' \in Nat /\ connected'
      BY <1>0, <2>1, <2>3 DEF Failed, NoFault, Login, LoggedIn
    <3> QED BY <2>3, <3>1, PaidStep DEF Fresh
  <2> QED BY <1>8, <2>2, <2>3 DEF Reconnect
<1>9. CASE Truncate \/ \E d \in Days : WriteChunk(d)
  <2>1. /\ step \in {"truncate", "write"} /\ step' = "write" /\ run' = run
        /\ attempt' = attempt /\ failures' = failures
        /\ cut' \cup {current} = cut \cup {current}
    BY <1>9 DEF Truncate, WriteChunk, NoFault, work
  <2>2. Failed' \subseteq Failed
    BY <1>0, <2>1, WorkFails DEF Working
  <2> QED BY <1>0, <2>1, <2>2, PaidStep DEF Fresh
<1>10. CASE WriteRest
  <2>1. step = "write" /\ cut' \cup {current} = cut \cup {current} /\ failures' = failures
    BY <1>10 DEF WriteRest, NoFault
  <2>2. attempt' = 1 /\ step' # "query" /\ Failed' \subseteq Failed
    BY <1>0, <1>10, <2>1, FinishFails DEF WriteRest, Working, Verdicts
  <2> QED BY <2>1, <2>2, PaidStep DEF Fresh
<1>11. CASE WriteFails
  <2>1. step \in {"truncate", "write"} /\ cut' = cut /\ failures' = failures + 1
    BY <1>11 DEF WriteFails, Fault
  <2>2. attempt' = 1 /\ step' # "query" /\ Failed' \subseteq Failed \cup {current}
    BY <1>0, <1>11, <2>1, FinishFails DEF WriteFails, Working, Verdicts
  <2> QED BY <2>1, <2>2, PaidStep DEF Fresh
<1>12. CASE Leave
  <2>1. CASE Exit
    BY <1>12, <2>1, ExitFails DEF Leave, NoFault, Fault
  <2>2. CASE step' = "summary" /\ NoFault /\ UNCHANGED <<run, work>>
    <3>1. Failed' = Failed /\ attempt' = attempt /\ failures' = failures
      BY <1>12, <2>2 DEF Leave, Failed, NoFault, work
    <3> QED BY <1>0, <2>2, <3>1, PaidStep DEF Fresh
  <2> QED BY <1>12, <2>1, <2>2 DEF Leave
<1>13. CASE ConnectionDrops
  <2>1. Failed' = Failed /\ attempt' = attempt /\ failures' = failures + 1
    BY <1>13 DEF ConnectionDrops, Failed, Fault, work
  <2>2. step' \in Fresh => attempt' = 1
    BY <1>13 DEF ConnectionDrops, FailureInv, work
  <2> QED BY <1>0, <2>1, <2>2, PaidStep DEF Fresh
<1>14. CASE UNCHANGED vars
  BY <1>14 DEF vars, work, client, FailureInv, Failed
<1> QED BY <1>1, <1>2, <1>3, <1>4, <1>5, <1>6, <1>7, <1>8, <1>9, <1>10, <1>11, <1>12,
           <1>13, <1>14 DEF Next

\* With at least one retry, a run has no more failed securities, files cut within a
\* date apart, than sessions were lost and operations failed.
THEOREM FailuresAreCaused == Spec => []FailuresNeedFaults
<1>1. Init => (retries > 0 => FailureInv)
  <2>1. SUFFICES ASSUME Init PROVE FailureInv
    OBVIOUS
  <2>2. Failed = {} /\ failures = 0 /\ attempt = 1 /\ step = "idle"
    BY <2>1 DEF Init, Failed, NoRun, NoItem
  <2> QED BY <2>2, FS_EmptySet DEF FailureInv, Fresh
<1>2. BatchInv /\ (retries > 0 => FailureInv) /\ [Next]_vars => (retries > 0 => FailureInv)'
  BY NextFailure
<1>3. (retries > 0 => FailureInv) => FailuresNeedFaults
  BY DEF FailureInv, Failed, FailuresNeedFaults
<1> QED BY InitialBatch, NextBatch, <1>1, <1>2, <1>3, PTL DEF Spec
=============================================================================
