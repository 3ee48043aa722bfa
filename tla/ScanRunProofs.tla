--------------------------- MODULE ScanRunProofs ---------------------------
(***************************************************************************)
(* Theorems about ScanRun, for any scans, stocks, rules and builds: the    *)
(* results of a run are stored together or not at all, its summary agrees  *)
(* with them, and the definition stored for a signal's rule is the one the *)
(* scan evaluated.                                                         *)
(***************************************************************************)
EXTENDS ScanRun, FiniteSetTheorems, TLAPS

USE ScanAssumption

-----------------------------------------------------------------------------
(* The inductive invariant. *)

\* The prices a process has loaded, once it has.
Histories == {<< >>} \cup UNION {[K -> Shapes] : K \in SUBSET Stocks}

ProcType ==
  [step : Steps, rules : Selections \cup {<< >>}, build : Builds \cup {NoBuild},
   keys : SUBSET Stocks, stocks : SUBSET Stocks, histories : Histories,
   missing : SUBSET Rules]

WellTyped == TypeOK /\ proc \in [Scans -> ProcType]

Loaded == {"histories", "definitions", "insert", "commit"}
Evaluable == {"definitions", "insert", "commit"}
Inserting == {"insert", "commit"}
Finished == {"failing", "ended"}

\* What a process holds at each step: a build once its run exists, stocks once
\* loaded, then a history for each; nothing to insert when it commits.
ProcessesReady ==
  \A s \in Scans :
    /\ proc[s].step # "new" => proc[s].build \in Builds
    /\ proc[s].step \in Loaded => proc[s].stocks # {}
    /\ proc[s].step \in Evaluable => proc[s].histories \in [proc[s].stocks -> Shapes]
    /\ proc[s].step = "commit" => proc[s].missing = {}

\* A definition being inserted is not stored, and its scan is in a transaction.
InsertsAreNew ==
  \A s \in Scans, r \in Rules :
    inserting[r] = s => definitions[r] = NoBuild /\ proc[s].step \in Inserting

\* A scan past the check has each definition: its own build's is stored, or it
\* inserts it, or is yet to.
DefinitionsHeld ==
  \A s \in Scans : proc[s].step \in Inserting =>
    \A r \in selected(s) :
      r \in proc[s].missing \/ inserting[r] = s \/ definitions[r] = proc[s].build

\* Only a scan that is done has signals or is completed.
ResultsAreLast ==
  /\ \A signal \in signals : proc[signal[1]].step \in Finished
  /\ \A s \in Scans : Completed(s) => proc[s].step \in Finished

\* A scan with signals that is to record a failure did not hear of its commit.
FailuresUnheard ==
  \A signal \in signals :
    proc[signal[1]].step = "failing" => signal[1] \in unheard

Inv ==
  /\ WellTyped /\ ProcessesReady /\ InsertsAreNew /\ DefinitionsHeld
  /\ ResultsAreLast /\ FailuresUnheard

-----------------------------------------------------------------------------
(* The rules of a scan, and the summary of its evaluation. *)

\* A scan evaluates rules there are (_select_rules).
LEMMA SelectedAreRules ==
  ASSUME NEW s \in Scans, proc[s].rules \in Selections \cup {<< >>}
  PROVE  selected(s) \subseteq Rules
  <1>1. << >> \in Seq(Rules)
    OBVIOUS
  <1>2. proc[s].rules \in Seq(Rules)
    BY <1>1
  <1> QED BY <1>2 DEF selected

\* A warning is about a stock of the scan and a rule it evaluates.
LEMMA WarningsType ==
  ASSUME NEW s \in Scans, WellTyped
  PROVE  warnings(s) \subseteq Stocks \X Rules
  <1>1. proc[s].stocks \subseteq Stocks /\ selected(s) \subseteq Rules
    BY SelectedAreRules DEF WellTyped, ProcType
  <1> QED BY <1>1 DEF warnings, insufficient

\* The counters of the summary stay within the stocks, and stocks by rules.
LEMMA SummaryType ==
  ASSUME NEW s \in Scans, WellTyped
  PROVE  summary(s) \in RunType
  <1>1. proc[s].stocks \subseteq Stocks
    BY DEF WellTyped, ProcType
  <1>2. ASSUME NEW S \in SUBSET Stocks
        PROVE  Cardinality(S) \in Count
    BY FS_Subset, FS_CardinalityType DEF Count
  <1>3. Cardinality(warnings(s)) \in 0 .. Cardinality(Stocks) * Cardinality(Rules)
    <2>1. /\ IsFiniteSet(Stocks \X Rules)
          /\ Cardinality(Stocks \X Rules) = Cardinality(Stocks) * Cardinality(Rules)
      BY FS_Product
    <2>2. /\ IsFiniteSet(warnings(s))
          /\ Cardinality(warnings(s)) <= Cardinality(Stocks \X Rules)
      BY <2>1, WarningsType, FS_Subset
    <2>3. Cardinality(warnings(s)) \in Nat /\ Cardinality(Stocks \X Rules) \in Nat
      BY <2>1, <2>2, FS_CardinalityType
    <2> QED BY <2>1, <2>2, <2>3
  <1>4. /\ Cardinality(proc[s].stocks) \in Count
        /\ Cardinality(fully_evaluated(s)) \in Count
        /\ Cardinality({k \in proc[s].stocks : matches(s, k) # {}}) \in Count
    <2>1. /\ fully_evaluated(s) \in SUBSET Stocks
          /\ {k \in proc[s].stocks : matches(s, k) # {}} \in SUBSET Stocks
      BY <1>1 DEF fully_evaluated
    <2> QED BY <1>1, <1>2, <2>1
  <1> QED BY <1>3, <1>4 DEF summary, RunType, Statuses

-----------------------------------------------------------------------------
(* Type correctness *)

\* In the beginning every variable has its type.
LEMMA InitWellTyped == Init => WellTyped
  <1> SUFFICES ASSUME Init PROVE WellTyped
    OBVIOUS
  <1>1. NoProc \in ProcType
    BY DEF NoProc, ProcType, Steps, Histories
  <1>2. NoRun \in RunType
    <2>1. Cardinality(Stocks) \in Nat /\ Cardinality(Rules) \in Nat
      BY FS_CardinalityType
    <2> QED BY <2>1 DEF NoRun, RunType, Count, Statuses
  <1>3. TypeOK
    BY <1>2 DEF Init, TypeOK, NoProc, Steps
  <1>4. proc \in [Scans -> ProcType]
    BY <1>1 DEF Init
  <1> QED BY <1>3, <1>4 DEF WellTyped

\* The steps of a process that change nothing but itself and its inserts.
Works(s) ==
  \/ LoadStocks(s) \/ LoadHistories(s) \/ ReadDefinitions(s) \/ InsertDefinition(s)
  \/ DeadlockDetected(s) \/ DatabaseFails(s)

\* Leaving the transaction keeps the types.
LEMMA LeaveKeepsType ==
  ASSUME NEW s \in Scans, WellTyped, NEW step \in Steps, Leave(s, step)
  PROVE  /\ proc' \in [Scans -> ProcType]
         /\ proc'[s].step = step /\ proc'[s].build = proc[s].build
         /\ \A t \in Scans : t # s => proc'[t] = proc[t]
  <1>1. [NoProc EXCEPT !.step = step, !.build = proc[s].build] \in ProcType
    BY DEF NoProc, ProcType, Steps, Histories, WellTyped
  <1> QED BY <1>1 DEF Leave, Update, WellTyped, NoProc

\* A rollback only forgets inserts.
LEMMA RollbackKeepsType ==
  ASSUME NEW s \in Scans, WellTyped, Rollback(s)
  PROVE  inserting' \in [Rules -> Scans \cup {Nobody}]
  BY DEF Rollback, WellTyped, TypeOK

\* Each of those steps keeps the types.
LEMMA WorkKeepsTypes ==
  ASSUME NEW s \in Scans, WellTyped, Works(s)
  PROVE  WellTyped'
  <1>1. TypeOK /\ proc \in [Scans -> ProcType] /\ proc[s] \in ProcType
    BY DEF WellTyped
  <1>2. selected(s) \subseteq Rules
    BY <1>1, SelectedAreRules DEF ProcType
  <1>3. /\ proc' \in [Scans -> ProcType]
        /\ inserting' \in [Rules -> Scans \cup {Nobody}]
    <2>0. ASSUME Raise(s)
          PROVE  /\ proc' \in [Scans -> ProcType]
                 /\ inserting' \in [Rules -> Scans \cup {Nobody}]
      BY <2>0, LeaveKeepsType, RollbackKeepsType DEF Raise, Steps
    <2>p. ASSUME NEW p \in ProcType, Update(s, p), UNCHANGED inserting
          PROVE  /\ proc' \in [Scans -> ProcType]
                 /\ inserting' \in [Rules -> Scans \cup {Nobody}]
      BY <1>1, <2>p DEF Update, TypeOK
    <2>1. CASE LoadStocks(s)
      <3>1. ASSUME NEW found \in SUBSET stocks
            PROVE  [proc[s] EXCEPT !.stocks = found, !.step = "histories"] \in ProcType
        BY <1>1 DEF TypeOK, ProcType, Steps
      <3>2. scannable \in SUBSET stocks
        BY <1>1 DEF TypeOK
      <3> QED BY <2>0, <2>p, <2>1, <3>1, <3>2 DEF LoadStocks
    <2>2. CASE LoadHistories(s)
      <3>1. [k \in proc[s].stocks |-> history[k]] \in Histories
        BY <1>1 DEF Histories, TypeOK, ProcType
      <3> QED BY <1>1, <2>2, <3>1 DEF LoadHistories, Update, TypeOK, ProcType, Steps
    <2>3. CASE ReadDefinitions(s)
      <3>1. ASSUME NEW missing \in SUBSET Rules, NEW step \in Inserting
            PROVE  [proc[s] EXCEPT !.missing = missing, !.step = step] \in ProcType
        BY <1>1 DEF ProcType, Steps, Inserting
      <3> QED BY <1>2, <2>0, <2>p, <2>3, <3>1 DEF ReadDefinitions, Inserting
    <2>4. CASE InsertDefinition(s)
      <3>1. ASSUME NEW r \in proc[s].missing, NEW step \in Inserting
            PROVE  [proc[s] EXCEPT !.missing = proc[s].missing \ {r}, !.step = step]
                     \in ProcType
        BY <1>1 DEF ProcType, Steps, Inserting
      <3>2. proc[s].missing \subseteq Rules
        BY <1>1 DEF ProcType
      <3>3. ASSUME NEW r \in proc[s].missing,
                   inserting' = [inserting EXCEPT ![r] = s],
                   NEW p \in ProcType, Update(s, p)
            PROVE  /\ proc' \in [Scans -> ProcType]
                   /\ inserting' \in [Rules -> Scans \cup {Nobody}]
        BY <1>1, <3>2, <3>3 DEF Update, TypeOK
      <3> QED BY <2>0, <2>4, <3>1, <3>3 DEF InsertDefinition, Inserting
    <2>5. CASE DeadlockDetected(s) \/ DatabaseFails(s)
      BY <2>0, <2>5 DEF DeadlockDetected, DatabaseFails
    <2> QED BY <2>1, <2>2, <2>3, <2>4, <2>5 DEF Works
  <1>4. UNCHANGED <<data, results, abandoned, unheard, changes>>
    BY DEF Works, LoadStocks, LoadHistories, ReadDefinitions, InsertDefinition,
           DeadlockDetected, DatabaseFails
  <1> QED BY <1>1, <1>3, <1>4 DEF WellTyped, TypeOK, ProcType, data, results

\* Setting the status of a run keeps its counters.
LEMMA StatusKeepsType ==
  ASSUME NEW run \in RunType, NEW status \in Statuses
  PROVE  [run EXCEPT !.status = status] \in RunType
  <1> DEFINE WarningCount == 0 .. Cardinality(Stocks) * Cardinality(Rules)
  <1>1. RunType = [status : Statuses, total_stocks : Count, processed_stocks : Count,
                   matched_stocks : Count, warning_count : WarningCount]
    BY DEF RunType
  <1> HIDE DEF WarningCount
  <1> QED BY <1>1

\* The steps that end a transaction, and those of the rest of the platform.
LEMMA TypesKept ==
  WellTyped /\ [Next]_vars => WellTyped'
  <1> SUFFICES ASSUME WellTyped, [Next]_vars PROVE WellTyped'
    OBVIOUS
  <1>0. TypeOK /\ proc \in [Scans -> ProcType]
    BY DEF WellTyped
  <1>1. ASSUME NEW s \in Scans, Works(s) PROVE WellTyped'
    BY <1>1, WorkKeepsTypes
  <1>2. ASSUME NEW s \in Scans, StoreResults(s), UNCHANGED <<data, abandoned, changes>>,
               NEW step \in Steps, Leave(s, step), unheard' \in SUBSET Scans
        PROVE  WellTyped'
    <2>1. proc' \in [Scans -> ProcType] /\ inserting' \in [Rules -> Scans \cup {Nobody}]
      BY <1>2, LeaveKeepsType, RollbackKeepsType DEF StoreResults
    <2>2. runs' \in [Scans -> RunType]
      BY <1>0, <1>2, SummaryType DEF StoreResults, TypeOK
    <2>3. signals' \subseteq Scans \X Stocks \X Rules
      <3>1. selected(s) \subseteq Rules /\ proc[s].stocks \subseteq Stocks
        BY <1>0, SelectedAreRules DEF ProcType
      <3>2. new_signals(s) \subseteq Scans \X Stocks \X Rules
        BY <3>1 DEF new_signals, matches
      <3> QED BY <1>0, <1>2, <3>2 DEF StoreResults, TypeOK
    <2>4. definitions' \in [Rules -> Builds \cup {NoBuild}]
      BY <1>0, <1>2 DEF StoreResults, TypeOK, ProcType
    <2> QED BY <1>0, <1>2, <2>1, <2>2, <2>3, <2>4 DEF WellTyped, TypeOK, data, ProcType
  <1>3. ASSUME NEW s \in Scans, Commit(s) PROVE WellTyped'
    BY <1>0, <1>2, <1>3 DEF Commit, TypeOK, Steps
  <1>4. ASSUME NEW s \in Scans, CommitUnacknowledged(s) PROVE WellTyped'
    BY <1>0, <1>2, <1>4 DEF CommitUnacknowledged, TypeOK, Steps
  <1>5. ASSUME NEW s \in Scans, MarkRunFailed(s) PROVE WellTyped'
    <2>1. proc' \in [Scans -> ProcType]
      BY <1>5, LeaveKeepsType DEF MarkRunFailed, Steps
    <2>2. runs' \in [Scans -> RunType]
      BY <1>0, <1>5, StatusKeepsType DEF MarkRunFailed, TypeOK, Statuses
    <2> QED BY <1>0, <1>5, <2>1, <2>2 DEF MarkRunFailed, WellTyped, TypeOK, data, ProcType
  <1>6. ASSUME NEW s \in Scans, GiveUp(s) PROVE WellTyped'
    <2>1. proc' \in [Scans -> ProcType] /\ inserting' \in [Rules -> Scans \cup {Nobody}]
      BY <1>6, LeaveKeepsType, RollbackKeepsType DEF GiveUp, Steps
    <2> QED BY <1>0, <1>6, <2>1 DEF GiveUp, WellTyped, TypeOK, data, results, ProcType
  <1>7. ASSUME NEW s \in Scans, NEW selection \in Selections, NEW build \in Builds,
               NEW keys \in StockChoices, CreateRun(s, selection, build, keys)
        PROVE  WellTyped'
    <2>1. [NoProc EXCEPT !.step = "stocks", !.rules = selection, !.build = build,
                         !.keys = keys] \in ProcType
      BY DEF NoProc, ProcType, Steps, Histories
    <2>2. proc' \in [Scans -> ProcType]
      BY <1>0, <1>7, <2>1 DEF CreateRun, Update
    <2>3. runs' \in [Scans -> RunType]
      BY <1>0, <1>7, StatusKeepsType DEF CreateRun, TypeOK, Statuses
    <2> QED BY <1>0, <1>7, <2>2, <2>3 DEF CreateRun, WellTyped, TypeOK, data, ProcType
  <1>8. ASSUME NEW k \in Stocks, NEW shape \in Shapes, NEW active \in BOOLEAN,
               Ingest(k, shape, active)
        PROVE  WellTyped'
    BY <1>0, <1>8 DEF Ingest, WellTyped, TypeOK, results
  <1>9. ASSUME NEW r \in Rules, Deactivate(r) PROVE WellTyped'
    BY <1>0, <1>9 DEF Deactivate, WellTyped, TypeOK, results
  <1>10. CASE UNCHANGED vars
    BY <1>0, <1>10 DEF vars, data, results, WellTyped, TypeOK
  <1> QED BY <1>1, <1>3, <1>4, <1>5, <1>6, <1>7, <1>8, <1>9, <1>10
          DEF Next, Proceed, Works

\* Every reachable state is well typed: whatever scans run at once, the
\* counters of a run stay within its stocks (models.py:206-222).
THEOREM TypeCorrect == Spec => []TypeOK
  <1>1. WellTyped => TypeOK
    BY DEF WellTyped
  <1> QED BY <1>1, InitWellTyped, TypesKept, PTL DEF Spec

-----------------------------------------------------------------------------
(* The steps within a transaction keep the invariant. *)

\* Such a step is one of a scan in its transaction, which keeps its build, its
\* rules unless it raises, and leaves the other scans and the results alone.
LEMMA WorkFrame ==
  ASSUME NEW s \in Scans, WellTyped, Works(s)
  PROVE  /\ proc[s].step \in Loaded \cup {"stocks"}
         /\ proc'[s].step \in Loaded \cup {"failing"}
         /\ proc'[s].build = proc[s].build
         /\ proc'[s].step # "failing" => proc'[s].rules = proc[s].rules
         /\ proc'[s].step = "failing" => Rollback(s)
         /\ \A t \in Scans : t # s => proc'[t] = proc[t]
         /\ \A t \in Scans, r \in Rules : t # s => (inserting'[r] = t <=> inserting[r] = t)
         /\ UNCHANGED <<results, unheard>>
  <1>1. TypeOK /\ proc \in [Scans -> ProcType]
    BY DEF WellTyped
  <1> DEFINE Frame ==
        /\ proc'[s].step \in Loaded \cup {"failing"}
        /\ proc'[s].build = proc[s].build
        /\ proc'[s].step # "failing" => proc'[s].rules = proc[s].rules
        /\ proc'[s].step = "failing" => Rollback(s)
        /\ \A t \in Scans : t # s => proc'[t] = proc[t]
        /\ \A t \in Scans, r \in Rules : t # s => (inserting'[r] = t <=> inserting[r] = t)
  <1>2. ASSUME Raise(s) PROVE Frame
    <2>1. \A t \in Scans, r \in Rules : t # s => (inserting'[r] = t <=> inserting[r] = t)
      BY <1>1, <1>2 DEF Raise, Rollback, TypeOK
    <2> QED BY <1>2, <2>1, LeaveKeepsType DEF Raise, Steps
  <1>u. ASSUME NEW p, Update(s, p), p.step \in Loaded,
               p.build = proc[s].build, p.rules = proc[s].rules,
               \A t \in Scans, r \in Rules :
                 t # s => (inserting'[r] = t <=> inserting[r] = t)
        PROVE  Frame
    BY <1>1, <1>u DEF Update, Loaded
  <1> HIDE DEF Frame
  <1>p. proc[s] \in ProcType
    BY <1>1
  <1>3. CASE LoadStocks(s)
    <2>1. ASSUME NEW found
          PROVE  LET p == [proc[s] EXCEPT !.stocks = found, !.step = "histories"]
                 IN  p.step \in Loaded /\ p.build = proc[s].build /\ p.rules = proc[s].rules
      BY <1>p DEF ProcType, Loaded
    <2>2. Frame
      BY <1>2, <1>3, <1>u, <2>1 DEF LoadStocks
    <2> QED BY <1>3, <2>2 DEF Frame, LoadStocks, At, results, Loaded
  <1>4. CASE LoadHistories(s)
    <2>1. ASSUME NEW histories
          PROVE  LET p == [proc[s] EXCEPT !.histories = histories, !.step = "definitions"]
                 IN  p.step \in Loaded /\ p.build = proc[s].build /\ p.rules = proc[s].rules
      BY <1>p DEF ProcType, Loaded
    <2>2. Frame
      BY <1>4, <1>u, <2>1 DEF LoadHistories
    <2> QED BY <1>4, <2>2 DEF Frame, LoadHistories, At, results, Loaded
  <1>m. ASSUME NEW missing, NEW step \in Inserting
        PROVE  LET p == [proc[s] EXCEPT !.missing = missing, !.step = step]
               IN  p.step \in Loaded /\ p.build = proc[s].build /\ p.rules = proc[s].rules
    BY <1>p DEF ProcType, Loaded, Inserting
  <1>5. CASE ReadDefinitions(s)
    <2>1. Frame
      BY <1>2, <1>5, <1>u, <1>m DEF ReadDefinitions, Inserting
    <2> QED BY <1>5, <2>1 DEF Frame, ReadDefinitions, At, results, Loaded
  <1>6. CASE InsertDefinition(s)
    <2>1. ASSUME NEW r \in proc[s].missing, inserting[r] = Nobody,
                 inserting' = [inserting EXCEPT ![r] = s]
          PROVE  \A t \in Scans, q \in Rules : t # s => (inserting'[q] = t <=> inserting[q] = t)
      BY <1>1, <1>p, <2>1 DEF TypeOK, ProcType
    <2>2. Frame
      BY <1>2, <1>6, <1>u, <1>m, <2>1 DEF InsertDefinition, Inserting
    <2> QED BY <1>6, <2>2 DEF Frame, InsertDefinition, ToInsert, At, results, Loaded
  <1>7. CASE DeadlockDetected(s)
    BY <1>2, <1>7 DEF Frame, DeadlockDetected, WaitsFor, ToInsert, At, results, Loaded
  <1>8. CASE DatabaseFails(s)
    BY <1>2, <1>8 DEF Frame, DatabaseFails, results, Loaded
  <1> QED BY <1>3, <1>4, <1>5, <1>6, <1>7, <1>8 DEF Works

\* A process that works on is ready for its next step.
LEMMA WorkReady ==
  ASSUME NEW s \in Scans, Inv, Works(s)
  PROVE  ProcessesReady'
  <1> DEFINE Ready(p) ==
        /\ p.step # "new" => p.build \in Builds
        /\ p.step \in Loaded => p.stocks # {}
        /\ p.step \in Evaluable => p.histories \in [p.stocks -> Shapes]
        /\ p.step = "commit" => p.missing = {}
  <1>1. proc[s] \in ProcType /\ Ready(proc[s]) /\ proc[s].build \in Builds
    BY WorkFrame DEF Inv, WellTyped, ProcessesReady, Loaded
  <1>2. ASSUME NEW p, Update(s, p), Ready(p) PROVE Ready(proc'[s])
    BY <1>2 DEF Inv, WellTyped, Update
  <1>3. ASSUME Raise(s) PROVE Ready(proc'[s])
    BY <1>1, <1>3, LeaveKeepsType DEF Inv, Raise, Steps, Loaded, Evaluable
  <1>4. ASSUME LoadStocks(s) PROVE Ready(proc'[s])
    <2>1. ASSUME NEW found, found # {}
          PROVE  Ready([proc[s] EXCEPT !.stocks = found, !.step = "histories"])
      BY <1>1, <2>1 DEF ProcType, Loaded, Evaluable
    <2> HIDE DEF Ready
    <2> QED BY <1>2, <1>3, <1>4, <2>1 DEF LoadStocks
  <1>5. ASSUME LoadHistories(s) PROVE Ready(proc'[s])
    <2>1. ASSUME NEW histories \in [proc[s].stocks -> Shapes], At(s, "histories")
          PROVE  Ready([proc[s] EXCEPT !.histories = histories, !.step = "definitions"])
      BY <1>1, <2>1 DEF At, ProcType, Loaded, Evaluable
    <2>2. [k \in proc[s].stocks |-> history[k]] \in [proc[s].stocks -> Shapes]
      BY <1>1 DEF Inv, WellTyped, TypeOK, ProcType
    <2> HIDE DEF Ready
    <2> QED BY <1>2, <1>5, <2>1, <2>2 DEF LoadHistories
  <1>m. ASSUME NEW missing, NEW step \in Inserting, step = "commit" => missing = {},
               proc[s].step \in Evaluable
        PROVE  Ready([proc[s] EXCEPT !.missing = missing, !.step = step])
    BY <1>1, <1>m DEF ProcType, Loaded, Evaluable, Inserting
  <1>6. ASSUME ReadDefinitions(s) PROVE Ready(proc'[s])
    <2> HIDE DEF Ready
    <2> QED BY <1>2, <1>3, <1>6, <1>m DEF ReadDefinitions, At, Evaluable, Inserting
  <1>7. ASSUME InsertDefinition(s) PROVE Ready(proc'[s])
    <2> HIDE DEF Ready
    <2> QED BY <1>2, <1>3, <1>7, <1>m DEF InsertDefinition, ToInsert, At, Evaluable,
                                               Inserting
  <1>8. ASSUME DeadlockDetected(s) \/ DatabaseFails(s)
        PROVE  Ready(proc'[s])
    BY <1>3, <1>8 DEF DeadlockDetected, DatabaseFails
  <1>9. Ready(proc'[s])
    BY <1>4, <1>5, <1>6, <1>7, <1>8 DEF Works
  <1> QED BY <1>9, WorkFrame DEF Inv, ProcessesReady

\* Its inserts are of definitions that are not stored, and the definitions of its
\* rules are its build's, inserted or to be inserted.
LEMMA WorkDefines ==
  ASSUME NEW s \in Scans, Inv, Works(s)
  PROVE  InsertsAreNew' /\ DefinitionsHeld'
  <1>0. /\ TypeOK /\ proc \in [Scans -> ProcType] /\ proc[s] \in ProcType
        /\ InsertsAreNew /\ DefinitionsHeld
    BY DEF Inv, WellTyped
  <1> DEFINE Held == proc'[s].step \in Inserting =>
               \A r \in selected(s) : \/ r \in proc'[s].missing \/ inserting'[r] = s
                                      \/ definitions[r] = proc[s].build
             New == \A r \in Rules : inserting'[r] = s =>
                      definitions[r] = NoBuild /\ proc'[s].step \in Inserting
  <1>1. ASSUME Raise(s) PROVE Held /\ New
    <2>1. \A r \in Rules : inserting'[r] # s
      BY <1>0, <1>1 DEF Raise, Rollback
    <2> QED BY <1>1, <2>1, LeaveKeepsType DEF Inv, Raise, Steps, Inserting
  <1>2. ASSUME LoadStocks(s) \/ LoadHistories(s) PROVE Held /\ New
    <2>1. CASE Raise(s)
      BY <1>1, <2>1
    <2>2. CASE ~ Raise(s)
      <3>0. /\ \A found : [proc[s] EXCEPT !.stocks = found, !.step = "histories"].step
                             = "histories"
            /\ \A h : [proc[s] EXCEPT !.histories = h, !.step = "definitions"].step
                         = "definitions"
        BY <1>0 DEF ProcType
      <3>1. PICK p : Update(s, p) /\ p.step \in {"histories", "definitions"}
        BY <1>2, <2>2, <3>0 DEF LoadStocks, LoadHistories
      <3>2. /\ proc[s].step \notin Inserting /\ UNCHANGED inserting
        BY <1>2, <2>2 DEF LoadStocks, LoadHistories, At, Inserting
      <3>3. proc'[s].step \notin Inserting
        BY <1>0, <3>1 DEF Update, Inserting
      <3> QED BY <1>0, <3>2, <3>3 DEF InsertsAreNew
    <2> QED BY <2>1, <2>2
  <1>3. ASSUME ReadDefinitions(s) PROVE Held /\ New
    <2>1. CASE Raise(s)
      BY <1>1, <2>1
    <2>2. CASE ~ Raise(s)
      <3>0. ASSUME NEW missing, NEW step,
                   Update(s, [proc[s] EXCEPT !.missing = missing, !.step = step])
            PROVE  proc'[s].missing = missing
        BY <1>0, <3>0 DEF Update, ProcType
      <3>1. /\ DefinitionsAgree(s) /\ UNCHANGED inserting /\ proc[s].step \notin Inserting
            /\ proc'[s].missing = {r \in selected(s) : definitions[r] = NoBuild}
        BY <1>3, <2>2, <3>0 DEF ReadDefinitions, At, Inserting
      <3> QED BY <1>0, <3>1 DEF InsertsAreNew, DefinitionsAgree
    <2> QED BY <2>1, <2>2
  <1>4. ASSUME InsertDefinition(s) PROVE Held /\ New
    <2>1. CASE Raise(s)
      BY <1>1, <2>1
    <2>2. CASE ~ Raise(s)
      <3>1. PICK r \in proc[s].missing :
              /\ ToInsert(s, r) /\ definitions[r] = NoBuild
              /\ inserting' = [inserting EXCEPT ![r] = s]
              /\ Update(s, [proc[s] EXCEPT !.missing = proc[s].missing \ {r},
                     !.step = IF proc[s].missing \ {r} = {} THEN "commit" ELSE "insert"])
        BY <1>4, <2>2 DEF InsertDefinition
      <3>2. r \in Rules /\ selected(s) \subseteq Rules
        BY <1>0, SelectedAreRules DEF ProcType
      <3>3. /\ proc[s].step \in Inserting /\ proc'[s].step \in Inserting
            /\ proc'[s].missing = proc[s].missing \ {r}
        BY <1>0, <3>1 DEF ToInsert, At, Update, ProcType, Inserting
      <3> QED BY <1>0, <3>1, <3>2, <3>3 DEF InsertsAreNew, DefinitionsHeld, TypeOK
    <2> QED BY <2>1, <2>2
  <1>5. ASSUME DeadlockDetected(s) \/ DatabaseFails(s)
        PROVE  Held /\ New
    BY <1>1, <1>5 DEF DeadlockDetected, DatabaseFails
  <1>6. Held /\ New
    BY <1>2, <1>3, <1>4, <1>5 DEF Works
  <1>7. /\ \A t \in Scans : t # s => proc'[t] = proc[t] /\ selected(t)' = selected(t)
        /\ proc'[s].step \in Inserting => selected(s)' = selected(s)
        /\ proc'[s].build = proc[s].build
        /\ UNCHANGED definitions
    BY WorkFrame DEF Inv, selected, Inserting, results
  <1>8. \A t \in Scans, r \in Rules : t # s => (inserting'[r] = t <=> inserting[r] = t)
    BY WorkFrame DEF Inv
  <1>9. InsertsAreNew'
    BY <1>0, <1>6, <1>7, <1>8 DEF InsertsAreNew
  <1>10. \A t \in Scans : selected(t) \subseteq Rules
    BY <1>0, SelectedAreRules DEF ProcType
  <1>11. DefinitionsHeld'
    <2> SUFFICES ASSUME NEW t \in Scans, proc'[t].step \in Inserting,
                        NEW r \in selected(t)'
                 PROVE  \/ r \in proc'[t].missing \/ inserting'[r] = t
                        \/ definitions'[r] = proc'[t].build
      BY DEF DefinitionsHeld
    <2>1. CASE t = s
      BY <1>6, <1>7, <2>1
    <2>2. CASE t # s
      BY <1>0, <1>7, <1>8, <1>10, <2>2 DEF DefinitionsHeld
    <2> QED BY <2>1, <2>2
  <1> QED BY <1>9, <1>11

\* A step within a transaction keeps the invariant: its scan has no results yet.
LEMMA WorkKeeps ==
  ASSUME NEW s \in Scans, Inv, Works(s)
  PROVE  Inv'
  <1>0. /\ WellTyped /\ ResultsAreLast /\ FailuresUnheard
        /\ UNCHANGED <<runs, signals, unheard>> /\ proc[s].step \notin Finished
        /\ \A t \in Scans : t # s => proc'[t] = proc[t]
        /\ \A signal \in signals : signal[1] \in Scans
    BY WorkFrame DEF Inv, results, Finished, Loaded, WellTyped, TypeOK
  <1>1. ResultsAreLast'
    <2>1. \A signal \in signals : signal[1] # s
      BY <1>0 DEF ResultsAreLast
    <2>2. ~Completed(s)
      BY <1>0 DEF ResultsAreLast
    <2> QED BY <1>0, <2>1, <2>2 DEF ResultsAreLast, Completed
  <1>2. FailuresUnheard'
    <2>1. \A signal \in signals : signal[1] # s
      BY <1>0 DEF ResultsAreLast
    <2> QED BY <1>0, <2>1 DEF FailuresUnheard
  <1> QED BY <1>1, <1>2, WorkKeepsTypes, WorkReady, WorkDefines DEF Inv

-----------------------------------------------------------------------------
(* The steps that end a transaction, and the other steps. *)

\* A scan that leaves its transaction, its inserts stored or rolled back, no
\* longer holds any; the others keep theirs, and their definitions.
LEMMA LeaveKeeps ==
  ASSUME NEW s \in Scans, Inv, NEW step \in Finished, Leave(s, step), WellTyped',
         proc[s].step # "new",
         \A r \in Rules : inserting'[r] = IF inserting[r] = s THEN Nobody ELSE inserting[r],
         \/ UNCHANGED definitions
         \/ definitions' = [r \in Rules |-> IF inserting[r] = s THEN proc[s].build
                                                               ELSE definitions[r]]
  PROVE  ProcessesReady' /\ InsertsAreNew' /\ DefinitionsHeld'
  <1>0. /\ TypeOK /\ proc \in [Scans -> ProcType] /\ proc[s] \in ProcType
        /\ ProcessesReady /\ InsertsAreNew /\ DefinitionsHeld
    BY DEF Inv, WellTyped
  <1>1. /\ proc'[s].step = step /\ proc'[s].build = proc[s].build
        /\ \A t \in Scans : t # s => proc'[t] = proc[t] /\ selected(t)' = selected(t)
    BY LeaveKeepsType DEF Inv, Steps, Finished, selected
  <1>2. ProcessesReady'
    BY <1>0, <1>1 DEF ProcessesReady, Loaded, Evaluable, Finished
  <1>3. InsertsAreNew'
    <2> SUFFICES ASSUME NEW t \in Scans, NEW r \in Rules, inserting'[r] = t
                 PROVE  definitions'[r] = NoBuild /\ proc'[t].step \in Inserting
      BY DEF InsertsAreNew
    <2>1. inserting[r] = t /\ t # s
      OBVIOUS
    <2> QED BY <1>0, <1>1, <2>1 DEF InsertsAreNew
  <1>4. DefinitionsHeld'
    <2> SUFFICES ASSUME NEW t \in Scans, proc'[t].step \in Inserting,
                        NEW r \in selected(t)'
                 PROVE  \/ r \in proc'[t].missing \/ inserting'[r] = t
                        \/ definitions'[r] = proc'[t].build
      BY DEF DefinitionsHeld
    <2>1. t # s
      BY <1>1 DEF Finished, Inserting
    <2>2. /\ proc[t].step \in Inserting /\ r \in selected(t) /\ r \in Rules
          /\ proc[t].build \in Builds
      BY <1>0, <1>1, <2>1, SelectedAreRules DEF ProcType, ProcessesReady, Inserting
    <2>3. \/ r \in proc[t].missing \/ inserting[r] = t \/ definitions[r] = proc[t].build
      BY <1>0, <2>2 DEF DefinitionsHeld
    <2>4. inserting[r] = s => definitions[r] = NoBuild
      BY <1>0, <2>2 DEF InsertsAreNew
    <2> QED BY <1>1, <2>1, <2>2, <2>3, <2>4
  <1> QED BY <1>2, <1>3, <1>4

\* The commit stores signals and summary of a scan that then is done.
LEMMA StoreKeeps ==
  ASSUME NEW s \in Scans, Inv, WellTyped', At(s, "commit"), StoreResults(s),
         NEW step \in Finished, Leave(s, step),
         unheard \subseteq unheard', step = "failing" => s \in unheard'
  PROVE  Inv'
  <1>0. /\ TypeOK /\ proc \in [Scans -> ProcType]
        /\ ResultsAreLast /\ FailuresUnheard
    BY DEF Inv, WellTyped
  <1>1. /\ proc'[s].step = step
        /\ \A t \in Scans : t # s => proc'[t] = proc[t]
    BY LeaveKeepsType DEF Inv, Steps, Finished
  <1>2. ProcessesReady' /\ InsertsAreNew' /\ DefinitionsHeld'
    BY LeaveKeeps DEF At, StoreResults, Rollback
  <1>3. \A signal \in signals' : signal \in signals \/ signal[1] = s
    BY DEF StoreResults, new_signals
  <1>4. \A signal \in signals : signal[1] \in Scans
    BY <1>0 DEF TypeOK
  <1>5. ResultsAreLast'
    <2>1. \A signal \in signals' : proc'[signal[1]].step \in Finished
      BY <1>0, <1>1, <1>3, <1>4 DEF ResultsAreLast
    <2>2. \A t \in Scans : t # s => runs'[t] = runs[t]
      BY <1>0 DEF StoreResults, TypeOK
    <2>3. \A t \in Scans : Completed(t)' => proc'[t].step \in Finished
      BY <1>0, <1>1, <2>2 DEF ResultsAreLast, Completed
    <2> QED BY <2>1, <2>3 DEF ResultsAreLast
  <1>6. FailuresUnheard'
    BY <1>0, <1>1, <1>3, <1>4 DEF FailuresUnheard
  <1> QED BY <1>2, <1>5, <1>6 DEF Inv

\* Nothing else stores results, and whoever creates a run has none.
LEMMA InvKept ==
  Inv /\ [Next]_vars => Inv'
  <1> SUFFICES ASSUME Inv, [Next]_vars PROVE Inv'
    OBVIOUS
  <1>0. /\ TypeOK /\ proc \in [Scans -> ProcType] /\ WellTyped' /\ proc' \in [Scans -> ProcType]
        /\ ProcessesReady /\ InsertsAreNew /\ DefinitionsHeld
        /\ ResultsAreLast /\ FailuresUnheard
    BY TypesKept DEF Inv, WellTyped
  <1>1. ASSUME NEW s \in Scans, Works(s) PROVE Inv'
    BY <1>1, WorkKeeps
  <1>2. ASSUME NEW s \in Scans, Commit(s) \/ CommitUnacknowledged(s) PROVE Inv'
    <2>1. \E step \in Finished : /\ At(s, "commit") /\ StoreResults(s) /\ Leave(s, step)
                                 /\ unheard \subseteq unheard'
                                 /\ step = "failing" => s \in unheard'
      BY <1>2 DEF Commit, CommitUnacknowledged, Finished
    <2> QED BY <1>0, <2>1, StoreKeeps
  <1>3. ASSUME NEW s \in Scans, MarkRunFailed(s) PROVE Inv'
    <2>1. \A r \in Rules : inserting[r] # s /\ inserting'[r] = inserting[r]
      BY <1>0, <1>3 DEF MarkRunFailed, At, InsertsAreNew, Inserting
    <2>2. ProcessesReady' /\ InsertsAreNew' /\ DefinitionsHeld'
      BY <1>0, <1>3, <2>1, LeaveKeeps DEF MarkRunFailed, At, Finished
    <2>3. /\ proc'[s].step = "ended" /\ \A t \in Scans : t # s => proc'[t] = proc[t]
          /\ UNCHANGED <<signals, unheard>>
      BY <1>3, LeaveKeepsType DEF MarkRunFailed, Inv, Steps
    <2>4. \A t \in Scans : t # s => runs'[t] = runs[t]
      BY <1>0, <1>3 DEF MarkRunFailed, TypeOK
    <2>5. ResultsAreLast' /\ FailuresUnheard'
      BY <1>0, <2>3, <2>4 DEF ResultsAreLast, FailuresUnheard, Completed, Finished, TypeOK
    <2> QED BY <1>0, <2>2, <2>5 DEF Inv
  <1>4. ASSUME NEW s \in Scans, GiveUp(s) PROVE Inv'
    <2>1. ProcessesReady' /\ InsertsAreNew' /\ DefinitionsHeld'
      BY <1>0, <1>4, LeaveKeeps DEF GiveUp, Rollback, Finished, results
    <2>2. /\ proc'[s].step = "ended" /\ \A t \in Scans : t # s => proc'[t] = proc[t]
          /\ UNCHANGED <<signals, runs, unheard>>
      BY <1>4, LeaveKeepsType DEF GiveUp, Inv, Steps, results
    <2>3. ResultsAreLast' /\ FailuresUnheard'
      BY <1>0, <2>2 DEF ResultsAreLast, FailuresUnheard, Completed, Finished, TypeOK
    <2> QED BY <1>0, <2>1, <2>3 DEF Inv
  <1>5. ASSUME NEW s \in Scans, NEW selection \in Selections, NEW build \in Builds,
               NEW keys \in StockChoices, CreateRun(s, selection, build, keys)
        PROVE  Inv'
    <2>1. /\ proc[s].step = "new" /\ proc'[s].step = "stocks" /\ proc'[s].build = build
          /\ \A t \in Scans : t # s => proc'[t] = proc[t] /\ selected(t)' = selected(t)
          /\ UNCHANGED <<signals, definitions, inserting, unheard>>
      BY <1>0, <1>5 DEF CreateRun, At, Update, NoProc, selected
    <2>2. ProcessesReady' /\ InsertsAreNew'
      BY <1>0, <2>1 DEF ProcessesReady, InsertsAreNew, Loaded, Evaluable, Inserting
    <2>3. DefinitionsHeld'
      BY <1>0, <2>1 DEF DefinitionsHeld, Inserting
    <2>4. \A t \in Scans : Completed(t)' => Completed(t) /\ t # s
      BY <1>0, <1>5 DEF CreateRun, Completed, TypeOK, RunType
    <2>5. ResultsAreLast' /\ FailuresUnheard'
      BY <1>0, <2>1, <2>4 DEF ResultsAreLast, FailuresUnheard, Finished, TypeOK
    <2> QED BY <1>0, <2>2, <2>3, <2>5 DEF Inv
  <1>6. ASSUME UNCHANGED <<definitions, runs, signals, inserting, proc, unheard>>
        PROVE  Inv'
    BY <1>0, <1>6 DEF Inv, ProcessesReady, InsertsAreNew, DefinitionsHeld, ResultsAreLast,
                      FailuresUnheard, Completed, selected
  <1>7. ASSUME NEW k \in Stocks, NEW shape \in Shapes, NEW active \in BOOLEAN,
               Ingest(k, shape, active)
        PROVE  Inv'
    BY <1>6, <1>7 DEF Ingest, results
  <1>8. ASSUME NEW r \in Rules, Deactivate(r) PROVE Inv'
    BY <1>6, <1>8 DEF Deactivate, results
  <1>9. CASE UNCHANGED vars
    BY <1>6, <1>9 DEF vars, results
  <1> QED BY <1>1, <1>2, <1>3, <1>4, <1>5, <1>7, <1>8, <1>9 DEF Next, Proceed, Works

\* No scan holds anything in the beginning.
LEMMA InitInv == Init => Inv
  <1> SUFFICES ASSUME Init PROVE Inv
    OBVIOUS
  <1>1. \A s \in Scans : proc[s].step = "new" /\ runs[s].status = "none"
    BY DEF Init, NoProc, NoRun
  <1>2. InsertsAreNew
    BY DEF Init, InsertsAreNew
  <1>3. ProcessesReady /\ DefinitionsHeld
    BY <1>1 DEF ProcessesReady, DefinitionsHeld, Loaded, Evaluable, Inserting
  <1>4. ResultsAreLast /\ FailuresUnheard
    BY <1>1 DEF Init, ResultsAreLast, FailuresUnheard, Completed
  <1> QED BY <1>2, <1>3, <1>4, InitWellTyped DEF Inv

-----------------------------------------------------------------------------
(* What the results say. *)

\* How a step may change the results: a commit adds those of its scan, recording
\* a failure or creating a run sets its status, and no other step changes any.
LEMMA ResultSteps ==
  ASSUME Inv, [Next]_vars
  PROVE  \/ \E s \in Scans : /\ At(s, "commit") /\ StoreResults(s)
                            /\ \/ unheard' = unheard
                               \/ unheard' = unheard \cup {s}
         \/ \E s \in Scans : /\ proc[s].step \in {"new", "failing"}
                            /\ \E status \in {"running", "failed"} :
                                 runs' = [runs EXCEPT ![s].status = status]
                            /\ UNCHANGED <<definitions, signals, unheard>>
         \/ UNCHANGED <<results, unheard>>
  <1>1. ASSUME NEW s \in Scans, Works(s) PROVE UNCHANGED <<results, unheard>>
    BY <1>1, WorkFrame DEF Inv
  <1>2. ASSUME NEW s \in Scans, GiveUp(s) PROVE UNCHANGED <<results, unheard>>
    BY <1>2 DEF GiveUp
  <1>3. ASSUME NEW s \in Scans, MarkRunFailed(s)
        PROVE  /\ proc[s].step = "failing"
               /\ runs' = [runs EXCEPT ![s].status = "failed"]
               /\ UNCHANGED <<definitions, signals, unheard>>
    BY <1>3 DEF MarkRunFailed, At
  <1>4. ASSUME NEW s \in Scans, NEW selection \in Selections, NEW build \in Builds,
               NEW keys \in StockChoices, CreateRun(s, selection, build, keys)
        PROVE  /\ proc[s].step = "new"
               /\ runs' = [runs EXCEPT ![s].status = "running"]
               /\ UNCHANGED <<definitions, signals, unheard>>
    BY <1>4 DEF CreateRun, At
  <1>5. ASSUME NEW s \in Scans, Commit(s) \/ CommitUnacknowledged(s)
        PROVE  At(s, "commit") /\ StoreResults(s) /\ unheard' \in {unheard, unheard \cup {s}}
    BY <1>5 DEF Commit, CommitUnacknowledged
  <1>6. ASSUME \/ \E k \in Stocks, shape \in Shapes, active \in BOOLEAN : Ingest(k, shape, active)
               \/ \E r \in Rules : Deactivate(r)
               \/ UNCHANGED vars
        PROVE  UNCHANGED <<results, unheard>>
    BY <1>6 DEF Ingest, Deactivate, vars, results
  <1> QED BY <1>1, <1>2, <1>3, <1>4, <1>5, <1>6 DEF Next, Proceed, Works

\* A process keeps the build it was started with.
LEMMA BuildsKept ==
  ASSUME Inv, [Next]_vars, NEW t \in Scans, proc[t].step # "new"
  PROVE  proc'[t].build = proc[t].build
  <1>0. WellTyped /\ proc \in [Scans -> ProcType]
    BY DEF Inv, WellTyped
  <1>1. ASSUME NEW s \in Scans, Works(s) PROVE proc'[t].build = proc[t].build
    BY <1>0, <1>1, WorkFrame
  <1>2. ASSUME NEW s \in Scans, NEW step \in Steps, Leave(s, step)
        PROVE  proc'[t].build = proc[t].build
    BY <1>0, <1>2, LeaveKeepsType
  <1>3. ASSUME NEW s \in Scans,
               \/ Commit(s) \/ CommitUnacknowledged(s) \/ MarkRunFailed(s) \/ GiveUp(s)
        PROVE  proc'[t].build = proc[t].build
    BY <1>2, <1>3 DEF Commit, CommitUnacknowledged, MarkRunFailed, GiveUp, Steps
  <1>4. ASSUME NEW s \in Scans, NEW selection \in Selections, NEW build \in Builds,
               NEW keys \in StockChoices, CreateRun(s, selection, build, keys)
        PROVE  proc'[t].build = proc[t].build
    BY <1>0, <1>4 DEF CreateRun, At, Update
  <1>5. ASSUME \/ \E k \in Stocks, shape \in Shapes, active \in BOOLEAN : Ingest(k, shape, active)
               \/ \E r \in Rules : Deactivate(r)
               \/ UNCHANGED vars
        PROVE  proc'[t].build = proc[t].build
    BY <1>5 DEF Ingest, Deactivate, vars
  <1> QED BY <1>1, <1>3, <1>4, <1>5 DEF Next, Proceed, Works

\* A run that is not completed has no signal, except where the commit was not
\* heard of: the results are stored together with the status, and a failure is
\* only recorded by a scan whose transaction was rolled back (service.py:211-228).
THEOREM ResultsAreWhole == Spec => []NoPartialResults
  <1>1. Init => NoPartialResults
    BY DEF Init, NoPartialResults
  <1>2. Inv /\ NoPartialResults /\ [Next]_vars => NoPartialResults'
    <2> SUFFICES ASSUME Inv, NoPartialResults, [Next]_vars, NEW signal \in signals'
                 PROVE  Completed(signal[1])' \/ signal[1] \in unheard'
      BY DEF NoPartialResults
    <2>0. runs \in [Scans -> RunType] /\ \A x \in signals : x[1] \in Scans
      BY DEF Inv, WellTyped, TypeOK
    <2>1. ASSUME NEW s \in Scans, StoreResults(s), unheard \subseteq unheard'
          PROVE  Completed(signal[1])' \/ signal[1] \in unheard'
      <3>1. signal[1] = s \/ signal \in signals
        BY <2>1 DEF StoreResults, new_signals
      <3>2. CASE signal[1] = s
        BY <2>0, <2>1, <3>2 DEF StoreResults, summary, Completed
      <3>3. CASE signal[1] # s
        BY <2>0, <2>1, <3>1, <3>3 DEF StoreResults, NoPartialResults, Completed
      <3> QED BY <3>2, <3>3
    <2>2. ASSUME NEW s \in Scans, proc[s].step \in {"new", "failing"}, NEW status,
                 runs' = [runs EXCEPT ![s].status = status],
                 UNCHANGED <<definitions, signals, unheard>>
          PROVE  Completed(signal[1])' \/ signal[1] \in unheard'
      <3>1. signal[1] = s => signal[1] \in unheard
        BY <2>2 DEF Inv, ResultsAreLast, FailuresUnheard, Finished
      <3> QED BY <2>0, <2>2, <3>1 DEF NoPartialResults, Completed
    <2>3. CASE UNCHANGED <<results, unheard>>
      BY <2>3 DEF results, NoPartialResults, Completed
    <2> QED BY <2>1, <2>2, <2>3, ResultSteps
  <1> QED BY <1>1, <1>2, InitInv, InvKept, PTL DEF Spec

\* Every signal's stored definition is that of the build that evaluated it: a
\* scan stores a definition only if none was, and otherwise compares it first
\* (repository.py:85-130).
THEOREM MatchesAreTraceable == Spec => []SignalsTraceable
  <1>1. Init => SignalsTraceable
    BY DEF Init, SignalsTraceable
  <1>2. Inv /\ SignalsTraceable /\ [Next]_vars => SignalsTraceable'
    <2> SUFFICES ASSUME Inv, SignalsTraceable, [Next]_vars, NEW signal \in signals'
                 PROVE  definitions'[signal[3]] = proc'[signal[1]].build
      BY DEF SignalsTraceable
    <2>0. /\ TypeOK /\ proc \in [Scans -> ProcType] /\ ProcessesReady /\ InsertsAreNew
          /\ DefinitionsHeld /\ ResultsAreLast
      BY DEF Inv, WellTyped
    <2>1. ASSUME signal \in signals
          PROVE  /\ signal[1] \in Scans /\ signal[3] \in Rules
                 /\ proc'[signal[1]].build = proc[signal[1]].build
                 /\ definitions[signal[3]] = proc[signal[1]].build
                 /\ definitions[signal[3]] \in Builds
      <3>1. signal[1] \in Scans /\ signal[3] \in Rules
        BY <2>0, <2>1 DEF TypeOK
      <3>2. proc[signal[1]].step \in Finished
        BY <2>0, <2>1 DEF ResultsAreLast
      <3> QED BY <2>0, <2>1, <3>1, <3>2, BuildsKept DEF SignalsTraceable, ProcessesReady, Finished
    <2>2. ASSUME NEW s \in Scans, At(s, "commit"), StoreResults(s)
          PROVE  definitions'[signal[3]] = proc'[signal[1]].build
      <3>1. CASE signal \in signals
        <4>1. inserting[signal[3]] # s
          BY <2>0, <2>1, <3>1 DEF InsertsAreNew
        <4> QED BY <2>1, <2>2, <3>1, <4>1 DEF StoreResults
      <3>2. CASE signal \in new_signals(s)
        <4>1. PICK k \in proc[s].stocks : \E r \in matches(s, k) : signal = <<s, k, r>>
          BY <3>2 DEF new_signals
        <4>r. PICK r \in matches(s, k) : signal = <<s, k, r>>
          BY <4>1
        <4>2. r \in selected(s) /\ selected(s) \subseteq Rules /\ proc[s].missing = {}
          BY <2>0, <2>2, SelectedAreRules DEF matches, At, ProcType, ProcessesReady
        <4>3. inserting[r] = s \/ definitions[r] = proc[s].build
          BY <2>0, <2>2, <4>2 DEF DefinitionsHeld, At, Inserting
        <4>4. proc'[s].build = proc[s].build
          BY <2>2, BuildsKept DEF At
        <4> QED BY <2>2, <4>r, <4>2, <4>3, <4>4 DEF StoreResults
      <3> QED BY <2>2, <3>1, <3>2 DEF StoreResults
    <2>3. CASE UNCHANGED <<definitions, signals>>
      BY <2>1, <2>3
    <2> QED BY <2>2, <2>3, ResultSteps DEF results
  <1> QED BY <1>1, <1>2, InitInv, InvKept, PTL DEF Spec

-----------------------------------------------------------------------------
(* The summary. *)

\* The stocks a scan counts as matched are those of its signals.
LEMMA MatchedHaveSignals ==
  ASSUME NEW s \in Scans, NEW S, \A x \in S : x[1] # s
  PROVE  {signal[2] : signal \in {x \in S \cup new_signals(s) : x[1] = s}}
           = {k \in proc[s].stocks : matches(s, k) # {}}
  <1>1. {x \in S \cup new_signals(s) : x[1] = s} = new_signals(s)
    BY DEF new_signals
  <1>2. ASSUME NEW x \in new_signals(s)
        PROVE  x[2] \in proc[s].stocks /\ matches(s, x[2]) # {}
    BY DEF new_signals
  <1>3. ASSUME NEW k \in proc[s].stocks, matches(s, k) # {}
        PROVE  \E x \in new_signals(s) : x[2] = k
    <2>1. PICK r \in matches(s, k) : TRUE
      BY <1>3
    <2>2. <<s, k, r>> \in new_signals(s)
      BY <2>1 DEF new_signals
    <2> QED BY <2>2
  <1> QED BY <1>1, <1>2, <1>3

\* A scan has no warning exactly when every rule could evaluate every stock.
LEMMA WarningsCount ==
  ASSUME NEW s \in Scans, WellTyped, proc[s].stocks # {}
  PROVE  /\ Cardinality(warnings(s)) = 0 <=> warnings(s) = {}
         /\ Cardinality(warnings(s)) = 0
              <=> Cardinality(fully_evaluated(s)) = Cardinality(proc[s].stocks)
         /\ Cardinality(proc[s].stocks) > 0
  <1>1. proc[s].stocks \in SUBSET Stocks
    BY DEF WellTyped, ProcType
  <1>2. IsFiniteSet(proc[s].stocks) /\ Cardinality(proc[s].stocks) \in Nat
    BY <1>1, FS_Subset, FS_CardinalityType
  <1>3. IsFiniteSet(warnings(s))
    BY WarningsType, FS_Product, FS_Subset
  <1>4. Cardinality(warnings(s)) = 0 <=> warnings(s) = {}
    BY <1>3, FS_EmptySet
  <1>5. Cardinality(proc[s].stocks) # 0
    BY <1>2, FS_EmptySet
  <1>6. warnings(s) = {} <=> fully_evaluated(s) = proc[s].stocks
    <2>1. ASSUME NEW k \in proc[s].stocks, NEW r \in insufficient(s, k)
          PROVE  <<k, r>> \in warnings(s)
      BY DEF warnings
    <2>2. ASSUME NEW x \in warnings(s)
          PROVE  \E k \in proc[s].stocks : insufficient(s, k) # {}
      BY DEF warnings
    <2> QED BY <2>1, <2>2 DEF fully_evaluated
  <1>7. Cardinality(fully_evaluated(s)) = Cardinality(proc[s].stocks)
          <=> fully_evaluated(s) = proc[s].stocks
    <2>1. fully_evaluated(s) \in SUBSET proc[s].stocks
      BY DEF fully_evaluated
    <2> QED BY <1>2, <2>1, FS_Subset
  <1> QED BY <1>2, <1>4, <1>5, <1>6, <1>7

\* The summary of a completed run agrees with itself and with the stored signals:
\* both are computed from one evaluation and committed once (service.py:171-211).
THEOREM SummariesAgree == Spec => []SummaryAgrees
  <1> DEFINE Agrees(s) ==
        /\ runs[s].matched_stocks = Cardinality({signal[2] : signal \in
                                                   {x \in signals : x[1] = s}})
        /\ runs[s].status = "completed" <=> runs[s].warning_count = 0
        /\ runs[s].warning_count = 0 <=> runs[s].processed_stocks = runs[s].total_stocks
        /\ runs[s].total_stocks > 0
  <1>1. Init => SummaryAgrees
    BY DEF Init, SummaryAgrees, Completed, NoRun
  <1>2. Inv /\ SummaryAgrees /\ [Next]_vars => SummaryAgrees'
    <2> SUFFICES ASSUME Inv, SummaryAgrees, [Next]_vars, NEW s \in Scans, Completed(s)'
                 PROVE  Agrees(s)'
      BY DEF SummaryAgrees
    <2>0. /\ WellTyped /\ runs \in [Scans -> RunType] /\ ResultsAreLast /\ ProcessesReady
      BY DEF Inv, WellTyped, TypeOK
    <2>1. ASSUME NEW t \in Scans, At(t, "commit"), StoreResults(t)
          PROVE  Agrees(s)'
      <3>1. CASE t = s
        <4>1. runs'[s] = summary(s) /\ signals' = signals \cup new_signals(s)
          BY <2>0, <2>1, <3>1 DEF StoreResults
        <4>2. \A x \in signals : x[1] # s
          BY <2>0, <2>1, <3>1 DEF ResultsAreLast, At, Finished
        <4>3. proc[s].stocks # {}
          BY <2>0, <2>1, <3>1 DEF ProcessesReady, At, Loaded
        <4>4. runs'[s].matched_stocks = Cardinality({signal[2] : signal \in
                                                      {x \in signals' : x[1] = s}})
          <5>1. {signal[2] : signal \in {x \in signals' : x[1] = s}}
                  = {k \in proc[s].stocks : matches(s, k) # {}}
            BY <4>1, <4>2, MatchedHaveSignals
          <5>2. runs'[s].matched_stocks = Cardinality({k \in proc[s].stocks : matches(s, k) # {}})
            BY <4>1 DEF summary
          <5> QED BY <5>1, <5>2
        <4>5. /\ runs'[s].status = "completed" <=> runs'[s].warning_count = 0
              /\ runs'[s].warning_count = 0
                   <=> runs'[s].processed_stocks = runs'[s].total_stocks
              /\ runs'[s].total_stocks > 0
          BY <2>0, <4>1, <4>3, WarningsCount DEF summary
        <4> QED BY <4>4, <4>5
      <3>2. CASE t # s
        <4>1. runs'[s] = runs[s] /\ Completed(s)
          BY <2>0, <2>1, <3>2 DEF StoreResults, Completed
        <4>2. {x \in signals' : x[1] = s} = {x \in signals : x[1] = s}
          BY <2>1, <3>2 DEF StoreResults, new_signals
        <4> QED BY <4>1, <4>2 DEF SummaryAgrees
      <3> QED BY <3>1, <3>2
    <2>2. ASSUME NEW t \in Scans, NEW status \in {"running", "failed"},
                 runs' = [runs EXCEPT ![t].status = status], UNCHANGED signals
          PROVE  Agrees(s)'
      <3>1. t # s
        BY <2>0, <2>2 DEF Completed, RunType
      <3>2. runs'[s] = runs[s] /\ Completed(s)
        BY <2>0, <2>2, <3>1 DEF Completed
      <3> QED BY <2>2, <3>2 DEF SummaryAgrees
    <2>3. CASE UNCHANGED <<runs, signals>>
      BY <2>3 DEF SummaryAgrees, Completed
    <2> QED BY <2>1, <2>2, <2>3, ResultSteps DEF results
  <1> QED BY <1>1, <1>2, InitInv, InvKept, PTL DEF Spec
=============================================================================
