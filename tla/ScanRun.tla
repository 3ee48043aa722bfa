------------------------------ MODULE ScanRun ------------------------------
(***************************************************************************)
(* The life of scanner runs (scanner/scanning/service.py): several         *)
(* `scanner scan` processes, perhaps of different builds, each create a    *)
(* run, evaluate the rules on the stored prices and store the results,     *)
(* while ingestion changes the prices and processes are killed.            *)
(*                                                                         *)
(* PostgreSQL runs at READ COMMITTED.  An insert of a definition is        *)
(* visible at commit, but the unique index makes a second insert of the    *)
(* same (code, version) wait for the first and fail if that commits.       *)
(***************************************************************************)
EXTENDS Naturals, Sequences, FiniteSets

CONSTANTS
  Scans,       \* the runs, each the work of one process
  Nobody,      \* "no scan inserts this definition"
  Stocks,
  FirstStocks, \* those stored, and scannable, in the beginning
  Rules,       \* signal codes, each at its version
  Builds,      \* what the code of a process says of the rules of a version
  NoBuild,     \* "the definition is not stored"
  Selections,  \* the sequences of rules a scan may be asked for
  StockChoices, \* the stock keys a scan may be asked for; {} is all
  Shapes,      \* price histories, as far as the rules tell them apart
  FirstShape,
  MaxChanges,  \* bound: ingestions and deactivations in a behaviour
  MaxLost      \* bound: scans whose commit is done but not acknowledged

\* Of a history: the rules it is too short or too old for, those it matches.
ShapeType == [insufficient : SUBSET Rules, matches : SUBSET Rules]

ASSUME ScanAssumption ==
  /\ Nobody \notin Scans /\ NoBuild \notin Builds
  /\ IsFiniteSet(Stocks) /\ IsFiniteSet(Rules)
  /\ \A selection \in Selections :
       /\ selection \in Seq(Rules) /\ selection # << >>
       /\ \A i, k \in DOMAIN selection : selection[i] = selection[k] => i = k
  /\ FirstStocks \subseteq Stocks /\ StockChoices \subseteq SUBSET Stocks
  /\ FirstShape \in Shapes
  /\ Shapes \subseteq ShapeType
  /\ MaxChanges \in Nat /\ MaxLost \in Nat

VARIABLES
  stocks,       \* table stocks: those that exist, and of them
  scannable,    \*   those whose status is active or suspended
  history,      \* table daily_prices, as the shape of each stock's history
  definitions,  \* table signal_definitions: the build that stored each rule
  inactive,     \*   and those with is_active false
  inserting,    \* the scan with an uncommitted insert of a definition
  runs,         \* table scanner_runs
  signals,      \* table technical_signals
  proc,         \* proc[s]: the process of scan s
  abandoned,    \* history: scans killed, or unable to record their failure
  unheard,      \* history: scans whose commit was not acknowledged
  changes       \* counter for the bound

data == <<stocks, scannable, history, inactive>>
results == <<definitions, runs, signals>>
vars == <<data, results, inserting, proc, abandoned, unheard, changes>>

Steps == {"new", "stocks", "histories", "definitions", "insert", "commit",
          "failing", "ended"}
Statuses == {"none", "running", "completed", "completed_with_warnings", "failed"}
Count == 0 .. Cardinality(Stocks)

RunType == [status : Statuses, total_stocks : Count, processed_stocks : Count,
            matched_stocks : Count,
            warning_count : 0 .. Cardinality(Stocks) * Cardinality(Rules)]

NoRun == [status |-> "none", total_stocks |-> 0, processed_stocks |-> 0,
          matched_stocks |-> 0, warning_count |-> 0]

NoProc == [step |-> "new", rules |-> << >>, build |-> NoBuild, keys |-> {},
           stocks |-> {}, histories |-> << >>, missing |-> {}]

Init ==
  /\ stocks = FirstStocks /\ scannable = FirstStocks
  /\ history = [k \in Stocks |-> FirstShape]
  /\ definitions = [r \in Rules |-> NoBuild]
  /\ inactive = {}
  /\ inserting = [r \in Rules |-> Nobody]
  /\ runs = [s \in Scans |-> NoRun]
  /\ signals = {}
  /\ proc = [s \in Scans |-> NoProc]
  /\ abandoned = {}
  /\ unheard = {}
  /\ changes = 0

-----------------------------------------------------------------------------
At(s, step) == proc[s].step = step

Update(s, p) == proc' = [proc EXCEPT ![s] = p]

\* The process is done with the transaction; of it, only the build matters on.
Leave(s, step) == Update(s, [NoProc EXCEPT !.step = step, !.build = proc[s].build])
selected(s) == {proc[s].rules[i] : i \in DOMAIN proc[s].rules}

\* The session of scan s closes: what it did not commit is rolled back.
Rollback(s) ==
  inserting' = [r \in Rules |-> IF inserting[r] = s THEN Nobody ELSE inserting[r]]

\* An exception within the transaction: the session closes, then the failure
\* is to be recorded.
Raise(s) ==
  /\ Leave(s, "failing")
  /\ Rollback(s)

\* _create_run commits the running record.
CreateRun(s, selection, build, keys) ==
  /\ At(s, "new")
  /\ Update(s, [NoProc EXCEPT !.step = "stocks", !.rules = selection,
                               !.build = build, !.keys = keys])
  /\ runs' = [runs EXCEPT ![s].status = "running"]
  /\ UNCHANGED <<data, definitions, signals, inserting, abandoned, unheard, changes>>

\* load_scan_stocks: every selected stock must exist, and at least one.
LoadStocks(s) ==
  LET found == IF proc[s].keys = {} THEN scannable ELSE stocks \cap proc[s].keys
  IN /\ At(s, "stocks")
     /\ IF found = {} \/ ~ proc[s].keys \subseteq found
        THEN Raise(s)
        ELSE /\ Update(s, [proc[s] EXCEPT !.stocks = found, !.step = "histories"])
             /\ UNCHANGED inserting
     /\ UNCHANGED <<data, results, abandoned, unheard, changes>>

\* load_price_histories, one statement for all the stocks.
LoadHistories(s) ==
  /\ At(s, "histories")
  /\ Update(s, [proc[s] EXCEPT !.histories = [k \in proc[s].stocks |-> history[k]],
                                !.step = "definitions"])
  /\ UNCHANGED <<data, results, inserting, abandoned, unheard, changes>>

\* Defect used to test SignalsTraceable: a stored definition is used as it is.
AnyStored(s) == selected(s) \cap inactive = {}

\* The stored definitions of the selected rules say what this build's do.
DefinitionsAgree(s) ==
  /\ \A r \in selected(s) : definitions[r] \in {NoBuild, proc[s].build}
  /\ \A r \in selected(s) : definitions[r] # NoBuild => r \notin inactive

\* ensure_signal_definitions reads them; those missing are to be inserted.
ReadDefinitions(s) ==
  LET missing == {r \in selected(s) : definitions[r] = NoBuild}
  IN /\ At(s, "definitions")
     /\ IF DefinitionsAgree(s)
        THEN /\ Update(s, [proc[s] EXCEPT !.missing = missing,
                             !.step = IF missing = {} THEN "commit" ELSE "insert"])
             /\ UNCHANGED inserting
        ELSE Raise(s)
     /\ UNCHANGED <<data, results, abandoned, unheard, changes>>

\* flush inserts the missing definitions in the order of the rules.
ToInsert(s, r) ==
  /\ At(s, "insert")
  /\ r \in proc[s].missing
  /\ \A i, k \in DOMAIN proc[s].rules :
       proc[s].rules[i] = r /\ proc[s].rules[k] \in proc[s].missing => i <= k

\* It inserts one definition. It waits for another's uncommitted insert, and
\* violates the unique constraint if that one is committed by then.
InsertDefinition(s) ==
  \E r \in proc[s].missing :
    LET rest == proc[s].missing \ {r}
    IN /\ ToInsert(s, r)
       /\ inserting[r] = Nobody
       /\ IF definitions[r] # NoBuild
          THEN Raise(s)
          ELSE /\ inserting' = [inserting EXCEPT ![r] = s]
               /\ Update(s, [proc[s] EXCEPT !.missing = rest,
                               !.step = IF rest = {} THEN "commit" ELSE "insert"])
       /\ UNCHANGED <<data, results, abandoned, unheard, changes>>

\* It waits for one of the scans.
WaitsFor(s, scans) ==
  \E r \in proc[s].missing : ToInsert(s, r) /\ inserting[r] \in scans

\* PostgreSQL aborts one of the transactions that wait for each other: two
\* scans may insert the same definitions in the order of their --signal options.
DeadlockDetected(s) ==
  /\ \E C \in SUBSET Scans :
       /\ s \in C
       /\ \A c \in C : WaitsFor(c, C)
  /\ Raise(s)
  /\ UNCHANGED <<data, results, abandoned, unheard, changes>>

-----------------------------------------------------------------------------
(* The evaluation of every rule on every stock, and its outcome. *)

insufficient(s, k) == proc[s].histories[k].insufficient \cap selected(s)
matches(s, k) == (proc[s].histories[k].matches \ insufficient(s, k)) \cap selected(s)

new_signals(s) ==
  UNION {{<<s, k, r>> : r \in matches(s, k)} : k \in proc[s].stocks}

\* Defect used to test SummaryAgrees: a stock that some rule evaluated counts.
AnyEvaluated(s) == {k \in proc[s].stocks : insufficient(s, k) # selected(s)}

\* The stocks that every selected rule could evaluate.
fully_evaluated(s) == {k \in proc[s].stocks : insufficient(s, k) = {}}

warnings(s) ==
  UNION {{<<k, r>> : r \in insufficient(s, k)} : k \in proc[s].stocks}

\* What the run row says in the end.
summary(s) ==
  [status |-> IF warnings(s) = {} THEN "completed" ELSE "completed_with_warnings",
   total_stocks |-> Cardinality(proc[s].stocks),
   processed_stocks |-> Cardinality(fully_evaluated(s)),
   matched_stocks |-> Cardinality({k \in proc[s].stocks : matches(s, k) # {}}),
   warning_count |-> Cardinality(warnings(s))]

\* Defect used to test NoPartialResults: the summary is left for a later commit.
StoreSignalsOnly(s) ==
  /\ signals' = signals \cup new_signals(s)
  /\ definitions' = [r \in Rules |-> IF inserting[r] = s THEN proc[s].build
                                                        ELSE definitions[r]]
  /\ UNCHANGED runs
  /\ Rollback(s)

\* Definitions, signals, summary and status are committed together.
StoreResults(s) ==
  /\ signals' = signals \cup new_signals(s)
  /\ definitions' = [r \in Rules |-> IF inserting[r] = s THEN proc[s].build
                                                        ELSE definitions[r]]
  /\ runs' = [runs EXCEPT ![s] = summary(s)]
  /\ Rollback(s)

Commit(s) ==
  /\ At(s, "commit")
  /\ StoreResults(s)
  /\ Leave(s, "ended")
  /\ UNCHANGED <<data, abandoned, unheard, changes>>

\* The commit is done but the connection breaks before the process hears of it.
CommitUnacknowledged(s) ==
  /\ At(s, "commit") /\ Cardinality(unheard) < MaxLost
  /\ StoreResults(s)
  /\ Leave(s, "failing")
  /\ unheard' = unheard \cup {s}
  /\ UNCHANGED <<data, abandoned, changes>>

\* A statement or the commit fails and nothing of the transaction stays.
DatabaseFails(s) ==
  /\ proc[s].step \in {"stocks", "histories", "definitions", "insert", "commit"}
  /\ Raise(s)
  /\ UNCHANGED <<data, results, abandoned, unheard, changes>>

\* Defect used to test VerdictReached: the failure is reported, not recorded.
OnlyReport(s) ==
  /\ At(s, "failing")
  /\ Leave(s, "ended")
  /\ UNCHANGED <<data, results, inserting, abandoned, unheard, changes>>

\* _mark_run_failed, in a session of its own.
MarkRunFailed(s) ==
  /\ At(s, "failing")
  /\ runs' = [runs EXCEPT ![s].status = "failed"]
  /\ Leave(s, "ended")
  /\ UNCHANGED <<data, definitions, signals, inserting, abandoned, unheard, changes>>

\* Recording the failure fails too, or the process is killed.
GiveUp(s) ==
  /\ proc[s].step \notin {"new", "ended"}
  /\ Leave(s, "ended")
  /\ Rollback(s)
  /\ abandoned' = abandoned \cup {s}
  /\ UNCHANGED <<data, results, unheard, changes>>

-----------------------------------------------------------------------------
(* The rest of the platform, and the specification. *)

\* Ingestion adds or updates a stock and its prices.
Ingest(k, shape, active) ==
  /\ changes < MaxChanges
  /\ stocks' = stocks \cup {k}
  /\ scannable' = IF active THEN scannable \cup {k} ELSE scannable \ {k}
  /\ history' = [history EXCEPT ![k] = shape]
  /\ changes' = changes + 1
  /\ UNCHANGED <<inactive, results, inserting, proc, abandoned, unheard>>

\* An operator retires a stored definition.
Deactivate(r) ==
  /\ changes < MaxChanges
  /\ definitions[r] # NoBuild
  /\ inactive' = inactive \cup {r}
  /\ changes' = changes + 1
  /\ UNCHANGED <<stocks, scannable, history, results, inserting, proc, abandoned, unheard>>

Proceed(s) ==
  \/ LoadStocks(s) \/ LoadHistories(s) \/ ReadDefinitions(s)
  \/ InsertDefinition(s) \/ DeadlockDetected(s) \/ Commit(s) \/ MarkRunFailed(s)

Next ==
  \/ \E s \in Scans : Proceed(s) \/ CommitUnacknowledged(s) \/ DatabaseFails(s)
                      \/ GiveUp(s)
  \/ \E s \in Scans, selection \in Selections, build \in Builds,
        keys \in StockChoices : CreateRun(s, selection, build, keys)
  \/ \E k \in Stocks, shape \in Shapes, active \in BOOLEAN : Ingest(k, shape, active)
  \/ \E r \in Rules : Deactivate(r)

Spec == Init /\ [][Next]_vars

\* A process that can take its next step does; the database answers, and finds
\* deadlocks. Nothing obliges it to fail.
FairSpec == Spec /\ \A s \in Scans : WF_vars(Proceed(s))

-----------------------------------------------------------------------------
(* Properties *)

\* Every variable has its type, the counters within the stocks of the run.
TypeOK ==
  /\ stocks \subseteq Stocks /\ scannable \subseteq stocks
  /\ history \in [Stocks -> Shapes]
  /\ definitions \in [Rules -> Builds \cup {NoBuild}]
  /\ inactive \subseteq Rules
  /\ inserting \in [Rules -> Scans \cup {Nobody}]
  /\ runs \in [Scans -> RunType]
  /\ signals \subseteq Scans \X Stocks \X Rules
  /\ \A s \in Scans : proc[s].step \in Steps /\ proc[s].stocks \subseteq Stocks
  /\ abandoned \subseteq Scans
  /\ unheard \subseteq Scans
  /\ changes \in 0 .. MaxChanges

Completed(s) == runs[s].status \in {"completed", "completed_with_warnings"}

\* The initial record is committed before everything else together: a run that
\* is running or failed has no signal. The one failure that rolls back nothing
\* is that of a commit the database had already done.
NoPartialResults ==
  \A signal \in signals : Completed(signal[1]) \/ signal[1] \in unheard

\* The summary a dashboard shows agrees with itself and the stored signals:
\* the stocks matched are those with a signal, and the run has warnings exactly
\* when some stock was not fully evaluated.
SummaryAgrees ==
  \A s \in Scans : Completed(s) =>
    LET run == runs[s] IN
    /\ run.matched_stocks = Cardinality({signal[2] : signal \in
                                           {x \in signals : x[1] = s}})
    /\ run.status = "completed" <=> run.warning_count = 0
    /\ run.warning_count = 0 <=> run.processed_stocks = run.total_stocks
    /\ run.total_stocks > 0

\* "Every displayed match can be traced": whatever builds scan at the same
\* time, a signal's stored definition is the one its scan evaluated.
SignalsTraceable ==
  \A signal \in signals : definitions[signal[3]] = proc[signal[1]].build

\* "The scan run is marked completed, completed with warnings, or failed",
\* unless its process was killed or could not reach the database to say so:
\* scans that wait for each other's definitions do not wait forever.
VerdictReached ==
  \A s \in Scans :
    runs[s].status = "running" ~> runs[s].status # "running" \/ s \in abandoned
=============================================================================
