----------------------------- MODULE CacheBatch -----------------------------
(***************************************************************************)
(* The batch script scripts/cache_baostock_daily.py: main works through    *)
(* the selected securities one by one (cache_security), retries a query    *)
(* over a new login, goes on after a failure, and writes a summary; it may *)
(* be killed at any step and run again.  A price file is the set of dates  *)
(* it holds; the rewrite in place can leave any prefix of them, and then   *)
(* part of a row: a row cut after its date counts as one of that date, a   *)
(* cut date makes the whole file unreadable.                               *)
(***************************************************************************)
EXTENDS Integers, FiniteSets, Sequences

CONSTANTS Securities,  \* stocks.json, a sequence in the file's order
          Fetchable,   \* those that classify_security wants fetched
          Horizon,     \* dates are 1 .. Horizon
          Sessions,    \* the dates on which the exchange is open
          StartDates, EndDates,  \* values of --start-date and --end-date
          retries,     \* --retries
          MaxRuns, MaxFaults

Days == 1 .. Horizon
All == {Securities[i] : i \in DOMAIN Securities}
attempts == retries + 1

ASSUME BatchAssumption ==
  /\ Horizon \in Nat \ {0} /\ StartDates \cup EndDates \cup Sessions \subseteq Days /\ retries \in Nat
  /\ Securities \in Seq(All) /\ Fetchable \subseteq All
  /\ \A i, j \in DOMAIN Securities : Securities[i] = Securities[j] => i = j

VARIABLES
  manifest,   \* the securities stocks_manifest.csv lists
  file,       \* the dates each price file holds
  cut,        \* the securities whose file ends within a date
  summary,    \* last_run_summary.json: the status of each security, if any
  step,       \* what the script does next
  run,        \* its arguments and the summary items so far
  index,      \* the place of the security it works on
  rows,       \* rows_by_date of cache_security
  attempt,    \* the attempt at the query
  logged_in,  \* BaoStockDailyClient._logged_in
  connected,  \* whether the provider still knows the session
  torn,       \* history: the script was killed while it wrote the manifest
  failures,   \* history: what went wrong outside the script in this run
  runs, faults

counters == <<runs, faults>>
client == <<logged_in, connected>>
work == <<index, rows, attempt>>
vars == <<manifest, file, cut, summary, step, run, work, client, torn, failures, counters>>

NoItem == [s \in All |-> "none"]
NoRun == [codes |-> {}, start_date |-> 1, end_date |-> 1, force |-> FALSE, stop_on_error |-> FALSE,
          status |-> NoItem]
NoSummary == [status |-> NoItem, start_date |-> 1, end_date |-> 1, of_run |-> 0]

Init ==
  /\ manifest = {} /\ file = [s \in All |-> {}] /\ cut = {} /\ summary = NoSummary
  /\ step = "idle" /\ run = NoRun
  /\ index = 1 /\ rows = {} /\ attempt = 1
  /\ logged_in = FALSE /\ connected = FALSE
  /\ torn = FALSE /\ failures = 0 /\ runs = 0 /\ faults = 0

Fault == faults < MaxFaults /\ faults' = faults + 1 /\ failures' = failures + 1
NoFault == UNCHANGED <<faults, failures>>

-----------------------------------------------------------------------------
(* main, up to the loop *)

Selected(s) == s \in Fetchable /\ s \in run.codes

\* The next place, from i on, of a selected security.
Places(i) == {k \in DOMAIN Securities : k >= i /\ Selected(Securities[k])}
GoTo(i) ==
  IF Places(i) = {}
  THEN step' = "leave" /\ index' = 1
  ELSE step' = "read" /\ index' \in {k \in Places(i) : \A m \in Places(i) : k <= m}

\* A run with its options; its manifest file is truncated.
StartRun(codes, start_date, end_date, force, stop_on_error) ==
  /\ step = "idle" /\ runs < MaxRuns
  /\ start_date <= end_date
  /\ runs' = runs + 1
  /\ run' = [codes |-> codes, start_date |-> start_date, end_date |-> end_date,
             force |-> force, stop_on_error |-> stop_on_error, status |-> NoItem]
  /\ manifest' = {} /\ torn' = TRUE
  /\ failures' = 0
  /\ step' = "manifest"
  /\ UNCHANGED <<file, cut, summary, work, client, faults>>

\* Defect used to test CachedStocksStayListed: only the selected are listed.
WriteSelectedManifest ==
  /\ step = "manifest"
  /\ manifest' = {s \in All : Selected(s)} /\ torn' = FALSE
  /\ step' = "enter"
  /\ NoFault
  /\ UNCHANGED <<file, cut, summary, run, work, client, runs>>

\* Every security of stocks.json is listed, selected for this run or not.
WriteManifest ==
  /\ step = "manifest"
  /\ manifest' = All /\ torn' = FALSE
  /\ step' = "enter"
  /\ NoFault
  /\ UNCHANGED <<file, cut, summary, run, work, client, runs>>

\* The script ends by an exception, a kill, or in its own time.
Exit ==
  /\ step' = "idle" /\ run' = NoRun
  /\ index' = 1 /\ rows' = {} /\ attempt' = 1
  /\ logged_in' = FALSE /\ connected' = FALSE

\* --dry-run returns here.
DryRun ==
  /\ step = "enter" /\ Exit
  /\ NoFault
  /\ UNCHANGED <<manifest, file, cut, summary, torn, runs>>

LoggedIn == logged_in' = TRUE /\ connected' = TRUE

Enter ==
  /\ step = "enter"
  /\ \/ LoggedIn /\ GoTo(1) /\ NoFault /\ UNCHANGED <<run, rows, attempt>>
     \/ Fault /\ Exit
  /\ UNCHANGED <<manifest, file, cut, summary, torn, runs>>

-----------------------------------------------------------------------------
(* cache_security *)

current == Securities[index]
latest(S) == CHOOSE d \in S : \A e \in S : e <= d

\* Defect used to test CompletedReachesBothEnds: the earliest date is ignored.
next_fetch_start_of_tail(S) ==
  IF run.force \/ S = {} THEN run.start_date
  ELSE IF run.start_date > latest(S) + 1 THEN run.start_date ELSE latest(S) + 1

\* The first date to fetch, given the dates cached: all again when the file begins
\* after the start, as it does whenever the start is not a session, but only from a
\* later start when that lies past the file's end.  (Every security was listed on the
\* first date.)
next_fetch_start(S) ==
  IF run.force \/ S = {} \/ ~\E d \in S : d <= run.start_date THEN run.start_date
  ELSE IF run.start_date > latest(S) + 1 THEN run.start_date ELSE latest(S) + 1

\* The loop's last steps: the status is noted and the next security's turn.
Finish(status) ==
  /\ run' = [run EXCEPT !.status[current] = status]
  /\ IF status = "failed" /\ run.stop_on_error
     THEN step' = "leave" /\ index' = 1 ELSE GoTo(index + 1)
  /\ rows' = {} /\ attempt' = 1

ReadCache ==
  LET existing == IF run.force THEN {} ELSE file[current] IN
  /\ step = "read"
  /\ CASE ~run.force /\ current \in cut -> Finish("failed")
       [] (run.force \/ current \notin cut) /\ next_fetch_start(existing) > run.end_date ->
            Finish("skipped")
       [] OTHER -> rows' = existing /\ step' = "query" /\ UNCHANGED <<run, index, attempt>>
  /\ NoFault
  /\ UNCHANGED <<manifest, file, cut, summary, client, torn, runs>>

\* The rows fetched replace those of the same dates.
QuerySucceeds ==
  /\ step = "query" /\ connected
  /\ rows' = rows \cup (Sessions \cap next_fetch_start(rows) .. run.end_date)
  /\ step' = "truncate"
  /\ NoFault
  /\ UNCHANGED <<manifest, file, cut, summary, run, index, attempt, client, torn, runs>>

\* A network error, or the answer to a query without a session.  The last
\* attempt's error ends the work on this security.
QueryFails ==
  /\ step = "query"
  /\ IF connected THEN Fault ELSE NoFault
  /\ IF attempt >= attempts
     THEN Finish("failed")
     ELSE step' = "reconnect" /\ UNCHANGED <<run, work>>
  /\ UNCHANGED <<manifest, file, cut, summary, client, torn, runs>>

\* The provider forgets the session.
ConnectionDrops ==
  /\ connected /\ connected' = FALSE
  /\ Fault
  /\ UNCHANGED <<manifest, file, cut, summary, step, run, work, logged_in, torn, runs>>

\* login returns at once if the client believes to be logged in.
Login(believed) == IF believed THEN UNCHANGED client ELSE LoggedIn

\* Or an error instead: login's, or logout's, after which the client believes as before.
ReconnectEnds ==
  \/ logged_in' = FALSE /\ connected' = FALSE
  \/ UNCHANGED logged_in /\ connected' \in {connected, FALSE}

\* Defect used to test FailuresNeedFaults: logout keeps _logged_in.
ReconnectStale ==
  /\ step = "reconnect"
  /\ \/ /\ Login(logged_in) /\ step' = "query" /\ attempt' = attempt + 1
        /\ NoFault /\ UNCHANGED <<run, index, rows>>
     \/ Fault /\ ReconnectEnds /\ Finish("failed")
  /\ UNCHANGED <<manifest, file, cut, summary, torn, runs>>

\* logout and login; either's error leaves the retry loop.
Reconnect ==
  /\ step = "reconnect"
  /\ \/ /\ Login(FALSE) /\ step' = "query" /\ attempt' = attempt + 1
        /\ NoFault /\ UNCHANGED <<run, index, rows>>
     \/ Fault /\ ReconnectEnds /\ Finish("failed")
  /\ UNCHANGED <<manifest, file, cut, summary, torn, runs>>

\* The file is opened for writing and flushed in pieces, in ascending order.
Truncate ==
  /\ step = "truncate"
  /\ file' = [file EXCEPT ![current] = {}] /\ cut' = cut \ {current}
  /\ step' = "write"
  /\ NoFault
  /\ UNCHANGED <<manifest, summary, run, work, client, torn, runs>>

WriteChunk(through) ==
  /\ step = "write"
  /\ file[current] # {d \in rows : d <= through}
  /\ file[current] \subseteq {d \in rows : d <= through}
  /\ file' = [file EXCEPT ![current] = {d \in rows : d <= through}]
  /\ \/ cut' = cut \ {current}
     \/ (\E d \in rows : d > through) /\ cut' = cut \cup {current}
  /\ NoFault
  /\ UNCHANGED <<manifest, summary, step, run, work, client, torn, runs>>

WriteRest ==
  /\ step = "write"
  /\ file' = [file EXCEPT ![current] = rows] /\ cut' = cut \ {current}
  /\ Finish("completed")
  /\ NoFault
  /\ UNCHANGED <<manifest, summary, client, torn, runs>>

\* The disk is full.
WriteFails ==
  /\ step \in {"truncate", "write"}
  /\ Fault
  /\ Finish("failed")
  /\ UNCHANGED <<manifest, file, cut, summary, client, torn, runs>>

-----------------------------------------------------------------------------
(* The end of main *)

\* __exit__ logs out; if that raises, no summary is written.
Leave ==
  /\ step = "leave"
  /\ \/ /\ step' = "summary" /\ logged_in' = FALSE /\ connected' = FALSE
        /\ NoFault /\ UNCHANGED <<run, work>>
     \/ Fault /\ Exit
  /\ UNCHANGED <<manifest, file, cut, summary, torn, runs>>

WriteSummary ==
  /\ step = "summary"
  /\ summary' = [status |-> run.status, start_date |-> run.start_date, end_date |-> run.end_date,
                 of_run |-> runs]
  /\ Exit
  /\ NoFault
  /\ UNCHANGED <<manifest, file, cut, torn, runs>>

Kill ==
  /\ step # "idle" /\ Exit
  /\ Fault
  /\ UNCHANGED <<manifest, file, cut, summary, torn, runs>>

Next ==
  \/ \E codes \in SUBSET All \ {{}}, s \in StartDates, e \in EndDates, force, stop \in BOOLEAN :
       StartRun(codes, s, e, force, stop)
  \/ WriteManifest \/ DryRun \/ Enter
  \/ ReadCache \/ QuerySucceeds \/ QueryFails \/ ConnectionDrops \/ Reconnect
  \/ Truncate \/ \E d \in Days : WriteChunk(d)
  \/ WriteRest \/ WriteFails
  \/ Leave \/ WriteSummary \/ Kill

Spec == Init /\ [][Next]_vars

-----------------------------------------------------------------------------
(* Properties *)

\* A lost session or a failed attempt costs at most the security it hits: the
\* retry of the next one logs in again.  So a run has no more failures than
\* things that went wrong, and without any it has none, files apart that an earlier
\* kill or failure cut within a date: those fail until they are forced.
FailuresNeedFaults ==
  retries > 0 => Cardinality({s \in All \ cut : run.status[s] = "failed"}) <= failures

\* The sessions of a range that S lacks all lie in a hole between two dates it has.
ReachesBothEnds(S, start_date, end_date) ==
  \A d \in (Sessions \cap start_date .. end_date) \ S :
    \E e, f \in S : e < d /\ d < f

\* Unless a later run has begun, a security that the summary calls completed or
\* skipped has its file reach from the first to the last session of that run's range,
\* whatever earlier runs with other start dates, kills and failed writes had left there.
CompletedReachesBothEnds ==
  \A s \in All :
    summary.of_run = runs /\ summary.status[s] \in {"completed", "skipped"}
      => ReachesBothEnds(file[s], summary.start_date, summary.end_date)

\* "cache already covers requested range" (line 634): such a file has every session
\* of the range.
CompletedMeansCached ==
  \A s \in All :
    summary.of_run = runs /\ summary.status[s] \in {"completed", "skipped"}
      => Sessions \cap summary.start_date .. summary.end_date \subseteq file[s]

\* A run for a few codes leaves the other cached stocks in the manifest, through
\* which the server finds them, unless it is killed while it writes that file.
CachedStocksStayListed == \A s \in All : file[s] # {} /\ ~torn => s \in manifest
=============================================================================
