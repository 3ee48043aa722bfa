--------------------------- MODULE LocalCacheSync ---------------------------
(***************************************************************************)
(* POST /stocks/{symbol}/prices/sync for one stock kept in the BaoStock    *)
(* CSV cache (backend/app/services/local_daily_cache_sync.py): concurrent  *)
(* requests of the server and the batch script that fills the same file    *)
(* (scripts/cache_baostock_daily.py).                                      *)
(*                                                                         *)
(* The file is rewritten in place: open("w") empties it, the rows follow   *)
(* in date order through a buffer that knows nothing of rows.  Until the   *)
(* last of it is written, and for good if the writer fails or the process  *)
(* dies, the file ends anywhere, within a row too.                         *)
(***************************************************************************)
EXTENDS Naturals

CONSTANTS
  Workers,      \* the threads that serve requests
  Script,       \* the batch script, one run at a time
  Nobody,       \* "nobody holds the lock"
  Horizon,      \* the last date of the model
  Traded,       \* the sessions for which the provider has or will have a bar
  FirstToday,   \* the date the model starts on
  ListDate,     \* the stock's list date in the manifest
  FromDates,    \* the dates requests and the script ask from
  MAX_SYNC_RANGE_DAYS,
  MaxRequests,  \* bound: requests started in a behaviour
  MaxScripts,   \* bound: runs of the script in a behaviour
  MaxFaults     \* bound: writes cut short by a failure or a crash

Days == 1 .. Horizon
Writers == Workers \cup {Script}

ASSUME LocalCacheAssumption ==
  /\ Script \notin Workers /\ Nobody \notin Writers
  /\ Horizon \in Nat
  /\ Traded \subseteq Days /\ FromDates \subseteq Days
  /\ FirstToday \in Days /\ ListDate \in Days
  /\ {MAX_SYNC_RANGE_DAYS, MaxRequests, MaxScripts, MaxFaults} \subseteq Nat

VARIABLES
  today,        \* the server's date
  published,    \* sessions whose bar the provider returns
  file,         \* the cache file
  sync_lock,    \* holder of LocalDailyCacheSynchronizer._sync_lock
  job,          \* job[w]: the request a worker serves, or the script's run
  owed,         \* history: bars that syncs completed since the last fault found or stored
  requests, scripts, faults   \* counters for the bounds

counters == <<requests, scripts, faults>>
vars == <<today, published, file, sync_lock, job, owed, counters>>

\* A file: the rows that parse, those that have a date but were cut after it,
\* and whether the last line was cut within its date. No file reads as empty.
File == [whole : SUBSET Days, broken : SUBSET Days, garbled : BOOLEAN]
EmptyFile == [whole |-> {}, broken |-> {}, garbled |-> FALSE]
dates(f) == f.whole \cup f.broken

Steps == {"idle", "lock", "fetch", "read", "truncate", "write", "answer", "done"}

JobType == [step : Steps, from_date : Days, to_date : Days, force : BOOLEAN,
            fetched : SUBSET Days, rows : File, answer : SUBSET Days]

NoJob == [step |-> "idle", from_date |-> 1, to_date |-> 1, force |-> FALSE,
          fetched |-> {}, rows |-> EmptyFile, answer |-> {}]

Init ==
  /\ today = FirstToday
  /\ published = {d \in Traded : d < FirstToday}
  /\ file = EmptyFile
  /\ sync_lock = Nobody
  /\ job = [w \in Writers |-> NoJob]
  /\ owed = {}
  /\ requests = 0 /\ scripts = 0 /\ faults = 0

-----------------------------------------------------------------------------
(* Steps of a request, under _sync_lock from the bounds to the last write. *)

At(w, step) == job[w].step = step
Update(w, j) == job' = [job EXCEPT ![w] = j]
Release(w) == sync_lock' = IF sync_lock = w THEN Nobody ELSE sync_lock

\* The requested dates since the stock was listed; the manifest has no
\* delisting date.
effective_range(j) ==
  {d \in Days : j.from_date <= d /\ ListDate <= d /\ d <= j.to_date}

\* A request that fails validation changes nothing and is left out. The script
\* and the server write the same file without a common lock: they are taken
\* not to run at the same time.
StartRequest(w, from_date, to_date) ==
  LET j == [NoJob EXCEPT !.from_date = from_date, !.to_date = to_date]
      step == IF effective_range(j) = {} THEN "answer" ELSE "lock"
  IN /\ w \in Workers
     /\ job[w].step \in {"idle", "done"} /\ At(Script, "idle")
     /\ requests < MaxRequests
     /\ from_date <= to_date
     /\ to_date < from_date + MAX_SYNC_RANGE_DAYS
     /\ to_date <= today
     /\ Update(w, [j EXCEPT !.step = step])
     /\ requests' = requests + 1
     /\ UNCHANGED <<today, published, file, sync_lock, owed, scripts, faults>>

\* Defect used to test CaughtUp: a file that reaches the start is a hit.
ReachesStart(f, j) == \E d \in dates(f) : d >= j.from_date

\* The file already reaches the end of the effective range.
cache_hit(f, j) == \E d \in dates(f) : d >= j.to_date

\* The bars of the range that the provider has; of them, those a file should
\* have that was fetched a while ago.
Found(j) == published \cap effective_range(j)
Due(j, f) == {d \in Found(j) : \E c \in dates(f) : d <= c}

\* The lock is taken and the file's dates are read: a date cut short raises.
ReadBounds(w) ==
  LET j == job[w] IN
  /\ At(w, "lock") /\ sync_lock = Nobody
  /\ \/ /\ file.garbled
        /\ Update(w, NoJob)
        /\ UNCHANGED <<sync_lock, owed>>
     \/ /\ ~file.garbled /\ cache_hit(file, j)
        /\ Update(w, [j EXCEPT !.step = "answer"])
        /\ owed' = owed \cup Found(j)
        /\ UNCHANGED sync_lock
     \/ /\ ~file.garbled /\ ~cache_hit(file, j)
        /\ sync_lock' = w
        /\ Update(w, [j EXCEPT !.step = "fetch"])
        /\ UNCHANGED owed
  /\ UNCHANGED <<today, published, file, counters>>

\* Defect used to test Contiguous: one session after the cached ones is skipped.
SkippingOne(f, j) ==
  {d \in effective_range(j) : \A c \in dates(f) : d > c + 1}

\* The dates from the day after the file's latest to the end of the range.
missing_tail(f, j) ==
  {d \in effective_range(j) : \A c \in dates(f) : d > c}

\* load_daily_rows for the missing tail; the file is as when its dates were read.
Fetch(w) ==
  LET j == job[w] IN
  /\ w \in Workers /\ At(w, "fetch")
  /\ Update(w, [j EXCEPT !.fetched = published \cap missing_tail(file, j),
                         !.step = "read"])
  /\ UNCHANGED <<today, published, file, sync_lock, owed, counters>>

\* Defect used to test SyncsFinish: the failure leaves the lock held.
FailsHoldingTheLock(w) ==
  /\ At(w, "fetch")
  /\ Update(w, NoJob)
  /\ UNCHANGED <<today, published, file, sync_lock, owed, counters>>

\* The provider fails (for the script: in every retry), nothing is written.
ProviderFails(w) ==
  /\ At(w, "fetch")
  /\ Update(w, NoJob)
  /\ Release(w)
  /\ UNCHANGED <<today, published, file, owed, counters>>

\* The fetched rows replace or join those read: what will be written.
Merged(f, fetched) ==
  [whole |-> f.whole \cup fetched, broken |-> f.broken \ fetched, garbled |-> FALSE]

\* The cached rows are read again and merged; without new rows no write.
ReadRows(w) ==
  LET j == job[w] IN
  /\ w \in Workers /\ At(w, "read")
  /\ IF j.fetched = {}
     THEN /\ Update(w, [j EXCEPT !.step = "answer"])
          /\ Release(w)
          /\ owed' = owed \cup Due(j, file)
     ELSE /\ Update(w, [j EXCEPT !.rows = Merged(file, j.fetched),
                                 !.step = "truncate"])
          /\ UNCHANGED <<sync_lock, owed>>
  /\ UNCHANGED <<today, published, file, counters>>

-----------------------------------------------------------------------------
(* Writing, the same code in the server and in the script. *)

\* Opening the file for writing empties it. With --force the script gives up
\* the bars it did not fetch.
Truncate(w) ==
  LET j == job[w] IN
  /\ At(w, "truncate")
  /\ file' = EmptyFile
  /\ Update(w, [j EXCEPT !.step = "write"])
  /\ owed' = IF j.force THEN owed \cap dates(j.rows) ELSE owed
  /\ UNCHANGED <<today, published, sync_lock, counters>>

\* What a file that will hold f holds after a part of it is written: the rows
\* up to a date, and of the next a piece that ends within its date or after.
Part(f) ==
  LET UpTo(D) == [whole |-> f.whole \cap D, broken |-> f.broken \cap D,
                  garbled |-> FALSE]
      IsPrefix(D) == \A d \in D, e \in dates(f) \ D : d < e
      IsNext(d, D) == \A e \in dates(f) \ D : d <= e
      clean == {UpTo(D) : D \in {E \in SUBSET dates(f) : IsPrefix(E)}}
  IN UNION {{p, [p EXCEPT !.garbled = dates(p) # dates(f)]}
              \cup {[p EXCEPT !.broken = @ \cup {d}] :
                      d \in {e \in dates(f) \ dates(p) : IsNext(e, dates(p))}} :
            p \in clean}

\* The buffer is flushed: more of the rows is in the file than before.
WriteChunk(w, part) ==
  /\ At(w, "write")
  /\ part \in Part(job[w].rows)
  /\ part # file /\ dates(file) \subseteq dates(part)
  /\ part.garbled \/ dates(file) # dates(part)
  /\ file' = part
  /\ UNCHANGED <<today, published, sync_lock, job, owed, counters>>

\* The last rows are written and the file is closed; the script's run ends.
WriteRest(w) ==
  LET j == job[w] IN
  /\ At(w, "write")
  /\ file' = j.rows
  /\ IF w = Script THEN Update(w, NoJob)
                   ELSE Update(w, [j EXCEPT !.step = "answer"])
  /\ Release(w)
  /\ owed' = IF w \in Workers THEN owed \cup Due(j, j.rows) ELSE owed
  /\ UNCHANGED <<today, published, counters>>

\* The write fails (the disk is full): the file stays as it is.
WriteFails(w) ==
  /\ At(w, "write")
  /\ faults < MaxFaults
  /\ faults' = faults + 1
  /\ Update(w, NoJob)
  /\ Release(w)
  /\ owed' = {}
  /\ UNCHANGED <<today, published, file, requests, scripts>>

\* Defect used to test AnswersHaveNoHole: a row that cannot be parsed is skipped.
AnswerSkippingRows(w) ==
  /\ At(w, "answer")
  /\ Update(w, [NoJob EXCEPT
       !.from_date = job[w].from_date, !.to_date = job[w].to_date, !.step = "done",
       !.answer = {d \in file.whole :
                     job[w].from_date <= d /\ d <= job[w].to_date}])
  /\ UNCHANGED <<today, published, file, sync_lock, owed, counters>>

\* list_prices for the response reads without the lock; a row it cannot parse
\* makes the request fail.
Answer(w) ==
  LET j == job[w]
      unreadable == \/ file.garbled
                    \/ \E d \in file.broken : j.from_date <= d /\ d <= j.to_date
  IN /\ At(w, "answer")
     /\ \/ unreadable /\ Update(w, NoJob)
        \/ /\ ~unreadable
           /\ Update(w, [NoJob EXCEPT
                !.from_date = j.from_date, !.to_date = j.to_date, !.step = "done",
                !.answer = {d \in file.whole : j.from_date <= d /\ d <= j.to_date}])
     /\ UNCHANGED <<today, published, file, sync_lock, owed, counters>>

-----------------------------------------------------------------------------
(* The batch script, and the rest of the world. *)

\* cache_security for this stock.
StartScript(from_date, end_date, force) ==
  /\ At(Script, "idle")
  /\ \A w \in Workers : job[w].step \in {"idle", "done"}
  /\ scripts < MaxScripts
  /\ from_date <= end_date
  /\ Update(Script, [NoJob EXCEPT !.from_date = from_date, !.to_date = end_date,
                                  !.force = force, !.step = "read"])
  /\ scripts' = scripts + 1
  /\ UNCHANGED <<today, published, file, sync_lock, owed, requests, faults>>

\* The rows are read, unless all is fetched anew, and the first date to fetch
\* is chosen: all again when the file begins after the start.
ScriptReads ==
  LET j == job[Script]
      rows == IF j.force THEN EmptyFile ELSE file
      begins_late == \A c \in dates(rows) : \E d \in effective_range(j) : d < c
      wanted == IF begins_late THEN effective_range(j) ELSE missing_tail(rows, j)
  IN /\ At(Script, "read")
     /\ IF rows.garbled \/ wanted = {}
        THEN Update(Script, NoJob)
        ELSE Update(Script, [j EXCEPT !.rows = rows, !.fetched = wanted,
                                      !.step = "fetch"])
     /\ UNCHANGED <<today, published, file, sync_lock, owed, counters>>

\* The provider answers, at the first try or a later one; the script writes
\* even if it has no bar to add.
ScriptFetches ==
  LET j == job[Script] IN
  /\ At(Script, "fetch")
  /\ Update(Script, [j EXCEPT !.rows = Merged(@, published \cap j.fetched),
                              !.step = "truncate"])
  /\ UNCHANGED <<today, published, file, sync_lock, owed, counters>>

\* The provider can now return the bar of the next session.
Publish(d) ==
  /\ d \in Traded \ published /\ d <= today
  /\ \A e \in Traded \ published : d <= e
  /\ published' = published \cup {d}
  /\ UNCHANGED <<today, file, sync_lock, job, owed, counters>>

NextDay ==
  /\ today < Horizon
  /\ today' = today + 1
  /\ UNCHANGED <<published, file, sync_lock, job, owed, counters>>

\* Server and script are killed; what they had flushed stays in the file.
Crash ==
  /\ faults < MaxFaults
  /\ faults' = faults + 1
  /\ job' = [w \in Writers |-> NoJob]
  /\ sync_lock' = Nobody
  /\ owed' = IF \E w \in Writers : At(w, "write") THEN {} ELSE owed
  /\ UNCHANGED <<today, published, file, requests, scripts>>

Proceed(w) ==
  \/ ReadBounds(w) \/ Fetch(w)
  \/ ReadRows(w)
  \/ Truncate(w) \/ WriteRest(w) \/ Answer(w)

Next ==
  \/ \E w \in Writers : Proceed(w) \/ ProviderFails(w) \/ WriteFails(w)
  \/ \E w \in Writers : \E part \in Part(job[w].rows) : WriteChunk(w, part)
  \/ ScriptReads \/ ScriptFetches
  \/ \E w \in Workers, from_date \in FromDates, to_date \in Days :
       StartRequest(w, from_date, to_date)
  \/ \E from_date \in FromDates, end_date \in Days, force \in BOOLEAN :
       StartScript(from_date, end_date, force)
  \/ \E d \in Days : Publish(d)
  \/ NextDay \/ Crash

Spec == Init /\ [][Next]_vars

\* A thread that can take its next step does, and a provider that was asked
\* answers or fails. The script, too, runs to its end.
Fairness ==
  /\ \A w \in Workers : WF_vars(Proceed(w) \/ ProviderFails(w))
  /\ WF_vars(ScriptReads \/ ScriptFetches \/ Truncate(Script) \/ WriteRest(Script))

FairSpec == Spec /\ Fairness

-----------------------------------------------------------------------------
(* Properties *)

\* Every variable has its type; _sync_lock is held by exactly the request that
\* is between its bounds and its last write.
TypeOK ==
  /\ today \in Days
  /\ published \subseteq Traded
  /\ file \in File
  /\ sync_lock \in Workers \cup {Nobody}
  /\ \A w \in Workers :
       sync_lock = w <=> job[w].step \in {"fetch", "read", "truncate", "write"}
  /\ job \in [Writers -> JobType]
  /\ owed \subseteq Days
  /\ requests \in 0 .. MaxRequests
  /\ scripts \in 0 .. MaxScripts
  /\ faults \in 0 .. MaxFaults

\* "fetches the missing tail ... merges the new rows into the CSV file": between
\* two dates of the file no session is absent, at any moment: while the file is
\* written, and after a crash or a failed write. Only the latest date is ever
\* compared, so such a hole would never be filled.
Contiguous ==
  \A c \in dates(file), e \in dates(file), d \in Traded :
    c < d /\ d < e => d \in dates(file)

\* A response read while another request rewrites the file, or after a cut
\* write, lacks at most the latest bars of its range: it never has a hole.
AnswersHaveNoHole ==
  \A w \in Workers : At(w, "done") =>
    \A c \in job[w].answer, d \in Traded \cap effective_range(job[w]) :
      d < c => d \in job[w].answer

\* What the file holds once the write in progress is complete.
Content ==
  IF \E w \in Writers : At(w, "write")
  THEN UNION {dates(job[w].rows) : w \in {v \in Writers : At(v, "write")}}
  ELSE dates(file)

\* A sync that succeeded leaves each bar of its range that the provider had in
\* the file, or found it there; no later sync or run of the script without
\* --force loses it, and after a cut write the next sync catches up.
CaughtUp == owed \subseteq Content

\* Every request ends: _sync_lock is released on every path.
SyncsFinish ==
  \A w \in Workers :
    job[w].step \notin {"idle", "done"} ~> job[w].step \in {"idle", "done"}
=============================================================================
