------------------------ MODULE LocalCacheSyncProofs ------------------------
(***************************************************************************)
(* Proofs about LocalCacheSync, for every set of workers, calendar, list   *)
(* date and horizon, and without its bounds on requests, runs and faults:  *)
(* the lock, and, where requests and script all start from one date, that  *)
(* the file and the answers have no hole and no bar is lost.               *)
(***************************************************************************)
EXTENDS LocalCacheSync, TLAPS

USE LocalCacheAssumption

-----------------------------------------------------------------------------
(* Types, the lock, and who may run beside whom.                           *)

WorldOK ==
  /\ today \in Days
  /\ published \subseteq Traded
  /\ file \in File
  /\ owed \subseteq Days
  /\ requests \in 0 .. MaxRequests
  /\ scripts \in 0 .. MaxScripts
  /\ faults \in 0 .. MaxFaults

Busy == {"fetch", "read", "truncate", "write"}
ScriptSteps == {"idle", "read", "fetch", "truncate", "write"}

LockOK ==
  /\ sync_lock \in Workers \cup {Nobody}
  /\ \A w \in Workers : sync_lock = w <=> job[w].step \in Busy

\* A request or run that has begun asks from one of the dates; only the script
\* has --force, and it takes no lock.
KindOK(w, j) ==
  /\ j.step # "idle" => j.from_date \in FromDates
  /\ w = Script => j.step \in ScriptSteps
  /\ w \in Workers => ~j.force

JobsOK == job \in [Writers -> JobType] /\ \A w \in Writers : KindOK(w, job[w])

\* While the script runs, no request does.
Alone ==
  ~At(Script, "idle") => \A w \in Workers : job[w].step \in {"idle", "done"}

BaseInv == WorldOK /\ LockOK /\ JobsOK /\ Alone

LEMMA BaseTypes == BaseInv => TypeOK
BY DEF BaseInv, WorldOK, LockOK, JobsOK, TypeOK, Busy

\* A file that is merged with rows is a file, and so is each part of a file.
LEMMA FileTypes ==
  ASSUME NEW f \in File
  PROVE  /\ EmptyFile \in File
         /\ dates(f) \subseteq Days
         /\ \A F \in SUBSET Days : Merged(f, F) \in File
         /\ Part(f) \subseteq File
<1>1. EmptyFile \in File /\ dates(f) \subseteq Days
  BY DEF File, EmptyFile, dates
<1>2. \A F \in SUBSET Days : Merged(f, F) \in File
  BY DEF File, Merged
<1>3. Part(f) \subseteq File
  <2> DEFINE UpTo(D) == [whole |-> f.whole \cap D, broken |-> f.broken \cap D,
                         garbled |-> FALSE]
  <2>1. SUFFICES ASSUME NEW p, NEW q \in Part(f),
                        p \in File,
                        \/ q = p
                        \/ q = [p EXCEPT !.garbled = dates(p) # dates(f)]
                        \/ \E d \in dates(f) : q = [p EXCEPT !.broken = @ \cup {d}]
                 PROVE  q \in File
    <3>1. ASSUME NEW D PROVE UpTo(D) \in File
      BY DEF File
    <3> QED BY <2>1, <3>1 DEF Part
  <2>2. ASSUME NEW d \in dates(f) PROVE [p EXCEPT !.broken = @ \cup {d}] \in File
    BY <1>1, <2>1 DEF File
  <2>3. [p EXCEPT !.garbled = dates(p) # dates(f)] \in File
    BY <2>1 DEF File
  <2> QED BY <2>1, <2>2, <2>3
<1> QED BY <1>1, <1>2, <1>3

LEMMA NoJobType == NoJob \in JobType /\ NoJob.step = "idle" /\ ~NoJob.force
<1>1. 1 \in Days
  BY DEF Days
<1>2. EmptyFile \in File
  BY DEF File, EmptyFile
<1> QED BY <1>1, <1>2 DEF NoJob, JobType, Steps

\* What the steps keep of the job before.
Same(k, j) == k.from_date = j.from_date /\ k.to_date = j.to_date /\ k.force = j.force

\* What a step does to the lock: nothing, take it or give it up.
LockStep(w, j) ==
  \/ UNCHANGED sync_lock /\ (w \in Workers => (j.step \in Busy <=> job[w].step \in Busy))
  \/ w \in Workers /\ sync_lock = Nobody /\ sync_lock' = w /\ j.step \in Busy
  \/ Release(w) /\ (w \in Workers => j.step \notin Busy)

\* A job begins only where it may run.
MayRun(w, j) ==
  \/ j.step \in {"idle", "done"} \/ job[w].step \notin {"idle", "done"}
  \/ w \in Workers /\ At(Script, "idle")
  \/ w = Script /\ \A v \in Workers : job[v].step \in {"idle", "done"}

\* So only the job a step replaces has to be looked at.
LEMMA BaseUpdate ==
  ASSUME BaseInv, NEW w \in Writers, NEW j \in JobType, Update(w, j), KindOK(w, j),
         LockStep(w, j), MayRun(w, j), WorldOK'
  PROVE  BaseInv'
<1>1. job \in [Writers -> JobType] /\ Script \in Writers /\ Workers \subseteq Writers
  BY DEF BaseInv, JobsOK, Writers
<1>2. job'[w] = j /\ \A v \in Writers \ {w} : job'[v] = job[v]
  BY <1>1 DEF Update
<1>3. JobsOK'
  BY <1>1, <1>2 DEF BaseInv, JobsOK, Update
<1>4. LockOK'
  <2>1. sync_lock \in Workers \cup {Nobody}
        /\ \A v \in Workers : sync_lock = v <=> job[v].step \in Busy
    BY DEF BaseInv, LockOK
  <2>2. Nobody \notin Workers /\ Script \notin Workers
    BY DEF Writers
  <2>3. CASE UNCHANGED sync_lock /\ (w \in Workers => (j.step \in Busy <=> job[w].step \in Busy))
    BY <1>1, <1>2, <2>1, <2>3 DEF LockOK
  <2>4. CASE w \in Workers /\ sync_lock = Nobody /\ sync_lock' = w /\ j.step \in Busy
    BY <1>1, <1>2, <2>1, <2>2, <2>4 DEF LockOK
  <2>5. CASE Release(w) /\ (w \in Workers => j.step \notin Busy)
    BY <1>1, <1>2, <2>1, <2>2, <2>5 DEF LockOK, Release, Writers
  <2> QED BY <2>3, <2>4, <2>5 DEF LockStep
<1>5. Alone'
  <2>1. CASE w = Script
    <3>1. j.step \in ScriptSteps
      BY <2>1 DEF KindOK
    <3>2. \A v \in Workers : job'[v] = job[v]
      BY <1>1, <1>2, <2>1 DEF Writers
    <3> QED BY <1>2, <2>1, <3>1, <3>2 DEF BaseInv, Alone, At, MayRun, ScriptSteps
  <2>2. CASE w \in Workers
    <3>1. job'[Script] = job[Script]
      BY <1>1, <1>2, <2>2
    <3> QED BY <1>1, <1>2, <2>2, <3>1 DEF BaseInv, Alone, At, MayRun
  <2> QED BY <2>1, <2>2 DEF Writers
<1> QED BY <1>3, <1>4, <1>5 DEF BaseInv

-----------------------------------------------------------------------------
(* The job each step stores.                                               *)

\* What every step below finds.
LEMMA JobNow ==
  ASSUME BaseInv, NEW w \in Writers
  PROVE  /\ job[w] \in JobType /\ KindOK(w, job[w])
         /\ job[w].fetched \subseteq Days /\ job[w].rows \in File
         /\ job[w].from_date \in Days /\ job[w].to_date \in Days
         /\ file \in File /\ published \subseteq Days /\ owed \subseteq Days
         /\ effective_range(job[w]) \subseteq Days
BY DEF BaseInv, JobsOK, WorldOK, JobType, effective_range

LEMMA StartRequestJob ==
  ASSUME BaseInv, NEW w \in Workers, NEW f \in FromDates, NEW t \in Days,
         StartRequest(w, f, t)
  PROVE  \E k \in JobType :
           /\ Update(w, k) /\ k.from_date = f /\ ~k.force
           /\ k.step \in {"answer", "lock"}
<1>1. PICK s \in {"answer", "lock"} :
        Update(w, [[NoJob EXCEPT !.from_date = f, !.to_date = t] EXCEPT !.step = s])
  BY DEF StartRequest
<1> DEFINE k == [[NoJob EXCEPT !.from_date = f, !.to_date = t] EXCEPT !.step = s]
<1>2. k \in JobType /\ k.from_date = f /\ k.step = s /\ ~k.force
  BY NoJobType DEF JobType, Steps
<1> HIDE DEF k
<1>3. Update(w, k)
  BY <1>1 DEF k
<1> QED BY <1>2, <1>3

LEMMA ReadBoundsJob ==
  ASSUME BaseInv, NEW w \in Writers, ReadBounds(w)
  PROVE  /\ w \in Workers /\ job[w].step = "lock" /\ sync_lock = Nobody
         /\ \/ Update(w, NoJob) /\ UNCHANGED <<sync_lock, owed>>
            \/ /\ \E k \in JobType : Update(w, k) /\ Same(k, job[w]) /\ k.step = "answer"
               /\ cache_hit(file, job[w]) /\ owed' = owed \cup Found(job[w])
               /\ UNCHANGED sync_lock
            \/ /\ \E k \in JobType : Update(w, k) /\ Same(k, job[w]) /\ k.step = "fetch"
               /\ sync_lock' = w /\ UNCHANGED owed
<1> DEFINE k(s) == [job[w] EXCEPT !.step = s]
<1>1. job[w].step = "lock" /\ sync_lock = Nobody /\ w \in Workers
  BY JobNow DEF ReadBounds, At, KindOK, ScriptSteps, Writers
<1>2. \A s \in {"answer", "fetch"} : k(s) \in JobType /\ Same(k(s), job[w]) /\ k(s).step = s
  BY JobNow DEF JobType, Same, Steps
<1>3. \/ Update(w, NoJob) /\ UNCHANGED <<sync_lock, owed>>
      \/ /\ Update(w, k("answer")) /\ cache_hit(file, job[w])
         /\ owed' = owed \cup Found(job[w]) /\ UNCHANGED sync_lock
      \/ Update(w, k("fetch")) /\ sync_lock' = w /\ UNCHANGED owed
  BY DEF ReadBounds
<1> HIDE DEF k
<1> QED BY <1>1, <1>2, <1>3

LEMMA FetchJob ==
  ASSUME BaseInv, NEW w \in Writers, Fetch(w)
  PROVE  /\ w \in Workers /\ job[w].step = "fetch"
         /\ \E k \in JobType :
              /\ Update(w, k) /\ Same(k, job[w]) /\ k.step = "read"
              /\ k.fetched = published \cap missing_tail(file, job[w])
<1> DEFINE F == published \cap missing_tail(file, job[w])
           k == [job[w] EXCEPT !.fetched = F, !.step = "read"]
<1>1. F \subseteq Days
  BY JobNow
<1> HIDE DEF F
<1>2. k \in JobType /\ Same(k, job[w]) /\ k.step = "read" /\ k.fetched = F
  BY <1>1, JobNow DEF JobType, Same, Steps
<1>3. Update(w, k)
  BY DEF Fetch, F
<1> HIDE DEF k
<1> QED BY <1>2, <1>3 DEF Fetch, At, F

LEMMA ReadRowsJob ==
  ASSUME BaseInv, NEW w \in Writers, ReadRows(w)
  PROVE  /\ w \in Workers /\ job[w].step = "read"
         /\ \/ /\ \E k \in JobType : Update(w, k) /\ Same(k, job[w]) /\ k.step = "answer"
               /\ Release(w) /\ owed' = owed \cup Due(job[w], file)
            \/ /\ \E k \in JobType :
                    /\ Update(w, k) /\ Same(k, job[w]) /\ k.step = "truncate"
                    /\ k.rows = Merged(file, job[w].fetched)
               /\ UNCHANGED <<sync_lock, owed>>
<1> DEFINE j == job[w]
           R == Merged(file, j.fetched)
           k == [j EXCEPT !.step = "answer"]
           l == [j EXCEPT !.rows = R, !.step = "truncate"]
<1>1. R \in File
  BY JobNow, FileTypes
<1> HIDE DEF R
<1>2. k \in JobType /\ Same(k, j) /\ k.step = "answer"
  BY JobNow DEF JobType, Same, Steps
<1>3. l \in JobType /\ Same(l, j) /\ l.step = "truncate" /\ l.rows = R
  BY <1>1, JobNow DEF JobType, Same, Steps
<1>4. \/ Update(w, k) /\ Release(w) /\ owed' = owed \cup Due(j, file)
      \/ Update(w, l) /\ UNCHANGED <<sync_lock, owed>>
  BY DEF ReadRows, R
<1> HIDE DEF k, l
<1> QED BY <1>2, <1>3, <1>4 DEF ReadRows, At, R

LEMMA TruncateJob ==
  ASSUME BaseInv, NEW w \in Writers, Truncate(w)
  PROVE  /\ job[w].step = "truncate"
         /\ \E k \in JobType : /\ Update(w, k) /\ Same(k, job[w]) /\ k.step = "write"
                               /\ k.rows = job[w].rows
<1> DEFINE k == [job[w] EXCEPT !.step = "write"]
<1>1. k \in JobType /\ Same(k, job[w]) /\ k.step = "write" /\ k.rows = job[w].rows
  BY JobNow DEF JobType, Same, Steps
<1>2. Update(w, k)
  BY DEF Truncate
<1> HIDE DEF k
<1> QED BY <1>1, <1>2 DEF Truncate, At

LEMMA WriteRestJob ==
  ASSUME BaseInv, NEW w \in Writers, WriteRest(w)
  PROVE  /\ job[w].step = "write"
         /\ \/ w = Script /\ Update(w, NoJob)
            \/ /\ w \in Workers
               /\ \E k \in JobType : Update(w, k) /\ Same(k, job[w]) /\ k.step = "answer"
<1> DEFINE k == [job[w] EXCEPT !.step = "answer"]
<1>1. k \in JobType /\ Same(k, job[w]) /\ k.step = "answer"
  BY JobNow DEF JobType, Same, Steps
<1>2. (w = Script /\ Update(w, NoJob)) \/ (w \in Workers /\ Update(w, k))
  BY DEF WriteRest, Writers
<1> HIDE DEF k
<1> QED BY <1>1, <1>2 DEF WriteRest, At

LEMMA AnswerJob ==
  ASSUME BaseInv, NEW w \in Writers, Answer(w)
  PROVE  /\ w \in Workers /\ job[w].step = "answer"
         /\ \/ Update(w, NoJob)
            \/ /\ \A d \in file.broken :
                    ~(job[w].from_date <= d /\ d <= job[w].to_date)
               /\ \E k \in JobType :
                    /\ Update(w, k) /\ Same(k, job[w]) /\ k.step = "done"
                    /\ k.answer = {d \in file.whole :
                                     job[w].from_date <= d /\ d <= job[w].to_date}
<1> DEFINE j == job[w]
           A == {d \in file.whole : j.from_date <= d /\ d <= j.to_date}
           k == [NoJob EXCEPT !.from_date = j.from_date, !.to_date = j.to_date,
                              !.step = "done", !.answer = A]
<1>1. j.step = "answer" /\ w \in Workers
  BY JobNow DEF Answer, At, KindOK, ScriptSteps, Writers
<1>2. A \subseteq Days
  BY JobNow DEF File
<1>3. \/ Update(w, NoJob)
      \/ /\ Update(w, k)
         /\ \A d \in file.broken : ~(j.from_date <= d /\ d <= j.to_date)
  BY DEF Answer
<1> HIDE DEF A
<1>4. /\ k \in JobType /\ k.from_date = j.from_date /\ k.to_date = j.to_date
      /\ k.step = "done" /\ k.answer = A /\ ~k.force
  BY <1>2, JobNow, NoJobType DEF JobType, Steps
<1>5. Same(k, j)
  <2>1. j.force \in BOOLEAN /\ ~j.force
    BY <1>1, JobNow DEF KindOK, JobType
  <2>2. k.force \in BOOLEAN
    BY <1>4 DEF JobType
  <2> QED BY <1>4, <2>1, <2>2 DEF Same
<1> HIDE DEF k
<1> QED BY <1>1, <1>3, <1>4, <1>5 DEF A

LEMMA StartScriptJob ==
  ASSUME BaseInv, NEW f \in FromDates, NEW t \in Days, NEW b \in BOOLEAN,
         StartScript(f, t, b)
  PROVE  \E k \in JobType :
           Update(Script, k) /\ k.from_date = f /\ k.step = "read"
<1> DEFINE k == [NoJob EXCEPT !.from_date = f, !.to_date = t, !.force = b, !.step = "read"]
<1>1. k \in JobType /\ k.from_date = f /\ k.step = "read"
  BY NoJobType DEF JobType, Steps
<1>2. Update(Script, k)
  BY DEF StartScript
<1> HIDE DEF k
<1> QED BY <1>1, <1>2

LEMMA ScriptReadsJob ==
  ASSUME BaseInv, ScriptReads
  PROVE  /\ job[Script].step = "read"
         /\ \/ Update(Script, NoJob)
            \/ \E k \in JobType :
                 /\ Update(Script, k) /\ Same(k, job[Script]) /\ k.step = "fetch"
                 /\ k.rows = IF k.force THEN EmptyFile ELSE file
                 /\ k.fetched \in {effective_range(k), missing_tail(k.rows, k)}
<1> DEFINE j == job[Script]
           R == IF j.force THEN EmptyFile ELSE file
<1>1. Script \in Writers
  BY DEF Writers
<1>2. R \in File
  BY <1>1, JobNow, FileTypes
<1>3. \/ Update(Script, NoJob)
      \/ \E F \in {effective_range(j), missing_tail(R, j)} :
           Update(Script, [j EXCEPT !.rows = R, !.fetched = F, !.step = "fetch"])
  BY DEF ScriptReads
<1>4. ASSUME NEW F \in {effective_range(j), missing_tail(R, j)},
             Update(Script, [j EXCEPT !.rows = R, !.fetched = F, !.step = "fetch"])
      PROVE  \E k \in JobType :
               /\ Update(Script, k) /\ Same(k, j) /\ k.step = "fetch"
               /\ k.rows = IF k.force THEN EmptyFile ELSE file
               /\ k.fetched \in {effective_range(k), missing_tail(k.rows, k)}
  <2> DEFINE k == [j EXCEPT !.rows = R, !.fetched = F, !.step = "fetch"]
  <2>1. F \subseteq Days
    BY <1>1, JobNow DEF missing_tail
  <2>2. k \in JobType /\ Same(k, j) /\ k.step = "fetch" /\ k.rows = R /\ k.fetched = F
    <3> HIDE DEF R
    <3> QED BY <1>1, <1>2, <2>1, JobNow DEF JobType, Same, Steps
  <2>3. effective_range(k) = effective_range(j) /\ missing_tail(R, k) = missing_tail(R, j)
    BY <2>2 DEF Same, effective_range, missing_tail
  <2>4. Update(Script, k)
    BY <1>4
  <2> HIDE DEF k
  <2> QED BY <2>2, <2>3, <2>4 DEF Same
<1> QED BY <1>3, <1>4 DEF ScriptReads, At

LEMMA ScriptFetchesJob ==
  ASSUME BaseInv, ScriptFetches
  PROVE  /\ job[Script].step = "fetch"
         /\ \E k \in JobType :
              /\ Update(Script, k) /\ Same(k, job[Script]) /\ k.step = "truncate"
              /\ k.rows = Merged(job[Script].rows, published \cap job[Script].fetched)
<1> DEFINE j == job[Script]
           R == Merged(j.rows, published \cap j.fetched)
           k == [j EXCEPT !.rows = R, !.step = "truncate"]
<1>1. Script \in Writers
  BY DEF Writers
<1>2. R \in File
  <2>1. published \cap j.fetched \in SUBSET Days /\ j.rows \in File
    BY <1>1, JobNow
  <2> QED BY <2>1, FileTypes
<1>3. Update(Script, k)
  BY DEF ScriptFetches
<1> HIDE DEF R
<1>4. k \in JobType /\ Same(k, j) /\ k.step = "truncate" /\ k.rows = R
  BY <1>1, <1>2, JobNow DEF JobType, Same, Steps
<1> HIDE DEF k
<1> QED BY <1>3, <1>4 DEF ScriptFetches, At, R

-----------------------------------------------------------------------------
(* Every step keeps the types and the lock.                                *)

\* What is found and stored stays within the dates.
LEMMA BarTypes ==
  ASSUME BaseInv, NEW w \in Writers
  PROVE  /\ Found(job[w]) \subseteq Days
         /\ \A f : Due(job[w], f) \subseteq Days
BY JobNow DEF Found, Due

\* An idle job may replace any that gives up the lock.
LEMMA EndJob ==
  ASSUME BaseInv, NEW w \in Writers, Update(w, NoJob), Release(w), WorldOK'
  PROVE  BaseInv'
<1>1. KindOK(w, NoJob) /\ MayRun(w, NoJob) /\ LockStep(w, NoJob)
  BY NoJobType DEF KindOK, MayRun, LockStep, Busy, ScriptSteps
<1> QED BY <1>1, NoJobType, BaseUpdate

\* A job that goes on from the one before is of its kind.
LEMMA KindStays ==
  ASSUME BaseInv, NEW w \in Writers, NEW k, Same(k, job[w]),
         job[w].step # "idle", w \in Workers \/ k.step \in ScriptSteps
  PROVE  KindOK(w, k)
BY JobNow DEF KindOK, Same, Writers

LEMMA RequestBase ==
  ASSUME BaseInv, NEW w \in Writers,
         ReadBounds(w) \/ Fetch(w) \/ ReadRows(w) \/ Answer(w)
  PROVE  BaseInv'
<1> USE DEF Busy
<1>1. CASE ReadBounds(w)
  <2>1. /\ w \in Workers /\ job[w].step = "lock" /\ sync_lock = Nobody
    BY <1>1, ReadBoundsJob
  <2>2. WorldOK'
    BY <1>1, BarTypes DEF ReadBounds, counters, BaseInv, WorldOK
  <2>3. CASE Update(w, NoJob) /\ UNCHANGED <<sync_lock, owed>>
    <3>1. LockStep(w, NoJob) /\ KindOK(w, NoJob) /\ MayRun(w, NoJob)
      BY <2>1, <2>3, NoJobType DEF LockStep, KindOK, MayRun, ScriptSteps
    <3> QED BY <2>2, <2>3, <3>1, NoJobType, BaseUpdate
  <2>4. CASE \E k \in JobType : Update(w, k) /\ Same(k, job[w]) /\ k.step = "answer"
               /\ UNCHANGED sync_lock
    <3>1. PICK k \in JobType : /\ Update(w, k) /\ Same(k, job[w]) /\ k.step = "answer"
                               /\ UNCHANGED sync_lock
      BY <2>4
    <3>2. LockStep(w, k) /\ KindOK(w, k) /\ MayRun(w, k)
      BY <2>1, <3>1, KindStays DEF LockStep, MayRun
    <3> QED BY <2>2, <3>1, <3>2, BaseUpdate
  <2>5. CASE \E k \in JobType : Update(w, k) /\ Same(k, job[w]) /\ k.step = "fetch"
               /\ sync_lock' = w
    <3>1. PICK k \in JobType : /\ Update(w, k) /\ Same(k, job[w]) /\ k.step = "fetch"
                               /\ sync_lock' = w
      BY <2>5
    <3>2. LockStep(w, k) /\ KindOK(w, k) /\ MayRun(w, k)
      BY <2>1, <3>1, KindStays DEF LockStep, MayRun
    <3> QED BY <2>2, <3>1, <3>2, BaseUpdate
  <2> QED BY <1>1, <2>3, <2>4, <2>5, ReadBoundsJob
<1>2. CASE Fetch(w)
  <2>1. WorldOK' /\ UNCHANGED sync_lock
    BY <1>2 DEF Fetch, counters, BaseInv, WorldOK
  <2>2. PICK k \in JobType : Update(w, k) /\ Same(k, job[w]) /\ k.step = "read"
    BY <1>2, FetchJob
  <2>3. w \in Workers /\ job[w].step = "fetch"
    BY <1>2, FetchJob
  <2>4. LockStep(w, k) /\ KindOK(w, k) /\ MayRun(w, k)
    BY <2>1, <2>2, <2>3, KindStays DEF LockStep, MayRun
  <2> QED BY <2>1, <2>2, <2>4, BaseUpdate
<1>3. CASE ReadRows(w)
  <2>1. WorldOK'
    BY <1>3, BarTypes DEF ReadRows, counters, BaseInv, WorldOK
  <2>2. w \in Workers /\ job[w].step = "read"
    BY <1>3, ReadRowsJob
  <2>3. PICK k \in JobType :
          /\ Update(w, k) /\ Same(k, job[w])
          /\ (k.step = "answer" /\ Release(w)) \/ (k.step = "truncate" /\ UNCHANGED sync_lock)
    BY <1>3, ReadRowsJob
  <2>4. LockStep(w, k) /\ KindOK(w, k) /\ MayRun(w, k)
    BY <2>2, <2>3, KindStays DEF LockStep, MayRun
  <2> QED BY <2>1, <2>3, <2>4, BaseUpdate
<1>4. CASE Answer(w)
  <2>1. WorldOK' /\ UNCHANGED sync_lock
    BY <1>4 DEF Answer, counters, BaseInv, WorldOK
  <2>2. w \in Workers /\ job[w].step = "answer"
    BY <1>4, AnswerJob
  <2>3. CASE Update(w, NoJob)
    <3>1. LockStep(w, NoJob) /\ KindOK(w, NoJob) /\ MayRun(w, NoJob)
      BY <2>1, <2>2, NoJobType DEF LockStep, KindOK, MayRun, ScriptSteps
    <3> QED BY <2>1, <2>3, <3>1, NoJobType, BaseUpdate
  <2>4. CASE \E k \in JobType : Update(w, k) /\ Same(k, job[w]) /\ k.step = "done"
    <3>1. PICK k \in JobType : Update(w, k) /\ Same(k, job[w]) /\ k.step = "done"
      BY <2>4
    <3>2. LockStep(w, k) /\ KindOK(w, k) /\ MayRun(w, k)
      BY <2>1, <2>2, <3>1, KindStays DEF LockStep, MayRun
    <3> QED BY <2>1, <3>1, <3>2, BaseUpdate
  <2> QED BY <1>4, <2>3, <2>4, AnswerJob
<1> QED BY <1>1, <1>2, <1>3, <1>4

LEMMA WriteBase ==
  ASSUME BaseInv, NEW w \in Writers,
         \/ Truncate(w) \/ WriteRest(w) \/ WriteFails(w) \/ ProviderFails(w)
         \/ \E part \in Part(job[w].rows) : WriteChunk(w, part)
  PROVE  BaseInv'
<1> USE DEF Busy
<1>1. CASE Truncate(w)
  <2>1. WorldOK' /\ UNCHANGED sync_lock
    BY <1>1, FileTypes, JobNow DEF Truncate, counters, BaseInv, WorldOK
  <2>2. PICK k \in JobType : Update(w, k) /\ Same(k, job[w]) /\ k.step = "write"
    BY <1>1, TruncateJob
  <2>3. job[w].step = "truncate"
    BY <1>1, TruncateJob
  <2>4. LockStep(w, k) /\ KindOK(w, k) /\ MayRun(w, k)
    BY <2>1, <2>2, <2>3, KindStays DEF LockStep, MayRun, ScriptSteps
  <2> QED BY <2>1, <2>2, <2>4, BaseUpdate
<1>2. CASE WriteRest(w)
  <2>1. WorldOK' /\ Release(w)
    BY <1>2, BarTypes, JobNow DEF WriteRest, counters, BaseInv, WorldOK
  <2>2. CASE Update(w, NoJob)
    BY <2>1, <2>2, EndJob
  <2>3. CASE w \in Workers /\ \E k \in JobType : Update(w, k) /\ Same(k, job[w]) /\ k.step = "answer"
    <3>1. PICK k \in JobType : Update(w, k) /\ Same(k, job[w]) /\ k.step = "answer"
      BY <2>3
    <3>2. job[w].step = "write"
      BY <1>2, WriteRestJob
    <3>3. LockStep(w, k) /\ KindOK(w, k) /\ MayRun(w, k)
      BY <2>1, <2>3, <3>1, <3>2, KindStays DEF LockStep, MayRun
    <3> QED BY <2>1, <3>1, <3>3, BaseUpdate
  <2> QED BY <1>2, <2>2, <2>3, WriteRestJob
<1>3. CASE WriteFails(w)
  <2>1. Update(w, NoJob) /\ Release(w) /\ faults < MaxFaults /\ faults' = faults + 1
        /\ owed' = {} /\ UNCHANGED <<today, published, file, requests, scripts>>
    BY <1>3 DEF WriteFails
  <2>2. faults' \in 0 .. MaxFaults
    BY <2>1 DEF BaseInv, WorldOK
  <2>3. WorldOK'
    BY <2>1, <2>2 DEF BaseInv, WorldOK
  <2> QED BY <2>1, <2>3, EndJob
<1>4. CASE ProviderFails(w)
  <2>1. WorldOK' /\ Update(w, NoJob) /\ Release(w)
    BY <1>4 DEF ProviderFails, counters, BaseInv, WorldOK
  <2> QED BY <2>1, EndJob
<1>5. CASE \E part \in Part(job[w].rows) : WriteChunk(w, part)
  <2>1. UNCHANGED <<today, published, sync_lock, job, owed, counters>> /\ file' \in File
    BY <1>5, FileTypes, JobNow DEF WriteChunk
  <2> QED
    BY <2>1 DEF counters, BaseInv, WorldOK, LockOK, JobsOK, Alone, At
<1> QED BY <1>1, <1>2, <1>3, <1>4, <1>5

LEMMA StartBase ==
  ASSUME BaseInv,
         \/ \E w \in Workers, f \in FromDates, t \in Days : StartRequest(w, f, t)
         \/ \E f \in FromDates, t \in Days, b \in BOOLEAN : StartScript(f, t, b)
  PROVE  BaseInv'
<1>1. CASE \E w \in Workers, f \in FromDates, t \in Days : StartRequest(w, f, t)
  <2>1. PICK w \in Workers, f \in FromDates, t \in Days : StartRequest(w, f, t)
    BY <1>1
  <2>2. /\ job[w].step \in {"idle", "done"} /\ At(Script, "idle") /\ requests < MaxRequests
        /\ requests' = requests + 1
        /\ UNCHANGED <<today, published, file, sync_lock, owed, scripts, faults>>
    BY <2>1 DEF StartRequest
  <2>3. WorldOK'
    <3>1. requests' \in 0 .. MaxRequests
      BY <2>2 DEF BaseInv, WorldOK
    <3> QED BY <2>2, <3>1 DEF BaseInv, WorldOK
  <2>4. PICK k \in JobType : /\ Update(w, k) /\ k.from_date = f /\ ~k.force
                             /\ k.step \in {"answer", "lock"}
    BY <2>1, StartRequestJob
  <2>5. LockStep(w, k) /\ KindOK(w, k) /\ MayRun(w, k)
    BY <2>2, <2>4 DEF LockStep, KindOK, MayRun, Busy
  <2> QED BY <2>3, <2>4, <2>5, BaseUpdate DEF Writers
<1>2. CASE \E f \in FromDates, t \in Days, b \in BOOLEAN : StartScript(f, t, b)
  <2>1. PICK f \in FromDates, t \in Days, b \in BOOLEAN : StartScript(f, t, b)
    BY <1>2
  <2>2. /\ \A w \in Workers : job[w].step \in {"idle", "done"}
        /\ scripts < MaxScripts /\ scripts' = scripts + 1
        /\ UNCHANGED <<today, published, file, sync_lock, owed, requests, faults>>
    BY <2>1 DEF StartScript
  <2>3. WorldOK'
    <3>1. scripts' \in 0 .. MaxScripts
      BY <2>2 DEF BaseInv, WorldOK
    <3> QED BY <2>2, <3>1 DEF BaseInv, WorldOK
  <2>4. PICK k \in JobType : Update(Script, k) /\ k.from_date = f /\ k.step = "read"
    BY <2>1, StartScriptJob
  <2>5. LockStep(Script, k) /\ KindOK(Script, k) /\ MayRun(Script, k)
    BY <2>2, <2>4 DEF LockStep, KindOK, MayRun, ScriptSteps
  <2> QED BY <2>3, <2>4, <2>5, BaseUpdate DEF Writers
<1> QED BY <1>1, <1>2

LEMMA ScriptBase ==
  ASSUME BaseInv, ScriptReads \/ ScriptFetches
  PROVE  BaseInv'
<1>1. Script \in Writers /\ Script \notin Workers
  BY DEF Writers
<1>2. WorldOK' /\ UNCHANGED sync_lock
  BY DEF ScriptReads, ScriptFetches, counters, BaseInv, WorldOK
<1>3. job[Script].step \in {"read", "fetch"}
  BY DEF ScriptReads, ScriptFetches, At
<1>4. CASE Update(Script, NoJob)
  <2>1. LockStep(Script, NoJob) /\ KindOK(Script, NoJob) /\ MayRun(Script, NoJob)
    BY <1>1, <1>2, NoJobType DEF LockStep, KindOK, MayRun, ScriptSteps
  <2> QED BY <1>1, <1>2, <1>4, <2>1, NoJobType, BaseUpdate
<1>5. CASE \E k \in JobType : /\ Update(Script, k) /\ Same(k, job[Script])
                              /\ k.step \in {"fetch", "truncate"}
  <2>1. PICK k \in JobType : /\ Update(Script, k) /\ Same(k, job[Script])
                             /\ k.step \in {"fetch", "truncate"}
    BY <1>5
  <2>2. LockStep(Script, k) /\ KindOK(Script, k) /\ MayRun(Script, k)
    BY <1>1, <1>2, <1>3, <2>1, KindStays DEF LockStep, MayRun, ScriptSteps
  <2> QED BY <1>1, <1>2, <2>1, <2>2, BaseUpdate
<1> QED BY <1>4, <1>5, ScriptReadsJob, ScriptFetchesJob

LEMMA OutsideBase ==
  ASSUME BaseInv, (\E d \in Days : Publish(d)) \/ NextDay \/ Crash \/ UNCHANGED vars
  PROVE  BaseInv'
<1>1. CASE (\E d \in Days : Publish(d)) \/ NextDay \/ UNCHANGED vars
  <2>1. UNCHANGED <<job, sync_lock, file, owed, counters>>
    BY <1>1 DEF Publish, NextDay, vars
  <2>2. published' \subseteq Traded
    BY <1>1 DEF Publish, NextDay, vars, BaseInv, WorldOK
  <2>3. today' \in Days
    <3>1. CASE NextDay
      BY <3>1 DEF NextDay, BaseInv, WorldOK, Days
    <3>2. CASE ~NextDay
      BY <1>1, <3>2 DEF Publish, vars, BaseInv, WorldOK
    <3> QED BY <3>1, <3>2
  <2> QED BY <2>1, <2>2, <2>3 DEF counters, BaseInv, WorldOK, LockOK, JobsOK, Alone, At
<1>2. CASE Crash
  <2>1. /\ job' = [w \in Writers |-> NoJob] /\ sync_lock' = Nobody
        /\ owed' \in {{}, owed} /\ faults < MaxFaults /\ faults' = faults + 1
        /\ UNCHANGED <<today, published, file, requests, scripts>>
    BY <1>2 DEF Crash
  <2>2. faults' \in 0 .. MaxFaults
    BY <2>1 DEF BaseInv, WorldOK
  <2>3. WorldOK'
    BY <2>1, <2>2 DEF BaseInv, WorldOK
  <2>4. Script \in Writers /\ Workers \subseteq Writers /\ Nobody \notin Workers
    BY DEF Writers
  <2>5. JobsOK' /\ Alone'
    BY <2>1, <2>4, NoJobType DEF JobsOK, KindOK, Alone, At, ScriptSteps
  <2>6. LockOK'
    BY <2>1, <2>4, NoJobType DEF LockOK, Busy
  <2> QED BY <2>3, <2>5, <2>6 DEF BaseInv
<1> QED BY <1>1, <1>2

LEMMA BaseInit == Init => BaseInv
<1> SUFFICES ASSUME Init PROVE BaseInv
  OBVIOUS
<1>1. Script \in Writers /\ Workers \subseteq Writers /\ Nobody \notin Workers
  BY DEF Writers
<1>2. JobsOK /\ Alone
  BY <1>1, NoJobType DEF Init, JobsOK, KindOK, Alone, At, ScriptSteps
<1>3. LockOK
  BY <1>1, NoJobType DEF Init, LockOK, Busy
<1>4. WorldOK
  BY DEF Init, WorldOK, File, EmptyFile
<1> QED BY <1>2, <1>3, <1>4 DEF BaseInv

\* The steps, by who takes them.
LEMMA NextSteps ==
  ASSUME [Next]_vars
  PROVE  \/ \E w \in Writers : ReadBounds(w) \/ Fetch(w) \/ ReadRows(w) \/ Answer(w)
         \/ \E w \in Writers :
              \/ Truncate(w) \/ WriteRest(w) \/ WriteFails(w) \/ ProviderFails(w)
              \/ \E part \in Part(job[w].rows) : WriteChunk(w, part)
         \/ \E w \in Workers, f \in FromDates, t \in Days : StartRequest(w, f, t)
         \/ \E f \in FromDates, t \in Days, b \in BOOLEAN : StartScript(f, t, b)
         \/ ScriptReads \/ ScriptFetches
         \/ (\E d \in Days : Publish(d)) \/ NextDay \/ Crash \/ UNCHANGED vars
BY DEF Next, Proceed

LEMMA BaseStep == BaseInv /\ [Next]_vars => BaseInv'
BY NextSteps, RequestBase, WriteBase, StartBase, ScriptBase, OutsideBase

\* Every variable has its type, and _sync_lock is held by exactly the request
\* that is between its bounds and its last write (local_daily_cache_sync.py
\* 263-361).
THEOREM TypeCorrect == Spec => []TypeOK
<1>1. Spec => []BaseInv
  BY BaseInit, BaseStep, PTL DEF Spec
<1> QED BY <1>1, BaseTypes, PTL

-----------------------------------------------------------------------------
(* Files without holes.                                                    *)

\* Requests and script start from one date, the list date when they ask from an
\* earlier one. Without this the file may have holes (the run local_gap).
OneStart ==
  \A f \in FromDates, g \in FromDates : f = g \/ (f <= ListDate /\ g <= ListDate)

\* The sessions from that date, and the sets that hold them up to a last one.
Wanted == {d \in Traded : ListDate <= d /\ \A f \in FromDates : f <= d}
Complete(D) == D \subseteq Wanted /\ \A c \in D, d \in Wanted : d < c => d \in D

\* The provider publishes the sessions in order.
InOrder(P) == P \subseteq Traded /\ \A c \in P, d \in Traded : d < c => d \in P

\* The rows a job will write are complete, and hold those of the file f unless
\* the script gives them up.
RowsOK(w, j, f) ==
  /\ w \in Workers /\ j.step = "read" => Complete(dates(f) \cup j.fetched)
  /\ w = Script /\ j.step = "fetch" =>
       /\ Complete(dates(j.rows))
       /\ j.fetched \in {effective_range(j), missing_tail(j.rows, j)}
       /\ j.force \/ dates(f) \subseteq dates(j.rows)
  /\ j.step \in {"truncate", "write"} => Complete(dates(j.rows))
  /\ j.step = "truncate" => j.force \/ dates(f) \subseteq dates(j.rows)

\* The answer of a request has no hole.
AnswerOK(j) ==
  j.step = "done" =>
    \A c \in j.answer, d \in Traded \cap effective_range(j) : d < c => d \in j.answer

DataInv ==
  /\ InOrder(published)
  /\ Complete(dates(file))
  /\ \A w \in Writers : RowsOK(w, job[w], file) /\ AnswerOK(job[w])

\* The sessions of a request are the wanted ones up to its end.
LEMMA OneRange ==
  ASSUME OneStart, NEW j, j.from_date \in FromDates, NEW d \in Traded
  PROVE  d \in effective_range(j) <=> d \in Wanted /\ d <= j.to_date
<1>1. /\ d \in Days /\ d \in Nat /\ ListDate \in Nat /\ j.from_date \in Nat
      /\ \A f \in FromDates : f \in Nat
  <2>1. \A x \in Days : x \in Nat
    BY DEF Days
  <2> QED BY <2>1
<1>2. ASSUME d \in effective_range(j), NEW f \in FromDates PROVE f <= d
  <2>1. f = j.from_date \/ f <= ListDate
    BY DEF OneStart
  <2>2. j.from_date <= d /\ ListDate <= d
    BY <1>2 DEF effective_range
  <2> QED BY <1>1, <2>1, <2>2
<1>3. d \in effective_range(j) => d \in Wanted /\ d <= j.to_date
  BY <1>2 DEF effective_range, Wanted
<1>4. d \in Wanted /\ d <= j.to_date => d \in effective_range(j)
  BY <1>1 DEF effective_range, Wanted
<1> QED BY <1>3, <1>4

\* Of what the provider has, the whole range or the missing tail completes a
\* file that is complete.
LEMMA AddFetched ==
  ASSUME OneStart, NEW j, j.from_date \in FromDates, j.to_date \in Days,
         NEW P, InOrder(P), NEW f, Complete(dates(f)),
         NEW F \in {effective_range(j), missing_tail(f, j)}
  PROVE  Complete(dates(f) \cup (P \cap F))
<1>1. /\ P \subseteq Traded /\ dates(f) \subseteq Wanted /\ F \subseteq effective_range(j)
  BY DEF InOrder, Complete, missing_tail
<1>2. P \cap F \subseteq Wanted
  BY <1>1, OneRange
<1>3. \A d \in Wanted : d \in Traded /\ d \in Nat
  BY DEF Wanted, Days
<1>4. ASSUME NEW c \in dates(f) \cup (P \cap F), NEW d \in Wanted, d < c
      PROVE  d \in dates(f) \cup (P \cap F)
  <2>1. CASE c \in dates(f)
    BY <1>4, <2>1 DEF Complete
  <2>2. CASE c \in P \cap F
    <3>1. c \in Nat /\ d \in Nat /\ j.to_date \in Nat /\ c <= j.to_date
      BY <1>1, <1>2, <1>3, <2>2 DEF effective_range, Days
    <3>2. d \in P
      BY <1>3, <1>4, <2>2 DEF InOrder
    <3>3. d <= j.to_date
      BY <1>4, <3>1
    <3>4. d \in effective_range(j)
      BY <1>3, <3>3, OneRange
    <3>5. CASE F = effective_range(j)
      BY <3>2, <3>4, <3>5
    <3>6. CASE F = missing_tail(f, j)
      <4>1. CASE \A b \in dates(f) : d > b
        BY <3>2, <3>4, <3>6, <4>1 DEF missing_tail, effective_range
      <4>2. CASE \E b \in dates(f) : ~(d > b)
        <5>1. PICK b \in dates(f) : ~(d > b)
          BY <4>2
        <5>2. b \in Nat
          BY <1>1, <1>3
        <5>3. d = b \/ d < b
          BY <3>1, <5>1, <5>2
        <5> QED BY <5>3 DEF Complete
      <4> QED BY <4>1, <4>2
    <3> QED BY <3>5, <3>6
  <2> QED BY <2>1, <2>2
<1> QED BY <1>1, <1>2, <1>4 DEF Complete

LEMMA MergedDates ==
  ASSUME NEW f, NEW F
  PROVE  dates(Merged(f, F)) = dates(f) \cup F
BY DEF Merged, dates

LEMMA EmptyComplete == dates(EmptyFile) = {} /\ Complete({})
BY DEF EmptyFile, dates, Complete

\* A part of a file holds its dates up to a last one.
LEMMA PartDates ==
  ASSUME NEW f \in File, NEW q \in Part(f)
  PROVE  /\ dates(q) \subseteq dates(f)
         /\ \A d \in dates(q), e \in dates(f) : e < d => e \in dates(q)
<1> DEFINE UpTo(D) == [whole |-> f.whole \cap D, broken |-> f.broken \cap D,
                       garbled |-> FALSE]
           IsPrefix(D) == \A d \in D, e \in dates(f) \ D : d < e
           IsNext(d, D) == \A e \in dates(f) \ D : d <= e
<1>1. \A d \in dates(f) : d \in Nat
  BY DEF dates, File, Days
<1>2. PICK D \in SUBSET dates(f) :
        /\ IsPrefix(D)
        /\ \/ q = UpTo(D)
           \/ q = [UpTo(D) EXCEPT !.garbled = dates(UpTo(D)) # dates(f)]
           \/ \E d \in dates(f) \ dates(UpTo(D)) :
                /\ IsNext(d, dates(UpTo(D)))
                /\ q = [UpTo(D) EXCEPT !.broken = @ \cup {d}]
  <2> DEFINE clean == {UpTo(D) : D \in {E \in SUBSET dates(f) : IsPrefix(E)}}
             Pieces(p) == {p, [p EXCEPT !.garbled = dates(p) # dates(f)]}
                            \cup {[p EXCEPT !.broken = @ \cup {d}] :
                                    d \in {e \in dates(f) \ dates(p) : IsNext(e, dates(p))}}
  <2>1. Part(f) = UNION {Pieces(p) : p \in clean}
    BY DEF Part
  <2>2. PICK p \in clean : q \in Pieces(p)
    BY <2>1
  <2>3. \/ q = p
        \/ q = [p EXCEPT !.garbled = dates(p) # dates(f)]
        \/ \E d \in dates(f) \ dates(p) :
             IsNext(d, dates(p)) /\ q = [p EXCEPT !.broken = @ \cup {d}]
    BY <2>2
  <2>4. PICK D \in SUBSET dates(f) : IsPrefix(D) /\ p = UpTo(D)
    BY <2>2
  <2> HIDE DEF UpTo, IsPrefix, IsNext
  <2> QED BY <2>3, <2>4
<1>3. dates(UpTo(D)) = D
  BY DEF dates
<1>4. CASE q = UpTo(D) \/ q = [UpTo(D) EXCEPT !.garbled = dates(UpTo(D)) # dates(f)]
  <2>1. dates(q) = D
    BY <1>3, <1>4 DEF dates
  <2> QED BY <1>1, <1>2, <2>1
<1>5. CASE \E d \in dates(f) \ dates(UpTo(D)) :
             /\ IsNext(d, dates(UpTo(D)))
             /\ q = [UpTo(D) EXCEPT !.broken = @ \cup {d}]
  <2>1. PICK d \in dates(f) \ D :
          IsNext(d, D) /\ q = [UpTo(D) EXCEPT !.broken = @ \cup {d}]
    BY <1>3, <1>5
  <2>2. q.whole = f.whole \cap D /\ q.broken = (f.broken \cap D) \cup {d}
    BY <2>1
  <2>3. dates(q) = D \cup {d}
    BY <2>2 DEF dates
  <2>4. ASSUME NEW x \in D \cup {d}, NEW e \in dates(f), e < x PROVE e \in D \cup {d}
    <3>1. x \in Nat /\ e \in Nat
      BY <1>1, <2>1
    <3>2. IsPrefix(D)
      BY <1>2
    <3>3. e \notin D => (x \in D => x < e) /\ (x = d => x <= e)
      BY <2>1, <3>2
    <3> HIDE DEF UpTo, IsPrefix, IsNext
    <3> QED BY <2>4, <3>1, <3>3
  <2> QED BY <2>1, <2>3, <2>4
<1> QED BY <1>2, <1>4, <1>5

LEMMA PartComplete ==
  ASSUME NEW f \in File, NEW q \in Part(f), Complete(dates(f))
  PROVE  Complete(dates(q))
BY PartDates DEF Complete

-----------------------------------------------------------------------------
(* Every step keeps the file, the rows to write and the answers whole.     *)

\* One writer at a time is busy.
LEMMA Exclusive ==
  ASSUME BaseInv, NEW w \in Writers, NEW v \in Writers, v # w, job[w].step \in Busy
  PROVE  job[v].step \notin Busy
<1>1. CASE w = Script
  <2>1. v \in Workers /\ ~At(Script, "idle")
    BY <1>1 DEF Writers, At, Busy
  <2> QED BY <2>1 DEF BaseInv, Alone, Busy
<1>2. CASE v = Script
  BY <1>2 DEF Writers, BaseInv, Alone, At, Busy
<1>3. CASE w \in Workers /\ v \in Workers
  BY <1>3 DEF BaseInv, LockOK
<1> QED BY <1>1, <1>2, <1>3 DEF Writers

\* So only the job a step replaces has to be looked at.
LEMMA DataUpdate ==
  ASSUME BaseInv, DataInv, NEW w \in Writers, NEW j, Update(w, j),
         RowsOK(w, j, file'), AnswerOK(j),
         UNCHANGED file \/ (job[w].step \in Busy /\ Complete(dates(file'))),
         UNCHANGED published
  PROVE  DataInv'
<1>1. job'[w] = j /\ \A v \in Writers \ {w} : job'[v] = job[v]
  BY DEF Update, BaseInv, JobsOK
<1>2. InOrder(published') /\ Complete(dates(file'))
  BY DEF DataInv
<1>3. ASSUME NEW v \in Writers, v # w
      PROVE  RowsOK(v, job[v], file') /\ AnswerOK(job[v])
  <2>1. RowsOK(v, job[v], file) /\ AnswerOK(job[v])
    BY DEF DataInv
  <2>2. CASE UNCHANGED file
    BY <2>1, <2>2
  <2>3. CASE job[w].step \in Busy
    <3>1. job[v].step \notin Busy
      BY <1>3, <2>3, Exclusive
    <3> QED BY <2>1, <3>1 DEF RowsOK, Busy
  <2> QED BY <2>2, <2>3
<1> QED BY <1>1, <1>2, <1>3 DEF DataInv

\* A job with nothing to write and nothing answered.
LEMMA Quiet ==
  ASSUME NEW w, NEW j, NEW f, j.step \in {"idle", "lock", "answer"}
  PROVE  RowsOK(w, j, f) /\ AnswerOK(j)
BY DEF RowsOK, AnswerOK

LEMMA QuietUpdate ==
  ASSUME BaseInv, DataInv, NEW w \in Writers, NEW j, Update(w, j),
         j.step \in {"idle", "lock", "answer"}, UNCHANGED <<file, published>>
  PROVE  DataInv'
BY Quiet, DataUpdate

LEMMA RequestData ==
  ASSUME OneStart, BaseInv, DataInv, NEW w \in Writers,
         ReadBounds(w) \/ Fetch(w) \/ ReadRows(w) \/ Answer(w)
  PROVE  DataInv'
<1>1. UNCHANGED <<file, published>>
  BY DEF ReadBounds, Fetch, ReadRows, Answer
<1>2. job[w].step # "idle" => job[w].from_date \in FromDates
  BY JobNow DEF KindOK
<1>3. Script \notin Workers
  BY DEF Writers
<1>4. CASE ReadBounds(w)
  <2>1. PICK k : Update(w, k) /\ k.step \in {"idle", "answer", "fetch"}
    BY <1>4, ReadBoundsJob, NoJobType
  <2>2. w \in Workers
    BY <1>4, ReadBoundsJob
  <2>3. RowsOK(w, k, file) /\ AnswerOK(k)
    BY <1>3, <2>1, <2>2 DEF RowsOK, AnswerOK
  <2> QED BY <1>1, <2>1, <2>3, DataUpdate
<1>5. CASE Fetch(w)
  <2>1. PICK k \in JobType :
          /\ Update(w, k) /\ Same(k, job[w]) /\ k.step = "read"
          /\ k.fetched = published \cap missing_tail(file, job[w])
    BY <1>5, FetchJob
  <2>2. w \in Workers /\ job[w].step = "fetch"
    BY <1>5, FetchJob
  <2>3. Complete(dates(file) \cup k.fetched)
    BY <1>2, <2>1, <2>2, AddFetched, JobNow DEF DataInv
  <2>4. RowsOK(w, k, file) /\ AnswerOK(k)
    BY <1>3, <2>1, <2>2, <2>3 DEF RowsOK, AnswerOK
  <2> QED BY <1>1, <2>1, <2>4, DataUpdate
<1>6. CASE ReadRows(w)
  <2>1. w \in Workers /\ job[w].step = "read"
    BY <1>6, ReadRowsJob
  <2>2. CASE \E k : Update(w, k) /\ k.step = "answer"
    BY <1>1, <2>2, QuietUpdate
  <2>3. CASE \E k \in JobType : /\ Update(w, k) /\ k.step = "truncate"
                                /\ k.rows = Merged(file, job[w].fetched)
    <3>1. PICK k \in JobType : /\ Update(w, k) /\ k.step = "truncate"
                               /\ k.rows = Merged(file, job[w].fetched)
      BY <2>3
    <3>2. Complete(dates(k.rows)) /\ dates(file) \subseteq dates(k.rows)
      BY <2>1, <3>1, MergedDates DEF DataInv, RowsOK
    <3>3. RowsOK(w, k, file) /\ AnswerOK(k)
      BY <3>1, <3>2 DEF RowsOK, AnswerOK
    <3> QED BY <1>1, <3>1, <3>3, DataUpdate
  <2> QED BY <1>6, <2>2, <2>3, ReadRowsJob
<1>7. CASE Answer(w)
  <2>1. w \in Workers /\ job[w].step = "answer"
    BY <1>7, AnswerJob
  <2>2. CASE Update(w, NoJob)
    BY <1>1, <2>2, NoJobType, QuietUpdate
  <2>3. CASE /\ \A d \in file.broken : ~(job[w].from_date <= d /\ d <= job[w].to_date)
             /\ \E k \in JobType :
                  /\ Update(w, k) /\ Same(k, job[w]) /\ k.step = "done"
                  /\ k.answer = {d \in file.whole :
                                   job[w].from_date <= d /\ d <= job[w].to_date}
    <3>1. PICK k \in JobType :
            /\ Update(w, k) /\ Same(k, job[w]) /\ k.step = "done"
            /\ k.answer = {d \in file.whole :
                             job[w].from_date <= d /\ d <= job[w].to_date}
      BY <2>3
    <3>2. ASSUME NEW c \in k.answer, NEW d \in Traded \cap effective_range(k), d < c
          PROVE  d \in k.answer
      <4>1. /\ d \in Wanted /\ c \in dates(file)
            /\ job[w].from_date <= d /\ d <= job[w].to_date
        <5>1. effective_range(k) = effective_range(job[w])
          BY <3>1 DEF Same, effective_range
        <5>2. d \in Wanted
          BY <1>2, <2>1, <3>2, <5>1, OneRange
        <5> QED BY <3>1, <3>2, <5>1, <5>2 DEF effective_range, dates
      <4>2. d \in dates(file)
        BY <3>2, <4>1 DEF DataInv, Complete
      <4> QED BY <2>3, <3>1, <4>1, <4>2 DEF dates
    <3>3. RowsOK(w, k, file) /\ AnswerOK(k)
      BY <3>1, <3>2 DEF RowsOK, AnswerOK
    <3> QED BY <1>1, <3>1, <3>3, DataUpdate
  <2> QED BY <1>7, <2>2, <2>3, AnswerJob
<1> QED BY <1>4, <1>5, <1>6, <1>7

LEMMA WriteData ==
  ASSUME BaseInv, DataInv, NEW w \in Writers,
         \/ Truncate(w) \/ WriteRest(w) \/ WriteFails(w) \/ ProviderFails(w)
         \/ \E part \in Part(job[w].rows) : WriteChunk(w, part)
  PROVE  DataInv'
<1>1. RowsOK(w, job[w], file)
  BY DEF DataInv
<1>2. CASE Truncate(w)
  <2>1. PICK k \in JobType : Update(w, k) /\ k.step = "write" /\ k.rows = job[w].rows
    BY <1>2, TruncateJob
  <2>2. job[w].step = "truncate" /\ file' = EmptyFile /\ UNCHANGED published
    BY <1>2 DEF Truncate, At
  <2>3. RowsOK(w, k, file') /\ AnswerOK(k)
    BY <1>1, <2>1, <2>2 DEF RowsOK, AnswerOK
  <2> QED BY <2>1, <2>2, <2>3, EmptyComplete, DataUpdate DEF Busy
<1>3. CASE WriteRest(w)
  <2>1. PICK k : Update(w, k) /\ k.step \in {"idle", "answer"}
    BY <1>3, WriteRestJob, NoJobType
  <2>2. job[w].step = "write" /\ file' = job[w].rows /\ UNCHANGED published
    BY <1>3 DEF WriteRest, At
  <2>3. Complete(dates(file'))
    BY <1>1, <2>2 DEF RowsOK
  <2> QED BY <2>1, <2>2, <2>3, Quiet, DataUpdate DEF Busy
<1>4. CASE WriteFails(w) \/ ProviderFails(w)
  <2>1. Update(w, NoJob) /\ UNCHANGED <<file, published>>
    BY <1>4 DEF WriteFails, ProviderFails
  <2> QED BY <2>1, NoJobType, QuietUpdate
<1>5. CASE \E part \in Part(job[w].rows) : WriteChunk(w, part)
  <2>1. /\ file' \in Part(job[w].rows) /\ job[w].step = "write"
        /\ UNCHANGED <<job, published>>
    BY <1>5 DEF WriteChunk, At
  <2>2. Complete(dates(file'))
    BY <1>1, <2>1, PartComplete, JobNow DEF RowsOK
  <2>3. Update(w, job[w])
    BY <2>1 DEF Update, BaseInv, JobsOK
  <2>4. RowsOK(w, job[w], file') /\ AnswerOK(job[w])
    BY <1>1, <2>1 DEF RowsOK, AnswerOK
  <2> QED BY <2>1, <2>2, <2>3, <2>4, DataUpdate DEF Busy
<1> QED BY <1>2, <1>3, <1>4, <1>5

LEMMA StartData ==
  ASSUME BaseInv, DataInv,
         \/ \E w \in Workers, f \in FromDates, t \in Days : StartRequest(w, f, t)
         \/ \E f \in FromDates, t \in Days, b \in BOOLEAN : StartScript(f, t, b)
  PROVE  DataInv'
<1>1. CASE \E w \in Workers, f \in FromDates, t \in Days : StartRequest(w, f, t)
  <2>1. PICK w \in Workers, f \in FromDates, t \in Days : StartRequest(w, f, t)
    BY <1>1
  <2>2. PICK k : Update(w, k) /\ k.step \in {"answer", "lock"}
    BY <2>1, StartRequestJob
  <2>3. UNCHANGED <<file, published>> /\ w \in Writers
    BY <2>1 DEF StartRequest, Writers
  <2> QED BY <2>2, <2>3, QuietUpdate
<1>2. CASE \E f \in FromDates, t \in Days, b \in BOOLEAN : StartScript(f, t, b)
  <2>1. PICK f \in FromDates, t \in Days, b \in BOOLEAN : StartScript(f, t, b)
    BY <1>2
  <2>2. PICK k : Update(Script, k) /\ k.step = "read"
    BY <2>1, StartScriptJob
  <2>3. UNCHANGED <<file, published>> /\ Script \in Writers /\ Script \notin Workers
    BY <2>1 DEF StartScript, Writers
  <2>4. RowsOK(Script, k, file) /\ AnswerOK(k)
    BY <2>2, <2>3 DEF RowsOK, AnswerOK
  <2> QED BY <2>2, <2>3, <2>4, DataUpdate
<1> QED BY <1>1, <1>2

LEMMA ScriptData ==
  ASSUME OneStart, BaseInv, DataInv, ScriptReads \/ ScriptFetches
  PROVE  DataInv'
<1>1. Script \in Writers /\ Script \notin Workers
  BY DEF Writers
<1>2. UNCHANGED <<file, published>>
  BY DEF ScriptReads, ScriptFetches
<1>3. CASE Update(Script, NoJob)
  BY <1>1, <1>2, <1>3, NoJobType, QuietUpdate
<1>4. CASE \E k \in JobType :
             /\ Update(Script, k) /\ k.step = "fetch"
             /\ k.rows = IF k.force THEN EmptyFile ELSE file
             /\ k.fetched \in {effective_range(k), missing_tail(k.rows, k)}
  <2>1. PICK k \in JobType :
          /\ Update(Script, k) /\ k.step = "fetch"
          /\ k.rows = IF k.force THEN EmptyFile ELSE file
          /\ k.fetched \in {effective_range(k), missing_tail(k.rows, k)}
    BY <1>4
  <2>2. Complete(dates(k.rows)) /\ (k.force \/ dates(file) \subseteq dates(k.rows))
    BY <2>1, EmptyComplete DEF DataInv
  <2>3. RowsOK(Script, k, file) /\ AnswerOK(k)
    BY <1>1, <2>1, <2>2 DEF RowsOK, AnswerOK
  <2> QED BY <1>1, <1>2, <2>1, <2>3, DataUpdate
<1>5. CASE ScriptFetches
  <2> DEFINE j == job[Script]
  <2>1. PICK k \in JobType :
          /\ Update(Script, k) /\ Same(k, j) /\ k.step = "truncate"
          /\ k.rows = Merged(j.rows, published \cap j.fetched)
    BY <1>5, ScriptFetchesJob
  <2>2. /\ Complete(dates(j.rows)) /\ j.fetched \in {effective_range(j), missing_tail(j.rows, j)}
        /\ j.force \/ dates(file) \subseteq dates(j.rows)
    BY <1>1, <1>5 DEF ScriptFetches, At, DataInv, RowsOK
  <2>3. j.from_date \in FromDates /\ j.to_date \in Days
    BY <1>1, <1>5, JobNow DEF ScriptFetches, At, KindOK
  <2>4. Complete(dates(j.rows) \cup (published \cap j.fetched))
    BY <2>2, <2>3, AddFetched DEF DataInv
  <2>5. /\ Complete(dates(k.rows)) /\ (k.force \/ dates(file) \subseteq dates(k.rows))
    <3>1. k.force = j.force /\ k.force \in BOOLEAN /\ j.force \in BOOLEAN
      BY <1>1, <2>1, JobNow DEF Same, JobType
    <3>2. dates(k.rows) = dates(j.rows) \cup (published \cap j.fetched)
      BY <2>1, MergedDates
    <3> QED BY <2>2, <2>4, <3>1, <3>2
  <2>6. RowsOK(Script, k, file) /\ AnswerOK(k)
    BY <1>1, <2>1, <2>5 DEF RowsOK, AnswerOK
  <2> QED BY <1>1, <1>2, <2>1, <2>6, DataUpdate
<1> QED BY <1>3, <1>4, <1>5, ScriptReadsJob

LEMMA OutsideData ==
  ASSUME BaseInv, DataInv, (\E d \in Days : Publish(d)) \/ NextDay \/ Crash \/ UNCHANGED vars
  PROVE  DataInv'
<1>1. CASE \E d \in Days : Publish(d)
  <2>1. PICK d \in Days : Publish(d)
    BY <1>1
  <2>2. /\ d \in Traded \ published /\ \A e \in Traded \ published : d <= e
        /\ published' = published \cup {d} /\ UNCHANGED <<file, job>>
    BY <2>1 DEF Publish
  <2>3. \A e \in Traded : e \in Nat
    BY DEF Days
  <2>4. InOrder(published')
    BY <2>2, <2>3 DEF InOrder, DataInv
  <2> QED BY <2>2, <2>4 DEF DataInv
<1>2. CASE NextDay \/ UNCHANGED vars
  BY <1>2 DEF NextDay, vars, DataInv
<1>3. CASE Crash
  <2>1. job' = [w \in Writers |-> NoJob] /\ UNCHANGED <<file, published>>
    BY <1>3 DEF Crash
  <2> QED BY <2>1, NoJobType, Quiet DEF DataInv
<1> QED BY <1>1, <1>2, <1>3

LEMMA DataInit == Init => DataInv
<1> SUFFICES ASSUME Init PROVE DataInv
  OBVIOUS
<1>1. Complete(dates(file))
  BY EmptyComplete DEF Init
<1>2. InOrder(published)
  <2>1. FirstToday \in Nat /\ \A d \in Traded : d \in Nat
    BY DEF Days
  <2> QED BY <2>1 DEF Init, InOrder
<1>3. \A w \in Writers : RowsOK(w, job[w], file) /\ AnswerOK(job[w])
  BY NoJobType, Quiet DEF Init
<1> QED BY <1>1, <1>2, <1>3 DEF DataInv

LEMMA DataStep == OneStart /\ BaseInv /\ DataInv /\ [Next]_vars => DataInv'
BY NextSteps, RequestData, WriteData, StartData, ScriptData, OutsideData

\* Where all start from one date, no session is absent between two dates of the
\* file, at any moment (local_daily_cache_sync.py 263-384).
THEOREM FileHasNoHole == OneStart => (Spec => []Contiguous)
<1> SUFFICES ASSUME OneStart PROVE Spec => []Contiguous
  OBVIOUS
<1>1. Init => BaseInv /\ DataInv
  BY BaseInit, DataInit
<1>2. BaseInv /\ DataInv /\ [Next]_vars => (BaseInv /\ DataInv)'
  BY BaseStep, DataStep
<1>3. BaseInv /\ DataInv => Contiguous
  <2> SUFFICES ASSUME DataInv, NEW c \in dates(file), NEW e \in dates(file),
                      NEW d \in Traded, c < d, d < e
               PROVE  d \in dates(file)
    BY DEF Contiguous
  <2>1. c \in Wanted /\ Wanted \subseteq Traded
    BY DEF DataInv, Complete, Wanted
  <2>2. \A x \in Days : x \in Nat
    BY DEF Days
  <2>3. c \in Nat /\ d \in Nat /\ ListDate \in Nat /\ \A f \in FromDates : f \in Nat
    BY <2>1, <2>2
  <2>4. ListDate <= c /\ \A f \in FromDates : f <= c
    BY <2>1 DEF Wanted
  <2>5. d \in Wanted
    BY <2>3, <2>4 DEF Wanted
  <2> QED BY <2>5 DEF DataInv, Complete
<1> QED BY <1>1, <1>2, <1>3, PTL DEF Spec

\* Nor in an answer, also one read while another request rewrites the file or
\* after a cut write (local_daily_cache.py 180-218).
THEOREM AnswersAreWhole == OneStart => (Spec => []AnswersHaveNoHole)
<1> SUFFICES ASSUME OneStart PROVE Spec => []AnswersHaveNoHole
  OBVIOUS
<1>1. Init => BaseInv /\ DataInv
  BY BaseInit, DataInit
<1>2. BaseInv /\ DataInv /\ [Next]_vars => (BaseInv /\ DataInv)'
  BY BaseStep, DataStep
<1>3. BaseInv /\ DataInv => AnswersHaveNoHole
  BY DEF DataInv, AnswerOK, AnswersHaveNoHole, At, Writers
<1> QED BY <1>1, <1>2, <1>3, PTL DEF Spec

-----------------------------------------------------------------------------
(* No bar is lost.                                                         *)

\* What is owed is among the rows of a job that is writing, and in the file
\* while none is.
OwedKept ==
  /\ \A w \in Writers : At(w, "write") => owed \subseteq dates(job[w].rows)
  /\ (\A w \in Writers : ~At(w, "write")) => owed \subseteq dates(file)

LEMMA OwedCaughtUp == OwedKept => CaughtUp
<1> SUFFICES ASSUME OwedKept, NEW d \in owed PROVE d \in Content
  BY DEF CaughtUp
<1>1. CASE \A w \in Writers : ~At(w, "write")
  BY <1>1 DEF OwedKept, Content
<1>2. CASE \E w \in Writers : At(w, "write")
  <2>1. PICK w \in Writers : At(w, "write")
    BY <1>2
  <2>2. d \in dates(job[w].rows)
    BY <2>1 DEF OwedKept
  <2> QED BY <2>1, <2>2 DEF Content
<1> QED BY <1>1, <1>2

\* Due bars are in a complete file.
LEMMA DueInFile ==
  ASSUME OneStart, NEW j, j.from_date \in FromDates, published \subseteq Traded,
         NEW f, Complete(dates(f))
  PROVE  Due(j, f) \subseteq dates(f)
<1> SUFFICES ASSUME NEW d \in Due(j, f) PROVE d \in dates(f)
  OBVIOUS
<1>1. d \in Traded /\ d \in effective_range(j)
  BY DEF Due, Found
<1>2. PICK c \in dates(f) : d <= c
  BY DEF Due
<1>3. d \in Wanted
  BY <1>1, OneRange
<1>4. c \in Nat /\ d \in Nat
  <2>1. \A x \in Days : x \in Nat
    BY DEF Days
  <2> QED BY <1>1, <2>1 DEF Complete, Wanted
<1>5. d = c \/ d < c
  BY <1>2, <1>4
<1> QED BY <1>3, <1>5 DEF Complete

\* A cache hit finds every bar of the range in the file.
LEMMA HitInFile ==
  ASSUME OneStart, NEW j, j.from_date \in FromDates, j.to_date \in Days,
         published \subseteq Traded, NEW f, Complete(dates(f)), cache_hit(f, j)
  PROVE  Found(j) \subseteq dates(f)
<1>1. PICK c \in dates(f) : c >= j.to_date
  BY DEF cache_hit
<1>2. \A x \in Days : x \in Nat
  BY DEF Days
<1>3. c \in Nat
  BY <1>2 DEF Complete, Wanted
<1>4. ASSUME NEW d \in Found(j) PROVE d \in Due(j, f)
  <2>1. d \in Nat /\ j.to_date \in Nat /\ d <= j.to_date
    BY <1>2 DEF Found, effective_range
  <2>2. d <= c
    BY <1>1, <1>3, <2>1
  <2> QED BY <2>2 DEF Due
<1> QED BY <1>4, DueInFile

\* A step between writes: what it adds is in the file.
LEMMA RestingUpdate ==
  ASSUME BaseInv, OwedKept, NEW w \in Writers, NEW j, Update(w, j),
         job[w].step # "write", j.step # "write", UNCHANGED file,
         \/ owed' \subseteq owed
         \/ /\ \A v \in Writers : ~At(v, "write")
            /\ owed' \subseteq owed \cup dates(file)
  PROVE  OwedKept'
<1>1. job'[w] = j /\ \A v \in Writers \ {w} : job'[v] = job[v]
  BY DEF Update, BaseInv, JobsOK
<1>2. \A v \in Writers : At(v, "write") <=> (At(v, "write"))'
  BY <1>1 DEF At
<1>3. \A v \in Writers : At(v, "write") => job'[v] = job[v]
  BY <1>1 DEF At
<1>4. ASSUME NEW v \in Writers, (At(v, "write"))' PROVE owed' \subseteq dates(job'[v].rows)
  BY <1>2, <1>3, <1>4 DEF OwedKept
<1>5. ASSUME \A v \in Writers : ~(At(v, "write"))' PROVE owed' \subseteq dates(file')
  BY <1>2, <1>5 DEF OwedKept
<1> QED BY <1>4, <1>5 DEF OwedKept

\* A request that holds the lock, or finds it free, is not beside a writer.
LEMMA NobodyWrites ==
  ASSUME BaseInv, NEW w \in Writers, job[w].step # "write",
         job[w].step \in Busy \/ (job[w].step = "lock" /\ w \in Workers /\ sync_lock = Nobody)
  PROVE  \A v \in Writers : ~At(v, "write")
<1> SUFFICES ASSUME NEW v \in Writers, job[v].step = "write" PROVE FALSE
  BY DEF At
<1>1. CASE job[w].step \in Busy
  BY <1>1, Exclusive DEF Busy
<1>2. CASE job[w].step = "lock" /\ w \in Workers /\ sync_lock = Nobody
  <2>1. CASE v = Script
    BY <1>2, <2>1 DEF BaseInv, Alone, At
  <2>2. CASE v \in Workers
    BY <1>2, <2>2 DEF BaseInv, LockOK, Busy, Writers
  <2> QED BY <2>1, <2>2 DEF Writers
<1> QED BY <1>1, <1>2

LEMMA RequestOwed ==
  ASSUME OneStart, BaseInv, DataInv, OwedKept, NEW w \in Writers,
         ReadBounds(w) \/ Fetch(w) \/ ReadRows(w) \/ Answer(w)
  PROVE  OwedKept'
<1>1. UNCHANGED file
  BY DEF ReadBounds, Fetch, ReadRows, Answer
<1>2. job[w].step # "idle" => job[w].from_date \in FromDates
  BY JobNow DEF KindOK
<1>3. published \subseteq Traded /\ Complete(dates(file)) /\ job[w].to_date \in Days
  BY JobNow DEF DataInv, InOrder
<1>4. CASE ReadBounds(w)
  <2>1. PICK k : Update(w, k) /\ k.step \in {"idle", "answer", "fetch"}
    BY <1>4, ReadBoundsJob, NoJobType
  <2>2. w \in Workers /\ job[w].step = "lock" /\ sync_lock = Nobody
    BY <1>4, ReadBoundsJob
  <2>3. owed' \subseteq owed \cup dates(file)
    BY <1>2, <1>3, <1>4, <2>2, HitInFile, ReadBoundsJob
  <2>4. \A v \in Writers : ~At(v, "write")
    BY <2>2, NobodyWrites
  <2> QED BY <1>1, <2>1, <2>2, <2>3, <2>4, RestingUpdate
<1>5. CASE Fetch(w)
  <2>1. PICK k \in JobType : Update(w, k) /\ k.step = "read"
    BY <1>5, FetchJob
  <2>2. job[w].step = "fetch" /\ owed' = owed
    BY <1>5 DEF Fetch, At
  <2> QED BY <1>1, <2>1, <2>2, RestingUpdate
<1>6. CASE ReadRows(w)
  <2>1. PICK k \in JobType : Update(w, k) /\ k.step \in {"answer", "truncate"}
    BY <1>6, ReadRowsJob
  <2>2. job[w].step = "read"
    BY <1>6, ReadRowsJob
  <2>3. owed' \subseteq owed \cup dates(file)
    BY <1>2, <1>3, <1>6, <2>2, DueInFile, ReadRowsJob
  <2>4. \A v \in Writers : ~At(v, "write")
    BY <2>2, NobodyWrites DEF Busy
  <2> QED BY <1>1, <2>1, <2>2, <2>3, <2>4, RestingUpdate
<1>7. CASE Answer(w)
  <2>1. PICK k : Update(w, k) /\ k.step \in {"idle", "done"}
    BY <1>7, AnswerJob, NoJobType
  <2>2. job[w].step = "answer" /\ owed' = owed
    BY <1>7 DEF Answer, At
  <2> QED BY <1>1, <2>1, <2>2, RestingUpdate
<1> QED BY <1>4, <1>5, <1>6, <1>7

LEMMA WriteOwed ==
  ASSUME OneStart, BaseInv, DataInv, OwedKept, NEW w \in Writers,
         \/ Truncate(w) \/ WriteRest(w) \/ WriteFails(w) \/ ProviderFails(w)
         \/ \E part \in Part(job[w].rows) : WriteChunk(w, part)
  PROVE  OwedKept'
<1>1. \A k, v : Update(w, k) /\ v \in Writers =>
        job'[v] = IF v = w THEN k ELSE job[v]
  BY DEF Update, BaseInv, JobsOK
<1>2. RowsOK(w, job[w], file)
  BY DEF DataInv
<1>3. CASE Truncate(w)
  <2>1. PICK k \in JobType : Update(w, k) /\ k.step = "write" /\ k.rows = job[w].rows
    BY <1>3, TruncateJob
  <2>2. /\ job[w].step = "truncate"
        /\ owed' = IF job[w].force THEN owed \cap dates(job[w].rows) ELSE owed
    BY <1>3 DEF Truncate, At
  <2>3. \A v \in Writers : ~At(v, "write")
    BY <2>2, NobodyWrites DEF Busy
  <2>4. owed \subseteq dates(file)
    BY <2>3 DEF OwedKept
  <2>5. owed' \subseteq dates(job[w].rows)
    BY <1>2, <2>2, <2>4 DEF RowsOK
  <2>6. \A v \in Writers : (At(v, "write"))' => v = w
    BY <1>1, <2>1, <2>3 DEF At
  <2>7. (At(w, "write"))' /\ job'[w].rows = job[w].rows
    BY <1>1, <2>1 DEF At
  <2> QED BY <2>5, <2>6, <2>7 DEF OwedKept
<1>4. CASE WriteRest(w)
  <2>1. PICK k : Update(w, k) /\ k.step \in {"idle", "answer"}
    BY <1>4, WriteRestJob, NoJobType
  <2>2. /\ job[w].step = "write" /\ file' = job[w].rows
        /\ owed' = IF w \in Workers THEN owed \cup Due(job[w], job[w].rows) ELSE owed
    BY <1>4 DEF WriteRest, At
  <2>3. \A v \in Writers : ~(At(v, "write"))'
    BY <1>1, <2>1, <2>2, Exclusive DEF At, Busy
  <2>4. owed \subseteq dates(file')
    BY <2>2 DEF OwedKept, At
  <2>5. Due(job[w], job[w].rows) \subseteq dates(file')
    <3>1. Complete(dates(job[w].rows)) /\ published \subseteq Traded
      BY <1>2, <2>2 DEF RowsOK, DataInv, InOrder
    <3>2. job[w].from_date \in FromDates
      BY <2>2, JobNow DEF KindOK
    <3> QED BY <2>2, <3>1, <3>2, DueInFile
  <2> QED BY <2>2, <2>3, <2>4, <2>5 DEF OwedKept
<1>5. CASE WriteFails(w)
  BY <1>5 DEF WriteFails, OwedKept
<1>6. CASE ProviderFails(w)
  <2>1. Update(w, NoJob) /\ job[w].step = "fetch" /\ UNCHANGED <<file, owed>>
    BY <1>6 DEF ProviderFails, At
  <2> QED BY <2>1, NoJobType, RestingUpdate
<1>7. CASE \E part \in Part(job[w].rows) : WriteChunk(w, part)
  <2>1. job[w].step = "write" /\ UNCHANGED <<job, owed>>
    BY <1>7 DEF WriteChunk, At
  <2> QED BY <2>1 DEF OwedKept, At
<1> QED BY <1>3, <1>4, <1>5, <1>6, <1>7

LEMMA OtherOwed ==
  ASSUME BaseInv, OwedKept,
         \/ \E w \in Workers, f \in FromDates, t \in Days : StartRequest(w, f, t)
         \/ \E f \in FromDates, t \in Days, b \in BOOLEAN : StartScript(f, t, b)
         \/ ScriptReads \/ ScriptFetches
         \/ (\E d \in Days : Publish(d)) \/ NextDay \/ Crash \/ UNCHANGED vars
  PROVE  OwedKept'
<1>1. CASE \E w \in Workers, f \in FromDates, t \in Days : StartRequest(w, f, t)
  <2>1. PICK w \in Workers, f \in FromDates, t \in Days : StartRequest(w, f, t)
    BY <1>1
  <2>2. PICK k : Update(w, k) /\ k.step \in {"answer", "lock"}
    BY <2>1, StartRequestJob
  <2>3. /\ UNCHANGED <<file, owed>> /\ w \in Writers /\ job[w].step \in {"idle", "done"}
    BY <2>1 DEF StartRequest, Writers
  <2> QED BY <2>2, <2>3, RestingUpdate
<1>2. CASE \E f \in FromDates, t \in Days, b \in BOOLEAN : StartScript(f, t, b)
  <2>1. PICK f \in FromDates, t \in Days, b \in BOOLEAN : StartScript(f, t, b)
    BY <1>2
  <2>2. PICK k : Update(Script, k) /\ k.step = "read"
    BY <2>1, StartScriptJob
  <2>3. UNCHANGED <<file, owed>> /\ Script \in Writers /\ job[Script].step = "idle"
    BY <2>1 DEF StartScript, Writers, At
  <2> QED BY <2>2, <2>3, RestingUpdate
<1>3. CASE ScriptReads \/ ScriptFetches
  <2>1. PICK k : Update(Script, k) /\ k.step \in {"idle", "fetch", "truncate"}
    BY <1>3, ScriptReadsJob, ScriptFetchesJob, NoJobType
  <2>2. /\ UNCHANGED <<file, owed>> /\ Script \in Writers
        /\ job[Script].step \in {"read", "fetch"}
    BY <1>3 DEF ScriptReads, ScriptFetches, Writers, At
  <2> QED BY <2>1, <2>2, RestingUpdate
<1>4. CASE (\E d \in Days : Publish(d)) \/ NextDay \/ UNCHANGED vars
  <2>1. UNCHANGED <<file, owed, job>>
    BY <1>4 DEF Publish, NextDay, vars
  <2> QED BY <2>1 DEF OwedKept, At
<1>5. CASE Crash
  <2>1. /\ job' = [w \in Writers |-> NoJob] /\ UNCHANGED file
        /\ owed' = IF \E w \in Writers : At(w, "write") THEN {} ELSE owed
    BY <1>5 DEF Crash
  <2>2. \A w \in Writers : ~(At(w, "write"))'
    BY <2>1, NoJobType DEF At
  <2>3. owed' \subseteq dates(file)
    BY <2>1 DEF OwedKept
  <2> QED BY <2>1, <2>2, <2>3 DEF OwedKept
<1> QED BY <1>1, <1>2, <1>3, <1>4, <1>5

LEMMA OwedStep == OneStart /\ BaseInv /\ DataInv /\ OwedKept /\ [Next]_vars => OwedKept'
BY NextSteps, RequestOwed, WriteOwed, OtherOwed

\* Each bar that a sync which succeeded found or stored stays in the file, or
\* among the rows being written, until a write fails or --force gives it up
\* (local_daily_cache_sync.py 263-384).
THEOREM NoBarIsLost == OneStart => (Spec => []CaughtUp)
<1> SUFFICES ASSUME OneStart PROVE Spec => []CaughtUp
  OBVIOUS
<1> DEFINE Inv == BaseInv /\ DataInv /\ OwedKept
<1>1. Init => Inv
  <2>1. Init => OwedKept
    BY DEF Init, OwedKept
  <2> QED BY <2>1, BaseInit, DataInit
<1>2. Inv /\ [Next]_vars => Inv'
  BY BaseStep, DataStep, OwedStep
<1>3. Inv => CaughtUp
  BY OwedCaughtUp
<1> HIDE DEF Inv
<1> QED BY <1>1, <1>2, <1>3, PTL DEF Spec
=============================================================================
