-------------------------- MODULE BaoStockSession --------------------------
(***************************************************************************)
(* The requests of POST /stocks/{symbol}/prices/sync around the session    *)
(* of the baostock library, of which the server process has one.           *)
(* Database requests use BaoStockHistoryClient                             *)
(* (scanner/ingestion/baostock_provider.py), cache requests                *)
(* BaoStockQfqDailyClient (local_daily_cache_sync.py).  Each class has a   *)
(* lock of its own, and both redirect the process's sys.stdout while they  *)
(* log in and out.  A database request also holds a connection of the      *)
(* engine's pool: while it waits for the lock, and again for its answer.   *)
(***************************************************************************)
EXTENDS Naturals, FiniteSets

CONSTANTS DatabaseRequests, CacheRequests,
          PoolSize,    \* connections the engine lends at a time
          NoRequest,
          Stdout       \* the sys.stdout the process started with

Requests == DatabaseRequests \cup CacheRequests
Classes == {"history", "qfq"}

ASSUME SessionAssumption ==
  /\ DatabaseRequests \cap CacheRequests = {}
  /\ NoRequest \notin Requests /\ Stdout \notin Requests
  /\ PoolSize \in Nat \ {0}

VARIABLES
  step,         \* what each request does next
  logged_in,    \* the requests whose client has _logged_in set
  session_lock, \* for each client class, the request whose client holds it
  sync_lock,    \* holder of LocalDailyCacheSynchronizer._sync_lock
  session,      \* the request that logged in last, unless logged out since
  stdout,       \* sys.stdout: the original or the buffer of a request
  saved,        \* what each request's redirect_stdout will restore
  connected,    \* the requests that hold a database connection
  failing,      \* the cache requests whose client has raised an exception
  crossed,      \* history: open sessions that a client of the other class touched
  mixed         \* history: redirections of both classes were open at once

sessionVars == <<logged_in, session, crossed>>
stdoutVars == <<stdout, saved, mixed>>
vars == <<step, session_lock, sync_lock, connected, failing, sessionVars, stdoutVars>>

Class(r) == IF r \in DatabaseRequests THEN "history" ELSE "qfq"

Steps == {"idle", "resolve", "sync_lock", "lock", "logging_in", "query", "store",
          "answer", "close", "logging_out", "teardown", "done"}

TypeOK ==
  /\ step \in [Requests -> Steps]
  /\ logged_in \subseteq Requests
  /\ session_lock \in [Classes -> Requests \cup {NoRequest}]
  /\ sync_lock \in CacheRequests \cup {NoRequest}
  /\ session \in Requests \cup {NoRequest}
  /\ stdout \in Requests \cup {Stdout} /\ saved \in [Requests -> Requests \cup {Stdout}]
  /\ connected \subseteq DatabaseRequests /\ Cardinality(connected) <= PoolSize
  /\ failing \subseteq CacheRequests
  /\ crossed \subseteq logged_in /\ mixed \in BOOLEAN

Init ==
  /\ step = [r \in Requests |-> "idle"]
  /\ session_lock = [c \in Classes |-> NoRequest]
  /\ sync_lock = NoRequest /\ connected = {} /\ failing = {}
  /\ logged_in = {} /\ session = NoRequest /\ crossed = {}
  /\ stdout = Stdout /\ saved = [r \in Requests |-> Stdout] /\ mixed = FALSE

At(r, s) == step[r] = s
Goto(r, s) == step' = [step EXCEPT ![r] = s]
Released(lock, r) == IF lock = r THEN NoRequest ELSE lock

\* The exception ends the work under the synchroniser's lock.
Raise(r) == failing' = failing \cup ({r} \cap CacheRequests)

-----------------------------------------------------------------------------
(* Before the client is used *)

\* A stock of the manifest is served by the cache, another by the database.
Start(r) ==
  /\ At(r, "idle")
  /\ Goto(r, IF r \in CacheRequests THEN "sync_lock" ELSE "resolve")
  /\ UNCHANGED <<session_lock, sync_lock, connected, failing, sessionVars, stdoutVars>>

\* The first statement of a transaction takes a connection of the pool.
CheckOut(r) ==
  /\ Cardinality(connected) < PoolSize
  /\ connected' = connected \cup {r}

\* The stock and its coverage: a covered range needs no provider.
ReadCoverage(r) ==
  /\ At(r, "resolve") /\ CheckOut(r)
  /\ Goto(r, "answer") \/ Goto(r, "lock")
  /\ UNCHANGED <<failing, session_lock, sync_lock, sessionVars, stdoutVars>>

\* Defect used to test RequestsFinish: a checkout that waits forever.
NeverTimesOut(r) == FALSE /\ UNCHANGED vars

\* The engine's pool_timeout, at the first statement or at the answer's.
CheckOutTimesOut(r) ==
  /\ At(r, "resolve") \/ At(r, "answer")
  /\ r \in DatabaseRequests \ connected /\ Cardinality(connected) >= PoolSize
  /\ Goto(r, "close")
  /\ UNCHANGED <<session_lock, sync_lock, connected, failing, sessionVars, stdoutVars>>

\* The cached dates are read under the synchroniser's lock, which a hit releases
\* and a miss holds until the file is rewritten.
ReadBounds(r) ==
  /\ At(r, "sync_lock") /\ sync_lock = NoRequest
  /\ \/ Goto(r, "answer") /\ UNCHANGED sync_lock
     \/ Goto(r, "lock") /\ sync_lock' = r
  /\ UNCHANGED <<session_lock, connected, failing, sessionVars, stdoutVars>>

-----------------------------------------------------------------------------
(* The client: _ensure_login, queries, close *)

Redirecting == {r \in Requests : step[r] \in {"logging_in", "logging_out"}}

\* redirect_stdout keeps the present sys.stdout in the request and replaces it.
Redirect(r) ==
  /\ stdout' = r /\ saved' = [saved EXCEPT ![r] = stdout]
  /\ mixed' = (mixed \/ \E q \in Redirecting : Class(q) # Class(r))

Restore(r) ==
  /\ stdout' = saved[r] /\ saved' = [saved EXCEPT ![r] = Stdout]
  /\ UNCHANGED mixed

\* Defect used to test SessionsAreExclusive: the lock is not waited for.
BeginLoginUnlocked(r) ==
  /\ At(r, "lock")
  /\ session_lock' = [session_lock EXCEPT ![Class(r)] = r]
  /\ Redirect(r)
  /\ Goto(r, "logging_in")
  /\ UNCHANGED <<sync_lock, connected, failing, sessionVars>>

BeginLogin(r) ==
  /\ At(r, "lock") /\ session_lock[Class(r)] = NoRequest
  /\ session_lock' = [session_lock EXCEPT ![Class(r)] = r]
  /\ Redirect(r)
  /\ Goto(r, "logging_in")
  /\ UNCHANGED <<sync_lock, connected, failing, sessionVars>>

\* The open sessions that a login or logout of r touches through the library.
Touched(r) == {q \in logged_in : Class(q) # Class(r)}

\* A login replaces the session of the process, whoever opened it.
LoginSucceeds(r) ==
  /\ At(r, "logging_in")
  /\ Goto(r, "query")
  /\ logged_in' = logged_in \cup {r} /\ session' = r
  /\ crossed' = crossed \cup Touched(r)
  /\ Restore(r)
  /\ UNCHANGED <<session_lock, sync_lock, connected, failing>>

\* Defect used to test StdoutRestored: the redirection is not undone.
LoginFailsRedirected(r) ==
  /\ At(r, "logging_in")
  /\ Goto(r, "close")
  /\ session_lock' = [session_lock EXCEPT ![Class(r)] = NoRequest]
  /\ Raise(r)
  /\ UNCHANGED <<sync_lock, connected, sessionVars, stdoutVars>>

\* An exception or an error code: the lock is released at once.  The library may have
\* given up the session it had, for the connection of the new one.
LoginFails(r) ==
  /\ At(r, "logging_in")
  /\ Goto(r, "close")
  /\ session_lock' = [session_lock EXCEPT ![Class(r)] = NoRequest]
  /\ \/ UNCHANGED <<session, crossed>>
     \/ session' = NoRequest /\ crossed' = crossed \cup Touched(r)
  /\ Restore(r)
  /\ Raise(r)
  /\ UNCHANGED <<sync_lock, connected, logged_in>>

\* The queries of the request; the library uses whatever session there is.
Query(r) ==
  /\ At(r, "query")
  /\ \/ /\ session # NoRequest /\ UNCHANGED failing
        /\ Goto(r, IF r \in CacheRequests THEN "close" ELSE "store")
     \/ Goto(r, "close") /\ Raise(r)
  /\ UNCHANGED <<session_lock, sync_lock, connected, sessionVars, stdoutVars>>

\* upsert_market_data and the coverage.  The commit returns the connection, and
\* so does the rollback of a failure.
Store(r) ==
  /\ At(r, "store")
  /\ connected' = connected \ {r}
  /\ Goto(r, "answer") \/ Goto(r, "close")
  /\ UNCHANGED <<failing, session_lock, sync_lock, sessionVars, stdoutVars>>

\* list_prices: of a covered range in the same transaction, after a commit in a
\* new one.
AnswerFromDatabase(r) ==
  /\ At(r, "answer") /\ r \in DatabaseRequests
  /\ IF r \in connected THEN UNCHANGED connected ELSE CheckOut(r)
  /\ Goto(r, "close")
  /\ UNCHANGED <<failing, session_lock, sync_lock, sessionVars, stdoutVars>>

\* Defect used to test QueriesRunInTheirSession: the lock is released first.
BeginLogoutUnlocked(r) ==
  /\ At(r, "close") /\ r \in logged_in
  /\ session_lock' = [session_lock EXCEPT ![Class(r)] = NoRequest]
  /\ Redirect(r)
  /\ Goto(r, "logging_out")
  /\ UNCHANGED <<sync_lock, connected, failing, sessionVars>>

BeginLogout(r) ==
  /\ At(r, "close") /\ r \in logged_in
  /\ Redirect(r)
  /\ Goto(r, "logging_out")
  /\ UNCHANGED <<session_lock, sync_lock, connected, failing, sessionVars>>

\* The rest of close: the client is done with the session, and the finally
\* clause releases the lock it holds.
LeaveSession(r) ==
  /\ logged_in' = logged_in \ {r}
  /\ session_lock' = [session_lock EXCEPT ![Class(r)] = Released(@, r)]
  /\ Goto(r, "teardown")

\* A logout ends the session of the process, whoever opened it.
Logout(r) ==
  /\ At(r, "logging_out") /\ LeaveSession(r)
  /\ session' = NoRequest
  /\ crossed' = (crossed \cup Touched(r)) \ {r}
  /\ Restore(r)
  /\ UNCHANGED <<sync_lock, connected, failing>>

\* logout raises, before or after the library's session ended.
LogoutFails(r) ==
  /\ At(r, "logging_out") /\ LeaveSession(r)
  /\ \/ crossed' = crossed \ {r} /\ UNCHANGED session
     \/ crossed' = (crossed \cup Touched(r)) \ {r} /\ session' = NoRequest
  /\ Restore(r)
  /\ Raise(r)
  /\ UNCHANGED <<sync_lock, connected>>

NothingToLogOut(r) ==
  /\ At(r, "close") /\ r \notin logged_in
  /\ LeaveSession(r)
  /\ UNCHANGED <<sync_lock, connected, failing, session, crossed, stdoutVars>>

\* The session dependency closes after the provider's; a cache request leaves
\* the synchroniser after rewriting the file, or with the client's exception.
Teardown(r) ==
  /\ At(r, "teardown")
  /\ connected' = connected \ {r}
  /\ sync_lock' = Released(sync_lock, r)
  /\ Goto(r, IF r \in CacheRequests \ failing THEN "answer" ELSE "done")
  /\ failing' = failing \ {r}
  /\ UNCHANGED <<session_lock, sessionVars, stdoutVars>>

AnswerFromCache(r) ==
  /\ At(r, "answer") /\ r \in CacheRequests
  /\ Goto(r, "done")
  /\ UNCHANGED <<session_lock, sync_lock, connected, failing, sessionVars, stdoutVars>>

-----------------------------------------------------------------------------
UseClient(r) ==
  \/ BeginLogin(r) \/ LoginSucceeds(r) \/ LoginFails(r) \/ Query(r)
  \/ BeginLogout(r) \/ Logout(r) \/ LogoutFails(r) \/ NothingToLogOut(r)

Proceed(r) ==
  \/ ReadCoverage(r) \/ CheckOutTimesOut(r) \/ ReadBounds(r)
  \/ UseClient(r)
  \/ Store(r) \/ AnswerFromDatabase(r) \/ Teardown(r) \/ AnswerFromCache(r)

Next == \E r \in Requests : Start(r) \/ Proceed(r)

\* A thread that can go on does; a provider that was asked answers or fails.
Spec == Init /\ [][Next]_vars /\ \A r \in Requests : WF_vars(Proceed(r))

-----------------------------------------------------------------------------
(* Properties *)

\* The lock of a class covers each of its sessions from before the login to
\* after the logout, on every path: the sessions of a class exclude each other.
Abstract == INSTANCE ClientSessions WITH
  open <- [c \in Classes |-> {r \in logged_in : Class(r) = c}]
SessionsAreExclusive == Abstract!Spec

\* A client's queries run in its own login, unless a client of the other class
\* logged in or out meanwhile: no request of its own class, however it ended,
\* takes the session away.
QueriesRunInTheirSession == \A r \in logged_in \ crossed : session = r

\* The redirections of sys.stdout nest or follow each other unless clients of
\* the two classes log in or out at the same time: otherwise, when none is
\* active, the process writes to its own stdout again.
StdoutRestored == Redirecting = {} /\ ~mixed => stdout = Stdout

\* Everyone waiting on everyone ends: the holder of the session lock may need a
\* connection while those who wait for the lock hold all of them, which lasts
\* until the pool's timeout fails the holder.
RequestsFinish == \A r \in Requests : step[r] # "idle" ~> At(r, "done")
=============================================================================
