----------------------- MODULE BaoStockSessionProofs -----------------------
(***************************************************************************)
(* Proofs about BaoStockSession, for every number of requests of both      *)
(* kinds and every size of the pool: type correctness, and the invariant   *)
(* that a client of a class is logged in, or logging in, only while it     *)
(* holds the lock of its class.  From it follow the exclusion of sessions, *)
(* the queries' sessions and the return of stdout.                         *)
(***************************************************************************)
EXTENDS BaoStockSession, FiniteSetTheorems, TLAPS

USE SessionAssumption

LEMMA ClassFacts ==
  /\ \A r \in Requests : Class(r) \in Classes
  /\ \A r \in Requests : r \in DatabaseRequests <=> r \notin CacheRequests
BY DEF Class, Classes, Requests

-----------------------------------------------------------------------------
(* Type correctness *)

\* Only database requests read coverage and store, only cache requests wait for the
\* synchroniser; the pool lends finitely many connections.
KindInv ==
  /\ \A r \in Requests : step[r] \in {"resolve", "store"} => r \in DatabaseRequests
  /\ \A r \in Requests : step[r] = "sync_lock" => r \in CacheRequests

TypeInv == TypeOK /\ IsFiniteSet(connected) /\ KindInv

LEMMA InitType == Init => TypeInv
<1> SUFFICES ASSUME Init PROVE TypeInv
  OBVIOUS
<1>1. IsFiniteSet({}) /\ Cardinality({}) = 0
  BY FS_EmptySet
<1>2. Cardinality(connected) <= PoolSize
  BY <1>1 DEF Init
<1> QED BY <1>1, <1>2 DEF Init, TypeInv, TypeOK, KindInv, Steps, Classes

LEMMA CheckOutType ==
  ASSUME NEW r \in DatabaseRequests, CheckOut(r),
         IsFiniteSet(connected), connected \subseteq DatabaseRequests
  PROVE  /\ connected' \subseteq DatabaseRequests
         /\ IsFiniteSet(connected') /\ Cardinality(connected') <= PoolSize
<1>1. Cardinality(connected) \in Nat
  BY FS_CardinalityType
<1>2. /\ IsFiniteSet(connected \cup {r})
      /\ Cardinality(connected \cup {r}) \in {Cardinality(connected), Cardinality(connected) + 1}
  BY FS_AddElement
<1> QED BY <1>1, <1>2 DEF CheckOut

LEMMA CheckInType ==
  ASSUME NEW r, connected' = connected \ {r},
         IsFiniteSet(connected), connected \subseteq DatabaseRequests,
         Cardinality(connected) <= PoolSize
  PROVE  /\ connected' \subseteq DatabaseRequests
         /\ IsFiniteSet(connected') /\ Cardinality(connected') <= PoolSize
<1>1. Cardinality(connected) \in Nat
  BY FS_CardinalityType
<1>2. /\ IsFiniteSet(connected \ {r})
      /\ Cardinality(connected \ {r}) \in {Cardinality(connected), Cardinality(connected) - 1}
  BY FS_RemoveElement
<1> QED BY <1>1, <1>2

LEMMA NextType ==
  ASSUME TypeInv, [Next]_vars
  PROVE  TypeInv'
<1> USE ClassFacts DEF TypeInv, TypeOK, KindInv, Steps, At, Goto
<1>1. CASE UNCHANGED vars
  BY <1>1 DEF vars, sessionVars, stdoutVars
<1>2. ASSUME NEW r \in Requests, Start(r) PROVE TypeInv'
  BY <1>2 DEF Start, sessionVars, stdoutVars, Requests
<1>3. ASSUME NEW r \in Requests, ReadCoverage(r) PROVE TypeInv'
  <2>1. r \in DatabaseRequests
    BY <1>3 DEF ReadCoverage
  <2>2. /\ connected' \subseteq DatabaseRequests
        /\ IsFiniteSet(connected') /\ Cardinality(connected') <= PoolSize
    BY <1>3, <2>1, CheckOutType DEF ReadCoverage
  <2> QED BY <1>3, <2>2 DEF ReadCoverage, sessionVars, stdoutVars
<1>4. ASSUME NEW r \in Requests, CheckOutTimesOut(r) PROVE TypeInv'
  BY <1>4 DEF CheckOutTimesOut, sessionVars, stdoutVars
<1>5. ASSUME NEW r \in Requests, ReadBounds(r) PROVE TypeInv'
  BY <1>5 DEF ReadBounds, sessionVars, stdoutVars
<1>6. ASSUME NEW r \in Requests, BeginLogin(r) PROVE TypeInv'
  BY <1>6 DEF BeginLogin, Redirect, sessionVars
<1>7. ASSUME NEW r \in Requests, LoginSucceeds(r) PROVE TypeInv'
  BY <1>7 DEF LoginSucceeds, Restore, Touched
<1>8. ASSUME NEW r \in Requests, LoginFails(r) PROVE TypeInv'
  BY <1>8 DEF LoginFails, Restore, Raise, Touched
<1>9. ASSUME NEW r \in Requests, Query(r) PROVE TypeInv'
  BY <1>9 DEF Query, Raise, sessionVars, stdoutVars
<1>10. ASSUME NEW r \in Requests, Store(r) PROVE TypeInv'
  <2>1. /\ connected' \subseteq DatabaseRequests
        /\ IsFiniteSet(connected') /\ Cardinality(connected') <= PoolSize
    BY <1>10, CheckInType DEF Store
  <2> QED BY <1>10, <2>1 DEF Store, sessionVars, stdoutVars
<1>11. ASSUME NEW r \in Requests, AnswerFromDatabase(r) PROVE TypeInv'
  <2>1. /\ connected' \subseteq DatabaseRequests
        /\ IsFiniteSet(connected') /\ Cardinality(connected') <= PoolSize
    BY <1>11, CheckOutType DEF AnswerFromDatabase
  <2> QED BY <1>11, <2>1 DEF AnswerFromDatabase, sessionVars, stdoutVars
<1>12. ASSUME NEW r \in Requests, BeginLogout(r) PROVE TypeInv'
  BY <1>12 DEF BeginLogout, Redirect, sessionVars
<1>13. ASSUME NEW r \in Requests, Logout(r) PROVE TypeInv'
  BY <1>13 DEF Logout, LeaveSession, Released, Restore, Touched
<1>14. ASSUME NEW r \in Requests, LogoutFails(r) PROVE TypeInv'
  BY <1>14 DEF LogoutFails, LeaveSession, Released, Restore, Raise, Touched
<1>15. ASSUME NEW r \in Requests, NothingToLogOut(r) PROVE TypeInv'
  BY <1>15 DEF NothingToLogOut, LeaveSession, Released, stdoutVars
<1>16. ASSUME NEW r \in Requests, Teardown(r) PROVE TypeInv'
  <2>1. /\ connected' \subseteq DatabaseRequests
        /\ IsFiniteSet(connected') /\ Cardinality(connected') <= PoolSize
    BY <1>16, CheckInType DEF Teardown
  <2> QED BY <1>16, <2>1 DEF Teardown, Released, sessionVars, stdoutVars
<1>17. ASSUME NEW r \in Requests, AnswerFromCache(r) PROVE TypeInv'
  BY <1>17 DEF AnswerFromCache, sessionVars, stdoutVars
<1> QED
  BY <1>1, <1>2, <1>3, <1>4, <1>5, <1>6, <1>7, <1>8, <1>9, <1>10, <1>11, <1>12, <1>13,
     <1>14, <1>15, <1>16, <1>17 DEF Next, Proceed, UseClient

\* Every variable of the request threads, the pool and the clients keeps its type, and
\* the pool never lends more connections than it has (sync_stock_prices).
THEOREM TypeCorrect == Spec => []TypeOK
<1>1. Init => TypeInv
  BY InitType
<1>2. TypeInv /\ [Next]_vars => TypeInv'
  BY NextType
<1>3. TypeInv => TypeOK
  BY DEF TypeInv
<1> QED BY <1>1, <1>2, <1>3, PTL DEF Spec

-----------------------------------------------------------------------------
(* The lock of a class covers its sessions *)

\* A client logs in and is logged in under its class's lock; it is not logged in before
\* its login, and is when it logs out.
LockInv ==
  \A r \in Requests :
    /\ r \in logged_in \/ At(r, "logging_in") => session_lock[Class(r)] = r
    /\ step[r] \in {"idle", "resolve", "sync_lock", "lock", "logging_in"} => r \notin logged_in
    /\ At(r, "logging_out") => r \in logged_in

\* A session that no client of the other class touched is that of the library.
SessionInv == TypeInv /\ LockInv /\ QueriesRunInTheirSession

LEMMA InitLock == Init => LockInv /\ QueriesRunInTheirSession
BY DEF Init, LockInv, At, QueriesRunInTheirSession

LEMMA NextLock ==
  ASSUME TypeInv, LockInv, [Next]_vars
  PROVE  LockInv'
<1> USE ClassFacts DEF TypeInv, TypeOK, LockInv, At, Goto, Steps
<1>1. CASE UNCHANGED vars
  BY <1>1 DEF vars, sessionVars, stdoutVars
<1>2. ASSUME NEW r \in Requests, Start(r) PROVE LockInv'
  BY <1>2 DEF Start, sessionVars
<1>3. ASSUME NEW r \in Requests, ReadCoverage(r) PROVE LockInv'
  BY <1>3 DEF ReadCoverage, sessionVars
<1>4. ASSUME NEW r \in Requests, CheckOutTimesOut(r) PROVE LockInv'
  BY <1>4 DEF CheckOutTimesOut, sessionVars
<1>5. ASSUME NEW r \in Requests, ReadBounds(r) PROVE LockInv'
  BY <1>5 DEF ReadBounds, sessionVars
<1>6. ASSUME NEW r \in Requests, BeginLogin(r) PROVE LockInv'
  BY <1>6 DEF BeginLogin, sessionVars
<1>7. ASSUME NEW r \in Requests, LoginSucceeds(r) PROVE LockInv'
  BY <1>7 DEF LoginSucceeds
<1>8. ASSUME NEW r \in Requests, LoginFails(r) PROVE LockInv'
  BY <1>8 DEF LoginFails
<1>9. ASSUME NEW r \in Requests, Query(r) PROVE LockInv'
  BY <1>9 DEF Query, sessionVars
<1>10. ASSUME NEW r \in Requests, Store(r) PROVE LockInv'
  BY <1>10 DEF Store, sessionVars
<1>11. ASSUME NEW r \in Requests, AnswerFromDatabase(r) PROVE LockInv'
  BY <1>11 DEF AnswerFromDatabase, sessionVars
<1>12. ASSUME NEW r \in Requests, BeginLogout(r) PROVE LockInv'
  BY <1>12 DEF BeginLogout, sessionVars
<1>13. ASSUME NEW r \in Requests, Logout(r) \/ LogoutFails(r) \/ NothingToLogOut(r) PROVE LockInv'
  <2>1. LeaveSession(r)
    BY <1>13 DEF Logout, LogoutFails, NothingToLogOut
  <2> QED BY <2>1 DEF LeaveSession, Released
<1>14. ASSUME NEW r \in Requests, Teardown(r) PROVE LockInv'
  BY <1>14 DEF Teardown, sessionVars
<1>15. ASSUME NEW r \in Requests, AnswerFromCache(r) PROVE LockInv'
  BY <1>15 DEF AnswerFromCache, sessionVars
<1> QED
  BY <1>1, <1>2, <1>3, <1>4, <1>5, <1>6, <1>7, <1>8, <1>9, <1>10, <1>11, <1>12, <1>13,
     <1>14, <1>15 DEF Next, Proceed, UseClient

\* Only these steps change a session or what is known of it.
LEMMA SessionSteps ==
  ASSUME [Next]_vars
  PROVE  \/ UNCHANGED <<logged_in, session, crossed>>
         \/ \E r \in Requests : \/ LoginSucceeds(r) \/ LoginFails(r) \/ Logout(r)
                                \/ LogoutFails(r) \/ NothingToLogOut(r)
BY DEF Next, Proceed, UseClient, vars, sessionVars, Start, ReadCoverage, CheckOutTimesOut,
       ReadBounds, BeginLogin, Query, Store, AnswerFromDatabase, BeginLogout,
       Teardown, AnswerFromCache

\* A request that logs in or out is the only one of its class with a session.
LEMMA AloneInClass ==
  ASSUME TypeInv, LockInv, NEW r \in Requests,
         At(r, "logging_in") \/ r \in logged_in,
         NEW q \in logged_in, Class(q) = Class(r)
  PROVE  q = r
BY DEF TypeInv, TypeOK, LockInv

LEMMA NextSession ==
  ASSUME SessionInv, [Next]_vars
  PROVE  QueriesRunInTheirSession'
<1> USE DEF SessionInv, QueriesRunInTheirSession
<1>0. logged_in \subseteq Requests
  BY DEF TypeInv, TypeOK
<1>1. CASE UNCHANGED <<logged_in, session, crossed>>
  BY <1>1
<1>2. ASSUME NEW r \in Requests, LoginSucceeds(r) PROVE QueriesRunInTheirSession'
  <2>1. \A q \in logged_in : Class(q) = Class(r) => q = r
    BY <1>2, AloneInClass DEF LoginSucceeds
  <2> QED BY <1>2, <2>1 DEF LoginSucceeds, Touched
<1>3. ASSUME NEW r \in Requests, Logout(r) \/ LogoutFails(r) PROVE QueriesRunInTheirSession'
  <2>1. r \in logged_in
    BY <1>3 DEF Logout, LogoutFails, LockInv
  <2>2. \A q \in logged_in : Class(q) = Class(r) => q = r
    BY <2>1, AloneInClass
  <2> QED BY <1>3, <2>2 DEF Logout, LogoutFails, LeaveSession, Touched
<1>4. ASSUME NEW r \in Requests, NothingToLogOut(r) PROVE QueriesRunInTheirSession'
  BY <1>4 DEF NothingToLogOut, LeaveSession
<1>5. ASSUME NEW r \in Requests, LoginFails(r) PROVE QueriesRunInTheirSession'
  <2>1. r \notin logged_in
    BY <1>5 DEF LoginFails, LockInv, At
  <2>2. \A q \in logged_in : Class(q) # Class(r)
    BY <1>5, <2>1, AloneInClass DEF LoginFails
  <2> QED BY <1>5, <2>2 DEF LoginFails, Touched
<1> QED BY <1>1, <1>2, <1>3, <1>4, <1>5, SessionSteps

LEMMA SessionInvariant == Spec => []SessionInv
<1>1. Init => SessionInv
  BY InitType, InitLock DEF SessionInv
<1>2. SessionInv /\ [Next]_vars => SessionInv'
  BY NextType, NextLock, NextSession DEF SessionInv
<1> QED BY <1>1, <1>2, PTL DEF Spec

\* The queries of load_open_dates, load_prices and load_daily_rows run in the session
\* their own client opened, unless a client of the other class touched it.
THEOREM QueriesAreSound == Spec => []QueriesRunInTheirSession
<1>1. SessionInv => QueriesRunInTheirSession
  BY DEF SessionInv
<1> QED BY <1>1, SessionInvariant, PTL

-----------------------------------------------------------------------------
(* Sessions of a class exclude each other *)

Open == [c \in Classes |-> {r \in logged_in : Class(r) = c}]

\* Each step opens the only session of its class, closes it, or leaves Open alone.
LEMMA StepRefines ==
  ASSUME SessionInv, [Next]_vars
  PROVE  [Abstract!Next]_Open
<1> USE ClassFacts DEF Open
<1>1. CASE UNCHANGED <<logged_in, session, crossed>>
  BY <1>1
<1>2. ASSUME NEW r \in Requests, LoginSucceeds(r) PROVE [Abstract!Next]_Open
  <2>1. r \notin logged_in /\ logged_in' = logged_in \cup {r}
    BY <1>2 DEF LoginSucceeds, SessionInv, LockInv, At
  <2>2. \A q \in logged_in : Class(q) # Class(r)
    BY <1>2, <2>1, AloneInClass DEF LoginSucceeds, SessionInv, TypeInv, TypeOK
  <2>3. Open[Class(r)] = {}
    BY <2>2
  <2>4. Open' = [Open EXCEPT ![Class(r)] = {r}]
    BY <2>1, <2>2
  <2> QED BY <2>3, <2>4 DEF Abstract!Next, Abstract!OpenSession
<1>3. ASSUME NEW r \in Requests, LeaveSession(r) PROVE [Abstract!Next]_Open
  <2>1. logged_in' = logged_in \ {r}
    BY <1>3 DEF LeaveSession
  <2>2. CASE r \notin logged_in
    BY <2>1, <2>2
  <2>3. CASE r \in logged_in
    <3>1. \A q \in logged_in : Class(q) = Class(r) => q = r
      BY <2>3, AloneInClass DEF SessionInv
    <3>2. Open[Class(r)] # {} /\ Open' = [Open EXCEPT ![Class(r)] = {}]
      BY <2>1, <2>3, <3>1
    <3> QED BY <3>2 DEF Abstract!Next, Abstract!CloseSession
  <2> QED BY <2>2, <2>3
<1>4. ASSUME NEW r \in Requests, LoginFails(r) PROVE [Abstract!Next]_Open
  BY <1>4 DEF LoginFails
<1> QED BY <1>1, <1>2, <1>3, <1>4, SessionSteps DEF Logout, LogoutFails, NothingToLogOut

\* The class-wide locks do what ClientSessions promises, whatever fails: within a
\* class, a session is opened only when none is open (_session_lock).
THEOREM SessionsExclude == Spec => SessionsAreExclusive
<1>1. Init => Abstract!Init
  BY DEF Init, Abstract!Init
<1>2. SessionInv /\ [Next]_vars => [Abstract!Next]_Open
  BY StepRefines
<1> QED BY <1>1, <1>2, SessionInvariant, PTL DEF Spec, SessionsAreExclusive, Abstract!Spec, Open

-----------------------------------------------------------------------------
(* stdout comes back *)

\* Unless both classes redirected at once, at most one redirection is open, and it will
\* restore the process's own stdout.
StdoutInv ==
  ~mixed => \/ Redirecting = {} /\ stdout = Stdout
            \/ \E r \in Requests : Redirecting = {r} /\ saved[r] = Stdout

\* A request that redirects holds the lock of its class.
LEMMA RedirectingLock ==
  ASSUME TypeInv, LockInv, NEW q \in Redirecting
  PROVE  q \in Requests /\ session_lock[Class(q)] = q
BY DEF LockInv, Redirecting, At

\* Only these steps begin or end a redirection.
LEMMA RedirectionSteps ==
  ASSUME TypeInv, [Next]_vars
  PROVE  \/ Redirecting' = Redirecting /\ UNCHANGED stdoutVars
         \/ \E r \in Requests : /\ BeginLogin(r) \/ BeginLogout(r)
                                /\ Redirecting' = Redirecting \cup {r} /\ Redirect(r)
         \/ \E r \in Requests : /\ r \in Redirecting
                                /\ Redirecting' = Redirecting \ {r} /\ Restore(r)
<1> USE DEF Redirecting, TypeInv, TypeOK, At, Goto
<1>1. CASE UNCHANGED vars
  BY <1>1 DEF vars, stdoutVars
<1>2. ASSUME NEW r \in Requests,
             \/ Start(r) \/ ReadCoverage(r) \/ CheckOutTimesOut(r) \/ ReadBounds(r)
             \/ Query(r) \/ Store(r) \/ AnswerFromDatabase(r) \/ NothingToLogOut(r)
             \/ Teardown(r) \/ AnswerFromCache(r)
      PROVE  Redirecting' = Redirecting /\ UNCHANGED stdoutVars
  BY <1>2 DEF Start, ReadCoverage, CheckOutTimesOut, ReadBounds, Query, Store,
              AnswerFromDatabase, NothingToLogOut, LeaveSession, Teardown, AnswerFromCache
<1>3. ASSUME NEW r \in Requests, BeginLogin(r) \/ BeginLogout(r)
      PROVE  Redirecting' = Redirecting \cup {r} /\ Redirect(r)
  BY <1>3 DEF BeginLogin, BeginLogout
<1>4. ASSUME NEW r \in Requests, LoginSucceeds(r) \/ LoginFails(r) \/ Logout(r) \/ LogoutFails(r)
      PROVE  r \in Redirecting /\ Redirecting' = Redirecting \ {r} /\ Restore(r)
  BY <1>4 DEF LoginSucceeds, LoginFails, Logout, LogoutFails, LeaveSession
<1> QED BY <1>1, <1>2, <1>3, <1>4 DEF Next, Proceed, UseClient

LEMMA NextStdout ==
  ASSUME TypeInv, LockInv, StdoutInv, [Next]_vars
  PROVE  StdoutInv'
<1>1. CASE Redirecting' = Redirecting /\ UNCHANGED stdoutVars
  BY <1>1 DEF StdoutInv, stdoutVars
<1>2. ASSUME NEW r \in Requests, BeginLogin(r) \/ BeginLogout(r),
             Redirecting' = Redirecting \cup {r}, Redirect(r)
      PROVE  StdoutInv'
  <2>1. r \notin Redirecting
    BY <1>2 DEF BeginLogin, BeginLogout, At, Redirecting
  <2>2. session_lock[Class(r)] \in {NoRequest, r}
    BY <1>2 DEF BeginLogin, BeginLogout, LockInv
  <2>3. \A q \in Redirecting : Class(q) # Class(r)
    BY <2>1, <2>2, RedirectingLock
  <2>4. ~mixed' => Redirecting = {} /\ ~mixed
    BY <1>2, <2>3 DEF Redirect
  <2>5. ~mixed' => Redirecting' = {r} /\ saved'[r] = Stdout
    BY <1>2, <2>4 DEF StdoutInv, Redirect, TypeInv, TypeOK
  <2> QED BY <2>5 DEF StdoutInv
<1>3. ASSUME NEW r \in Requests, r \in Redirecting, Redirecting' = Redirecting \ {r}, Restore(r)
      PROVE  StdoutInv'
  <2>1. ~mixed' => Redirecting = {r} /\ saved[r] = Stdout
    BY <1>3 DEF StdoutInv, Restore
  <2> QED BY <1>3, <2>1 DEF StdoutInv, Restore
<1> QED BY <1>1, <1>2, <1>3, RedirectionSteps

\* When no client is logging in or out, the process writes to its own stdout, unless
\* clients of both classes did so at the same time (redirect_stdout).
THEOREM StdoutComesBack == Spec => []StdoutRestored
<1>1. Init => StdoutInv
  BY DEF Init, StdoutInv, Redirecting
<1>2. SessionInv /\ StdoutInv /\ [Next]_vars => StdoutInv'
  BY NextStdout DEF SessionInv
<1>3. StdoutInv => StdoutRestored
  BY DEF StdoutInv, StdoutRestored
<1> QED BY <1>1, <1>2, <1>3, SessionInvariant, PTL DEF Spec
=============================================================================
