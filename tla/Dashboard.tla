----------------------------- MODULE Dashboard -----------------------------
(***************************************************************************)
(* The single page of the dashboard (frontend/src/App.tsx): React effects  *)
(* load the stock list, the prices and signals of the selected stock and   *)
(* the detail of a scanner run.  An effect that runs again aborts the      *)
(* requests it had in flight and starts new ones.                          *)
(*                                                                         *)
(* Effects caused by a click run before anything else (React flushes the   *)
(* effects of a discrete event at once).  Those caused by the callback of  *)
(* a promise run later, in a task of their own (`due`), so that an answer  *)
(* to the old request may still be applied in between.                     *)
(*                                                                         *)
(* An abort makes a waiting fetch fail with an AbortError, which the       *)
(* callbacks ignore.  But requestJson (api.ts) catches what goes wrong     *)
(* while it reads the body of an error response: aborted there, a request  *)
(* fails with an ordinary ApiError, which they do not ignore (`stale`).    *)
(***************************************************************************)
EXTENDS Naturals, Sequences

CONSTANTS
  Stocks,
  NoStock,
  Queries,
  FirstQuery,   \* the empty one, of the page as it opens
  FirstOfPage,  \* [q \in Queries -> the first stock of each of its pages]
  Ranges,       \* date ranges the search form accepts
  FirstRange,
  Frequencies,  \* of the chart's bars; only "daily" can be synchronised
  Runs,
  NoRun,
  MaxClicks     \* bound: clicks in a behaviour

ASSUME DashboardAssumption ==
  /\ NoStock \notin Stocks /\ NoRun \notin Runs
  /\ FirstQuery \in Queries /\ FirstRange \in Ranges
  /\ FirstOfPage \in [Queries -> Seq(Stocks)]
  /\ "daily" \in Frequencies
  /\ MaxClicks \in Nat

VARIABLES
  search,    \* activeQuery, the page of stockOffset, the ref pendingSearchSync
  list,      \* the stock list: request, loading, error, items, pagination
  selected,  \* selectedStock
  range,     \* appliedDateRange
  frequency, \* of the chart interval
  mode,      \* detailRequestMode
  load,      \* requests in flight for the selected stock
  due,       \* the effect that loads the selected stock is to run again
  view,      \* prices and signals shown, with loading, error and warning
  panel,     \* the scanner run panel
  stale,     \* aborted requests that were reading the body of an error
  disturbed, \* history: parts where an abandoned request has had an effect
  owed,      \* history: a search that nothing has superseded or failed
  clicks     \* counter for the bound

chart == <<selected, range, frequency, mode, load, due, view>>
vars == <<search, list, chart, panel, stale, disturbed, owed, clicks>>

Parts == {"list", "detail", "run"}
Nothing == << >>                          \* empty: no items, no prices
Pages == 0 .. MaxClicks
ListKeys == Queries \X Pages              \* what a list response answers
DetailKeys == Stocks \X Ranges \X Frequencies

\* "body": the answer is an error and its body is being read.  "fallback":
\* a synchronisation failed and the cached prices are being asked for.
LoadPhases == {"none", "waiting", "body", "fallback", "fallback_body"}
NoLoad == [phase |-> "none", key |-> Nothing, sync |-> FALSE]

TypeOK ==
  /\ search \in [query : Queries, page : Pages, pending : BOOLEAN]
  /\ list \in [request : {"none", "waiting", "body"}, loading : BOOLEAN,
               error : BOOLEAN, items : ListKeys \cup {Nothing},
               page : Pages, more : BOOLEAN]
  /\ selected \in Stocks \cup {NoStock}
  /\ range \in Ranges /\ frequency \in Frequencies
  /\ mode \in {"cache", "sync"}
  /\ load \in [phase : LoadPhases, key : DetailKeys \cup {Nothing}, sync : BOOLEAN]
  /\ due \in BOOLEAN
  /\ view \in [prices : DetailKeys \cup {Nothing}, cached : BOOLEAN,
               loading : BOOLEAN, error : BOOLEAN, warning : BOOLEAN]
  /\ panel \in [run : Runs \cup {NoRun}, request : {"none", "waiting", "body"},
                loading : BOOLEAN, error : BOOLEAN, shown : Runs \cup {NoRun}]
  /\ stale \subseteq Parts /\ disturbed \subseteq Parts
  /\ owed \in BOOLEAN
  /\ clicks \in 0 .. MaxClicks

Init ==
  /\ search = [query |-> FirstQuery, page |-> 0, pending |-> FALSE]
  /\ list = [request |-> "waiting", loading |-> TRUE, error |-> FALSE,
             items |-> Nothing, page |-> 0, more |-> FALSE]
  /\ selected = NoStock /\ range = FirstRange
  /\ frequency = "daily" /\ mode = "cache"
  /\ load = NoLoad /\ due = FALSE
  /\ view = [prices |-> Nothing, cached |-> FALSE, loading |-> FALSE,
             error |-> FALSE, warning |-> FALSE]
  /\ panel = [run |-> NoRun, request |-> "none", loading |-> FALSE,
              error |-> FALSE, shown |-> NoRun]
  /\ stale = {} /\ disturbed = {} /\ owed = FALSE /\ clicks = 0

-----------------------------------------------------------------------------
(* What clicks and responses have in common.                               *)

\* A click: what was aborted has been rejected and due effects have run.
Click ==
  /\ clicks < MaxClicks /\ ~due /\ stale = {}
  /\ clicks' = clicks + 1

\* Aborted rejections reach their callbacks before any answer of the network.
Answer == stale = {} /\ UNCHANGED <<stale, clicks>>

\* Aborting these leaves an error that is not an AbortError.  After a failed
\* synchronisation the callback asks again, and that aborts.
LeftByList == IF list.request = "body" THEN {"list"} ELSE {}
LeftByDetail ==
  IF load.phase = "fallback_body" \/ (load.phase = "body" /\ ~load.sync)
  THEN {"detail"} ELSE {}
LeftByRun == IF panel.request = "body" THEN {"run"} ELSE {}

\* The effect that loads the selected stock.
LoadDetail(stock, r, f, m) ==
  load' = IF stock = NoStock THEN NoLoad
          ELSE [phase |-> "waiting", key |-> <<stock, r, f>>,
                sync |-> f = "daily" /\ m = "sync"]

\* Defect used to test MessagesAreCurrent: the last stock's warning stays.
ShowStockKeepingWarning(stock, m) ==
  /\ selected' = stock
  /\ mode' = IF stock = NoStock THEN mode ELSE m
  /\ view' = IF stock = NoStock
             THEN [view EXCEPT !.prices = Nothing, !.cached = FALSE,
                               !.loading = FALSE, !.error = FALSE]
             ELSE [view EXCEPT !.loading = TRUE, !.error = FALSE]

\* Defect used to test LoadingEnds: with no stock to select, the loading flag
\* of the last one stays.
ShowStockKeepingLoading(stock, m) ==
  /\ selected' = stock
  /\ mode' = IF stock = NoStock THEN mode ELSE m
  /\ view' = IF stock = NoStock
             THEN [view EXCEPT !.prices = Nothing, !.cached = FALSE,
                               !.error = FALSE, !.warning = FALSE]
             ELSE [view EXCEPT !.loading = TRUE, !.error = FALSE, !.warning = FALSE]

\* selectStock
ShowStock(stock, m) ==
  /\ selected' = stock
  /\ mode' = IF stock = NoStock THEN mode ELSE m
  /\ view' = IF stock = NoStock
             THEN [prices |-> Nothing, cached |-> FALSE, loading |-> FALSE,
                   error |-> FALSE, warning |-> FALSE]
             ELSE [view EXCEPT !.loading = TRUE, !.error = FALSE, !.warning = FALSE]

-----------------------------------------------------------------------------
(* The stock list.                                                         *)

ReloadList(left) ==
  /\ list' = [list EXCEPT !.request = "waiting", !.loading = TRUE, !.error = FALSE]
  /\ stale' = LeftByList \cup left
  /\ disturbed' = disturbed \ {"list"}

\* Defect used to test ChartIsCurrent: the effect of the selected stock does
\* not depend on the range.
SubmitSearchWithoutReload(q, r, edited) ==
  /\ Click
  /\ r # range => edited
  /\ range' = r
  /\ search' = [query |-> q, page |-> 0, pending |-> TRUE]
  /\ ReloadList({})
  /\ owed' = TRUE
  /\ UNCHANGED <<selected, frequency, mode, load, due, view, panel>>

\* Defect used to test SearchSynchronises: the page is not reset.
SubmitSearchOnSamePage(q, r, edited) ==
  /\ Click
  /\ r # range => edited
  /\ range' = r
  /\ search' = [search EXCEPT !.query = q, !.pending = TRUE]
  /\ ReloadList(IF edited THEN LeftByDetail ELSE {})
  /\ IF edited THEN LoadDetail(selected, r, frequency, mode) ELSE UNCHANGED load
  /\ owed' = TRUE
  /\ UNCHANGED <<selected, frequency, mode, due, view, panel>>

\* submitSearch.  An edited range is a new object even when its dates are the
\* same, and makes the effect of the selected stock run again at once.
SubmitSearch(q, r, edited) ==
  /\ Click
  /\ r # range => edited
  /\ range' = r
  /\ search' = [query |-> q, page |-> 0, pending |-> TRUE]
  /\ ReloadList(IF edited THEN LeftByDetail ELSE {})
  /\ IF edited THEN LoadDetail(selected, r, frequency, mode) ELSE UNCHANGED load
  /\ owed' = TRUE
  /\ UNCHANGED <<selected, frequency, mode, due, view, panel>>

\* Defect used to test ListIsCurrent: the loading flag is not set.
NextPageUnannounced ==
  /\ Click /\ list.more
  /\ search' = [search EXCEPT !.page = @ + 1]
  /\ list' = [list EXCEPT !.request = "waiting", !.error = FALSE]
  /\ stale' = LeftByList
  /\ owed' = FALSE
  /\ UNCHANGED <<chart, panel, disturbed>>

\* The button is enabled by the pagination of the last list received.
NextPage ==
  /\ Click /\ list.more
  /\ search' = [search EXCEPT !.page = @ + 1]
  /\ ReloadList({})
  /\ owed' = FALSE
  /\ UNCHANGED <<chart, panel>>

\* At page 0 nothing changes that the effect depends on: it does not run.
PreviousPage ==
  /\ Click /\ list.page > 0
  /\ IF search.page > 0
     THEN /\ search' = [search EXCEPT !.page = @ - 1]
          /\ ReloadList({})
          /\ owed' = FALSE
     ELSE /\ list' = [list EXCEPT !.loading = TRUE, !.error = FALSE]
          /\ disturbed' = disturbed \ {"list"}
          /\ UNCHANGED <<search, stale, owed>>
  /\ UNCHANGED <<chart, panel>>

RetryList ==
  /\ Click /\ ~list.loading /\ list.error
  /\ ReloadList({})
  /\ UNCHANGED <<search, chart, panel, owed>>

\* The callback of getStocks selects the first stock of the page; the effect
\* that loads it is due.
ListResponds ==
  /\ list.request = "waiting" /\ Answer
  /\ LET pages == FirstOfPage[search.query]
         n == search.page + 1
         first == IF n \in DOMAIN pages THEN pages[n] ELSE NoStock
     IN  /\ list' = [list EXCEPT !.request = "none", !.loading = FALSE,
                                 !.items = <<search.query, search.page>>,
                                 !.page = search.page, !.more = n < Len(pages)]
         /\ ShowStock(first, IF search.pending /\ search.page = 0 THEN "sync" ELSE "cache")
  /\ search' = [search EXCEPT !.pending = FALSE]
  /\ due' = TRUE
  /\ disturbed' = disturbed \ {"detail"}
  /\ owed' = FALSE
  /\ UNCHANGED <<range, frequency, load, panel>>

ListErrorHeaders ==
  /\ list.request = "waiting" /\ Answer
  /\ list' = [list EXCEPT !.request = "body"]
  /\ UNCHANGED <<search, chart, panel, disturbed, owed>>

\* The catch of getStocks.
DropList ==
  /\ ShowStock(NoStock, mode)
  /\ search' = [search EXCEPT !.pending = FALSE]
  /\ due' = TRUE
  /\ owed' = FALSE
  /\ UNCHANGED <<range, frequency, load, panel>>

ListFails ==
  /\ list.request # "none" /\ Answer
  /\ list' = [list EXCEPT !.request = "none", !.loading = FALSE,
                          !.error = TRUE, !.items = Nothing]
  /\ DropList
  /\ disturbed' = disturbed \ {"detail"}

\* The same catch, for a list that was abandoned: another is on its way.
StaleListFails ==
  /\ "list" \in stale /\ stale' = stale \ {"list"}
  /\ list' = [list EXCEPT !.error = TRUE, !.items = Nothing]
  /\ DropList
  /\ disturbed' = (disturbed \ {"detail"}) \cup {"list"}
  /\ UNCHANGED clicks

-----------------------------------------------------------------------------
(* The selected stock.                                                     *)

\* A stock of the list, or a recent one, which any stock may be.
SelectStock(stock) ==
  /\ Click
  /\ ShowStock(stock, "sync")
  /\ LoadDetail(stock, range, frequency, "sync")
  /\ stale' = LeftByDetail
  /\ disturbed' = disturbed \ {"detail"}
  /\ UNCHANGED <<search, list, range, frequency, due, panel, owed>>

\* changeChartInterval.  The chart is there only when nothing is loading.
ChangeInterval(f) ==
  /\ Click
  /\ selected # NoStock /\ ~view.loading /\ ~view.error
  /\ f # frequency /\ frequency' = f
  /\ view' = [view EXCEPT !.loading = TRUE, !.error = FALSE, !.warning = FALSE]
  /\ LoadDetail(selected, range, f, mode)
  /\ stale' = LeftByDetail
  /\ disturbed' = disturbed \ {"detail"}
  /\ UNCHANGED <<search, list, selected, range, mode, due, panel, owed>>

\* Retry leaves the warning.
RetryDetail ==
  /\ Click
  /\ selected # NoStock /\ ~view.loading /\ view.error
  /\ view' = [view EXCEPT !.loading = TRUE, !.error = FALSE]
  /\ LoadDetail(selected, range, frequency, mode)
  /\ stale' = LeftByDetail
  /\ UNCHANGED <<search, list, selected, range, frequency, mode, due, panel,
                 disturbed, owed>>

DetailEffect ==
  /\ due /\ due' = FALSE
  /\ LoadDetail(selected, range, frequency, mode)
  /\ stale' = stale \cup LeftByDetail
  /\ UNCHANGED <<search, list, selected, range, frequency, mode, view, panel,
                 disturbed, owed, clicks>>

\* What lands while the effect is due belongs to what was selected before.
Landing == IF due THEN disturbed \cup {"detail"} ELSE disturbed

DetailSucceeds ==
  /\ load.phase \in {"waiting", "fallback"} /\ Answer
  /\ view' = [prices |-> load.key, cached |-> load.phase = "fallback",
              loading |-> FALSE, error |-> view.error,
              warning |-> load.phase = "fallback" \/ view.warning]
  /\ load' = NoLoad
  /\ disturbed' = Landing
  /\ UNCHANGED <<search, list, selected, range, frequency, mode, due, panel, owed>>

DetailErrorHeaders ==
  /\ load.phase \in {"waiting", "fallback"} /\ Answer
  /\ load' = [load EXCEPT !.phase = IF @ = "waiting" THEN "body" ELSE "fallback_body"]
  /\ UNCHANGED <<search, list, selected, range, frequency, mode, due, view, panel,
                 disturbed, owed>>

SyncFails ==
  /\ load.sync /\ load.phase \in {"waiting", "body"} /\ Answer
  /\ load' = [load EXCEPT !.phase = "fallback"]
  /\ UNCHANGED <<search, list, selected, range, frequency, mode, due, view, panel,
                 disturbed, owed>>

DetailFails ==
  /\ load.phase # "none" /\ Answer
  /\ load.sync => load.phase \in {"fallback", "fallback_body"}
  /\ view' = [view EXCEPT !.prices = Nothing, !.cached = FALSE,
                          !.error = TRUE, !.loading = FALSE]
  /\ load' = NoLoad
  /\ disturbed' = Landing
  /\ UNCHANGED <<search, list, selected, range, frequency, mode, due, panel, owed>>

\* The catch, for an abandoned load.  Promise.all passes on one rejection
\* only: when it is the AbortError of the other request, nothing happens.
StaleDetailFails ==
  /\ "detail" \in stale /\ stale' = stale \ {"detail"}
  /\ \/ /\ view' = [view EXCEPT !.prices = Nothing, !.cached = FALSE, !.error = TRUE]
        /\ disturbed' = disturbed \cup {"detail"}
     \/ UNCHANGED <<view, disturbed>>
  /\ UNCHANGED <<search, list, selected, range, frequency, mode, load, due, panel,
                 owed, clicks>>

-----------------------------------------------------------------------------
(* The scanner run panel.                                                  *)

ReloadRun(run, shown) ==
  /\ Click
  /\ panel' = [run |-> run, request |-> IF run = NoRun THEN "none" ELSE "waiting",
               loading |-> run # NoRun, error |-> FALSE, shown |-> shown]
  /\ stale' = LeftByRun
  /\ disturbed' = disturbed \ {"run"}
  /\ UNCHANGED <<search, list, chart, owed>>

SelectRun(run) == ReloadRun(run, NoRun)

CloseRun == panel.run # NoRun /\ ReloadRun(NoRun, NoRun)

RetryRun ==
  /\ panel.run # NoRun /\ ~panel.loading /\ panel.error
  /\ ReloadRun(panel.run, panel.shown)

RunResponds ==
  /\ panel.request = "waiting" /\ Answer
  /\ panel' = [panel EXCEPT !.request = "none", !.loading = FALSE, !.shown = panel.run]
  /\ UNCHANGED <<search, list, chart, disturbed, owed>>

RunErrorHeaders ==
  /\ panel.request = "waiting" /\ Answer
  /\ panel' = [panel EXCEPT !.request = "body"]
  /\ UNCHANGED <<search, list, chart, disturbed, owed>>

\* Defect used to test PanelIsCurrent: the detail is shown beside the error.
RunFailsKeepingDetail ==
  /\ panel.request # "none" /\ Answer
  /\ panel' = [panel EXCEPT !.request = "none", !.loading = FALSE,
                            !.error = TRUE, !.shown = panel.run]
  /\ UNCHANGED <<search, list, chart, disturbed, owed>>

RunFails ==
  /\ panel.request # "none" /\ Answer
  /\ panel' = [panel EXCEPT !.request = "none", !.loading = FALSE,
                            !.error = TRUE, !.shown = NoRun]
  /\ UNCHANGED <<search, list, chart, disturbed, owed>>

StaleRunFails ==
  /\ "run" \in stale /\ stale' = stale \ {"run"}
  /\ \/ /\ panel' = [panel EXCEPT !.error = TRUE, !.shown = NoRun]
        /\ disturbed' = disturbed \cup {"run"}
     \/ UNCHANGED <<panel, disturbed>>
  /\ UNCHANGED <<search, list, chart, owed, clicks>>

-----------------------------------------------------------------------------
UserActs ==
  \/ \E q \in Queries, r \in Ranges, edited \in BOOLEAN : SubmitSearch(q, r, edited)
  \/ NextPage \/ PreviousPage \/ RetryList
  \/ \E stock \in Stocks : SelectStock(stock)
  \/ \E f \in Frequencies : ChangeInterval(f)
  \/ RetryDetail
  \/ \E run \in Runs : SelectRun(run)
  \/ CloseRun \/ RetryRun

ListEnds == ListResponds \/ ListFails
DetailEnds == DetailSucceeds \/ SyncFails \/ DetailFails
RunEnds == RunResponds \/ RunFails
StaleFails == StaleListFails \/ StaleDetailFails \/ StaleRunFails

Next ==
  \/ UserActs
  \/ ListEnds \/ ListErrorHeaders
  \/ DetailEffect \/ DetailEnds \/ DetailErrorHeaders
  \/ RunEnds \/ RunErrorHeaders
  \/ StaleFails

Spec == Init /\ [][Next]_vars

\* React runs an effect that is due, the browser rejects what was aborted, and
\* every request ends: answered, refused or given up by the network.
FairSpec ==
  /\ Spec
  /\ WF_vars(DetailEffect) /\ WF_vars(StaleFails)
  /\ WF_vars(ListEnds) /\ WF_vars(DetailEnds) /\ WF_vars(RunEnds)

-----------------------------------------------------------------------------
Settled == ~due /\ load.phase = "none"

\* With nothing in flight for the selected stock and no error shown, the chart
\* and the signals are those of the selected stock, the applied range and the
\* chart's frequency, in whatever order the answers arrived (App.tsx 346-446).
ChartIsCurrent ==
  selected # NoStock /\ Settled /\ ~view.error
    => view.prices = <<selected, range, frequency>>

\* Once the list has its answer too, an error is shown only if the last load
\* failed, and the warning that cached records are shown exactly if they are,
\* unless an abandoned request has had an effect (App.tsx 206-247, 388-432).
MessagesAreCurrent ==
  selected # NoStock /\ Settled /\ list.request = "none" /\ "detail" \notin disturbed
    => IF view.error THEN view.prices = Nothing ELSE view.warning = view.cached

\* A list that does not say it is loading is that of the query and the page
\* asked for last, or its error (App.tsx 260-295).
ListIsCurrent ==
  ~list.loading =>
    IF list.error THEN "list" \notin disturbed => list.items = Nothing
    ELSE list.items = <<search.query, search.page>>

\* The same for the panel of a scanner run (App.tsx 314-344).
PanelIsCurrent ==
  panel.run # NoRun /\ ~panel.loading =>
    IF panel.error THEN "run" \notin disturbed => panel.shown = NoRun
    ELSE panel.shown = panel.run

\* The first list received after a search that nothing has superseded selects
\* its stock to be synchronised, whatever was clicked or aborted since
\* (App.tsx 260-295, 448-475).
SearchSynchronises ==
  [][owed /\ list.request # "none" /\ list'.request = "none" /\ ~list'.error
       => selected' = NoStock \/ (mode' = "sync" /\ due')]_vars

\* "Loading" is not shown forever for a stock or a run: every click that sets
\* the flag also makes an effect run that resets it (App.tsx 314-446).  For the list's
\* own flag that is not so: Previous may set it and change nothing (PreviousPage).
LoadingEnds == (view.loading ~> ~view.loading) /\ (panel.loading ~> ~panel.loading)
=============================================================================
