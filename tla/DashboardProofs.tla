-------------------------- MODULE DashboardProofs --------------------------
(***************************************************************************)
(* Proofs about Dashboard, for every set of stocks, queries, ranges,       *)
(* frequencies and runs, whatever pages the queries have, and for any      *)
(* number of clicks: whatever order the answers arrive in, what the page   *)
(* shows belongs to what was asked for last.                               *)
(***************************************************************************)
EXTENDS Dashboard, TLAPS

USE DashboardAssumption

\* The type of each part of the page.
ListTypes == [request : {"none", "waiting", "body"}, loading : BOOLEAN,
              error : BOOLEAN, items : ListKeys \cup {Nothing},
              page : Pages, more : BOOLEAN]
LoadTypes == [phase : LoadPhases, key : DetailKeys \cup {Nothing}, sync : BOOLEAN]
ViewTypes == [prices : DetailKeys \cup {Nothing}, cached : BOOLEAN,
              loading : BOOLEAN, error : BOOLEAN, warning : BOOLEAN]
PanelTypes == [run : Runs \cup {NoRun}, request : {"none", "waiting", "body"},
               loading : BOOLEAN, error : BOOLEAN, shown : Runs \cup {NoRun}]

\* A page asked for is at most as far as the clicks that led to it.
SearchTyped ==
  /\ search \in [query : Queries, page : Pages, pending : BOOLEAN]
  /\ search.page <= clicks
  /\ clicks \in Pages
ListTyped == list \in ListTypes
DetailTyped ==
  /\ selected \in Stocks \cup {NoStock}
  /\ range \in Ranges /\ frequency \in Frequencies
  /\ mode \in {"cache", "sync"}
  /\ due \in BOOLEAN
LoadTyped == load \in LoadTypes
ViewTyped == view \in ViewTypes
PanelTyped == panel \in PanelTypes
RestTyped == stale \subseteq Parts /\ disturbed \subseteq Parts /\ owed \in BOOLEAN

Typed ==
  /\ SearchTyped /\ ListTyped /\ DetailTyped /\ LoadTyped /\ ViewTyped
  /\ PanelTyped /\ RestTyped

LEMMA TypedParts == Typed => TypeOK
BY DEF Typed, TypeOK, SearchTyped, ListTyped, DetailTyped, LoadTyped, ViewTyped,
       PanelTyped, RestTyped, ListTypes, LoadTypes, ViewTypes, PanelTypes, Pages

LEMMA TypeInit == Init => Typed
<1> SUFFICES ASSUME Init PROVE Typed
  OBVIOUS
<1>1. SearchTyped
  BY DEF Init, SearchTyped, Pages
<1>2. ListTyped
  BY DEF Init, ListTyped, ListTypes, Pages
<1>3. DetailTyped /\ RestTyped
  BY DEF Init, DetailTyped, RestTyped
<1>4. LoadTyped
  BY DEF Init, LoadTyped, LoadTypes, NoLoad, LoadPhases
<1>5. ViewTyped
  BY DEF Init, ViewTyped, ViewTypes
<1>6. PanelTyped
  BY DEF Init, PanelTyped, PanelTypes
<1> QED BY <1>1, <1>2, <1>3, <1>4, <1>5, <1>6 DEF Typed

-----------------------------------------------------------------------------
(* What the parts of the actions leave.                                    *)

\* What is left unchanged keeps its type.
LEMMA Kept ==
  ASSUME Typed
  PROVE  /\ UNCHANGED <<search, clicks>> => SearchTyped'
         /\ UNCHANGED list => ListTyped'
         /\ UNCHANGED <<selected, range, frequency, mode, due>> => DetailTyped'
         /\ UNCHANGED load => LoadTyped'
         /\ UNCHANGED view => ViewTyped'
         /\ UNCHANGED panel => PanelTyped'
         /\ UNCHANGED <<stale, disturbed, owed>> => RestTyped'
         /\ UNCHANGED chart => DetailTyped' /\ LoadTyped' /\ ViewTyped'
BY DEF Typed, SearchTyped, ListTyped, DetailTyped, LoadTyped, ViewTyped, PanelTyped,
       RestTyped, chart

\* An effect that loads a stock.
LEMMA LoadType ==
  ASSUME NEW s \in Stocks \cup {NoStock}, NEW r \in Ranges, NEW f \in Frequencies,
         NEW m \in {"cache", "sync"}, LoadDetail(s, r, f, m)
  PROVE  LoadTyped'
BY DEF LoadDetail, NoLoad, LoadPhases, DetailKeys, LoadTyped, LoadTypes

\* What an abort leaves behind belongs to a part of the page.
LEMMA LeftType ==
  LeftByList \subseteq Parts /\ LeftByDetail \subseteq Parts /\ LeftByRun \subseteq Parts
BY DEF LeftByList, LeftByDetail, LeftByRun, Parts

\* selectStock.
LEMMA ShowType ==
  ASSUME Typed, NEW s \in Stocks \cup {NoStock}, NEW m \in {"cache", "sync"},
         ShowStock(s, m)
  PROVE  /\ selected' \in Stocks \cup {NoStock}
         /\ mode' \in {"cache", "sync"}
         /\ ViewTyped'
<1>1. selected' \in Stocks \cup {NoStock} /\ mode' \in {"cache", "sync"}
  BY DEF ShowStock, Typed, DetailTyped
<1>2. ViewTyped'
  BY DEF ShowStock, Typed, ViewTyped, ViewTypes
<1> QED BY <1>1, <1>2

\* A list that is loaded again.
LEMMA ReloadType ==
  ASSUME Typed, NEW left \in SUBSET Parts, ReloadList(left)
  PROVE  ListTyped' /\ stale' \subseteq Parts /\ disturbed' \subseteq Parts
<1>1. ListTyped'
  BY DEF ReloadList, Typed, ListTyped, ListTypes
<1>2. stale' \subseteq Parts /\ disturbed' \subseteq Parts
  BY LeftType DEF ReloadList, Typed, RestTyped
<1> QED BY <1>1, <1>2

\* A click that leaves the query and the page.
LEMMA ClickType ==
  ASSUME Typed, Click, UNCHANGED search
  PROVE  SearchTyped'
BY DEF Typed, Click, SearchTyped, Pages

-----------------------------------------------------------------------------
(* Each action keeps every type.                                           *)

LEMMA SubmitType ==
  ASSUME Typed, NEW q \in Queries, NEW r \in Ranges, NEW edited \in BOOLEAN,
         SubmitSearch(q, r, edited)
  PROVE  Typed'
<1>1. SearchTyped'
  BY DEF SubmitSearch, Click, Typed, SearchTyped, Pages
<1>2. ListTyped' /\ stale' \subseteq Parts /\ disturbed' \subseteq Parts
  BY LeftType, ReloadType DEF SubmitSearch
<1>3. DetailTyped' /\ RestTyped'
  BY <1>2 DEF SubmitSearch, Typed, DetailTyped, RestTyped
<1>4. LoadTyped'
  BY LoadType, Kept DEF SubmitSearch, Typed, DetailTyped
<1> QED BY <1>1, <1>2, <1>3, <1>4, Kept DEF SubmitSearch, Typed

LEMMA ListClicksType ==
  ASSUME Typed, NextPage \/ PreviousPage \/ RetryList
  PROVE  Typed'
<1>1. CASE NextPage
  <2>1. SearchTyped'
    <3>1. /\ search.page \in Nat /\ clicks \in Nat /\ MaxClicks \in Nat
          /\ search.page <= clicks /\ clicks < MaxClicks
      BY <1>1 DEF NextPage, Click, Typed, SearchTyped, Pages
    <3>2. clicks' \in Pages /\ search.page + 1 \in Pages /\ search.page + 1 <= clicks'
      BY <1>1, <3>1 DEF NextPage, Click, Pages
    <3>3. search' = [search EXCEPT !.page = search.page + 1]
      BY <1>1 DEF NextPage
    <3>4. search' \in [query : Queries, page : Pages, pending : BOOLEAN]
      BY <3>2, <3>3 DEF Typed, SearchTyped
    <3>5. search'.page = search.page + 1
      BY <3>3 DEF Typed, SearchTyped
    <3> QED BY <3>2, <3>4, <3>5 DEF SearchTyped
  <2>2. ListTyped' /\ RestTyped'
    BY <1>1, ReloadType DEF NextPage, RestTyped
  <2> QED BY <1>1, <2>1, <2>2, Kept DEF NextPage, Typed
<1>2. CASE PreviousPage
  <2>1. SearchTyped'
    BY <1>2, ClickType DEF PreviousPage, Click, Typed, SearchTyped, Pages
  <2>2. CASE search.page > 0
    <3>1. ListTyped' /\ RestTyped'
      BY <1>2, <2>2, ReloadType DEF PreviousPage, RestTyped
    <3> QED BY <1>2, <2>1, <3>1, Kept DEF PreviousPage, Typed
  <2>3. CASE ~(search.page > 0)
    <3>1. ListTyped'
      BY <1>2, <2>3 DEF PreviousPage, Typed, ListTyped, ListTypes
    <3>2. RestTyped'
      BY <1>2, <2>3 DEF PreviousPage, Typed, RestTyped
    <3> QED BY <1>2, <2>1, <3>1, <3>2, Kept DEF PreviousPage, Typed
  <2> QED BY <2>2, <2>3
<1>3. CASE RetryList
  <2>1. SearchTyped'
    BY <1>3, ClickType DEF RetryList
  <2>2. ListTyped' /\ RestTyped'
    BY <1>3, ReloadType DEF RetryList, Typed, RestTyped
  <2> QED BY <1>3, <2>1, <2>2, Kept DEF RetryList, Typed
<1> QED BY <1>1, <1>2, <1>3

LEMMA ListRespondsType ==
  ASSUME Typed, ListResponds
  PROVE  Typed'
<1> DEFINE pages == FirstOfPage[search.query]
           n == search.page + 1
           first == IF n \in DOMAIN pages THEN pages[n] ELSE NoStock
           m == IF search.pending /\ search.page = 0 THEN "sync" ELSE "cache"
<1>1. first \in Stocks \cup {NoStock}
  <2>1. pages \in Seq(Stocks)
    BY DEF Typed, SearchTyped
  <2> QED BY <2>1
<1>2. m \in {"cache", "sync"}
  OBVIOUS
<1>3. ListTyped'
  <2>1. list' = [list EXCEPT !.request = "none", !.loading = FALSE,
                             !.items = <<search.query, search.page>>,
                             !.page = search.page, !.more = n < Len(pages)]
    BY DEF ListResponds
  <2>2. <<search.query, search.page>> \in ListKeys /\ search.page \in Pages
    BY DEF Typed, SearchTyped, ListKeys
  <2>3. (n < Len(pages)) \in BOOLEAN
    OBVIOUS
  <2> HIDE DEF n, pages
  <2> QED BY <2>1, <2>2, <2>3 DEF Typed, ListTyped, ListTypes
<1>4. ShowStock(first, m)
  BY DEF ListResponds
<1>5. DetailTyped' /\ ViewTyped'
  <2> HIDE DEF first, m
  <2> QED BY <1>1, <1>2, <1>4, ShowType DEF ListResponds, Typed, DetailTyped
<1>6. SearchTyped'
  BY DEF ListResponds, Answer, Typed, SearchTyped
<1>7. RestTyped'
  BY DEF ListResponds, Answer, Typed, RestTyped
<1> QED BY <1>3, <1>5, <1>6, <1>7, Kept DEF ListResponds, Typed

\* The catch of getStocks, after a list that failed or was abandoned.
LEMMA DropType ==
  ASSUME Typed, DropList, UNCHANGED clicks
  PROVE  SearchTyped' /\ DetailTyped' /\ LoadTyped' /\ ViewTyped' /\ PanelTyped'
<1>1. SearchTyped'
  BY DEF DropList, Typed, SearchTyped
<1>2. DetailTyped' /\ ViewTyped'
  BY ShowType DEF DropList, Typed, DetailTyped
<1> QED BY <1>1, <1>2, Kept DEF DropList

LEMMA ListFailsType ==
  ASSUME Typed, ListErrorHeaders \/ ListFails \/ StaleListFails
  PROVE  Typed'
<1>1. CASE ListErrorHeaders
  <2>1. ListTyped'
    BY <1>1 DEF ListErrorHeaders, Typed, ListTyped, ListTypes
  <2> QED BY <1>1, <2>1, Kept DEF ListErrorHeaders, Answer, Typed
<1>2. CASE ListFails
  <2>1. ListTyped'
    BY <1>2 DEF ListFails, Typed, ListTyped, ListTypes
  <2>2. RestTyped'
    BY <1>2 DEF ListFails, DropList, Answer, Typed, RestTyped
  <2> QED BY <1>2, <2>1, <2>2, DropType DEF ListFails, Answer, Typed
<1>3. CASE StaleListFails
  <2>1. ListTyped'
    BY <1>3 DEF StaleListFails, Typed, ListTyped, ListTypes
  <2>2. RestTyped'
    BY <1>3 DEF StaleListFails, DropList, Typed, RestTyped, Parts
  <2> QED BY <1>3, <2>1, <2>2, DropType DEF StaleListFails, Typed
<1> QED BY <1>1, <1>2, <1>3

LEMMA SelectType ==
  ASSUME Typed, NEW stock \in Stocks, SelectStock(stock)
  PROVE  Typed'
<1>1. DetailTyped' /\ ViewTyped'
  BY ShowType DEF SelectStock, Typed, DetailTyped
<1>2. LoadTyped'
  BY LoadType DEF SelectStock, Typed, DetailTyped
<1>3. RestTyped'
  BY LeftType DEF SelectStock, Typed, RestTyped
<1> QED BY <1>1, <1>2, <1>3, ClickType, Kept DEF SelectStock, Typed

LEMMA IntervalType ==
  ASSUME Typed, NEW f \in Frequencies, ChangeInterval(f)
  PROVE  Typed'
<1>1. DetailTyped'
  BY DEF ChangeInterval, Typed, DetailTyped
<1>2. ViewTyped'
  BY DEF ChangeInterval, Typed, ViewTyped, ViewTypes
<1>3. LoadTyped'
  BY LoadType DEF ChangeInterval, Typed, DetailTyped
<1>4. RestTyped'
  BY LeftType DEF ChangeInterval, Typed, RestTyped
<1> QED BY <1>1, <1>2, <1>3, <1>4, ClickType, Kept DEF ChangeInterval, Typed

LEMMA RetryDetailType ==
  ASSUME Typed, RetryDetail
  PROVE  Typed'
<1>1. ViewTyped'
  BY DEF RetryDetail, Typed, ViewTyped, ViewTypes
<1>2. LoadTyped'
  BY LoadType DEF RetryDetail, Typed, DetailTyped
<1>3. RestTyped'
  BY LeftType DEF RetryDetail, Typed, RestTyped
<1> QED BY <1>1, <1>2, <1>3, ClickType, Kept DEF RetryDetail, Typed

LEMMA DetailAnswersType ==
  ASSUME Typed, DetailEffect \/ DetailEnds \/ DetailErrorHeaders \/ StaleDetailFails
  PROVE  Typed'
<1>1. CASE DetailEffect
  <2>1. LoadTyped'
    BY <1>1, LoadType DEF DetailEffect, Typed, DetailTyped
  <2>2. DetailTyped' /\ RestTyped'
    BY <1>1, LeftType DEF DetailEffect, Typed, DetailTyped, RestTyped
  <2> QED BY <1>1, <2>1, <2>2, Kept DEF DetailEffect, Typed
<1>2. CASE DetailSucceeds
  <2>1. ViewTyped'
    BY <1>2 DEF DetailSucceeds, Typed, LoadTyped, LoadTypes, ViewTyped, ViewTypes
  <2>2. LoadTyped'
    BY <1>2 DEF DetailSucceeds, NoLoad, LoadTyped, LoadTypes, LoadPhases
  <2>3. RestTyped'
    BY <1>2 DEF DetailSucceeds, Answer, Landing, Typed, RestTyped, Parts
  <2> QED BY <1>2, <2>1, <2>2, <2>3, Kept DEF DetailSucceeds, Answer, Typed
<1>3. CASE DetailErrorHeaders
  <2>1. LoadTyped'
    BY <1>3 DEF DetailErrorHeaders, Typed, LoadTyped, LoadTypes, LoadPhases
  <2> QED BY <1>3, <2>1, Kept DEF DetailErrorHeaders, Answer, Typed
<1>4. CASE SyncFails
  <2>1. LoadTyped'
    BY <1>4 DEF SyncFails, Typed, LoadTyped, LoadTypes, LoadPhases
  <2> QED BY <1>4, <2>1, Kept DEF SyncFails, Answer, Typed
<1>5. CASE DetailFails
  <2>1. ViewTyped'
    BY <1>5 DEF DetailFails, Typed, ViewTyped, ViewTypes
  <2>2. LoadTyped'
    BY <1>5 DEF DetailFails, NoLoad, LoadTyped, LoadTypes, LoadPhases
  <2>3. RestTyped'
    BY <1>5 DEF DetailFails, Answer, Landing, Typed, RestTyped, Parts
  <2> QED BY <1>5, <2>1, <2>2, <2>3, Kept DEF DetailFails, Answer, Typed
<1>6. CASE StaleDetailFails
  <2>1. ViewTyped'
    BY <1>6 DEF StaleDetailFails, Typed, ViewTyped, ViewTypes
  <2>2. RestTyped'
    BY <1>6 DEF StaleDetailFails, Typed, RestTyped, Parts
  <2> QED BY <1>6, <2>1, <2>2, Kept DEF StaleDetailFails, Typed
<1> QED BY <1>1, <1>2, <1>3, <1>4, <1>5, <1>6 DEF DetailEnds

LEMMA ReloadRunType ==
  ASSUME Typed, NEW run \in Runs \cup {NoRun}, NEW shown \in Runs \cup {NoRun},
         ReloadRun(run, shown)
  PROVE  Typed'
<1>1. PanelTyped'
  BY DEF ReloadRun, PanelTyped, PanelTypes
<1>2. RestTyped'
  BY LeftType DEF ReloadRun, Typed, RestTyped
<1> QED BY <1>1, <1>2, ClickType, Kept DEF ReloadRun, Typed

LEMMA PanelType ==
  ASSUME Typed,
         \/ \E run \in Runs : SelectRun(run)
         \/ CloseRun \/ RetryRun \/ RunEnds \/ RunErrorHeaders \/ StaleRunFails
  PROVE  Typed'
<1>1. CASE \E run \in Runs : SelectRun(run)
  BY <1>1, ReloadRunType DEF SelectRun
<1>2. CASE CloseRun
  BY <1>2, ReloadRunType DEF CloseRun
<1>3. CASE RetryRun
  <2>1. panel.run \in Runs \cup {NoRun} /\ panel.shown \in Runs \cup {NoRun}
    BY DEF Typed, PanelTyped, PanelTypes
  <2> QED BY <1>3, <2>1, ReloadRunType DEF RetryRun
<1>4. CASE RunResponds \/ RunFails \/ RunErrorHeaders
  <2>1. PanelTyped'
    BY <1>4 DEF RunResponds, RunFails, RunErrorHeaders, Typed, PanelTyped, PanelTypes
  <2> QED BY <1>4, <2>1, Kept DEF RunResponds, RunFails, RunErrorHeaders, Answer, Typed
<1>5. CASE StaleRunFails
  <2>1. PanelTyped'
    BY <1>5 DEF StaleRunFails, Typed, PanelTyped, PanelTypes
  <2>2. RestTyped'
    BY <1>5 DEF StaleRunFails, Typed, RestTyped, Parts
  <2> QED BY <1>5, <2>1, <2>2, Kept DEF StaleRunFails, Typed
<1> QED BY <1>1, <1>2, <1>3, <1>4, <1>5 DEF RunEnds

LEMMA TypeStep == Typed /\ [Next]_vars => Typed'
<1> SUFFICES ASSUME Typed, [Next]_vars PROVE Typed'
  OBVIOUS
<1>1. CASE UNCHANGED vars
  BY <1>1, Kept DEF vars, Typed
<1>2. CASE UserActs
  BY <1>2, SubmitType, ListClicksType, SelectType, IntervalType, RetryDetailType,
     PanelType DEF UserActs
<1>3. CASE ListEnds \/ ListErrorHeaders \/ StaleListFails
  BY <1>3, ListRespondsType, ListFailsType DEF ListEnds
<1>4. CASE DetailEffect \/ DetailEnds \/ DetailErrorHeaders \/ StaleDetailFails
  BY <1>4, DetailAnswersType
<1>5. CASE RunEnds \/ RunErrorHeaders \/ StaleRunFails
  BY <1>5, PanelType
<1> QED BY <1>1, <1>2, <1>3, <1>4, <1>5 DEF Next, StaleFails

\* Every variable of the page has its type (App.tsx 140-475).
THEOREM TypeCorrect == Spec => []TypeOK
<1>1. Spec => []Typed
  BY TypeInit, TypeStep, PTL DEF Spec
<1> QED BY <1>1, TypedParts, PTL

-----------------------------------------------------------------------------
(* What the properties need beside themselves.                             *)

\* A list that is asked for says so, and an error beside it is the work of an
\* abandoned request.
ListInv ==
  /\ ListIsCurrent
  /\ list.request # "none" => list.loading
  /\ list.loading /\ list.error => "list" \in disturbed

\* The same for the panel.
PanelInv ==
  /\ PanelIsCurrent
  /\ panel.request # "none" => panel.loading
  /\ panel.loading /\ panel.error => "run" \in disturbed

\* What is in flight for the selected stock, once its effect has run, is what
\* is selected now.
ChartInv ==
  /\ ChartIsCurrent
  /\ ~due /\ load.phase # "none" => load.key = <<selected, range, frequency>>

\* While a stock is being loaded, and with an error, there is no warning: the
\* one of an earlier load is cleared before the next one begins.
MessagesInv ==
  selected # NoStock /\ list.request = "none" /\ "detail" \notin disturbed
    => IF Settled
       THEN IF view.error THEN view.prices = Nothing /\ ~view.warning
                          ELSE view.warning = view.cached
       ELSE ~view.error /\ ~view.warning

\* A search that nothing superseded is still pending, on its first page.
SearchInv == owed => search.pending /\ search.page = 0

LEMMA InvInit == Init => ListInv /\ PanelInv /\ ChartInv /\ MessagesInv /\ SearchInv
<1> SUFFICES ASSUME Init PROVE ListInv /\ PanelInv /\ ChartInv /\ MessagesInv /\ SearchInv
  OBVIOUS
<1>1. ListInv
  BY DEF Init, ListInv, ListIsCurrent
<1>2. PanelInv
  BY DEF Init, PanelInv, PanelIsCurrent
<1>3. ChartInv
  BY DEF Init, ChartInv, ChartIsCurrent, NoLoad
<1>4. MessagesInv /\ SearchInv
  BY DEF Init, MessagesInv, SearchInv
<1> QED BY <1>1, <1>2, <1>3, <1>4

-----------------------------------------------------------------------------
(* The stock list.                                                         *)

DetailClicks ==
  \/ \E stock \in Stocks : SelectStock(stock)
  \/ \E f \in Frequencies : ChangeInterval(f)
  \/ RetryDetail
DetailActs == DetailClicks \/ DetailEffect \/ DetailEnds \/ DetailErrorHeaders \/ StaleDetailFails
PanelClicks == (\E run \in Runs : SelectRun(run)) \/ CloseRun \/ RetryRun
PanelActs == PanelClicks \/ RunEnds \/ RunErrorHeaders \/ StaleRunFails
Submits ==
  \E q \in Queries, r \in Ranges, edited \in BOOLEAN : SubmitSearch(q, r, edited)
ListActs ==
  \/ Submits \/ NextPage \/ PreviousPage \/ RetryList
  \/ ListEnds \/ ListErrorHeaders \/ StaleListFails

\* Every step is one of a part of the page.
LEMMA NextParts == [Next]_vars => ListActs \/ DetailActs \/ PanelActs \/ UNCHANGED vars
BY DEF Next, UserActs, StaleFails, ListActs, DetailActs, PanelActs, DetailClicks,
       PanelClicks, Submits

\* What the selected stock's steps leave alone.
LEMMA DetailFrame ==
  ASSUME DetailActs
  PROVE  /\ UNCHANGED <<search, list, panel, owed, range>>
         /\ \A part \in {"list", "run"} : part \in disturbed <=> part \in disturbed'
<1>1. CASE DetailClicks
  BY <1>1 DEF DetailClicks, SelectStock, ChangeInterval, RetryDetail
<1>2. CASE DetailEffect \/ DetailErrorHeaders \/ StaleDetailFails
  BY <1>2 DEF DetailEffect, DetailErrorHeaders, StaleDetailFails
<1>3. CASE DetailEnds
  BY <1>3 DEF DetailEnds, DetailSucceeds, SyncFails, DetailFails, Landing
<1> QED BY <1>1, <1>2, <1>3 DEF DetailActs

\* What the panel's steps leave alone.
LEMMA PanelFrame ==
  ASSUME PanelActs
  PROVE  /\ UNCHANGED <<search, list, owed, chart>>
         /\ \A part \in {"list", "detail"} : part \in disturbed <=> part \in disturbed'
<1>1. CASE PanelClicks
  BY <1>1 DEF PanelClicks, SelectRun, CloseRun, RetryRun, ReloadRun
<1>2. CASE RunEnds \/ RunErrorHeaders \/ StaleRunFails
  BY <1>2 DEF RunEnds, RunResponds, RunFails, RunErrorHeaders, StaleRunFails
<1> QED BY <1>1, <1>2 DEF PanelActs

\* What the list's steps leave alone.
LEMMA ListFrame ==
  ASSUME ListActs
  PROVE  UNCHANGED panel /\ ("run" \in disturbed <=> "run" \in disturbed')
<1>1. CASE Submits \/ NextPage \/ PreviousPage \/ RetryList
  BY <1>1 DEF Submits, SubmitSearch, NextPage, PreviousPage, RetryList, ReloadList
<1>2. CASE ListEnds \/ ListErrorHeaders \/ StaleListFails
  BY <1>2 DEF ListEnds, ListResponds, ListFails, ListErrorHeaders, StaleListFails, DropList
<1> QED BY <1>1, <1>2 DEF ListActs

\* A list that is being asked for again satisfies whatever search it is for.
LEMMA ReloadListInv ==
  ASSUME Typed, NEW left, ReloadList(left)
  PROVE  ListInv' /\ list'.request = "waiting"
<1>1. list'.request = "waiting" /\ list'.loading /\ ~list'.error
  BY DEF ReloadList, Typed, ListTyped, ListTypes
<1> QED BY <1>1 DEF ListInv, ListIsCurrent

LEMMA ListStep ==
  ASSUME Typed, ListInv, [Next]_vars
  PROVE  ListInv'
<1> USE DEF Typed, ListTyped, ListTypes, SearchTyped
<1>1. CASE Submits
  BY <1>1, ReloadListInv DEF Submits, SubmitSearch
<1>2. CASE NextPage \/ RetryList
  BY <1>2, ReloadListInv DEF NextPage, RetryList
<1>3. CASE PreviousPage
  <2>1. CASE search.page > 0
    BY <1>3, <2>1, ReloadListInv DEF PreviousPage
  <2>2. CASE ~(search.page > 0)
    <3>1. list'.loading /\ ~list'.error
      BY <1>3, <2>2 DEF PreviousPage
    <3> QED BY <3>1 DEF ListInv, ListIsCurrent
  <2> QED BY <2>1, <2>2
<1>4. CASE ListResponds
  <2>1. /\ list'.request = "none" /\ ~list'.loading /\ list'.error = list.error
        /\ list'.items = <<search.query, search.page>>
    BY <1>4 DEF ListResponds
  <2>2. search'.query = search.query /\ search'.page = search.page
    BY <1>4 DEF ListResponds
  <2>3. list.error => "list" \in disturbed'
    BY <1>4 DEF ListInv, ListResponds
  <2> QED BY <2>1, <2>2, <2>3 DEF ListInv, ListIsCurrent
<1>5. CASE ListFails
  <2>1. /\ list'.request = "none" /\ ~list'.loading /\ list'.error
        /\ list'.items = Nothing
    BY <1>5 DEF ListFails
  <2> QED BY <2>1 DEF ListInv, ListIsCurrent
<1>6. CASE ListErrorHeaders
  <2>1. /\ list'.loading = list.loading /\ list'.error = list.error
        /\ list'.items = list.items /\ list.request # "none"
    BY <1>6 DEF ListErrorHeaders
  <2> QED BY <1>6, <2>1 DEF ListErrorHeaders, ListInv, ListIsCurrent
<1>7. CASE StaleListFails
  <2>1. /\ list'.error /\ list'.loading = list.loading /\ list'.request = list.request
    BY <1>7 DEF StaleListFails
  <2>2. "list" \in disturbed'
    BY <1>7 DEF StaleListFails
  <2> QED BY <2>1, <2>2 DEF ListInv, ListIsCurrent
<1>8. CASE DetailActs
  BY <1>8, DetailFrame DEF ListInv, ListIsCurrent
<1>9. CASE PanelActs
  BY <1>9, PanelFrame DEF ListInv, ListIsCurrent
<1>10. CASE UNCHANGED vars
  BY <1>10 DEF vars, ListInv, ListIsCurrent
<1> QED
  BY <1>1, <1>2, <1>3, <1>4, <1>5, <1>6, <1>7, <1>8, <1>9, <1>10, NextParts
     DEF ListActs, ListEnds

\* With nothing being loaded, the list shown is that of the query and the page
\* asked for last, or its error (App.tsx 260-295).
THEOREM ListMatches == Spec => []ListIsCurrent
<1>1. Init => Typed /\ ListInv
  BY TypeInit, InvInit
<1>2. Typed /\ ListInv /\ [Next]_vars => (Typed /\ ListInv)'
  BY TypeStep, ListStep
<1>3. ListInv => ListIsCurrent
  BY DEF ListInv
<1> QED BY <1>1, <1>2, <1>3, PTL DEF Spec

-----------------------------------------------------------------------------
(* The scanner run panel.                                                  *)

LEMMA PanelStep ==
  ASSUME Typed, PanelInv, [Next]_vars
  PROVE  PanelInv'
<1> USE DEF Typed, PanelTyped, PanelTypes
<1>1. ASSUME NEW run \in Runs \cup {NoRun}, NEW shown, ReloadRun(run, shown)
      PROVE  PanelInv'
  <2>1. /\ panel'.run = run /\ panel'.loading = (run # NoRun) /\ ~panel'.error
        /\ panel'.request = IF run = NoRun THEN "none" ELSE "waiting"
    BY <1>1 DEF ReloadRun
  <2> QED BY <2>1 DEF PanelInv, PanelIsCurrent
<1>2. CASE PanelClicks
  BY <1>1, <1>2 DEF PanelClicks, SelectRun, CloseRun, RetryRun
<1>3. CASE RunResponds
  <2>1. /\ panel'.run = panel.run /\ panel'.shown = panel.run /\ ~panel'.loading
        /\ panel'.request = "none" /\ panel'.error = panel.error
    BY <1>3 DEF RunResponds
  <2>2. panel.error => "run" \in disturbed'
    BY <1>3 DEF RunResponds, PanelInv
  <2> QED BY <2>1, <2>2 DEF PanelInv, PanelIsCurrent
<1>4. CASE RunFails
  <2>1. /\ panel'.shown = NoRun /\ ~panel'.loading
        /\ panel'.request = "none" /\ panel'.error
    BY <1>4 DEF RunFails
  <2> QED BY <2>1 DEF PanelInv, PanelIsCurrent
<1>5. CASE RunErrorHeaders
  <2>1. /\ panel'.run = panel.run /\ panel'.shown = panel.shown
        /\ panel'.loading = panel.loading /\ panel'.error = panel.error
        /\ panel.request # "none" /\ disturbed' = disturbed
    BY <1>5 DEF RunErrorHeaders
  <2> QED BY <2>1 DEF PanelInv, PanelIsCurrent
<1>6. CASE StaleRunFails
  <2>1. CASE UNCHANGED <<panel, disturbed>>
    BY <2>1 DEF PanelInv, PanelIsCurrent
  <2>2. CASE /\ panel' = [panel EXCEPT !.error = TRUE, !.shown = NoRun]
             /\ disturbed' = disturbed \cup {"run"}
    <3>1. /\ panel'.error /\ panel'.loading = panel.loading
          /\ panel'.request = panel.request /\ "run" \in disturbed'
      BY <2>2
    <3> QED BY <3>1 DEF PanelInv, PanelIsCurrent
  <2> QED BY <1>6, <2>1, <2>2 DEF StaleRunFails
<1>7. CASE DetailActs
  BY <1>7, DetailFrame DEF PanelInv, PanelIsCurrent
<1>8. CASE ListActs
  BY <1>8, ListFrame DEF PanelInv, PanelIsCurrent
<1>9. CASE UNCHANGED vars
  BY <1>9 DEF vars, PanelInv, PanelIsCurrent
<1> QED
  BY <1>2, <1>3, <1>4, <1>5, <1>6, <1>7, <1>8, <1>9, NextParts DEF PanelActs, RunEnds

\* With nothing being loaded, the panel of a scanner run shows that run, or its
\* error alone (App.tsx 314-344).
THEOREM PanelMatches == Spec => []PanelIsCurrent
<1>1. Init => Typed /\ PanelInv
  BY TypeInit, InvInit
<1>2. Typed /\ PanelInv /\ [Next]_vars => (Typed /\ PanelInv)'
  BY TypeStep, PanelStep
<1>3. PanelInv => PanelIsCurrent
  BY DEF PanelInv
<1> QED BY <1>1, <1>2, <1>3, PTL DEF Spec

-----------------------------------------------------------------------------
(* The selected stock.                                                     *)

\* A load that starts is for what is passed to it; without a stock none does.
LEMMA LoadStarts ==
  ASSUME NEW s, NEW r, NEW f, NEW m, LoadDetail(s, r, f, m)
  PROVE  /\ s = NoStock => load'.phase = "none"
         /\ s # NoStock => load'.phase = "waiting" /\ load'.key = <<s, r, f>>
BY DEF LoadDetail, NoLoad

\* A load that starts for what is selected satisfies the invariant.
LEMMA LoadChartInv ==
  ASSUME LoadDetail(selected', range', frequency', mode')
  PROVE  ChartInv'
BY LoadStarts DEF ChartInv, ChartIsCurrent, Settled

LEMMA ChartStep ==
  ASSUME Typed, ChartInv, [Next]_vars
  PROVE  ChartInv'
<1> USE DEF Typed, LoadTyped, LoadTypes, ViewTyped, ViewTypes
<1>1. CASE UNCHANGED chart
  BY <1>1 DEF chart, ChartInv, ChartIsCurrent, Settled
<1>2. ASSUME NEW q \in Queries, NEW r \in Ranges, NEW edited \in BOOLEAN,
             SubmitSearch(q, r, edited)
      PROVE  ChartInv'
  <2>1. CASE edited
    BY <1>2, <2>1, LoadChartInv DEF SubmitSearch
  <2>2. CASE ~edited
    BY <1>2, <2>2, <1>1 DEF SubmitSearch, chart
  <2> QED BY <2>1, <2>2
<1>3. CASE NextPage \/ PreviousPage \/ RetryList \/ ListErrorHeaders
  BY <1>3, <1>1 DEF NextPage, PreviousPage, RetryList, ListErrorHeaders
<1>4. CASE ListEnds \/ StaleListFails
  <2>1. due'
    BY <1>4 DEF ListEnds, ListResponds, ListFails, StaleListFails, DropList
  <2> QED BY <2>1 DEF ChartInv, ChartIsCurrent, Settled
<1>5. CASE DetailClicks
  <2>1. ASSUME NEW stock \in Stocks, SelectStock(stock) PROVE ChartInv'
    <3>1. mode' = "sync" /\ selected' = stock
      BY <2>1 DEF SelectStock, ShowStock
    <3> QED BY <2>1, <3>1, LoadChartInv DEF SelectStock
  <2>2. ASSUME NEW f \in Frequencies, ChangeInterval(f) PROVE ChartInv'
    BY <2>2, LoadChartInv DEF ChangeInterval
  <2>3. CASE RetryDetail
    BY <2>3, LoadChartInv DEF RetryDetail
  <2> QED BY <1>5, <2>1, <2>2, <2>3 DEF DetailClicks
<1>6. CASE DetailEffect
  BY <1>6, LoadChartInv DEF DetailEffect
<1>7. CASE DetailSucceeds
  <2>1. /\ view'.prices = load.key /\ load'.phase = "none" /\ load.phase # "none"
        /\ UNCHANGED <<selected, range, frequency, due>>
    BY <1>7 DEF DetailSucceeds, NoLoad
  <2> QED BY <2>1 DEF ChartInv, ChartIsCurrent, Settled
<1>8. CASE DetailErrorHeaders
  <2>1. /\ load.phase # "none" /\ load'.phase # "none" /\ load'.key = load.key
        /\ UNCHANGED <<selected, range, frequency, due>>
    BY <1>8 DEF DetailErrorHeaders
  <2> QED BY <2>1 DEF ChartInv, ChartIsCurrent, Settled
<1>9. CASE SyncFails
  <2>1. /\ load.phase # "none" /\ load'.phase # "none" /\ load'.key = load.key
        /\ UNCHANGED <<selected, range, frequency, due>>
    BY <1>9 DEF SyncFails
  <2> QED BY <2>1 DEF ChartInv, ChartIsCurrent, Settled
<1>10. CASE DetailFails
  <2>1. view'.error /\ load'.phase = "none"
    BY <1>10 DEF DetailFails, NoLoad
  <2> QED BY <2>1 DEF ChartInv, ChartIsCurrent, Settled
<1>11. CASE StaleDetailFails
  <2>1. UNCHANGED <<selected, range, frequency, due, load>>
    BY <1>11 DEF StaleDetailFails
  <2>2. view'.error \/ UNCHANGED view
    BY <1>11 DEF StaleDetailFails
  <2> QED BY <2>1, <2>2 DEF ChartInv, ChartIsCurrent, Settled
<1>12. CASE PanelActs \/ UNCHANGED vars
  BY <1>12, <1>1, PanelFrame DEF vars
<1> QED
  BY <1>2, <1>3, <1>4, <1>5, <1>6, <1>7, <1>8, <1>9, <1>10, <1>11, <1>12, NextParts
     DEF ListActs, Submits, DetailActs, DetailEnds

\* With nothing in flight for the selected stock and no error shown, the chart
\* and the signals are those of the selected stock, the applied range and the
\* chart's frequency (App.tsx 346-446).
THEOREM ChartMatches == Spec => []ChartIsCurrent
<1>1. Init => Typed /\ ChartInv
  BY TypeInit, InvInit
<1>2. Typed /\ ChartInv /\ [Next]_vars => (Typed /\ ChartInv)'
  BY TypeStep, ChartStep
<1>3. ChartInv => ChartIsCurrent
  BY DEF ChartInv
<1> QED BY <1>1, <1>2, <1>3, PTL DEF Spec

-----------------------------------------------------------------------------
(* Errors and warnings.                                                    *)

LEMMA MessagesStep ==
  ASSUME Typed, MessagesInv, [Next]_vars
  PROVE  MessagesInv'
<1> USE DEF Typed, LoadTyped, LoadTypes, ViewTyped, ViewTypes, ListTyped, ListTypes
<1>1. CASE UNCHANGED <<chart, list>> /\ ("detail" \in disturbed => "detail" \in disturbed')
  BY <1>1 DEF chart, MessagesInv, Settled
<1>2. CASE Submits \/ NextPage \/ RetryList
  BY <1>2, ReloadListInv
     DEF Submits, SubmitSearch, NextPage, RetryList, MessagesInv
<1>3. CASE PreviousPage
  <2>1. CASE search.page > 0
    BY <1>3, <2>1, ReloadListInv DEF PreviousPage, MessagesInv
  <2>2. CASE ~(search.page > 0)
    <3>1. list'.request = list.request
      BY <1>3, <2>2 DEF PreviousPage
    <3>2. UNCHANGED chart /\ ("detail" \in disturbed => "detail" \in disturbed')
      BY <1>3, <2>2 DEF PreviousPage
    <3> QED BY <3>1, <3>2 DEF chart, MessagesInv, Settled
  <2> QED BY <2>1, <2>2
<1>4. CASE ListResponds
  <2>1. PICK first, m : ShowStock(first, m)
    BY <1>4 DEF ListResponds
  <2>2. selected' # NoStock => ~view'.error /\ ~view'.warning
    BY <2>1 DEF ShowStock
  <2>3. due'
    BY <1>4 DEF ListResponds
  <2> QED BY <2>2, <2>3 DEF MessagesInv, Settled
<1>5. CASE ListFails \/ StaleListFails
  <2>1. selected' = NoStock
    BY <1>5 DEF ListFails, StaleListFails, DropList, ShowStock
  <2> QED BY <2>1 DEF MessagesInv
<1>6. CASE ListErrorHeaders
  <2>1. list'.request = "body"
    BY <1>6 DEF ListErrorHeaders
  <2> QED BY <2>1 DEF MessagesInv
<1>7. CASE \E stock \in Stocks : SelectStock(stock)
  <2>1. PICK stock \in Stocks : SelectStock(stock)
    BY <1>7
  <2>2. ~view'.error /\ ~view'.warning
    BY <2>1 DEF SelectStock, ShowStock
  <2>3. load'.phase = "waiting"
    BY <2>1, LoadStarts DEF SelectStock
  <2> QED BY <2>2, <2>3 DEF MessagesInv, Settled
<1>8. CASE \E f \in Frequencies : ChangeInterval(f)
  <2>1. PICK f \in Frequencies : ChangeInterval(f)
    BY <1>8
  <2>2. ~view'.error /\ ~view'.warning
    BY <2>1 DEF ChangeInterval
  <2>3. load'.phase = "waiting"
    BY <2>1, LoadStarts DEF ChangeInterval
  <2> QED BY <2>2, <2>3 DEF MessagesInv, Settled
<1>9. CASE RetryDetail
  <2>1. ~view'.error /\ view'.warning = view.warning
    BY <1>9 DEF RetryDetail
  <2>2. load'.phase = "waiting"
    BY <1>9, LoadStarts DEF RetryDetail
  <2>3. view.error /\ UNCHANGED <<selected, list, disturbed>>
    BY <1>9 DEF RetryDetail
  <2> QED BY <2>1, <2>2, <2>3 DEF MessagesInv, Settled
<1>10. CASE DetailEffect
  <2>1. selected # NoStock => load'.phase = "waiting"
    BY <1>10, LoadStarts DEF DetailEffect
  <2>2. due /\ UNCHANGED <<selected, list, disturbed, view>>
    BY <1>10 DEF DetailEffect
  <2> QED BY <2>1, <2>2 DEF MessagesInv, Settled
<1>11. CASE DetailSucceeds
  <2>1. /\ view'.cached = (load.phase = "fallback") /\ view'.error = view.error
        /\ view'.warning = (load.phase = "fallback" \/ view.warning)
        /\ load.phase # "none" /\ load'.phase = "none"
    BY <1>11 DEF DetailSucceeds, NoLoad
  <2>2. /\ disturbed' = IF due THEN disturbed \cup {"detail"} ELSE disturbed
        /\ UNCHANGED <<selected, list, due>>
    BY <1>11 DEF DetailSucceeds, Landing
  <2> QED BY <2>1, <2>2 DEF MessagesInv, Settled
<1>12. CASE DetailErrorHeaders \/ SyncFails
  <2>1. load.phase # "none" /\ load'.phase # "none"
    BY <1>12 DEF DetailErrorHeaders, SyncFails
  <2>2. UNCHANGED <<selected, list, disturbed, view>>
    BY <1>12 DEF DetailErrorHeaders, SyncFails
  <2> QED BY <2>1, <2>2 DEF MessagesInv, Settled
<1>13. CASE DetailFails
  <2>1. /\ view'.prices = Nothing /\ view'.error /\ view'.warning = view.warning
        /\ load.phase # "none" /\ load'.phase = "none"
    BY <1>13 DEF DetailFails, NoLoad
  <2>2. /\ disturbed' = IF due THEN disturbed \cup {"detail"} ELSE disturbed
        /\ UNCHANGED <<selected, list, due>>
    BY <1>13 DEF DetailFails, Landing
  <2> QED BY <2>1, <2>2 DEF MessagesInv, Settled
<1>14. CASE StaleDetailFails
  <2>1. "detail" \in disturbed' \/ UNCHANGED <<view, disturbed>>
    BY <1>14 DEF StaleDetailFails
  <2>2. UNCHANGED <<selected, list, due, load>>
    BY <1>14 DEF StaleDetailFails
  <2> QED BY <2>1, <2>2 DEF MessagesInv, Settled
<1>15. CASE PanelActs \/ UNCHANGED vars
  BY <1>15, <1>1, PanelFrame DEF vars
<1> QED
  BY <1>2, <1>3, <1>4, <1>5, <1>6, <1>7, <1>8, <1>9, <1>10, <1>11, <1>12, <1>13,
     <1>14, <1>15, NextParts
     DEF ListActs, ListEnds, DetailActs, DetailClicks, DetailEnds

\* With the list answered too, an error is shown only if the last load failed,
\* and the warning that cached records are shown exactly if they are, unless
\* an abandoned request has had an effect (App.tsx 206-247, 388-432).
THEOREM MessagesMatch == Spec => []MessagesAreCurrent
<1>1. Init => Typed /\ MessagesInv
  BY TypeInit, InvInit
<1>2. Typed /\ MessagesInv /\ [Next]_vars => (Typed /\ MessagesInv)'
  BY TypeStep, MessagesStep
<1>3. MessagesInv => MessagesAreCurrent
  BY DEF MessagesInv, MessagesAreCurrent
<1> QED BY <1>1, <1>2, <1>3, PTL DEF Spec

-----------------------------------------------------------------------------
(* A search is synchronised.                                               *)

LEMMA SearchStep ==
  ASSUME Typed, SearchInv, [Next]_vars
  PROVE  SearchInv'
<1> USE DEF Typed, SearchTyped
<1>1. CASE Submits
  BY <1>1 DEF Submits, SubmitSearch, SearchInv
<1>2. CASE NextPage \/ ListEnds \/ StaleListFails
  <2>1. ~owed'
    BY <1>2 DEF NextPage, ListEnds, ListResponds, ListFails, StaleListFails, DropList
  <2> QED BY <2>1 DEF SearchInv
<1>3. CASE PreviousPage
  BY <1>3 DEF PreviousPage, SearchInv
<1>4. CASE RetryList \/ ListErrorHeaders
  BY <1>4 DEF RetryList, ListErrorHeaders, SearchInv
<1>5. CASE DetailActs
  BY <1>5, DetailFrame DEF SearchInv
<1>6. CASE PanelActs \/ UNCHANGED vars
  BY <1>6, PanelFrame DEF vars, SearchInv
<1> QED BY <1>1, <1>2, <1>3, <1>4, <1>5, <1>6, NextParts DEF ListActs

\* The step in which the list of such a search arrives.
Arrives == owed /\ list.request # "none" /\ list'.request = "none" /\ ~list'.error

LEMMA ArrivalSynchronises ==
  ASSUME Typed, SearchInv, [Next]_vars, Arrives
  PROVE  selected' = NoStock \/ (mode' = "sync" /\ due')
<1> USE DEF Typed, ListTyped, ListTypes
<1>1. CASE ListResponds
  <2>1. search.pending /\ search.page = 0
    BY DEF Arrives, SearchInv
  <2>2. PICK first : ShowStock(first, "sync")
    BY <1>1, <2>1 DEF ListResponds
  <2> QED BY <1>1, <2>2 DEF ListResponds, ShowStock
<1>2. CASE Submits \/ NextPage \/ RetryList
  BY <1>2, ReloadListInv DEF Submits, SubmitSearch, NextPage, RetryList, Arrives
<1>3. CASE PreviousPage
  <2>1. list'.request = "waiting" \/ list'.request = list.request
    BY <1>3 DEF PreviousPage, ReloadList
  <2> QED BY <2>1 DEF Arrives
<1>4. CASE ListFails \/ ListErrorHeaders \/ StaleListFails
  <2>1. list'.error \/ list'.request # "none"
    BY <1>4 DEF ListFails, ListErrorHeaders, StaleListFails
  <2> QED BY <2>1 DEF Arrives
<1>5. CASE DetailActs
  BY <1>5, DetailFrame DEF Arrives
<1>6. CASE PanelActs \/ UNCHANGED vars
  BY <1>6, PanelFrame DEF vars, Arrives
<1> QED BY <1>1, <1>2, <1>3, <1>4, <1>5, <1>6, NextParts DEF ListActs, ListEnds

\* The first list received after a search that nothing has superseded selects
\* its stock to be synchronised (App.tsx 260-295, 448-475).
THEOREM SearchesSynchronise == Spec => SearchSynchronises
<1>1. Init => Typed /\ SearchInv
  BY TypeInit, InvInit
<1>2. Typed /\ SearchInv /\ [Next]_vars => (Typed /\ SearchInv)'
  BY TypeStep, SearchStep
<1>3. Typed /\ SearchInv /\ [Next]_vars
        => [owed /\ list.request # "none" /\ list'.request = "none" /\ ~list'.error
              => selected' = NoStock \/ (mode' = "sync" /\ due')]_vars
  BY ArrivalSynchronises DEF Arrives
<1> QED BY <1>1, <1>2, <1>3, PTL DEF Spec, SearchSynchronises
=============================================================================
