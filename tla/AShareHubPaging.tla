---------------------------- MODULE AShareHubPaging ----------------------------
(***************************************************************************)
(* The paging client of scanner/ingestion/asharehub_provider.py, over a    *)
(* service whose tables change between two requests.  service[n] is what   *)
(* the n-th request of the client's life meets: the rows each endpoint     *)
(* serves, and whether the answer is an error.  One budget of max_requests *)
(* is shared by every endpoint, code and page.                             *)
(***************************************************************************)
EXTENDS MarketDataBatches, ListOrder

Exhausted == [complete |-> FALSE]

\* The rows of one page, by limit and offset in the order served.
Page(rows, size, offset) ==
  SubSeq(rows, offset + 1, IF offset + size < Len(rows) THEN offset + size ELSE Len(rows))

\* The rows of endpoint asked for, in their order: all of them, or those of one code.
Places(rows, codes) == {i \in DOMAIN rows : rows[i].stock \in codes}
Served(rows, codes) == Picked(rows, Places(rows, codes))

\* Defect used to test LoadIsComplete: a client out of requests answers with the
\* pages it has.
get_some_pages(client, endpoint, codes, request_count) ==
  LET pages[k \in 0 .. client.max_requests] ==
        LET n == request_count + k + 1
            page == Page(Served(client.service[n][endpoint], codes),
                         client.page_size, k * client.page_size)
        IN IF n > client.max_requests THEN [complete |-> TRUE, rows |-> <<>>, request_count |-> n - 1]
           ELSE IF client.service[n].error THEN Exhausted
           ELSE IF Len(page) < client.page_size
           THEN [complete |-> TRUE, rows |-> page, request_count |-> n]
           ELSE IF pages[k + 1].complete THEN [pages[k + 1] EXCEPT !.rows = page \o @]
           ELSE Exhausted
  IN pages[0]

\* The pages from the k-th on, asked for by the requests after request_count: one
\* shorter than the limit is the last.
get_all_pages(client, endpoint, codes, request_count) ==
  LET pages[k \in 0 .. client.max_requests] ==
        LET n == request_count + k + 1
            page == Page(Served(client.service[n][endpoint], codes),
                         client.page_size, k * client.page_size)
        IN IF n > client.max_requests \/ client.service[n].error THEN Exhausted
           ELSE IF Len(page) < client.page_size
           THEN [complete |-> TRUE, rows |-> page, request_count |-> n]
           ELSE IF pages[k + 1].complete THEN [pages[k + 1] EXCEPT !.rows = page \o @]
           ELSE Exhausted
  IN pages[0]

\* One listing of everything when no code is given, else one listing per code.
load_payloads(client, endpoint, request_count) ==
  LET listed[k \in 0 .. Len(client.ts_codes)] ==
        IF k = 0 THEN [complete |-> TRUE, rows |-> <<>>, request_count |-> request_count]
        ELSE LET so_far == listed[k - 1]
                 more == get_all_pages(client, endpoint, {client.ts_codes[k]}, so_far.request_count)
             IN IF so_far.complete /\ more.complete THEN [more EXCEPT !.rows = so_far.rows \o @]
                ELSE Exhausted
  IN IF client.ts_codes = <<>>
     THEN get_all_pages(client, endpoint, client.codes, request_count)
     ELSE listed[Len(client.ts_codes)]

\* Stocks first, unless the caller knows them, and prices with what the budget has
\* left.
load(client, request_count) ==
  LET stocks == IF client.known_stocks # <<>>
                THEN [complete |-> TRUE, rows |-> <<>>, request_count |-> request_count]
                ELSE load_payloads(client, "stocks", request_count)
  IN IF ~stocks.complete THEN Rejected
     ELSE LET prices == load_payloads(client, "prices", stocks.request_count)
          IN IF prices.complete
             THEN asharehub_batch(client.known_stocks, stocks.rows, prices.rows)
             ELSE Rejected

\* AShareHubHistoryClient: the calendar of an exchange as a set of sessions...
load_open_dates(client, exchange, request_count) ==
  LET answer == get_all_pages(client, "calendar", {exchange}, request_count)
  IN IF answer.complete /\ \A r \in Rows(answer.rows) : Readable(r.cal_date)
     THEN [complete |-> TRUE, sessions |-> {r.cal_date : r \in Rows(answer.rows)},
           request_count |-> answer.request_count]
     ELSE Exhausted

\* ...and then the prices of one stock, on the same budget.
load_history(client, exchange) ==
  LET dates == load_open_dates(client, exchange, 0)
  IN IF dates.complete
     THEN [batch |-> load(client, dates.request_count), sessions |-> dates.sessions]
     ELSE [batch |-> Rejected, sessions |-> {}]

-----------------------------------------------------------------------------

\* Nothing that the service held from the first request on is missing from an accepted
\* batch, when rows are only added meanwhile, wherever they sort...
NothingLeftOut(client, batch) ==
  batch.accepted =>
    LET asked == IF client.ts_codes = <<>> THEN client.codes ELSE Rows(client.ts_codes)
        first == client.service[1]
    IN /\ client.known_stocks = <<>> =>
            \A s \in Rows(first.stocks) : s.stock \in asked => s \in Rows(batch.stocks)
       /\ \A p \in Rows(first.prices) :
            p.stock \in asked =>
              price_record(p) \in Rows(batch.daily_prices) \/ p.stock \in batch.warnings

\* ...nor from the sessions it comes with.
HistoryIsWhole(client, exchange, history) ==
  /\ NothingLeftOut(client, history.batch)
  /\ history.batch.accepted =>
       \A r \in Rows(client.service[1].calendar) :
         r.stock = exchange => r.cal_date \in history.sessions
=============================================================================
