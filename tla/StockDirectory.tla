---------------------------- MODULE StockDirectory ----------------------------
(***************************************************************************)
(* Where the server finds stocks: the database first, then the manifest of *)
(* the local cache without the stocks the database has (get_stocks and the *)
(* resolvers of backend/app/api/routes.py, list_stocks and find_stocks of  *)
(* api/repository.py and services/local_daily_cache.py).  A stock is a     *)
(* record whose words are the queries that find it: the database looks in  *)
(* symbols and names, the cache also in full codes.  Exchanges and symbols *)
(* are numbers, ordered as both sides sort them; NotGiven stands for a     *)
(* query, an exchange or a symbol's suffix that is not given.              *)
(***************************************************************************)
EXTENDS Integers, Sequences, FiniteSets

CONSTANTS Exchanges, NotGiven

ASSUME DirectoryAssumption == Exchanges \subseteq Int /\ NotGiven \notin Exchanges

key(stock) == <<stock.exchange, stock.symbol>>
Keys(stocks) == {key(s) : s \in stocks}

Before(a, b) ==
  \/ a.exchange < b.exchange
  \/ a.exchange = b.exchange /\ a.symbol < b.symbol

\* The rows of a query by exchange and symbol, which no two stocks share.
InOrder(stocks) ==
  [i \in 1 .. Cardinality(stocks) |->
     CHOOSE s \in stocks : Cardinality({t \in stocks : Before(t, s)}) = i - 1]

Slice(s, offset, limit) ==
  SubSeq(s, offset + 1, IF offset + limit < Len(s) THEN offset + limit ELSE Len(s))

Asked(stock, filter) ==
  /\ stock.status = filter.status
  /\ filter.exchange \in {NotGiven, stock.exchange}

-----------------------------------------------------------------------------
(* api/repository.py *)

InDatabase(database, filter) ==
  {s \in database : Asked(s, filter) /\ filter.query \in s.words \cup {NotGiven}}

list_stocks(database, filter) == InOrder(InDatabase(database, filter))

find_stocks(stocks, symbol, exchange) ==
  {s \in stocks : s.symbol = symbol /\ exchange \in {NotGiven, s.exchange}}

(* services/local_daily_cache.py *)

InCache(cache, filter, exclude_keys) ==
  {s \in cache : /\ Asked(s, filter)
                 /\ key(s) \notin exclude_keys
                 /\ filter.query \in s.words \cup s.codes \cup {NotGiven}}

cached_list_stocks(cache, filter, exclude_keys) ==
  InOrder(InCache(cache, filter, exclude_keys))

(* api/routes.py *)

\* Defect used to test PagesListEveryStock: the cached part starts at the page's own
\* offset.
page_with_its_own_offset(database, cache, filter, limit, offset) ==
  LET matching == list_stocks(database, filter)
      stocks == Slice(matching, offset, limit)
      local_stocks == cached_list_stocks(cache, filter, Keys(database))
  IN [items |-> stocks \o Slice(local_stocks, offset, limit - Len(stocks)),
      total |-> Len(matching) + Len(local_stocks)]

\* The database's page, then cached stocks up to the limit.
get_stocks(database, cache, filter, limit, offset) ==
  LET matching == list_stocks(database, filter)
      stocks == Slice(matching, offset, limit)
      local_stocks == cached_list_stocks(cache, filter, Keys(database))
      local_offset == IF offset > Len(matching) THEN offset - Len(matching) ELSE 0
  IN [items |-> stocks \o Slice(local_stocks, local_offset, limit - Len(stocks)),
      total |-> Len(matching) + Len(local_stocks)]

\* A symbol's suffix and an exchange must each be known, and agree.
stock_locator(request) ==
  LET given == {request.suffix, request.exchange} \ {NotGiven}
  IN CASE ~(given \subseteq Exchanges) \/ Cardinality(given) = 2 -> {}
       [] given = {} -> {[symbol |-> request.symbol, exchange |-> NotGiven]}
       [] OTHER -> {[symbol |-> request.symbol, exchange |-> e] : e \in given}

\* The stock that answers a request among those of the first place that has any.
Resolved(first, second, request) ==
  LET located == stock_locator(request)
      Found(stocks) == UNION {find_stocks(stocks, l.symbol, l.exchange) : l \in located}
      matches == IF Found(first) # {} THEN Found(first) ELSE Found(second)
  IN CASE located = {} -> "unsupported_stock_symbol"
       [] located # {} /\ matches = {} -> "stock_not_found"
       [] Cardinality(matches) > 1 -> "ambiguous_stock_symbol"
       [] OTHER -> CHOOSE s \in matches : TRUE

resolve_stock(database, cache, request) == Resolved(database, cache, request)

\* The price endpoints look in the cache first, and then in the database.
resolve_priced_stock(database, cache, request) == Resolved(cache, database, request)

-----------------------------------------------------------------------------

\* A stock's symbol with its exchange, given once or twice, finds its record among the
\* listed, and in the price endpoints the same stock.
LeadsBack(database, cache, s) ==
  \A suffix \in Exchanges \cup {NotGiven}, exchange \in Exchanges \cup {NotGiven} :
    LET request == [symbol |-> s.symbol, suffix |-> suffix, exchange |-> exchange]
        found == resolve_stock(database, cache, request)
        priced == resolve_priced_stock(database, cache, request)
    IN {suffix, exchange} \ {NotGiven} = {s.exchange} => found = s /\ key(priced) = key(s)

\* Following the offsets to the total shows each stock that matches at exactly one place
\* of one page, with the database's record of it where there is one, and each listed stock
\* is the one its symbol and exchange lead to, in every endpoint.
ListedOnce(database, cache, filter, limit) ==
  LET total == get_stocks(database, cache, filter, limit, 0).total
      pages == 1 .. ((total + limit - 1) \div limit)
      page(p) == get_stocks(database, cache, filter, limit, (p - 1) * limit)
      wanted == InDatabase(database, filter) \cup InCache(cache, filter, Keys(database))
      Shows(p, i, s) == i <= Len(page(p).items) /\ page(p).items[i] = s
  IN /\ total = Cardinality(wanted)
     /\ \A p \in pages : /\ page(p).total = total /\ Len(page(p).items) <= limit
                         /\ \A i \in 1 .. Len(page(p).items) : page(p).items[i] \in wanted
     /\ \A s \in wanted : \E p \in pages, i \in 1 .. limit :
          /\ Shows(p, i, s)
          /\ \A q \in pages, j \in 1 .. limit : Shows(q, j, s) => q = p /\ j = i
     /\ \A s \in wanted : LeadsBack(database, cache, s)
=============================================================================
