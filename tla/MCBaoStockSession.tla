------------------------- MODULE MCBaoStockSession -------------------------
(* Three database requests for two connections, and one cache request. *)
EXTENDS BaoStockSession
CONSTANTS d1, d2, d3, c1
MCDatabaseRequests == {d1, d2, d3}
MCCacheRequests == {c1}
=============================================================================
