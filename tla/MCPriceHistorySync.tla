------------------------ MODULE MCPriceHistorySync ------------------------
(* Small instances of PriceHistorySync: a week of four dates whose third is
   a closed day, a stock suspended on the second session. *)
EXTENDS PriceHistorySync, TLC

MCListings == {[list_date |-> 0, delist_date |-> NoDelist],
               [list_date |-> 2, delist_date |-> NoDelist]}

OneListing == {[list_date |-> 0, delist_date |-> NoDelist]}

WorkerSymmetry == Permutations(Workers)
=============================================================================
