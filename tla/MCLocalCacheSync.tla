------------------------- MODULE MCLocalCacheSync -------------------------
(* Small instances of LocalCacheSync: five dates, a stock listed on the
   second, with a date between traded ones that has no bar. *)
EXTENDS LocalCacheSync, TLC

WorkerSymmetry == Permutations(Workers)
=============================================================================
