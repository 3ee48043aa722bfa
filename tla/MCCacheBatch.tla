--------------------------- MODULE MCCacheBatch ---------------------------
(* Three securities, one of them not to be fetched. *)
EXTENDS CacheBatch
CONSTANTS s1, s2, fund
MCSecurities == <<s1, fund, s2>>
MCFetchable == {s1, s2}
=============================================================================
