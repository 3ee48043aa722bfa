---------------------------- MODULE MCDashboard ----------------------------
(* Small instances of Dashboard: the empty query has two pages, a search one. *)
EXTENDS Dashboard, TLC

CONSTANTS k1, k2, every, some

TwoPages == (every :> <<k1, k2>>) @@ (some :> <<k2>>)
=============================================================================
