----------------------------- MODULE MCScanRun -----------------------------
(* Small instances of ScanRun: two stocks and two rules, scans that ask for
   the rules in both orders. *)
EXTENDS ScanRun, TLC

CONSTANTS cross, spike, k1, k2

BothOrders == {<<cross, spike>>, <<spike, cross>>}
AllOrOne == {{}, {k1}}

TooShort == [insufficient |-> {cross, spike}, matches |-> {}]
Partly == [insufficient |-> {cross}, matches |-> {spike}]
Matching == [insufficient |-> {}, matches |-> {cross, spike}]
AllShapes == {TooShort, Partly, Matching}
=============================================================================
