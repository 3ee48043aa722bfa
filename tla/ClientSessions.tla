--------------------------- MODULE ClientSessions ---------------------------
(***************************************************************************)
(* What the class-wide locks of the two BaoStock clients promise: within   *)
(* one client class, sessions are open one at a time.                      *)
(***************************************************************************)
CONSTANTS Classes,   \* the client classes
          Requests   \* the requests that use a client

VARIABLE open        \* for each class, the requests with an open session

Init == open = [c \in Classes |-> {}]

OpenSession(c, r) == open[c] = {} /\ open' = [open EXCEPT ![c] = {r}]
CloseSession(c)   == open[c] # {} /\ open' = [open EXCEPT ![c] = {}]

Next == \E c \in Classes : CloseSession(c) \/ \E r \in Requests : OpenSession(c, r)

Spec == Init /\ [][Next]_open
=============================================================================
