---------------------------- MODULE PriceLedger -----------------------------
(***************************************************************************)
(* What the database price cache of one stock promises, whatever requests, *)
(* locks and provider sessions implement it: bars are only ever added, and *)
(* a session may be settled (never asked for again) only once its bar is   *)
(* stored or a provider has been seen not to have it on a later day.       *)
(***************************************************************************)
EXTENDS Naturals

CONSTANTS Days,     \* the dates of the model
          OpenDays  \* the dates the exchange calendar calls sessions

VARIABLES bars,     \* sessions whose daily bar is stored
          absent,   \* sessions a provider did not have after their own day
          settled   \* dates no later request will ask a provider about

vars == <<bars, absent, settled>>

Justified(S, B, A) == S \cap OpenDays \subseteq B \cup A

Init == bars = {} /\ absent = {} /\ settled = {}

\* A provider answers without a bar for the sessions D.
LearnAbsent ==
  /\ absent' \in SUBSET Days
  /\ absent \subseteq absent'
  /\ UNCHANGED <<bars, settled>>

\* Bars arrive, and in the same atomic step more dates become settled.
Record ==
  /\ bars' \in SUBSET Days /\ bars \subseteq bars'
  /\ settled' \in SUBSET Days /\ settled \subseteq settled'
  /\ Justified(settled', bars', absent)
  /\ UNCHANGED absent

Next == LearnAbsent \/ Record

Spec == Init /\ [][Next]_vars
=============================================================================
