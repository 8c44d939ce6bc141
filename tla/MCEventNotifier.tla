--------------------------- MODULE MCEventNotifier ---------------------------
(* EventNotifier with one worker and one batch processor per Start.           *)
EXTENDS EventNotifier

CONSTANTS e1, e2, h1, h2
\* One event for both webhooks, one for the first only.
TwoAndOne == [e \in Events |-> IF e = e1 THEN {h1, h2} ELSE {h1}]
==============================================================================
