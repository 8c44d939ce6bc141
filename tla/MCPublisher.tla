---------------------------- MODULE MCPublisher ------------------------------
(* Instance of Publisher for TLC. *)
EXTENDS Publisher, TLC

CONSTANTS u1, u2

\* One user calls PublishWithRetry with confirms, the other PublishBatch
\* without, and HealthCheck.
Calls == u1 :> {[n |-> 1, confirm |-> TRUE, retries |-> 1]}
         @@ u2 :> {[n |-> 2, confirm |-> FALSE, retries |-> 0], Health}
=============================================================================
