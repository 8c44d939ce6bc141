------------------------ MODULE MCWebhookDeliveries --------------------------
(* Instance of WebhookDeliveries for TLC. *)
EXTENDS WebhookDeliveries

\* An event once, or twice in the list.
Lists == [EventTypes -> 1..2]
=============================================================================
