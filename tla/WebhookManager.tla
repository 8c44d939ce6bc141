--------------------------- MODULE WebhookManager ----------------------------
(***************************************************************************)
(* WebhookManager of internal/webhook/manager.go: the webhooks and the     *)
(* index eventRoutes built from their event lists.  Every operation holds  *)
(* mu, so each is one step.  An event list may name an event twice; its    *)
(* order is of no consequence and it is kept as a count per event.         *)
(***************************************************************************)
EXTENDS Naturals, FiniteSets

CONSTANTS
  HookIds,      \* webhook ids
  EventTypes,
  EventLists,   \* the event lists callers pass: counts per event type
  MaxCalls      \* bound: calls that edit webhooks, and events, in one behaviour

ASSUME ManagerAssumption ==
  /\ IsFiniteSet(HookIds) /\ EventLists \subseteq [EventTypes -> Nat]
  /\ MaxCalls \in Nat

VARIABLES
  webhooks,     \* st: "new", "live", "deleted"; active: Status is active; events
  eventRoutes,  \* per event and webhook: number of routers, and their active flag
  calls,        \* number of those calls
  paused        \* history: webhooks that were inactive at some time

managerVars == <<webhooks, eventRoutes, calls, paused>>

NoEvents == [e \in EventTypes |-> 0]
NoRoute == [n |-> 0, active |-> FALSE]

ManagerInit ==
  /\ webhooks = [h \in HookIds |-> [st |-> "new", active |-> FALSE, events |-> NoEvents]]
  /\ eventRoutes = [e \in EventTypes |-> [h \in HookIds |-> NoRoute]]
  /\ calls = 0 /\ paused = {}

Exists(h) == webhooks[h].st = "live"

\* indexEventRoutes of one webhook, for one event.
RouteOf(wh, e) ==
  IF wh.st # "live" \/ wh.events[e] = 0 THEN NoRoute
  ELSE [n |-> wh.events[e], active |-> wh.active]

\* rebuildEventRoutes of the webhooks whs.
Rebuilt(whs) == [e \in EventTypes |-> [h \in HookIds |-> RouteOf(whs[h], e)]]

\* RegisterWebhook indexes the new webhook, whose id is fresh, alone.
RegisterWebhook(list) ==
  LET fresh == {h \in HookIds : webhooks[h].st = "new"}
      h == CHOOSE x \in fresh : TRUE
  IN
  /\ fresh # {}
  /\ list # NoEvents
  /\ webhooks' = [webhooks EXCEPT ![h] = [st |-> "live", active |-> TRUE, events |-> list]]
  /\ eventRoutes' = [e \in EventTypes |->
                       [eventRoutes[e] EXCEPT ![h] = RouteOf(webhooks'[h], e)]]
  /\ calls < MaxCalls /\ calls' = calls + 1
  /\ UNCHANGED paused

EditWebhook(h, wh, rebuild) ==
  /\ Exists(h)
  /\ calls < MaxCalls /\ calls' = calls + 1
  /\ webhooks' = [webhooks EXCEPT ![h] = wh]
  /\ eventRoutes' = IF rebuild THEN Rebuilt(webhooks') ELSE eventRoutes
  /\ paused' = IF wh.active THEN paused ELSE paused \cup {h}

\* Activate-, DeactivateWebhook, and UpdateWebhook with a status: no rebuild.
SetWebhookStatus(h, active) == EditWebhook(h, [webhooks[h] EXCEPT !.active = active], FALSE)

\* UpdateWebhook with events (and a status), SubscribeToEvents (without).
UpdateWebhook(h, active, list) ==
  EditWebhook(h, [webhooks[h] EXCEPT !.active = active, !.events = list], TRUE)

\* MUTANT: the new event is appended to the webhook's list only.
AddEventSubscription_NoRebuild(h, e) ==
  /\ webhooks[h].events[e] = 0
  /\ EditWebhook(h, [webhooks[h] EXCEPT !.events[e] = 1], FALSE)

AddEventSubscription(h, e) ==
  /\ webhooks[h].events[e] = 0
  /\ EditWebhook(h, [webhooks[h] EXCEPT !.events[e] = 1], TRUE)

RemoveEventSubscription(h, e) == EditWebhook(h, [webhooks[h] EXCEPT !.events[e] = 0], TRUE)

DeleteWebhook(h) == EditWebhook(h, [webhooks[h] EXCEPT !.st = "deleted"], TRUE)

ManagerNext ==
  \/ \E list \in EventLists : RegisterWebhook(list)
  \/ \E h \in HookIds :
    \/ \E active \in BOOLEAN, list \in EventLists : UpdateWebhook(h, active, list)
    \/ \E active \in BOOLEAN : SetWebhookStatus(h, active)
    \/ \E e \in EventTypes : AddEventSubscription(h, e) \/ RemoveEventSubscription(h, e)
    \/ DeleteWebhook(h)
-----------------------------------------------------------------------------
\* GetWebhooksForEvent and MatchWebhooks: how often h is in the result.
Matches(e, h) ==
  IF eventRoutes[e][h].active /\ Exists(h) /\ webhooks[h].active
  THEN eventRoutes[e][h].n ELSE 0

\* The loop counts the routers that match, each by itself.
SubscriberCount(e) == Cardinality(UNION {{h} \X (1 .. Matches(e, h)) : h \in HookIds})
HasSubscribers(e) == \E h \in HookIds : Matches(e, h) > 0

\* GetSubscriptions, as a count: what the webhook says of itself.
Subscribed(e, h) == IF Exists(h) /\ webhooks[h].active THEN webhooks[h].events[e] ELSE 0

(* Routing follows the webhooks through every sequence of edits: the index *)
(* holds exactly the event lists, and a webhook is matched as often as it  *)
(* says it is subscribed, never more (manager.go:253-273, 396-413).  Only  *)
(* a webhook that was inactive once can be missed: its routes keep the     *)
(* flag of the last rebuild and activation does not rebuild them (402).    *)
RoutesFollowWebhooks ==
  \A e \in EventTypes :
    /\ \A h \in HookIds :
         /\ eventRoutes[e][h].n = IF Exists(h) THEN webhooks[h].events[e] ELSE 0
         /\ Matches(e, h) \in {Subscribed(e, h)} \cup {0 : x \in paused \cap {h}}
    /\ HasSubscribers(e) <=> SubscriberCount(e) > 0
=============================================================================
