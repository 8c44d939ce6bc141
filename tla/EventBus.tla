------------------------------ MODULE EventBus -------------------------------
(***************************************************************************)
(* EventBus of internal/pipeline/events.go: handlers by event type, a      *)
(* buffered channel with one dispatcher goroutine when the bus is async,   *)
(* and handlers called by the publisher itself when it is not.  A handler  *)
(* returns or panics, which dispatch recovers.  Stop is called once: a     *)
(* second call closes a closed channel.                                    *)
(***************************************************************************)
EXTENDS Naturals, SequencesExt

CONSTANTS
  Types,         \* event types
  Handlers,      \* functions that subscribe
  Events,        \* events ever published, each once, with a field type
  BufferSize,    \* capacity of eventCh
  MaxEdits       \* bound: calls that change the handlers

ASSUME EventBusAssumption == BufferSize \in Nat \ {0} /\ MaxEdits \in Nat

VARIABLES
  async,         \* NewAsyncEventBus, or NewEventBus
  handlers,      \* b.handlers: the types present, and their lists
  eventCh,       \* the channel
  dispatcher,    \* its goroutine: where it is, the event, handlers still to call
  stopCh,        \* Stop: "open", "closed" and waiting, "returned"
  edits,
  owed           \* history: <<e, h>> when h was subscribed as e was accepted

edited  == <<handlers, edits>>
busVars == <<async, edited, eventCh, dispatcher, stopCh, owed>>

NoEvent == "none"
Waiting == [pc |-> "select", event |-> NoEvent, todo |-> <<>>]

BusInit ==
  /\ async \in BOOLEAN
  /\ handlers = [t \in {} |-> <<>>]
  /\ eventCh = <<>>
  /\ dispatcher = Waiting
  /\ stopCh = "open"
  /\ edits = 0 /\ owed = {}

ListOf(t) == IF t \in DOMAIN handlers THEN handlers[t] ELSE <<>>
-----------------------------------------------------------------------------
(* The handlers *)

Edit(new, dropped) ==
  /\ edits < MaxEdits /\ edits' = edits + 1
  /\ handlers' = new
  /\ owed' = {o \in owed : o[1].type \notin dropped}
  /\ UNCHANGED <<async, eventCh, dispatcher, stopCh>>

\* Subscribe is SubscribeMany of one type.
SubscribeMany(h, ts) ==
  Edit([t \in DOMAIN handlers \cup ts |-> IF t \in ts THEN Append(ListOf(t), h) ELSE handlers[t]], {})

\* The types that have a list now; no type that gets its first handler later.
SubscribeAll(h) == Edit([t \in DOMAIN handlers |-> Append(handlers[t], h)], {})

\* The loop compares the address of its own variable with that of the argument:
\* no handler is ever found.
Unsubscribe(t, h) == Edit(handlers, {})

ClearHandlers == Edit([t \in {} |-> <<>>], Types)

ClearHandlersForType(t) == Edit(Restrict(handlers, DOMAIN handlers \ {t}), {t})

EditHandlers ==
  \/ \E h \in Handlers : SubscribeAll(h) \/ \E ts \in (SUBSET Types) \ {{}} : SubscribeMany(h, ts)
  \/ \E t \in DOMAIN handlers : ClearHandlersForType(t) \/ \E h \in Handlers : Unsubscribe(t, h)
  \/ ClearHandlers
-----------------------------------------------------------------------------
(* Publish and dispatch *)

\* An async publish is accepted or dropped at once; a sync one calls the handlers.
Publish(e) ==
  /\ IF async /\ Len(eventCh) < BufferSize
       THEN /\ eventCh' = Append(eventCh, e)
            /\ owed' = owed \cup
                 {<<e, h>> : h \in IF stopCh = "open" THEN Range(ListOf(e.type)) ELSE {}}
       ELSE UNCHANGED <<eventCh, owed>>
  /\ UNCHANGED <<async, edited, dispatcher, stopCh>>

\* The list of handlers is read when the event leaves the channel.
Receive(from, to) ==
  /\ dispatcher.pc = from /\ eventCh # <<>>
  /\ dispatcher' = [pc |-> to, event |-> Head(eventCh), todo |-> ListOf(Head(eventCh).type)]
  /\ eventCh' = Tail(eventCh)
  /\ UNCHANGED <<async, edited, stopCh, owed>>

CallHandlers ==
  /\ dispatcher.todo # <<>>
  /\ dispatcher' = [dispatcher EXCEPT !.todo = Tail(@)]
  /\ owed' = owed \ {<<dispatcher.event, Head(dispatcher.todo)>>}
  /\ UNCHANGED <<async, edited, eventCh, stopCh>>

Dispatched(from, to) ==
  /\ dispatcher.pc = from /\ dispatcher.todo = <<>>
  /\ dispatcher' = [Waiting EXCEPT !.pc = to]
  /\ UNCHANGED <<async, edited, eventCh, stopCh, owed>>

\* MUTANT: the dispatcher returns at once.
AfterStop_Return == "returned"

AfterStop == "drain"

SeeStop ==
  /\ dispatcher.pc = "select" /\ stopCh = "closed"
  /\ dispatcher' = [Waiting EXCEPT !.pc = AfterStop]
  /\ UNCHANGED <<async, edited, eventCh, stopCh, owed>>

DrainEnds ==
  /\ dispatcher.pc = "drain" /\ eventCh = <<>>
  /\ dispatcher' = [Waiting EXCEPT !.pc = "returned"]
  /\ UNCHANGED <<async, edited, eventCh, stopCh, owed>>

Dispatch ==
  /\ async
  /\ \/ Receive("select", "dispatch") \/ Dispatched("dispatch", "select")
     \/ Receive("drain", "drainDispatch") \/ Dispatched("drainDispatch", "drain")
     \/ CallHandlers \/ SeeStop \/ DrainEnds

Stop ==
  /\ stopCh = "open"
  /\ stopCh' = IF async THEN "closed" ELSE "returned"
  /\ UNCHANGED <<async, edited, eventCh, dispatcher, owed>>

StopReturns ==
  /\ stopCh = "closed" /\ dispatcher.pc = "returned"
  /\ stopCh' = "returned"
  /\ UNCHANGED <<async, edited, eventCh, dispatcher, owed>>
-----------------------------------------------------------------------------
(* A handler that was subscribed when the bus accepted an event is called  *)
(* with it, unless the type is cleared first: across Unsubscribe, which    *)
(* removes nothing (events.go:87), and across a Stop that comes after the  *)
(* event (166-175).  An event accepted after Stop may stay in the channel. *)
SubscribersAreTold ==
  \A e \in Events, h \in Handlers : (<<e, h>> \in owed) ~> (<<e, h>> \notin owed)
=============================================================================
