--------------------------- MODULE RequestTimeout ----------------------------
(***************************************************************************)
(* The Timeout middleware of internal/api/middleware/timeout.go: the rest  *)
(* of the chain runs in a goroutine of its own and the middleware waits    *)
(* for it, for a panic of it, or for the end of the request's context.     *)
(* The gin.Context of a request goes back to the router's pool when the    *)
(* middleware returns, although the goroutine may still write to it.       *)
(***************************************************************************)
EXTENDS Naturals, FiniteSets

CONSTANTS
  Requests,     \* requests, each served once
  Contexts      \* gin.Contexts of the router's pool

VARIABLES
  serves,       \* the request that a gin.Context was given to last
  using,        \* the gin.Context of a request
  context,      \* of the request: "live", "deadline", "canceled"
  handler,      \* the goroutine: "none", "runs", "answered", "done", "panicked"
  middleware,   \* "none", "select", "returned"
  answers       \* who answered through a gin.Context since it was given out

timeoutVars == <<serves, using, context, handler, middleware, answers>>

Nobody == "nobody"
Free(c) == \A q \in Requests : using[q] = c => middleware[q] = "returned"

TimeoutInit ==
  /\ serves = [c \in Contexts |-> Nobody]
  /\ using = [q \in Requests |-> Nobody]
  /\ context = [q \in Requests |-> "live"]
  /\ handler = [q \in Requests |-> "none"]
  /\ middleware = [q \in Requests |-> "none"]
  /\ answers = [c \in Contexts |-> {}]

\* The router (external) takes a gin.Context from its pool and resets it; the
\* middleware starts the goroutine.
Serve(q, c) ==
  /\ middleware[q] = "none" /\ Free(c)
  /\ serves' = [serves EXCEPT ![c] = q]
  /\ using' = [using EXCEPT ![q] = c]
  /\ answers' = [answers EXCEPT ![c] = {}]
  /\ handler' = [handler EXCEPT ![q] = "runs"]
  /\ middleware' = [middleware EXCEPT ![q] = "select"]
  /\ UNCHANGED context

Writes(who, q) == answers' = [answers EXCEPT ![using[q]] = @ \cup {[who |-> who, request |-> q]}]

\* ctx.Next: a handler answers, once, and ends, or panics before it answers.
HandlerAnswers(q) ==
  /\ handler[q] = "runs"
  /\ handler' = [handler EXCEPT ![q] = "answered"]
  /\ Writes("handler", q)
  /\ UNCHANGED <<serves, using, context, middleware>>

HandlerEnds(q) ==
  /\ \/ handler[q] = "answered" /\ handler' = [handler EXCEPT ![q] = "done"]
     \/ handler[q] = "runs" /\ handler' = [handler EXCEPT ![q] = "panicked"]
  /\ UNCHANGED <<serves, using, context, middleware, answers>>

ContextEnds(q, how) ==
  /\ middleware[q] = "select" /\ context[q] = "live"
  /\ context' = [context EXCEPT ![q] = how]
  /\ UNCHANGED <<serves, using, handler, middleware, answers>>

Returns(q) ==
  /\ middleware[q] = "select"
  /\ middleware' = [middleware EXCEPT ![q] = "returned"]
  /\ UNCHANGED <<serves, using, context, handler>>

\* MUTANT: done is closed before the chain has run.
Done_Early(q) == TRUE

Done(q) == handler[q] = "done"

SelectDone(q) == Done(q) /\ Returns(q) /\ UNCHANGED answers

\* The panic goes on in the middleware, and the router's recovery answers.
SelectPanic(q) == handler[q] = "panicked" /\ Returns(q) /\ Writes("recovery", q)

\* MUTANT: the middleware only waits for the handler.
Ended_Never(q) == FALSE

Ended(q) == context[q] # "live"

\* Only a deadline is answered: a client that has gone needs none.
SelectContext(q) ==
  /\ Ended(q) /\ Returns(q)
  /\ IF context[q] = "deadline" THEN Writes("timeout", q) ELSE UNCHANGED answers

Selects(q) == SelectDone(q) \/ SelectPanic(q) \/ SelectContext(q)

TimeoutNext ==
  \E q \in Requests :
    \/ \E c \in Contexts : Serve(q, c)
    \/ HandlerAnswers(q) \/ HandlerEnds(q)
    \/ \E how \in {"deadline", "canceled"} : ContextEnds(q, how)
    \/ Selects(q)

\* The deadline passes and the middleware runs; a handler may hang.
TimeoutFairness ==
  \A q \in Requests : /\ WF_timeoutVars(ContextEnds(q, "deadline"))
                      /\ WF_timeoutVars(Selects(q))
-----------------------------------------------------------------------------
(* A gin.Context holds the answer to another request than the one it       *)
(* serves, or two answers, only if the context of a request that answered  *)
(* ended before its handler (timeout.go:87-105): the handler goes on with  *)
(* a gin.Context that the router gives to the next request.                *)
MixedNeedsTimeout ==
  \A c \in Contexts :
    \/ answers[c] = {}
    \/ \E a \in answers[c] : answers[c] = {a} /\ a.request = serves[c]
    \/ \E a \in answers[c] : context[a.request] # "live"

(* Every request is over at last, although its handler may never return    *)
(* (timeout.go:87-105).                                                    *)
RequestsReturn ==
  \A q \in Requests : (middleware[q] = "select") ~> (middleware[q] = "returned")
=============================================================================
