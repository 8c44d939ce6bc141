------------------------------- MODULE DagRun --------------------------------
(***************************************************************************)
(* What one call of DAGExecutor.Execute promises its caller, whatever its  *)
(* levels, goroutines, policy and handlers do: nodes begin when all their  *)
(* parents are over, the call answers once, with no node of it running any *)
(* more, and the answer fits what the nodes did.  DagExecutor implements   *)
(* this; DagScheduler is written against it.                               *)
(***************************************************************************)
CONSTANT Nodes

VARIABLES
  edges,     \* the graph, fixed
  ctxDone,   \* the caller's context has ended
  begun,     \* nodes whose work was started
  over,      \* nodes whose work is over
  failed,    \* those of them that failed
  answer     \* "none" until the call returns

vars == <<edges, ctxDone, begun, over, failed, answer>>

\* ctx.Err(), a result without Success, a result with Success.
Answers == {"ctx", "failed", "ok"}

Init ==
  /\ edges \in SUBSET (Nodes \X Nodes)
  /\ ctxDone = FALSE
  /\ begun = {} /\ over = {} /\ failed = {}
  /\ answer = "none"

EndContext ==
  /\ ctxDone' = TRUE
  /\ UNCHANGED <<edges, begun, over, failed, answer>>

Begin(S) ==
  /\ answer = "none"
  /\ S \cap begun = {}
  /\ \A n \in S, m \in Nodes : <<m, n>> \in edges => m \in over
  /\ begun' = begun \cup S
  /\ UNCHANGED <<edges, ctxDone, over, failed, answer>>

End(n) ==
  /\ answer = "none"
  /\ n \in begun \ over
  /\ over' = over \cup {n}
  /\ failed' \in {failed, failed \cup {n}}
  /\ UNCHANGED <<edges, ctxDone, begun, answer>>

Fits(a) ==
  CASE a = "ctx"    -> ctxDone
    [] a = "failed" -> failed # {}
    [] a = "ok"     -> failed = {} /\ over = Nodes

Answer(a) ==
  /\ answer = "none"
  /\ begun = over
  /\ Fits(a)
  /\ answer' = a
  /\ UNCHANGED <<edges, ctxDone, begun, over, failed>>

Work == (\E S \in SUBSET Nodes : Begin(S)) \/ \E n \in Nodes : End(n)
Return == \E a \in Answers : Answer(a)

Safe == Init /\ [][EndContext \/ Work \/ Return]_vars

\* The call returns.
Spec == Safe /\ <>(answer # "none")
=============================================================================
