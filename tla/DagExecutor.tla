----------------------------- MODULE DagExecutor -----------------------------
(***************************************************************************)
(* DAGExecutor.Execute of internal/dag/executor.go on one graph: the loop  *)
(* over the graph's levels, one goroutine per node of a level, the barrier *)
(* wg.Wait between levels, and the policy, which SetExecutionPolicy may    *)
(* change while Execute runs.  The levels are those of Graph.Levels        *)
(* (module KahnSort shows that the code's loop computes them).             *)
(* Handlers are registered by node name; a name is one node here.          *)
(***************************************************************************)
EXTENDS Integers, FiniteSets

CONSTANTS
  Nodes,
  MaxSwitches        \* bound: calls of SetExecutionPolicy

ASSUME ExecutorAssumption == IsFiniteSet(Nodes) /\ MaxSwitches \in Nat

VARIABLES
  edges, level,      \* the graph, and Graph.Levels of it
  policy, switches,
  handlers,          \* nodes whose handler is registered
  cancelled,         \* ctx.Done() is closed
  pc,                \* Execute: "loop", "wait" for a level's goroutines, or what it returned
  cur,               \* the level of the loop
  task,              \* the goroutine of a node: "none", "ready", "handler", "publish", "done"
  levelResults,      \* status each goroutine has recorded
  results,           \* Execute's results, merged after each level
  outputs,           \* nodeOutputs: nodes whose output is stored
  inputs,            \* the parents whose output a node's handler was given
  success            \* ExecutionResult.Success

graph == <<edges, level>>
config == <<policy, switches, handlers, cancelled>>
vars == <<graph, config, pc, cur, task, levelResults, results, outputs, inputs, success>>

Statuses == {"none", "completed", "failed", "skipped"}
Levels == 0 .. (Cardinality(Nodes) - 1)
Parents(n) == {m \in Nodes : <<m, n>> \in edges}
AtLevel(l) == {n \in Nodes : level[n] = l}

\* Levels returns an error on a cyclic graph; otherwise a node's level is one
\* more than its highest parent's.
IsLevelMap(e, l) ==
  \A n \in Nodes :
    /\ \A m \in Nodes : <<m, n>> \in e => l[m] < l[n]
    /\ l[n] > 0 => \E m \in Nodes : <<m, n>> \in e /\ l[m] = l[n] - 1

Init ==
  /\ edges \in SUBSET (Nodes \X Nodes)
  /\ level \in [Nodes -> Levels] /\ IsLevelMap(edges, level)
  /\ policy \in {"FailFast", "ContinueOnFailure"} /\ switches = 0
  /\ handlers \in SUBSET Nodes /\ cancelled = FALSE
  /\ pc = "loop" /\ cur = 0
  /\ task = [n \in Nodes |-> "none"]
  /\ levelResults = [n \in Nodes |-> "none"] /\ results = [n \in Nodes |-> "none"]
  /\ outputs = {} /\ inputs = [n \in Nodes |-> {}] /\ success = FALSE
-----------------------------------------------------------------------------
(* Calls of other goroutines *)

SetExecutionPolicy(p) ==
  /\ switches < MaxSwitches /\ p # policy
  /\ policy' = p /\ switches' = switches + 1
  /\ UNCHANGED <<graph, handlers, cancelled, pc, cur, task, levelResults, results, outputs, inputs, success>>

RegisterHandler(n) ==
  /\ n \notin handlers /\ handlers' = handlers \cup {n}
  /\ UNCHANGED <<graph, policy, switches, cancelled, pc, cur, task, levelResults, results, outputs, inputs, success>>

CancelContext ==
  /\ ~cancelled /\ cancelled' = TRUE
  /\ UNCHANGED <<graph, policy, switches, handlers, pc, cur, task, levelResults, results, outputs, inputs, success>>
-----------------------------------------------------------------------------
(* Execute *)

\* buildResult, and the same loop at the end of Execute.
NoFailure(r) == \A n \in Nodes : r[n] # "failed"

MoreLevels == \E n \in Nodes : level[n] >= cur

\* MUTANT: an ended context only ends the loop when a node has failed.
StopsLoop_Failed == cancelled /\ ~NoFailure(results)
StopsLoop == cancelled

\* The head of the loop: return ctx.Err(), start the level's goroutines, or
\* return the final result.
ExecuteLevel ==
  /\ pc = "loop"
  /\ \/ /\ MoreLevels /\ StopsLoop
        /\ pc' = "cancelled" /\ success' = NoFailure(results) /\ UNCHANGED task
     \/ /\ MoreLevels /\ ~StopsLoop
        /\ pc' = "wait"
        /\ task' = [n \in Nodes |-> IF level[n] = cur THEN "ready" ELSE task[n]]
        /\ UNCHANGED success
     \/ /\ ~MoreLevels
        /\ pc' = "finished" /\ success' = NoFailure(results) /\ UNCHANGED task
  /\ UNCHANGED <<graph, config, cur, levelResults, results, outputs, inputs>>

\* collectInputs passes a nil graph to parentsFromGraph, which then knows no parent.
ParentsFromGraph(n) == {}

CollectInputs(n) == ParentsFromGraph(n) \cap outputs

\* A goroutine begins: skipped if the context is done, completed at once if no
\* handler is registered for the node, else the handler is called.
NodeStarts(n) ==
  /\ task[n] = "ready"
  /\ \/ /\ cancelled
        /\ levelResults' = [levelResults EXCEPT ![n] = "skipped"]
        /\ task' = [task EXCEPT ![n] = "done"]
     \/ /\ ~cancelled /\ n \notin handlers
        /\ levelResults' = [levelResults EXCEPT ![n] = "completed"]
        /\ task' = [task EXCEPT ![n] = "done"]
     \/ /\ ~cancelled /\ n \in handlers
        /\ task' = [task EXCEPT ![n] = "handler"]
        /\ UNCHANGED levelResults
  /\ inputs' = [inputs EXCEPT ![n] = CollectInputs(n)]
  /\ UNCHANGED <<graph, config, pc, cur, results, outputs, success>>

\* The handler returns an error (its own, or its timeout's), a nil output, or an
\* output to store.
HandlerReturns(n) ==
  /\ task[n] = "handler"
  /\ \E ret \in {"error", "nil", "output"} :
       /\ levelResults' = [levelResults EXCEPT ![n] = IF ret = "error" THEN "failed"
                                                                    ELSE "completed"]
       /\ task' = [task EXCEPT ![n] = IF ret = "output" THEN "publish" ELSE "done"]
  /\ UNCHANGED <<graph, config, pc, cur, results, outputs, inputs, success>>

\* The output is stored under the second lock, before wg.Done.
StoreOutput(n) ==
  /\ task[n] = "publish"
  /\ outputs' = outputs \cup {n}
  /\ task' = [task EXCEPT ![n] = "done"]
  /\ UNCHANGED <<graph, config, pc, cur, levelResults, results, inputs, success>>

\* MUTANT: the barrier lets go once a single goroutine is done.
LevelDone_First == AtLevel(cur) = {} \/ \E n \in AtLevel(cur) : task[n] = "done"
\* wg.Wait.
LevelDone == \A n \in AtLevel(cur) : task[n] = "done"

\* MUTANT: fail-fast needs the whole level to have failed.
StopsAt_All(r) == policy = "FailFast" /\ \A n \in AtLevel(cur) : r[n] = "failed"
\* Every node with a result is in the graph, so hasCriticalFailure is hasFailure
\* and the branch that calls skipDependents is never reached.
StopsAt(r) == policy = "FailFast" /\ \E n \in AtLevel(cur) : r[n] = "failed"

LevelEnds ==
  /\ pc = "wait" /\ LevelDone
  /\ results' = [n \in Nodes |-> IF level[n] = cur THEN levelResults[n] ELSE results[n]]
  /\ \/ /\ StopsAt(results')
        /\ pc' = "stopped" /\ success' = NoFailure(results') /\ UNCHANGED cur
     \/ /\ ~StopsAt(results')
        /\ pc' = "loop" /\ cur' = cur + 1 /\ UNCHANGED success
  /\ UNCHANGED <<graph, config, task, levelResults, outputs, inputs>>

Execute ==
  \/ ExecuteLevel \/ LevelEnds
  \/ \E n \in Nodes : NodeStarts(n) \/ HandlerReturns(n) \/ StoreOutput(n)

Next ==
  \/ Execute
  \/ \E p \in {"FailFast", "ContinueOnFailure"} : SetExecutionPolicy(p)
  \/ \E n \in Nodes : RegisterHandler(n)
  \/ CancelContext

Spec == Init /\ [][Next]_vars

\* The goroutines are scheduled and every handler returns, by itself or when its
\* timeout ends its context.
FairSpec == Spec /\ WF_vars(Execute)
-----------------------------------------------------------------------------
Returned == pc \in {"cancelled", "stopped", "finished"}

TypeOK ==
  /\ edges \in SUBSET (Nodes \X Nodes) /\ level \in [Nodes -> Levels]
  /\ policy \in {"FailFast", "ContinueOnFailure"} /\ switches \in 0 .. MaxSwitches
  /\ handlers \in SUBSET Nodes /\ cancelled \in BOOLEAN /\ success \in BOOLEAN
  /\ pc \in {"loop", "wait", "cancelled", "stopped", "finished"} /\ cur \in 0 .. Cardinality(Nodes)
  /\ task \in [Nodes -> {"none", "ready", "handler", "publish", "done"}]
  /\ levelResults \in [Nodes -> Statuses] /\ results \in [Nodes -> Statuses]
  /\ outputs \in SUBSET Nodes /\ inputs \in [Nodes -> SUBSET Nodes]

\* A node's goroutine exists only once the goroutine of every parent is over, its
\* output stored, and its result merged: what the barrier between levels is for
\* (executor.go 98-113, 162-203).
StartsAfterParents ==
  \A n \in Nodes : task[n] # "none" =>
    \A m \in Parents(n) : task[m] = "done" /\ results[m] # "none"

\* Fail-fast contains a failure: as long as nobody has changed the policy, no node
\* of a later level than a failed one ever starts (executor.go 115-143).
FailFastContains ==
  (policy = "FailFast" /\ switches = 0) =>
    \A m, n \in Nodes :
      (results[m] = "failed" /\ level[n] > level[m]) => task[n] = "none"

\* What a nil error and Success promise: every node completed, except that nodes
\* of the last level may be skipped when the context ended while they were
\* starting; that cancellation is not reported (executor.go 146-159).
SuccessCoversGraph ==
  (pc = "finished" /\ success) =>
    \A n \in Nodes :
      \/ results[n] = "completed"
      \/ cancelled /\ results[n] = "skipped" /\ \A m \in Nodes : level[m] <= level[n]

\* What Execute has answered, as its caller sees it.
Answered ==
  CASE ~Returned -> "none"
    [] pc = "cancelled" -> "ctx"
    [] pc \in {"stopped", "finished"} -> IF success THEN "ok" ELSE "failed"

Contract == INSTANCE DagRun WITH
  ctxDone <- cancelled,
  begun   <- {n \in Nodes : task[n] # "none"},
  over    <- {n \in Nodes : task[n] = "done"},
  failed  <- {n \in Nodes : levelResults[n] = "failed"},
  answer  <- Answered

\* Execute keeps the contract DagScheduler relies on: through every order of
\* goroutines, results, policy changes and cancellation, a node begins after its
\* parents are over, nothing of the run outlives its answer, the answer fits the
\* nodes' outcomes, and it comes (executor.go 83-203).
KeepsContract == Contract!Spec
=============================================================================
