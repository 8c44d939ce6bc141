--------------------------- MODULE PipelineEngine ----------------------------
(***************************************************************************)
(* PipelineEngine of internal/pipeline/engine.go with its event bus.       *)
(* GetStagesFromPipeline resolves every pipeline to the empty list, so the *)
(* stage loop of ExecutePipeline does not run and a run always completes;  *)
(* a nil pipeline panics at its first line, before it is looked at.        *)
(***************************************************************************)
EXTENDS EventBus

CONSTANT Runs      \* calls of ExecutePipeline

VARIABLES
  run,        \* where each call is
  active,     \* keys of e.active
  cancelled,  \* unfinished runs whose cancel function was called
  down        \* Run's context has ended and shutdown has run

engineVars == <<run, active, cancelled, down>>
vars == <<engineVars, busVars>>

EngineInit ==
  /\ run = [r \in Runs |-> "idle"]
  /\ active = {} /\ cancelled = {}
  /\ down = FALSE

Started(r)   == [type |-> "started", run |-> r]
Completed(r) == [type |-> "completed", run |-> r]

\* Runs get a fresh id: which of the ids not used yet makes no difference.
Begin(r) ==
  /\ run[r] = "idle" /\ r = CHOOSE q \in Runs : run[q] = "idle"
  /\ run' = [run EXCEPT ![r] = "resolve"]
  /\ Publish(Started(r))
  /\ UNCHANGED <<active, cancelled, down>>

Register(r) ==
  /\ run[r] = "resolve"
  /\ run' = [run EXCEPT ![r] = "running"]
  /\ active' = active \cup {r}
  /\ UNCHANGED <<cancelled, down, busVars>>

\* No stage: the result is PipelineStatusActive, cancelled or not.
Complete(r) ==
  /\ run[r] = "running"
  /\ run' = [run EXCEPT ![r] = "leaving"]
  /\ Publish(Completed(r))
  /\ UNCHANGED <<active, cancelled, down>>

Unregister(r) ==
  /\ run[r] = "leaving"
  /\ run' = [run EXCEPT ![r] = "returned"]
  /\ active' = active \ {r} /\ cancelled' = cancelled \ {r}
  /\ UNCHANGED <<down, busVars>>

CancelRun(r) ==
  /\ r \in active
  /\ cancelled' = cancelled \cup {r}
  /\ UNCHANGED <<run, active, down, busVars>>

Shutdown ==
  /\ ~down /\ down' = TRUE
  /\ cancelled' = cancelled \cup active
  /\ active' = {}
  /\ UNCHANGED <<run, busVars>>

RunStep(r) == Begin(r) \/ Register(r) \/ Complete(r) \/ Unregister(r)

Bus == (EditHandlers \/ Dispatch \/ Stop \/ StopReturns) /\ UNCHANGED engineVars

EngineNext ==
  \/ \E r \in Runs : RunStep(r) \/ CancelRun(r)
  \/ Shutdown \/ Bus

\* Goroutines run; nobody has to subscribe, cancel or stop anything.
EngineFairness ==
  /\ \A r \in Runs : WF_vars(run[r] # "idle" /\ RunStep(r))
  /\ WF_vars(Dispatch /\ UNCHANGED engineVars)
  /\ WF_vars(StopReturns /\ UNCHANGED engineVars)
=============================================================================
