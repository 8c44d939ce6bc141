---------------------------- MODULE StageExecutor ----------------------------
(***************************************************************************)
(* PipelineExecutor of internal/pipeline/executor.go: ExecutePipelineStages*)
(* runs the stages that a builder returned from BuildWithStages, one after *)
(* the other, each with attempts, backoff and a deadline of its own.  A    *)
(* handler answers or fails as it likes (the handlers registered at first  *)
(* all fail); a type that is not known has none.                           *)
(***************************************************************************)
EXTENDS PipelineBuilder

VARIABLES
  stages,       \* the list: name, known, optional, retry (DependsOn is never read)
  stageResults, \* of the stages that are over: status, and history: their context
  step,         \* "idle", in ExecuteStage "handler", "check", "backoff", "call", then "over"
  attempt,
  ctx,          \* the stage's context: "live", "Canceled", "DeadlineExceeded"
  stopped       \* the caller's context is cancelled

execVars == <<stages, stageResults, step, attempt, ctx, stopped>>
stageVars == <<builderVars, execVars>>

StageInit ==
  /\ BuilderInit
  /\ stages = <<>> /\ stageResults = <<>>
  /\ step = "idle" /\ attempt = 0
  /\ ctx = "live" /\ stopped = FALSE

\* The caller is done with the builders.
ExecutePipelineStages(b) ==
  /\ step = "idle" /\ Build(b)
  /\ stages' = [i \in DOMAIN builder[b].stages |->
       LET s == builder[b].stages[i]
       IN  [name |-> s.name, known |-> s.known, optional |-> s.optional, retry |-> s.retry]]
  /\ step' = "handler"
  /\ builder' = [a \in {"own"} |-> Fresh] /\ array' = <<>> /\ calls' = MaxCalls
  /\ UNCHANGED <<stageResults, attempt, ctx, stopped>>

Stage == stages[Len(stageResults) + 1]

InStage == step \in {"handler", "check", "backoff", "call"}

Cancel ==
  /\ InStage /\ ~stopped
  /\ stopped' = TRUE
  /\ ctx' = IF ctx = "live" THEN "Canceled" ELSE ctx
  /\ UNCHANGED <<builderVars, stages, stageResults, step, attempt>>

Expire ==
  /\ InStage /\ ctx = "live"
  /\ ctx' = "DeadlineExceeded"
  /\ UNCHANGED <<builderVars, stages, stageResults, step, attempt, stopped>>

\* MUTANT: every stage is run.
Breaks_Never(status) == FALSE

Breaks(status) == status = "failed" /\ ~Stage.optional

EndsLoop(status) == Breaks(status) \/ Len(stageResults) + 1 = Len(stages)

\* ExecuteStage returns: the next stage gets a context of its own, or the results
\* go to the caller.
Finish(status) ==
  /\ attempt' = 0
  /\ IF EndsLoop(status)
       THEN /\ step' = "over" /\ ctx' = "live" /\ stopped' = FALSE
            /\ stages' = <<>> /\ stageResults' = <<>>
       ELSE /\ step' = "handler" /\ ctx' = IF stopped THEN "Canceled" ELSE "live"
            /\ stageResults' = Append(stageResults, [status |-> status, cause |-> ctx])
            /\ UNCHANGED <<stages, stopped>>
  /\ UNCHANGED builderVars

Goto(to) ==
  /\ step' = to
  /\ UNCHANGED <<builderVars, stages, stageResults, attempt, ctx, stopped>>

GetHandler ==
  /\ step = "handler"
  /\ IF Stage.known THEN Goto("check") ELSE Finish("failed")

CheckContext ==
  /\ step = "check"
  /\ CASE ctx = "Canceled" -> Finish("cancelled")
       [] ctx = "DeadlineExceeded" -> Finish("timed_out")
       [] OTHER -> Goto(IF attempt > 0 THEN "backoff" ELSE "call")

\* A deadline that passes here is told as a cancellation.
Backoff ==
  /\ step = "backoff"
  /\ \/ ctx # "live" /\ Finish("cancelled")
     \/ Goto("call")

MaxRetries == IF Stage.retry > 0 THEN Stage.retry ELSE 2

CallHandler ==
  /\ step = "call"
  /\ \/ Finish("completed")
     \/ attempt = MaxRetries /\ Finish("failed")
     \/ /\ attempt < MaxRetries
        /\ attempt' = attempt + 1 /\ step' = "check"
        /\ UNCHANGED <<builderVars, stages, stageResults, ctx, stopped>>

StageStep == GetHandler \/ CheckContext \/ Backoff \/ CallHandler

StageNext ==
  \/ step = "idle" /\ Builds /\ UNCHANGED execVars
  \/ \E b \in DOMAIN builder : ExecutePipelineStages(b)
  \/ Cancel \/ Expire \/ StageStep

-----------------------------------------------------------------------------
(* When a handler is called, each stage before its own - those it depends  *)
(* on among them - has completed, was optional and failed, or ran out of   *)
(* time: only a failure ends the loop (executor.go:173-183), a cancelled *)
(* context fails every later check, and a deadline that passes during a    *)
(* backoff is told as a cancellation that nobody asked for (133-140).      *)
RunsPast ==
  step = "call" =>
    \A i \in DOMAIN stageResults :
      \/ stageResults[i].status = "completed"
      \/ stageResults[i].status = "failed" /\ stages[i].optional
      \/ stageResults[i].status \in {"timed_out", "cancelled"} /\ stageResults[i].cause = "DeadlineExceeded"
=============================================================================
