----------------------------- MODULE MCPipeline ------------------------------
(***************************************************************************)
(* Instance of the pipeline modules for TLC.  The engine with its bus, and *)
(* the builder with the stage executor, share no state: a behaviour is one *)
(* of either, and no interleaving of the two is needed.                    *)
(***************************************************************************)
EXTENDS PipelineEngine, StageExecutor, PipelineValidator

VARIABLE half

Init == half \in {"engine", "stages"} /\ BusInit /\ EngineInit /\ StageInit

Next ==
  \/ half = "engine" /\ EngineNext /\ UNCHANGED <<half, stageVars>>
  \/ half = "stages" /\ StageNext /\ UNCHANGED <<half, vars>>

Spec == Init /\ [][Next]_<<half, vars, stageVars>> /\ EngineFairness

PublishedEvents == {Started(r) : r \in Runs} \cup {Completed(r) : r \in Runs}

\* Of each pipeline: two dependencies, and one of the first stage on itself; a
\* stage without a name, of an unknown type.
StageTemplates == {
  [name |-> 1, known |-> TRUE, optional |-> FALSE, retry |-> 1, deps |-> <<2, 1>>],
  [name |-> 2, known |-> TRUE, optional |-> TRUE, retry |-> 0, deps |-> <<>>],
  [name |-> 0, known |-> FALSE, optional |-> TRUE, retry |-> 0, deps |-> <<1>>]}
=============================================================================
