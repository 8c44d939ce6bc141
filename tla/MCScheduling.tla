---------------------------- MODULE MCScheduling -----------------------------
(***************************************************************************)
(* Instance of the two schedulers for TLC.  The scheduler service and the  *)
(* DAG scheduler share no state: a behaviour is one of either.             *)
(***************************************************************************)
EXTENDS SchedulerService

CONSTANTS DagIds, DagSlots, DagEdits

VARIABLES half, added, schedule, dagEntries, nextEntry, engine, stop, activeRuns, dagRuns, crash, edits

D == INSTANCE DagScheduler WITH
       Ids <- DagIds, Slots <- DagSlots, MaxEdits <- DagEdits,
       entries <- dagEntries, runs <- dagRuns

dagVars == <<added, schedule, dagEntries, nextEntry, engine, stop, activeRuns, dagRuns, crash, edits>>

MCInit == half \in {"service", "dag"} /\ Init /\ D!Init

MCNext ==
  \/ half = "service" /\ Next /\ UNCHANGED <<half, dagVars>>
  \/ half = "dag" /\ D!Next /\ UNCHANGED <<half, vars>>

\* Nothing fair is enabled while the service rests; the DAG scheduler is only
\* checked for safety.
MCSpec == MCInit /\ [][MCNext]_<<half, vars, dagVars>> /\ Fairness

(* Stop of the DAG scheduler cancels every run that is under way when it   *)
(* returns (dag/scheduler.go:87-92), unless the run shared its schedule    *)
(* with another one or registered after Stop had looked.                   *)
StopCancelsRuns == D!StopCancelsRuns

(* While nothing was removed, the look-up by EntryID of the DAG scheduler  *)
(* (dag/scheduler.go:241 and 341) panics for the newest entry only.        *)
OnlyNewestPanics == D!OnlyNewestPanics
=============================================================================
