------------------------------- MODULE MCDag --------------------------------
(***************************************************************************)
(* Instance of the DAG library for TLC: Kahn's loop on every graph of a    *)
(* few nodes, and the edits of a graph with its validator.  The two halves *)
(* share no state: a behaviour is one of either.                           *)
(***************************************************************************)
EXTENDS KahnSort, DagGraph, TLC

VARIABLE half

Init ==
  /\ GraphInit /\ SortInit
  /\ half \in {"sort", "graph"} /\ (half = "graph" => edges = {})

Next ==
  \/ half = "sort" /\ SortNext /\ UNCHANGED <<half, graphVars>>
  \/ half = "graph" /\ GraphNext /\ UNCHANGED <<half, sortVars>>

Spec == Init /\ [][Next]_<<half, sortVars, graphVars>>

Symmetry == Permutations(Nodes) \cup Permutations(Names)
=============================================================================
