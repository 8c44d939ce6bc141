---------------------------- MODULE MCDagExecutor ----------------------------
(* DagExecutor on every acyclic graph of a few nodes. *)
EXTENDS DagExecutor
=============================================================================
