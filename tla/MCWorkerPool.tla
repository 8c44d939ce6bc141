---------------------------- MODULE MCWorkerPool ----------------------------
(***************************************************************************)
(* Workers, for TLC.  The worker program does not use WorkerPool: a        *)
(* behaviour is one of either.  The pool has three tasks, one of them      *)
(* without an envelope, and at most two workers; the program two queues    *)
(* with one consumer each, and a message in each.                          *)
(***************************************************************************)
EXTENDS WorkerPool, WorkerCommand, TLC

CONSTANTS m1, m2

VARIABLE half

MCInit == half \in {"pool", "command"} /\ Init /\ CommandInit

MCNext ==
  \/ half = "pool" /\ Next /\ UNCHANGED <<half, commandVars>>
  \/ half = "command" /\ CommandNext /\ UNCHANGED <<half, vars>>

MCSpec == MCInit /\ [][MCNext]_<<half, vars, commandVars>> /\ Fairness

Homes == m1 :> "a" @@ m2 :> "b"
=============================================================================
