------------------------------- MODULE MCApi ---------------------------------
(***************************************************************************)
(* Instance of the request path for TLC.  The limiters and the time-outs   *)
(* share no state: a behaviour is one of either.                           *)
(***************************************************************************)
EXTENDS RateLimiter, RequestTimeout

VARIABLE half

Init == half \in {"limit", "timeout"} /\ LimitInit /\ TimeoutInit

Next ==
  \/ half = "limit" /\ LimitNext /\ UNCHANGED <<half, timeoutVars>>
  \/ half = "timeout" /\ TimeoutNext /\ UNCHANGED <<half, limitVars>>

Spec == Init /\ [][Next]_<<half, limitVars, timeoutVars>> /\ TimeoutFairness

BucketChains == {<<"global">>, <<"global", "client">>}
=============================================================================
