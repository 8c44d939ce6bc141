-------------------------- MODULE MCCircuitBreaker --------------------------
(* Two callers and the probe: the cfg gives CircuitBreaker its constants.    *)
EXTENDS CircuitBreaker
=============================================================================
