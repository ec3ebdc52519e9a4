--------------------------- MODULE MCOrchestrator ---------------------------
(* Instance of Orchestrator: two goroutines over the three steps of the      *)
(* order saga.                                                               *)
EXTENDS Orchestrator
=============================================================================
