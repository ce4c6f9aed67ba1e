----------------------------- MODULE MCLifecycle -----------------------------
(* The values of MCOperator for LifecycleRefinement. *)
EXTENDS MCOperator, LifecycleRefinement
=============================================================================
