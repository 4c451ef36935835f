------------------------- MODULE MCWorkflowRuntime --------------------------
(***************************************************************************)
(* Two runtimes share the workflow of one incident; the planner proposes   *)
(* one input, once or twice.                                               *)
(***************************************************************************)
EXTENDS WorkflowRuntime, TLC

CONSTANT a

MCPlans == {<<a>>, <<a, a>>}
RuntimeSymmetry == Permutations(Runtimes)
=============================================================================
