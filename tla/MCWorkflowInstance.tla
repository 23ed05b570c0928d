-------------------------- MODULE MCWorkflowInstance --------------------------
(* Model-checking WorkflowInstance: runners and calls are interchangeable. *)
EXTENDS WorkflowInstance, TLC

TaskSymmetry == Permutations(Runner) \cup Permutations(Caller)
=============================================================================
