------------------------ MODULE MCWorkflowReconcile ------------------------
(* The instance of WorkflowReconcile that TLC examines by itself. *)
EXTENDS WorkflowReconcile
=============================================================================
