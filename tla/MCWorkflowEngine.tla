-------------------------- MODULE MCWorkflowEngine --------------------------
(* WorkflowEngine on two executions that meet over one batch place.        *)
EXTENDS WorkflowEngine

\* An older drip with a wait and an END, and a newer workflow that ends before its last
\* step.
MCPlans == {<<<<"send", "wait", "send", "end">>, <<"other", "end", "send">>>>}
=============================================================================
