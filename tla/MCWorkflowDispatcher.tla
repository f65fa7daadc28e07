------------------------ MODULE MCWorkflowDispatcher ------------------------
(* WorkflowDispatcher on small instances. *)
EXTENDS WorkflowDispatcher, TLC

\* fibers are interchangeable
FiberSymmetry == Permutations(Fibers)

\* and so are jobs
FiberAndJobSymmetry == FiberSymmetry \cup Permutations(Jobs)

=============================================================================
