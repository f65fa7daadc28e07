------------------------- MODULE MCWorkflowRevision -------------------------
(* WorkflowRevision on small instances. *)
EXTENDS WorkflowRevision, TLC

CONSTANTS posts, create

\* none yet, and one event
MCConfigs == {{}, {posts} \X {create}}

\* the ids and the keys are interchangeable
Symmetry == Permutations(Version) \cup Permutations(Key)

=============================================================================
