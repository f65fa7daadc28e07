--------------------------- MODULE MCUiSchemaTree ---------------------------
(* UiSchemaTree on small instances. *)
EXTENDS UiSchemaTree, TLC

\* the uids are interchangeable
UidSymmetry == Permutations(Uid)

=============================================================================
