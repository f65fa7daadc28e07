--------------------------- MODULE MCUiSchemaCache ---------------------------
(* UiSchemaCache on small instances. *)
EXTENDS UiSchemaCache, TLC

\* the uids are interchangeable
UidSymmetry == Permutations(Uid)

=============================================================================
