----------------------------- MODULE MCFlowNodes -----------------------------
(* FlowNodes on small instances. *)
EXTENDS FlowNodes

=============================================================================
