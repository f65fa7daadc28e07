---------------------------- MODULE MCManualTask ----------------------------
(* ManualTask on small instances. *)
EXTENDS ManualTask, TLC

CONSTANTS u1, u2, u3, r1, r2, r3

\* each user is assigned once and sends one submission at a time
ThreeUsers == <<u1, u2, u3>>
ThreeRequests == r1 :> u1 @@ r2 :> u2 @@ r3 :> u3
TwoUsers == <<u1, u2>>
TwoRequests == r1 :> u1 @@ r2 :> u2

=============================================================================
