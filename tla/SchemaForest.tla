---------------------------- MODULE SchemaForest ----------------------------
(***************************************************************************)
(* What the storage of UI schemas promises of its tree, whatever tables    *)
(* keep it: a forest in which one operation finds a place for one node,    *)
(* with what is new around it and without the parents it leaves empty, or  *)
(* takes one subtree away.  UiSchemaTree implements it.                    *)
(***************************************************************************)
EXTENDS FiniteSets

CONSTANTS
    Uid,    \* the nodes there can be
    NoUid   \* the parent of a root

VARIABLE parent \* of each node that is there

\* f leads from each node to a parent or to none, and never back
Forest(f) ==
    /\ \A u \in DOMAIN f : f[u] \in DOMAIN f \cup {NoUid}
    /\ \A S \in (SUBSET DOMAIN f) \ {{}} : \E u \in S : f[u] \notin S

\* u and what is under it
Below(f, u) ==
    {d \in DOMAIN f : \A S \in SUBSET DOMAIN f :
        /\ u \in S
        /\ \A c \in DOMAIN f : f[c] \in S => c \in S
        => d \in S}

Without(f, S) == [u \in DOMAIN f \ S |-> f[u]]

Gone == DOMAIN parent \ DOMAIN parent'

-----------------------------------------------------------------------------

Init == parent = [u \in {} |-> NoUid]

\* u, new or not, gets a place among old and new nodes; every other node that
\* stays is where it was, and what goes is a line of parents left empty
Place(u) ==
    /\ u \in DOMAIN parent'
    /\ Forest(parent')
    /\ \A d \in (DOMAIN parent \cap DOMAIN parent') \ {u} : parent'[d] = parent[d]
    /\ \A a, b \in Gone : a \in Below(parent, b) \/ b \in Below(parent, a)

\* u is removed with what is under it
Remove(u) ==
    /\ u \in DOMAIN parent
    /\ parent' = Without(parent, Below(parent, u))

Next == \E u \in Uid : Place(u) \/ Remove(u)

Spec == Init /\ [][Next]_parent

=============================================================================
