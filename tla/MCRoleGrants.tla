---------------------------- MODULE MCRoleGrants ----------------------------
(* RoleGrants on small instances. *)
EXTENDS RoleGrants, TLC

CONSTANTS title, tags, posts, blogposts, view, update, destroy, own

\* of an action that some configurations leave out, and of one that some change
MCStrategy == [r \in Role |-> {view, destroy}]

MCEndsWith == {<<blogposts, posts>>}

\* not used, nothing granted, a part of the fields, all of them with a scope,
\* and actions that differ
MCSettings ==
    LET config(F, s) == [fields |-> F, scope |-> s]
        none == [a \in {} |-> config({}, NoScope)]
    IN {[using |-> FALSE, actions |-> view :> config({tags}, NoScope)],
        [using |-> TRUE, actions |-> none],
        [using |-> TRUE, actions |-> view :> config({title}, NoScope)],
        [using |-> TRUE, actions |-> view :> config({title, tags}, own)],
        [using |-> TRUE, actions |-> view :> config({title}, NoScope) @@
                                     update :> config({tags}, own) @@
                                     destroy :> config({tags}, NoScope)]}

=============================================================================
