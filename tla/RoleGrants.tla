----------------------------- MODULE RoleGrants -----------------------------
(***************************************************************************)
(* What roles may do (plugins/acl/src/server.ts and its models, with       *)
(* core/acl/src/acl-role.ts).  The configuration is kept in tables, and    *)
(* each process decides from an ACL in its memory, which the hooks of the  *)
(* tables write inside of the transactions and a reload writes anew.       *)
(*                                                                         *)
(* One transaction runs at a time, and requests are answered between its   *)
(* steps: the change of the rows, the writing of each resource, which      *)
(* revokes it, puts it in place anew and grants its actions one by one,    *)
(* and the commit.  For a resource that the ACL does not have, the         *)
(* strategy of the role decides (can() in core/acl/src/acl.ts); which      *)
(* actions it has does not change here.  The snippets, menus and users of  *)
(* roles are left out, and the predicates of strategies.                   *)
(***************************************************************************)
EXTENDS Naturals, FiniteSets

CONSTANTS
    Role,
    Collection,
    Field,        \* the names of fields
    Association,  \* those of association fields
    Action,       \* the available actions
    Bringing,     \* those that bring actions of associations: view, create, update
    Scope,
    Strategy,     \* the actions that the strategy of each role allows
    EndsWith,     \* <<d, c>>: the name of d ends with the name of c
    Settings,     \* the configurations of a resource that requests send
    MaxEdits      \* bound on the edits of a scope

\* no scope, and the filter that no scope has
NoScope == "none"
NoFilter == 0

ASSUME ConstantsAssumption ==
    /\ Association \subseteq Field
    /\ Bringing \subseteq Action
    /\ Strategy \in [Role -> SUBSET Action]
    /\ EndsWith \subseteq {dc \in Collection \X Collection : dc[1] # dc[2]}
    /\ NoScope \notin Scope
    /\ MaxEdits \in Nat

\* a row of rolesResources with its actions: fields and scope of those it has
Resource == [using : BOOLEAN,
             actions : UNION {[A -> [fields : SUBSET Field, scope : Scope \cup {NoScope}]] :
                                 A \in SUBSET Action}]

ASSUME SettingsAssumption == Settings \subseteq Resource

\* the resources of the ACL: a collection itself, and its associations
Itself == "itself"
Name == Collection \X (Association \cup {Itself})

ASSUME NamesAssumption == Itself \notin Field

VARIABLES
    roles,     \* the rows of roles
    fields,    \* the collections and their fields, in the tables and in memory
    resources, \* the rows of rolesResources, by role and collection
    filter,    \* the filter of each scope, as the number of its edits
    before,    \* the rows before the transaction
    todo,      \* the resources that the transaction has still to write
    writing,   \* the actions that are still to grant of the one being written
    acl,       \* the ACL: of each role its resources and what they grant
    outdated,  \* what was not written since a scope that it has was edited
    failed     \* a transaction rolled back after its hooks, since the last reload

rows == [roles |-> roles, fields |-> fields, resources |-> resources]
vars == <<roles, fields, resources, filter, before, todo, writing, acl, outdated, failed>>

-----------------------------------------------------------------------------

None == [x \in {} |-> {}]
Configured == DOMAIN resources
Of(r) == {p \in Configured : p[1] = r}
For(c) == {p \in Configured : p[2] = c}

\* f with the value v for x, and f without the domain S
With(f, x, v) == [y \in DOMAIN f \cup {x} |-> IF y = x THEN v ELSE f[y]]
Without(f, S) == [y \in DOMAIN f \ S |-> f[y]]

\* mutant of Revoked: only the resource itself is deleted
RevokedItself(R, c) == Without(R, {<<c, Itself>>})

\* revokeResource(): the resource and those whose name includes its own and a
\* dot: its associations, and those of the names that end with it
Revoked(R, c) ==
    Without(R, {n \in DOMAIN R : n[1] = c \/ (n[2] # Itself /\ <<n[1], c>> \in EndsWith)})

\* mutant of Brought: an association is granted with each of its collection
BroughtAll(c, a, config) ==
    IF a \in Bringing /\ c \in DOMAIN fields THEN fields[c] \cap Association ELSE {}

\* the associations whose actions come with the action a of c
Brought(c, a, config) ==
    IF a \in Bringing /\ c \in DOMAIN fields
    THEN config.fields \cap fields[c] \cap Association ELSE {}

FilterOf(s) == IF s = NoScope THEN NoFilter ELSE filter[s]
Params(config) == [fields |-> config.fields, scope |-> config.scope, filter |-> FilterOf(config.scope)]

\* role.grantAction(): the resource is made when there is none
Granted(R, n, a, params) == With(R, n, With(IF n \in DOMAIN R THEN R[n] ELSE None, a, params))
NoParams == [fields |-> {}, scope |-> NoScope, filter |-> NoFilter]

\* the hooks of a transaction ran to the end of what they write
Written == todo = {} /\ writing = None
Idle == Written /\ before = rows

-----------------------------------------------------------------------------
(* The requests: the rows they change, and the resources that are written *)

Begin(R, F, S, pairs) ==
    /\ Idle
    /\ ~ failed
    /\ roles' = R
    /\ fields' = F
    /\ resources' = S
    /\ todo' = pairs
    /\ UNCHANGED <<filter, before, writing, outdated, failed>>

\* roles.afterSaveWithAssociations: the role is defined when it is new, and all
\* of its resources are written
SaveRole(r) ==
    /\ Begin(roles \cup {r}, fields, resources, Of(r))
    /\ acl' = IF r \in DOMAIN acl THEN acl ELSE With(acl, r, None)

\* mutant of DestroyRole: its resources stay
DestroyRoleOnly(r) ==
    /\ r \in roles
    /\ Begin(roles \ {r}, fields, resources, {})
    /\ acl' = Without(acl, {r})

\* roles.afterDestroy: its resources lost their role before
DestroyRole(r) ==
    /\ r \in roles
    /\ Begin(roles \ {r}, fields, Without(resources, Of(r)), {})
    /\ acl' = Without(acl, {r})

\* roles.resources: create and update
SaveResource(r, c, setting) ==
    /\ r \in roles
    /\ c \in DOMAIN fields
    /\ \A a \in DOMAIN setting.actions : setting.actions[a].fields \subseteq fields[c]
    /\ Begin(roles, fields, With(resources, <<r, c>>, setting), {<<r, c>>})
    /\ UNCHANGED acl

\* rolesResources.afterDestroy
DestroyResource(r, c) ==
    /\ <<r, c>> \in Configured
    /\ Begin(roles, fields, Without(resources, {<<r, c>>}), {})
    /\ acl' = [acl EXCEPT ![r] = Revoked(@, c)]

CreateCollection(c) ==
    /\ c \notin DOMAIN fields
    /\ Begin(roles, With(fields, c, {}), resources, {})
    /\ UNCHANGED acl

\* collections.afterDestroy: its resources are destroyed, with their hooks
DestroyCollection(c) ==
    /\ c \in DOMAIN fields
    /\ Begin(roles, Without(fields, {c}), Without(resources, For(c)), {})
    /\ acl' = [r \in DOMAIN acl |->
                  IF <<r, c>> \in Configured THEN Revoked(acl[r], c) ELSE acl[r]]

\* the resources of c with the fields change[F] for the fields F of each action
Configuring(c, change) ==
    [p \in Configured |->
        IF p[2] = c
        THEN [resources[p] EXCEPT !.actions =
                 [a \in DOMAIN resources[p].actions |->
                     [resources[p].actions[a] EXCEPT !.fields = change[@]]]]
        ELSE resources[p]]

\* fields.afterCreate: every action of the collection gets the field
CreateField(c, f) ==
    /\ c \in DOMAIN fields
    /\ f \notin fields[c]
    /\ LET Add == [F \in SUBSET Field |-> F \cup {f}]
       IN Begin(roles, [fields EXCEPT ![c] = @ \cup {f}], Configuring(c, Add),
                {p \in For(c) : DOMAIN resources[p].actions # {}})
    /\ UNCHANGED acl

\* fields.afterDestroy: the actions that have the field lose it
DestroyField(c, f) ==
    /\ c \in DOMAIN fields
    /\ f \in fields[c]
    /\ LET Drop == [F \in SUBSET Field |-> F \ {f}]
       IN Begin(roles, [fields EXCEPT ![c] = @ \ {f}], Configuring(c, Drop),
                {p \in For(c) : \E a \in DOMAIN resources[p].actions :
                                    f \in resources[p].actions[a].fields})
    /\ UNCHANGED acl

\* no hook follows an edit of a scope
EditScope(s) ==
    /\ Idle
    /\ ~ failed
    /\ filter[s] <= MaxEdits
    /\ filter' = [filter EXCEPT ![s] = @ + 1]
    /\ outdated' = outdated \cup
                     {p \in Configured : \E a \in DOMAIN resources[p].actions :
                                             resources[p].actions[a].scope = s}
    /\ UNCHANGED <<roles, fields, resources, before, todo, writing, acl, failed>>

-----------------------------------------------------------------------------
(* The hooks *)

\* RoleResourceModel.writeToACL(): what was granted is revoked; until the next
\* step the strategy answers for the resource, and from now on when it does not
\* use its configuration
Write(p) ==
    /\ p \in todo
    /\ writing = None
    /\ todo' = todo \ {p}
    /\ acl' = [acl EXCEPT ![p[1]] = Revoked(@, p[2])]
    /\ writing' = IF resources[p].using
                  THEN [role |-> p[1], name |-> p[2], left |-> DOMAIN resources[p].actions,
                        placed |-> FALSE]
                  ELSE None
    /\ outdated' = outdated \ {p}
    /\ UNCHANGED <<roles, fields, resources, filter, before, failed>>

\* ... after revoke() the resource is in the ACL, with no action yet
Place ==
    /\ writing # None
    /\ ~ writing.placed
    /\ acl' = [acl EXCEPT ![writing.role] = With(@, <<writing.name, Itself>>, None)]
    /\ writing' = IF writing.left = {} THEN None ELSE [writing EXCEPT !.placed = TRUE]
    /\ UNCHANGED <<roles, fields, resources, filter, before, todo, outdated, failed>>

\* RoleResourceActionModel.writeToACL()
Grant(a) ==
    /\ writing # None
    /\ writing.placed
    /\ a \in writing.left
    /\ LET r == writing.role
           c == writing.name
           config == resources[<<r, c>>].actions[a]
           self == Granted(acl[r], <<c, Itself>>, a, Params(config))
           brought == {<<c, f>> : f \in Brought(c, a, config)}
       IN acl' = [acl EXCEPT ![r] =
                    [n \in DOMAIN self \cup brought |->
                        IF n \in brought
                        THEN With(IF n \in DOMAIN self THEN self[n] ELSE None, a, NoParams)
                        ELSE self[n]]]
    /\ writing' = IF writing.left = {a} THEN None ELSE [writing EXCEPT !.left = @ \ {a}]
    /\ UNCHANGED <<roles, fields, resources, filter, before, todo, outdated, failed>>

Commit ==
    /\ Written
    /\ before # rows
    /\ before' = rows
    /\ UNCHANGED <<roles, fields, resources, filter, todo, writing, acl, outdated, failed>>

\* something that follows throws: the rows are as they were, the ACL is not
Rollback ==
    /\ before # rows
    /\ roles' = before.roles
    /\ fields' = before.fields
    /\ resources' = before.resources
    /\ todo' = {}
    /\ writing' = None
    /\ failed' = TRUE
    /\ UNCHANGED <<filter, before, acl, outdated>>

\* writeRolesToACL() of a new ACL, when the application is loaded again
Reload ==
    /\ Idle
    /\ acl' = [r \in roles |-> None]
    /\ todo' = Configured
    /\ outdated' = Configured
    /\ failed' = FALSE
    /\ UNCHANGED <<roles, fields, resources, filter, before, writing>>

-----------------------------------------------------------------------------

Init ==
    /\ roles = {}
    /\ fields = None
    /\ resources = None
    /\ filter = [s \in Scope |-> 1]
    /\ before = rows
    /\ todo = {}
    /\ writing = None
    /\ acl = None
    /\ outdated = {}
    /\ failed = FALSE

Next ==
    \/ \E r \in Role : SaveRole(r)
    \/ \E r \in Role : DestroyRole(r)
    \/ \E r \in Role, c \in Collection, setting \in Settings : SaveResource(r, c, setting)
    \/ \E r \in Role, c \in Collection : DestroyResource(r, c)
    \/ \E c \in Collection : CreateCollection(c)
    \/ \E c \in Collection : DestroyCollection(c)
    \/ \E c \in Collection, f \in Field : CreateField(c, f)
    \/ \E c \in Collection, f \in Field : DestroyField(c, f)
    \/ \E s \in Scope : EditScope(s)
    \/ \E p \in todo : Write(p)
    \/ Place
    \/ \E a \in Action : Grant(a)
    \/ Commit
    \/ Rollback
    \/ Reload

Spec == Init /\ [][Next]_vars

-----------------------------------------------------------------------------
(* Properties *)

TypeOK ==
    /\ roles \subseteq Role
    /\ DOMAIN fields \subseteq Collection
    /\ \A c \in DOMAIN fields : fields[c] \subseteq Field
    /\ Configured \subseteq roles \X DOMAIN fields
    /\ \A p \in Configured : resources[p] \in Resource
    /\ filter \in [Scope -> 1..(MaxEdits + 1)]
    /\ todo \subseteq Configured
    /\ ~ failed => DOMAIN acl = roles
    /\ \A r \in DOMAIN acl : DOMAIN acl[r] \subseteq Name
    /\ \A r \in DOMAIN acl, n \in Name : n \in DOMAIN acl[r] => DOMAIN acl[r][n] \subseteq Action

\* what the rows say that the action a of the role r may do with the resource n
Says(all, r, n, a) ==
    LET p == <<r, n[1]>>
        action == all.resources[p].actions[a]
    IN /\ p \in DOMAIN all.resources
       /\ all.resources[p].using
       /\ a \in DOMAIN all.resources[p].actions
       /\ n[2] # Itself => a \in Bringing /\ n[2] \in action.fields \cap Association

\* those rows have something of their own to say of n: it is a resource that
\* uses its configuration, or an association that comes with one
Present(all, r, n) ==
    /\ <<r, n[1]>> \in DOMAIN all.resources
    /\ all.resources[<<r, n[1]>>].using
    /\ n[2] # Itself => \E a \in Action : Says(all, r, n, a)

\* what those rows decide, the strategy included
Decides(all, r, n, a) ==
    IF Present(all, r, n) THEN Says(all, r, n, a) ELSE a \in Strategy[r]

\* acl.can(): a resource in the ACL has the actions it has, for another one the
\* strategy answers
Allowed(r, n, a) ==
    IF n \in DOMAIN acl[r] THEN a \in DOMAIN acl[r][n] ELSE a \in Strategy[r]

\* an association is lost with a resource that its collection ends with
Exposed(n) == n[2] # Itself /\ \E c \in Collection : <<n[1], c>> \in EndsWith

\* Once a request is answered, what the ACL in memory decides is what the rows
\* decide: each resource that uses its configuration, and no other, is in it
\* with the actions, associations and fields it has and nothing that was
\* revoked, and the strategy answers for the rest.
\* Left out are the filters of scopes edited since, what a rollback left, and
\* the associations of a collection whose name ends with another's.
GrantsAgree ==
    Idle /\ ~ failed => \A r \in roles, n \in Name :
        /\ n \in DOMAIN acl[r] => Present(rows, r, n)
        /\ \A a \in Action :
             LET granted == n \in DOMAIN acl[r] /\ a \in DOMAIN acl[r][n]
             IN /\ ~ Exposed(n) => (Allowed(r, n, a) <=> Decides(rows, r, n, a))
                /\ granted => Says(rows, r, n, a)
                /\ granted /\ n[2] = Itself /\ <<r, n[1]>> \notin outdated =>
                      acl[r][n][a] = Params(resources[<<r, n[1]>>].actions[a])

\* what is granted is what those rows say, but for filters
Fits(all, r, n, a) ==
    /\ Says(all, r, n, a)
    /\ n[2] = Itself =>
         LET action == all.resources[<<r, n[1]>>].actions[a]
         IN /\ acl[r][n][a].fields = action.fields
            /\ acl[r][n][a].scope = action.scope

\* those rows let the request do what the ACL lets it do
Lets(all, r, n, a) ==
    IF n \in DOMAIN acl[r] THEN Fits(all, r, n, a)
    ELSE ~ Present(all, r, n) /\ a \in Strategy[r]

\* the resource is not written to its end, by the transaction or the reload
Unwritten(r, c) ==
    \/ <<r, c>> \in todo
    \/ writing # None /\ writing.role = r /\ writing.name = c

\* Whatever moment of a transaction a request falls into, it may do what the
\* rows before or the rows after let it do, and besides only what the strategy
\* allows, for a resource that is revoked and not written to its end or for an
\* association that was lost with another resource (writeToACL() and can()).
NothingExtra ==
    ~ failed => \A r \in DOMAIN acl, n \in Name, a \in Action : Allowed(r, n, a) =>
        \/ Lets(before, r, n, a)
        \/ Lets(rows, r, n, a)
        \/ /\ n \notin DOMAIN acl[r]
           /\ a \in Strategy[r]
           /\ Exposed(n) \/ Unwritten(r, n[1])

=============================================================================
