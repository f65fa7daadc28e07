------------------------------ MODULE FlowNodes ------------------------------
(***************************************************************************)
(* Editing the nodes of a workflow                                         *)
(* (packages/plugins/workflow/src/server/actions/nodes.ts): create,        *)
(* destroy and update.                                                     *)
(*                                                                         *)
(* The nodes are rows of flow_nodes linked in both directions: a node has  *)
(* the id of its upstream and of its downstream, and a branchIndex when it *)
(* starts a branch of its upstream.  The columns have no constraint in the *)
(* database.  Each action is a transaction that first reads (whether the   *)
(* workflow was executed, and the neighbours of the node) and then writes; *)
(* what it wrote is seen by others when it commits, so a request is two    *)
(* steps, and other requests and the dispatcher run between them.          *)
(***************************************************************************)
EXTENDS Integers, FiniteSets

CONSTANTS
    Editors,   \* the requests that may be open at once
    Nobody,    \* who configured a node that was only created
    MaxNodes,  \* bound on the nodes ever created
    MaxBranch  \* bound on branchIndex

ASSUME ConstantsAssumption ==
    /\ MaxNodes \in Nat
    /\ MaxBranch \in Nat
    /\ Nobody \notin Editors

\* flow_nodes.id; 0 is null
Id == 1..MaxNodes
\* flow_nodes.branchIndex; None is null
None == -1
BranchIndex == 0..MaxBranch

\* a request between its reads and its commit: what it was asked, and what it
\* read of the node (destroy) or of the place of the node (create)
Request == [kind : {"idle", "create", "destroy", "update"},
            node : Id \cup {0},
            upstream : Id \cup {0},
            downstream : Id \cup {0},
            branch : BranchIndex \cup {None},
            follows : BOOLEAN,       \* upstream.downstreamId === instance.id
            removed : SUBSET Id]     \* branchNodes

NoRequest == [kind |-> "idle", node |-> 0, upstream |-> 0, downstream |-> 0,
              branch |-> None, follows |-> FALSE, removed |-> {}]

VARIABLES
    live,                          \* the rows of flow_nodes
    upstream, downstream, branch,  \* their columns; 0 and None without a row
    config,                        \* the editor who configured the node
    created,                       \* the last id given
    executed,                      \* workflows.executed > 0
    request                        \* the open request of each editor

links == <<live, upstream, downstream, branch>>
vars == <<links, config, created, executed, request>>

\* the nodes that start a branch of n
Heads(n) == {m \in live : upstream[m] = n /\ branch[m] # None}

\* mutant of Closed: the nodes inside the branches' own branches are left
ClosedDownstream(n, S) ==
    /\ Heads(n) \subseteq S
    /\ \A k \in S : downstream[k] \in S \cup {0}

\* S has the branches of n, and with a node what is below it
Closed(n, S) ==
    /\ Heads(n) \subseteq S
    /\ \A k \in S : downstream[k] \in S \cup {0} /\ Heads(k) \subseteq S

\* searchBranchNodes(nodes, n): the nodes in the branches of n, which follow one
\* another and have branches of their own
BranchNodes(n) ==
    {m \in live : \A S \in SUBSET live : Closed(n, S) => m \in S}

Open(e, r) == request' = [request EXCEPT ![e] = r]

-----------------------------------------------------------------------------
(* create *)

\* mutant of Follower: the node that started the branch is not looked for
FollowerOfBranch(up, b) ==
    IF up = 0 THEN {m \in live : upstream[m] = 0}
    ELSE IF b = None THEN {downstream[up]} \ {0}
    ELSE {}

\* mutant of Follower: the upstream itself is taken for what follows it
FollowerIsUpstream(up, b) ==
    IF up = 0 THEN {m \in live : upstream[m] = 0}
    ELSE IF b = None THEN {up}
    ELSE {m \in live : upstream[m] = up /\ branch[m] = b}

\* the node whose place the new one takes: the head of the flow, the downstream
\* of its upstream, or the node that starts the branch
Follower(up, b) ==
    IF up = 0 THEN {m \in live : upstream[m] = 0}
    ELSE IF b = None THEN {downstream[up]} \ {0}
    ELSE {m \in live : upstream[m] = up /\ branch[m] = b}

\* create() as the client asks for it (AddButton.tsx): a branch only with an
\* upstream, and no columns of links of its own; the action checks neither
OpenCreate(e, up, b) ==
    /\ request[e] = NoRequest
    /\ ~executed
    /\ created < MaxNodes
    /\ up \in live \cup {0}
    /\ up = 0 => b = None
    /\ \E d \in Follower(up, b) \cup {0} :
          /\ d = 0 => Follower(up, b) = {}
          /\ Open(e, [NoRequest EXCEPT !.kind = "create", !.upstream = up,
                                       !.downstream = d, !.branch = b])
    /\ UNCHANGED <<links, config, created, executed>>

\* mutant of NextId: the nodes are counted, and ids come again
NextIdByCount == Cardinality(live) + 1

NextId == created + 1

\* the new node goes between what was read; an update of a row that is gone
\* meanwhile changes nothing
CommitCreate(e) ==
    LET r == request[e]
        i == NextId
    IN /\ r.kind = "create"
       /\ created < MaxNodes
       /\ created' = i
       /\ live' = live \cup {i}
       /\ upstream' = [n \in Id |->
             IF n = i THEN r.upstream
             ELSE IF n \in live /\ n = r.downstream THEN i
             ELSE upstream[n]]
       /\ downstream' = [n \in Id |->
             IF n = i THEN r.downstream
             ELSE IF n \in live /\ n = r.upstream /\ r.branch = None THEN i
             ELSE downstream[n]]
       /\ branch' = [n \in Id |->
             IF n = i THEN r.branch
             ELSE IF n \in live /\ n = r.downstream /\ r.branch # None THEN None
             ELSE branch[n]]
       /\ config' = [config EXCEPT ![i] = e]
       /\ Open(e, NoRequest)
       /\ UNCHANGED executed

-----------------------------------------------------------------------------
(* destroy *)

OpenDestroy(e, n) ==
    /\ request[e] = NoRequest
    /\ ~executed
    /\ n \in live
    /\ Open(e, [kind |-> "destroy", node |-> n, upstream |-> upstream[n],
                downstream |-> downstream[n], branch |-> branch[n],
                follows |-> upstream[n] # 0 /\ downstream[upstream[n]] = n,
                removed |-> BranchNodes(n)])
    /\ UNCHANGED <<links, config, created, executed>>

\* mutant of CommitDestroy: the next node does not take the branch over
CommitDestroyWithoutBranch(e) ==
    LET r == request[e]
        gone == {r.node} \cup r.removed
        kept(n) == IF n \in gone THEN 0 ELSE n
    IN /\ r.kind = "destroy"
       /\ live' = live \ gone
       /\ upstream' = [n \in Id |->
             IF n \notin live' THEN 0
             ELSE IF n = r.downstream THEN kept(r.upstream)
             ELSE kept(upstream[n])]
       /\ downstream' = [n \in Id |->
             IF n \notin live' THEN 0
             ELSE IF n = r.upstream /\ r.follows THEN kept(r.downstream)
             ELSE kept(downstream[n])]
       /\ branch' = [n \in Id |-> IF n \notin live' THEN None ELSE branch[n]]
       /\ config' = [n \in Id |-> IF n \in live' THEN config[n] ELSE Nobody]
       /\ Open(e, NoRequest)
       /\ UNCHANGED <<created, executed>>

\* the neighbours are linked past the node, then it is deleted with its
\* branches, and what still refers to a deleted row is set to null
CommitDestroy(e) ==
    LET r == request[e]
        gone == {r.node} \cup r.removed
        kept(n) == IF n \in gone THEN 0 ELSE n
    IN /\ r.kind = "destroy"
       /\ live' = live \ gone
       /\ upstream' = [n \in Id |->
             IF n \notin live' THEN 0
             ELSE IF n = r.downstream THEN kept(r.upstream)
             ELSE kept(upstream[n])]
       /\ downstream' = [n \in Id |->
             IF n \notin live' THEN 0
             ELSE IF n = r.upstream /\ r.follows THEN kept(r.downstream)
             ELSE kept(downstream[n])]
       /\ branch' = [n \in Id |->
             IF n \notin live' THEN None
             ELSE IF n = r.downstream THEN r.branch
             ELSE branch[n]]
       /\ config' = [n \in Id |-> IF n \in live' THEN config[n] ELSE Nobody]
       /\ Open(e, NoRequest)
       /\ UNCHANGED <<created, executed>>

-----------------------------------------------------------------------------
(* update, and the dispatcher *)

OpenUpdate(e, n) ==
    /\ request[e] = NoRequest
    /\ ~executed
    /\ n \in live
    /\ Open(e, [NoRequest EXCEPT !.kind = "update", !.node = n])
    /\ UNCHANGED <<links, config, created, executed>>

CommitUpdate(e) ==
    /\ request[e].kind = "update"
    /\ config' = [n \in Id |-> IF n \in live /\ n = request[e].node THEN e
                               ELSE config[n]]
    /\ Open(e, NoRequest)
    /\ UNCHANGED <<links, created, executed>>

\* prepare() of the plugin creates an execution and counts it
Execute ==
    /\ ~executed
    /\ executed' = TRUE
    /\ UNCHANGED <<links, config, created, request>>

Init ==
    /\ live = {}
    /\ upstream = [n \in Id |-> 0]
    /\ downstream = [n \in Id |-> 0]
    /\ branch = [n \in Id |-> None]
    /\ config = [n \in Id |-> Nobody]
    /\ created = 0
    /\ executed = FALSE
    /\ request = [e \in Editors |-> NoRequest]

Next ==
    \/ \E e \in Editors :
          \/ \E up \in Id \cup {0}, b \in BranchIndex \cup {None} : OpenCreate(e, up, b)
          \/ CommitCreate(e)
          \/ \E n \in Id : OpenDestroy(e, n) \/ OpenUpdate(e, n)
          \/ CommitDestroy(e)
          \/ CommitUpdate(e)
    \/ Execute

Spec == Init /\ [][Next]_vars

-----------------------------------------------------------------------------
(* Properties *)

TypeOK ==
    /\ live \subseteq Id
    /\ upstream \in [Id -> Id \cup {0}]
    /\ downstream \in [Id -> Id \cup {0}]
    /\ branch \in [Id -> BranchIndex \cup {None}]
    /\ config \in [Id -> Editors \cup {Nobody}]
    /\ created \in 0..MaxNodes
    /\ live \subseteq 1..created
    /\ executed \in BOOLEAN
    /\ request \in [Editors -> Request]

\* The processor makes a dual linked list of the nodes: the two directions
\* agree, and lead to nodes that exist.
LinksAgree ==
    \A n \in live :
        /\ upstream[n] \in live \cup {0}
        /\ downstream[n] \in live \cup {0}
        /\ \A m \in live :
              downstream[n] = m <=> upstream[m] = n /\ branch[m] = None

\* The processor starts with the node that has no upstream, and goes into the
\* branches: there is one such node, and one node for each index.
OneStart ==
    \A m, n \in live :
        /\ upstream[m] = 0 => branch[m] = None
        /\ upstream[m] = upstream[n] /\ branch[m] = branch[n] => m = n

\* The processor walks up from a node to the branch it is in: no nodes form a
\* cycle, so that it arrives, and each node can be reached from the first.
NoCycle ==
    \A S \in SUBSET live : (\A n \in S : upstream[n] \in S) => S = {}

\* Both: the nodes are one tree, with one way to each of them.
OneTree == OneStart /\ NoCycle

\* The nodes that n comes after, with the branch of each that n is in (None
\* when it comes after the branches).
Place(n) ==
    LET up[k \in live \cup {0}] ==
          IF k = 0 THEN {} ELSE {<<upstream[k], branch[k]>>} \cup up[upstream[k]]
    IN up[n]

\* Whatever is inserted or deleted around two nodes, one stays after the other
\* and in the same branch of it.
OrderKept ==
    [][\A n \in live \cap live' :
          {p \in Place(n) : p[1] \in live'} = {p \in Place(n)' : p[1] \in live}]_vars

=============================================================================
