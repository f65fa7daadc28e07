--------------------------- MODULE FlowNodesProofs ---------------------------
(***************************************************************************)
(* Proofs about FlowNodes: the state is well-typed for any set of editors, *)
(* and with one editor at a time the nodes are always a tree: linked the   *)
(* same in both directions, with one first node and without a cycle, and   *)
(* with the nodes that stay in their order.                                *)
(***************************************************************************)
EXTENDS FlowNodes, TLAPS

\* The nodes are the tree the processor expects.
Tree == LinksAgree /\ OneStart /\ NoCycle

\* What an open request read is still so when it commits.
UpToDate(r) ==
    /\ r.kind = "create" =>
          /\ created < MaxNodes
          /\ r.upstream \in live \cup {0}
          /\ r.upstream = 0 => r.branch = None
          /\ r.downstream \in Follower(r.upstream, r.branch) \cup {0}
          /\ r.downstream = 0 => Follower(r.upstream, r.branch) = {}
    /\ r.kind = "destroy" =>
          /\ r.node \in live
          /\ r.upstream = upstream[r.node]
          /\ r.downstream = downstream[r.node]
          /\ r.branch = branch[r.node]
          /\ r.follows <=> upstream[r.node] # 0 /\ downstream[upstream[r.node]] = r.node
          /\ r.removed = BranchNodes(r.node)

\* The inductive invariant with one editor.
Inv ==
    /\ TypeOK
    /\ Tree
    /\ \A e \in Editors : UpToDate(request[e])

-----------------------------------------------------------------------------
(* Type correctness *)

\* No request, and the ids and indexes that stand for null, are typed.
LEMMA NullTypes ==
    /\ NoRequest \in Request
    /\ 0 \notin Id
    /\ None \notin BranchIndex
BY ConstantsAssumption DEF NoRequest, Request, Id, BranchIndex, None

\* The initial state is well-typed.
LEMMA TypeInit == Init => TypeOK
<1>. SUFFICES ASSUME Init PROVE TypeOK
  OBVIOUS
<1>1. live = {} /\ executed \in BOOLEAN
  BY DEF Init
<1>4. created \in 0..MaxNodes
  BY ConstantsAssumption DEF Init
<1>2. request \in [Editors -> Request]
  BY NullTypes DEF Init
<1>3. /\ upstream \in [Id -> Id \cup {0}]
      /\ downstream \in [Id -> Id \cup {0}]
      /\ branch \in [Id -> BranchIndex \cup {None}]
      /\ config \in [Id -> Editors \cup {Nobody}]
  BY DEF Init
<1>. QED BY <1>1, <1>2, <1>3, <1>4 DEF TypeOK

\* Opening or closing a request keeps the requests typed.
LEMMA OpenTypes ==
    ASSUME TypeOK, NEW e \in Editors, NEW r \in Request, Open(e, r)
    PROVE  request' \in [Editors -> Request]
BY DEF TypeOK, Open

\* The commit of a create keeps the state well-typed.
LEMMA TypeCreate ==
    ASSUME TypeOK, NEW e \in Editors, CommitCreate(e) PROVE TypeOK'
<1>. DEFINE r == request[e]
            i == created + 1
<1>1. r \in Request /\ i \in Id /\ created \in Nat
  BY ConstantsAssumption DEF TypeOK, CommitCreate, NextId, Id
<1>2. r.upstream \in Id \cup {0} /\ r.downstream \in Id \cup {0}
      /\ r.branch \in BranchIndex \cup {None}
  BY <1>1 DEF Request
<1>3. request' \in [Editors -> Request]
  BY OpenTypes, NullTypes DEF CommitCreate, NextId
<1>4. upstream' \in [Id -> Id \cup {0}]
  BY <1>1, <1>2 DEF TypeOK, CommitCreate, NextId
<1>5. downstream' \in [Id -> Id \cup {0}]
  BY <1>1, <1>2 DEF TypeOK, CommitCreate, NextId
<1>6. branch' \in [Id -> BranchIndex \cup {None}]
  BY <1>1, <1>2 DEF TypeOK, CommitCreate, NextId
<1>7. live' \subseteq Id /\ live' \subseteq 1..created' /\ created' \in 0..MaxNodes
  BY <1>1, ConstantsAssumption DEF TypeOK, CommitCreate, NextId, Id
<1>8. config' \in [Id -> Editors \cup {Nobody}] /\ executed' \in BOOLEAN
  BY <1>1 DEF TypeOK, CommitCreate, NextId
<1>. QED BY <1>3, <1>4, <1>5, <1>6, <1>7, <1>8 DEF TypeOK

\* The commit of a destroy keeps the state well-typed.
LEMMA TypeDestroy ==
    ASSUME TypeOK, NEW e \in Editors, CommitDestroy(e) PROVE TypeOK'
<1>. DEFINE r == request[e]
            gone == {r.node} \cup r.removed
            kept(n) == IF n \in gone THEN 0 ELSE n
<1>1. r \in Request
  BY DEF TypeOK
<1>2. r.upstream \in Id \cup {0} /\ r.downstream \in Id \cup {0}
      /\ r.branch \in BranchIndex \cup {None}
  BY <1>1 DEF Request
<1>3. request' \in [Editors -> Request]
  BY OpenTypes, NullTypes DEF CommitDestroy
<1>4. \A n \in Id \cup {0} : kept(n) \in Id \cup {0}
  OBVIOUS
<1>5. upstream' \in [Id -> Id \cup {0}]
  BY <1>2, <1>4 DEF TypeOK, CommitDestroy
<1>6. downstream' \in [Id -> Id \cup {0}]
  BY <1>2, <1>4 DEF TypeOK, CommitDestroy
<1>7. branch' \in [Id -> BranchIndex \cup {None}]
  BY <1>2 DEF TypeOK, CommitDestroy
<1>8. live' \subseteq Id /\ live' \subseteq 1..created' /\ created' \in 0..MaxNodes
  BY DEF TypeOK, CommitDestroy
<1>9. config' \in [Id -> Editors \cup {Nobody}] /\ executed' \in BOOLEAN
  BY DEF TypeOK, CommitDestroy
<1>. QED BY <1>3, <1>5, <1>6, <1>7, <1>8, <1>9 DEF TypeOK

\* The requests that open read nodes.
LEMMA OpenIsTyped ==
    ASSUME TypeOK, NEW e \in Editors
    PROVE  /\ \A up \in Id \cup {0}, b \in BranchIndex \cup {None} :
                 OpenCreate(e, up, b) => request' \in [Editors -> Request]
           /\ \A n \in Id : OpenDestroy(e, n) \/ OpenUpdate(e, n) =>
                 request' \in [Editors -> Request]
<1>1. ASSUME NEW up \in Id \cup {0}, NEW b \in BranchIndex \cup {None},
             OpenCreate(e, up, b)
      PROVE  request' \in [Editors -> Request]
  <2>1. Follower(up, b) \subseteq Id
    BY <1>1 DEF TypeOK, Follower, OpenCreate
  <2>2. PICK d \in Id \cup {0} :
           Open(e, [NoRequest EXCEPT !.kind = "create", !.upstream = up,
                                     !.downstream = d, !.branch = b])
    BY <1>1, <2>1 DEF OpenCreate
  <2>3. [NoRequest EXCEPT !.kind = "create", !.upstream = up,
                          !.downstream = d, !.branch = b] \in Request
    BY NullTypes DEF Request
  <2>. QED BY <2>2, <2>3, OpenTypes
<1>2. ASSUME NEW n \in Id, OpenDestroy(e, n)
      PROVE  request' \in [Editors -> Request]
  <2>. DEFINE q == [kind |-> "destroy", node |-> n, upstream |-> upstream[n],
                    downstream |-> downstream[n], branch |-> branch[n],
                    follows |-> upstream[n] # 0 /\ downstream[upstream[n]] = n,
                    removed |-> BranchNodes(n)]
  <2>1. BranchNodes(n) \in SUBSET Id
    BY DEF TypeOK, BranchNodes
  <2>2. q \in Request
    BY <2>1 DEF TypeOK, Request
  <2>. QED BY <1>2, <2>2, OpenTypes DEF OpenDestroy
<1>3. ASSUME NEW n \in Id, OpenUpdate(e, n)
      PROVE  request' \in [Editors -> Request]
  <2>1. [NoRequest EXCEPT !.kind = "update", !.node = n] \in Request
    BY NullTypes DEF Request
  <2>. QED BY <1>3, <2>1, OpenTypes DEF OpenUpdate
<1>. QED BY <1>1, <1>2, <1>3

\* Every step keeps the state well-typed.
LEMMA TypeNext == TypeOK /\ [Next]_vars => TypeOK'
<1>. SUFFICES ASSUME TypeOK, [Next]_vars PROVE TypeOK'
  OBVIOUS
<1>0. ASSUME request' \in [Editors -> Request],
             UNCHANGED <<links, config, created, executed>>
      PROVE  TypeOK'
  BY <1>0 DEF TypeOK, links
<1>1. ASSUME NEW e \in Editors, NEW up \in Id \cup {0},
             NEW b \in BranchIndex \cup {None}, OpenCreate(e, up, b)
      PROVE  TypeOK'
  BY <1>0, <1>1, OpenIsTyped DEF OpenCreate
<1>2. ASSUME NEW e \in Editors, NEW n \in Id, OpenDestroy(e, n) \/ OpenUpdate(e, n)
      PROVE  TypeOK'
  <2>1. request' \in [Editors -> Request]
    BY <1>2, OpenIsTyped
  <2>. QED BY <1>0, <1>2, <2>1 DEF OpenDestroy, OpenUpdate
<1>3. ASSUME NEW e \in Editors, CommitCreate(e) \/ CommitDestroy(e) PROVE TypeOK'
  BY <1>3, TypeCreate, TypeDestroy
<1>4. ASSUME NEW e \in Editors, CommitUpdate(e) PROVE TypeOK'
  <2>1. request' \in [Editors -> Request]
    BY <1>4, OpenTypes, NullTypes DEF CommitUpdate
  <2>2. config' \in [Id -> Editors \cup {Nobody}]
    BY <1>4 DEF TypeOK, CommitUpdate
  <2>. QED BY <1>4, <2>1, <2>2 DEF TypeOK, CommitUpdate, links
<1>5. CASE Execute
  BY <1>5 DEF TypeOK, Execute, links
<1>6. CASE UNCHANGED vars
  BY <1>6 DEF TypeOK, vars, links
<1>. QED BY <1>1, <1>2, <1>3, <1>4, <1>5, <1>6 DEF Next

\* The nodes table and the open requests are well-typed, however many editors
\* work on the workflow at once.
THEOREM TypeCorrect == Spec => []TypeOK
BY TypeInit, TypeNext, PTL DEF Spec

-----------------------------------------------------------------------------
(* One editor at a time: the nodes are a tree *)

\* The place of a new node is the place of one node at most: the nodes with the
\* upstream and the branch that were asked for.
LEMMA FollowerIs ==
    ASSUME TypeOK, Tree, NEW up \in live \cup {0},
           NEW b \in BranchIndex \cup {None}, up = 0 => b = None
    PROVE  Follower(up, b) = {m \in live : upstream[m] = up /\ branch[m] = b}
<1>1. CASE up = 0
  BY <1>1 DEF Follower, Tree, OneStart
<1>2. CASE up # 0 /\ b = None
  <2>1. Follower(up, b) = {downstream[up]} \ {0}
    BY <1>2 DEF Follower
  <2>2. /\ downstream[up] \in live \cup {0}
        /\ \A m \in live : downstream[up] = m <=> upstream[m] = up /\ branch[m] = None
    BY <1>2 DEF Tree, LinksAgree
  <2>3. 0 \notin live
    BY NullTypes DEF TypeOK
  <2>. QED BY <1>2, <2>1, <2>2, <2>3
<1>3. CASE up # 0 /\ b # None
  BY <1>3 DEF Follower
<1>. QED BY <1>1, <1>2, <1>3

\* What the commit of a create does to the links of the nodes.
LEMMA CreateEffect ==
    ASSUME Inv, NEW e \in Editors, CommitCreate(e),
           NEW u, u = request[e].upstream,
           NEW d, d = request[e].downstream,
           NEW b, b = request[e].branch,
           NEW i, i = created + 1
    PROVE  /\ i \in Id \ live /\ i # 0
           /\ u \in live \cup {0} /\ d \in live \cup {0}
           /\ u = 0 => b = None
           /\ \A m \in live : upstream[m] = u /\ branch[m] = b <=> m = d
           /\ live' = live \cup {i}
           /\ upstream'[i] = u /\ downstream'[i] = d /\ branch'[i] = b
           /\ \A n \in live :
                 /\ upstream'[n] = IF n = d THEN i ELSE upstream[n]
                 /\ downstream'[n] = IF n = u /\ b = None THEN i ELSE downstream[n]
                 /\ branch'[n] = IF n = d THEN None ELSE branch[n]
<1>. DEFINE r == request[e]
<1>1. r \in Request /\ r.kind = "create" /\ UpToDate(r)
  BY DEF Inv, TypeOK, CommitCreate, NextId
<1>2. /\ u \in live \cup {0}
      /\ u = 0 => b = None
      /\ d \in Follower(u, b) \cup {0}
      /\ d = 0 => Follower(u, b) = {}
      /\ b \in BranchIndex \cup {None}
  BY <1>1 DEF UpToDate, Request
<1>3. Follower(u, b) = {m \in live : upstream[m] = u /\ branch[m] = b}
  BY <1>2, FollowerIs DEF Inv
<1>4. i \in Id /\ i \notin live /\ i # 0 /\ 0 \notin live
  BY ConstantsAssumption DEF Inv, TypeOK, CommitCreate, NextId, Id
<1>5. \A m \in live : upstream[m] = u /\ branch[m] = b <=> m = d
  BY <1>2, <1>3, <1>4 DEF Inv, Tree, OneStart
<1>6. d \in live \cup {0}
  BY <1>2, <1>3
<1>7. live \subseteq Id
  BY DEF Inv, TypeOK
<1>8. /\ live' = live \cup {i}
      /\ upstream'[i] = u /\ downstream'[i] = d /\ branch'[i] = b
  BY <1>4 DEF CommitCreate, NextId
<1>9. ASSUME NEW n \in live
      PROVE  /\ upstream'[n] = IF n = d THEN i ELSE upstream[n]
             /\ downstream'[n] = IF n = u /\ b = None THEN i ELSE downstream[n]
             /\ branch'[n] = IF n = d /\ b # None THEN None ELSE branch[n]
  BY <1>4, <1>7 DEF CommitCreate, NextId
<1>. QED BY <1>2, <1>4, <1>5, <1>6, <1>8, <1>9

\* A create keeps the tree.
LEMMA CreateTree ==
    ASSUME Inv, NEW e \in Editors, CommitCreate(e) PROVE Tree'
<1>. DEFINE u == request[e].upstream
            d == request[e].downstream
            b == request[e].branch
            i == created + 1
<1>1. /\ i \in Id \ live /\ i # 0
      /\ u \in live \cup {0} /\ d \in live \cup {0}
      /\ u = 0 => b = None
      /\ \A m \in live : upstream[m] = u /\ branch[m] = b <=> m = d
      /\ live' = live \cup {i}
      /\ upstream'[i] = u /\ downstream'[i] = d /\ branch'[i] = b
      /\ \A n \in live :
            /\ upstream'[n] = IF n = d THEN i ELSE upstream[n]
            /\ downstream'[n] = IF n = u /\ b = None THEN i ELSE downstream[n]
            /\ branch'[n] = IF n = d THEN None ELSE branch[n]
  BY CreateEffect
<1>. HIDE DEF u, d, b, i
<1>2. /\ LinksAgree /\ OneStart /\ NoCycle /\ 0 \notin live
      /\ \A n \in live : upstream[n] \in live \cup {0} /\ downstream[n] \in live \cup {0}
  BY NullTypes DEF Inv, Tree, LinksAgree, TypeOK
<1>3. LinksAgree'
  <2>1. ASSUME NEW n \in live' PROVE upstream'[n] \in live' \cup {0}
                                     /\ downstream'[n] \in live' \cup {0}
    BY <1>1, <1>2, <2>1
  <2>2. ASSUME NEW n \in live, NEW m \in live
        PROVE  downstream'[n] = m <=> upstream'[m] = n /\ branch'[m] = None
    BY <1>1, <1>2, <2>2 DEF LinksAgree
  <2>3. ASSUME NEW n \in live
        PROVE  downstream'[n] = i <=> upstream'[i] = n /\ branch'[i] = None
    BY <1>1, <1>2, <2>3
  <2>4. ASSUME NEW m \in live
        PROVE  downstream'[i] = m <=> upstream'[m] = i /\ branch'[m] = None
    BY <1>1, <1>2, <2>4
  <2>5. downstream'[i] # i /\ upstream'[i] # i
    BY <1>1
  <2>. QED BY <1>1, <2>1, <2>2, <2>3, <2>4, <2>5 DEF LinksAgree
<1>4. OneStart'
  BY <1>1, <1>2 DEF OneStart
<1>5. NoCycle'
  <2>. SUFFICES ASSUME NEW S \in SUBSET live', \A n \in S : upstream'[n] \in S
                PROVE  S = {}
    BY DEF NoCycle
  <2>1. S \ {i} \subseteq live
    BY <1>1
  <2>2. ASSUME NEW n \in S \ {i} PROVE upstream[n] \in S \ {i}
    BY <1>1, <1>2, <2>1, <2>2
  <2>3. S \ {i} = {}
    BY <1>2, <2>1, <2>2 DEF NoCycle
  <2>4. i \notin S
    BY <1>1, <1>2, <2>3
  <2>. QED BY <2>3, <2>4
<1>. QED BY <1>3, <1>4, <1>5 DEF Tree

\* The nodes in the branches of n are closed: with a node, what is below it.
LEMMA BranchNodesClosed ==
    ASSUME NEW n, LinksAgree, 0 \notin live
    PROVE  BranchNodes(n) \subseteq live /\ Closed(n, BranchNodes(n))
<1>. DEFINE B == BranchNodes(n)
<1>1. B \subseteq live
  BY DEF BranchNodes
<1>2. Heads(n) \subseteq B
  BY DEF BranchNodes, Closed, Heads
<1>3. ASSUME NEW k \in B PROVE downstream[k] \in B \cup {0}
  <2>1. CASE downstream[k] = 0
    BY <2>1
  <2>2. CASE downstream[k] # 0
    <3>1. downstream[k] \in live
      BY <1>1, <1>3, <2>2 DEF LinksAgree
    <3>2. ASSUME NEW S \in SUBSET live, Closed(n, S) PROVE downstream[k] \in S
      <4>1. k \in S
        BY <1>3, <3>2 DEF BranchNodes
      <4>. QED BY <2>2, <3>2, <4>1 DEF Closed
    <3>. QED BY <3>1, <3>2 DEF BranchNodes
  <2>. QED BY <2>1, <2>2
<1>4. ASSUME NEW k \in B, NEW h \in Heads(k) PROVE h \in B
  <2>1. h \in live
    BY <1>4 DEF Heads
  <2>2. ASSUME NEW S \in SUBSET live, Closed(n, S) PROVE h \in S
    <3>1. k \in S
      BY <1>4, <2>2 DEF BranchNodes
    <3>. QED BY <1>4, <2>2, <3>1 DEF Closed
  <2>. QED BY <2>1, <2>2 DEF BranchNodes
<1>. QED BY <1>1, <1>2, <1>3, <1>4 DEF Closed

\* Each node in the branches of n starts one of them or comes after another
\* node in them: the set without it would be closed otherwise.
LEMMA BranchNodesAbove ==
    ASSUME NEW n, LinksAgree, 0 \notin live, NEW m \in BranchNodes(n)
    PROVE  m \in Heads(n) \/ upstream[m] \in BranchNodes(n)
<1>. DEFINE B == BranchNodes(n)
            S == B \ {m}
<1>. SUFFICES ASSUME m \notin Heads(n), upstream[m] \notin B PROVE FALSE
  OBVIOUS
<1>1. B \subseteq live /\ Closed(n, B)
  BY BranchNodesClosed
<1>2. Heads(n) \subseteq S
  BY <1>1 DEF Closed
<1>3. ASSUME NEW k \in S PROVE downstream[k] \in S \cup {0}
  <2>1. downstream[k] \in B \cup {0}
    BY <1>1, <1>3 DEF Closed
  <2>2. downstream[k] # m
    BY <1>1, <1>3 DEF LinksAgree
  <2>. QED BY <2>1, <2>2
<1>4. ASSUME NEW k \in S PROVE Heads(k) \subseteq S
  <2>1. Heads(k) \subseteq B /\ m \notin Heads(k)
    BY <1>1, <1>4 DEF Closed, Heads
  <2>. QED BY <2>1
<1>5. Closed(n, S) /\ S \in SUBSET live
  BY <1>1, <1>2, <1>3, <1>4 DEF Closed
<1>6. m \in S
  BY <1>5 DEF BranchNodes
<1>. QED BY <1>6

\* The branches of a node do not contain it, nor the nodes around it.
LEMMA BranchNodesApart ==
    ASSUME Tree, 0 \notin live, NEW n \in live
    PROVE  /\ n \notin BranchNodes(n)
           /\ upstream[n] \notin BranchNodes(n)
           /\ downstream[n] \notin BranchNodes(n)
<1>. DEFINE B == BranchNodes(n)
<1>0. LinksAgree /\ NoCycle
  BY DEF Tree
<1>1. B \subseteq live /\ Closed(n, B)
  BY <1>0, BranchNodesClosed
<1>2. \A m \in B : m \in Heads(n) \/ upstream[m] \in B
  BY <1>0, BranchNodesAbove
<1>. HIDE DEF B
<1>3. n \notin B
  <2>. SUFFICES ASSUME n \in B PROVE FALSE
    OBVIOUS
  <2>1. \A m \in B : upstream[m] \in B
    BY <1>2 DEF Heads
  <2>. QED BY <1>0, <1>1, <2>1 DEF NoCycle
<1>4. upstream[n] \notin B
  <2>. SUFFICES ASSUME upstream[n] \in B PROVE FALSE
    OBVIOUS
  <2>1. CASE branch[n] = None
    <3>1. downstream[upstream[n]] = n
      BY <1>0, <1>1, <2>1 DEF LinksAgree
    <3>2. n \in B \cup {0}
      BY <1>1, <3>1 DEF Closed
    <3>. QED BY <1>3, <3>2
  <2>2. CASE branch[n] # None
    <3>1. n \in Heads(upstream[n])
      BY <2>2 DEF Heads
    <3>. QED BY <1>1, <1>3, <3>1 DEF Closed
  <2>. QED BY <2>1, <2>2
<1>5. downstream[n] \notin B
  <2>. SUFFICES ASSUME downstream[n] \in B PROVE FALSE
    OBVIOUS
  <2>1. upstream[downstream[n]] = n /\ branch[downstream[n]] = None
    BY <1>0, <1>1 DEF LinksAgree
  <2>2. downstream[n] \notin Heads(n)
    BY <2>1 DEF Heads
  <2>. QED BY <1>2, <1>3, <2>1, <2>2
<1>. QED BY <1>3, <1>4, <1>5 DEF B

\* What the commit of a destroy does to the links of the nodes that stay.
LEMMA DestroyEffect ==
    ASSUME Inv, NEW e \in Editors, CommitDestroy(e),
           NEW k, k = request[e].node
    PROVE  /\ k \in live
           /\ live' = live \ ({k} \cup BranchNodes(k))
           /\ upstream[k] \in live' \cup {0}
           /\ downstream[k] \in live' \cup {0}
           /\ \A n \in live' :
                 /\ upstream'[n] = IF n = downstream[k] THEN upstream[k] ELSE upstream[n]
                 /\ downstream'[n] = IF n = upstream[k] /\ branch[k] = None
                                     THEN downstream[k] ELSE downstream[n]
                 /\ branch'[n] = IF n = downstream[k] THEN branch[k] ELSE branch[n]
<1>. DEFINE r == request[e]
            gone == {k} \cup BranchNodes(k)
            kept(n) == IF n \in gone THEN 0 ELSE n
<1>1. /\ k \in live
      /\ r.upstream = upstream[k] /\ r.downstream = downstream[k]
      /\ r.branch = branch[k] /\ r.removed = BranchNodes(k)
      /\ r.follows <=> upstream[k] # 0 /\ downstream[upstream[k]] = k
  BY DEF Inv, UpToDate, CommitDestroy
<1>2. 0 \notin live /\ live \subseteq Id /\ LinksAgree /\ NoCycle
  BY NullTypes DEF Inv, TypeOK, Tree
<1>3. BranchNodes(k) \subseteq live /\ Closed(k, BranchNodes(k))
  BY <1>2, BranchNodesClosed
<1>4. k \notin BranchNodes(k) /\ upstream[k] \notin BranchNodes(k)
      /\ downstream[k] \notin BranchNodes(k)
  BY <1>1, <1>2, BranchNodesApart DEF Inv
<1>5. upstream[k] # k
  <2>1. {k} \in SUBSET live /\ {k} # {}
    BY <1>1
  <2>. QED BY <1>2, <2>1 DEF NoCycle
<1>6. downstream[k] # k
  BY <1>1, <1>2, <1>5 DEF LinksAgree
<1>7. live' = live \ gone
  BY <1>1 DEF CommitDestroy
<1>8. upstream[k] \in live' \cup {0} /\ downstream[k] \in live' \cup {0}
  BY <1>1, <1>2, <1>4, <1>5, <1>6, <1>7 DEF LinksAgree
<1>9. ASSUME NEW n \in live'
      PROVE  /\ upstream'[n] = IF n = downstream[k] THEN upstream[k] ELSE upstream[n]
             /\ downstream'[n] = IF n = upstream[k] /\ branch[k] = None
                                 THEN downstream[k] ELSE downstream[n]
             /\ branch'[n] = IF n = downstream[k] THEN branch[k] ELSE branch[n]
  <2>1. n \in live /\ n \in Id /\ n \notin gone /\ n # 0
    BY <1>2, <1>7
  <2>2. n # downstream[k] => upstream[n] \notin gone
    <3>. SUFFICES ASSUME n # downstream[k], upstream[n] \in gone PROVE FALSE
      OBVIOUS
    <3>1. CASE upstream[n] = k
      <4>1. n \in Heads(k)
        BY <1>1, <1>2, <2>1, <3>1 DEF Heads, LinksAgree
      <4>. QED BY <1>3, <2>1, <4>1 DEF Closed
    <3>2. CASE upstream[n] \in BranchNodes(k)
      <4>1. CASE branch[n] = None
        <5>1. downstream[upstream[n]] = n
          BY <1>2, <1>3, <2>1, <3>2, <4>1 DEF LinksAgree
        <5>. QED BY <1>3, <2>1, <3>2, <5>1 DEF Closed
      <4>2. CASE branch[n] # None
        <5>1. n \in Heads(upstream[n])
          BY <2>1, <4>2 DEF Heads
        <5>. QED BY <1>3, <2>1, <3>2, <5>1 DEF Closed
      <4>. QED BY <4>1, <4>2
    <3>. QED BY <3>1, <3>2
  <2>3. downstream[n] \in gone => downstream[n] = k
    <3>. SUFFICES ASSUME downstream[n] \in BranchNodes(k) PROVE FALSE
      OBVIOUS
    <3>1. upstream[downstream[n]] = n /\ branch[downstream[n]] = None
      BY <1>2, <1>3, <2>1 DEF LinksAgree
    <3>2. downstream[n] \in Heads(k) \/ n \in BranchNodes(k)
      BY <1>2, <3>1, BranchNodesAbove
    <3>. QED BY <2>1, <3>1, <3>2 DEF Heads
  <2>4. downstream[n] = k <=> n = upstream[k] /\ branch[k] = None
    BY <1>1, <1>2, <2>1 DEF LinksAgree
  <2>5. r.follows <=> upstream[k] # 0 /\ branch[k] = None
    BY <1>1, <1>2 DEF LinksAgree
  <2>6. upstream[k] \notin gone /\ downstream[k] \notin gone
    BY <1>1, <1>4, <1>5, <1>6
  <2>7. upstream'[n] = IF n = downstream[k] THEN kept(upstream[k]) ELSE kept(upstream[n])
    BY <1>1, <2>1 DEF CommitDestroy
  <2>8. downstream'[n] = IF n = upstream[k] /\ r.follows THEN kept(downstream[k])
                         ELSE kept(downstream[n])
    BY <1>1, <2>1 DEF CommitDestroy
  <2>9. branch'[n] = IF n = downstream[k] THEN branch[k] ELSE branch[n]
    BY <1>1, <2>1 DEF CommitDestroy
  <2>10. upstream'[n] = IF n = downstream[k] THEN upstream[k] ELSE upstream[n]
    BY <2>2, <2>6, <2>7
  <2>11. downstream'[n] = IF n = upstream[k] /\ branch[k] = None
                          THEN downstream[k] ELSE downstream[n]
    BY <2>1, <2>3, <2>4, <2>5, <2>6, <2>8
  <2>. QED BY <2>9, <2>10, <2>11
<1>. QED BY <1>1, <1>7, <1>8, <1>9

\* A destroy keeps the tree.
LEMMA DestroyTree ==
    ASSUME Inv, NEW e \in Editors, CommitDestroy(e) PROVE Tree'
<1>. DEFINE k == request[e].node
<1>1. /\ k \in live
      /\ live' = live \ ({k} \cup BranchNodes(k))
      /\ upstream[k] \in live' \cup {0}
      /\ downstream[k] \in live' \cup {0}
      /\ \A n \in live' :
            /\ upstream'[n] = IF n = downstream[k] THEN upstream[k] ELSE upstream[n]
            /\ downstream'[n] = IF n = upstream[k] /\ branch[k] = None
                                THEN downstream[k] ELSE downstream[n]
            /\ branch'[n] = IF n = downstream[k] THEN branch[k] ELSE branch[n]
  BY DestroyEffect
<1>. HIDE DEF k
<1>2. LinksAgree /\ OneStart /\ NoCycle /\ 0 \notin live
  BY NullTypes DEF Inv, Tree, TypeOK
<1>3. BranchNodes(k) \subseteq live /\ Closed(k, BranchNodes(k))
  BY <1>2, BranchNodesClosed
<1>4. \A n \in live' : n \in live /\ n # k /\ n \notin BranchNodes(k)
  BY <1>1
<1>5. ASSUME NEW n \in live'
      PROVE  /\ n # downstream[k] => upstream[n] \in live' \cup {0}
             /\ downstream[n] # k => downstream[n] \in live' \cup {0}
  <2>1. n # downstream[k] => upstream[n] \notin {k} \cup BranchNodes(k)
    <3>. SUFFICES ASSUME n # downstream[k], upstream[n] \in {k} \cup BranchNodes(k)
                  PROVE  FALSE
      OBVIOUS
    <3>1. upstream[n] \in live
      BY <1>1, <1>3
    <3>2. CASE branch[n] = None
      <4>1. downstream[upstream[n]] = n
        BY <1>2, <1>4, <3>1, <3>2 DEF LinksAgree
      <4>. QED BY <1>2, <1>3, <1>4, <4>1 DEF Closed
    <3>3. CASE branch[n] # None
      <4>1. n \in Heads(upstream[n])
        BY <1>4, <3>3 DEF Heads
      <4>. QED BY <1>3, <1>4, <4>1 DEF Closed
    <3>. QED BY <3>2, <3>3
  <2>2. downstream[n] \notin BranchNodes(k)
    <3>. SUFFICES ASSUME downstream[n] \in BranchNodes(k) PROVE FALSE
      OBVIOUS
    <3>1. upstream[downstream[n]] = n /\ branch[downstream[n]] = None
      BY <1>2, <1>3, <1>4 DEF LinksAgree
    <3>2. downstream[n] \in Heads(k) \/ n \in BranchNodes(k)
      BY <1>2, <3>1, BranchNodesAbove
    <3>. QED BY <1>4, <3>1, <3>2 DEF Heads
  <2>. QED BY <1>1, <1>2, <1>4, <2>1, <2>2 DEF LinksAgree
<1>6. LinksAgree'
  <2>1. ASSUME NEW n \in live' PROVE upstream'[n] \in live' \cup {0}
    BY <1>1, <1>5, <2>1
  <2>2. ASSUME NEW n \in live' PROVE downstream'[n] \in live' \cup {0}
    BY <1>1, <1>2, <1>4, <1>5, <2>2 DEF LinksAgree
  <2>3. ASSUME NEW n \in live', NEW m \in live'
        PROVE  downstream'[n] = m <=> upstream'[m] = n /\ branch'[m] = None
    <3>1. n \in live /\ m \in live /\ n # k /\ m # k
      BY <1>4
    <3>2. /\ downstream[n] = m <=> upstream[m] = n /\ branch[m] = None
          /\ downstream[n] = k <=> upstream[k] = n /\ branch[k] = None
          /\ downstream[k] = m <=> upstream[m] = k /\ branch[m] = None
      BY <1>1, <1>2, <3>1 DEF LinksAgree
    <3>. QED BY <1>1, <3>1, <3>2
  <2>. QED BY <2>1, <2>2, <2>3 DEF LinksAgree
<1>7. OneStart'
  <2>1. ASSUME NEW m \in live' PROVE upstream'[m] = 0 => branch'[m] = None
    BY <1>1, <1>2, <1>4, <2>1 DEF OneStart
  <2>2. ASSUME NEW m \in live', NEW n \in live',
               upstream'[m] = upstream'[n], branch'[m] = branch'[n]
        PROVE  m = n
    BY <1>1, <1>2, <1>4, <2>2 DEF OneStart
  <2>. QED BY <2>1, <2>2 DEF OneStart
<1>8. NoCycle'
  <2>. SUFFICES ASSUME NEW S \in SUBSET live', \A n \in S : upstream'[n] \in S
                PROVE  S = {}
    BY DEF NoCycle
  <2>1. S \subseteq live /\ S \cup {k} \subseteq live
    BY <1>1
  <2>2. CASE downstream[k] \notin S
    <3>1. \A n \in S : upstream[n] \in S
      BY <1>1, <2>2
    <3>. QED BY <1>2, <2>1, <3>1 DEF NoCycle
  <2>3. CASE downstream[k] \in S
    <3>1. upstream[downstream[k]] = k
      BY <1>1, <1>2, <2>1, <2>3 DEF LinksAgree
    <3>2. upstream[k] \in S
      BY <1>1, <2>3
    <3>3. \A n \in S \cup {k} : upstream[n] \in S \cup {k}
      BY <1>1, <3>1, <3>2
    <3>. QED BY <1>2, <2>1, <3>3 DEF NoCycle
  <2>. QED BY <2>2, <2>3
<1>. QED BY <1>6, <1>7, <1>8 DEF Tree

\* With one editor, what a request read is up to date: nobody else commits.
LEMMA UpToDateNext ==
    ASSUME Inv, \A e, f \in Editors : e = f, [Next]_vars, NEW e \in Editors
    PROVE  UpToDate(request[e])'
<1>1. ASSUME UNCHANGED <<links, created>>, UNCHANGED request
      PROVE  UpToDate(request[e])'
  BY <1>1 DEF Inv, UpToDate, Follower, BranchNodes, Closed, Heads, links
<1>2. ASSUME Open(e, NoRequest) PROVE UpToDate(request[e])'
  BY <1>2 DEF Inv, TypeOK, Open, UpToDate, NoRequest
<1>3. ASSUME NEW up \in Id \cup {0}, NEW b \in BranchIndex \cup {None},
             OpenCreate(e, up, b)
      PROVE  UpToDate(request[e])'
  <2>1. PICK d \in Follower(up, b) \cup {0} :
           /\ d = 0 => Follower(up, b) = {}
           /\ Open(e, [NoRequest EXCEPT !.kind = "create", !.upstream = up,
                                        !.downstream = d, !.branch = b])
    BY <1>3 DEF OpenCreate
  <2>2. /\ request'[e].kind = "create" /\ request'[e].upstream = up
        /\ request'[e].downstream = d /\ request'[e].branch = b
    BY <2>1 DEF Inv, TypeOK, Open, NoRequest
  <2>3. Follower(up, b)' = Follower(up, b)
    BY <1>3 DEF OpenCreate, Follower, links
  <2>. QED BY <1>3, <2>1, <2>2, <2>3 DEF OpenCreate, UpToDate, links
<1>4. ASSUME NEW n \in Id, OpenDestroy(e, n) PROVE UpToDate(request[e])'
  <2>1. /\ request'[e].kind = "destroy" /\ request'[e].node = n
        /\ request'[e].upstream = upstream[n] /\ request'[e].downstream = downstream[n]
        /\ request'[e].branch = branch[n] /\ request'[e].removed = BranchNodes(n)
        /\ request'[e].follows = (upstream[n] # 0 /\ downstream[upstream[n]] = n)
    BY <1>4 DEF Inv, TypeOK, OpenDestroy, Open
  <2>2. BranchNodes(n)' = BranchNodes(n)
    BY <1>4 DEF OpenDestroy, BranchNodes, Closed, Heads, links
  <2>. QED BY <1>4, <2>1, <2>2 DEF OpenDestroy, UpToDate, links
<1>5. ASSUME NEW n \in Id, OpenUpdate(e, n) PROVE UpToDate(request[e])'
  <2>1. request'[e].kind = "update"
    BY <1>5 DEF Inv, TypeOK, OpenUpdate, Open, NoRequest
  <2>. QED BY <2>1 DEF UpToDate
<1>6. ASSUME NEW f \in Editors, CommitCreate(f) \/ CommitDestroy(f) \/ CommitUpdate(f)
      PROVE  UpToDate(request[e])'
  BY <1>2, <1>6 DEF CommitCreate, NextId, CommitDestroy, CommitUpdate
<1>7. CASE Execute \/ UNCHANGED vars
  BY <1>1, <1>7 DEF Execute, vars
<1>. QED BY <1>3, <1>4, <1>5, <1>6, <1>7 DEF Next

\* With one editor, every step keeps the tree.
LEMMA TreeNext ==
    ASSUME Inv, [Next]_vars PROVE Tree'
<1>1. ASSUME UNCHANGED links PROVE Tree'
  BY <1>1 DEF Inv, Tree, LinksAgree, OneStart, NoCycle, links
<1>2. ASSUME NEW e \in Editors, NEW up \in Id \cup {0},
             NEW b \in BranchIndex \cup {None}, OpenCreate(e, up, b)
      PROVE  Tree'
  BY <1>1, <1>2 DEF OpenCreate
<1>3. ASSUME NEW e \in Editors, NEW n \in Id, OpenDestroy(e, n) \/ OpenUpdate(e, n)
      PROVE  Tree'
  BY <1>1, <1>3 DEF OpenDestroy, OpenUpdate
<1>4. ASSUME NEW e \in Editors, CommitCreate(e) \/ CommitDestroy(e) PROVE Tree'
  BY <1>4, CreateTree, DestroyTree
<1>5. ASSUME NEW e \in Editors, CommitUpdate(e) PROVE Tree'
  BY <1>1, <1>5 DEF CommitUpdate
<1>6. CASE Execute \/ UNCHANGED vars
  BY <1>1, <1>6 DEF Execute, vars
<1>. QED BY <1>2, <1>3, <1>4, <1>5, <1>6 DEF Next

\* A new workflow has no node and no request.
LEMMA InvInit == Init => Inv
<1>. SUFFICES ASSUME Init PROVE Inv
  OBVIOUS
<1>1. Tree
  BY DEF Init, Tree, LinksAgree, OneStart, NoCycle
<1>2. \A e \in Editors : UpToDate(request[e])
  BY DEF Init, UpToDate, NoRequest
<1>. QED BY <1>1, <1>2, TypeInit DEF Inv

\* When requests come one at a time, whatever is created, deleted and
\* configured, the nodes stay linked the same in both directions, with one
\* first node, one node for each branch and no cycle.
THEOREM OneEditorKeepsTree ==
    ASSUME \A e, f \in Editors : e = f
    PROVE  Spec => [](LinksAgree /\ OneStart /\ NoCycle)
<1>1. Inv /\ [Next]_vars => Inv'
  BY TypeNext, TreeNext, UpToDateNext DEF Inv
<1>2. Inv => LinksAgree /\ OneStart /\ NoCycle
  BY DEF Inv, Tree
<1>. QED BY InvInit, <1>1, <1>2, PTL DEF Spec

\* When requests come one at a time, the nodes stay one tree: each has one place,
\* and can be reached from the first.
THEOREM OneEditorOneTree ==
    ASSUME \A e, f \in Editors : e = f
    PROVE  Spec => []OneTree
<1>1. LinksAgree /\ OneStart /\ NoCycle => OneTree
  BY DEF OneTree
<1>. QED BY OneEditorKeepsTree, <1>1, PTL

-----------------------------------------------------------------------------
(* One editor at a time: nodes that stay keep their order *)

\* f is the place of each node of L, with the upstreams U and the branches B.
Places(f, L, U, B) ==
    f = [k \in L \cup {0} |-> IF k = 0 THEN {} ELSE {<<U[k], B[k]>>} \cup f[U[k]]]

\* The places of a list's nodes are well defined: the nodes that a node comes
\* after are those that every set has which has the node and what it comes after.
LEMMA PlacesExist ==
    ASSUME NEW L, 0 \notin L, NEW U, \A k \in L : U[k] \in L \cup {0}, NEW B
    PROVE  \E f : Places(f, L, U, B)
<1>. DEFINE Up(k, S) == k \in S \cup {0} /\ \A m \in S : U[m] \in S \cup {0}
            Above(k) == {m \in L : k # 0 /\ \A S \in SUBSET L : Up(k, S) => m \in S}
            f == [k \in L \cup {0} |-> {<<U[m], B[m]>> : m \in Above(k)}]
<1>1. ASSUME NEW k \in L PROVE Above(k) = {k} \cup Above(U[k])
  <2>1. k \in Above(k)
    OBVIOUS
  <2>2. Above(U[k]) \subseteq Above(k)
    <3>. SUFFICES ASSUME NEW m \in Above(U[k]), NEW S \in SUBSET L, Up(k, S) PROVE m \in S
      OBVIOUS
    <3>1. Up(U[k], S)
      OBVIOUS
    <3>. QED BY <3>1
  <2>3. ASSUME NEW m \in Above(k), m # k PROVE m \in Above(U[k])
    <3>1. CASE U[k] = 0
      <4>1. Up(k, {k}) /\ {k} \in SUBSET L
        BY <3>1
      <4>. QED BY <2>3, <4>1
    <3>2. CASE U[k] # 0
      <4>. SUFFICES ASSUME NEW S \in SUBSET L, Up(U[k], S) PROVE m \in S
        BY <2>3, <3>2
      <4>1. Up(k, S \cup {k}) /\ S \cup {k} \in SUBSET L
        BY <3>2
      <4>. QED BY <2>3, <4>1
    <3>. QED BY <3>1, <3>2
  <2>. QED BY <2>1, <2>2, <2>3
<1>2. Above(0) = {}
  OBVIOUS
<1>. HIDE DEF Above
<1>3. f[0] = {} /\ \A k \in L : f[k] = {<<U[k], B[k]>>} \cup f[U[k]]
  BY <1>1, <1>2
<1>4. f = [k \in L \cup {0} |-> f[k]]
  OBVIOUS
<1>. HIDE DEF f
<1>. QED BY <1>3, <1>4 DEF Places

\* The place of a node is that of its upstream and one step more.
LEMMA PlaceStep ==
    ASSUME 0 \notin live, LinksAgree
    PROVE  \E f : /\ f[0] = {}
                  /\ \A n \in live : /\ Place(n) = f[n]
                                     /\ f[n] = {<<upstream[n], branch[n]>>} \cup f[upstream[n]]
<1>. DEFINE Is(g) == g = [k \in live \cup {0} |->
                            IF k = 0 THEN {} ELSE {<<upstream[k], branch[k]>>} \cup g[upstream[k]]]
            f == CHOOSE g : Is(g)
<1>1. \A k \in live : upstream[k] \in live \cup {0}
  BY DEF LinksAgree
<1>2. \E g : Places(g, live, upstream, branch)
  BY <1>1, PlacesExist
<1>3. Is(f)
  BY <1>2 DEF Places
<1>4. \A n \in live : Place(n) = f[n]
  BY DEF Place
<1>. HIDE DEF f
<1>. QED BY <1>3, <1>4

\* The same after a step.
LEMMA PlaceStepNext ==
    ASSUME 0 \notin live', LinksAgree'
    PROVE  \E f : /\ f[0] = {}
                  /\ \A n \in live' :
                        /\ Place(n)' = f[n]
                        /\ f[n] = {<<upstream'[n], branch'[n]>>} \cup f[upstream'[n]]
<1>. DEFINE Is(g) == g = [k \in live' \cup {0} |->
                            IF k = 0 THEN {} ELSE {<<upstream'[k], branch'[k]>>} \cup g[upstream'[k]]]
            f == CHOOSE g : Is(g)
<1>1. \A k \in live' : upstream'[k] \in live' \cup {0}
  BY DEF LinksAgree
<1>2. \E g : Places(g, live', upstream', branch')
  BY <1>1, PlacesExist
<1>3. Is(f)
  BY <1>2 DEF Places
<1>4. \A n \in live' : Place(n)' = f[n]
  BY DEF Place
<1>. HIDE DEF f
<1>. QED BY <1>3, <1>4

\* The nodes that stay keep the order and the branch they are in.
SameOrder == \A n \in live \cap live' :
                {p \in Place(n) : p[1] \in live'} = {p \in Place(n)' : p[1] \in live}

\* A new node comes before or after the others, and leaves them as they are to
\* each other.
LEMMA CreateOrder ==
    ASSUME Inv, Tree', TypeOK', NEW e \in Editors, CommitCreate(e) PROVE SameOrder
<1>. DEFINE u == request[e].upstream
            d == request[e].downstream
            b == request[e].branch
            i == created + 1
<1>1. /\ i \in Id \ live /\ i # 0
      /\ u \in live \cup {0}
      /\ \A m \in live : upstream[m] = u /\ branch[m] = b <=> m = d
      /\ live' = live \cup {i}
      /\ upstream'[i] = u /\ branch'[i] = b
      /\ \A n \in live : /\ upstream'[n] = IF n = d THEN i ELSE upstream[n]
                         /\ branch'[n] = IF n = d THEN None ELSE branch[n]
  BY CreateEffect
<1>. HIDE DEF u, d, b, i
<1>2. 0 \notin live /\ 0 \notin live' /\ LinksAgree /\ LinksAgree' /\ NoCycle
  BY NullTypes DEF Inv, Tree, TypeOK
<1>3. PICK f : /\ f[0] = {}
               /\ \A n \in live : /\ Place(n) = f[n]
                                  /\ f[n] = {<<upstream[n], branch[n]>>} \cup f[upstream[n]]
  BY <1>2, PlaceStep
<1>4. PICK g : /\ g[0] = {}
               /\ \A n \in live' : /\ Place(n)' = g[n]
                                   /\ g[n] = {<<upstream'[n], branch'[n]>>} \cup g[upstream'[n]]
  BY <1>2, PlaceStepNext
<1>. DEFINE Old(n) == {p \in f[n] : p[1] \in live'}
            New(n) == {p \in g[n] : p[1] \in live}
            Differ == {n \in live : Old(n) # New(n)}
<1>5. ASSUME NEW n \in live
      PROVE  Old(n) = {p \in {<<upstream[n], branch[n]>>} : p[1] \in live} \cup Old(upstream[n])
  BY <1>1, <1>2, <1>3 DEF LinksAgree
<1>6. ASSUME NEW n \in live
      PROVE  New(n) = {p \in {<<upstream[n], branch[n]>>} : p[1] \in live} \cup New(upstream[n])
  <2>1. CASE n # d
    BY <1>1, <1>4, <2>1
  <2>2. CASE n = d
    <3>1. g[n] = {<<i, None>>} \cup g[i] /\ g[i] = {<<u, b>>} \cup g[u]
      BY <1>1, <1>4, <2>2
    <3>2. upstream[n] = u /\ branch[n] = b
      BY <1>1, <2>2
    <3>. QED BY <1>1, <3>1, <3>2
  <2>. QED BY <2>1, <2>2
<1>7. Old(0) = New(0)
  BY <1>3, <1>4
<1>8. \A n \in live : upstream[n] \in live \cup {0}
  BY <1>2 DEF LinksAgree
<1>9. Differ = {}
  <2>1. \A n \in Differ : upstream[n] \in Differ
    <3>. HIDE DEF Old, New
    <3>. QED BY <1>5, <1>6, <1>7, <1>8
  <2>. QED BY <1>2, <2>1 DEF NoCycle
<1>. QED BY <1>1, <1>3, <1>4, <1>9 DEF SameOrder

\* The nodes around a deleted one stay in their order: what came after it now
\* comes after its upstream, where it was.
LEMMA DestroyOrder ==
    ASSUME Inv, Tree', TypeOK', NEW e \in Editors, CommitDestroy(e) PROVE SameOrder
<1>. DEFINE k == request[e].node
<1>1. /\ k \in live
      /\ live' = live \ ({k} \cup BranchNodes(k))
      /\ upstream[k] \in live' \cup {0}
      /\ \A n \in live' :
            /\ upstream'[n] = IF n = downstream[k] THEN upstream[k] ELSE upstream[n]
            /\ branch'[n] = IF n = downstream[k] THEN branch[k] ELSE branch[n]
  BY DestroyEffect
<1>. HIDE DEF k
<1>2. 0 \notin live /\ 0 \notin live' /\ LinksAgree /\ LinksAgree' /\ NoCycle'
  BY NullTypes DEF Inv, Tree, TypeOK
<1>3. PICK f : /\ f[0] = {}
               /\ \A n \in live : /\ Place(n) = f[n]
                                  /\ f[n] = {<<upstream[n], branch[n]>>} \cup f[upstream[n]]
  BY <1>2, PlaceStep
<1>4. PICK g : /\ g[0] = {}
               /\ \A n \in live' : /\ Place(n)' = g[n]
                                   /\ g[n] = {<<upstream'[n], branch'[n]>>} \cup g[upstream'[n]]
  BY <1>2, PlaceStepNext
<1>. DEFINE Old(n) == {p \in f[n] : p[1] \in live'}
            New(n) == {p \in g[n] : p[1] \in live}
            Differ == {n \in live' : Old(n) # New(n)}
<1>5. \A n \in live' : n \in live /\ upstream'[n] \in live' \cup {0}
  BY <1>1, <1>2 DEF LinksAgree
<1>6. ASSUME NEW n \in live'
      PROVE  New(n) = {p \in {<<upstream'[n], branch'[n]>>} : p[1] \in live'} \cup New(upstream'[n])
  BY <1>2, <1>4, <1>5
<1>7. ASSUME NEW n \in live'
      PROVE  Old(n) = {p \in {<<upstream'[n], branch'[n]>>} : p[1] \in live'} \cup Old(upstream'[n])
  <2>1. CASE n # downstream[k]
    BY <1>1, <1>3, <1>5, <2>1
  <2>2. CASE n = downstream[k]
    <3>1. upstream[n] = k
      BY <1>1, <1>2, <1>5, <2>2 DEF LinksAgree
    <3>2. f[n] = {<<k, branch[n]>>} \cup f[k] /\ f[k] = {<<upstream[k], branch[k]>>} \cup f[upstream[k]]
      BY <1>1, <1>3, <1>5, <3>1
    <3>3. k \notin live' /\ upstream'[n] = upstream[k] /\ branch'[n] = branch[k]
      BY <1>1, <2>2
    <3>. QED BY <3>2, <3>3
  <2>. QED BY <2>1, <2>2
<1>8. Old(0) = New(0)
  BY <1>3, <1>4
<1>9. Differ = {}
  <2>1. \A n \in Differ : upstream'[n] \in Differ
    <3>. HIDE DEF Old, New
    <3>. QED BY <1>5, <1>6, <1>7, <1>8
  <2>. QED BY <1>2, <2>1 DEF NoCycle
<1>. QED BY <1>3, <1>4, <1>5, <1>9 DEF SameOrder

\* Without a change of the links, nothing has another place.
LEMMA UnchangedOrder ==
    ASSUME UNCHANGED links PROVE SameOrder
BY DEF SameOrder, Place, links

\* With one editor, every step keeps the order.
LEMMA OrderNext ==
    ASSUME Inv, [Next]_vars, Tree', TypeOK' PROVE SameOrder
<1>1. ASSUME NEW e \in Editors, NEW up \in Id \cup {0},
             NEW b \in BranchIndex \cup {None}, OpenCreate(e, up, b)
      PROVE  SameOrder
  BY <1>1, UnchangedOrder DEF OpenCreate
<1>2. ASSUME NEW e \in Editors, NEW n \in Id, OpenDestroy(e, n) \/ OpenUpdate(e, n)
      PROVE  SameOrder
  BY <1>2, UnchangedOrder DEF OpenDestroy, OpenUpdate
<1>3. ASSUME NEW e \in Editors, CommitCreate(e) \/ CommitDestroy(e) PROVE SameOrder
  BY <1>3, CreateOrder, DestroyOrder
<1>4. ASSUME NEW e \in Editors, CommitUpdate(e) PROVE SameOrder
  BY <1>4, UnchangedOrder DEF CommitUpdate
<1>5. CASE Execute \/ UNCHANGED vars
  BY <1>5, UnchangedOrder DEF Execute, vars
<1>. QED BY <1>1, <1>2, <1>3, <1>4, <1>5 DEF Next

\* When requests come one at a time, whatever is created and deleted around two
\* nodes, one stays after the other and in the same branch of it, in workflows
\* of any size.
THEOREM OneEditorKeepsOrder ==
    ASSUME \A e, f \in Editors : e = f
    PROVE  Spec => OrderKept
<1>1. Inv /\ [Next]_vars => Inv'
  BY TypeNext, TreeNext, UpToDateNext DEF Inv
<1>2. Inv /\ Inv' /\ [Next]_vars =>
        [\A n \in live \cap live' :
            {p \in Place(n) : p[1] \in live'} = {p \in Place(n)' : p[1] \in live}]_vars
  BY OrderNext DEF Inv, SameOrder
<1>. QED BY InvInit, <1>1, <1>2, PTL DEF Spec, OrderKept

=============================================================================
