---------------------------- MODULE UiSchemaTree ----------------------------
(***************************************************************************)
(* The storage of UI schemas (packages/plugins/ui-schema-storage/src):     *)
(* a forest of schema nodes kept as a closure table, uiSchemaTreePath,     *)
(* with one row for each node and each of its ancestors.  The cache of the *)
(* schemas that were read is in UiSchemaCache.                             *)
(*                                                                         *)
(* Each operation of the repository is one transaction: what it does to    *)
(* the tables is one step here, and what makes it throw (and roll back) is *)
(* its guard.                                                              *)
(***************************************************************************)
EXTENDS Integers, FiniteSets

CONSTANTS
    Uid,        \* the x-uids; one that is used again stands for a new one
    Types,      \* the keys of a schema that hold nodes ("properties", ...)
    Properties, \* the type that insertInner gives
    MaxNew,     \* bound on the nodes of an inserted schema
    MaxSort     \* bound on the sort values

\* the sort that is null, the type that is null, and a schema that is not there
NoSort == 0
NoType == "null"
NoSchema == [nodes |-> {}, above |-> {}, level |-> << >>, key |-> << >>, place |-> << >>]

ASSUME ConstantsAssumption ==
    /\ Properties \in Types
    /\ NoType \notin Types \cup Uid
    /\ MaxSort \in Nat

VARIABLES
    schemas,  \* the rows of uiSchemas
    path,     \* the rows of uiSchemaTreePath: ancestor, descendant and depth
    type,     \* type of the row (u, u)
    sort      \* sort of the row of depth 1 of u

tables == <<schemas, path, type, sort>>

-----------------------------------------------------------------------------
(* The closure table: rows <<ancestor, descendant, depth>> *)

Row(P, a, d) == \E r \in P : r[1] = a /\ r[2] = d
Under(P, u) == {r[2] : r \in {r \in P : r[1] = u}}
Path(P, u) == {r[1] : r \in {r \in P : r[2] = u}}
Parents(P, u) == {r[1] : r \in {r \in P : r[2] = u /\ r[3] = 1}}
Children(P, u) == {r[2] : r \in {r \in P : r[1] = u /\ r[3] = 1}}

\* mutant of Cut: only the rows of the node itself are deleted
CutNode(P, u) == {r \in P : ~ (r[2] = u /\ r[1] # u)}

\* the rows from above u to u and what is under it are deleted
Cut(P, u) ==
    LET above == Path(P, u) \ {u}
        under == Under(P, u)
    IN {r \in P : ~ (r[1] \in above /\ r[2] \in under)}

\* the rows from p and above to u and what is under it are inserted
Hung(P, u, p) ==
    P \cup {<<a[1], d[2], a[3] + d[3] + 1>> :
              a \in {r \in P : r[2] = p}, d \in {r \in P : r[1] = u}}

\* the rows that lead to a node of S are deleted
Pruned(P, S) == {r \in P : r[2] \notin S}

\* u, with what is under it, is moved to p
Moved(P, u, p) == Hung(Cut(P, u), u, p)

\* What an inserted schema says of its nodes: the root, who is above whom
\* (parentPath), how deep each node is, the key it has in its parent, and its
\* place among the nodes of that key
Nested(N) ==
    {s \in [nodes : {N}, root : N, above : SUBSET (N \X N),
            level : [N -> 0..(Cardinality(N) - 1)]] :
        /\ s.level[s.root] = 0
        /\ \A d \in N \ {s.root} :
              /\ <<s.root, d>> \in s.above
              /\ \E p \in N : /\ p = s.root \/ <<p, d>> \in s.above
                              /\ s.level[d] = s.level[p] + 1
        /\ \A a, d \in N : <<a, d>> \in s.above => s.level[a] < s.level[d]
        /\ \A a, b, d \in N :
              /\ <<a, b>> \in s.above /\ <<b, d>> \in s.above => <<a, d>> \in s.above
              /\ <<a, d>> \in s.above /\ <<b, d>> \in s.above
                    => a = b \/ <<a, b>> \in s.above \/ <<b, a>> \in s.above}

\* the nodes of s with the parent and the key of d
Alike(s, key, d) ==
    {c \in s.nodes : /\ key[c] = key[d]
                     /\ s.level[c] = s.level[d]
                     /\ \A a \in s.nodes : <<a, c>> \in s.above <=> <<a, d>> \in s.above}

Keys(s) == {k \in [s.nodes -> Types \cup {NoType}] :
               \A d \in s.nodes : k[d] = NoType <=> d = s.root}
Places(s, key) ==
    {o \in [s.nodes -> 0..Cardinality(s.nodes)] :
        /\ o[s.root] = NoSort
        /\ \A d \in s.nodes \ {s.root} :
              {o[c] : c \in Alike(s, key, d)} = 1..Cardinality(Alike(s, key, d))}

NewSchemas ==
    LET Sizes == {N \in SUBSET Uid : IsFiniteSet(N) /\ Cardinality(N) \in 1..MaxNew}
        Trees == UNION {Nested(N) : N \in Sizes}
        Keyed == UNION {{<<s, k>> : k \in Keys(s)} : s \in Trees}
    IN UNION {{[nodes |-> sk[1].nodes, root |-> sk[1].root, above |-> sk[1].above,
                level |-> sk[1].level, key |-> sk[2], place |-> o] :
                  o \in Places(sk[1], sk[2])} : sk \in Keyed}

\* a schema that wraps another one: a chain, as Grid.Row around Grid.Col
Wraps == {s \in NewSchemas :
             \A c, d \in s.nodes : s.level[c] = s.level[d] => c = d}
Bottom(s) == CHOOSE d \in s.nodes : \A c \in s.nodes : s.level[c] <= s.level[d]

-----------------------------------------------------------------------------
(* What the operations do to the tables *)

\* mutant of WithNew: the depths are counted from below
WithNewUpwards(P, s) ==
    P \cup {<<u, u, 0>> : u \in s.nodes}
      \cup {<<r[1], r[2], s.level[r[1]] - s.level[r[2]]>> : r \in s.above}

\* the rows that insertNewSchema() inserts
WithNew(P, s) ==
    P \cup {<<u, u, 0>> : u \in s.nodes}
      \cup {<<r[1], r[2], s.level[r[2]] - s.level[r[1]]>> : r \in s.above}

\* f with the values that g has on its domain
Updated(f, g) == [u \in DOMAIN f |-> IF u \in DOMAIN g THEN g[u] ELSE f[u]]

\* the children of p with type y, but for u
Siblings(P, Y, p, y, u) == {c \in Children(P, p) : Y[c] = y} \ {u}

\* mutant of MadeRoom: the sibling at the place itself stays there
MadeRoomAfter(S, siblings, u, n) ==
    [c \in Uid |-> IF c = u THEN n
                   ELSE IF c \in siblings /\ S[c] > n THEN S[c] + 1 ELSE S[c]]

\* mutant of MadeRoom: only the sibling at the place makes room
MadeRoomOnce(S, siblings, u, n) ==
    [c \in Uid |-> IF c = u THEN n
                   ELSE IF c \in siblings /\ S[c] = n THEN n + 1 ELSE S[c]]

\* insertSingleNode() puts u at place n of its siblings and makes room for it
MadeRoom(S, siblings, u, n) ==
    [c \in Uid |-> IF c = u THEN n
                   ELSE IF c \in siblings /\ S[c] >= n THEN S[c] + 1 ELSE S[c]]

\* one more than the largest sort of the siblings
Last(S, siblings) ==
    LET sorts == {NoSort} \cup {S[c] : c \in siblings}
    IN 1 + CHOOSE n \in sorts : \A m \in sorts : m <= n

\* the positions of insertAdjacent: relative to a parent, or to a sibling
Positions == {"afterBegin", "beforeEnd", "beforeBegin", "afterEnd"}
Beside(pos) == pos \in {"beforeBegin", "afterEnd"}

\* mutant of Place: after the target is where the target is
PlaceAtTarget(S, siblings, pos, t) ==
    CASE pos = "afterBegin" -> 1
      [] pos = "beforeEnd"  -> Last(S, siblings)
      [] Beside(pos)        -> S[t]

Place(S, siblings, pos, t) ==
    CASE pos = "afterBegin"  -> 1
      [] pos = "beforeEnd"   -> Last(S, siblings)
      [] pos = "beforeBegin" -> S[t]
      [] pos = "afterEnd"    -> S[t] + 1

\* path, type and sort together, for operations of several steps
Tables == [path |-> path, type |-> type, sort |-> sort]

\* insertNewSchema()
Grown(T, s) == [path |-> WithNew(T.path, s),
                type |-> Updated(T.type, s.key), sort |-> Updated(T.sort, s.place)]

\* the parent that a position means
ParentAt(T, pos, t) ==
    IF Beside(pos) THEN CHOOSE p \in Parents(T.path, t) : TRUE ELSE t

\* insertBeside() fails without a parent, and the primary key when the rows
\* from u to itself would be inserted again; the client does not drop a node on
\* itself
CanPlace(T, u, pos, t) ==
    /\ Beside(pos) => t # u /\ Parents(T.path, t) # {}
    /\ ~ Row(T.path, u, ParentAt(T, pos, t))

\* insertSingleNode() for a node that exists: when the target does not exist,
\* no rows are inserted and the node is left without a parent
Placed(T, u, pos, t) ==
    LET p == ParentAt(T, pos, t)
        y == IF Beside(pos) THEN T.type[t] ELSE Properties
        P == Moved(T.path, u, p)
        Y == [T.type EXCEPT ![u] = y]
        S == [T.sort EXCEPT ![u] = NoSort]
        others == Siblings(P, Y, p, y, u)
    IN [path |-> P, type |-> Y,
        sort |-> IF p \in Parents(P, u)
                 THEN MadeRoom(S, others, u, Place(S, others, pos, t)) ELSE S]

\* remove(), with what is under each node of S in S
Dropped(T, S) == [path |-> Pruned(T.path, S),
                  type |-> [u \in Uid |-> IF u \in S THEN NoType ELSE T.type[u]],
                  sort |-> [u \in Uid |-> IF u \in S THEN NoSort ELSE T.sort[u]]]

\* mutant of Emptied: the children of the parents are not counted
EmptiedToBreak(P, o, break) ==
    {e \in Path(P, o) : \A b \in (break \cap Path(P, o)) : ~ Row(P, e, b)}

\* recursivelyRemoveIfNoChildren(): o when it has no children, and its parent
\* when it has no other, up to one that matches breakRemoveOn
Emptied(P, o, break) ==
    {e \in Path(P, o) : /\ Under(P, e) \subseteq Path(P, o)
                        /\ \A b \in (break \cap Path(P, o)) : ~ Row(P, e, b)}

\* removeEmptyParents(): the nodes above u that have no other child
Single(P, u, break) ==
    {e \in Path(P, u) \ {u} : /\ Under(P, e) \subseteq Path(P, u) \cup Under(P, u)
                              /\ \A b \in (break \cap Path(P, u)) \ {u} : ~ Row(P, e, b)}

\* what u was in, when it is moved elsewhere and its empty parents are removed
Left(T, U, u, remove) ==
    IF remove THEN Parents(T.path, u) \ Parents(U.path, u) ELSE {}

-----------------------------------------------------------------------------
(* The operations *)

\* the tables become T with the nodes N
Commit(T, N) ==
    /\ \A u \in Uid : T.sort[u] <= MaxSort
    /\ schemas' = N
    /\ path' = T.path
    /\ type' = T.type
    /\ sort' = T.sort

\* insert() and insertNewSchema() of a new schema
InsertNewSchema(s) ==
    /\ s.nodes \cap schemas = {}
    /\ Commit(Grown(Tables, s), schemas \cup s.nodes)

\* insertAdjacent(): of the new schema s, or of the node u (s is NoSchema)
InsertAdjacent(s, u, pos, t, remove, break) ==
    LET T1 == Grown(Tables, s)
        T2 == Placed(T1, u, pos, t)
        left == Left(T1, T2, u, remove)
        gone == UNION {Emptied(T2.path, o, break) : o \in left}
        T3 == Dropped(T2, gone)
    IN /\ CanPlace(T1, u, pos, t)
       /\ \A o \in left : Emptied(T2.path, o, break) # Path(T2.path, o)
       /\ Commit(T3, (schemas \cup s.nodes) \ gone)

\* insertAdjacent() with a wrap: u is moved into the new schema w, which is
\* then placed, where the target may be gone with the parents that are empty
InsertWrapped(s, w, u, pos, t, remove, break) ==
    LET T1 == Grown(Grown(Tables, s), w)
        T2 == Placed(T1, u, "afterBegin", Bottom(w))
        left == Left(T1, T2, u, remove)
        gone == UNION {Emptied(T2.path, o, break) : o \in left}
        T3 == Dropped(T2, gone)
        T4 == Placed(T3, w.root, pos, t)
    IN /\ w.nodes \cap (schemas \cup s.nodes) = {}
       /\ CanPlace(T3, w.root, pos, t)
       /\ \A o \in left : Emptied(T2.path, o, break) # Path(T2.path, o)
       /\ Commit(T4, (schemas \cup s.nodes \cup w.nodes) \ gone)

\* remove(), and with removeParentsIfNoChildren
Remove(u, parents, break) ==
    LET gone == Under(path, u) \cup
                  (IF parents THEN Single(path, u, break) ELSE {})
    IN /\ u \in schemas
       /\ Commit(Dropped(Tables, gone), schemas \ gone)

\* clearAncestor(), with which saveAsTemplate() ends
ClearAncestor(u) ==
    /\ u \in schemas
    /\ Commit([Tables EXCEPT !.path = Cut(path, u), !.sort = [sort EXCEPT ![u] = NoSort]],
              schemas)

-----------------------------------------------------------------------------

Init ==
    /\ schemas = {}
    /\ path = {}
    /\ type = [u \in Uid |-> NoType]
    /\ sort = [u \in Uid |-> NoSort]

\* removeParentsIfNoChildren, and what breakRemoveOn matches above u
Removals(u) == {<<FALSE, {}>>} \cup {<<TRUE, {}>>}
               \cup {<<TRUE, {b}>> : b \in Path(path, u) \ {u}}

\* a schema of a request and its root: new, or one that exists
Requested == {<<s, s.root>> : s \in {s \in NewSchemas : s.nodes \cap schemas = {}}}
             \cup {<<NoSchema, u>> : u \in schemas}

Insert ==
    \E su \in Requested, pos \in Positions, t \in Uid :
        \E rb \in Removals(su[2]) :
            \/ InsertAdjacent(su[1], su[2], pos, t, rb[1], rb[2])
            \/ \E w \in Wraps : InsertWrapped(su[1], w, su[2], pos, t, rb[1], rb[2])

Next ==
    \/ \E s \in NewSchemas : InsertNewSchema(s)
    \/ Insert
    \/ \E u \in Uid : \E rb \in Removals(u) : Remove(u, rb[1], rb[2])
    \/ \E u \in Uid : ClearAncestor(u)

Spec == Init /\ [][Next]_tables

-----------------------------------------------------------------------------
(* Properties *)

TypeOK ==
    /\ schemas \in SUBSET Uid
    /\ path \in SUBSET (Uid \X Uid \X Nat)
    /\ type \in [Uid -> Types \cup {NoType}]
    /\ sort \in [Uid -> Nat]

\* P is the closure of a forest over the nodes N: one row for a pair (the
\* primary key), each node has its own, the depths of two rows that meet add
\* up, the ancestors of a node are in one line, and every row goes through the
\* parent.
Closed(P, N) ==
    /\ \A r \in P : r[1] \in N /\ r[2] \in N
    /\ \A q, r \in P : q[1] = r[1] /\ q[2] = r[2] => q = r
    /\ \A u \in N : <<u, u, 0>> \in P
    /\ \A r \in P : r[3] = 0 => r[1] = r[2]
    /\ \A q, r \in P : q[2] = r[1] => <<q[1], r[2], q[3] + r[3]>> \in P
    /\ \A q, r \in P : q[2] = r[2] => Row(P, q[1], r[1]) \/ Row(P, r[1], q[1])
    /\ \A r \in P : r[1] # r[2] => \E p \in Parents(P, r[2]) : <<r[1], p, r[3] - 1>> \in P

\* The closure table stays that of a forest whatever is moved, wrapped,
\* removed or cut off, and has no rows of nodes that are gone.
ClosureTable == Closed(path, schemas)

\* Two nodes that a parent has under one key have different places.
PlacesDiffer ==
    \A p \in schemas : \A c, d \in Children(path, p) :
        /\ sort[c] # NoSort
        /\ c # d /\ type[c] = type[d] => sort[c] # sort[d]

\* Wherever a node is put, it ends up where the request said: first, last, or
\* with nothing between it and its target.
PutInPlace ==
    \A u, t \in schemas, pos \in Positions :
        CanPlace(Tables, u, pos, t) =>
            LET T == Placed(Tables, u, pos, t)
                p == ParentAt(Tables, pos, t)
                others == Siblings(T.path, T.type, p, T.type[u], u)
                S == T.sort
            IN /\ Parents(T.path, u) = {p}
               /\ pos = "afterBegin" => \A c \in others : S[u] < S[c]
               /\ pos = "beforeEnd" => \A c \in others : S[c] < S[u]
               /\ pos = "beforeBegin" =>
                     S[u] < S[t] /\ \A c \in others : ~ (S[u] < S[c] /\ S[c] < S[t])
               /\ pos = "afterEnd" =>
                     S[t] < S[u] /\ \A c \in others : ~ (S[t] < S[c] /\ S[c] < S[u])

\* Whatever an operation does, nodes that stay together under one key keep
\* their order, but for the one node that is moved.
OthersKeepOrder ==
    [][\E m \in Uid : \A p \in Uid : \A c, d \in Children(path, p) \ {m} :
          (/\ {c, d} \subseteq Children(path', p)
           /\ type[c] = type[d] /\ type'[c] = type'[d]
           /\ sort[c] < sort[d]) => sort'[c] < sort'[d]]_tables

\* Seen as a forest, the tables change as SchemaForest says: an operation puts
\* one node somewhere or removes one subtree, and leaves every other node that
\* stays under its parent.
Forest == INSTANCE SchemaForest WITH
    NoUid <- NoType,
    parent <- [u \in schemas |->
                 IF Parents(path, u) = {} THEN NoType ELSE CHOOSE p \in Parents(path, u) : TRUE]
ForestSpec == Forest!Spec

=============================================================================
