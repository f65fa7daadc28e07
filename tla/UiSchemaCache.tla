---------------------------- MODULE UiSchemaCache ----------------------------
(***************************************************************************)
(* The cache of the UI schemas (setCache() and clearXUidPathCache() of     *)
(* packages/plugins/ui-schema-storage/src/repository.ts), around the       *)
(* operations of UiSchemaTree.                                             *)
(*                                                                         *)
(* An operation deletes entries of the cache while its transaction runs,   *)
(* some before it writes and some after, and commits after that.  The      *)
(* tables of UiSchemaTree are the ones the transaction sees: the readers   *)
(* see them when it commits.  A read is the query of the tables and, later,*)
(* the filling of the cache with its result.                               *)
(***************************************************************************)
EXTENDS UiSchemaTree

CONSTANT MaxEntries  \* bound on the cached or awaited schemas

\* What the cache holds for a uid.  Nothing; a read on its way, of what is
\* committed or was before; what is committed, read with no transaction running
\* or during one; and what is not committed any more: because it was read too
\* early, was patched from above or was moved by its uid alone, or else.
Entries == {"none", "reading", "outdated", "fresh", "early",
            "late", "below", "moved", "stale"}
Held == Entries \ {"none", "reading", "outdated"}

VARIABLES
    entry,       \* the cache
    transaction  \* the transaction that runs: the nodes the readers see, the
                 \* entries its commit changes, why it may leave some of them,
                 \* and what it has still to clear

vars == <<tables, entry, transaction>>

None == [shown |-> {}, changed |-> {}, left |-> {}, why |-> "stale", toClear |-> {}]

-----------------------------------------------------------------------------
(* A transaction *)

\* what getJsonSchema() of a returns of the nodes under a
Content(T, a) ==
    {<<r[1], r[2], T.type[r[2]], T.sort[r[2]]>> :
        r \in {r \in T.path : r[3] = 1 /\ r[1] \in Under(T.path, a)}}

Changed == {a \in schemas \cap schemas' : Content(Tables', a) # Content(Tables, a)}

\* clearXUidPathCache(): the entries of the uids in S are deleted
Clear(S) ==
    entry' = [a \in Uid |-> IF a \in S /\ entry[a] \in Held THEN "none" ELSE entry[a]]

\* an operation clears the entries of first, writes to the tables, and has those
\* of last to clear; left are the ones it is known to leave, and why
Run(first, last, changed, left, why) ==
    /\ transaction = None
    /\ Clear(first)
    /\ transaction' = [shown |-> schemas, changed |-> changed, left |-> left,
                       why |-> why, toClear |-> last]

\* the entries of what the operation placed, before its commit
ClearPlaced ==
    /\ transaction.toClear # {}
    /\ Clear(transaction.toClear)
    /\ transaction' = [transaction EXCEPT !.toClear = {}]
    /\ UNCHANGED tables

\* an entry after the commit; those of nodes that are gone are not followed
EntryAfter(a) ==
    LET changed == a \in transaction.changed
    IN CASE a \notin schemas -> "none"
         [] entry[a] = "reading" /\ changed -> "outdated"
         [] entry[a] = "early" -> IF changed THEN "late" ELSE "fresh"
         [] entry[a] = "fresh" /\ changed ->
               IF a \in transaction.left THEN transaction.why ELSE "stale"
         [] OTHER -> entry[a]

CommitTransaction ==
    /\ transaction # None
    /\ transaction.toClear = {}
    /\ entry' = [a \in Uid |-> EntryAfter(a)]
    /\ transaction' = None
    /\ UNCHANGED tables

-----------------------------------------------------------------------------
(* The operations *)

CachedInsertNew(s) ==
    /\ InsertNewSchema(s)
    /\ Run({}, {s.root}, Changed, {}, "stale")

\* mutant of Cleared: the path that a leaf had is not cleared
ClearedTree(u, byUid, remove) ==
    IF Children(path, u) = {} THEN {} ELSE Path(path, u)

\* What a move of u clears first: the path it had, when the request gave the
\* schema or u is moved with what is under it, and the one of the parent that
\* it leaves, when that is to be removed with no children.
Cleared(u, byUid, remove) ==
    (IF byUid /\ Children(path, u) = {} THEN {} ELSE Path(path, u))
    \cup (IF remove
          THEN UNION {Path(path, o) : o \in Parents(path, u) \ Parents(path', u)}
          ELSE {})

\* insertAdjacent() of a schema or, for a node that exists, of its uid alone;
\* what is cleared last is the path of the root that was placed
CachedInsert ==
    \E su \in Requested, pos \in Positions, t \in Uid, byUid \in BOOLEAN :
        LET u == su[2]
        IN /\ byUid => su[1] = NoSchema
           /\ \E rb \in Removals(u), root \in Uid :
                 /\ \/ root = u /\ InsertAdjacent(su[1], u, pos, t, rb[1], rb[2])
                    \/ \E w \in Wraps : /\ root = w.root
                                       /\ InsertWrapped(su[1], w, u, pos, t, rb[1], rb[2])
                 /\ Run(Cleared(u, byUid, rb[1]), Path(path', root), Changed,
                        IF byUid THEN Path(path, u) ELSE {}, "moved")

CachedRemove ==
    \E u \in Uid : \E rb \in Removals(u) :
        /\ Remove(u, rb[1], rb[2])
        /\ Run(Path(path, u), {}, Changed, {}, "stale")

CachedClearAncestor(u) ==
    /\ ClearAncestor(u)
    /\ Run(Path(path, u), {}, Changed, {}, "stale")

\* patch() of u and, through its properties, of the nodes N under it
Patch(u, N) ==
    /\ u \in N
    /\ N \subseteq Under(path, u)
    /\ UNCHANGED tables
    /\ Run(Path(path, u), {}, {a \in schemas : Under(path, a) \cap N # {}},
           Under(path, u) \ {u}, "below")

\* getJsonSchema() and getProperties() with readFromCache: a miss, the query of
\* what is committed, and the filling of the cache with its result
Query(a) ==
    /\ a \in IF transaction = None THEN schemas ELSE transaction.shown
    /\ entry[a] = "none"
    /\ Cardinality({b \in Uid : entry[b] # "none"}) < MaxEntries
    /\ entry' = [entry EXCEPT ![a] = "reading"]
    /\ UNCHANGED <<tables, transaction>>

Fill(a) ==
    /\ entry[a] \in {"reading", "outdated"}
    /\ entry' = [entry EXCEPT ![a] = IF @ = "outdated" THEN "late"
                                     ELSE IF transaction = None THEN "fresh" ELSE "early"]
    /\ UNCHANGED <<tables, transaction>>

\* an entry expires, or makes room for another one
Evict(a) ==
    /\ entry[a] \in Held
    /\ entry' = [entry EXCEPT ![a] = "none"]
    /\ UNCHANGED <<tables, transaction>>

-----------------------------------------------------------------------------

CachedInit ==
    /\ Init
    /\ entry = [u \in Uid |-> "none"]
    /\ transaction = None

CachedNext ==
    \/ \E s \in NewSchemas : CachedInsertNew(s)
    \/ CachedInsert
    \/ CachedRemove
    \/ \E u \in Uid : CachedClearAncestor(u)
    \/ \E u \in Uid, N \in SUBSET Uid : Patch(u, N)
    \/ ClearPlaced
    \/ CommitTransaction
    \/ \E a \in Uid : Query(a) \/ Fill(a) \/ Evict(a)

CachedSpec == CachedInit /\ [][CachedNext]_vars

-----------------------------------------------------------------------------
(* Properties *)

\* An entry that was read while no transaction ran is what is committed, whatever
\* is committed after, unless its node was patched through a node above it or lost
\* a leaf that was moved by its uid.
CacheIsFresh == \A a \in Uid : entry[a] # "stale"

=============================================================================
