------------------------- MODULE UiSchemaTreeProofs -------------------------
(***************************************************************************)
(* Proofs about UiSchemaTree, for any number of nodes and schemas of any   *)
(* size: its tables are those of a finite forest whose nodes have places   *)
(* of their own, what is cached is what they hold, an operation leaves     *)
(* every node but one where it is, and every step is one of SchemaForest.  *)
(* The first sections are lemmas about the table of paths: its rows, what  *)
(* is cut, hung, removed and inserted, whose parents an operation leaves,  *)
(* and the sorts that insertSingleNode() gives.                            *)
(***************************************************************************)
EXTENDS UiSchemaCache, FiniteSetTheorems, TLAPS

-----------------------------------------------------------------------------
(* The closure table, row by row *)

Rows3 == Uid \X Uid \X Nat

\* Closed, said of ancestors, descendants and depths instead of rows.
Tree(P, N) ==
    /\ P \in SUBSET Rows3
    /\ N \in SUBSET Uid
    /\ \A a, b \in Uid : \A i \in Nat : <<a, b, i>> \in P => a \in N /\ b \in N
    /\ \A a, b \in Uid : \A i, j \in Nat : <<a, b, i>> \in P /\ <<a, b, j>> \in P => i = j
    /\ \A u \in N : <<u, u, 0>> \in P
    /\ \A a, b \in Uid : <<a, b, 0>> \in P => a = b
    /\ \A a, b, c \in Uid : \A i, j \in Nat :
          <<a, b, i>> \in P /\ <<b, c, j>> \in P => <<a, c, i + j>> \in P
    /\ \A a, b, c \in Uid : \A i, j \in Nat :
          <<a, c, i>> \in P /\ <<b, c, j>> \in P
             => \E k \in Nat : <<a, b, k>> \in P \/ <<b, a, k>> \in P
    /\ \A a, b \in Uid : \A i \in Nat : <<a, b, i>> \in P /\ a # b
          => \E p \in Uid : <<p, b, 1>> \in P /\ i - 1 \in Nat /\ <<a, p, i - 1>> \in P

LEMMA TreeTyped ==
    ASSUME NEW P, NEW N, Tree(P, N)
    PROVE  P \in SUBSET Rows3 /\ N \in SUBSET Uid
  BY DEF Tree

LEMMA RowParts ==
    ASSUME NEW P \in SUBSET Rows3, NEW r \in P
    PROVE  r[1] \in Uid /\ r[2] \in Uid /\ r[3] \in Nat /\ r = <<r[1], r[2], r[3]>>
  BY DEF Rows3

LEMMA RowIs ==
    ASSUME NEW P \in SUBSET Rows3, NEW a, NEW b
    PROVE  Row(P, a, b) <=> a \in Uid /\ b \in Uid /\ \E i \in Nat : <<a, b, i>> \in P
<1>1. ASSUME Row(P, a, b)
      PROVE  a \in Uid /\ b \in Uid /\ \E i \in Nat : <<a, b, i>> \in P
  BY <1>1, RowParts DEF Row
<1>2. ASSUME NEW i \in Nat, <<a, b, i>> \in P
      PROVE  Row(P, a, b)
  <2> DEFINE r == <<a, b, i>>
  <2>1. r \in P /\ r[1] = a /\ r[2] = b
    BY <1>2
  <2> QED
    BY <2>1 DEF Row
<1> QED
  BY <1>1, <1>2

LEMMA ParentIs ==
    ASSUME NEW P \in SUBSET Rows3, NEW b \in Uid, NEW p
    PROVE  p \in Parents(P, b) <=> p \in Uid /\ <<p, b, 1>> \in P
<1>1. ASSUME p \in Parents(P, b)
      PROVE  p \in Uid /\ <<p, b, 1>> \in P
  BY <1>1, RowParts DEF Parents
<1>2. ASSUME <<p, b, 1>> \in P
      PROVE  p \in Parents(P, b)
  <2> DEFINE r == <<p, b, 1>>
  <2>1. r \in P /\ r[1] = p /\ r[2] = b /\ r[3] = 1
    BY <1>2
  <2> QED
    BY <2>1 DEF Parents
<1> QED
  BY <1>1, <1>2

LEMMA ReachedIs ==
    ASSUME NEW P \in SUBSET Rows3, NEW a, NEW b
    PROVE  /\ b \in Under(P, a) <=> Row(P, a, b)
           /\ a \in Path(P, b) <=> Row(P, a, b)
  BY DEF Under, Path, Row

LEMMA TreeIsClosed ==
    ASSUME NEW P, NEW N, Tree(P, N)
    PROVE  Closed(P, N)
<1>0. P \in SUBSET Rows3 /\ N \in SUBSET Uid
  BY DEF Tree
<1>1. \A r \in P : r[1] \in N /\ r[2] \in N
  BY <1>0, RowParts DEF Tree
<1>2. \A q, r \in P : q[1] = r[1] /\ q[2] = r[2] => q = r
  <2> TAKE q, r \in P
  <2> HAVE q[1] = r[1] /\ q[2] = r[2]
  <2>1. q = <<q[1], q[2], q[3]>> /\ r = <<q[1], q[2], r[3]>>
    BY <1>0, RowParts
  <2>2. q[1] \in Uid /\ q[2] \in Uid /\ q[3] \in Nat /\ r[3] \in Nat
    BY <1>0, RowParts
  <2>3. q[3] = r[3]
    BY <2>1, <2>2 DEF Tree
  <2> QED
    BY <2>1, <2>3
<1>3. \A u \in N : <<u, u, 0>> \in P
  BY DEF Tree
<1>4. \A r \in P : r[3] = 0 => r[1] = r[2]
  <2> TAKE r \in P
  <2> HAVE r[3] = 0
  <2>1. r = <<r[1], r[2], 0>> /\ r[1] \in Uid /\ r[2] \in Uid
    BY <1>0, RowParts
  <2> QED
    BY <2>1 DEF Tree
<1>5. \A q, r \in P : q[2] = r[1] => <<q[1], r[2], q[3] + r[3]>> \in P
  <2> TAKE q, r \in P
  <2> HAVE q[2] = r[1]
  <2>1. q = <<q[1], q[2], q[3]>> /\ r = <<q[2], r[2], r[3]>>
    BY <1>0, RowParts
  <2>2. q[1] \in Uid /\ q[2] \in Uid /\ r[2] \in Uid /\ q[3] \in Nat /\ r[3] \in Nat
    BY <1>0, RowParts
  <2> QED
    BY <2>1, <2>2 DEF Tree
<1>6. \A q, r \in P : q[2] = r[2] => Row(P, q[1], r[1]) \/ Row(P, r[1], q[1])
  <2> TAKE q, r \in P
  <2> HAVE q[2] = r[2]
  <2>1. q = <<q[1], q[2], q[3]>> /\ r = <<r[1], q[2], r[3]>>
    BY <1>0, RowParts
  <2>2. q[1] \in Uid /\ q[2] \in Uid /\ r[1] \in Uid /\ q[3] \in Nat /\ r[3] \in Nat
    BY <1>0, RowParts
  <2>3. \E k \in Nat : <<q[1], r[1], k>> \in P \/ <<r[1], q[1], k>> \in P
    BY <2>1, <2>2 DEF Tree
  <2> QED
    BY <1>0, <2>2, <2>3, RowIs
<1>7. \A r \in P : r[1] # r[2] => \E p \in Parents(P, r[2]) : <<r[1], p, r[3] - 1>> \in P
  <2> TAKE r \in P
  <2> HAVE r[1] # r[2]
  <2>1. r = <<r[1], r[2], r[3]>> /\ r[1] \in Uid /\ r[2] \in Uid /\ r[3] \in Nat
    BY <1>0, RowParts
  <2>2. PICK p \in Uid : <<p, r[2], 1>> \in P /\ <<r[1], p, r[3] - 1>> \in P
    BY <2>1 DEF Tree
  <2> QED
    BY <1>0, <2>1, <2>2, ParentIs
<1> QED
  BY <1>1, <1>2, <1>3, <1>4, <1>5, <1>6, <1>7 DEF Closed

\* A node has no ancestor at a distance of 0 but itself, so that two nodes do
\* not lead to each other.
LEMMA NoWayBack ==
    ASSUME NEW P, NEW N, Tree(P, N), NEW a \in Uid, NEW b \in Uid, Row(P, a, b), Row(P, b, a)
    PROVE  a = b
<1>0. P \in SUBSET Rows3
  BY DEF Tree
<1>1. PICK i \in Nat, j \in Nat : <<a, b, i>> \in P /\ <<b, a, j>> \in P
  BY <1>0, RowIs
<1>2. <<a, a, i + j>> \in P /\ <<a, a, 0>> \in P
  BY <1>1 DEF Tree
<1>3. i + j = 0
  BY <1>2 DEF Tree
<1>4. i = 0
  BY <1>3
<1> QED
  BY <1>1, <1>4 DEF Tree

LEMMA RowTrans ==
    ASSUME NEW P, NEW N, Tree(P, N), NEW a, NEW b, NEW c, Row(P, a, b), Row(P, b, c)
    PROVE  Row(P, a, c)
<1>0. P \in SUBSET Rows3
  BY DEF Tree
<1>1. a \in Uid /\ b \in Uid /\ c \in Uid
  BY <1>0, RowIs
<1>2. PICK i \in Nat, j \in Nat : <<a, b, i>> \in P /\ <<b, c, j>> \in P
  BY <1>0, RowIs
<1>3. <<a, c, i + j>> \in P /\ i + j \in Nat
  BY <1>1, <1>2 DEF Tree
<1> QED
  BY <1>0, <1>1, <1>3, RowIs

LEMMA RowLine ==
    ASSUME NEW P, NEW N, Tree(P, N), NEW a, NEW b, NEW c, Row(P, a, c), Row(P, b, c)
    PROVE  Row(P, a, b) \/ Row(P, b, a)
<1>0. P \in SUBSET Rows3
  BY DEF Tree
<1>1. a \in Uid /\ b \in Uid /\ c \in Uid
  BY <1>0, RowIs
<1>2. PICK i \in Nat, j \in Nat : <<a, c, i>> \in P /\ <<b, c, j>> \in P
  BY <1>0, RowIs
<1>3. \E k \in Nat : <<a, b, k>> \in P \/ <<b, a, k>> \in P
  BY <1>1, <1>2 DEF Tree
<1> QED
  BY <1>0, <1>1, <1>3, RowIs

LEMMA RowNodes ==
    ASSUME NEW P, NEW N, Tree(P, N), NEW a, NEW b, Row(P, a, b)
    PROVE  a \in N /\ b \in N /\ Row(P, a, a) /\ Row(P, b, b)
<1>0. P \in SUBSET Rows3
  BY DEF Tree
<1>1. a \in Uid /\ b \in Uid /\ \E i \in Nat : <<a, b, i>> \in P
  BY <1>0, RowIs
<1>2. a \in N /\ b \in N
  BY <1>1 DEF Tree
<1>3. <<a, a, 0>> \in P /\ <<b, b, 0>> \in P
  BY <1>2 DEF Tree
<1> QED
  BY <1>0, <1>1, <1>2, <1>3, RowIs

LEMMA OwnRow ==
    ASSUME NEW P, NEW N, Tree(P, N), NEW u \in N
    PROVE  Row(P, u, u)
<1>1. P \in SUBSET Rows3 /\ u \in Uid /\ <<u, u, 0>> \in P
  BY DEF Tree
<1> QED
  BY <1>1, RowIs

LEMMA OneParent ==
    ASSUME NEW P, NEW N, Tree(P, N), NEW b \in Uid, NEW p \in Parents(P, b), NEW q \in Parents(P, b)
    PROVE  p = q
<1>1. p \in Uid /\ q \in Uid /\ <<p, b, 1>> \in P /\ <<q, b, 1>> \in P
  BY ParentIs DEF Tree
<1>2. PICK k \in Nat : <<p, q, k>> \in P \/ <<q, p, k>> \in P
  BY <1>1 DEF Tree
<1>3. CASE <<p, q, k>> \in P
  <2>1. <<p, b, k + 1>> \in P /\ k + 1 \in Nat
    BY <1>1, <1>3 DEF Tree
  <2>2. k + 1 = 1
    BY <1>1, <2>1 DEF Tree
  <2>3. k = 0
    BY <2>2
  <2> QED
    BY <1>1, <1>3, <2>3 DEF Tree
<1>4. CASE <<q, p, k>> \in P
  <2>1. <<q, b, k + 1>> \in P /\ k + 1 \in Nat
    BY <1>1, <1>4 DEF Tree
  <2>2. k + 1 = 1
    BY <1>1, <2>1 DEF Tree
  <2>3. k = 0
    BY <2>2
  <2> QED
    BY <1>1, <1>4, <2>3 DEF Tree
<1> QED
  BY <1>2, <1>3, <1>4

LEMMA NotOwnParent ==
    ASSUME NEW P, NEW N, Tree(P, N), NEW u \in Uid
    PROVE  <<u, u, 1>> \notin P
<1> SUFFICES ASSUME <<u, u, 1>> \in P
             PROVE  FALSE
  OBVIOUS
<1>1. u \in N
  BY DEF Tree
<1>2. <<u, u, 0>> \in P
  BY <1>1 DEF Tree
<1>3. 0 = 1
  BY <1>2 DEF Tree
<1> QED
  BY <1>3

\* A child is what has the parent.
LEMMA ChildIs ==
    ASSUME NEW P, NEW p, NEW c
    PROVE  c \in Children(P, p) <=> p \in Parents(P, c)
  BY DEF Children, Parents

\* What has a parent is a node, as its parent is.
LEMMA ParentNodes ==
    ASSUME NEW P, NEW N, Tree(P, N), NEW c, NEW p, p \in Parents(P, c)
    PROVE  /\ p \in N /\ c \in N /\ p # c
           /\ <<p, c, 1>> \in P /\ Row(P, p, c)
<1>1. P \in SUBSET Rows3 /\ N \in SUBSET Uid
  BY DEF Tree
<1>2. c \in Uid
  BY <1>1, RowParts DEF Parents
<1>3. p \in Uid /\ <<p, c, 1>> \in P
  BY <1>1, <1>2, ParentIs
<1>4. p \in N /\ c \in N
  BY <1>2, <1>3 DEF Tree
<1>5. p # c
  BY <1>2, <1>3, NotOwnParent
<1> QED
  BY <1>1, <1>2, <1>3, <1>4, <1>5, RowIs

\* Between a node and its parent there is nothing.
LEMMA NothingBetween ==
    ASSUME NEW P, NEW N, Tree(P, N), NEW p, NEW a, NEW c, p \in Parents(P, c),
           Row(P, p, a), Row(P, a, c), a # p
    PROVE  a = c
<1>1. P \in SUBSET Rows3 /\ <<p, c, 1>> \in P
  BY TreeTyped, ParentNodes
<1>2. p \in Uid /\ a \in Uid /\ c \in Uid
  BY <1>1, RowIs
<1>3. PICK i \in Nat, j \in Nat : <<p, a, i>> \in P /\ <<a, c, j>> \in P
  BY <1>1, RowIs
<1>4. <<p, c, i + j>> \in P /\ i + j \in Nat
  BY <1>2, <1>3 DEF Tree
<1>5. i + j = 1
  BY <1>1, <1>2, <1>4 DEF Tree
<1>6. i # 0
  BY <1>2, <1>3 DEF Tree
<1>7. j = 0
  BY <1>5, <1>6
<1> QED
  BY <1>2, <1>3, <1>7 DEF Tree

-----------------------------------------------------------------------------
(* What moves, removals and insertions do to it *)

\* what Cut leaves
LEMMA CutRows ==
    ASSUME NEW P \in SUBSET Rows3, NEW u,
           NEW a \in Uid, NEW b \in Uid, NEW i \in Nat
    PROVE  <<a, b, i>> \in Cut(P, u) <=>
             <<a, b, i>> \in P /\ ~ (a # u /\ Row(P, a, u) /\ Row(P, u, b))
  BY ReachedIs DEF Cut

LEMMA CutTree ==
    ASSUME NEW P, NEW N, Tree(P, N), NEW u \in Uid
    PROVE  /\ Tree(Cut(P, u), N)
           /\ \A a \in Uid : Row(Cut(P, u), a, u) => a = u
           /\ \A a, b : Row(Cut(P, u), a, b) => Row(P, a, b)
<1> DEFINE C == Cut(P, u)
           Lost(a, b) == a # u /\ Row(P, a, u) /\ Row(P, u, b)
<1>0. P \in SUBSET Rows3 /\ C \in SUBSET Rows3 /\ N \in SUBSET Uid
  BY DEF Tree, Cut
<1>1. \A a, b \in Uid : \A i \in Nat : <<a, b, i>> \in C <=> <<a, b, i>> \in P /\ ~ Lost(a, b)
  BY <1>0, CutRows
<1>2. \A a, b \in Uid : \A i \in Nat : <<a, b, i>> \in P => Row(P, a, b)
  BY <1>0, RowIs
<1>3. \A a, b, c : Row(P, a, b) /\ Row(P, b, c) => Row(P, a, c)
  BY RowTrans
<1> HIDE DEF C
<1>4. \A a, b \in Uid : \A i \in Nat : <<a, b, i>> \in C => a \in N /\ b \in N
  BY <1>1 DEF Tree
<1>5. \A a, b \in Uid : \A i, j \in Nat : <<a, b, i>> \in C /\ <<a, b, j>> \in C => i = j
  BY <1>1 DEF Tree
<1>6. \A x \in N : <<x, x, 0>> \in C
  <2> TAKE x \in N
  <2>1. <<x, x, 0>> \in P /\ x \in Uid
    BY <1>0 DEF Tree
  <2>2. ~ Lost(x, x)
    BY <1>0, NoWayBack, <2>1
  <2> QED
    BY <1>1, <2>1, <2>2
<1>7. \A a, b \in Uid : <<a, b, 0>> \in C => a = b
  BY <1>1 DEF Tree
<1>8. \A a, b, c \in Uid : \A i, j \in Nat :
          <<a, b, i>> \in C /\ <<b, c, j>> \in C => <<a, c, i + j>> \in C
  <2> TAKE a, b, c \in Uid, i, j \in Nat
  <2> HAVE <<a, b, i>> \in C /\ <<b, c, j>> \in C
  <2>1. <<a, b, i>> \in P /\ <<b, c, j>> \in P /\ ~ Lost(a, b) /\ ~ Lost(b, c)
    BY <1>1
  <2>2. <<a, c, i + j>> \in P /\ i + j \in Nat
    BY <2>1 DEF Tree
  <2>3. Row(P, a, b) /\ Row(P, b, c)
    BY <2>1, <1>2
  <2>4. ASSUME Lost(a, c) PROVE FALSE
    <3>1. Row(P, u, b) \/ Row(P, b, u)
      BY <2>3, <2>4, RowLine
    <3>2. ~ Row(P, u, b)
      BY <2>1, <2>4
    <3>3. b = u
      BY <3>1, <3>2, <2>1, <2>4
    <3> QED
      BY <3>2, <3>1, <3>3
  <2> QED
    BY <1>1, <2>2, <2>4
<1>9. \A a, b, c \in Uid : \A i, j \in Nat :
          <<a, c, i>> \in C /\ <<b, c, j>> \in C
             => \E k \in Nat : <<a, b, k>> \in C \/ <<b, a, k>> \in C
  <2>1. ASSUME NEW a \in Uid, NEW b \in Uid, NEW c \in Uid, NEW i \in Nat, NEW k \in Nat,
               <<a, c, i>> \in C, <<a, b, k>> \in P, Row(P, b, c)
        PROVE  <<a, b, k>> \in C
    BY <2>1, <1>1, <1>3
  <2> TAKE a, b, c \in Uid, i, j \in Nat
  <2> HAVE <<a, c, i>> \in C /\ <<b, c, j>> \in C
  <2>2. <<a, c, i>> \in P /\ <<b, c, j>> \in P
    BY <1>1
  <2>3. PICK k \in Nat : <<a, b, k>> \in P \/ <<b, a, k>> \in P
    BY <2>2 DEF Tree
  <2> QED
    BY <2>1, <2>2, <2>3, <1>2
<1>10. \A a, b \in Uid : \A i \in Nat : <<a, b, i>> \in C /\ a # b
          => \E p \in Uid : <<p, b, 1>> \in C /\ i - 1 \in Nat /\ <<a, p, i - 1>> \in C
  <2> TAKE a, b \in Uid, i \in Nat
  <2> HAVE <<a, b, i>> \in C /\ a # b
  <2>1. <<a, b, i>> \in P /\ ~ Lost(a, b)
    BY <1>1
  <2>2. PICK p \in Uid : <<p, b, 1>> \in P /\ i - 1 \in Nat /\ <<a, p, i - 1>> \in P
    BY <2>1 DEF Tree
  <2>3. Row(P, p, b) /\ Row(P, a, p) /\ Row(P, a, b)
    BY <2>1, <2>2, <1>2
  <2>4. ~ Lost(a, p)
    BY <2>1, <2>3, <1>3
  <2>5. ASSUME Lost(p, b) PROVE FALSE
    <3>1. Row(P, a, u)
      BY <2>3, <2>5, <1>3
    <3>2. a = u
      BY <3>1, <2>1, <2>5
    <3>3. p = u
      BY <3>2, <2>3, <2>5, NoWayBack
    <3> QED
      BY <3>3, <2>5
  <2> QED
    BY <2>2, <2>4, <2>5, <1>1
<1>11. \A a \in Uid : Row(C, a, u) => a = u
  <2> TAKE a \in Uid
  <2> HAVE Row(C, a, u)
  <2>1. PICK i \in Nat : <<a, u, i>> \in C
    BY <1>0, RowIs
  <2>2. Row(P, a, u) /\ ~ Lost(a, u)
    BY <2>1, <1>1, <1>2
  <2>3. Row(P, u, u)
    BY <2>2, RowNodes
  <2> QED
    BY <2>2, <2>3
<1>12. \A a, b : Row(C, a, b) => Row(P, a, b)
  BY <1>0, <1>1, RowIs
<1> QED
  BY <1>0, <1>4, <1>5, <1>6, <1>7, <1>8, <1>9, <1>10, <1>11, <1>12 DEF Tree, C

\* the row of a and b goes through p and u
Joined(P, u, p, a, b, i) ==
    \E j, k \in Nat : <<a, p, j>> \in P /\ <<u, b, k>> \in P /\ i = j + k + 1

\* what Hung adds
LEMMA HungRows ==
    ASSUME NEW P \in SUBSET Rows3, NEW u \in Uid, NEW p,
           NEW a \in Uid, NEW b \in Uid, NEW i \in Nat
    PROVE  /\ Hung(P, u, p) \in SUBSET Rows3
           /\ <<a, b, i>> \in Hung(P, u, p) <=>
                <<a, b, i>> \in P \/ Joined(P, u, p, a, b, i)
<1> DEFINE New == {<<q[1], r[2], q[3] + r[3] + 1>> :
                      q \in {r \in P : r[2] = p}, r \in {r \in P : r[1] = u}}
<1>1. Hung(P, u, p) = P \cup New
  BY DEF Hung
<1>2. New \in SUBSET Rows3
  <2> SUFFICES ASSUME NEW q \in P, NEW r \in P
               PROVE  <<q[1], r[2], q[3] + r[3] + 1>> \in Rows3
    OBVIOUS
  <2>1. q[1] \in Uid /\ r[2] \in Uid /\ q[3] \in Nat /\ r[3] \in Nat
    BY RowParts
  <2> QED
    BY <2>1 DEF Rows3
<1>3. ASSUME <<a, b, i>> \in New
      PROVE  Joined(P, u, p, a, b, i)
  <2>1. PICK q \in P, r \in P : /\ q[2] = p /\ r[1] = u
                                /\ <<a, b, i>> = <<q[1], r[2], q[3] + r[3] + 1>>
    BY <1>3
  <2>2. a = q[1] /\ b = r[2] /\ i = q[3] + r[3] + 1
    BY <2>1
  <2>3. q = <<q[1], q[2], q[3]>> /\ r = <<r[1], r[2], r[3]>> /\ q[3] \in Nat /\ r[3] \in Nat
    BY RowParts
  <2>4. q = <<a, p, q[3]>> /\ r = <<u, b, r[3]>>
    BY <2>1, <2>2, <2>3
  <2> QED
    BY <2>2, <2>3, <2>4 DEF Joined
<1>4. ASSUME Joined(P, u, p, a, b, i)
      PROVE  <<a, b, i>> \in New
  <2> PICK j \in Nat, k \in Nat : <<a, p, j>> \in P /\ <<u, b, k>> \in P /\ i = j + k + 1
    BY <1>4 DEF Joined
  <2> DEFINE q == <<a, p, j>>  r == <<u, b, k>>
  <2>1. /\ q \in P /\ r \in P /\ q[2] = p /\ r[1] = u
        /\ q[1] = a /\ r[2] = b /\ q[3] = j /\ r[3] = k
    OBVIOUS
  <2>2. <<q[1], r[2], q[3] + r[3] + 1>> \in New
    BY <2>1
  <2> QED
    BY <2>1, <2>2
<1> HIDE DEF New
<1> QED
  BY <1>1, <1>2, <1>3, <1>4

LEMMA HungTree ==
    ASSUME NEW P, NEW N, Tree(P, N), NEW u \in N, NEW p, ~ Row(P, u, p),
           \A a \in Uid : Row(P, a, u) => a = u
    PROVE  /\ Tree(Hung(P, u, p), N)
           /\ \A a, b : Row(Hung(P, u, p), a, b) <=>
                           Row(P, a, b) \/ (Row(P, a, p) /\ Row(P, u, b))
           /\ p \in N => \A a : a \in Parents(Hung(P, u, p), u) <=> a = p
<1> DEFINE H == Hung(P, u, p)
           New(a, b, i) == Joined(P, u, p, a, b, i)
<1>0. P \in SUBSET Rows3 /\ N \in SUBSET Uid /\ u \in Uid /\ <<u, u, 0>> \in P
  BY DEF Tree
<1>1. \A a, b \in Uid : \A i \in Nat : <<a, b, i>> \in H <=> <<a, b, i>> \in P \/ New(a, b, i)
  BY <1>0, HungRows
<1>2. H \in SUBSET Rows3
  BY <1>0, HungRows
<1>3. \A a, b \in Uid : \A i \in Nat : <<a, b, i>> \in P => Row(P, a, b)
  BY <1>0, RowIs
<1>4. \A a, b, c : Row(P, a, b) /\ Row(P, b, c) => Row(P, a, c)
  BY RowTrans
<1>5. \A a \in Uid, j \in Nat : <<a, p, j>> \in P => p \in Uid
  BY <1>0 DEF Rows3
<1>6. \A a, b \in Uid : \A i \in Nat : New(a, b, i) => Row(P, a, p) /\ Row(P, u, b)
  BY <1>0, <1>3, <1>5 DEF Joined
<1>7. ASSUME NEW a \in Uid, NEW b \in Uid, Row(P, a, p), Row(P, u, b)
      PROVE  ~ Row(P, a, b)
  <2> SUFFICES ASSUME Row(P, a, b) PROVE FALSE
    OBVIOUS
  <2>1. Row(P, a, u) \/ Row(P, u, a)
    BY <1>7, RowLine
  <2>2. Row(P, u, a)
    BY <2>1, <1>0, RowIs
  <2> QED
    BY <2>2, <1>7, <1>4
<1> HIDE DEF H
<1>8. \A a, b \in Uid : \A i \in Nat : <<a, b, i>> \in H => a \in N /\ b \in N
  <2>1. \A a, b \in Uid : \A i \in Nat : New(a, b, i) => a \in N /\ b \in N
    BY <1>6, RowNodes
  <2> QED
    BY <2>1, <1>1 DEF Tree
<1>9. \A a, b \in Uid : \A i, j \in Nat : <<a, b, i>> \in H /\ <<a, b, j>> \in H => i = j
  <2> TAKE a, b \in Uid, i, j \in Nat
  <2> HAVE <<a, b, i>> \in H /\ <<a, b, j>> \in H
  <2>1. CASE <<a, b, i>> \in P /\ <<a, b, j>> \in P
    BY <2>1 DEF Tree
  <2>2. CASE New(a, b, i) /\ New(a, b, j)
    <3>1. p \in Uid
      BY <2>2, <1>6, <1>0, RowIs
    <3>2. PICK i1 \in Nat, i2 \in Nat : <<a, p, i1>> \in P /\ <<u, b, i2>> \in P /\ i = i1 + i2 + 1
      BY <2>2 DEF Joined
    <3>3. PICK j1 \in Nat, j2 \in Nat : <<a, p, j1>> \in P /\ <<u, b, j2>> \in P /\ j = j1 + j2 + 1
      BY <2>2 DEF Joined
    <3>4. i1 = j1 /\ i2 = j2
      BY <1>0, <3>1, <3>2, <3>3 DEF Tree
    <3> QED
      BY <3>2, <3>3, <3>4
  <2> QED
    BY <2>1, <2>2, <1>1, <1>6, <1>3, <1>7
<1>10. \A x \in N : <<x, x, 0>> \in H
  BY <1>0, <1>1 DEF Tree
<1>11. \A a, b \in Uid : <<a, b, 0>> \in H => a = b
  <2> TAKE a, b \in Uid
  <2>0. \A j, k \in Nat : 0 # j + k + 1
    OBVIOUS
  <2>1. ~ New(a, b, 0)
    BY <2>0 DEF Joined
  <2> QED
    BY <2>1, <1>1 DEF Tree
<1>12. \A a, b, c \in Uid : \A i, j \in Nat :
          <<a, b, i>> \in H /\ <<b, c, j>> \in H => <<a, c, i + j>> \in H
  <2> TAKE a, b, c \in Uid, i, j \in Nat
  <2> HAVE <<a, b, i>> \in H /\ <<b, c, j>> \in H
  <2>0. i + j \in Nat
    OBVIOUS
  <2>1. CASE <<a, b, i>> \in P /\ <<b, c, j>> \in P
    BY <2>0, <2>1, <1>1 DEF Tree
  <2>2. CASE <<a, b, i>> \in P /\ New(b, c, j)
    <3>1. PICK j1 \in Nat, j2 \in Nat : <<b, p, j1>> \in P /\ <<u, c, j2>> \in P /\ j = j1 + j2 + 1
      BY <2>2 DEF Joined
    <3>2. <<a, p, i + j1>> \in P
      BY <2>2, <3>1, <1>5 DEF Tree
    <3>3. i + j1 \in Nat /\ i + j = (i + j1) + j2 + 1
      BY <3>1
    <3>4. New(a, c, i + j)
      BY <3>1, <3>2, <3>3 DEF Joined
    <3> QED
      BY <2>0, <3>4, <1>1
  <2>3. CASE New(a, b, i) /\ <<b, c, j>> \in P
    <3>1. PICK i1 \in Nat, i2 \in Nat : <<a, p, i1>> \in P /\ <<u, b, i2>> \in P /\ i = i1 + i2 + 1
      BY <2>3 DEF Joined
    <3>2. <<u, c, i2 + j>> \in P
      BY <2>3, <3>1, <1>0 DEF Tree
    <3>3. i2 + j \in Nat /\ i + j = i1 + (i2 + j) + 1
      BY <3>1
    <3>4. New(a, c, i + j)
      BY <3>1, <3>2, <3>3 DEF Joined
    <3> QED
      BY <2>0, <3>4, <1>1
  <2>4. ~ (New(a, b, i) /\ New(b, c, j))
    BY <1>6, <1>4
  <2> QED
    BY <2>1, <2>2, <2>3, <2>4, <1>1
<1>13. \A a, b, c \in Uid : \A i, j \in Nat :
          <<a, c, i>> \in H /\ <<b, c, j>> \in H
             => \E k \in Nat : <<a, b, k>> \in H \/ <<b, a, k>> \in H
  <2>1. ASSUME NEW a \in Uid, NEW b \in Uid, NEW c \in Uid, Row(P, a, c), Row(P, b, p),
               Row(P, u, c)
        PROVE  \E k \in Nat : <<a, b, k>> \in H \/ <<b, a, k>> \in H
    <3>1. Row(P, u, a)
      BY <2>1, <1>0, RowLine, RowIs
    <3>2. PICK j1 \in Nat, j2 \in Nat : <<b, p, j1>> \in P /\ <<u, a, j2>> \in P
      BY <2>1, <3>1, <1>0, RowIs
    <3>3. j1 + j2 + 1 \in Nat /\ New(b, a, j1 + j2 + 1)
      BY <3>2 DEF Joined
    <3> QED
      BY <3>3, <1>1
  <2>2. ASSUME NEW a \in Uid, NEW b \in Uid, Row(P, a, b) \/ Row(P, b, a)
        PROVE  \E k \in Nat : <<a, b, k>> \in H \/ <<b, a, k>> \in H
    BY <2>2, <1>0, <1>1, RowIs
  <2> TAKE a, b, c \in Uid, i, j \in Nat
  <2> HAVE <<a, c, i>> \in H /\ <<b, c, j>> \in H
  <2>3. CASE <<a, c, i>> \in P /\ <<b, c, j>> \in P
    BY <2>2, <2>3, <1>3, RowLine
  <2>4. CASE New(a, c, i) /\ New(b, c, j)
    BY <2>2, <2>4, <1>6, RowLine
  <2>5. CASE <<a, c, i>> \in P /\ New(b, c, j)
    BY <2>1, <2>5, <1>6, <1>3
  <2>6. CASE New(a, c, i) /\ <<b, c, j>> \in P
    <3>1. \E k \in Nat : <<b, a, k>> \in H \/ <<a, b, k>> \in H
      BY <2>1, <2>6, <1>6, <1>3
    <3> QED
      BY <3>1
  <2> QED
    BY <2>3, <2>4, <2>5, <2>6, <1>1
<1>14. \A a, b \in Uid : \A i \in Nat : <<a, b, i>> \in H /\ a # b
          => \E x \in Uid : <<x, b, 1>> \in H /\ i - 1 \in Nat /\ <<a, x, i - 1>> \in H
  <2> TAKE a, b \in Uid, i \in Nat
  <2> HAVE <<a, b, i>> \in H /\ a # b
  <2>1. CASE <<a, b, i>> \in P
    <3>1. PICK x \in Uid : <<x, b, 1>> \in P /\ i - 1 \in Nat /\ <<a, x, i - 1>> \in P
      BY <2>1 DEF Tree
    <3> QED
      BY <3>1, <1>1
  <2>2. CASE New(a, b, i)
    <3>1. PICK j \in Nat, k \in Nat : <<a, p, j>> \in P /\ <<u, b, k>> \in P /\ i = j + k + 1
      BY <2>2 DEF Joined
    <3>2. p \in Uid
      BY <3>1, <1>5
    <3>3. CASE b = u
      <4>1. k = 0
        BY <1>0, <3>1, <3>3 DEF Tree
      <4>2. <<p, p, 0>> \in P
        BY <3>1, <3>2 DEF Tree
      <4>3. New(p, b, 1)
        BY <1>0, <3>3, <4>2 DEF Joined
      <4>4. i - 1 = j /\ <<a, p, i - 1>> \in P
        BY <3>1, <4>1
      <4> QED
        BY <3>2, <4>3, <4>4, <1>1
    <3>4. CASE b # u
      <4>1. PICK x \in Uid : <<x, b, 1>> \in P /\ k - 1 \in Nat /\ <<u, x, k - 1>> \in P
        BY <1>0, <3>1, <3>4 DEF Tree
      <4>2. i - 1 \in Nat /\ i - 1 = j + (k - 1) + 1
        BY <3>1, <4>1
      <4>3. New(a, x, i - 1)
        BY <3>1, <4>1, <4>2 DEF Joined
      <4> QED
        BY <4>1, <4>2, <4>3, <1>1
    <3> QED
      BY <3>3, <3>4
  <2> QED
    BY <2>1, <2>2, <1>1
<1>15. \A a, b : Row(H, a, b) <=> Row(P, a, b) \/ (Row(P, a, p) /\ Row(P, u, b))
  <2> TAKE a, b
  <2>1. ASSUME Row(H, a, b) PROVE Row(P, a, b) \/ (Row(P, a, p) /\ Row(P, u, b))
    <3>1. PICK i \in Nat : a \in Uid /\ b \in Uid /\ <<a, b, i>> \in H
      BY <2>1, <1>2, RowIs
    <3> QED
      BY <3>1, <1>1, <1>3, <1>6
  <2>2. ASSUME Row(P, a, b) PROVE Row(H, a, b)
    BY <2>2, <1>0, <1>2, <1>1, RowIs
  <2>3. ASSUME Row(P, a, p), Row(P, u, b) PROVE Row(H, a, b)
    <3>1. PICK j \in Nat, k \in Nat : <<a, p, j>> \in P /\ <<u, b, k>> \in P
      BY <2>3, <1>0, RowIs
    <3>2. a \in Uid /\ b \in Uid
      BY <2>3, <1>0, RowIs
    <3>3. j + k + 1 \in Nat /\ New(a, b, j + k + 1)
      BY <3>1 DEF Joined
    <3>4. <<a, b, j + k + 1>> \in H
      BY <3>2, <3>3, <1>1
    <3> QED
      BY <3>2, <3>3, <3>4, <1>2, RowIs
  <2> QED
    BY <2>1, <2>2, <2>3
<1>16. ASSUME p \in N
      PROVE  \A a : a \in Parents(H, u) <=> a = p
  <2>1. p \in Uid /\ <<p, p, 0>> \in P
    BY <1>0, <1>16 DEF Tree
  <2>2. New(p, u, 1)
    BY <1>0, <2>1 DEF Joined
  <2>3. <<p, u, 1>> \in H
    BY <1>0, <2>1, <2>2, <1>1
  <2>4. ASSUME NEW a \in Uid, <<a, u, 1>> \in H PROVE a = p
    <3>1. CASE <<a, u, 1>> \in P
      <4>1. a = u
        BY <3>1, <1>0, <1>3
      <4>2. <<u, u, 1>> \in P
        BY <3>1, <4>1
      <4>3. FALSE
        BY <1>0, <4>2 DEF Tree
      <4> QED
        BY <4>3
    <3>2. CASE New(a, u, 1)
      <4>1. PICK j \in Nat, k \in Nat : <<a, p, j>> \in P /\ 1 = j + k + 1
        BY <3>2 DEF Joined
      <4>2. j = 0
        BY <4>1
      <4> QED
        BY <4>1, <4>2, <2>1 DEF Tree
    <3> QED
      BY <2>4, <3>1, <3>2, <1>0, <1>1
  <2> QED
    <3>1. \A a : a \in Parents(H, u) <=> a \in Uid /\ <<a, u, 1>> \in H
      BY <1>0, <1>2, ParentIs
    <3> QED
      BY <3>1, <2>1, <2>3, <2>4
<1> QED
  BY <1>0, <1>2, <1>8, <1>9, <1>10, <1>11, <1>12, <1>13, <1>14, <1>15, <1>16 DEF Tree, H

LEMMA PrunedTree ==
    ASSUME NEW P, NEW N, Tree(P, N), NEW S,
           \A a, b : a \in S /\ Row(P, a, b) => b \in S
    PROVE  /\ Tree(Pruned(P, S), N \ S)
           /\ \A a, b : Row(Pruned(P, S), a, b) <=> Row(P, a, b) /\ b \notin S
<1> DEFINE C == Pruned(P, S)
<1>0. P \in SUBSET Rows3 /\ C \in SUBSET Rows3 /\ N \in SUBSET Uid
  BY DEF Tree, Pruned
<1>1. \A a, b \in Uid : \A i \in Nat : <<a, b, i>> \in C <=> <<a, b, i>> \in P /\ b \notin S
  BY DEF Pruned
<1>2. \A a, b \in Uid : \A i \in Nat : <<a, b, i>> \in P => Row(P, a, b)
  BY <1>0, RowIs
<1> HIDE DEF C
<1>3. \A a, b \in Uid : \A i \in Nat : <<a, b, i>> \in C => a \notin S
  BY <1>1, <1>2
<1>4. \A a, b \in Uid : \A i \in Nat : <<a, b, i>> \in C => a \in N \ S /\ b \in N \ S
  BY <1>1, <1>3 DEF Tree
<1>5. \A a, b \in Uid : \A i, j \in Nat : <<a, b, i>> \in C /\ <<a, b, j>> \in C => i = j
  BY <1>1 DEF Tree
<1>6. \A u \in N \ S : <<u, u, 0>> \in C
  BY <1>0, <1>1 DEF Tree
<1>7. \A a, b \in Uid : <<a, b, 0>> \in C => a = b
  BY <1>1 DEF Tree
<1>8. \A a, b, c \in Uid : \A i, j \in Nat :
          <<a, b, i>> \in C /\ <<b, c, j>> \in C => <<a, c, i + j>> \in C
  <2> TAKE a, b, c \in Uid, i, j \in Nat
  <2> HAVE <<a, b, i>> \in C /\ <<b, c, j>> \in C
  <2>1. <<a, c, i + j>> \in P /\ i + j \in Nat /\ c \notin S
    BY <1>1 DEF Tree
  <2> QED
    BY <2>1, <1>1
<1>9. \A a, b, c \in Uid : \A i, j \in Nat :
          <<a, c, i>> \in C /\ <<b, c, j>> \in C
             => \E k \in Nat : <<a, b, k>> \in C \/ <<b, a, k>> \in C
  <2> TAKE a, b, c \in Uid, i, j \in Nat
  <2> HAVE <<a, c, i>> \in C /\ <<b, c, j>> \in C
  <2>1. <<a, c, i>> \in P /\ <<b, c, j>> \in P /\ a \notin S /\ b \notin S
    BY <1>1, <1>3
  <2>2. PICK k \in Nat : <<a, b, k>> \in P \/ <<b, a, k>> \in P
    BY <2>1 DEF Tree
  <2> QED
    BY <2>1, <2>2, <1>1
<1>10. \A a, b \in Uid : \A i \in Nat : <<a, b, i>> \in C /\ a # b
          => \E p \in Uid : <<p, b, 1>> \in C /\ i - 1 \in Nat /\ <<a, p, i - 1>> \in C
  <2> TAKE a, b \in Uid, i \in Nat
  <2> HAVE <<a, b, i>> \in C /\ a # b
  <2>1. <<a, b, i>> \in P /\ b \notin S
    BY <1>1
  <2>2. PICK p \in Uid : <<p, b, 1>> \in P /\ i - 1 \in Nat /\ <<a, p, i - 1>> \in P
    BY <2>1 DEF Tree
  <2>3. p \notin S
    BY <2>1, <2>2, <1>2
  <2> QED
    BY <2>1, <2>2, <2>3, <1>1
<1>11. \A a, b : Row(C, a, b) <=> Row(P, a, b) /\ b \notin S
  <2> TAKE a, b
  <2>1. ASSUME Row(C, a, b) PROVE Row(P, a, b) /\ b \notin S
    <3>1. PICK i \in Nat : a \in Uid /\ b \in Uid /\ <<a, b, i>> \in C
      BY <2>1, <1>0, RowIs
    <3> QED
      BY <3>1, <1>1, <1>2
  <2>2. ASSUME Row(P, a, b), b \notin S PROVE Row(C, a, b)
    <3>1. PICK i \in Nat : a \in Uid /\ b \in Uid /\ <<a, b, i>> \in P
      BY <2>2, <1>0, RowIs
    <3>2. <<a, b, i>> \in C
      BY <2>2, <3>1, <1>1
    <3> QED
      BY <3>1, <3>2, <1>0, RowIs
  <2> QED
    BY <2>1, <2>2
<1> QED
  BY <1>0, <1>4, <1>5, <1>6, <1>7, <1>8, <1>9, <1>10, <1>11 DEF Tree, C

\* What insertNewSchema() uses of a schema: who is above whom, and how deep.
Chart(s) ==
    /\ s.nodes \in SUBSET Uid
    /\ s.above \in SUBSET (s.nodes \X s.nodes)
    /\ \A d \in s.nodes : s.level[d] \in Nat
    /\ \A a, d \in s.nodes : <<a, d>> \in s.above =>
          /\ s.level[a] < s.level[d]
          /\ \E p \in s.nodes : <<p, d>> \in s.above /\ s.level[d] = s.level[p] + 1
    /\ \A a, b, d \in s.nodes :
          /\ <<a, b>> \in s.above /\ <<b, d>> \in s.above => <<a, d>> \in s.above
          /\ <<a, d>> \in s.above /\ <<b, d>> \in s.above
                => a = b \/ <<a, b>> \in s.above \/ <<b, a>> \in s.above

LEMMA NoSchemaChart == Chart(NoSchema)
  BY DEF Chart, NoSchema

LEMMA NestedChart ==
    ASSUME NEW N \in SUBSET Uid, NEW s \in Nested(N)
    PROVE  Chart(s) /\ s.root \in s.nodes /\ s.nodes = N
<1>1. /\ s.nodes = N /\ s.root \in N /\ s.above \in SUBSET (N \X N)
      /\ \A d \in N : s.level[d] \in Nat
  BY DEF Nested
<1>2. s.level[s.root] = 0
  BY DEF Nested
<1>3. \A d \in N \ {s.root} :
              /\ <<s.root, d>> \in s.above
              /\ \E p \in N : /\ p = s.root \/ <<p, d>> \in s.above
                              /\ s.level[d] = s.level[p] + 1
  BY DEF Nested
<1>4. \A a, d \in N : <<a, d>> \in s.above => s.level[a] < s.level[d]
  BY DEF Nested
<1>5. \A a, b, d \in N :
              /\ <<a, b>> \in s.above /\ <<b, d>> \in s.above => <<a, d>> \in s.above
              /\ <<a, d>> \in s.above /\ <<b, d>> \in s.above
                    => a = b \/ <<a, b>> \in s.above \/ <<b, a>> \in s.above
  BY DEF Nested
<1>6. ASSUME NEW a \in N, NEW d \in N, <<a, d>> \in s.above
      PROVE  \E p \in N : <<p, d>> \in s.above /\ s.level[d] = s.level[p] + 1
  <2>1. d # s.root
    BY <1>1, <1>2, <1>4, <1>6
  <2> QED
    BY <1>3, <2>1
<1> QED
  BY <1>1, <1>4, <1>5, <1>6 DEF Chart

\* What a new schema is made of.
LEMMA NewSchemaParts ==
    ASSUME NEW s \in NewSchemas
    PROVE  \E N \in SUBSET Uid : \E t \in Nested(N) :
              /\ IsFiniteSet(N) /\ Cardinality(N) \in 1..MaxNew
              /\ s.nodes = t.nodes /\ s.root = t.root /\ s.above = t.above /\ s.level = t.level
              /\ s.key \in Keys(t) /\ s.place \in Places(t, s.key)
<1> DEFINE Sizes == {N \in SUBSET Uid : IsFiniteSet(N) /\ Cardinality(N) \in 1..MaxNew}
           Trees == UNION {Nested(N) : N \in Sizes}
           Keyed == UNION {{<<t, k>> : k \in Keys(t)} : t \in Trees}
           Made(sk, o) == [nodes |-> sk[1].nodes, root |-> sk[1].root, above |-> sk[1].above,
                           level |-> sk[1].level, key |-> sk[2], place |-> o]
<1>1. NewSchemas = UNION {{Made(sk, o) : o \in Places(sk[1], sk[2])} : sk \in Keyed}
  BY DEF NewSchemas
<1>2. PICK sk \in Keyed : \E o \in Places(sk[1], sk[2]) : s = Made(sk, o)
  <2> HIDE DEF Keyed, Made
  <2> QED
    BY <1>1
<1>3. PICK o \in Places(sk[1], sk[2]) : s = Made(sk, o)
  BY <1>2
<1>4. PICK t \in Trees : \E k \in Keys(t) : sk = <<t, k>>
  <2> HIDE DEF Trees
  <2> QED
    BY <1>2
<1>5. PICK k \in Keys(t) : sk = <<t, k>>
  BY <1>4
<1>6. PICK N \in SUBSET Uid :
          IsFiniteSet(N) /\ Cardinality(N) \in 1..MaxNew /\ t \in Nested(N)
  BY <1>4
<1>7. /\ s.nodes = t.nodes /\ s.root = t.root /\ s.above = t.above /\ s.level = t.level
      /\ s.key = k /\ s.place = o
  BY <1>3, <1>5
<1>8. o \in Places(t, k)
  BY <1>3, <1>5
<1> QED
  BY <1>5, <1>6, <1>7, <1>8

LEMMA NewSchemaChart ==
    ASSUME NEW s \in NewSchemas
    PROVE  Chart(s) /\ s.root \in s.nodes
<1>0. PICK N \in SUBSET Uid : \E t \in Nested(N) :
          s.nodes = t.nodes /\ s.root = t.root /\ s.above = t.above /\ s.level = t.level
  BY NewSchemaParts
<1>1. PICK t \in Nested(N) :
          s.nodes = t.nodes /\ s.root = t.root /\ s.above = t.above /\ s.level = t.level
  BY <1>0
<1>2. Chart(t) /\ t.root \in t.nodes
  BY NestedChart
<1> QED
  BY <1>1, <1>2 DEF Chart

\* the row of a and b is one of a new schema
Charted(s, a, b, i) ==
    /\ a \in s.nodes /\ b \in s.nodes
    /\ (a = b /\ i = 0) \/ (<<a, b>> \in s.above /\ i = s.level[b] - s.level[a])

LEMMA WithNewRows ==
    ASSUME NEW P \in SUBSET Rows3, NEW s, Chart(s),
           NEW a \in Uid, NEW b \in Uid, NEW i \in Nat
    PROVE  /\ WithNew(P, s) \in SUBSET Rows3
           /\ <<a, b, i>> \in WithNew(P, s) <=> <<a, b, i>> \in P \/ Charted(s, a, b, i)
<1> DEFINE Own == {<<u, u, 0>> : u \in s.nodes}
           New == {<<r[1], r[2], s.level[r[2]] - s.level[r[1]]>> : r \in s.above}
<1>1. WithNew(P, s) = P \cup Own \cup New
  BY DEF WithNew
<1>2. Own \in SUBSET Rows3
  BY DEF Chart, Rows3
<1>3. \A r \in s.above : /\ r = <<r[1], r[2]>> /\ r[1] \in s.nodes /\ r[2] \in s.nodes
                         /\ s.level[r[2]] - s.level[r[1]] \in Nat
  BY DEF Chart
<1>4. New \in SUBSET Rows3
  BY <1>3 DEF Chart, Rows3
<1>5. <<a, b, i>> \in Own <=> a = b /\ a \in s.nodes /\ i = 0
  OBVIOUS
<1>6. <<a, b, i>> \in New <=> <<a, b>> \in s.above /\ i = s.level[b] - s.level[a]
  <2>1. ASSUME <<a, b, i>> \in New
        PROVE  <<a, b>> \in s.above /\ i = s.level[b] - s.level[a]
    <3>1. PICK r \in s.above : <<a, b, i>> = <<r[1], r[2], s.level[r[2]] - s.level[r[1]]>>
      BY <2>1
    <3>2. a = r[1] /\ b = r[2] /\ i = s.level[r[2]] - s.level[r[1]]
      BY <3>1
    <3> QED
      BY <3>2, <1>3
  <2>2. ASSUME <<a, b>> \in s.above, i = s.level[b] - s.level[a]
        PROVE  <<a, b, i>> \in New
    <3> DEFINE r == <<a, b>>
    <3>1. r \in s.above /\ r[1] = a /\ r[2] = b
      BY <2>2
    <3>2. <<r[1], r[2], s.level[r[2]] - s.level[r[1]]>> \in New
      BY <3>1
    <3> QED
      BY <2>2, <3>1, <3>2
  <2> QED
    BY <2>1, <2>2
<1>7. <<a, b>> \in s.above => a \in s.nodes /\ b \in s.nodes
  BY DEF Chart
<1> HIDE DEF Own, New
<1> QED
  BY <1>1, <1>2, <1>4, <1>5, <1>6, <1>7 DEF Charted

LEMMA WithNewTree ==
    ASSUME NEW P, NEW N, Tree(P, N), NEW s, Chart(s), s.nodes \cap N = {}
    PROVE  /\ Tree(WithNew(P, s), N \cup s.nodes)
           /\ \A a, b : Row(WithNew(P, s), a, b) <=>
                 \/ Row(P, a, b)
                 \/ a \in s.nodes /\ b \in s.nodes /\ (a = b \/ <<a, b>> \in s.above)
<1> DEFINE W == WithNew(P, s)
           New(a, b, i) == Charted(s, a, b, i)
<1>0. P \in SUBSET Rows3 /\ N \in SUBSET Uid /\ s.nodes \in SUBSET Uid
  BY DEF Tree, Chart
<1>1. W \in SUBSET Rows3
  <2>1. W = P \/ \E a \in Uid : TRUE
    BY <1>0 DEF WithNew, Chart
  <2>2. CASE \E a \in Uid : TRUE
    BY <1>0, <2>2, 0 \in Nat, WithNewRows
  <2> QED
    BY <1>0, <2>1, <2>2
<1>2. \A a, b \in Uid : \A i \in Nat : <<a, b, i>> \in W <=> <<a, b, i>> \in P \/ New(a, b, i)
  BY <1>0, WithNewRows
<1>3. \A a, b \in Uid : \A i \in Nat : <<a, b, i>> \in P => a \in N /\ b \in N
  BY DEF Tree
<1>4. \A a, b, i : New(a, b, i) => a \notin N /\ b \notin N
  BY DEF Charted
<1> HIDE DEF W
<1>5. \A a, b \in Uid : \A i \in Nat : <<a, b, i>> \in W =>
          a \in N \cup s.nodes /\ b \in N \cup s.nodes
  BY <1>2, <1>3 DEF Charted
<1>6. \A a, b \in Uid : \A i, j \in Nat : <<a, b, i>> \in W /\ <<a, b, j>> \in W => i = j
  <2> TAKE a, b \in Uid, i, j \in Nat
  <2> HAVE <<a, b, i>> \in W /\ <<a, b, j>> \in W
  <2>1. CASE <<a, b, i>> \in P /\ <<a, b, j>> \in P
    BY <2>1 DEF Tree
  <2>2. CASE New(a, b, i) /\ New(a, b, j)
    BY <2>2 DEF Charted, Chart
  <2> QED
    BY <2>1, <2>2, <1>2, <1>3, <1>4
<1>7. \A u \in N \cup s.nodes : <<u, u, 0>> \in W
  BY <1>0, <1>2 DEF Tree, Charted
<1>8. \A a, b \in Uid : <<a, b, 0>> \in W => a = b
  <2> TAKE a, b \in Uid
  <2>1. New(a, b, 0) => a = b
    BY DEF Charted, Chart
  <2> QED
    BY <2>1, <1>2 DEF Tree
<1>9. \A a, b, c \in Uid : \A i, j \in Nat :
          <<a, b, i>> \in W /\ <<b, c, j>> \in W => <<a, c, i + j>> \in W
  <2> TAKE a, b, c \in Uid, i, j \in Nat
  <2> HAVE <<a, b, i>> \in W /\ <<b, c, j>> \in W
  <2>0. i + j \in Nat
    OBVIOUS
  <2>1. CASE <<a, b, i>> \in P /\ <<b, c, j>> \in P
    BY <2>0, <2>1, <1>2 DEF Tree
  <2>2. CASE New(a, b, i) /\ New(b, c, j)
    <3>1. New(a, c, i + j)
      <4>1. /\ a \in s.nodes /\ b \in s.nodes /\ c \in s.nodes
            /\ s.level[a] \in Nat /\ s.level[b] \in Nat /\ s.level[c] \in Nat
        BY <2>2 DEF Charted, Chart
      <4>2. CASE a = b /\ i = 0
        BY <2>2, <4>2 DEF Charted
      <4>3. CASE b = c /\ j = 0
        BY <2>2, <4>3 DEF Charted
      <4>4. CASE <<a, b>> \in s.above /\ <<b, c>> \in s.above
        <5>1. <<a, c>> \in s.above
          BY <4>1, <4>4 DEF Chart
        <5>2. i + j = s.level[c] - s.level[a]
          <6>1. a # b /\ b # c
            BY <4>1, <4>4 DEF Chart
          <6>2. i = s.level[b] - s.level[a] /\ j = s.level[c] - s.level[b]
            BY <2>2, <6>1 DEF Charted
          <6> QED
            BY <6>2, <4>1
        <5> QED
          BY <4>1, <5>1, <5>2 DEF Charted
      <4> QED
        BY <2>2, <4>2, <4>3, <4>4 DEF Charted
    <3> QED
      BY <2>0, <3>1, <1>2
  <2> QED
    BY <2>1, <2>2, <1>2, <1>3, <1>4
<1>10. \A a, b, c \in Uid : \A i, j \in Nat :
          <<a, c, i>> \in W /\ <<b, c, j>> \in W
             => \E k \in Nat : <<a, b, k>> \in W \/ <<b, a, k>> \in W
  <2>1. ASSUME NEW a \in s.nodes, NEW b \in s.nodes, <<a, b>> \in s.above
        PROVE  \E k \in Nat : <<a, b, k>> \in W
    <3>1. s.level[b] - s.level[a] \in Nat
      BY <2>1 DEF Chart
    <3>2. New(a, b, s.level[b] - s.level[a])
      BY <2>1 DEF Charted
    <3> QED
      BY <1>0, <1>2, <3>1, <3>2
  <2>2. \A a \in s.nodes : <<a, a, 0>> \in W
    BY <1>7
  <2> TAKE a, b, c \in Uid, i, j \in Nat
  <2> HAVE <<a, c, i>> \in W /\ <<b, c, j>> \in W
  <2>3. CASE <<a, c, i>> \in P /\ <<b, c, j>> \in P
    <3>1. PICK k \in Nat : <<a, b, k>> \in P \/ <<b, a, k>> \in P
      BY <2>3 DEF Tree
    <3> QED
      BY <3>1, <1>2
  <2>4. CASE New(a, c, i) /\ New(b, c, j)
    <3>1. a \in s.nodes /\ b \in s.nodes /\ c \in s.nodes
      BY <2>4 DEF Charted
    <3>2. a = b \/ <<a, b>> \in s.above \/ <<b, a>> \in s.above
      BY <2>4, <3>1 DEF Charted, Chart
    <3> QED
      BY <2>1, <2>2, <3>1, <3>2
  <2> QED
    BY <2>3, <2>4, <1>2, <1>3, <1>4
<1>11. \A a, b \in Uid : \A i \in Nat : <<a, b, i>> \in W /\ a # b
          => \E p \in Uid : <<p, b, 1>> \in W /\ i - 1 \in Nat /\ <<a, p, i - 1>> \in W
  <2> TAKE a, b \in Uid, i \in Nat
  <2> HAVE <<a, b, i>> \in W /\ a # b
  <2>1. CASE <<a, b, i>> \in P
    <3>1. PICK p \in Uid : <<p, b, 1>> \in P /\ i - 1 \in Nat /\ <<a, p, i - 1>> \in P
      BY <2>1 DEF Tree
    <3> QED
      BY <3>1, <1>2
  <2>2. CASE New(a, b, i)
    <3>1. a \in s.nodes /\ b \in s.nodes /\ <<a, b>> \in s.above /\ i = s.level[b] - s.level[a]
      BY <2>2 DEF Charted
    <3>2. PICK p \in s.nodes : <<p, b>> \in s.above /\ s.level[b] = s.level[p] + 1
      BY <3>1 DEF Chart
    <3>3. s.level[a] \in Nat /\ s.level[b] \in Nat /\ s.level[p] \in Nat
      BY <3>1 DEF Chart
    <3>4. New(p, b, 1)
      BY <3>1, <3>2, <3>3 DEF Charted
    <3>5. a = p \/ <<a, p>> \in s.above
      <4>1. a = p \/ <<a, p>> \in s.above \/ <<p, a>> \in s.above
        BY <3>1, <3>2 DEF Chart
      <4>2. <<p, a>> \in s.above => s.level[p] < s.level[a]
        BY <3>1 DEF Chart
      <4>3. s.level[a] < s.level[b]
        BY <3>1 DEF Chart
      <4> QED
        BY <4>1, <4>2, <4>3, <3>2, <3>3
    <3>6. i - 1 = s.level[p] - s.level[a] /\ i - 1 \in Nat
      <4>1. s.level[a] < s.level[b]
        BY <3>1 DEF Chart
      <4> QED
        BY <4>1, <3>1, <3>2, <3>3
    <3>7. New(a, p, i - 1)
      BY <3>1, <3>3, <3>5, <3>6 DEF Charted
    <3> QED
      BY <1>0, <3>4, <3>6, <3>7, <1>2
  <2> QED
    BY <2>1, <2>2, <1>2
<1>12. \A a, b : Row(W, a, b) <=>
                 \/ Row(P, a, b)
                 \/ a \in s.nodes /\ b \in s.nodes /\ (a = b \/ <<a, b>> \in s.above)
  <2> TAKE a, b
  <2>1. ASSUME Row(W, a, b)
        PROVE  Row(P, a, b) \/ (a \in s.nodes /\ b \in s.nodes /\ (a = b \/ <<a, b>> \in s.above))
    <3>1. PICK i \in Nat : a \in Uid /\ b \in Uid /\ <<a, b, i>> \in W
      BY <2>1, <1>1, RowIs
    <3>2. <<a, b, i>> \in P => Row(P, a, b)
      BY <3>1, <1>0, RowIs
    <3> QED
      BY <3>1, <3>2, <1>2 DEF Charted
  <2>2. ASSUME Row(P, a, b) PROVE Row(W, a, b)
    <3>1. PICK i \in Nat : a \in Uid /\ b \in Uid /\ <<a, b, i>> \in P
      BY <2>2, <1>0, RowIs
    <3>2. <<a, b, i>> \in W
      BY <3>1, <1>2
    <3> QED
      BY <3>1, <3>2, <1>1, RowIs
  <2>3. ASSUME a \in s.nodes, b \in s.nodes, a = b \/ <<a, b>> \in s.above
        PROVE  Row(W, a, b)
    <3>1. CASE a = b
      BY <2>3, <3>1, <1>0, <1>7, <1>1, RowIs
    <3>2. CASE <<a, b>> \in s.above
      <4>1. s.level[b] - s.level[a] \in Nat
        BY <2>3, <3>2 DEF Chart
      <4>2. New(a, b, s.level[b] - s.level[a])
        BY <2>3, <3>2 DEF Charted
      <4>3. a \in Uid /\ b \in Uid /\ <<a, b, s.level[b] - s.level[a]>> \in W
        BY <2>3, <1>0, <1>2, <4>1, <4>2
      <4> QED
        BY <1>1, <4>1, <4>3, RowIs
    <3> QED
      BY <2>3, <3>1, <3>2
  <2> QED
    BY <2>1, <2>2, <2>3
<1>13. N \cup s.nodes \in SUBSET Uid
  BY <1>0
<1> QED
  BY <1>1, <1>5, <1>6, <1>7, <1>8, <1>9, <1>10, <1>11, <1>12, <1>13 DEF Tree, W

-----------------------------------------------------------------------------
(* The bottom of a wrap *)

LEMMA LeastNat ==
    ASSUME NEW T \in SUBSET Nat, T # {}
    PROVE  \E x \in T : \A y \in T : x <= y
<1> DEFINE S == {0..n : n \in T}
<1>1. IsWellFoundedOn(StrictSubsetOrdering(Nat), FiniteSubsetsOf(Nat))
  BY FS_StrictSubsetOrderingWellFounded
<1>2. S \subseteq FiniteSubsetsOf(Nat)
  <2> SUFFICES ASSUME NEW n \in T
               PROVE  0..n \in FiniteSubsetsOf(Nat)
    OBVIOUS
  <2>1. n \in Int /\ 0 \in Int /\ 0..n \in SUBSET Nat
    OBVIOUS
  <2>2. IsFiniteSet(0..n)
    BY <2>1, FS_Interval
  <2> QED
    BY <2>1, <2>2 DEF FiniteSubsetsOf
<1>3. S # {}
  OBVIOUS
<1>4. PICK X \in S : \A Y \in S : <<Y, X>> \notin StrictSubsetOrdering(Nat)
  <2> HIDE DEF S
  <2> QED
    BY <1>1, <1>2, <1>3, WFMin
<1>5. PICK x \in T : X = 0..x
  OBVIOUS
<1>6. ASSUME NEW y \in T, y < x
      PROVE  FALSE
  <2> DEFINE Y == 0..y
  <2>1. x \in X /\ x \notin Y
    BY <1>5, <1>6
  <2>2. Y \in S /\ Y \in SUBSET Nat /\ X \in SUBSET Nat /\ Y \subseteq X /\ Y # X
    BY <1>5, <1>6, <2>1
  <2> HIDE DEF Y
  <2>3. <<Y, X>> \in StrictSubsetOrdering(Nat)
    BY <2>2 DEF StrictSubsetOrdering
  <2> QED
    BY <1>4, <2>2, <2>3
<1> QED
  BY <1>6

\* The deepest node of a new schema exists: its levels are bounded.
LEMMA BottomIsNode ==
    ASSUME NEW s \in NewSchemas
    PROVE  Bottom(s) \in s.nodes
<1>0. PICK N \in SUBSET Uid : \E t \in Nested(N) :
          /\ Cardinality(N) \in 1..MaxNew
          /\ s.nodes = t.nodes /\ s.level = t.level
  BY NewSchemaParts
<1>1. PICK t \in Nested(N) :
          /\ Cardinality(N) \in 1..MaxNew
          /\ s.nodes = t.nodes /\ s.level = t.level
  BY <1>0
<1> DEFINE top == Cardinality(N) - 1
           Lack(d) == top - s.level[d]
           D == {Lack(d) : d \in N}
<1>2. top \in Int /\ t.nodes = N /\ t.root \in N /\ t.level \in [N -> 0..top]
  BY <1>1 DEF Nested
<1>3. \A d \in N : s.level[d] \in Nat /\ Lack(d) \in Nat
  BY <1>1, <1>2
<1>4. D \in SUBSET Nat /\ D # {}
  BY <1>2, <1>3
<1>5. PICK x \in D : \A y \in D : x <= y
  <2> HIDE DEF D
  <2> QED
    BY <1>4, LeastNat
<1>6. PICK d \in N : x = Lack(d)
  OBVIOUS
<1>7. \A c \in N : s.level[c] <= s.level[d]
  <2> TAKE c \in N
  <2>1. Lack(d) <= Lack(c)
    BY <1>5, <1>6
  <2> QED
    BY <2>1, <1>2, <1>3
<1> QED
  BY <1>1, <1>2, <1>7 DEF Bottom

-----------------------------------------------------------------------------
(* What an operation does to it *)

LEMMA GrownTree ==
    ASSUME NEW T, NEW N, Tree(T.path, N), NEW s, Chart(s), s.nodes \cap N = {}
    PROVE  /\ Tree(Grown(T, s).path, N \cup s.nodes)
           /\ \A a, b : Row(Grown(T, s).path, a, b) <=>
                 \/ Row(T.path, a, b)
                 \/ a \in s.nodes /\ b \in s.nodes /\ (a = b \/ <<a, b>> \in s.above)
<1>1. Grown(T, s).path = WithNew(T.path, s)
  BY DEF Grown
<1> QED
  BY <1>1, WithNewTree

\* A node that is not above the place it is put at leaves a forest, with
\* nothing else above the nodes under it than the place.
LEMMA PlacedTree ==
    ASSUME NEW T, NEW N, Tree(T.path, N), NEW u \in N, NEW pos, NEW t,
           ~ Row(T.path, u, ParentAt(T, pos, t))
    PROVE  /\ Tree(Placed(T, u, pos, t).path, N)
           /\ \A a, b : Row(Placed(T, u, pos, t).path, a, b) =>
                 \/ Row(T.path, a, b)
                 \/ Row(T.path, a, ParentAt(T, pos, t)) /\ Row(T.path, u, b)
<1> DEFINE p == ParentAt(T, pos, t)
           C == Cut(T.path, u)
<1>1. Placed(T, u, pos, t).path = Hung(C, u, p)
  BY DEF Placed, Moved
<1>2. u \in Uid
  BY DEF Tree
<1>3. /\ Tree(C, N)
      /\ \A a \in Uid : Row(C, a, u) => a = u
      /\ \A a, b : Row(C, a, b) => Row(T.path, a, b)
  BY <1>2, CutTree
<1>4. ~ Row(C, u, p)
  BY <1>3
<1> HIDE DEF C, p
<1>5. /\ Tree(Hung(C, u, p), N)
      /\ \A a, b : Row(Hung(C, u, p), a, b) <=>
                      Row(C, a, b) \/ (Row(C, a, p) /\ Row(C, u, b))
  BY <1>3, <1>4, HungTree
<1> QED
  BY <1>1, <1>3, <1>5 DEF p

LEMMA DroppedTree ==
    ASSUME NEW T, NEW N, Tree(T.path, N), NEW S,
           \A a, b : a \in S /\ Row(T.path, a, b) => b \in S
    PROVE  Tree(Dropped(T, S).path, N \ S)
<1>1. Dropped(T, S).path = Pruned(T.path, S)
  BY DEF Dropped
<1> QED
  BY <1>1, PrunedTree

\* What recursivelyRemoveIfNoChildren() removes takes what is under it along.
LEMMA EmptiedDown ==
    ASSUME NEW P, NEW N, Tree(P, N), NEW left, NEW break, NEW a, NEW b, Row(P, a, b),
           a \in UNION {Emptied(P, o, break) : o \in left}
    PROVE  b \in UNION {Emptied(P, o, break) : o \in left}
<1>0. P \in SUBSET Rows3
  BY DEF Tree
<1>1. PICK o \in left : a \in Emptied(P, o, break)
  OBVIOUS
<1>2. b \in Path(P, o)
  BY <1>0, <1>1, ReachedIs DEF Emptied
<1>3. Under(P, b) \subseteq Path(P, o)
  <2> SUFFICES ASSUME NEW c \in Under(P, b)
               PROVE  c \in Path(P, o)
    OBVIOUS
  <2>1. Row(P, b, c)
    BY <1>0, ReachedIs
  <2>2. Row(P, a, c)
    BY <2>1, RowTrans
  <2>3. c \in Under(P, a)
    BY <1>0, <2>2, ReachedIs
  <2> QED
    BY <1>1, <2>3 DEF Emptied
<1>4. \A c \in (break \cap Path(P, o)) : ~ Row(P, b, c)
  <2> SUFFICES ASSUME NEW c \in (break \cap Path(P, o)), Row(P, b, c)
               PROVE  FALSE
    OBVIOUS
  <2>1. Row(P, a, c)
    BY RowTrans
  <2> QED
    BY <1>1, <2>1 DEF Emptied
<1>5. b \in Emptied(P, o, break)
  BY <1>2, <1>3, <1>4 DEF Emptied
<1> QED
  BY <1>5

\* So does remove() with removeParentsIfNoChildren.
LEMMA SingleDown ==
    ASSUME NEW P, NEW N, Tree(P, N), NEW u \in N, NEW break, NEW a, NEW b, Row(P, a, b),
           a \in Under(P, u) \cup Single(P, u, break)
    PROVE  b \in Under(P, u) \cup Single(P, u, break)
<1>0. P \in SUBSET Rows3
  BY DEF Tree
<1>1. CASE a \in Under(P, u)
  <2>1. Row(P, u, a)
    BY <1>0, <1>1, ReachedIs
  <2>2. Row(P, u, b)
    BY <2>1, RowTrans
  <2> QED
    BY <1>0, <2>2, ReachedIs
<1>2. CASE a \in Single(P, u, break)
  <2>1. b \in Path(P, u) \cup Under(P, u)
    BY <1>0, <1>2, ReachedIs DEF Single
  <2>2. Row(P, u, u)
    BY OwnRow
  <2>3. CASE b \in Path(P, u) \ {u}
    <3>1. Under(P, b) \subseteq Path(P, u) \cup Under(P, u)
      <4> SUFFICES ASSUME NEW c \in Under(P, b)
                   PROVE  c \in Path(P, u) \cup Under(P, u)
        OBVIOUS
      <4>1. Row(P, b, c)
        BY <1>0, ReachedIs
      <4>2. Row(P, a, c)
        BY <4>1, RowTrans
      <4>3. c \in Under(P, a)
        BY <1>0, <4>2, ReachedIs
      <4> QED
        BY <1>2, <4>3 DEF Single
    <3>2. \A c \in (break \cap Path(P, u)) \ {u} : ~ Row(P, b, c)
      <4> SUFFICES ASSUME NEW c \in (break \cap Path(P, u)) \ {u}, Row(P, b, c)
                   PROVE  FALSE
        OBVIOUS
      <4>1. Row(P, a, c)
        BY RowTrans
      <4> QED
        BY <1>2, <4>1 DEF Single
    <3> QED
      BY <2>3, <3>1, <3>2 DEF Single
  <2>4. CASE b = u
    BY <1>0, <2>2, <2>4, ReachedIs
  <2> QED
    BY <2>1, <2>3, <2>4
<1> QED
  BY <1>1, <1>2

\* Among nodes of a finite forest, one is under none of the others.
LEMMA Topmost ==
    ASSUME NEW P, NEW N, Tree(P, N), IsFiniteSet(N), NEW S \in SUBSET N, S # {}
    PROVE  \E u \in S : \A p \in S : Row(P, p, u) => p = u
<1> DEFINE X == {Path(P, u) : u \in S}
<1>0. P \in SUBSET Rows3 /\ N \in SUBSET Uid
  BY DEF Tree
<1>1. IsWellFoundedOn(StrictSubsetOrdering(N), FiniteSubsetsOf(N))
  BY FS_StrictSubsetOrderingWellFounded
<1>2. X \subseteq FiniteSubsetsOf(N)
  <2> SUFFICES ASSUME NEW u \in S
               PROVE  Path(P, u) \in FiniteSubsetsOf(N)
    OBVIOUS
  <2>1. \A a \in Path(P, u) : a \in N
    BY <1>0, ReachedIs, RowNodes
  <2>2. IsFiniteSet(Path(P, u))
    BY <2>1, FS_Subset
  <2> QED
    BY <2>1, <2>2 DEF FiniteSubsetsOf
<1>3. X # {}
  OBVIOUS
<1>4. PICK A \in X : \A B \in X : <<B, A>> \notin StrictSubsetOrdering(N)
  <2> HIDE DEF X
  <2> QED
    BY <1>1, <1>2, <1>3, WFMin
<1>5. PICK u \in S : A = Path(P, u)
  OBVIOUS
<1>6. ASSUME NEW p \in S, Row(P, p, u), p # u
      PROVE  FALSE
  <2> DEFINE B == Path(P, p)
  <2>1. B \in X
    OBVIOUS
  <2>2. A \in SUBSET N /\ B \in SUBSET N
    BY <1>2, <2>1 DEF FiniteSubsetsOf
  <2>3. B \subseteq A
    <3> SUFFICES ASSUME NEW a \in B
                 PROVE  a \in A
      OBVIOUS
    <3>1. Row(P, a, p)
      BY <1>0, ReachedIs
    <3>2. Row(P, a, u)
      BY <1>6, <3>1, RowTrans
    <3> QED
      BY <1>0, <1>5, <3>2, ReachedIs
  <2>4. u \in A
    <3>1. Row(P, u, u)
      BY OwnRow
    <3> QED
      BY <1>0, <1>5, <3>1, ReachedIs
  <2>5. u \notin B
    <3> SUFFICES ASSUME u \in B
                 PROVE  FALSE
      OBVIOUS
    <3>1. Row(P, u, p)
      BY <1>0, ReachedIs
    <3>2. u \in Uid /\ p \in Uid
      BY <1>0
    <3> QED
      BY <1>6, <3>1, <3>2, NoWayBack
  <2> HIDE DEF B
  <2>6. <<B, A>> \in StrictSubsetOrdering(N)
    BY <2>2, <2>3, <2>4, <2>5 DEF StrictSubsetOrdering
  <2> QED
    BY <1>4, <2>1, <2>6
<1> QED
  BY <1>6

\* remove() takes one subtree away: that of the topmost of the parents it
\* removes, or of the node itself.
LEMMA RemovedSubtree ==
    ASSUME NEW P, NEW N, Tree(P, N), IsFiniteSet(N), NEW u \in N, NEW parents, NEW break
    PROVE  \E t \in N : Under(P, u) \cup (IF parents THEN Single(P, u, break) ELSE {}) = Under(P, t)
<1> DEFINE single == IF parents THEN Single(P, u, break) ELSE {}
           gone == Under(P, u) \cup single
<1>0. P \in SUBSET Rows3 /\ N \in SUBSET Uid
  BY DEF Tree
<1> SUFFICES \E t \in N : gone = Under(P, t)
  OBVIOUS
<1>1. CASE single = {}
  BY <1>1
<1>2. CASE single # {}
  <2>0. single = Single(P, u, break)
    BY <1>2
  <2>1. \A e \in single : Row(P, e, u) /\ e \in N
    <3> TAKE e \in single
    <3>1. Row(P, e, u)
      BY <1>0, <2>0, ReachedIs DEF Single
    <3> QED
      BY <3>1, RowNodes
  <2>2. PICK t \in single : \A e \in single : Row(P, e, t) => e = t
    <3>1. single \in SUBSET N
      BY <2>1
    <3> HIDE DEF single
    <3> QED
      BY <1>2, <3>1, Topmost
  <2>3. Row(P, t, u) /\ t \in N
    BY <2>1
  <2>4. ASSUME NEW d \in gone
        PROVE  d \in Under(P, t)
    <3>1. CASE d \in Under(P, u)
      <4>1. Row(P, u, d)
        BY <1>0, <3>1, ReachedIs
      <4>2. Row(P, t, d)
        BY <2>3, <4>1, RowTrans
      <4> QED
        BY <1>0, <4>2, ReachedIs
    <3>2. CASE d \in single
      <4>1. Row(P, d, t) \/ Row(P, t, d)
        BY <2>1, <2>3, <3>2, RowLine
      <4>2. Row(P, t, t)
        BY <2>3, OwnRow
      <4>3. Row(P, t, d)
        BY <2>2, <3>2, <4>1, <4>2
      <4> QED
        BY <1>0, <4>3, ReachedIs
    <3> QED
      BY <2>4, <3>1, <3>2
  <2>5. ASSUME NEW d \in Under(P, t)
        PROVE  d \in gone
    <3>1. Row(P, t, d)
      BY <1>0, ReachedIs
    <3>2. d \in Under(P, u) \cup Single(P, u, break)
      BY <2>0, <2>2, <3>1, SingleDown
    <3> QED
      BY <2>0, <3>2
  <2>6. gone = Under(P, t)
    BY <2>4, <2>5
  <2> QED
    BY <2>3, <2>6
<1> QED
  BY <1>1, <1>2

\* A requested schema is new, or there is none; its root is there with it.
LEMMA RequestedChart ==
    ASSUME NEW su \in Requested
    PROVE  /\ Chart(su[1])
           /\ su[1].nodes \cap schemas = {}
           /\ su[2] \in schemas \cup su[1].nodes
<1>1. CASE \E s \in NewSchemas : s.nodes \cap schemas = {} /\ su = <<s, s.root>>
  <2>1. PICK s \in NewSchemas : s.nodes \cap schemas = {} /\ su = <<s, s.root>>
    BY <1>1
  <2>2. su[1] = s /\ su[2] = s.root
    BY <2>1
  <2> QED
    BY <2>1, <2>2, NewSchemaChart
<1>2. CASE \E u \in schemas : su = <<NoSchema, u>>
  <2>1. PICK u \in schemas : su = <<NoSchema, u>>
    BY <1>2
  <2>2. su[1] = NoSchema /\ su[2] = u /\ NoSchema.nodes = {}
    BY <2>1 DEF NoSchema
  <2> QED
    BY <2>2, NoSchemaChart
<1> QED
  BY <1>1, <1>2 DEF Requested

-----------------------------------------------------------------------------
(* Whose parents an operation leaves *)

LEMMA GrownParents ==
    ASSUME NEW T, NEW N, Tree(T.path, N), NEW s, Chart(s), s.nodes \cap N = {}, NEW d \in N
    PROVE  Parents(Grown(T, s).path, d) = Parents(T.path, d)
<1> DEFINE P == T.path
           W == WithNew(P, s)
<1>0. P \in SUBSET Rows3 /\ N \in SUBSET Uid /\ d \in Uid /\ d \notin s.nodes
  BY DEF Tree
<1>1. W \in SUBSET Rows3
  BY <1>0, 0 \in Nat, WithNewRows
<1>2. \A p \in Uid : <<p, d, 1>> \in W <=> <<p, d, 1>> \in P
  BY <1>0, WithNewRows DEF Charted
<1> HIDE DEF W
<1>3. \A p : p \in Parents(W, d) <=> p \in Parents(P, d)
  BY <1>0, <1>1, <1>2, ParentIs DEF P
<1>4. Parents(W, d) = Parents(P, d)
  BY <1>3
<1> QED
  BY <1>4 DEF P, W, Grown

LEMMA CutParents ==
    ASSUME NEW P, NEW N, Tree(P, N), NEW u \in N, NEW d \in N, d # u
    PROVE  Parents(Cut(P, u), d) = Parents(P, d)
<1> DEFINE C == Cut(P, u)
<1>0. P \in SUBSET Rows3 /\ C \in SUBSET Rows3 /\ d \in Uid /\ u \in Uid
  BY DEF Tree, Cut
<1>1. ASSUME NEW p \in Uid, <<p, d, 1>> \in P
      PROVE  <<p, d, 1>> \in C
  <2>1. ASSUME p # u, Row(P, p, u), Row(P, u, d)
        PROVE  FALSE
    <3>1. PICK i \in Nat, j \in Nat : <<p, u, i>> \in P /\ <<u, d, j>> \in P
      BY <1>0, <2>1, RowIs
    <3>2. <<p, d, i + j>> \in P /\ i + j \in Nat
      BY <1>0, <3>1 DEF Tree
    <3>3. i + j = 1
      BY <1>0, <1>1, <3>2 DEF Tree
    <3>4. i # 0 /\ j # 0
      BY <1>0, <2>1, <3>1 DEF Tree
    <3> QED
      BY <3>3, <3>4
  <2> QED
    BY <1>0, <1>1, <2>1, CutRows
<1>2. \A p \in Uid : <<p, d, 1>> \in C => <<p, d, 1>> \in P
  BY DEF Cut
<1> HIDE DEF C
<1>3. \A p : p \in Parents(C, d) <=> p \in Parents(P, d)
  BY <1>0, <1>1, <1>2, ParentIs
<1>4. Parents(C, d) = Parents(P, d)
  BY <1>3
<1> QED
  BY <1>4 DEF C

LEMMA PlacedParents ==
    ASSUME NEW T, NEW N, Tree(T.path, N), NEW u \in N, NEW pos, NEW t, NEW d \in N, d # u
    PROVE  Parents(Placed(T, u, pos, t).path, d) = Parents(T.path, d)
<1> DEFINE C == Cut(T.path, u)
           H == Hung(C, u, ParentAt(T, pos, t))
<1>0. d \in Uid /\ u \in Uid
  BY DEF Tree
<1>1. Tree(C, N) /\ C \in SUBSET Rows3
  BY <1>0, CutTree DEF Tree
<1>2. H \in SUBSET Rows3
  BY <1>0, <1>1, 0 \in Nat, HungRows
<1>3. ASSUME NEW p \in Uid, <<p, d, 1>> \in H
      PROVE  <<p, d, 1>> \in C
  <2> SUFFICES ASSUME Joined(C, u, ParentAt(T, pos, t), p, d, 1)
               PROVE  FALSE
    BY <1>0, <1>1, <1>3, HungRows
  <2>1. PICK j \in Nat, k \in Nat : <<u, d, k>> \in C /\ 1 = j + k + 1
    BY DEF Joined
  <2>2. k = 0
    BY <2>1
  <2> QED
    BY <1>0, <1>1, <2>1, <2>2 DEF Tree
<1>4. \A p \in Uid : <<p, d, 1>> \in C => <<p, d, 1>> \in H
  BY DEF Hung
<1> HIDE DEF H
<1>5. \A p : p \in Parents(H, d) <=> p \in Parents(C, d)
  BY <1>0, <1>1, <1>2, <1>3, <1>4, ParentIs DEF C
<1>6. Parents(H, d) = Parents(C, d)
  BY <1>5
<1>7. Parents(C, d) = Parents(T.path, d)
  BY CutParents
<1> QED
  BY <1>6, <1>7 DEF H, Placed, Moved

LEMMA DroppedParents ==
    ASSUME NEW T, NEW S, NEW d, d \notin S
    PROVE  Parents(Dropped(T, S).path, d) = Parents(T.path, d)
  BY DEF Dropped, Pruned, Parents

\* The parent that a node leaves is not under it, wherever the node is put.
LEMMA LeftIsAbove ==
    ASSUME NEW T, NEW N, Tree(T.path, N), NEW u \in N, NEW pos, NEW t,
           ~ Row(T.path, u, ParentAt(T, pos, t)),
           NEW o \in Parents(T.path, u)
    PROVE  /\ ~ Row(T.path, u, o)
           /\ ~ Row(Placed(T, u, pos, t).path, u, o)
<1>1. u \in Uid /\ T.path \in SUBSET Rows3
  BY DEF Tree
<1>2. o \in Uid /\ <<o, u, 1>> \in T.path
  BY <1>1, ParentIs
<1>3. Row(T.path, o, u)
  BY <1>1, <1>2, RowIs
<1>4. ~ Row(T.path, u, o)
  <2> SUFFICES ASSUME Row(T.path, u, o)
               PROVE  FALSE
    OBVIOUS
  <2>1. o = u
    BY <1>1, <1>2, <1>3, NoWayBack
  <2> QED
    BY <1>1, <1>2, <2>1, NotOwnParent
<1> QED
  BY <1>4, PlacedTree

\* What a node that is placed gets of a parent: the one that was meant.
LEMMA PlacedParent ==
    ASSUME NEW T, NEW N, Tree(T.path, N), NEW u \in N, NEW pos, NEW t,
           ~ Row(T.path, u, ParentAt(T, pos, t)), NEW a
    PROVE  a \in Parents(Placed(T, u, pos, t).path, u) <=>
              a = ParentAt(T, pos, t) /\ a \in N
<1> DEFINE p == ParentAt(T, pos, t)
           C == Cut(T.path, u)
           H == Hung(C, u, p)
<1>0. H = Placed(T, u, pos, t).path
  BY DEF Placed, Moved
<1>1. /\ u \in Uid
      /\ Tree(C, N) /\ C \in SUBSET Rows3
      /\ \A x \in Uid : Row(C, x, u) => x = u
      /\ \A x, y : Row(C, x, y) => Row(T.path, x, y)
  <2>1. u \in Uid
    BY TreeTyped
  <2>2. Tree(Cut(T.path, u), N)
    BY <2>1, CutTree
  <2> QED
    BY <2>1, <2>2, CutTree, TreeTyped
<1>2. ~ Row(C, u, p)
  BY <1>1
<1> HIDE DEF C, p
<1>3. /\ Tree(H, N) /\ H \in SUBSET Rows3
      /\ p \in N => \A x : x \in Parents(H, u) <=> x = p
  <2>1. Tree(H, N) /\ (p \in N => \A x : x \in Parents(H, u) <=> x = p)
    BY <1>1, <1>2, HungTree
  <2> HIDE DEF H
  <2> QED
    BY <2>1, TreeTyped
<1> HIDE DEF H
<1>4. ASSUME a \in Parents(H, u)
      PROVE  a = p /\ a \in N
  <2>1. a \in N /\ a \in Uid /\ <<a, u, 1>> \in H /\ a # u
    BY <1>3, <1>4, ParentNodes, TreeTyped
  <2>2. <<a, u, 1>> \notin C
    <3>1. <<a, u, 1>> \in C => Row(C, a, u)
      BY <1>1, <2>1, RowIs
    <3> QED
      BY <1>1, <2>1, <3>1
  <2>3. Joined(C, u, p, a, u, 1)
    BY <1>1, <2>1, <2>2, HungRows DEF H
  <2>4. PICK j \in Nat, k \in Nat : <<a, p, j>> \in C /\ 1 = j + k + 1
    BY <2>3 DEF Joined
  <2>5. <<a, p, 0>> \in C
    BY <2>4
  <2>6. p \in Uid
    BY <1>1, <2>5 DEF Rows3
  <2>7. a = p
    BY <1>1, <2>1, <2>5, <2>6 DEF Tree
  <2> QED
    BY <2>1, <2>7
<1> QED
  BY <1>0, <1>3, <1>4 DEF p

\* A parent that is left after a cut is one of before.
LEMMA CutParentOf ==
    ASSUME NEW P, NEW N, Tree(P, N), NEW u \in N, NEW c, NEW p, p \in Parents(Cut(P, u), c)
    PROVE  c \in Uid \ {u} /\ p \in Parents(P, c)
<1> DEFINE C == Cut(P, u)
<1>1. N \in SUBSET Uid
  BY TreeTyped
<1>2. Tree(C, N) /\ \A a \in Uid : Row(C, a, u) => a = u
  BY <1>1, CutTree
<1>3. c \in N \ {u} => Parents(C, c) = Parents(P, c)
  BY CutParents
<1>4. p \in Parents(C, c)
  OBVIOUS
<1> HIDE DEF C
<1>5. c \in N /\ p \in N /\ p # c /\ Row(C, p, c)
  BY <1>2, <1>4, ParentNodes
<1>6. c # u
  BY <1>1, <1>2, <1>5
<1> QED
  BY <1>1, <1>3, <1>4, <1>5, <1>6

-----------------------------------------------------------------------------
(* The sorts that insertSingleNode() gives *)

\* Of finitely many nodes, one has the largest sort.
LEMMA LargestSort ==
    ASSUME NEW D, IsFiniteSet(D), D # {}, NEW S, \A c \in D : S[c] \in Nat
    PROVE  \E c \in D : \A d \in D : S[d] <= S[c]
<1> DEFINE Above(c) == {d \in D : S[d] > S[c]}
           X == {Above(c) : c \in D}
<1>1. IsWellFoundedOn(StrictSubsetOrdering(D), FiniteSubsetsOf(D))
  BY FS_StrictSubsetOrderingWellFounded
<1>2. X \subseteq FiniteSubsetsOf(D)
  <2> SUFFICES ASSUME NEW c \in D
               PROVE  Above(c) \in FiniteSubsetsOf(D)
    OBVIOUS
  <2>1. IsFiniteSet(Above(c))
    BY FS_Subset
  <2> QED
    BY <2>1 DEF FiniteSubsetsOf
<1>3. X # {}
  OBVIOUS
<1>4. PICK A \in X : \A B \in X : <<B, A>> \notin StrictSubsetOrdering(D)
  <2> HIDE DEF X
  <2> QED
    BY <1>1, <1>2, <1>3, WFMin
<1>5. PICK c \in D : A = Above(c)
  OBVIOUS
<1>6. ASSUME NEW d \in D, S[d] > S[c]
      PROVE  FALSE
  <2> DEFINE B == Above(d)
  <2>1. B \in X /\ d \in A /\ d \notin B
    BY <1>5, <1>6
  <2>2. B \subseteq A /\ A \in SUBSET D /\ B \in SUBSET D
    BY <1>5, <1>6
  <2> HIDE DEF B
  <2>3. <<B, A>> \in StrictSubsetOrdering(D)
    BY <2>1, <2>2 DEF StrictSubsetOrdering
  <2> QED
    BY <1>4, <2>1, <2>3
<1> QED
  BY <1>6

\* The last place comes after every sibling.
LEMMA LastIs ==
    ASSUME NEW D, IsFiniteSet(D), NEW S, \A c \in D : S[c] \in Nat
    PROVE  /\ Last(S, D) \in Nat \ {0}
           /\ \A c \in D : S[c] < Last(S, D)
<1> DEFINE sorts == {NoSort} \cup {S[c] : c \in D}
           n == CHOOSE n \in sorts : \A m \in sorts : m <= n
<1>1. \E x \in sorts : \A m \in sorts : m <= x
  <2>1. CASE D = {}
    BY <2>1 DEF NoSort
  <2>2. CASE D # {}
    <3>1. PICK c \in D : \A d \in D : S[d] <= S[c]
      BY <2>2, LargestSort
    <3> QED
      BY <3>1 DEF NoSort
  <2> QED
    BY <2>1, <2>2
<1>2. n \in sorts /\ \A m \in sorts : m <= n
  <2> HIDE DEF sorts
  <2> QED
    BY <1>1
<1>3. Last(S, D) = 1 + n
  BY DEF Last
<1> HIDE DEF n
<1>4. n \in Nat /\ \A c \in D : S[c] <= n
  BY <1>2 DEF NoSort
<1> QED
  BY <1>3, <1>4

LEMMA PlaceIs ==
    ASSUME NEW S, NEW siblings, NEW t
    PROVE  /\ Place(S, siblings, "afterBegin", t) = 1
           /\ Place(S, siblings, "beforeEnd", t) = Last(S, siblings)
           /\ Place(S, siblings, "beforeBegin", t) = S[t]
           /\ Place(S, siblings, "afterEnd", t) = S[t] + 1
  BY Zenon DEF Place

LEMMA MadeRoomIs ==
    ASSUME NEW S \in [Uid -> Nat], NEW D, NEW u \in Uid, NEW n \in Nat
    PROVE  /\ MadeRoom(S, D, u, n) \in [Uid -> Nat]
           /\ MadeRoom(S, D, u, n)[u] = n
           /\ \A c \in Uid \ {u} :
                 MadeRoom(S, D, u, n)[c] = IF c \in D /\ S[c] >= n THEN S[c] + 1 ELSE S[c]
  BY DEF MadeRoom

-----------------------------------------------------------------------------
(* Places that differ *)

\* The tables T of the nodes N: nodes of one parent have places, and different
\* ones under one key.
Spread(T, N) ==
    /\ Tree(T.path, N)
    /\ IsFiniteSet(N)
    /\ T.type \in [Uid -> Types \cup {NoType}]
    /\ T.sort \in [Uid -> Nat]
    /\ \A p, c : p \in Parents(T.path, c) => T.sort[c] # NoSort
    /\ \A p, c, d :
          p \in Parents(T.path, c) /\ p \in Parents(T.path, d) /\ c # d /\ T.type[c] = T.type[d]
             => T.sort[c] # T.sort[d]

\* From T to U, nodes but m that stay under one parent and key keep their order.
Kept(T, U, m) ==
    \A p, c, d :
       (/\ c # m /\ d # m
        /\ p \in Parents(T.path, c) /\ p \in Parents(T.path, d)
        /\ p \in Parents(U.path, c) /\ p \in Parents(U.path, d)
        /\ T.type[c] = T.type[d] /\ U.type[c] = U.type[d]
        /\ T.sort[c] < T.sort[d]) => U.sort[c] < U.sort[d]

\* what Placed gives u: its key, who has this key in the parent, and its sort
KeyAt(T, pos, t) == IF Beside(pos) THEN T.type[t] ELSE Properties

Others(T, u, pos, t) ==
    Siblings(Placed(T, u, pos, t).path, Placed(T, u, pos, t).type,
             ParentAt(T, pos, t), KeyAt(T, pos, t), u)

SortAt(T, u, pos, t) == Place([T.sort EXCEPT ![u] = NoSort], Others(T, u, pos, t), pos, t)

LEMMA PlacedTypes ==
    ASSUME NEW T, NEW N, Spread(T, N), NEW u \in Uid, NEW pos, NEW t \in Uid
    PROVE  /\ Placed(T, u, pos, t).type \in [Uid -> Types \cup {NoType}]
           /\ Placed(T, u, pos, t).type[u] = KeyAt(T, pos, t)
           /\ \A d \in Uid \ {u} : Placed(T, u, pos, t).type[d] = T.type[d]
<1> DEFINE y == IF Beside(pos) THEN T.type[t] ELSE Properties
<1>1. Placed(T, u, pos, t).type = [T.type EXCEPT ![u] = y]
  BY DEF Placed
<1>2. T.type \in [Uid -> Types \cup {NoType}]
  BY DEF Spread
<1>3. y \in Types \cup {NoType} /\ KeyAt(T, pos, t) = y
  BY <1>2, ConstantsAssumption DEF KeyAt, ConstantsAssumption
<1> HIDE DEF y
<1> QED
  BY <1>1, <1>2, <1>3

LEMMA OthersAre ==
    ASSUME NEW T, NEW u, NEW pos, NEW t, NEW c
    PROVE  c \in Others(T, u, pos, t) <=>
              /\ c # u
              /\ ParentAt(T, pos, t) \in Parents(Placed(T, u, pos, t).path, c)
              /\ Placed(T, u, pos, t).type[c] = KeyAt(T, pos, t)
  BY ChildIs DEF Others, Siblings

\* The parent that a position beside t means is that of t.
LEMMA ParentBeside ==
    ASSUME NEW T, NEW u, NEW pos, NEW t, Beside(pos), CanPlace(T, u, pos, t)
    PROVE  t # u /\ ParentAt(T, pos, t) \in Parents(T.path, t)
<1>1. t # u /\ Parents(T.path, t) # {}
  BY DEF CanPlace
<1>2. ParentAt(T, pos, t) = CHOOSE p \in Parents(T.path, t) : TRUE
  BY DEF ParentAt
<1> QED
  BY <1>1, <1>2

LEMMA SortAtIs ==
    ASSUME NEW T, NEW N, Spread(T, N), NEW u \in N, NEW pos \in Positions, NEW t \in Uid,
           CanPlace(T, u, pos, t)
    PROVE  /\ SortAt(T, u, pos, t) \in Nat \ {0}
           /\ pos = "afterBegin" => SortAt(T, u, pos, t) = 1
           /\ pos = "beforeEnd" =>
                \A c \in Others(T, u, pos, t) : T.sort[c] < SortAt(T, u, pos, t)
           /\ pos = "beforeBegin" => SortAt(T, u, pos, t) = T.sort[t]
           /\ pos = "afterEnd" => SortAt(T, u, pos, t) = T.sort[t] + 1
<1> DEFINE S == [T.sort EXCEPT ![u] = NoSort]
           D == Others(T, u, pos, t)
<1>1. /\ Tree(T.path, N) /\ u \in Uid /\ IsFiniteSet(N)
      /\ T.sort \in [Uid -> Nat]
      /\ ~ Row(T.path, u, ParentAt(T, pos, t))
  BY TreeTyped DEF Spread, CanPlace
<1>2. S \in [Uid -> Nat] /\ \A c \in Uid \ {u} : S[c] = T.sort[c]
  BY <1>1 DEF NoSort
<1>3. Tree(Placed(T, u, pos, t).path, N)
  BY <1>1, PlacedTree
<1>4. D \subseteq N \ {u}
  <2> SUFFICES ASSUME NEW c \in D
               PROVE  c \in N \ {u}
    OBVIOUS
  <2>1. c # u /\ ParentAt(T, pos, t) \in Parents(Placed(T, u, pos, t).path, c)
    BY OthersAre
  <2> QED
    BY <1>3, <2>1, ParentNodes
<1>5. IsFiniteSet(D)
  BY <1>1, <1>4, FS_Subset
<1>6. D \subseteq Uid \ {u}
  BY <1>1, <1>4, TreeTyped
<1>7. SortAt(T, u, pos, t) = Place(S, D, pos, t)
  BY DEF SortAt
<1> HIDE DEF S, D
<1>8. CASE pos = "afterBegin"
  BY <1>7, <1>8, PlaceIs
<1>9. CASE pos = "beforeEnd"
  <2>1. SortAt(T, u, pos, t) = Last(S, D)
    BY <1>7, <1>9, PlaceIs
  <2>2. \A c \in D : S[c] \in Nat
    BY <1>2, <1>6
  <2>3. Last(S, D) \in Nat \ {0} /\ \A c \in D : S[c] < Last(S, D)
    BY <1>5, <2>2, LastIs
  <2>4. \A c \in D : T.sort[c] < Last(S, D)
    BY <1>2, <1>6, <2>3
  <2> QED
    BY <1>9, <2>1, <2>3, <2>4 DEF D
<1>10. ASSUME Beside(pos)
       PROVE  T.sort[t] \in Nat \ {0} /\ S[t] = T.sort[t]
  <2>1. t # u /\ ParentAt(T, pos, t) \in Parents(T.path, t)
    BY <1>10, ParentBeside
  <2>2. T.sort[t] # NoSort
    BY <2>1 DEF Spread
  <2> QED
    BY <1>1, <1>2, <2>1, <2>2 DEF NoSort
<1>11. CASE pos = "beforeBegin"
  BY <1>7, <1>10, <1>11, PlaceIs DEF Beside
<1>12. CASE pos = "afterEnd"
  BY <1>7, <1>10, <1>12, PlaceIs DEF Beside
<1> QED
  BY <1>8, <1>9, <1>11, <1>12 DEF Positions

LEMMA PlacedSorts ==
    ASSUME NEW T, NEW N, Spread(T, N), NEW u \in N, NEW pos \in Positions, NEW t \in Uid,
           CanPlace(T, u, pos, t), NEW n, n = SortAt(T, u, pos, t)
    PROVE  /\ Placed(T, u, pos, t).sort \in [Uid -> Nat]
           /\ ParentAt(T, pos, t) \in N =>
                /\ Placed(T, u, pos, t).sort[u] = n
                /\ \A c \in Uid \ {u} :
                      Placed(T, u, pos, t).sort[c] =
                         IF c \in Others(T, u, pos, t) /\ T.sort[c] >= n
                         THEN T.sort[c] + 1 ELSE T.sort[c]
           /\ ParentAt(T, pos, t) \notin N =>
                \A c \in Uid \ {u} : Placed(T, u, pos, t).sort[c] = T.sort[c]
<1> DEFINE S == [T.sort EXCEPT ![u] = NoSort]
           D == Others(T, u, pos, t)
           p == ParentAt(T, pos, t)
<1>1. /\ Tree(T.path, N) /\ u \in Uid
      /\ T.sort \in [Uid -> Nat]
      /\ ~ Row(T.path, u, p)
  BY TreeTyped DEF Spread, CanPlace
<1>2. S \in [Uid -> Nat] /\ \A c \in Uid \ {u} : S[c] = T.sort[c]
  BY <1>1 DEF NoSort
<1>3. Placed(T, u, pos, t).sort =
         IF p \in Parents(Placed(T, u, pos, t).path, u) THEN MadeRoom(S, D, u, n) ELSE S
  BY DEF Placed, Others, SortAt, KeyAt
<1>4. p \in Parents(Placed(T, u, pos, t).path, u) <=> p \in N
  BY <1>1, PlacedParent
<1>5. n \in Nat
  BY SortAtIs
<1> HIDE DEF S, D, p
<1>6. CASE p \in N
  <2>1. Placed(T, u, pos, t).sort = MadeRoom(S, D, u, n)
    BY <1>3, <1>4, <1>6
  <2>2. /\ MadeRoom(S, D, u, n) \in [Uid -> Nat]
        /\ MadeRoom(S, D, u, n)[u] = n
        /\ \A c \in Uid \ {u} :
              MadeRoom(S, D, u, n)[c] = IF c \in D /\ S[c] >= n THEN S[c] + 1 ELSE S[c]
    BY <1>1, <1>2, <1>5, MadeRoomIs
  <2> QED
    BY <1>2, <1>6, <2>1, <2>2 DEF D, p
<1>7. CASE p \notin N
  BY <1>2, <1>3, <1>4, <1>7 DEF p
<1> QED
  BY <1>6, <1>7

\* A node that is placed gets a place of its own, and the others of its key make
\* room for it in their order.
LEMMA PlacedSpread ==
    ASSUME NEW T, NEW N, Spread(T, N), NEW u \in N, NEW pos \in Positions, NEW t \in Uid,
           CanPlace(T, u, pos, t), NEW U, U = Placed(T, u, pos, t)
    PROVE  /\ Spread(U, N)
           /\ \A d \in N \ {u} : Parents(U.path, d) = Parents(T.path, d)
           /\ \A d \in Uid \ {u} : U.type[d] = T.type[d]
           /\ Kept(T, U, u)
<1> DEFINE p == ParentAt(T, pos, t)
           D == Others(T, u, pos, t)
           n == SortAt(T, u, pos, t)
           y == KeyAt(T, pos, t)
<1>1. /\ Tree(T.path, N) /\ u \in Uid /\ N \in SUBSET Uid /\ IsFiniteSet(N)
      /\ T.sort \in [Uid -> Nat]
      /\ ~ Row(T.path, u, p)
  BY TreeTyped DEF Spread, CanPlace
<1>2. Tree(U.path, N) /\ \A d \in N \ {u} : Parents(U.path, d) = Parents(T.path, d)
  BY <1>1, PlacedTree, PlacedParents
<1>3. /\ U.type \in [Uid -> Types \cup {NoType}]
      /\ U.type[u] = y
      /\ \A d \in Uid \ {u} : U.type[d] = T.type[d]
  BY <1>1, PlacedTypes
<1>4. n \in Nat \ {0}
  BY SortAtIs
<1>5. /\ U.sort \in [Uid -> Nat]
      /\ p \in N => /\ U.sort[u] = n
                    /\ \A c \in Uid \ {u} :
                          U.sort[c] = IF c \in D /\ T.sort[c] >= n
                                      THEN T.sort[c] + 1 ELSE T.sort[c]
      /\ p \notin N => \A c \in Uid \ {u} : U.sort[c] = T.sort[c]
  BY PlacedSorts
<1>6. \A c : c \in D <=> c # u /\ p \in Parents(U.path, c) /\ U.type[c] = y
  BY OthersAre
<1>7. \A a : a \in Parents(U.path, u) <=> a = p /\ a \in N
  BY <1>1, PlacedParent
<1>8. \A a, b, c : a \in Parents(U.path, c) /\ b \in Parents(U.path, c) => a = b
  <2> TAKE a, b, c
  <2> HAVE a \in Parents(U.path, c) /\ b \in Parents(U.path, c)
  <2>1. c \in Uid
    BY <1>1, <1>2, ParentNodes
  <2> QED
    BY <1>2, <2>1, OneParent
<1>9. \A a, c : a \in Parents(U.path, c) => a \in N /\ c \in N /\ c \in Uid
  BY <1>1, <1>2, ParentNodes
<1>10. \A a, c : c # u /\ a \in Parents(U.path, c) => a \in Parents(T.path, c)
  BY <1>2, <1>9
<1>11. /\ \A a, c : a \in Parents(T.path, c) => T.sort[c] # 0
       /\ \A a, c, d :
             a \in Parents(T.path, c) /\ a \in Parents(T.path, d) /\ c # d /\ T.type[c] = T.type[d]
                => T.sort[c] # T.sort[d]
  BY DEF Spread, NoSort
<1> HIDE DEF p, D, n, y
\* two others, of the same parent
<1>12. ASSUME NEW a, NEW c \in Uid \ {u}, NEW d \in Uid \ {u},
              a \in Parents(U.path, c), a \in Parents(U.path, d), U.type[c] = U.type[d]
       PROVE  c \in D <=> d \in D
  BY <1>6, <1>8, <1>12
<1>13. ASSUME NEW a, NEW c, a \in Parents(U.path, c)
       PROVE  U.sort[c] # 0
  <2>1. c \in Uid /\ (c = u => p \in N)
    BY <1>7, <1>9, <1>13
  <2>2. CASE c = u
    BY <1>4, <1>5, <2>1, <2>2
  <2>3. CASE c # u
    <3>1. T.sort[c] \in Nat \ {0}
      BY <1>1, <1>10, <1>11, <1>13, <2>1, <2>3
    <3> QED
      BY <1>5, <2>1, <2>3, <3>1
  <2> QED
    BY <2>2, <2>3
<1>14. ASSUME NEW a, NEW d, d # u, a \in Parents(U.path, u), a \in Parents(U.path, d),
              U.type[u] = U.type[d]
       PROVE  U.sort[u] # U.sort[d]
  <2>1. d \in Uid /\ p \in N /\ d \in D
    BY <1>3, <1>6, <1>7, <1>9, <1>14
  <2>2. T.sort[d] \in Nat
    BY <1>1, <2>1
  <2> QED
    BY <1>4, <1>5, <1>14, <2>1, <2>2
<1>15. ASSUME NEW a, NEW c, NEW d, c # u, d # u, c # d,
              a \in Parents(U.path, c), a \in Parents(U.path, d), U.type[c] = U.type[d]
       PROVE  U.sort[c] # U.sort[d]
  <2>1. c \in Uid /\ d \in Uid /\ (c \in D <=> d \in D)
    BY <1>9, <1>12, <1>15
  <2>2. T.sort[c] \in Nat /\ T.sort[d] \in Nat
    BY <1>1, <2>1
  <2>3. T.sort[c] # T.sort[d]
    BY <1>3, <1>10, <1>11, <1>15, <2>1
  <2> QED
    BY <1>4, <1>5, <1>15, <2>1, <2>2, <2>3
<1>16. ASSUME NEW a, NEW c, NEW d, a \in Parents(U.path, c), a \in Parents(U.path, d),
              c # d, U.type[c] = U.type[d]
       PROVE  U.sort[c] # U.sort[d]
  BY <1>14, <1>15, <1>16
<1>17. Spread(U, N)
  <2>1. \A a, c : a \in Parents(U.path, c) => U.sort[c] # NoSort
    BY <1>13 DEF NoSort
  <2>2. \A a, c, d :
           a \in Parents(U.path, c) /\ a \in Parents(U.path, d) /\ c # d /\ U.type[c] = U.type[d]
              => U.sort[c] # U.sort[d]
    BY <1>16
  <2> QED
    BY <1>1, <1>2, <1>3, <1>5, <2>1, <2>2 DEF Spread
<1>18. ASSUME NEW a, NEW c, NEW d, c # u, d # u,
              a \in Parents(U.path, c), a \in Parents(U.path, d),
              U.type[c] = U.type[d], T.sort[c] < T.sort[d]
       PROVE  U.sort[c] < U.sort[d]
  <2>1. c \in Uid /\ d \in Uid /\ (c \in D <=> d \in D)
    BY <1>9, <1>12, <1>18
  <2>2. T.sort[c] \in Nat /\ T.sort[d] \in Nat
    BY <1>1, <2>1
  <2>3. c \in D => p \in N
    BY <1>6, <1>9, <1>18
  <2> QED
    BY <1>4, <1>5, <1>18, <2>1, <2>2, <2>3
<1>19. Kept(T, U, u)
  BY <1>18 DEF Kept
<1> QED
  BY <1>2, <1>3, <1>17, <1>19

-----------------------------------------------------------------------------
(* The places of a new schema *)

\* What insertNewSchema() uses of a schema: its chart, and the keys and places of
\* its nodes, which differ under one parent and key.
Seed(s) ==
    /\ Chart(s)
    /\ IsFiniteSet(s.nodes)
    /\ DOMAIN s.key = s.nodes /\ DOMAIN s.place = s.nodes
    /\ \A d \in s.nodes : s.key[d] \in Types \cup {NoType} /\ s.place[d] \in Nat
    /\ \A p, c : Charted(s, p, c, 1) => s.place[c] # NoSort
    /\ \A p, c, d : Charted(s, p, c, 1) /\ Charted(s, p, d, 1) /\ c # d /\ s.key[c] = s.key[d]
                       => s.place[c] # s.place[d]

LEMMA NoSchemaSeed == Seed(NoSchema)
<1>1. /\ NoSchema.nodes = {} /\ IsFiniteSet(NoSchema.nodes)
      /\ DOMAIN NoSchema.key = {} /\ DOMAIN NoSchema.place = {}
  BY FS_EmptySet DEF NoSchema
<1>2. \A p, c : ~ Charted(NoSchema, p, c, 1)
  BY <1>1 DEF Charted
<1> QED
  BY <1>1, <1>2, NoSchemaChart DEF Seed

\* Two nodes with one parent have the same nodes above them.
LEMMA SameAbove ==
    ASSUME NEW s, Chart(s), NEW p, NEW c, NEW d, Charted(s, p, c, 1), Charted(s, p, d, 1),
           NEW a \in s.nodes, <<a, c>> \in s.above
    PROVE  s.level[c] = s.level[d] /\ <<a, d>> \in s.above
<1>1. /\ p \in s.nodes /\ c \in s.nodes /\ d \in s.nodes
      /\ <<p, c>> \in s.above /\ <<p, d>> \in s.above
      /\ 1 = s.level[c] - s.level[p] /\ 1 = s.level[d] - s.level[p]
  BY DEF Charted
<1>2. /\ s.level[p] \in Nat /\ s.level[c] \in Nat /\ s.level[d] \in Nat /\ s.level[a] \in Nat
      /\ s.level[a] < s.level[c]
      /\ <<p, a>> \in s.above => s.level[p] < s.level[a]
  BY <1>1 DEF Chart
<1>3. ~ <<p, a>> \in s.above
  BY <1>1, <1>2
<1>4. a = p \/ <<a, p>> \in s.above
  BY <1>1, <1>3 DEF Chart
<1>5. <<a, d>> \in s.above
  BY <1>1, <1>4 DEF Chart
<1> QED
  BY <1>1, <1>2, <1>5

LEMMA NewSchemaSeed ==
    ASSUME NEW s \in NewSchemas
    PROVE  Seed(s)
<1>0. PICK N \in SUBSET Uid : \E t \in Nested(N) :
              /\ IsFiniteSet(N)
              /\ s.nodes = t.nodes /\ s.root = t.root /\ s.above = t.above /\ s.level = t.level
              /\ s.key \in Keys(t) /\ s.place \in Places(t, s.key)
  BY NewSchemaParts
<1>1. PICK t \in Nested(N) :
              /\ IsFiniteSet(N)
              /\ s.nodes = t.nodes /\ s.root = t.root /\ s.above = t.above /\ s.level = t.level
              /\ s.key \in Keys(t) /\ s.place \in Places(t, s.key)
  BY <1>0
<1>2. Chart(s) /\ s.root \in s.nodes /\ t.nodes = N /\ s.nodes = N
  BY <1>1, NewSchemaChart, NestedChart
<1>3. /\ s.key \in [N -> Types \cup {NoType}]
      /\ s.place \in [N -> 0..Cardinality(N)]
      /\ \A d \in N \ {t.root} :
            {s.place[c] : c \in Alike(t, s.key, d)} = 1..Cardinality(Alike(t, s.key, d))
  BY <1>1, <1>2 DEF Keys, Places
<1>4. Cardinality(N) \in Nat
  BY <1>1, FS_CardinalityType
<1>5. ASSUME NEW p, NEW c, Charted(s, p, c, 1)
      PROVE  /\ c \in N \ {t.root}
             /\ c \in Alike(t, s.key, c)
             /\ Alike(t, s.key, c) \subseteq N
             /\ s.place[c] \in 1..Cardinality(Alike(t, s.key, c))
  <2>1. /\ p \in N /\ c \in N /\ 1 = s.level[c] - s.level[p]
        /\ s.level[c] \in Nat /\ s.level[p] \in Nat
    BY <1>2, <1>5 DEF Charted, Chart
  <2>2. s.level[t.root] = 0
    BY <1>1 DEF Nested
  <2>3. c # t.root
    BY <2>1, <2>2
  <2>4. c \in Alike(t, s.key, c) /\ Alike(t, s.key, c) \subseteq N
    BY <1>2, <2>1 DEF Alike
  <2>5. s.place[c] \in {s.place[x] : x \in Alike(t, s.key, c)}
    BY <2>4
  <2> QED
    BY <1>3, <2>1, <2>3, <2>4, <2>5
<1>6. \A p, c : Charted(s, p, c, 1) => s.place[c] # NoSort
  <2> TAKE p, c
  <2> HAVE Charted(s, p, c, 1)
  <2>1. s.place[c] \in 1..Cardinality(Alike(t, s.key, c))
    BY <1>5
  <2> QED
    BY <2>1 DEF NoSort
<1>7. ASSUME NEW p, NEW c, NEW d, Charted(s, p, c, 1), Charted(s, p, d, 1),
             c # d, s.key[c] = s.key[d]
      PROVE  s.place[c] # s.place[d]
  <2> DEFINE A == Alike(t, s.key, c)
             n == Cardinality(A)
             f == [x \in A |-> s.place[x]]
  <2>1. c \in N \ {t.root} /\ c \in A /\ A \subseteq N /\ d \in N
    BY <1>5, <1>7
  <2>2. d \in A
    <3>1. \A a \in N : <<a, d>> \in s.above <=> <<a, c>> \in s.above
      BY <1>2, <1>7, SameAbove
    <3>2. s.level[d] = s.level[c]
      <4>1. /\ p \in N /\ <<p, c>> \in s.above
        BY <1>2, <1>7 DEF Charted
      <4> QED
        BY <1>2, <1>7, <4>1, SameAbove
    <3> QED
      BY <1>1, <1>2, <1>7, <2>1, <3>1, <3>2 DEF Alike
  <2>3. {s.place[x] : x \in A} = 1..n
    BY <1>3, <2>1
  <2>4. IsFiniteSet(A) /\ n \in Nat
    BY <1>1, <2>1, FS_Subset, FS_CardinalityType
  <2> HIDE DEF A, n
  <2>5. f \in Surjection(A, 1..n)
    BY <2>3 DEF Surjection
  <2>6. Cardinality(1..n) = n
    BY <2>4, FS_Interval
  <2>7. f \in Injection(A, 1..n)
    <3> HIDE DEF f
    <3>1. Cardinality(A) = Cardinality(1..n)
      BY <2>6 DEF n
    <3> QED
      BY <2>4, <2>5, <3>1, FS_SurjSameCardinalityImpliesInj
  <2>8. \A x, y \in A : f[x] = f[y] => x = y
    <3> HIDE DEF f
    <3> QED
      BY <2>7 DEF Injection, IsInjective
  <2>9. f[c] # f[d]
    <3> HIDE DEF f
    <3> QED
      BY <1>7, <2>1, <2>2, <2>8
  <2> QED
    BY <2>1, <2>2, <2>9
<1>8. \A d \in s.nodes : s.key[d] \in Types \cup {NoType} /\ s.place[d] \in Nat
  BY <1>2, <1>3, <1>4
<1>9. DOMAIN s.key = s.nodes /\ DOMAIN s.place = s.nodes
  BY <1>2, <1>3
<1> QED
  BY <1>1, <1>2, <1>6, <1>7, <1>8, <1>9 DEF Seed

LEMMA RequestedSeed ==
    ASSUME NEW su \in Requested
    PROVE  Seed(su[1])
<1>1. CASE \E s \in NewSchemas : s.nodes \cap schemas = {} /\ su = <<s, s.root>>
  <2>1. PICK s \in NewSchemas : su = <<s, s.root>>
    BY <1>1
  <2>2. su[1] = s
    BY <2>1
  <2> QED
    BY <2>2, NewSchemaSeed
<1>2. CASE \E u \in schemas : su = <<NoSchema, u>>
  <2>1. su[1] = NoSchema
    BY <1>2
  <2> QED
    BY <2>1, NoSchemaSeed
<1> QED
  BY <1>1, <1>2 DEF Requested

-----------------------------------------------------------------------------
(* Insertions, removals and cuts keep the places *)

\* An insertion leaves what was there, and the nodes of the schema have the
\* parents of its chart.
LEMMA GrownRows ==
    ASSUME NEW T, NEW N, Tree(T.path, N), NEW s, Chart(s), s.nodes \cap N = {},
           NEW a, NEW c
    PROVE  a \in Parents(Grown(T, s).path, c) <=>
              a \in Parents(T.path, c) \/ Charted(s, a, c, 1)
<1>1. T.path \in SUBSET Rows3 /\ Grown(T, s).path = WithNew(T.path, s)
  BY TreeTyped DEF Grown
<1>2. Tree(WithNew(T.path, s), N \cup s.nodes)
  BY WithNewTree
<1>3. WithNew(T.path, s) \in SUBSET Rows3
  BY <1>2, TreeTyped
<1>4. Charted(s, a, c, 1) => a \in Uid /\ c \in Uid
  BY DEF Charted, Chart
<1>5. ASSUME a \in Parents(WithNew(T.path, s), c)
      PROVE  a \in Uid /\ c \in Uid
  <2> DEFINE W == WithNew(T.path, s)
             M == N \cup s.nodes
  <2>0. Tree(W, M) /\ a \in Parents(W, c)
    BY <1>2, <1>5
  <2> HIDE DEF W, M
  <2>1. a \in M /\ c \in M /\ M \in SUBSET Uid
    <3>1. a \in M /\ c \in M
      BY <2>0, ParentNodes
    <3> QED
      BY <2>0, <3>1, TreeTyped
  <2> QED
    BY <2>1
<1>6. ASSUME a \in Parents(T.path, c)
      PROVE  a \in Uid /\ c \in Uid
  <2>1. a \in N /\ c \in N
    BY <1>6, ParentNodes
  <2> QED
    BY <2>1, TreeTyped
<1>7. ASSUME a \in Uid, c \in Uid
      PROVE  <<a, c, 1>> \in WithNew(T.path, s) <=> <<a, c, 1>> \in T.path \/ Charted(s, a, c, 1)
  BY <1>1, <1>7, WithNewRows
<1> QED
  BY <1>1, <1>3, <1>4, <1>5, <1>6, <1>7, ParentIs

LEMMA GrownSpread ==
    ASSUME NEW T, NEW N, Spread(T, N), NEW s, Seed(s), s.nodes \cap N = {},
           NEW U, U = Grown(T, s)
    PROVE  /\ Spread(U, N \cup s.nodes)
           /\ \A d \in N : Parents(U.path, d) = Parents(T.path, d)
           /\ \A d \in Uid \ s.nodes : U.type[d] = T.type[d] /\ U.sort[d] = T.sort[d]
<1>1. /\ Tree(T.path, N) /\ Chart(s) /\ s.nodes \in SUBSET Uid /\ IsFiniteSet(N)
      /\ IsFiniteSet(s.nodes)
      /\ T.type \in [Uid -> Types \cup {NoType}] /\ T.sort \in [Uid -> Nat]
  BY DEF Spread, Seed, Chart
<1>2. Tree(U.path, N \cup s.nodes) /\ \A d \in N : Parents(U.path, d) = Parents(T.path, d)
  <2>1. Tree(Grown(T, s).path, N \cup s.nodes)
    BY <1>1, GrownTree
  <2>2. \A d \in N : Parents(Grown(T, s).path, d) = Parents(T.path, d)
    BY <1>1, GrownParents
  <2> QED
    BY <2>1, <2>2
<1>3. IsFiniteSet(N \cup s.nodes)
  BY <1>1, FS_Union
<1>4. /\ U.type = [d \in Uid |-> IF d \in s.nodes THEN s.key[d] ELSE T.type[d]]
      /\ U.sort = [d \in Uid |-> IF d \in s.nodes THEN s.place[d] ELSE T.sort[d]]
  BY <1>1 DEF Grown, Updated, Seed
<1>5. \A d \in s.nodes : s.key[d] \in Types \cup {NoType} /\ s.place[d] \in Nat
  BY DEF Seed
<1>6. /\ U.type \in [Uid -> Types \cup {NoType}] /\ U.sort \in [Uid -> Nat]
      /\ \A d \in s.nodes : U.type[d] = s.key[d] /\ U.sort[d] = s.place[d]
      /\ \A d \in Uid \ s.nodes : U.type[d] = T.type[d] /\ U.sort[d] = T.sort[d]
  BY <1>1, <1>4, <1>5
<1>7. \A a, c : a \in Parents(U.path, c) <=> a \in Parents(T.path, c) \/ Charted(s, a, c, 1)
  BY <1>1, GrownRows
<1>8. \A a, c : a \in Parents(T.path, c) => a \in N /\ c \in N /\ c \in Uid /\ c \notin s.nodes
  <2> TAKE a, c
  <2> HAVE a \in Parents(T.path, c)
  <2>1. a \in N /\ c \in N
    BY <1>1, ParentNodes
  <2>2. N \in SUBSET Uid
    BY <1>1, TreeTyped
  <2> QED
    BY <2>1, <2>2
<1>9. \A a, c : Charted(s, a, c, 1) => a \in s.nodes /\ c \in s.nodes /\ a \notin N
  BY DEF Charted
<1>10. /\ \A p, c : p \in Parents(T.path, c) => T.sort[c] # NoSort
       /\ \A p, c : Charted(s, p, c, 1) => s.place[c] # NoSort
  BY DEF Spread, Seed
<1>11. \A p, c : p \in Parents(U.path, c) => U.sort[c] # NoSort
  <2> TAKE p, c
  <2> HAVE p \in Parents(U.path, c)
  <2>1. CASE p \in Parents(T.path, c)
    BY <1>6, <1>8, <1>10, <2>1
  <2>2. CASE Charted(s, p, c, 1)
    BY <1>6, <1>9, <1>10, <2>2
  <2> QED
    BY <1>7, <2>1, <2>2
<1>12. \A p, c, d :
          p \in Parents(U.path, c) /\ p \in Parents(U.path, d) /\ c # d /\ U.type[c] = U.type[d]
             => U.sort[c] # U.sort[d]
  <2> TAKE p, c, d
  <2> HAVE p \in Parents(U.path, c) /\ p \in Parents(U.path, d) /\ c # d /\ U.type[c] = U.type[d]
  <2>1. CASE p \in Parents(T.path, c) /\ p \in Parents(T.path, d)
    <3>1. T.sort[c] # T.sort[d]
      BY <1>6, <1>8, <2>1 DEF Spread
    <3> QED
      BY <1>6, <1>8, <2>1, <3>1
  <2>2. CASE Charted(s, p, c, 1) /\ Charted(s, p, d, 1)
    <3>1. s.place[c] # s.place[d]
      BY <1>6, <1>9, <2>2 DEF Seed
    <3> QED
      BY <1>6, <1>9, <2>2, <3>1
  <2> QED
    BY <1>7, <1>8, <1>9, <2>1, <2>2
<1>13. Spread(U, N \cup s.nodes)
  BY <1>2, <1>3, <1>6, <1>11, <1>12 DEF Spread
<1> QED
  BY <1>2, <1>6, <1>13

LEMMA DroppedSpread ==
    ASSUME NEW T, NEW N, Spread(T, N), NEW S,
           \A a, b : a \in S /\ Row(T.path, a, b) => b \in S,
           NEW U, U = Dropped(T, S)
    PROVE  /\ Spread(U, N \ S)
           /\ \A d \in Uid \ S : /\ Parents(U.path, d) = Parents(T.path, d)
                                 /\ U.type[d] = T.type[d] /\ U.sort[d] = T.sort[d]
<1>1. Tree(T.path, N) /\ T.type \in [Uid -> Types \cup {NoType}] /\ T.sort \in [Uid -> Nat]
  BY DEF Spread
<1>2. Tree(U.path, N \ S)
  BY <1>1, DroppedTree
<1>3. IsFiniteSet(N \ S)
  BY FS_Subset DEF Spread
<1>4. /\ U.type = [d \in Uid |-> IF d \in S THEN NoType ELSE T.type[d]]
      /\ U.sort = [d \in Uid |-> IF d \in S THEN NoSort ELSE T.sort[d]]
  BY DEF Dropped
<1>5. /\ U.type \in [Uid -> Types \cup {NoType}] /\ U.sort \in [Uid -> Nat]
      /\ \A d \in Uid \ S : U.type[d] = T.type[d] /\ U.sort[d] = T.sort[d]
  BY <1>1, <1>4 DEF NoSort
<1>6. \A d : d \notin S => Parents(U.path, d) = Parents(T.path, d)
  BY DroppedParents
<1>7. \A p, c : p \in Parents(U.path, c) => c \in Uid \ S /\ p \in Parents(T.path, c)
  <2> TAKE p, c
  <2> HAVE p \in Parents(U.path, c)
  <2>1. c \in N \ S /\ N \in SUBSET Uid
    BY <1>1, <1>2, ParentNodes, TreeTyped
  <2> QED
    BY <1>6, <2>1
<1>8. \A p, c : p \in Parents(U.path, c) => U.sort[c] # NoSort
  BY <1>5, <1>7 DEF Spread
<1>9. \A p, c, d :
         p \in Parents(U.path, c) /\ p \in Parents(U.path, d) /\ c # d /\ U.type[c] = U.type[d]
            => U.sort[c] # U.sort[d]
  <2> TAKE p, c, d
  <2> HAVE p \in Parents(U.path, c) /\ p \in Parents(U.path, d) /\ c # d /\ U.type[c] = U.type[d]
  <2>1. /\ p \in Parents(T.path, c) /\ p \in Parents(T.path, d)
        /\ T.type[c] = T.type[d] /\ U.sort[c] = T.sort[c] /\ U.sort[d] = T.sort[d]
    BY <1>5, <1>7
  <2> QED
    BY <2>1 DEF Spread
<1>10. Spread(U, N \ S)
  BY <1>2, <1>3, <1>5, <1>8, <1>9 DEF Spread
<1> QED
  BY <1>5, <1>6, <1>10

LEMMA CutSpread ==
    ASSUME NEW T, NEW N, Spread(T, N), NEW u \in N, NEW U,
           U.path = Cut(T.path, u), U.type = T.type, U.sort = [T.sort EXCEPT ![u] = NoSort]
    PROVE  /\ Spread(U, N)
           /\ \A d \in N \ {u} : Parents(U.path, d) = Parents(T.path, d)
           /\ \A d \in Uid \ {u} : U.sort[d] = T.sort[d]
<1>1. /\ Tree(T.path, N) /\ IsFiniteSet(N) /\ u \in Uid
      /\ T.type \in [Uid -> Types \cup {NoType}] /\ T.sort \in [Uid -> Nat]
  BY TreeTyped DEF Spread
<1>2. /\ Tree(U.path, N)
      /\ \A a \in Uid : Row(U.path, a, u) => a = u
      /\ \A d \in N \ {u} : Parents(U.path, d) = Parents(T.path, d)
  BY <1>1, CutTree, CutParents
<1>3. U.sort \in [Uid -> Nat] /\ \A d \in Uid \ {u} : U.sort[d] = T.sort[d]
  BY <1>1 DEF NoSort
<1>4. \A p, c : p \in Parents(U.path, c) => c \in Uid \ {u} /\ p \in Parents(T.path, c)
  BY <1>1, CutParentOf
<1>5. \A p, c : p \in Parents(U.path, c) => U.sort[c] # NoSort
  BY <1>3, <1>4 DEF Spread
<1>6. \A p, c, d :
         p \in Parents(U.path, c) /\ p \in Parents(U.path, d) /\ c # d /\ U.type[c] = U.type[d]
            => U.sort[c] # U.sort[d]
  <2> TAKE p, c, d
  <2> HAVE p \in Parents(U.path, c) /\ p \in Parents(U.path, d) /\ c # d /\ U.type[c] = U.type[d]
  <2>1. /\ p \in Parents(T.path, c) /\ p \in Parents(T.path, d)
        /\ U.sort[c] = T.sort[c] /\ U.sort[d] = T.sort[d]
    BY <1>3, <1>4
  <2> QED
    BY <2>1 DEF Spread
<1>7. Spread(U, N)
  BY <1>1, <1>2, <1>3, <1>5, <1>6 DEF Spread
<1> QED
  BY <1>2, <1>3, <1>7

-----------------------------------------------------------------------------
(* What a step of an operation leaves alone *)

\* From T to U, the nodes of K stay where they are, in their order.
Stays(T, U, K) ==
    /\ \A d \in K : Parents(U.path, d) = Parents(T.path, d) /\ U.type[d] = T.type[d]
    /\ \A p, c, d :
          (/\ c \in K /\ d \in K
           /\ p \in Parents(T.path, c) /\ p \in Parents(T.path, d)
           /\ T.type[c] = T.type[d]
           /\ T.sort[c] < T.sort[d]) => U.sort[c] < U.sort[d]

\* What is under a is the same in T and U.
Same(T, U, a) ==
    \A c : /\ Row(T.path, a, c) <=> Row(U.path, a, c)
           /\ Row(T.path, a, c) /\ c # a =>
                 /\ Parents(U.path, c) = Parents(T.path, c)
                 /\ U.type[c] = T.type[c] /\ U.sort[c] = T.sort[c]

LEMMA StaysTrans ==
    ASSUME NEW T, NEW U, NEW V, NEW K, NEW L, NEW M, Stays(T, U, K), Stays(U, V, L),
           M \subseteq K, M \subseteq L
    PROVE  Stays(T, V, M)
  BY DEF Stays

LEMMA SameTrans ==
    ASSUME NEW T, NEW U, NEW V, NEW a, Same(T, U, a), Same(U, V, a)
    PROVE  Same(T, V, a)
  BY DEF Same

\* What a read of a returns, by the parents of the nodes under it.
LEMMA ContentIs ==
    ASSUME NEW T, NEW N, Tree(T.path, N), NEW a, NEW x
    PROVE  x \in Content(T, a) <=>
              \E p, c : /\ p \in Parents(T.path, c) /\ Row(T.path, a, p)
                        /\ x = <<p, c, T.type[c], T.sort[c]>>
<1>1. T.path \in SUBSET Rows3
  BY TreeTyped
<1>2. \A r \in T.path : r[1] \in Under(T.path, a) <=> Row(T.path, a, r[1])
  BY <1>1, ReachedIs
<1>3. ASSUME x \in Content(T, a)
      PROVE  \E p, c : /\ p \in Parents(T.path, c) /\ Row(T.path, a, p)
                       /\ x = <<p, c, T.type[c], T.sort[c]>>
  <2>1. PICK r \in T.path : /\ r[3] = 1 /\ r[1] \in Under(T.path, a)
                            /\ x = <<r[1], r[2], T.type[r[2]], T.sort[r[2]]>>
    BY <1>3 DEF Content
  <2>2. r[1] \in Parents(T.path, r[2]) /\ Row(T.path, a, r[1])
    BY <1>2, <2>1 DEF Parents
  <2> QED
    BY <2>1, <2>2
<1>4. ASSUME NEW p, NEW c, p \in Parents(T.path, c), Row(T.path, a, p)
      PROVE  <<p, c, T.type[c], T.sort[c]>> \in Content(T, a)
  <2>1. PICK r \in T.path : r[2] = c /\ r[3] = 1 /\ r[1] = p
    BY <1>4 DEF Parents
  <2>2. r[1] \in Under(T.path, a)
    BY <1>2, <1>4, <2>1
  <2> QED
    BY <2>1, <2>2 DEF Content
<1> QED
  BY <1>3, <1>4

LEMMA SameContent ==
    ASSUME NEW T, NEW N, Tree(T.path, N), NEW U, NEW M, Tree(U.path, M), NEW a, Same(T, U, a)
    PROVE  Content(U, a) = Content(T, a)
\* what a has below it is not a
<1>1. ASSUME NEW P, NEW L, Tree(P, L), NEW p, NEW c, p \in Parents(P, c), Row(P, a, p)
      PROVE  Row(P, a, c) /\ c # a
  <2>1. p # c /\ Row(P, p, c) /\ p \in L /\ c \in L
    BY <1>1, ParentNodes
  <2>2. p \in Uid /\ c \in Uid
    BY <1>1, <2>1, TreeTyped
  <2>3. Row(P, a, c)
    BY <1>1, <2>1, RowTrans
  <2>4. c # a
    BY <1>1, <2>1, <2>2, NoWayBack
  <2> QED
    BY <2>3, <2>4
<1>2. \A p, c : p \in Parents(T.path, c) /\ Row(T.path, a, p) =>
                   Row(T.path, a, c) /\ c # a
  BY <1>1
<1>3. \A p, c : p \in Parents(U.path, c) /\ Row(U.path, a, p) =>
                   Row(U.path, a, c) /\ c # a
  BY <1>1
<1>4. \A p, c : /\ p \in Parents(T.path, c) /\ Row(T.path, a, p)
                     <=> p \in Parents(U.path, c) /\ Row(U.path, a, p)
                /\ p \in Parents(T.path, c) /\ Row(T.path, a, p) =>
                      U.type[c] = T.type[c] /\ U.sort[c] = T.sort[c]
  BY <1>2, <1>3 DEF Same
<1>5. \A x : x \in Content(T, a) <=>
              \E p, c : /\ p \in Parents(T.path, c) /\ Row(T.path, a, p)
                        /\ x = <<p, c, T.type[c], T.sort[c]>>
  BY ContentIs
<1>6. \A x : x \in Content(U, a) <=>
              \E p, c : /\ p \in Parents(U.path, c) /\ Row(U.path, a, p)
                        /\ x = <<p, c, U.type[c], U.sort[c]>>
  BY ContentIs
<1>7. \A x : x \in Content(T, a) <=> x \in Content(U, a)
  BY <1>4, <1>5, <1>6
<1>8. Content(T, a) \subseteq Content(U, a) /\ Content(U, a) \subseteq Content(T, a)
  BY <1>7
<1> QED
  BY <1>8

-----------------------------------------------------------------------------
(* The steps of the operations *)

LEMMA GrownSteps ==
    ASSUME NEW T, NEW N, Spread(T, N), NEW s, Seed(s), s.nodes \cap N = {},
           NEW U, U = Grown(T, s)
    PROVE  /\ Spread(U, N \cup s.nodes)
           /\ Stays(T, U, N)
           /\ \A a \in N : Same(T, U, a)
           /\ \A a, c : Row(U.path, a, c) => Row(T.path, a, c) \/ (a \in s.nodes /\ c \in s.nodes)
           /\ \A a, c : Row(T.path, a, c) => Row(U.path, a, c)
<1>1. Tree(T.path, N) /\ Chart(s)
  BY DEF Spread, Seed
<1>2. /\ Spread(U, N \cup s.nodes)
      /\ \A d \in N : Parents(U.path, d) = Parents(T.path, d)
      /\ \A d \in Uid \ s.nodes : U.type[d] = T.type[d] /\ U.sort[d] = T.sort[d]
  BY GrownSpread
<1>3. \A a, c : Row(U.path, a, c) <=>
                 \/ Row(T.path, a, c)
                 \/ a \in s.nodes /\ c \in s.nodes /\ (a = c \/ <<a, c>> \in s.above)
  <2>1. \A a, c : Row(Grown(T, s).path, a, c) <=>
                 \/ Row(T.path, a, c)
                 \/ a \in s.nodes /\ c \in s.nodes /\ (a = c \/ <<a, c>> \in s.above)
    BY <1>1, GrownTree
  <2> QED
    BY <2>1
<1>4. \A d \in N : d \in Uid \ s.nodes
  BY <1>1, TreeTyped
<1>5. Stays(T, U, N)
  BY <1>2, <1>4 DEF Stays
<1>6. ASSUME NEW a \in N
      PROVE  Same(T, U, a)
  <2>1. \A c : Row(T.path, a, c) => c \in N
    BY <1>1, RowNodes
  <2> QED
    BY <1>2, <1>3, <1>4, <2>1 DEF Same
<1> QED
  BY <1>2, <1>3, <1>5, <1>6

\* What is under a node that u was not under and is not put under stays.
LEMMA PlacedSame ==
    ASSUME NEW T, NEW N, Spread(T, N), NEW u \in N, NEW pos \in Positions, NEW t \in Uid,
           CanPlace(T, u, pos, t), NEW U, U = Placed(T, u, pos, t),
           NEW a, ~ Row(T.path, a, u), ~ Row(U.path, a, u)
    PROVE  Same(T, U, a)
<1> DEFINE p == ParentAt(T, pos, t)
           C == Cut(T.path, u)
<1>1. /\ Tree(T.path, N) /\ N \in SUBSET Uid /\ u \in Uid
      /\ T.path \in SUBSET Rows3
      /\ ~ Row(T.path, u, p)
  BY TreeTyped DEF Spread, CanPlace
<1>2. /\ Tree(U.path, N)
      /\ \A x, y : Row(U.path, x, y) => Row(T.path, x, y) \/ (Row(T.path, x, p) /\ Row(T.path, u, y))
  BY <1>1, PlacedTree
<1>3. U.path \in SUBSET Rows3
  BY <1>2, TreeTyped
<1>4. Tree(C, N) /\ C \in SUBSET Rows3 /\ C \subseteq U.path
  <2>1. Tree(C, N)
    BY <1>1, CutTree
  <2>2. C \in SUBSET Rows3
    BY <2>1, TreeTyped
  <2>3. C \subseteq U.path
    BY DEF Placed, Moved, Hung
  <2> QED
    BY <2>1, <2>2, <2>3
\* the rows of a are not cut
<1>5. ASSUME NEW c, Row(T.path, a, c)
      PROVE  Row(C, a, c) /\ Row(U.path, a, c)
  <2>1. PICK i \in Nat : a \in Uid /\ c \in Uid /\ <<a, c, i>> \in T.path
    BY <1>1, <1>5, RowIs
  <2>2. <<a, c, i>> \in C
    BY <1>1, <2>1, CutRows
  <2> HIDE DEF C
  <2> QED
    BY <1>3, <1>4, <2>1, <2>2, RowIs
<1> HIDE DEF C
\* and u is not put under a
<1>6. p \in N => ~ Row(U.path, a, p)
  <2> SUFFICES ASSUME p \in N, Row(U.path, a, p)
               PROVE  FALSE
    OBVIOUS
  <2>1. p \in Parents(U.path, u)
    BY <1>1, PlacedParent
  <2>2. Row(U.path, p, u)
    BY <1>2, <2>1, ParentNodes
  <2>3. Row(U.path, a, u)
    BY <1>2, <2>2, RowTrans
  <2> QED
    BY <2>3
<1>7. ASSUME NEW c, Row(U.path, a, c)
      PROVE  Row(T.path, a, c)
  <2>1. SUFFICES ASSUME Row(T.path, a, p)
                 PROVE  FALSE
    BY <1>2, <1>7
  <2>2. p \in N
    BY <1>1, <2>1, RowNodes
  <2> QED
    BY <1>5, <1>6, <2>1, <2>2
<1>8. /\ \A d \in N \ {u} : Parents(U.path, d) = Parents(T.path, d)
      /\ \A d \in Uid \ {u} : U.type[d] = T.type[d]
  BY PlacedSpread
<1>9. ASSUME NEW c, Row(T.path, a, c), c # a
      PROVE  U.sort[c] = T.sort[c]
  <2>1. a \in N /\ c \in N /\ c \in Uid /\ c # u /\ Row(U.path, a, c) /\ a \in Uid
    BY <1>1, <1>5, <1>9, RowNodes
  <2>2. p \in N => c \notin Others(T, u, pos, t)
    <3> SUFFICES ASSUME p \in N, c \in Others(T, u, pos, t)
                 PROVE  FALSE
      OBVIOUS
    <3>1. p \in Parents(U.path, c)
      BY OthersAre
    <3>2. p # c /\ Row(U.path, p, c) /\ p \in Uid
      BY <1>1, <1>2, <3>1, ParentNodes
    <3>3. Row(U.path, a, p) \/ Row(U.path, p, a)
      BY <1>2, <2>1, <3>2, RowLine
    <3>4. Row(U.path, p, a)
      BY <1>6, <3>3
    <3>5. ~ (a = p)
      BY <1>6, <3>4
    <3>6. a = c
      BY <1>2, <2>1, <3>1, <3>4, <3>5, NothingBetween
    <3> QED
      BY <1>9, <3>6
  <2>3. /\ p \in N => U.sort[c] = IF c \in Others(T, u, pos, t) /\ T.sort[c] >= SortAt(T, u, pos, t)
                                  THEN T.sort[c] + 1 ELSE T.sort[c]
        /\ p \notin N => U.sort[c] = T.sort[c]
    BY <2>1, PlacedSorts
  <2> QED
    BY <2>2, <2>3
<1>10. ASSUME NEW c, Row(T.path, a, c), c # a
       PROVE  c \in N \ {u} /\ c \in Uid \ {u}
  BY <1>1, <1>10, RowNodes
<1> QED
  BY <1>5, <1>7, <1>8, <1>9, <1>10 DEF Same

\* From T to U, where the nodes M are left, u is put under p and nothing else is
\* moved.
Moving(T, U, M, u, p) ==
    /\ Spread(U, M)
    /\ Stays(T, U, M \ {u})
    /\ \A a, c : Row(U.path, a, c) => Row(T.path, a, c) \/ (Row(T.path, a, p) /\ Row(T.path, u, c))
    /\ \A a : ~ Row(T.path, a, u) /\ ~ Row(U.path, a, u) => Same(T, U, a)

LEMMA PlacedSteps ==
    ASSUME NEW T, NEW N, Spread(T, N), NEW u \in N, NEW pos \in Positions, NEW t \in Uid,
           CanPlace(T, u, pos, t), NEW U, U = Placed(T, u, pos, t)
    PROVE  Moving(T, U, N, u, ParentAt(T, pos, t))
<1>1. Tree(T.path, N) /\ N \in SUBSET Uid /\ ~ Row(T.path, u, ParentAt(T, pos, t))
  BY TreeTyped DEF Spread, CanPlace
<1>2. /\ Spread(U, N)
      /\ \A d \in N \ {u} : Parents(U.path, d) = Parents(T.path, d)
      /\ \A d \in Uid \ {u} : U.type[d] = T.type[d]
      /\ Kept(T, U, u)
  BY PlacedSpread
<1>3. Stays(T, U, N \ {u})
  <2>1. \A d \in N \ {u} : Parents(U.path, d) = Parents(T.path, d) /\ U.type[d] = T.type[d]
    BY <1>1, <1>2
  <2> QED
    BY <1>2, <2>1 DEF Stays, Kept
<1>4. \A a, c : Row(U.path, a, c) =>
                 Row(T.path, a, c) \/ (Row(T.path, a, ParentAt(T, pos, t)) /\ Row(T.path, u, c))
  BY <1>1, PlacedTree
<1>5. \A a : ~ Row(T.path, a, u) /\ ~ Row(U.path, a, u) => Same(T, U, a)
  BY PlacedSame
<1> QED
  BY <1>2, <1>3, <1>4, <1>5 DEF Moving

LEMMA DroppedSteps ==
    ASSUME NEW T, NEW N, Spread(T, N), NEW S,
           \A a, b : a \in S /\ Row(T.path, a, b) => b \in S,
           NEW U, U = Dropped(T, S)
    PROVE  /\ Spread(U, N \ S)
           /\ Stays(T, U, N \ S)
           /\ \A a, c : Row(U.path, a, c) <=> Row(T.path, a, c) /\ c \notin S
           /\ \A a : (\A e \in S : ~ Row(T.path, a, e)) => Same(T, U, a)
<1>1. Tree(T.path, N) /\ N \in SUBSET Uid
  BY TreeTyped DEF Spread
<1>2. /\ Spread(U, N \ S)
      /\ \A d \in Uid \ S : /\ Parents(U.path, d) = Parents(T.path, d)
                            /\ U.type[d] = T.type[d] /\ U.sort[d] = T.sort[d]
  BY DroppedSpread
<1>3. Stays(T, U, N \ S)
  BY <1>1, <1>2 DEF Stays
<1>4. \A a, c : Row(U.path, a, c) <=> Row(T.path, a, c) /\ c \notin S
  BY DEF Dropped, Pruned, Row
<1>5. ASSUME NEW a, \A e \in S : ~ Row(T.path, a, e)
      PROVE  Same(T, U, a)
  <2>1. \A c : Row(T.path, a, c) => c \in Uid \ S
    <3> TAKE c
    <3> HAVE Row(T.path, a, c)
    <3>1. c \in N
      BY <1>1, RowNodes
    <3> QED
      BY <1>1, <1>5, <3>1
  <2> QED
    BY <1>2, <1>4, <2>1 DEF Same
<1> QED
  BY <1>2, <1>3, <1>4, <1>5

LEMMA CutSteps ==
    ASSUME NEW T, NEW N, Spread(T, N), NEW u \in N, NEW U,
           U.path = Cut(T.path, u), U.type = T.type, U.sort = [T.sort EXCEPT ![u] = NoSort]
    PROVE  /\ Spread(U, N)
           /\ Stays(T, U, N \ {u})
           /\ \A a : ~ Row(T.path, a, u) => Same(T, U, a)
<1>1. /\ Tree(T.path, N) /\ N \in SUBSET Uid /\ u \in Uid
      /\ T.path \in SUBSET Rows3
  BY TreeTyped DEF Spread
<1>2. /\ Spread(U, N)
      /\ \A d \in N \ {u} : Parents(U.path, d) = Parents(T.path, d)
      /\ \A d \in Uid \ {u} : U.sort[d] = T.sort[d]
  BY CutSpread
<1>3. Stays(T, U, N \ {u})
  BY <1>1, <1>2 DEF Stays
<1>4. U.path \in SUBSET Rows3 /\ \A x, y : Row(U.path, x, y) => Row(T.path, x, y)
  <2>1. Tree(Cut(T.path, u), N) /\ \A x, y : Row(Cut(T.path, u), x, y) => Row(T.path, x, y)
    BY <1>1, CutTree
  <2>2. Cut(T.path, u) \in SUBSET Rows3
    BY <2>1, TreeTyped
  <2> QED
    BY <2>1, <2>2
<1>5. ASSUME NEW a, ~ Row(T.path, a, u)
      PROVE  Same(T, U, a)
  <2>1. ASSUME NEW c, Row(T.path, a, c)
        PROVE  Row(U.path, a, c) /\ (c # a => c \in Uid \ {u} /\ c \in N)
    <3>1. PICK i \in Nat : a \in Uid /\ c \in Uid /\ <<a, c, i>> \in T.path
      BY <1>1, <2>1, RowIs
    <3>2. <<a, c, i>> \in Cut(T.path, u)
      BY <1>1, <1>5, <3>1, CutRows
    <3>3. c \in N
      BY <1>1, <2>1, RowNodes
    <3> QED
      BY <1>4, <1>5, <2>1, <3>1, <3>2, <3>3, RowIs
  <2> QED
    BY <1>2, <1>4, <2>1 DEF Same
<1> QED
  BY <1>2, <1>3, <1>5

\* the parents that are removed when u leaves them empty
Abandoned(T, U, u, remove, break) ==
    UNION {Emptied(U.path, o, break) : o \in Left(T, U, u, remove)}

\* The nodes of S are on one line of descent.
InLine(P, S) == \A a, b \in S : Row(P, a, b) \/ Row(P, b, a)

\* What an insertion shows: u is put among the nodes N and S, in a wrap whose
\* root is r or on its own, and what it abandons is gone.
Inserted(T, U, N, S, gone, u, r) ==
    /\ u \notin gone
    /\ InLine(T.path, N \cap gone)
    /\ Spread(U, (N \cup S) \ gone)
    /\ Stays(T, U, (N \ gone) \ {u})
    /\ \A a \in N : ~ Row(T.path, a, u) /\ ~ Row(U.path, a, r) => Same(T, U, a)

\* A node is moved, and the parents that it leaves empty are removed: it is not
\* removed, and what is removed was above it.
LEMMA MoveSteps ==
    ASSUME NEW T, NEW N, Spread(T, N), NEW u \in N, NEW pos \in Positions, NEW t \in Uid,
           CanPlace(T, u, pos, t), NEW remove, NEW break,
           NEW U, U = Placed(T, u, pos, t),
           NEW gone, gone = Abandoned(T, U, u, remove, break),
           NEW V, V = Dropped(U, gone)
    PROVE  /\ \A e \in gone : Row(T.path, e, u) /\ e # u
           /\ Moving(T, V, N \ gone, u, ParentAt(T, pos, t))
<1>1. /\ Tree(T.path, N) /\ N \in SUBSET Uid /\ u \in Uid
      /\ T.path \in SUBSET Rows3
      /\ ~ Row(T.path, u, ParentAt(T, pos, t))
  BY TreeTyped DEF Spread, CanPlace
<1>2. /\ Spread(U, N)
      /\ Stays(T, U, N \ {u})
      /\ \A a : ~ Row(T.path, a, u) /\ ~ Row(U.path, a, u) => Same(T, U, a)
      /\ \A a, c : Row(U.path, a, c) =>
            Row(T.path, a, c) \/ (Row(T.path, a, ParentAt(T, pos, t)) /\ Row(T.path, u, c))
  BY PlacedSteps DEF Moving
<1>3. Tree(U.path, N) /\ U.path \in SUBSET Rows3
  BY <1>2, TreeTyped DEF Spread
\* what reaches a parent that is left reached u
<1>4. ASSUME NEW o \in Left(T, U, u, remove)
      PROVE  /\ ~ Row(U.path, u, o)
             /\ \A a : Row(U.path, a, o) => Row(T.path, a, u)
  <2>1. o \in Parents(T.path, u)
    BY DEF Left
  <2>2. ~ Row(T.path, u, o) /\ ~ Row(U.path, u, o)
    BY <1>1, <2>1, LeftIsAbove
  <2>3. Row(T.path, o, u)
    BY <1>1, <2>1, ParentNodes
  <2>4. \A a : Row(U.path, a, o) => Row(T.path, a, o)
    BY <1>2, <2>2
  <2>5. \A a : Row(T.path, a, o) => Row(T.path, a, u)
    BY <1>1, <2>3, RowTrans
  <2> QED
    BY <2>2, <2>4, <2>5
<1>5. ASSUME NEW e \in gone
      PROVE  e # u /\ \A a : Row(U.path, a, e) => Row(T.path, a, u)
  <2>1. PICK o \in Left(T, U, u, remove) : e \in Emptied(U.path, o, break)
    BY DEF Abandoned
  <2>2. Row(U.path, e, o)
    BY <1>3, <2>1, ReachedIs DEF Emptied
  <2>3. \A a : Row(U.path, a, e) => Row(U.path, a, o)
    BY <1>3, <2>2, RowTrans
  <2> QED
    BY <1>4, <2>2, <2>3
<1>6. ASSUME NEW e \in gone
      PROVE  Row(T.path, e, u)
  <2>1. PICK o \in Left(T, U, u, remove) : e \in Emptied(U.path, o, break)
    BY DEF Abandoned
  <2>2. Row(U.path, e, o)
    BY <1>3, <2>1, ReachedIs DEF Emptied
  <2> QED
    BY <1>4, <2>2
<1>7. \A a, b : a \in gone /\ Row(U.path, a, b) => b \in gone
  BY <1>3, EmptiedDown DEF Abandoned
<1>8. /\ Spread(V, N \ gone)
      /\ Stays(U, V, N \ gone)
      /\ \A a, c : Row(V.path, a, c) <=> Row(U.path, a, c) /\ c \notin gone
      /\ \A a : (\A e \in gone : ~ Row(U.path, a, e)) => Same(U, V, a)
  BY <1>2, <1>7, DroppedSteps
<1>9. Stays(T, V, (N \ gone) \ {u})
  BY <1>2, <1>8, StaysTrans
<1>10. ASSUME NEW a, ~ Row(T.path, a, u), ~ Row(V.path, a, u)
       PROVE  Same(T, V, a)
  <2>1. u \notin gone
    BY <1>5
  <2>2. ~ Row(U.path, a, u)
    BY <1>8, <1>10, <2>1
  <2>3. \A e \in gone : ~ Row(U.path, a, e)
    BY <1>5, <1>10
  <2> QED
    BY <1>2, <1>8, <1>10, <2>2, <2>3, SameTrans
<1> QED
  BY <1>2, <1>5, <1>6, <1>8, <1>9, <1>10 DEF Moving

LEMMA AdjacentSteps ==
    ASSUME NEW T0, NEW N, Spread(T0, N), NEW s, Seed(s), s.nodes \cap N = {},
           NEW u \in N \cup s.nodes, NEW pos \in Positions, NEW t \in Uid,
           NEW T1, T1 = Grown(T0, s),
           CanPlace(T1, u, pos, t), NEW remove, NEW break,
           NEW T2, T2 = Placed(T1, u, pos, t),
           NEW gone, gone = Abandoned(T1, T2, u, remove, break),
           NEW T3, T3 = Dropped(T2, gone)
    PROVE  Inserted(T0, T3, N, s.nodes, gone, u, u)
<1>1. /\ Spread(T1, N \cup s.nodes)
      /\ Stays(T0, T1, N)
      /\ \A a \in N : Same(T0, T1, a)
  BY GrownSteps
<1>2. /\ \A e \in gone : Row(T1.path, e, u) /\ e # u
      /\ Spread(T3, (N \cup s.nodes) \ gone)
      /\ Stays(T1, T3, ((N \cup s.nodes) \ gone) \ {u})
      /\ \A a : ~ Row(T1.path, a, u) /\ ~ Row(T3.path, a, u) => Same(T1, T3, a)
  <2> DEFINE M == N \cup s.nodes
             p == ParentAt(T1, pos, t)
  <2>1. Spread(T1, M) /\ u \in M
    BY <1>1
  <2>2. (\A e \in gone : Row(T1.path, e, u) /\ e # u) /\ Moving(T1, T3, M \ gone, u, p)
    <3> HIDE DEF M
    <3> QED
      BY <2>1, MoveSteps
  <2> HIDE DEF p
  <2> QED
    BY <2>2 DEF Moving
<1>3. Stays(T0, T3, (N \ gone) \ {u})
  BY <1>1, <1>2, StaysTrans
<1>4. ASSUME NEW a \in N, ~ Row(T0.path, a, u), ~ Row(T3.path, a, u)
      PROVE  Same(T0, T3, a)
  <2>1. Same(T0, T1, a)
    BY <1>1
  <2>2. ~ Row(T1.path, a, u)
    BY <1>4, <2>1 DEF Same
  <2>3. Same(T1, T3, a)
    BY <1>2, <1>4, <2>2
  <2> QED
    BY <2>1, <2>3, SameTrans
<1>5. InLine(T0.path, N \cap gone)
  <2> SUFFICES ASSUME NEW a \in N \cap gone, NEW b \in N \cap gone
               PROVE  Row(T0.path, a, b) \/ Row(T0.path, b, a)
    BY DEF InLine
  <2>1. Tree(T1.path, N \cup s.nodes) /\ Row(T1.path, a, u) /\ Row(T1.path, b, u)
    BY <1>1, <1>2 DEF Spread
  <2>2. Row(T1.path, a, b) \/ Row(T1.path, b, a)
    BY <2>1, RowLine
  <2> QED
    BY <1>1, <2>2 DEF Same
<1> QED
  BY <1>2, <1>3, <1>4, <1>5 DEF Inserted

LEMMA WrappedSteps ==
    ASSUME NEW T0, NEW N, Spread(T0, N), NEW s, Seed(s), s.nodes \cap N = {},
           NEW u \in N \cup s.nodes, NEW pos \in Positions, NEW t \in Uid,
           NEW w \in NewSchemas, w.nodes \cap (N \cup s.nodes) = {},
           NEW T1, T1 = Grown(Grown(T0, s), w),
           NEW remove, NEW break,
           NEW T2, T2 = Placed(T1, u, "afterBegin", Bottom(w)),
           NEW gone, gone = Abandoned(T1, T2, u, remove, break),
           NEW T3, T3 = Dropped(T2, gone),
           CanPlace(T3, w.root, pos, t),
           NEW T4, T4 = Placed(T3, w.root, pos, t)
    PROVE  Inserted(T0, T4, N, s.nodes \cup w.nodes, gone, u, w.root)
<1> DEFINE S == Grown(T0, s)
           M == N \cup s.nodes
           L == M \cup w.nodes
<1>1. Seed(w) /\ w.root \in w.nodes /\ Bottom(w) \in w.nodes /\ w.nodes \in SUBSET Uid
  BY NewSchemaSeed, NewSchemaChart, BottomIsNode DEF Chart
<1>2. /\ Spread(S, M)
      /\ Stays(T0, S, N)
      /\ \A a \in N : Same(T0, S, a)
  BY GrownSteps
<1>3. T1 = Grown(S, w) /\ w.nodes \cap M = {} /\ N \subseteq M /\ u \in M /\ M \subseteq L /\ w.nodes \subseteq L
  OBVIOUS
<1> HIDE DEF S
<1>4. Tree(S.path, M)
  BY <1>2 DEF Spread
<1> HIDE DEF M
<1>5. /\ Spread(T1, L)
      /\ Stays(S, T1, M)
      /\ \A a \in M : Same(S, T1, a)
      /\ \A a, c : Row(T1.path, a, c) => Row(S.path, a, c) \/ (a \in w.nodes /\ c \in w.nodes)
  BY <1>1, <1>2, <1>3, GrownSteps
\* nothing else is above the wrap, and it is not above anything else
<1>6. \A a, c : Row(S.path, a, c) => a \in M /\ c \in M
  BY <1>4, RowNodes
<1>7. \A a, c : Row(T1.path, a, c) => (a \in w.nodes <=> c \in w.nodes)
  BY <1>3, <1>5, <1>6
<1>8. ParentAt(T1, "afterBegin", Bottom(w)) = Bottom(w)
  BY DEF ParentAt, Beside
<1>9. CanPlace(T1, u, "afterBegin", Bottom(w))
  BY <1>1, <1>3, <1>7, <1>8 DEF CanPlace, Beside
<1>10. "afterBegin" \in Positions /\ Bottom(w) \in Uid /\ u \in L
  BY <1>1, <1>3 DEF Positions
<1> HIDE DEF L
<1>11. /\ \A e \in gone : Row(T1.path, e, u) /\ e # u
       /\ Spread(T3, L \ gone)
       /\ Stays(T1, T3, (L \ gone) \ {u})
       /\ \A a, c : Row(T3.path, a, c) =>
             Row(T1.path, a, c) \/ (Row(T1.path, a, Bottom(w)) /\ Row(T1.path, u, c))
       /\ \A a : ~ Row(T1.path, a, u) /\ ~ Row(T3.path, a, u) => Same(T1, T3, a)
  <2>1. (\A e \in gone : Row(T1.path, e, u) /\ e # u) /\ Moving(T1, T3, L \ gone, u, Bottom(w))
    BY <1>5, <1>8, <1>9, <1>10, MoveSteps
  <2> QED
    BY <2>1 DEF Moving
<1>12. w.root \in L \ gone /\ w.root \notin N
  BY <1>1, <1>3, <1>7, <1>11
<1>13. /\ Spread(T4, L \ gone)
       /\ Stays(T3, T4, (L \ gone) \ {w.root})
       /\ \A a : ~ Row(T3.path, a, w.root) /\ ~ Row(T4.path, a, w.root) => Same(T3, T4, a)
  <2> DEFINE K == L \ gone
             p == ParentAt(T3, pos, t)
  <2>1. Spread(T3, K) /\ w.root \in K
    BY <1>11, <1>12
  <2>2. Moving(T3, T4, K, w.root, p)
    <3> HIDE DEF K
    <3> QED
      BY <2>1, PlacedSteps
  <2> HIDE DEF p
  <2> QED
    BY <2>2 DEF Moving
<1>14. Stays(T0, T4, (N \ gone) \ {u})
  <2> DEFINE K == (N \ gone) \ {u}
  <2>1. K \subseteq N /\ K \subseteq M /\ K \subseteq (L \ gone) \ {u} /\ K \subseteq (L \ gone) \ {w.root}
    BY <1>3, <1>12
  <2> HIDE DEF K
  <2>2. Stays(T0, T1, K)
    BY <1>2, <1>5, <2>1, StaysTrans
  <2>3. Stays(T1, T4, K)
    BY <1>11, <1>13, <2>1, StaysTrans
  <2>4. Stays(T0, T4, K)
    BY <2>2, <2>3, StaysTrans
  <2> QED
    BY <2>4 DEF K
<1>15. ASSUME NEW a \in N, ~ Row(T0.path, a, u), ~ Row(T4.path, a, w.root)
       PROVE  Same(T0, T4, a)
  <2>1. a \in M /\ a \notin w.nodes
    BY <1>3
  <2>2. Same(T0, S, a) /\ Same(S, T1, a)
    BY <1>2, <1>5, <2>1
  <2>3. Same(T0, T1, a)
    BY <2>2, SameTrans
  <2>4. ~ Row(T1.path, a, u)
    BY <1>15, <2>3 DEF Same
  <2>5. ~ Row(T1.path, a, Bottom(w)) /\ ~ Row(T1.path, a, w.root)
    BY <1>1, <1>7, <2>1
  <2>6. ~ Row(T3.path, a, u) /\ ~ Row(T3.path, a, w.root)
    BY <1>11, <2>4, <2>5
  <2>7. Same(T1, T3, a) /\ Same(T3, T4, a)
    BY <1>11, <1>13, <1>15, <2>4, <2>6
  <2>8. Same(T0, T3, a)
    BY <2>3, <2>7, SameTrans
  <2> QED
    BY <2>7, <2>8, SameTrans
<1>16. InLine(T0.path, N \cap gone)
  <2> SUFFICES ASSUME NEW a \in N \cap gone, NEW b \in N \cap gone
               PROVE  Row(T0.path, a, b) \/ Row(T0.path, b, a)
    BY DEF InLine
  <2>1. Tree(T1.path, L) /\ Row(T1.path, a, u) /\ Row(T1.path, b, u)
    BY <1>5, <1>11 DEF Spread
  <2>2. Row(T1.path, a, b) \/ Row(T1.path, b, a)
    BY <2>1, RowLine
  <2>3. Same(T0, S, a) /\ Same(S, T1, a) /\ Same(T0, S, b) /\ Same(S, T1, b)
    BY <1>2, <1>3, <1>5
  <2> QED
    BY <2>2, <2>3 DEF Same
<1>17. L \ gone = (N \cup (s.nodes \cup w.nodes)) \ gone
  BY DEF L, M
<1> QED
  BY <1>11, <1>13, <1>14, <1>15, <1>16, <1>17 DEF Inserted

LEMMA RemoveSteps ==
    ASSUME NEW T, NEW N, Spread(T, N), NEW u \in N, NEW parents, NEW break,
           NEW gone, gone = Under(T.path, u) \cup
                               (IF parents THEN Single(T.path, u, break) ELSE {}),
           NEW U, U = Dropped(T, gone)
    PROVE  /\ Spread(U, N \ gone)
           /\ Stays(T, U, N \ gone)
           /\ \A a : a \notin gone /\ ~ Row(T.path, a, u) => Same(T, U, a)
<1>1. Tree(T.path, N) /\ T.path \in SUBSET Rows3
  BY TreeTyped DEF Spread
<1>2. \A a, b : a \in gone /\ Row(T.path, a, b) => b \in gone
  <2> TAKE a, b
  <2> HAVE a \in gone /\ Row(T.path, a, b)
  <2>1. CASE a \in Under(T.path, u)
    <3>1. Row(T.path, u, a)
      BY <1>1, <2>1, ReachedIs
    <3>2. Row(T.path, u, b)
      BY <1>1, <3>1, RowTrans
    <3> QED
      BY <1>1, <3>2, ReachedIs
  <2>2. CASE parents /\ a \in Single(T.path, u, break)
    <3>1. b \in Under(T.path, u) \cup Single(T.path, u, break)
      BY <1>1, <2>2, SingleDown
    <3> QED
      BY <2>2, <3>1
  <2> QED
    BY <2>1, <2>2
<1>3. \A e \in gone : Row(T.path, e, u) \/ Row(T.path, u, e)
  BY <1>1, ReachedIs DEF Single
<1>4. ASSUME NEW a, a \notin gone, ~ Row(T.path, a, u), NEW e \in gone, Row(T.path, a, e)
      PROVE  FALSE
  <2>1. CASE Row(T.path, e, u)
    BY <1>1, <1>4, <2>1, RowTrans
  <2>2. CASE Row(T.path, u, e)
    <3>1. Row(T.path, u, a)
      BY <1>1, <1>4, <2>2, RowLine
    <3>2. a \in Under(T.path, u)
      BY <1>1, <3>1, ReachedIs
    <3> QED
      BY <1>4, <3>2
  <2> QED
    BY <1>3, <1>4, <2>1, <2>2
<1>5. /\ Spread(U, N \ gone)
      /\ Stays(T, U, N \ gone)
      /\ \A a : (\A e \in gone : ~ Row(T.path, a, e)) => Same(T, U, a)
  BY <1>2, DroppedSteps
<1> QED
  BY <1>4, <1>5

-----------------------------------------------------------------------------
(* The invariant *)

\* The invariant: the tables are those of a finite forest whose nodes have
\* places of their own.
PlacesInv == Spread(Tables, schemas)

\* Every node that stays stays where it is, but for m.
OthersStay(m) == Stays(Tables, Tables', (schemas \cap schemas') \ {m})

\* What an operation must show: the tables it commits have places that differ,
\* nodes but m stay, and a read of a node changes only when it is in clear.
LEMMA CommittedSteps ==
    ASSUME PlacesInv, NEW T, NEW N, NEW clear, Commit(T, N),
           Spread(T, N), NEW K, Stays(Tables, T, K), NEW m, (schemas \cap N) \ {m} \subseteq K,
           \A a \in schemas \cap N : a \notin clear => Same(Tables, T, a)
    PROVE  PlacesInv' /\ OthersStay(m) /\ Changed \subseteq clear
<1> DEFINE R == [path |-> T.path, type |-> T.type, sort |-> T.sort]
<1>1. Tables' = R /\ schemas' = N
  BY DEF Commit, Tables
<1>2. R.path = T.path /\ R.type = T.type /\ R.sort = T.sort
  OBVIOUS
<1> HIDE DEF R
<1>3. Spread(R, N)
  BY <1>2 DEF Spread
<1>4. Stays(Tables, R, (schemas \cap N) \ {m})
  BY <1>2 DEF Stays
<1>5. Tree(Tables.path, schemas) /\ Tree(R.path, N)
  BY <1>3 DEF PlacesInv, Spread
<1>6. \A a \in schemas \cap N : a \notin clear => Same(Tables, R, a)
  BY <1>2 DEF Same
<1>7. \A a \in schemas \cap N : a \notin clear => Content(R, a) = Content(Tables, a)
  BY <1>5, <1>6, SameContent
<1>8. Changed \subseteq clear
  BY <1>1, <1>7 DEF Changed
<1>9. Stays(Tables, Tables', (schemas \cap schemas') \ {m})
  BY <1>1, <1>4
<1> QED
  BY <1>1, <1>3, <1>8, <1>9 DEF PlacesInv, OthersStay

-----------------------------------------------------------------------------
(* The forest of SchemaForest *)

OneOf(S) == IF S = {} THEN NoType ELSE CHOOSE p \in S : TRUE

\* what Forest substitutes for the variable of SchemaForest
ParentMap(P, N) == [u \in N |-> OneOf(Parents(P, u))]

LEMMA ParentMapIs ==
    ASSUME NEW P, NEW N, Tree(P, N), NEW d \in N
    PROVE  /\ ParentMap(P, N)[d] \in N \cup {NoType}
           /\ \A p \in Uid : ParentMap(P, N)[d] = p <=> <<p, d, 1>> \in P
<1>1. d \in Uid /\ P \in SUBSET Rows3 /\ N \in SUBSET Uid
  BY DEF Tree
<1>2. CASE Parents(P, d) = {}
  <2>1. ParentMap(P, N)[d] = NoType
    BY <1>2 DEF ParentMap, OneOf
  <2>2. NoType \notin Uid
    BY ConstantsAssumption
  <2> QED
    BY <1>1, <1>2, <2>1, <2>2, ParentIs
<1>3. ASSUME NEW q \in Parents(P, d)
      PROVE  /\ ParentMap(P, N)[d] \in N \cup {NoType}
             /\ \A p \in Uid : ParentMap(P, N)[d] = p <=> <<p, d, 1>> \in P
  <2>1. ParentMap(P, N)[d] \in Parents(P, d)
    BY <1>3 DEF ParentMap, OneOf
  <2>2. ParentMap(P, N)[d] = q
    BY <1>1, <2>1, OneParent
  <2>3. q \in Uid /\ <<q, d, 1>> \in P
    BY <1>1, ParentIs
  <2>4. q \in N
    BY <1>1, <2>3 DEF Tree
  <2>5. \A p \in Uid : <<p, d, 1>> \in P => p = q
    BY <1>1, ParentIs, OneParent
  <2> QED
    BY <2>2, <2>3, <2>4, <2>5
<1> QED
  BY <1>2, <1>3

\* The map of the parents of a finite closure table is a forest.
LEMMA MapIsForest ==
    ASSUME NEW P, NEW N, Tree(P, N), IsFiniteSet(N)
    PROVE  Forest!Forest(ParentMap(P, N))
<1> DEFINE f == ParentMap(P, N)
<1>0. DOMAIN f = N
  BY DEF ParentMap
<1>1. \A u \in N : f[u] \in N \cup {NoType}
  BY ParentMapIs
<1>2. ASSUME NEW S \in SUBSET N, S # {}
      PROVE  \E u \in S : f[u] \notin S
  <2>1. PICK u \in S : \A p \in S : Row(P, p, u) => p = u
    BY <1>2, Topmost
  <2>2. u \in Uid /\ N \in SUBSET Uid /\ P \in SUBSET Rows3
    BY DEF Tree
  <2>3. ASSUME f[u] \in S
        PROVE  FALSE
    <3> DEFINE p == f[u]
    <3>1. p \in Uid /\ <<p, u, 1>> \in P
      BY <2>2, <2>3, ParentMapIs
    <3>2. Row(P, p, u)
      BY <2>2, <3>1, RowIs
    <3>3. p = u
      BY <2>1, <2>3, <3>2
    <3> QED
      BY <2>2, <3>1, <3>3, NotOwnParent
  <2> QED
    BY <2>3
<1> HIDE DEF f
<1> QED
  BY <1>0, <1>1, <1>2 DEF Forest!Forest, f

\* What is below a node in the map is what is under it in the table.
LEMMA BelowIsUnder ==
    ASSUME NEW P, NEW N, Tree(P, N), IsFiniteSet(N), NEW u \in N
    PROVE  Forest!Below(ParentMap(P, N), u) = Under(P, u)
<1> DEFINE f == ParentMap(P, N)
<1>0. DOMAIN f = N /\ P \in SUBSET Rows3 /\ N \in SUBSET Uid /\ u \in Uid
  BY DEF ParentMap, Tree
<1>1. \A d : d \in Under(P, u) => d \in N
  BY <1>0, ReachedIs, RowNodes
<1>2. ASSUME NEW d \in Forest!Below(f, u)
      PROVE  d \in Under(P, u)
  <2> DEFINE S == Under(P, u)
  <2>1. S \in SUBSET DOMAIN f
    BY <1>0, <1>1
  <2>2. u \in S
    BY <1>0, OwnRow, ReachedIs
  <2>3. ASSUME NEW c \in N, f[c] \in S
        PROVE  c \in S
    <3>1. f[c] \in Uid
      BY <1>0, <1>1, <2>3
    <3>2. <<f[c], c, 1>> \in P
      BY <3>1, ParentMapIs
    <3>3. Row(P, f[c], c)
      BY <1>0, <3>1, <3>2, RowIs
    <3>4. Row(P, u, f[c])
      BY <1>0, <2>3, ReachedIs
    <3>5. Row(P, u, c)
      BY <3>3, <3>4, RowTrans
    <3> QED
      BY <1>0, <3>5, ReachedIs
  <2> HIDE DEF S, f
  <2>4. d \in S
    BY <1>0, <2>1, <2>2, <2>3, <1>2 DEF Forest!Below
  <2> QED
    BY <2>4 DEF S
<1>3. ASSUME NEW d \in Under(P, u)
      PROVE  d \in Forest!Below(f, u)
  <2>1. ASSUME NEW S \in SUBSET N, u \in S, \A c \in N : f[c] \in S => c \in S, d \notin S
        PROVE  FALSE
    <3>1. PICK x \in Under(P, u) \ S : \A p \in Under(P, u) \ S : Row(P, p, x) => p = x
      <4> DEFINE R == Under(P, u) \ S
      <4>1. R \in SUBSET N /\ R # {}
        BY <1>1, <1>3, <2>1
      <4> HIDE DEF R
      <4>2. \E x \in R : \A p \in R : Row(P, p, x) => p = x
        BY <4>1, Topmost
      <4> QED
        BY <4>2 DEF R
    <3>2. x \in N /\ x \in Uid /\ x # u
      BY <1>0, <1>1, <2>1
    <3>3. Row(P, u, x)
      BY <1>0, ReachedIs
    <3>4. PICK i \in Nat : <<u, x, i>> \in P
      BY <1>0, <3>3, RowIs
    <3>5. PICK p \in Uid : <<p, x, 1>> \in P /\ i - 1 \in Nat /\ <<u, p, i - 1>> \in P
      BY <1>0, <3>2, <3>4 DEF Tree
    <3>6. Row(P, u, p) /\ Row(P, p, x)
      BY <1>0, <3>2, <3>5, RowIs
    <3>7. f[x] = p
      BY <3>2, <3>5, ParentMapIs
    <3>8. p \notin S
      BY <2>1, <3>1, <3>2, <3>7
    <3>9. p \in Under(P, u)
      BY <1>0, <3>6, ReachedIs
    <3>10. p = x
      BY <3>1, <3>6, <3>8, <3>9
    <3> QED
      BY <3>2, <3>5, <3>10, NotOwnParent
  <2>2. d \in N
    BY <1>1, <1>3
  <2> HIDE DEF f
  <2> QED
    BY <1>0, <2>1, <2>2 DEF Forest!Below
<1> HIDE DEF f
<1>4. Forest!Below(f, u) = Under(P, u)
  BY <1>2, <1>3
<1> QED
  BY <1>4 DEF f

\* An operation that puts u somewhere, and removes what is in one line.
LEMMA IsPlace ==
    ASSUME PlacesInv, PlacesInv', NEW u \in schemas', OthersStay(u),
           InLine(path, schemas \ schemas')
    PROVE  Forest!Place(u)
<1> DEFINE f == ParentMap(path, schemas)
           g == ParentMap(path', schemas')
<1>0. /\ Tables.path = path /\ Tables'.path = path'
      /\ Tree(path, schemas) /\ IsFiniteSet(schemas)
      /\ Tree(path', schemas') /\ IsFiniteSet(schemas')
  BY DEF Tables, PlacesInv, Spread
<1>1. DOMAIN f = schemas /\ DOMAIN g = schemas' /\ path \in SUBSET Rows3
  BY <1>0, TreeTyped DEF ParentMap
<1>2. Forest!Forest(g)
  BY <1>0, MapIsForest
<1>3. \A d \in (schemas \cap schemas') \ {u} : g[d] = f[d]
  BY <1>0 DEF ParentMap, OthersStay, Stays
<1>4. \A a, b \in schemas \ schemas' : a \in Forest!Below(f, b) \/ b \in Forest!Below(f, a)
  BY <1>0, <1>1, BelowIsUnder, ReachedIs DEF InLine
<1>5. /\ u \in DOMAIN g
      /\ Forest!Forest(g)
      /\ \A d \in (DOMAIN f \cap DOMAIN g) \ {u} : g[d] = f[d]
      /\ \A a, b \in DOMAIN f \ DOMAIN g : a \in Forest!Below(f, b) \/ b \in Forest!Below(f, a)
  BY <1>1, <1>2, <1>3, <1>4
<1> QED
  BY <1>5 DEF Forest!Place, Forest!Gone, ParentMap, OneOf

\* An operation that takes the subtree of u away.
LEMMA IsRemove ==
    ASSUME PlacesInv, NEW u \in schemas, schemas' = schemas \ Under(path, u),
           \A d \in schemas' : Parents(path', d) = Parents(path, d)
    PROVE  Forest!Remove(u)
<1> DEFINE f == ParentMap(path, schemas)
           g == ParentMap(path', schemas')
<1>0. Tables.path = path /\ Tree(path, schemas) /\ IsFiniteSet(schemas)
  BY DEF Tables, PlacesInv, Spread
<1>1. DOMAIN f = schemas
  BY DEF ParentMap
<1>2. Forest!Below(f, u) = Under(path, u)
  BY <1>0, BelowIsUnder
<1>3. g = [d \in schemas \ Under(path, u) |-> f[d]]
  BY DEF ParentMap
<1>4. u \in DOMAIN f /\ g = Forest!Without(f, Forest!Below(f, u))
  BY <1>1, <1>2, <1>3 DEF Forest!Without
<1> QED
  BY <1>4 DEF Forest!Remove, ParentMap, OneOf

\* A step of SchemaForest that leaves all but one node where it is.
ForestStep ==
    /\ Forest!Next \/ UNCHANGED <<path, schemas>>
    /\ \E m \in Uid : OthersStay(m)

-----------------------------------------------------------------------------
(* The operations *)

LEMMA NewSchemaPlaces ==
    ASSUME PlacesInv, NEW s \in NewSchemas, InsertNewSchema(s)
    PROVE  PlacesInv' /\ OthersStay(s.root) /\ Forest!Place(s.root) /\ Changed = {}
<1> DEFINE T == Grown(Tables, s)
           N == schemas \cup s.nodes
<1>1. s.nodes \cap schemas = {} /\ Commit(T, N)
  BY DEF InsertNewSchema
<1>2. Spread(Tables, schemas) /\ Seed(s)
  BY NewSchemaSeed DEF PlacesInv
<1>3. Spread(T, N) /\ Stays(Tables, T, schemas) /\ \A a \in schemas : Same(Tables, T, a)
  BY <1>1, <1>2, GrownSteps
<1>4. (schemas \cap N) \ {s.root} \subseteq schemas
  OBVIOUS
<1>5. schemas' = N /\ s.root \in N /\ schemas \ N = {}
  BY <1>1, NewSchemaChart DEF Commit
<1> HIDE DEF T, N
<1>6. PlacesInv' /\ OthersStay(s.root) /\ Changed \subseteq {}
  BY <1>1, <1>3, <1>4, CommittedSteps
<1>7. Forest!Place(s.root)
  BY <1>5, <1>6, IsPlace DEF InLine
<1> QED
  BY <1>6, <1>7

LEMMA AdjacentPlaces ==
    ASSUME PlacesInv, NEW s, Seed(s), s.nodes \cap schemas = {},
           NEW u \in schemas \cup s.nodes, NEW pos \in Positions, NEW t \in Uid,
           NEW remove, NEW break, InsertAdjacent(s, u, pos, t, remove, break)
    PROVE  /\ PlacesInv' /\ OthersStay(u) /\ Forest!Place(u)
           /\ Changed \subseteq Path(path, u) \cup Path(path', u)
<1> DEFINE T1 == Grown(Tables, s)
           T2 == Placed(T1, u, pos, t)
           gone == Abandoned(T1, T2, u, remove, break)
           T3 == Dropped(T2, gone)
           N == (schemas \cup s.nodes) \ gone
           clear == Path(path, u) \cup Path(T3.path, u)
<1>1. CanPlace(T1, u, pos, t) /\ Commit(T3, N)
  BY DEF InsertAdjacent, Abandoned
<1>2. Spread(Tables, schemas) /\ Tables.path = path
  BY DEF PlacesInv, Tables
<1>3. /\ T1 = Grown(Tables, s) /\ T2 = Placed(T1, u, pos, t)
      /\ gone = Abandoned(T1, T2, u, remove, break) /\ T3 = Dropped(T2, gone)
  OBVIOUS
<1> HIDE DEF T1, T2, gone, T3
<1>4. /\ u \notin gone
      /\ InLine(Tables.path, schemas \cap gone)
      /\ Spread(T3, N)
      /\ Stays(Tables, T3, (schemas \ gone) \ {u})
      /\ \A a \in schemas : ~ Row(Tables.path, a, u) /\ ~ Row(T3.path, a, u) => Same(Tables, T3, a)
  <2>1. Inserted(Tables, T3, schemas, s.nodes, gone, u, u)
    BY <1>3, <1>1, <1>2, AdjacentSteps
  <2> QED
    BY <2>1 DEF Inserted
<1>5. T3.path \in SUBSET Rows3 /\ path \in SUBSET Rows3
  <2>1. Tree(T3.path, N) /\ Tree(path, schemas)
    BY <1>2, <1>4 DEF Spread
  <2> HIDE DEF T3
  <2> QED
    BY <2>1, TreeTyped
<1>6. /\ (schemas \cap N) \ {u} \subseteq (schemas \ gone) \ {u}
      /\ u \in N /\ schemas \ N \subseteq schemas \cap gone
  BY <1>4
<1> HIDE DEF T3, gone, N
<1>7. \A a \in schemas : a \notin clear => Same(Tables, T3, a)
  BY <1>2, <1>4, <1>5, ReachedIs
<1> HIDE DEF clear
<1>8. PlacesInv' /\ OthersStay(u) /\ Changed \subseteq clear
  BY <1>1, <1>4, <1>6, <1>7, CommittedSteps
<1>9. schemas' = N /\ path' = T3.path
  BY <1>1 DEF Commit
<1>10. InLine(path, schemas \ schemas')
  BY <1>2, <1>4, <1>6, <1>9 DEF InLine
<1>11. Forest!Place(u)
  BY <1>6, <1>8, <1>9, <1>10, IsPlace
<1> QED
  BY <1>8, <1>9, <1>11 DEF clear

LEMMA WrappedPlaces ==
    ASSUME PlacesInv, NEW s, Seed(s), s.nodes \cap schemas = {}, NEW w \in NewSchemas,
           NEW u \in schemas \cup s.nodes, NEW pos \in Positions, NEW t \in Uid,
           NEW remove, NEW break, InsertWrapped(s, w, u, pos, t, remove, break)
    PROVE  /\ PlacesInv' /\ OthersStay(u) /\ Forest!Place(u)
           /\ Changed \subseteq Path(path, u) \cup Path(path', w.root)
<1> DEFINE T1 == Grown(Grown(Tables, s), w)
           T2 == Placed(T1, u, "afterBegin", Bottom(w))
           gone == Abandoned(T1, T2, u, remove, break)
           T3 == Dropped(T2, gone)
           T4 == Placed(T3, w.root, pos, t)
           N == (schemas \cup s.nodes \cup w.nodes) \ gone
           clear == Path(path, u) \cup Path(T4.path, w.root)
<1>1. /\ w.nodes \cap (schemas \cup s.nodes) = {}
      /\ CanPlace(T3, w.root, pos, t)
      /\ Commit(T4, N)
  BY DEF InsertWrapped, Abandoned
<1>2. Spread(Tables, schemas) /\ Tables.path = path
  BY DEF PlacesInv, Tables
<1>3. /\ T1 = Grown(Grown(Tables, s), w) /\ T2 = Placed(T1, u, "afterBegin", Bottom(w))
      /\ gone = Abandoned(T1, T2, u, remove, break) /\ T3 = Dropped(T2, gone)
      /\ T4 = Placed(T3, w.root, pos, t)
  OBVIOUS
<1> HIDE DEF T1, T2, gone, T3, T4
<1>4. /\ u \notin gone
      /\ InLine(Tables.path, schemas \cap gone)
      /\ Spread(T4, N)
      /\ Stays(Tables, T4, (schemas \ gone) \ {u})
      /\ \A a \in schemas : ~ Row(Tables.path, a, u) /\ ~ Row(T4.path, a, w.root) => Same(Tables, T4, a)
  <2>1. Inserted(Tables, T4, schemas, s.nodes \cup w.nodes, gone, u, w.root)
    BY <1>3, <1>1, <1>2, WrappedSteps
  <2>2. N = (schemas \cup (s.nodes \cup w.nodes)) \ gone
    OBVIOUS
  <2> QED
    BY <2>1, <2>2 DEF Inserted
<1>5. T4.path \in SUBSET Rows3 /\ path \in SUBSET Rows3
  <2>1. Tree(T4.path, N) /\ Tree(path, schemas)
    BY <1>2, <1>4 DEF Spread
  <2> HIDE DEF T4
  <2> QED
    BY <2>1, TreeTyped
<1>6. /\ (schemas \cap N) \ {u} \subseteq (schemas \ gone) \ {u}
      /\ u \in N /\ schemas \ N \subseteq schemas \cap gone
  BY <1>4
<1> HIDE DEF T4, gone, N
<1>7. \A a \in schemas : a \notin clear => Same(Tables, T4, a)
  BY <1>2, <1>4, <1>5, ReachedIs
<1> HIDE DEF clear
<1>8. PlacesInv' /\ OthersStay(u) /\ Changed \subseteq clear
  BY <1>1, <1>4, <1>6, <1>7, CommittedSteps
<1>9. schemas' = N /\ path' = T4.path
  BY <1>1 DEF Commit
<1>10. InLine(path, schemas \ schemas')
  BY <1>2, <1>4, <1>6, <1>9 DEF InLine
<1>11. Forest!Place(u)
  BY <1>6, <1>8, <1>9, <1>10, IsPlace
<1> QED
  BY <1>8, <1>9, <1>11 DEF clear

LEMMA RemovePlaces ==
    ASSUME PlacesInv, NEW u, NEW parents, NEW break, Remove(u, parents, break)
    PROVE  /\ PlacesInv' /\ OthersStay(u) /\ \E t \in schemas : Forest!Remove(t)
           /\ Changed \subseteq Path(path, u)
<1> DEFINE gone == Under(Tables.path, u) \cup
                      (IF parents THEN Single(Tables.path, u, break) ELSE {})
           T == Dropped(Tables, gone)
           N == schemas \ gone
<1>1. Spread(Tables, schemas) /\ Tables.path = path
  BY DEF PlacesInv, Tables
<1>2. u \in schemas /\ Commit(T, N)
  BY <1>1 DEF Remove
<1>3. /\ Spread(T, N)
      /\ Stays(Tables, T, N)
      /\ \A a : a \notin gone /\ ~ Row(Tables.path, a, u) => Same(Tables, T, a)
  BY <1>1, <1>2, RemoveSteps
<1>4. path \in SUBSET Rows3
  BY <1>1, TreeTyped DEF Spread
<1>5. PICK t \in schemas : gone = Under(path, t)
  BY <1>1, <1>2, RemovedSubtree DEF Spread
<1>6. schemas' = N /\ path' = T.path
  BY <1>2 DEF Commit
<1>7. \A d \in N : Parents(path', d) = Parents(path, d)
  BY <1>1, <1>3, <1>6 DEF Stays
<1>8. N = schemas \ Under(path, t)
  BY <1>5
<1>9. (schemas \cap N) \ {u} \subseteq N /\ \A a \in N : a \notin gone
  OBVIOUS
<1> HIDE DEF T, gone, N
<1>10. \A a \in schemas \cap N : a \notin Path(path, u) => Same(Tables, T, a)
  BY <1>1, <1>3, <1>4, <1>9, ReachedIs
<1>11. PlacesInv' /\ OthersStay(u) /\ Changed \subseteq Path(path, u)
  BY <1>2, <1>3, <1>9, <1>10, CommittedSteps
<1>12. Forest!Remove(t)
  BY <1>6, <1>7, <1>8, IsRemove
<1> QED
  BY <1>11, <1>12

LEMMA ClearAncestorPlaces ==
    ASSUME PlacesInv, NEW u, ClearAncestor(u)
    PROVE  /\ PlacesInv' /\ OthersStay(u) /\ Forest!Place(u)
           /\ Changed \subseteq Path(path, u)
<1> DEFINE T == [Tables EXCEPT !.path = Cut(path, u), !.sort = [sort EXCEPT ![u] = NoSort]]
<1>1. Spread(Tables, schemas) /\ Tables.path = path
  BY DEF PlacesInv, Tables
<1>2. u \in schemas /\ Commit(T, schemas)
  BY DEF ClearAncestor
<1>3. /\ T.path = Cut(Tables.path, u) /\ T.type = Tables.type
      /\ T.sort = [Tables.sort EXCEPT ![u] = NoSort]
  BY DEF Tables
<1> HIDE DEF T
<1>4. /\ Spread(T, schemas)
      /\ Stays(Tables, T, schemas \ {u})
      /\ \A a : ~ Row(Tables.path, a, u) => Same(Tables, T, a)
  BY <1>1, <1>2, <1>3, CutSteps
<1>5. path \in SUBSET Rows3
  BY <1>1, TreeTyped DEF Spread
<1>6. \A a \in schemas \cap schemas : a \notin Path(path, u) => Same(Tables, T, a)
  BY <1>1, <1>4, <1>5, ReachedIs
<1>7. (schemas \cap schemas) \ {u} \subseteq schemas \ {u}
  OBVIOUS
<1>8. PlacesInv' /\ OthersStay(u) /\ Changed \subseteq Path(path, u)
  BY <1>2, <1>4, <1>6, <1>7, CommittedSteps
<1>9. schemas' = schemas
  BY <1>2 DEF Commit
<1>10. Forest!Place(u)
  BY <1>2, <1>8, <1>9, IsPlace DEF InLine
<1> QED
  BY <1>8, <1>10

LEMMA InsertPlaces ==
    ASSUME PlacesInv, Insert
    PROVE  PlacesInv' /\ Forest!Next /\ \E m \in Uid : OthersStay(m)
<1>1. PICK su \in Requested, pos \in Positions, t \in Uid :
          \E rb \in Removals(su[2]) :
              \/ InsertAdjacent(su[1], su[2], pos, t, rb[1], rb[2])
              \/ \E w \in Wraps : InsertWrapped(su[1], w, su[2], pos, t, rb[1], rb[2])
  BY DEF Insert
<1>2. PICK rb \in Removals(su[2]) :
          \/ InsertAdjacent(su[1], su[2], pos, t, rb[1], rb[2])
          \/ \E w \in Wraps : InsertWrapped(su[1], w, su[2], pos, t, rb[1], rb[2])
  BY <1>1
<1>3. /\ Seed(su[1])
      /\ su[1].nodes \cap schemas = {}
      /\ su[2] \in schemas \cup su[1].nodes
  BY RequestedChart, RequestedSeed
<1>4. ASSUME InsertAdjacent(su[1], su[2], pos, t, rb[1], rb[2])
      PROVE  PlacesInv' /\ OthersStay(su[2]) /\ Forest!Place(su[2])
  BY <1>3, <1>4, AdjacentPlaces
<1>5. ASSUME NEW w \in Wraps, InsertWrapped(su[1], w, su[2], pos, t, rb[1], rb[2])
      PROVE  PlacesInv' /\ OthersStay(su[2]) /\ Forest!Place(su[2])
  <2>1. w \in NewSchemas
    BY DEF Wraps
  <2> QED
    BY <1>3, <1>5, <2>1, WrappedPlaces
<1>6. PlacesInv' /\ OthersStay(su[2]) /\ Forest!Place(su[2])
  BY <1>2, <1>4, <1>5
<1>7. su[2] \in Uid
  <2>1. schemas \in SUBSET Uid /\ su[1].nodes \in SUBSET Uid
    BY <1>3, TreeTyped DEF PlacesInv, Spread, Seed, Chart
  <2> QED
    BY <1>3, <2>1
<1> QED
  BY <1>6, <1>7 DEF Forest!Next

\* What leaves the tables alone leaves the invariant.
LEMMA UnchangedPlaces ==
    ASSUME PlacesInv, UNCHANGED tables
    PROVE  PlacesInv' /\ UNCHANGED <<path, schemas>>
<1>1. Tables' = Tables /\ schemas' = schemas
  BY DEF Tables, tables
<1> QED
  BY <1>1 DEF PlacesInv, tables

LEMMA InitPlaces == Init => PlacesInv
<1> SUFFICES ASSUME Init
             PROVE  PlacesInv
  OBVIOUS
<1>1. Tree(path, schemas)
  BY DEF Init, Tree
<1>2. \A p, c : p \notin Parents(path, c)
  BY DEF Init, Parents
<1>3. IsFiniteSet(schemas)
  BY FS_EmptySet DEF Init
<1>4. type \in [Uid -> Types \cup {NoType}] /\ sort \in [Uid -> Nat]
  BY DEF Init, NoSort
<1>5. Tables.path = path /\ Tables.type = type /\ Tables.sort = sort
  BY DEF Tables
<1>6. Spread(Tables, schemas)
  BY <1>1, <1>2, <1>3, <1>4, <1>5 DEF Spread
<1> QED
  BY <1>6 DEF PlacesInv

LEMMA NextPlaces ==
    ASSUME PlacesInv, Next
    PROVE  PlacesInv' /\ ForestStep
<1>1. ASSUME NEW s \in NewSchemas, InsertNewSchema(s)
      PROVE  PlacesInv' /\ ForestStep
  <2>1. s.root \in Uid
    BY NewSchemaChart DEF Chart
  <2> QED
    BY <1>1, <2>1, NewSchemaPlaces DEF ForestStep, Forest!Next
<1>2. CASE Insert
  BY <1>2, InsertPlaces DEF ForestStep
<1>3. ASSUME NEW u \in Uid, NEW rb \in Removals(u), Remove(u, rb[1], rb[2])
      PROVE  PlacesInv' /\ ForestStep
  <2>1. PICK t \in schemas : PlacesInv' /\ OthersStay(u) /\ Forest!Remove(t)
    BY <1>3, RemovePlaces
  <2>2. t \in Uid
    BY TreeTyped DEF PlacesInv, Spread
  <2> QED
    BY <2>1, <2>2 DEF ForestStep, Forest!Next
<1>4. ASSUME NEW u \in Uid, ClearAncestor(u)
      PROVE  PlacesInv' /\ ForestStep
  BY <1>4, ClearAncestorPlaces DEF ForestStep, Forest!Next
<1> QED
  BY <1>1, <1>2, <1>3, <1>4 DEF Next

LEMMA PlacesInvariant == Spec => []PlacesInv
<1>1. PlacesInv /\ [Next]_tables => PlacesInv'
  BY NextPlaces, UnchangedPlaces
<1> QED
  BY InitPlaces, <1>1, PTL DEF Spec

-----------------------------------------------------------------------------
(* What the invariant says *)

\* The tables and the cache keep their types, whatever the size of the schemas.
THEOREM TypesHold == Spec => []TypeOK
<1>1. PlacesInv => TypeOK
  <2> SUFFICES ASSUME PlacesInv
               PROVE  TypeOK
    OBVIOUS
  <2>1. Tables.path = path /\ Tables.type = type /\ Tables.sort = sort
    BY DEF Tables
  <2>2. path \in SUBSET Rows3 /\ schemas \in SUBSET Uid
    BY <2>1, TreeTyped DEF PlacesInv, Spread
  <2>3. type \in [Uid -> Types \cup {NoType}] /\ sort \in [Uid -> Nat]
    BY <2>1 DEF PlacesInv, Spread
  <2> QED
    BY <2>2, <2>3 DEF TypeOK, PlacesInv, Rows3
<1> QED
  BY PlacesInvariant, <1>1, PTL

\* The rows of uiSchemaTreePath are the closure of a forest over the rows of
\* uiSchemas after any number of inserts, moves, wraps, removals and cuts, of
\* schemas of any size: removing empty parents, a target that is gone with
\* them and a wrap around a moved node included.
THEOREM ForestIsClosed == Spec => []ClosureTable
<1>1. PlacesInv => ClosureTable
  <2> SUFFICES ASSUME PlacesInv
               PROVE  ClosureTable
    OBVIOUS
  <2>1. Tree(path, schemas)
    BY DEF PlacesInv, Spread, Tables
  <2> QED
    BY <2>1, TreeIsClosed DEF ClosureTable
<1> QED
  BY PlacesInvariant, <1>1, PTL

\* Two nodes that a parent has under one key have different places, however
\* many nodes were put, moved, wrapped or removed there.
THEOREM PlacesDifferHolds == Spec => []PlacesDiffer
<1>1. PlacesInv => PlacesDiffer
  <2> SUFFICES ASSUME PlacesInv, NEW p \in schemas,
                      NEW c \in Children(path, p), NEW d \in Children(path, p)
               PROVE  /\ sort[c] # NoSort
                      /\ c # d /\ type[c] = type[d] => sort[c] # sort[d]
    BY DEF PlacesDiffer
  <2>1. Tables.path = path /\ Tables.type = type /\ Tables.sort = sort
    BY DEF Tables
  <2>2. p \in Parents(path, c) /\ p \in Parents(path, d)
    BY ChildIs
  <2> QED
    BY <2>1, <2>2 DEF PlacesInv, Spread
<1> QED
  BY PlacesInvariant, <1>1, PTL

\* u is in p, where pos says of t.
IsAt(U, u, pos, t, p) ==
    LET others == Siblings(U.path, U.type, p, U.type[u], u)
        S == U.sort
    IN /\ Parents(U.path, u) = {p}
       /\ pos = "afterBegin" => \A c \in others : S[u] < S[c]
       /\ pos = "beforeEnd" => \A c \in others : S[c] < S[u]
       /\ pos = "beforeBegin" =>
             S[u] < S[t] /\ \A c \in others : ~ (S[u] < S[c] /\ S[c] < S[t])
       /\ pos = "afterEnd" =>
             S[t] < S[u] /\ \A c \in others : ~ (S[t] < S[c] /\ S[c] < S[u])

\* A node ends up where the request said.
LEMMA InPlace ==
    ASSUME NEW T, NEW N, Spread(T, N), NEW u \in N, NEW t \in N, NEW pos \in Positions,
           CanPlace(T, u, pos, t)
    PROVE  IsAt(Placed(T, u, pos, t), u, pos, t, ParentAt(T, pos, t))
<1> DEFINE U == Placed(T, u, pos, t)
           p == ParentAt(T, pos, t)
           others == Siblings(U.path, U.type, p, U.type[u], u)
           S == U.sort
<1>1. /\ U = Placed(T, u, pos, t) /\ p = ParentAt(T, pos, t)
      /\ others = Siblings(U.path, U.type, p, U.type[u], u) /\ S = U.sort
  OBVIOUS
<1> HIDE DEF U
<1> HIDE DEF p
<1> HIDE DEF others
<1> HIDE DEF S
<1> DEFINE n == SortAt(T, u, pos, t)
           D == Others(T, u, pos, t)
<1>2. /\ Tree(T.path, N) /\ N \in SUBSET Uid /\ u \in Uid /\ t \in Uid
      /\ T.sort \in [Uid -> Nat]
      /\ ~ Row(T.path, u, p)
  BY <1>1, TreeTyped DEF Spread, CanPlace
\* the parent is a node
<1>3. p \in N /\ (Beside(pos) => t # u /\ p \in Parents(T.path, t))
  <2>1. CASE Beside(pos)
    <3>1. t # u /\ p \in Parents(T.path, t)
      BY <1>1, <2>1, ParentBeside
    <3> QED
      BY <1>2, <3>1, ParentNodes
  <2>2. CASE ~ Beside(pos)
    BY <1>1, <2>2 DEF ParentAt
  <2> QED
    BY <2>1, <2>2
<1>4. Parents(U.path, u) = {p}
  <2>1. ~ Row(T.path, u, ParentAt(T, pos, t))
    BY <1>2, <1>1
  <2>2. \A a : a \in Parents(Placed(T, u, pos, t).path, u) <=> a = ParentAt(T, pos, t) /\ a \in N
    BY <1>2, <2>1, PlacedParent
  <2>3. \A a : a \in Parents(U.path, u) <=> a = p
    BY <1>3, <1>1, <2>2
  <2> QED
    BY <2>3
<1>5. /\ Tree(U.path, N)
      /\ \A d \in N \ {u} : Parents(U.path, d) = Parents(T.path, d)
      /\ \A d \in Uid \ {u} : U.type[d] = T.type[d]
      /\ U.type[u] = KeyAt(T, pos, t)
  <2>1. U.type[u] = KeyAt(T, pos, t)
    BY <1>2, <1>1, PlacedTypes
  <2>2. /\ Spread(U, N)
        /\ \A d \in N \ {u} : Parents(U.path, d) = Parents(T.path, d)
        /\ \A d \in Uid \ {u} : U.type[d] = T.type[d]
    BY <1>2, <1>1, PlacedSpread
  <2> QED
    BY <2>1, <2>2 DEF Spread
<1>6. others = D
  BY <1>5, <1>1 DEF Others, Siblings
<1>7. /\ n \in Nat \ {0}
      /\ pos = "afterBegin" => n = 1
      /\ pos = "beforeEnd" => \A c \in D : T.sort[c] < n
      /\ pos = "beforeBegin" => n = T.sort[t]
      /\ pos = "afterEnd" => n = T.sort[t] + 1
  BY <1>2, SortAtIs
<1>8. /\ S[u] = n
      /\ \A c \in Uid \ {u} : S[c] = IF c \in D /\ T.sort[c] >= n THEN T.sort[c] + 1 ELSE T.sort[c]
  BY <1>2, <1>3, <1>1, PlacedSorts
<1>9. \A c : c \in D <=> c # u /\ p \in Parents(U.path, c) /\ U.type[c] = KeyAt(T, pos, t)
  BY <1>1, OthersAre
<1> HIDE DEF n, D
<1>10. ASSUME NEW c \in D
      PROVE  c \in Uid \ {u} /\ T.sort[c] \in Nat \ {0}
  <2>1. c # u /\ p \in Parents(U.path, c)
    BY <1>9
  <2>2. c \in N
    BY <1>5, <2>1, ParentNodes
  <2>3. p \in Parents(T.path, c)
    BY <1>5, <2>1, <2>2
  <2>4. T.sort[c] # 0
    BY <2>3 DEF Spread, NoSort
  <2> QED
    BY <1>2, <2>1, <2>2, <2>4
<1>11. Beside(pos) => t \in D
  BY <1>2, <1>3, <1>5, <1>9 DEF KeyAt
<1>12. ASSUME NEW c \in D
       PROVE  /\ S[c] = IF T.sort[c] >= n THEN T.sort[c] + 1 ELSE T.sort[c]
              /\ T.sort[c] \in Nat \ {0}
  BY <1>8, <1>10
<1>13. pos = "afterBegin" => \A c \in D : S[u] < S[c]
  BY <1>7, <1>8, <1>12
<1>14. pos = "beforeEnd" => \A c \in D : S[c] < S[u]
  BY <1>7, <1>8, <1>12
<1>15. pos = "beforeBegin" => S[u] < S[t] /\ \A c \in D : ~ (S[u] < S[c] /\ S[c] < S[t])
  BY <1>7, <1>8, <1>11, <1>12 DEF Beside
<1>16. pos = "afterEnd" => S[t] < S[u] /\ \A c \in D : ~ (S[t] < S[c] /\ S[c] < S[u])
  BY <1>7, <1>8, <1>11, <1>12 DEF Beside
<1> QED
  BY <1>4, <1>6, <1>13, <1>14, <1>15, <1>16 DEF IsAt, U, p, others, S

\* Wherever a node is put - first or last in a parent, before or after a
\* sibling -, the places that insertSingleNode() gives put it there.
THEOREM PutInPlaceHolds == Spec => []PutInPlace
<1>1. PlacesInv => PutInPlace
  <2> SUFFICES ASSUME PlacesInv, NEW u \in schemas, NEW t \in schemas, NEW pos \in Positions,
                      CanPlace(Tables, u, pos, t)
               PROVE  IsAt(Placed(Tables, u, pos, t), u, pos, t, ParentAt(Tables, pos, t))
    BY DEF PutInPlace, IsAt
  <2> QED
    BY InPlace DEF PlacesInv
<1> QED
  BY PlacesInvariant, <1>1, PTL

\* Whatever an operation does, the nodes that stay together under one key keep
\* their order, but for the one that is moved.
THEOREM OrderKept == Spec => OthersKeepOrder
<1> DEFINE Kept1 == \E m \in Uid : \A p \in Uid : \A c, d \in Children(path, p) \ {m} :
                       (/\ {c, d} \subseteq Children(path', p)
                        /\ type[c] = type[d] /\ type'[c] = type'[d]
                        /\ sort[c] < sort[d]) => sort'[c] < sort'[d]
<1>1. PlacesInv /\ [Next]_tables => [Kept1]_tables
  <2> SUFFICES ASSUME PlacesInv, Next
               PROVE  Kept1
    OBVIOUS
  <2>1. PICK m \in Uid : PlacesInv' /\ OthersStay(m)
    BY NextPlaces DEF ForestStep
  <2>2. /\ Tables.path = path /\ Tables.type = type /\ Tables.sort = sort
        /\ Tables'.path = path' /\ Tables'.type = type' /\ Tables'.sort = sort'
    BY DEF Tables
  <2>3. Tree(path, schemas) /\ Tree(path', schemas')
    BY <2>1, <2>2 DEF PlacesInv, Spread
  <2>4. ASSUME NEW p \in Uid, NEW c \in Children(path, p) \ {m}, NEW d \in Children(path, p) \ {m},
               {c, d} \subseteq Children(path', p), type[c] = type[d], sort[c] < sort[d]
        PROVE  sort'[c] < sort'[d]
    <3>1. /\ p \in Parents(path, c) /\ p \in Parents(path, d)
          /\ p \in Parents(path', c) /\ p \in Parents(path', d)
      BY <2>4, ChildIs
    <3>2. c \in schemas /\ d \in schemas
      BY <2>3, <3>1, ParentNodes
    <3>3. c \in schemas' /\ d \in schemas'
      BY <2>3, <3>1, ParentNodes
    <3> QED
      BY <2>1, <2>2, <2>4, <3>1, <3>2, <3>3 DEF OthersStay, Stays
  <2> QED
    BY <2>4
<1> QED
  BY PlacesInvariant, <1>1, PTL DEF Spec, OthersKeepOrder

\* The tables of the storage implement the forest that SchemaForest promises:
\* whatever is inserted, moved, wrapped, removed with its empty parents or cut
\* off, one step places one node or takes one subtree, and leaves every other
\* node under its parent.
THEOREM ImplementsForest == Spec => ForestSpec
<1>1. PlacesInv /\ [Next]_tables => PlacesInv'
  BY NextPlaces, UnchangedPlaces
<1>2. Init => Forest!Init
  BY DEF Init, Forest!Init
<1>3. PlacesInv /\ [Next]_tables =>
          [Forest!Next]_([u \in schemas |->
              IF Parents(path, u) = {} THEN NoType ELSE CHOOSE p \in Parents(path, u) : TRUE])
  <2> DEFINE parent == [u \in schemas |->
              IF Parents(path, u) = {} THEN NoType ELSE CHOOSE p \in Parents(path, u) : TRUE]
  <2> SUFFICES ASSUME PlacesInv, [Next]_tables
               PROVE  Forest!Next \/ parent' = parent
    OBVIOUS
  <2>1. Forest!Next \/ UNCHANGED <<path, schemas>>
    BY NextPlaces, UnchangedPlaces DEF ForestStep
  <2>2. UNCHANGED <<path, schemas>> => parent' = parent
    OBVIOUS
  <2> HIDE DEF parent
  <2> QED
    BY <2>1, <2>2
<1> QED
  BY InitPlaces, <1>1, <1>2, <1>3, PTL DEF Spec, ForestSpec, Forest!Spec

-----------------------------------------------------------------------------
(* The cache *)

Transactions == [shown : SUBSET Uid, changed : SUBSET Uid, left : SUBSET Uid,
                 why : {"stale", "moved", "below"}, toClear : SUBSET Uid]

\* an entry that was read while no transaction ran and that the commit changes
\* is one that the transaction is known to leave or has still to clear
WillBeCleared ==
    \A a \in Uid : entry[a] = "fresh" /\ a \in transaction.changed =>
                      a \in transaction.left \cup transaction.toClear

\* what a transaction is known to leave has a reason
LeftForReason == transaction.left = {} \/ transaction.why # "stale"

\* The invariant of the cache.
CacheInv ==
    /\ entry \in [Uid -> Entries]
    /\ transaction \in Transactions
    /\ CacheIsFresh
    /\ WillBeCleared
    /\ LeftForReason

\* What an operation clears is none of what stays cached.
LEMMA ClearedEntries ==
    ASSUME CacheInv, NEW S, Clear(S)
    PROVE  /\ entry' \in [Uid -> Entries]
           /\ \A a \in Uid : /\ entry'[a] \in {"none", entry[a]}
                             /\ a \in S => entry'[a] # "fresh"
  BY DEF CacheInv, Clear, Entries, Held

\* A transaction whose changes are cleared first, cleared last or left for a
\* reason.
LEMMA RunCache ==
    ASSUME CacheInv, NEW first, NEW last \in SUBSET Uid, NEW changed \in SUBSET Uid,
           NEW left \in SUBSET Uid, NEW why \in {"stale", "moved", "below"},
           Run(first, last, changed, left, why),
           schemas \in SUBSET Uid,
           changed \subseteq first \cup last \cup left,
           left = {} \/ why # "stale"
    PROVE  CacheInv'
<1>1. /\ transaction' = [shown |-> schemas, changed |-> changed, left |-> left,
                         why |-> why, toClear |-> last]
      /\ Clear(first)
  BY DEF Run
<1>2. transaction' \in Transactions
  BY <1>1 DEF Transactions
<1>3. /\ entry' \in [Uid -> Entries]
      /\ \A a \in Uid : /\ entry'[a] \in {"none", entry[a]}
                        /\ a \in first => entry'[a] # "fresh"
  BY <1>1, ClearedEntries
<1>4. CacheIsFresh'
  BY <1>3 DEF CacheInv, CacheIsFresh
<1>5. WillBeCleared'
  BY <1>1, <1>3 DEF WillBeCleared
<1>6. LeftForReason'
  BY <1>1 DEF LeftForReason
<1> QED
  BY <1>2, <1>3, <1>4, <1>5, <1>6 DEF CacheInv

LEMMA ClearPlacedCache ==
    ASSUME CacheInv, ClearPlaced
    PROVE  CacheInv'
<1>1. /\ Clear(transaction.toClear)
      /\ transaction' = [transaction EXCEPT !.toClear = {}]
  BY DEF ClearPlaced
<1>2. transaction \in Transactions
  BY DEF CacheInv
<1>3. /\ transaction' \in Transactions
      /\ transaction'.changed = transaction.changed /\ transaction'.left = transaction.left
      /\ transaction'.why = transaction.why /\ transaction'.toClear = {}
  BY <1>1, <1>2 DEF Transactions
<1>4. /\ entry' \in [Uid -> Entries]
      /\ \A a \in Uid : /\ entry'[a] \in {"none", entry[a]}
                        /\ a \in transaction.toClear => entry'[a] # "fresh"
  BY <1>1, ClearedEntries
<1>5. CacheIsFresh'
  BY <1>4 DEF CacheInv, CacheIsFresh
<1>6. WillBeCleared'
  BY <1>3, <1>4 DEF CacheInv, WillBeCleared
<1>7. LeftForReason'
  BY <1>3 DEF CacheInv, LeftForReason
<1> QED
  BY <1>3, <1>4, <1>5, <1>6, <1>7 DEF CacheInv

\* A commit makes no entry stale, since what it changes and does not leave for a
\* reason was cleared.
LEMMA CommitCache ==
    ASSUME CacheInv, CommitTransaction
    PROVE  CacheInv'
<1>1. /\ transaction.toClear = {} /\ transaction' = None
      /\ entry' = [a \in Uid |-> EntryAfter(a)]
  BY DEF CommitTransaction
<1>2. None \in Transactions /\ None.changed = {} /\ None.left = {}
  BY DEF None, Transactions
<1>3. ASSUME NEW a \in Uid
      PROVE  EntryAfter(a) \in Entries \ {"stale"}
  <2>1. /\ entry[a] \in Entries \ {"stale"}
        /\ transaction.why \in {"stale", "moved", "below"}
    BY DEF CacheInv, CacheIsFresh, Transactions
  <2>2. ASSUME entry[a] = "fresh", a \in transaction.changed
        PROVE  a \in transaction.left /\ transaction.why # "stale"
    BY <1>1, <2>2 DEF CacheInv, WillBeCleared, LeftForReason
  <2> QED
    BY <2>1, <2>2 DEF EntryAfter, Entries
<1>4. entry' \in [Uid -> Entries] /\ \A a \in Uid : entry'[a] = EntryAfter(a)
  BY <1>1, <1>3
<1>5. CacheIsFresh'
  BY <1>3, <1>4 DEF CacheIsFresh
<1>6. WillBeCleared' /\ LeftForReason'
  BY <1>1, <1>2 DEF WillBeCleared, LeftForReason
<1> QED
  BY <1>1, <1>2, <1>4, <1>5, <1>6 DEF CacheInv

\* Reads fill the cache with what is committed, or too early to say.
LEMMA ReadCache ==
    ASSUME CacheInv, NEW a \in Uid, Query(a) \/ Fill(a) \/ Evict(a)
    PROVE  CacheInv'
<1>1. transaction' = transaction
  BY DEF Query, Fill, Evict
<1>2. PICK e \in Entries \ {"stale"} :
          /\ entry' = [entry EXCEPT ![a] = e]
          /\ e = "fresh" => transaction = None
  BY DEF Query, Fill, Evict, Entries
<1>3. /\ entry' \in [Uid -> Entries]
      /\ \A b \in Uid : entry'[b] = IF b = a THEN e ELSE entry[b]
  BY <1>2 DEF CacheInv
<1>4. CacheIsFresh'
  BY <1>2, <1>3 DEF CacheInv, CacheIsFresh
<1>5. None.changed = {}
  BY DEF None
<1>6. WillBeCleared'
  BY <1>1, <1>2, <1>3, <1>5 DEF CacheInv, WillBeCleared
<1> QED
  BY <1>1, <1>3, <1>4, <1>6 DEF CacheInv, LeftForReason

\* What is above or under a node are nodes.
LEMMA PathsInTree ==
    ASSUME NEW P, NEW N, Tree(P, N), NEW u
    PROVE  /\ Path(P, u) \in SUBSET Uid /\ Under(P, u) \in SUBSET Uid
           /\ N \in SUBSET Uid
           /\ \A a : a \in Under(P, u) <=> Row(P, u, a)
           /\ \A a : a \in Path(P, u) <=> Row(P, a, u)
<1>1. P \in SUBSET Rows3 /\ N \in SUBSET Uid
  BY TreeTyped
<1>2. /\ \A a : a \in Under(P, u) <=> Row(P, u, a)
      /\ \A a : a \in Path(P, u) <=> Row(P, a, u)
  BY <1>1, ReachedIs
<1>3. \A a : (Row(P, u, a) => a \in N) /\ (Row(P, a, u) => a \in N)
  BY RowNodes
<1> QED
  BY <1>1, <1>2, <1>3

LEMMA PathsAreNodes ==
    ASSUME PlacesInv, NEW u
    PROVE  /\ Path(path, u) \in SUBSET Uid /\ Under(path, u) \in SUBSET Uid
           /\ schemas \in SUBSET Uid
           /\ \A a : a \in Under(path, u) <=> Row(path, u, a)
           /\ \A a : a \in Path(path, u) <=> Row(path, a, u)
<1>1. Tree(path, schemas)
  BY DEF PlacesInv, Spread, Tables
<1> QED
  BY <1>1, PathsInTree

LEMMA ChangedAreNodes ==
    ASSUME PlacesInv
    PROVE  Changed \in SUBSET Uid
  BY PathsAreNodes DEF Changed

LEMMA InsertCache ==
    ASSUME PlacesInv, CacheInv, CachedInsert
    PROVE  PlacesInv' /\ CacheInv'
<1>1. PICK su \in Requested, pos \in Positions, t \in Uid, byUid \in BOOLEAN :
         /\ byUid => su[1] = NoSchema
         /\ \E rb \in Removals(su[2]), root \in Uid :
               /\ \/ root = su[2] /\ InsertAdjacent(su[1], su[2], pos, t, rb[1], rb[2])
                  \/ \E w \in Wraps : /\ root = w.root
                                     /\ InsertWrapped(su[1], w, su[2], pos, t, rb[1], rb[2])
               /\ Run(Cleared(su[2], byUid, rb[1]), Path(path', root), Changed,
                      IF byUid THEN Path(path, su[2]) ELSE {}, "moved")
  BY DEF CachedInsert
<1> DEFINE u == su[2]
           left == IF byUid THEN Path(path, u) ELSE {}
<1>2. PICK rb \in Removals(u), root \in Uid :
         /\ \/ root = u /\ InsertAdjacent(su[1], u, pos, t, rb[1], rb[2])
            \/ \E w \in Wraps : /\ root = w.root
                               /\ InsertWrapped(su[1], w, u, pos, t, rb[1], rb[2])
         /\ Run(Cleared(u, byUid, rb[1]), Path(path', root), Changed, left, "moved")
  BY <1>1
<1>3. /\ Seed(su[1])
      /\ su[1].nodes \cap schemas = {}
      /\ u \in schemas \cup su[1].nodes
  BY RequestedChart, RequestedSeed
<1>4. PlacesInv' /\ Changed \subseteq Path(path, u) \cup Path(path', root)
  <2>1. ASSUME root = u, InsertAdjacent(su[1], u, pos, t, rb[1], rb[2])
        PROVE  PlacesInv' /\ Changed \subseteq Path(path, u) \cup Path(path', root)
    BY <1>3, <2>1, AdjacentPlaces
  <2>2. ASSUME NEW w \in Wraps, root = w.root,
               InsertWrapped(su[1], w, u, pos, t, rb[1], rb[2])
        PROVE  PlacesInv' /\ Changed \subseteq Path(path, u) \cup Path(path', root)
    <3>1. w \in NewSchemas
      BY DEF Wraps
    <3> QED
      BY <1>3, <2>2, <3>1, WrappedPlaces
  <2> QED
    BY <1>2, <2>1, <2>2
<1>5. Path(path, u) \subseteq Cleared(u, byUid, rb[1]) \cup left
  BY DEF Cleared
<1>6. Path(path, u) \in SUBSET Uid /\ schemas \in SUBSET Uid /\ Changed \in SUBSET Uid
  BY PathsAreNodes, ChangedAreNodes
<1>7. Path(path', root) \in SUBSET Uid
  <2>1. Tree(path', schemas')
    BY <1>4 DEF PlacesInv, Spread, Tables
  <2> QED
    BY <2>1, PathsInTree
<1>8. left \in SUBSET Uid /\ Changed \subseteq Cleared(u, byUid, rb[1]) \cup Path(path', root) \cup left
  BY <1>4, <1>5, <1>6
<1> HIDE DEF left, u
<1>9. CacheInv'
  BY <1>2, <1>6, <1>7, <1>8, RunCache
<1> QED
  BY <1>4, <1>9

LEMMA PatchCache ==
    ASSUME PlacesInv, CacheInv, NEW u \in Uid, NEW N \in SUBSET Uid, Patch(u, N)
    PROVE  PlacesInv' /\ CacheInv'
<1> DEFINE changed == {a \in schemas : Under(path, a) \cap N # {}}
           left == Under(path, u) \ {u}
<1>1. /\ N \subseteq Under(path, u) /\ UNCHANGED tables
      /\ Run(Path(path, u), {}, changed, left, "below")
  BY DEF Patch
<1>2. Tree(path, schemas)
  BY DEF PlacesInv, Spread, Tables
<1>3. /\ schemas \in SUBSET Uid /\ left \in SUBSET Uid
      /\ \A a : Under(path, a) \in SUBSET Uid
      /\ \A a, b : /\ b \in Under(path, a) <=> Row(path, a, b)
                   /\ b \in Path(path, a) <=> Row(path, b, a)
  BY PathsAreNodes
<1>4. changed \subseteq Path(path, u) \cup left
  <2> SUFFICES ASSUME NEW a \in changed
               PROVE  a \in Path(path, u) \cup left
    OBVIOUS
  <2>1. PICK n \in N : Row(path, a, n)
    BY <1>3
  <2>2. Row(path, u, n)
    BY <1>1, <1>3
  <2>3. Row(path, a, u) \/ Row(path, u, a)
    BY <1>2, <2>1, <2>2, RowLine
  <2>4. CASE a = u
    <3>1. Row(path, u, u)
      BY <1>2, <2>2, OwnRow, RowNodes
    <3> QED
      BY <1>3, <2>4, <3>1
  <2>5. CASE a # u
    BY <1>3, <2>3, <2>5
  <2> QED
    BY <2>4, <2>5
<1>5. changed \in SUBSET Uid
  BY <1>3
<1> HIDE DEF changed, left
<1>6. CacheInv'
  BY <1>1, <1>3, <1>4, <1>5, RunCache
<1> QED
  BY <1>1, <1>6, UnchangedPlaces

LEMMA CachedNextCache ==
    ASSUME PlacesInv, CacheInv, CachedNext
    PROVE  PlacesInv' /\ CacheInv'
<1>1. schemas \in SUBSET Uid /\ Changed \in SUBSET Uid
  BY PathsAreNodes, ChangedAreNodes
<1>2. ASSUME NEW s \in NewSchemas, CachedInsertNew(s)
      PROVE  PlacesInv' /\ CacheInv'
  <2>1. PlacesInv' /\ Changed = {}
    BY <1>2, NewSchemaPlaces DEF CachedInsertNew
  <2>2. s.root \in Uid /\ Run({}, {s.root}, Changed, {}, "stale")
    BY <1>2, NewSchemaChart DEF CachedInsertNew, Chart
  <2>3. CacheInv'
    BY <1>1, <2>1, <2>2, RunCache
  <2> QED
    BY <2>1, <2>3
<1>3. CASE CachedInsert
  BY <1>3, InsertCache
<1>4. CASE CachedRemove
  <2>1. PICK u \in Uid : \E rb \in Removals(u) :
           /\ Remove(u, rb[1], rb[2])
           /\ Run(Path(path, u), {}, Changed, {}, "stale")
    BY <1>4 DEF CachedRemove
  <2>2. PlacesInv' /\ Changed \subseteq Path(path, u)
    BY <2>1, RemovePlaces
  <2>3. CacheInv'
    BY <1>1, <2>1, <2>2, RunCache
  <2> QED
    BY <2>2, <2>3
<1>5. ASSUME NEW u \in Uid, CachedClearAncestor(u)
      PROVE  PlacesInv' /\ CacheInv'
  <2>1. PlacesInv' /\ Changed \subseteq Path(path, u)
    BY <1>5, ClearAncestorPlaces DEF CachedClearAncestor
  <2>2. Run(Path(path, u), {}, Changed, {}, "stale")
    BY <1>5 DEF CachedClearAncestor
  <2>3. CacheInv'
    BY <1>1, <2>1, <2>2, RunCache
  <2> QED
    BY <2>1, <2>3
<1>6. ASSUME NEW u \in Uid, NEW N \in SUBSET Uid, Patch(u, N)
      PROVE  PlacesInv' /\ CacheInv'
  BY <1>6, PatchCache
<1>7. CASE ClearPlaced
  <2>1. UNCHANGED tables
    BY <1>7 DEF ClearPlaced
  <2> QED
    BY <1>7, <2>1, ClearPlacedCache, UnchangedPlaces
<1>8. CASE CommitTransaction
  <2>1. UNCHANGED tables
    BY <1>8 DEF CommitTransaction
  <2> QED
    BY <1>8, <2>1, CommitCache, UnchangedPlaces
<1>9. ASSUME NEW a \in Uid, Query(a) \/ Fill(a) \/ Evict(a)
      PROVE  PlacesInv' /\ CacheInv'
  <2>1. UNCHANGED tables
    BY <1>9 DEF Query, Fill, Evict
  <2> QED
    BY <1>9, <2>1, ReadCache, UnchangedPlaces
<1> QED
  BY <1>2, <1>3, <1>4, <1>5, <1>6, <1>7, <1>8, <1>9 DEF CachedNext

\* However many nodes there are and wherever reads fall between the statements
\* of a transaction: what was read while none ran is cleared by the operation
\* that changes it, but for the nodes below a patched one and the path of a leaf
\* that is moved by its uid.
THEOREM CacheStaysFresh == CachedSpec => []CacheIsFresh
<1>1. CachedInit => PlacesInv /\ CacheInv
  <2> SUFFICES ASSUME CachedInit
               PROVE  PlacesInv /\ CacheInv
    OBVIOUS
  <2>1. /\ None \in Transactions /\ None.changed = {} /\ None.left = {}
    BY DEF None, Transactions
  <2>2. entry \in [Uid -> Entries] /\ \A a \in Uid : entry[a] = "none"
    BY DEF CachedInit, Entries
  <2>3. CacheInv
    BY <2>1, <2>2 DEF CachedInit, CacheInv, CacheIsFresh, WillBeCleared, LeftForReason
  <2> QED
    BY <2>3, InitPlaces DEF CachedInit
<1>2. PlacesInv /\ CacheInv /\ [CachedNext]_vars => PlacesInv' /\ CacheInv'
  <2> SUFFICES ASSUME PlacesInv, CacheInv, [CachedNext]_vars
               PROVE  PlacesInv' /\ CacheInv'
    OBVIOUS
  <2>1. CASE CachedNext
    BY <2>1, CachedNextCache
  <2>2. CASE UNCHANGED vars
    <3>1. UNCHANGED tables /\ UNCHANGED <<entry, transaction>>
      BY <2>2 DEF vars
    <3>2. CacheInv'
      BY <3>1 DEF CacheInv, CacheIsFresh, WillBeCleared, LeftForReason
    <3> QED
      BY <3>1, <3>2, UnchangedPlaces
  <2> QED
    BY <2>1, <2>2
<1>3. CacheInv => CacheIsFresh
  BY DEF CacheInv
<1> QED
  BY <1>1, <1>2, <1>3, PTL DEF CachedSpec

=============================================================================
