------------------------- MODULE FlowProcessorProofs -------------------------
(***************************************************************************)
(* Proofs about FlowProcessor, for workflows of any size and shape:        *)
(*                                                                         *)
(*   - types, and jobs that have ended keep their status (TypeCorrect,     *)
(*     EndedJobsAreKept), from IInv;                                       *)
(*   - walks up the nodes and the jobs, where a node is in a flow, and     *)
(*     what a step does, as relations between two states (Steps);          *)
(*   - where the calls, the jobs and what waits are (Placed);              *)
(*   - what is left of an execution after a request in a branch            *)
(*     (Requested, DoomedBy);                                              *)
(*   - how the calls that wait stand over each other (Standing), and what  *)
(*     goes on with each branch of a parallel job (BranchesWait);          *)
(*   - a suspended execution can be resumed (SuspendedExecutionsResume).   *)
(*                                                                         *)
(* From the second part on the lemmas are about any flow f, jobs js (then  *)
(* ks), execution e (then g), control c (then d) and stack st (then q)     *)
(* rather than the variables and their next values.                        *)
(***************************************************************************)
EXTENDS FlowProcessor, FiniteSetTheorems, TLAPS

-----------------------------------------------------------------------------
(* Walks up the nodes or the jobs end *)

\* From every element of D but those of Stop a step leads to another one, and
\* not forever.
Ends(D, Stop, next) ==
    \A S \in SUBSET (D \ Stop) : S # {} => \E k \in S : next[k] \notin S

\* f is the value where the walk stops.
Walks(f, D, Stop, val, next) ==
    f = [k \in D |-> IF k \in Stop THEN val[k] ELSE f[next[k]]]

\* What a walk computes is of the type of the values where it stops.
LEMMA WalkTyped ==
    ASSUME NEW D, NEW V, NEW Stop \in SUBSET D, NEW val \in [D -> V], NEW next \in [D -> D],
           Ends(D, Stop, next), NEW f, Walks(f, D, Stop, val, next)
    PROVE  f \in [D -> V]
<1> DEFINE Bad == {k \in D : f[k] \notin V}
<1>1. \A k \in D : f[k] = IF k \in Stop THEN val[k] ELSE f[next[k]]
  BY DEF Walks
<1>2. Bad \in SUBSET (D \ Stop)
  BY <1>1
<1>3. \A k \in Bad : next[k] \in Bad
  BY <1>1
<1>4. Bad = {}
  BY <1>2, <1>3 DEF Ends
<1> QED
  BY <1>4 DEF Walks

\* Where every walk ends, the recursive function that walks exists: it is the least
\* set of pairs that the recursion relates.
LEMMA WalkExists ==
    ASSUME NEW D, NEW V, NEW Stop \in SUBSET D, NEW val \in [D -> V], NEW next \in [D -> D],
           Ends(D, Stop, next)
    PROVE  \E f : Walks(f, D, Stop, val, next)
<1> DEFINE Closed(S) ==
               /\ \A k \in Stop : <<k, val[k]>> \in S
               /\ \A k \in D \ Stop, v \in V : <<next[k], v>> \in S => <<k, v>> \in S
           R == {r \in D \X V : \A S \in SUBSET (D \X V) : Closed(S) => r \in S}
           One(k) == \E v \in V : <<k, v>> \in R /\ \A w \in V : <<k, w>> \in R => w = v
           Bad == {k \in D : ~ One(k)}
           f == [k \in D |-> CHOOSE v \in V : <<k, v>> \in R]
<1>1. R \in SUBSET (D \X V) /\ Closed(R)
  OBVIOUS
<1>2. \A S \in SUBSET (D \X V) : Closed(S) => R \subseteq S
  OBVIOUS
<1>3. ASSUME NEW k \in Stop
      PROVE  \A w \in V : <<k, w>> \in R => w = val[k]
  <2> SUFFICES ASSUME NEW w \in V, <<k, w>> \in R, w # val[k]
               PROVE  FALSE
    OBVIOUS
  <2> DEFINE S == R \ {<<k, w>>}
  <2>1. Closed(S)
    BY <1>1
  <2>2. S \in SUBSET (D \X V)
    BY <1>1
  <2> HIDE DEF R, Closed
  <2> QED
    BY <1>2, <2>1, <2>2
<1>4. \A k \in Stop : One(k)
  <2> TAKE k \in Stop
  <2>1. val[k] \in V /\ <<k, val[k]>> \in R
    BY <1>1
  <2> HIDE DEF R
  <2> QED
    BY <1>3, <2>1
<1>5. ASSUME NEW k \in D \ Stop, One(next[k])
      PROVE  One(k)
  <2>1. PICK v \in V : <<next[k], v>> \in R /\ \A w \in V : <<next[k], w>> \in R => w = v
    BY <1>5
  <2>2. <<k, v>> \in R
    BY <1>1, <2>1
  <2>3. ASSUME NEW w \in V, <<k, w>> \in R, w # v
        PROVE  FALSE
    <3> DEFINE S == R \ {<<k, w>>}
    <3>1. Closed(S)
      BY <1>1, <2>1, <2>3
    <3>2. S \in SUBSET (D \X V)
      BY <1>1
    <3> HIDE DEF R, Closed
    <3> QED
      BY <1>2, <2>3, <3>1, <3>2
  <2> QED
    BY <2>2, <2>3
<1>6. Bad = {}
  <2>1. Bad \in SUBSET (D \ Stop)
    BY <1>4
  <2>2. \A k \in Bad : next[k] \in Bad
    BY <1>5, <2>1
  <2> HIDE DEF Bad
  <2> QED
    BY <2>1, <2>2 DEF Ends
<1>7. \A k \in D : One(k)
  BY <1>6
<1>8. \A k \in D : f[k] \in V /\ <<k, f[k]>> \in R /\ \A w \in V : <<k, w>> \in R => w = f[k]
  <2> HIDE DEF R
  <2> QED
    BY <1>7
<1>9. \A k \in Stop : f[k] = val[k]
  BY <1>1, <1>8
<1>10. \A k \in D \ Stop : f[k] = f[next[k]]
  <2> TAKE k \in D \ Stop
  <2>1. next[k] \in D
    OBVIOUS
  <2>2. <<next[k], f[next[k]]>> \in R /\ f[next[k]] \in V
    BY <1>8, <2>1
  <2> HIDE DEF f, R
  <2>3. <<k, f[next[k]]>> \in R
    BY <1>1, <2>2
  <2> QED
    BY <1>8, <2>2, <2>3
<1>11. f = [k \in D |-> IF k \in Stop THEN val[k] ELSE f[next[k]]]
  <2> DEFINE g == [k \in D |-> IF k \in Stop THEN val[k] ELSE f[next[k]]]
  <2>1. \A k \in D : f[k] = g[k]
    <3> HIDE DEF f
    <3> QED
      BY <1>9, <1>10
  <2> QED
    BY <2>1
<1> QED
  BY <1>11 DEF Walks

-----------------------------------------------------------------------------
(* The shape of a flow *)

LEMMA NodeTypes ==
    ASSUME WellFormed(flow)
    PROVE  /\ flow \in Seq(Nodes(Len(flow)))
           /\ Node = 1..Len(flow) /\ Len(flow) \in Nat
           /\ \A n \in Node : flow[n] \in Nodes(Len(flow))
  BY DEF WellFormed, Node

\* A walk up the nodes ends.
LEMMA UpstreamEnds ==
    ASSUME WellFormed(flow), NEW Stop \in SUBSET (Node \cup {0}), 0 \in Stop,
           NEW next \in [Node \cup {0} -> Node \cup {0}],
           \A k \in Node \ Stop : next[k] = flow[k].upstream
    PROVE  Ends(Node \cup {0}, Stop, next)
<1> SUFFICES ASSUME NEW S \in SUBSET ((Node \cup {0}) \ Stop), S # {}
             PROVE  \E k \in S : next[k] \notin S
  BY DEF Ends
<1>1. S \in SUBSET DOMAIN flow
  BY DEF Node
<1>2. PICK k \in S : flow[k].upstream \notin S
  BY <1>1 DEF WellFormed
<1> QED
  BY <1>1, <1>2 DEF Node

\* What takes over at the end of a branch is a node that has branches.
LEMMA BranchParentIs ==
    ASSUME WellFormed(flow), NEW n \in Node
    PROVE  /\ BranchParent(n) \in Node \cup {0}
           /\ BranchParent(n) # 0 => flow[BranchParent(n)].type \in {"condition", "parallel"}
<1> DEFINE D == Node \cup {0}
           V == {k \in D : k # 0 => flow[k].type \in {"condition", "parallel"}}
           Stop == {k \in D : k # 0 => flow[k].branch # None}
           next == [k \in D |-> IF k = 0 THEN 0 ELSE flow[k].upstream]
           val == [k \in D |-> IF k \in Stop THEN next[k] ELSE 0]
           up == CHOOSE f : f = [k \in D |-> IF k = 0 THEN 0
                                           ELSE IF flow[k].branch # None THEN flow[k].upstream
                                           ELSE f[flow[k].upstream]]
<1>1. /\ next \in [D -> D] /\ Stop \in SUBSET D /\ 0 \in Stop
      /\ \A k \in Node \ Stop : next[k] = flow[k].upstream
  BY NodeTypes DEF Nodes
<1>2. val \in [D -> V]
  <2>1. ASSUME NEW k \in Stop, k # 0
        PROVE  next[k] \in V
    BY <1>1, <2>1 DEF WellFormed, Node
  <2>2. next[0] = 0 /\ 0 \in V
    OBVIOUS
  <2>3. \A k \in D : val[k] \in V
    <3> HIDE DEF V, next
    <3> QED
      BY <2>1, <2>2
  <2> HIDE DEF V, Stop, next
  <2> QED
    BY <2>3
<1>3. Ends(D, Stop, next)
  BY <1>1, UpstreamEnds
<1>4. \A f : Walks(f, D, Stop, val, next) <=>
             f = [k \in D |-> IF k = 0 THEN 0
                              ELSE IF flow[k].branch # None THEN flow[k].upstream
                              ELSE f[flow[k].upstream]]
  BY NodeTypes DEF Nodes, Walks
<1>5. \E f : Walks(f, D, Stop, val, next)
  BY <1>1, <1>2, <1>3, WalkExists
<1>6. Walks(up, D, Stop, val, next)
  BY <1>4, <1>5
<1>7. up \in [D -> V]
  BY <1>1, <1>2, <1>3, <1>6, WalkTyped
<1>8. BranchParent(n) = up[n]
  BY DEF BranchParent
<1> QED
  BY <1>7, <1>8

\* A set of numbers has a least one.
LEMMA LeastNat ==
    ASSUME NEW T \in SUBSET Nat, T # {}
    PROVE  \E x \in T : \A y \in T : x <= y
<1> DEFINE S == {0..n : n \in T}
<1>1. IsWellFoundedOn(StrictSubsetOrdering(Nat), FiniteSubsetsOf(Nat))
  BY FS_StrictSubsetOrderingWellFounded
<1>2. S \subseteq FiniteSubsetsOf(Nat)
  <2> SUFFICES ASSUME NEW n \in T
               PROVE  0..n \in FiniteSubsetsOf(Nat)
    OBVIOUS
  <2>1. n \in Int /\ 0 \in Int /\ 0..n \in SUBSET Nat
    OBVIOUS
  <2>2. IsFiniteSet(0..n)
    BY <2>1, FS_Interval
  <2> QED
    BY <2>1, <2>2 DEF FiniteSubsetsOf
<1>3. S # {}
  OBVIOUS
<1>4. PICK X \in S : \A Y \in S : <<Y, X>> \notin StrictSubsetOrdering(Nat)
  <2> HIDE DEF S
  <2> QED
    BY <1>1, <1>2, <1>3, WFMin
<1>5. PICK x \in T : X = 0..x
  OBVIOUS
<1>6. ASSUME NEW y \in T, y < x
      PROVE  FALSE
  <2> DEFINE Y == 0..y
  <2>1. x \in X /\ x \notin Y
    BY <1>5, <1>6
  <2>2. Y \in S /\ Y \in SUBSET Nat /\ X \in SUBSET Nat /\ Y \subseteq X /\ Y # X
    BY <1>5, <1>6, <2>1
  <2> HIDE DEF Y
  <2>3. <<Y, X>> \in StrictSubsetOrdering(Nat)
    BY <2>2 DEF StrictSubsetOrdering
  <2> QED
    BY <1>4, <2>2, <2>3
<1> QED
  BY <1>6

-----------------------------------------------------------------------------
(* The types of what the processor keeps *)

Marks == Status \cup {"NONE", "TRUE", "FALSE", "OTHER"}

\* The rows of jobs, of a flow with N nodes.
Rows(N) == [node : 1..N, status : Status, upstream : Nat, result : Seq(Marks)]

\* The calls: of a node and, where it is needed, with a job.
Calls(N, L) ==
    {c \in [op : Ops, node : 0..N, job : 0..L] :
        /\ c.op \in {"run", "recall", "end"} => c.node # 0
        /\ c.op \in {"recall", "end"} => c.job # 0}

\* The calls that wait.
Frames(N, L) ==
    {f \in [fn : {"exec", "end", "parallel"}, node : 0..N, job : 0..L, branch : 0..N] :
        /\ f.fn # "end" => f.node # 0
        /\ f.fn # "exec" => f.job # 0}

JobsOK ==
    /\ jobs \in Seq(Rows(Len(flow)))
    /\ \A j \in Job : jobs[j].upstream < j

\* A job that is resumed on its own has not ended, or is counted once more.
RecalledIsPending ==
    control.op = "recall" /\ flow[control.node].type \in Asynchronous
        => jobs[control.job].status = "PENDING" \/ Recounted(control.job)

\* The invariant.
IInv ==
    /\ WellFormed(flow)
    /\ JobsOK
    /\ execution \in {"STARTED", "RESOLVED", "FAILED"}
    /\ control \in Calls(Len(flow), Last)
    /\ stack \in Seq(Frames(Len(flow), Last))
    /\ RecalledIsPending

\* What has ended keeps its status in this step, or is counted once more.
EndedStay ==
    \A j \in Job : /\ j \in DOMAIN jobs'
                   /\ jobs[j].status # "PENDING"
                         => jobs'[j].status = jobs[j].status \/ Recounted(j)

\* The instance of the execution, which is up to date while no resumption is not.
SeenOK ==
    /\ seen \in {"STARTED", "RESOLVED", "FAILED"}
    /\ stale \in Seq(Nat)
    /\ \A i \in DOMAIN stale : stale[i] \in Job
    /\ stale = <<>> => seen = execution

\* What is in a row of the jobs table.
LEMMA JobTypes ==
    ASSUME JobsOK
    PROVE  /\ Job = 1..Last /\ Last \in Nat
           /\ \A j \in Job : jobs[j] \in Rows(Len(flow)) /\ jobs[j].upstream \in 0..(j - 1)
<1>1. jobs \in Seq(Rows(Len(flow))) /\ \A j \in Job : jobs[j].upstream < j
  BY DEF JobsOK
<1>2. Job = 1..Last /\ Last \in Nat
  BY <1>1 DEF Job, Last
<1>3. \A j \in Job : jobs[j] \in Rows(Len(flow))
  BY <1>1 DEF Job
<1>4. \A j \in Job : jobs[j].upstream \in Nat
  BY <1>3 DEF Rows
<1> QED
  BY <1>1, <1>2, <1>3, <1>4

\* The closest job of a node up the jobs is a job, or null.
LEMMA BranchParentJobIs ==
    ASSUME JobsOK, NEW j \in Job, NEW n
    PROVE  BranchParentJob(j, n) \in Job \cup {0}
<1> DEFINE D == Job \cup {0}
           Stop == {k \in D : k = 0 \/ jobs[k].node = n}
           next == [k \in D |-> IF k = 0 THEN 0 ELSE jobs[k].upstream]
           val == [k \in D |-> k]
           up == CHOOSE f : f = [k \in D |-> IF k = 0 \/ jobs[k].node = n THEN k
                                             ELSE f[jobs[k].upstream]]
<1>1. next \in [D -> D] /\ val \in [D -> D] /\ Stop \in SUBSET D
  BY JobTypes
<1>2. Ends(D, Stop, next)
  <2> SUFFICES ASSUME NEW S \in SUBSET (D \ Stop), S # {}
               PROVE  \E k \in S : next[k] \notin S
    BY DEF Ends
  <2>1. S \in SUBSET Nat /\ \A k \in S : k \in Job
    BY JobTypes
  <2>2. PICK k \in S : \A m \in S : k <= m
    BY <2>1, LeastNat
  <2>3. next[k] < k
    BY <2>1, JobTypes
  <2> QED
    BY <2>1, <2>2, <2>3, JobTypes
<1>3. \A f : Walks(f, D, Stop, val, next) <=>
             f = [k \in D |-> IF k = 0 \/ jobs[k].node = n THEN k
                              ELSE f[jobs[k].upstream]]
  BY DEF Walks
<1>4. \E f : Walks(f, D, Stop, val, next)
  BY <1>1, <1>2, WalkExists
<1>5. Walks(up, D, Stop, val, next)
  BY <1>3, <1>4
<1>6. up \in [D -> D]
  BY <1>1, <1>2, <1>5, WalkTyped
<1>7. BranchParentJob(j, n) = up[j]
  BY DEF BranchParentJob
<1> QED
  BY <1>6, <1>7

-----------------------------------------------------------------------------
(* How a step keeps the invariant *)

LEMMA FramesGrow ==
    ASSUME NEW N \in Nat, NEW L \in Nat, NEW M \in Nat, L <= M, NEW st \in Seq(Frames(N, L))
    PROVE  st \in Seq(Frames(N, M))
<1>1. Frames(N, L) \subseteq Frames(N, M)
  BY DEF Frames
<1> QED
  BY <1>1

\* A job is updated.
LEMMA Replaced ==
    ASSUME NEW S, NEW q \in Seq(S), NEW i, NEW v \in S
    PROVE  [q EXCEPT ![i] = v] \in Seq(S)
<1> DEFINE r == [q EXCEPT ![i] = v]
<1>1. Len(q) \in Nat /\ DOMAIN q = 1..Len(q)
  OBVIOUS
<1>2. r = [k \in 1..Len(q) |-> IF k = i THEN v ELSE q[k]]
  BY <1>1
<1>3. \A k \in 1..Len(q) : (IF k = i THEN v ELSE q[k]) \in S
  BY <1>1
<1>4. r \in [1..Len(q) -> S]
  <2> DEFINE E(k) == IF k = i THEN v ELSE q[k]
  <2>1. \A k \in 1..Len(q) : E(k) \in S
    BY <1>3
  <2>2. r = [k \in 1..Len(q) |-> E(k)]
    BY <1>2
  <2> HIDE DEF E, r
  <2> QED
    BY <2>1, <2>2
<1> HIDE DEF r
<1>5. r \in Seq(S)
  BY <1>1, <1>4
<1> QED
  BY <1>5 DEF r

\* A call waits on top of the others.
LEMMA Pushed ==
    ASSUME NEW N \in Nat, NEW L \in Nat, NEW M \in Nat, L <= M, NEW st \in Seq(Frames(N, L)),
           NEW f \in Frames(N, M)
    PROVE  <<f>> \o st \in Seq(Frames(N, M))
<1>1. st \in Seq(Frames(N, M))
  BY FramesGrow
<1> QED
  BY <1>1

\* A job is added.
LEMMA Appends ==
    ASSUME IInv, UNCHANGED <<flow, execution>>,
           NEW r \in Rows(Len(flow)), r.upstream \in 0..Last, jobs' = Append(jobs, r),
           control' \in Calls(Len(flow), Last + 1), control'.op # "recall",
           stack' \in Seq(Frames(Len(flow), Last + 1))
    PROVE  IInv' /\ EndedStay
<1>1. Job = 1..Last /\ Last \in Nat /\ jobs \in Seq(Rows(Len(flow)))
  BY JobTypes DEF IInv, JobsOK
<1>2. /\ jobs' \in Seq(Rows(Len(flow))) /\ Len(jobs') = Last + 1
      /\ \A j \in Job : jobs'[j] = jobs[j]
      /\ jobs'[Last + 1] = r
  BY <1>1 DEF Last
<1>3. DOMAIN jobs' = 1..(Last + 1)
  BY <1>2
<1>4. JobsOK'
  <2>1. ASSUME NEW j \in DOMAIN jobs'
        PROVE  jobs'[j].upstream < j
    <3>1. CASE j \in Job
      BY <1>2, <3>1 DEF IInv, JobsOK
    <3>2. CASE j = Last + 1
      BY <1>1, <1>2, <3>2
    <3> QED
      BY <1>1, <1>3, <3>1, <3>2
  <2> QED
    BY <1>2, <2>1 DEF JobsOK, Job
<1>5. EndedStay
  BY <1>1, <1>2, <1>3 DEF EndedStay
<1> QED
  BY <1>2, <1>4, <1>5 DEF IInv, Last, RecalledIsPending

\* A job that is pending, or counted once more, is updated.
LEMMA Updates ==
    ASSUME IInv, UNCHANGED <<flow, execution>>,
           NEW i \in Job, jobs[i].status = "PENDING" \/ Recounted(i),
           NEW r \in Rows(Len(flow)), r.upstream = jobs[i].upstream,
           jobs' = [jobs EXCEPT ![i] = r],
           control' \in Calls(Len(flow), Last), control'.op # "recall",
           stack' \in Seq(Frames(Len(flow), Last))
    PROVE  IInv' /\ EndedStay
<1>1. Job = 1..Last /\ Last \in Nat /\ jobs \in Seq(Rows(Len(flow)))
  BY JobTypes DEF IInv, JobsOK
<1>2. /\ jobs' \in Seq(Rows(Len(flow))) /\ Len(jobs') = Last /\ DOMAIN jobs' = Job
      /\ \A j \in Job : jobs'[j] = IF j = i THEN r ELSE jobs[j]
  BY <1>1 DEF Last
<1>3. JobsOK'
  BY <1>2 DEF IInv, JobsOK, Job
<1>4. EndedStay
  BY <1>2 DEF EndedStay
<1> QED
  BY <1>2, <1>3, <1>4 DEF IInv, Last, RecalledIsPending

\* No job changes.
LEMMA Leaves ==
    ASSUME IInv, UNCHANGED <<flow, jobs>>,
           execution' \in {"STARTED", "RESOLVED", "FAILED"},
           control' \in Calls(Len(flow), Last), RecalledIsPending',
           stack' \in Seq(Frames(Len(flow), Last))
    PROVE  IInv' /\ EndedStay
  BY DEF IInv, JobsOK, Job, Last, EndedStay

\* Where exec() goes on.
LEMMA AfterIs ==
    ASSUME WellFormed(flow), NEW L \in Nat, NEW n \in Node, NEW j \in 1..L, NEW s
    PROVE  After(n, j, s) \in Calls(Len(flow), L) /\ After(n, j, s).op # "recall"
<1>1. n \in 1..Len(flow) /\ flow[n].downstream \in 0..Len(flow) /\ Len(flow) \in Nat
  BY NodeTypes DEF Nodes
<1> QED
  BY <1>1 DEF After, Call, Calls, Ops

\* What the state of the processor says of a call in progress.
LEMMA CallTypes ==
    ASSUME IInv
    PROVE  /\ WellFormed(flow) /\ JobsOK
           /\ Last \in Nat /\ Len(flow) \in Nat /\ Node = 1..Len(flow) /\ Job = 1..Last
           /\ control.node \in 0..Len(flow) /\ control.job \in 0..Last
           /\ control.op \in {"run", "recall", "end"} => control.node \in Node
           /\ control.op \in {"recall", "end"} => control.job \in Job
           /\ stack \in Seq(Frames(Len(flow), Last))
<1>1. /\ Last \in Nat /\ Len(flow) \in Nat /\ Node = 1..Len(flow) /\ Job = 1..Last
  BY NodeTypes, JobTypes DEF IInv
<1> QED
  BY <1>1 DEF IInv, Calls

-----------------------------------------------------------------------------
(* The branches of a node, in their order *)

LEMMA BranchesAre ==
    ASSUME WellFormed(flow), NEW n
    PROVE  /\ Branches(n) \in Seq(Node)
           /\ Len(Branches(n)) \in 0..Len(flow)
           /\ \A i \in DOMAIN Branches(n) :
                 flow[Branches(n)[i]].upstream = n /\ flow[Branches(n)[i]].branch # None
           /\ \A i, k \in DOMAIN Branches(n) : Branches(n)[i] = Branches(n)[k] => i = k
           /\ \A m \in Node : flow[m].upstream = n /\ flow[m].branch # None =>
                 \E i \in DOMAIN Branches(n) : Branches(n)[i] = m
<1> DEFINE starts == {m \in Node : flow[m].upstream = n /\ flow[m].branch # None}
           before(m) == {k \in starts : flow[k].branch < flow[m].branch}
           r == [m \in starts |-> Cardinality(before(m))]
           C == Cardinality(starts)
<1>1. IsFiniteSet(starts) /\ C \in 0..Len(flow) /\ C \in Nat
  <2>1. Node = 1..Len(flow) /\ 1 \in Int /\ Len(flow) \in Int /\ Len(flow) \in Nat
    BY NodeTypes
  <2>2. IsFiniteSet(1..Len(flow)) /\ Cardinality(1..Len(flow)) = Len(flow)
    BY <2>1, FS_Interval
  <2>3. starts \in SUBSET (1..Len(flow))
    BY <2>1
  <2> HIDE DEF starts
  <2>4. IsFiniteSet(starts) /\ C <= Len(flow)
    BY <2>2, <2>3, FS_Subset
  <2>5. C \in Nat
    BY <2>4, FS_CardinalityType
  <2> QED
    BY <2>1, <2>4, <2>5
<1>2. \A m \in starts : flow[m].branch \in Nat
  BY NodeTypes DEF Nodes
<1>3. ASSUME NEW m \in starts
      PROVE  r[m] \in 0..(C - 1)
  <2>1. before(m) \in SUBSET starts /\ before(m) # starts
    BY <1>2
  <2> HIDE DEF starts, before
  <2>2. IsFiniteSet(before(m)) /\ Cardinality(before(m)) <= C /\ Cardinality(before(m)) # C
    BY <1>1, <2>1, FS_Subset
  <2>3. Cardinality(before(m)) \in Nat
    BY <2>2, FS_CardinalityType
  <2> QED
    BY <1>1, <2>2, <2>3
<1>4. ASSUME NEW m \in starts, NEW k \in starts, flow[m].branch < flow[k].branch
      PROVE  r[m] < r[k]
  <2>1. before(m) \in SUBSET before(k) /\ m \in before(k) /\ m \notin before(m)
    BY <1>2, <1>4
  <2>2. IsFiniteSet(before(k)) /\ before(k) \in SUBSET starts
    BY <1>1, FS_Subset
  <2> HIDE DEF before, starts
  <2>3. /\ IsFiniteSet(before(m)) /\ Cardinality(before(m)) <= Cardinality(before(k))
        /\ Cardinality(before(m)) # Cardinality(before(k))
    BY <2>1, <2>2, FS_Subset
  <2>4. Cardinality(before(m)) \in Nat /\ Cardinality(before(k)) \in Nat
    BY <2>2, <2>3, FS_CardinalityType
  <2> QED
    BY <2>3, <2>4
<1>5. \A m, k \in starts : r[m] = r[k] => m = k
  <2> SUFFICES ASSUME NEW m \in starts, NEW k \in starts, m # k
               PROVE  r[m] # r[k]
    OBVIOUS
  <2>1. flow[m].branch # flow[k].branch
    BY DEF WellFormed, Node
  <2>2. flow[m].branch < flow[k].branch \/ flow[k].branch < flow[m].branch
    BY <1>2, <2>1
  <2>3. r[m] \in Nat /\ r[k] \in Nat
    <3>1. r[m] \in 0..(C - 1) /\ r[k] \in 0..(C - 1)
      BY <1>3
    <3> HIDE DEF r, starts
    <3> QED
      BY <3>1
  <2>4. r[m] < r[k] \/ r[k] < r[m]
    BY <1>4, <2>2
  <2> HIDE DEF r
  <2> QED
    BY <2>3, <2>4
<1>6. r \in Injection(starts, 0..(C - 1))
  <2>1. r \in [starts -> 0..(C - 1)]
    BY <1>3
  <2> HIDE DEF r
  <2> QED
    BY <1>5, <2>1 DEF Injection, IsInjective
<1>7. r \in Surjection(starts, 0..(C - 1))
  <2>1. IsFiniteSet(0..(C - 1)) /\ Cardinality(0..(C - 1)) = C
    <3> HIDE DEF C
    <3>1. 0 \in Int /\ C - 1 \in Int
      BY <1>1
    <3> QED
      BY <1>1, <3>1, FS_Interval
  <2> HIDE DEF r, starts
  <2> QED
    BY <1>6, <2>1, FS_Injection
<1>8. \A i \in 1..C : \E m \in starts : r[m] = i - 1
  <2> HIDE DEF r, starts, C
  <2>1. \A i \in 1..C : i - 1 \in 0..(C - 1)
    BY <1>1
  <2> QED
    BY <1>7, <2>1 DEF Surjection
<1>9. Branches(n) = [i \in 1..C |-> CHOOSE m \in starts : Cardinality(before(m)) = i - 1]
  BY DEF Branches
<1>10. \A i \in 1..C : Branches(n)[i] \in starts /\ r[Branches(n)[i]] = i - 1
  <2> TAKE i \in 1..C
  <2>1. \E m \in starts : Cardinality(before(m)) = i - 1
    BY <1>8
  <2> HIDE DEF starts, before
  <2> QED
    BY <1>9, <2>1
<1>11. DOMAIN Branches(n) = 1..C
  BY <1>9
<1>12. \A i, k \in 1..C : Branches(n)[i] = Branches(n)[k] => i = k
  <2> HIDE DEF r, starts, C
  <2> QED
    BY <1>1, <1>10
<1>13. \A m \in starts : \E i \in 1..C : Branches(n)[i] = m
  <2> TAKE m \in starts
  <2>1. r[m] \in 0..(C - 1)
    BY <1>3
  <2> HIDE DEF r, starts, C
  <2>2. r[m] + 1 \in 1..C /\ (r[m] + 1) - 1 = r[m]
    BY <1>1, <2>1
  <2>3. Branches(n)[r[m] + 1] \in starts /\ r[Branches(n)[r[m] + 1]] = r[m]
    BY <1>10, <2>2
  <2> QED
    BY <1>5, <2>2, <2>3
<1> QED
  <2>1. starts \subseteq Node
    OBVIOUS
  <2>2. \A i \in 1..C : Branches(n)[i] \in Node
    BY <1>10, <2>1
  <2>3. Branches(n) \in Seq(Node) /\ Len(Branches(n)) \in 0..Len(flow)
    <3> HIDE DEF starts, C, before
    <3>1. Branches(n) \in [1..C -> Node]
      BY <1>9, <2>2
    <3> QED
      BY <1>1, <3>1
  <2>4. \A i \in 1..C : flow[Branches(n)[i]].upstream = n /\ flow[Branches(n)[i]].branch # None
    BY <1>10
  <2>5. \A m \in Node : flow[m].upstream = n /\ flow[m].branch # None =>
                 \E i \in 1..C : Branches(n)[i] = m
    BY <1>13
  <2> HIDE DEF starts, C, before, r
  <2> QED
    BY <1>11, <1>12, <2>3, <2>4, <2>5

\* The branch of a condition is a node, or none.
LEMMA ConditionBranchIs ==
    ASSUME WellFormed(flow), NEW n, NEW result
    PROVE  ConditionBranch(n, result) \in Node \cup {0}
<1> DEFINE hits == {m \in Node : /\ flow[m].upstream = n
                                 /\ result = IF flow[m].branch > 0 THEN "TRUE" ELSE "FALSE"}
<1>1. CASE hits = {}
  BY <1>1 DEF ConditionBranch
<1>2. CASE hits # {}
  <2>1. hits \in SUBSET Nat
    BY NodeTypes
  <2>2. \E m \in hits : \A k \in hits : m <= k
    <3> HIDE DEF hits
    <3> QED
      BY <1>2, <2>1, LeastNat
  <2>3. ConditionBranch(n, result) = CHOOSE m \in hits : \A k \in hits : m <= k
    BY <1>2 DEF ConditionBranch
  <2>4. (CHOOSE m \in hits : \A k \in hits : m <= k) \in hits
    <3> HIDE DEF hits
    <3> QED
      BY <2>2
  <2> QED
    BY <2>3, <2>4
<1> QED
  BY <1>1, <1>2

\* getStatus gives a status.
LEMMA VerdictIs ==
    ASSUME NEW mode, NEW result
    PROVE  Verdict(mode, result) \in Status
  BY Zenon DEF Verdict, Status

-----------------------------------------------------------------------------
(* The instructions *)

LEMMA FinishKeeps ==
    ASSUME IInv, UNCHANGED <<flow, execution, stack>>,
           NEW n \in Node, NEW prev \in 0..Last, NEW s \in Status, NEW result \in Seq(Marks),
           Finish(n, prev, s, result)
    PROVE  IInv' /\ EndedStay
<1> DEFINE r == NewJob(n, s, prev, result)
<1>1. r \in Rows(Len(flow)) /\ r.upstream \in 0..Last
  BY CallTypes DEF Rows, NewJob
<1>2. jobs' = Append(jobs, r) /\ control' = After(n, Last + 1, s)
  BY DEF Finish
<1>3. control' \in Calls(Len(flow), Last + 1) /\ control'.op # "recall"
  BY <1>2, CallTypes, AfterIs
<1>4. stack' \in Seq(Frames(Len(flow), Last + 1))
  BY CallTypes, FramesGrow
<1> HIDE DEF r
<1> QED
  BY <1>1, <1>2, <1>3, <1>4, Appends

\* The instruction saves a job and waits for a call of its own.
LEMMA WaitKeeps ==
    ASSUME IInv, UNCHANGED <<flow, execution>>, control.op = "run",
           NEW s \in Status, NEW result \in Seq(Marks),
           jobs' = Append(jobs, NewJob(control.node, s, control.job, result)),
           control' \in Calls(Len(flow), Last + 1), control'.op # "recall",
           NEW st \in Seq(Frames(Len(flow), Last + 1)), stack' = st
    PROVE  IInv' /\ EndedStay
<1> DEFINE r == NewJob(control.node, s, control.job, result)
<1>1. r \in Rows(Len(flow)) /\ r.upstream \in 0..Last
  BY CallTypes DEF Rows, NewJob
<1> HIDE DEF r
<1> QED
  BY <1>1, Appends DEF r

\* The frames that the instructions leave.
LEMMA FrameIs ==
    ASSUME IInv, NEW n \in Node, NEW j \in 0..Last, NEW M \in Nat, Last <= M
    PROVE  /\ Frame("exec", n, j, 0) \in Frames(Len(flow), M)
           /\ j # 0 => Frame("end", 0, j, 0) \in Frames(Len(flow), M)
           /\ \A i \in 0..Len(flow) : \A k \in 1..M :
                 Frame("parallel", n, k, i) \in Frames(Len(flow), M)
  BY CallTypes DEF Frame, Frames

LEMMA RunSimpleKeeps == IInv /\ RunSimple => IInv' /\ EndedStay
<1> SUFFICES ASSUME IInv, RunSimple
             PROVE  IInv' /\ EndedStay
  OBVIOUS
<1>1. PICK s \in {"RESOLVED", "FAILED"} : Finish(control.node, control.job, s, <<>>)
  BY DEF RunSimple
<1>2. control.node \in Node /\ control.job \in 0..Last /\ s \in Status /\ <<>> \in Seq(Marks)
  BY CallTypes DEF RunSimple, Running, Status
<1> QED
  BY <1>1, <1>2, FinishKeeps DEF RunSimple

LEMMA RunConditionKeeps == IInv /\ RunCondition => IInv' /\ EndedStay
<1> SUFFICES ASSUME IInv, RunCondition
             PROVE  IInv' /\ EndedStay
  OBVIOUS
<1>1. /\ control.op = "run" /\ control.node \in Node /\ control.job \in 0..Last
      /\ UNCHANGED <<flow, execution>>
  BY CallTypes DEF RunCondition, Running
<1>2. /\ "FAILED" \in Status /\ "RESOLVED" \in Status /\ <<>> \in Seq(Marks)
      /\ \A result \in {"TRUE", "FALSE", "OTHER"} : <<result>> \in Seq(Marks)
  BY DEF Status, Marks
<1>3. CASE Finish(control.node, control.job, "FAILED", <<>>) /\ UNCHANGED stack
  BY <1>1, <1>2, <1>3, FinishKeeps
<1>4. ASSUME NEW result \in {"TRUE", "FALSE", "OTHER"},
             Finish(control.node, control.job, "RESOLVED", <<result>>), UNCHANGED stack
      PROVE  IInv' /\ EndedStay
  BY <1>1, <1>2, <1>4, FinishKeeps
<1>5. ASSUME NEW result \in {"TRUE", "FALSE", "OTHER"},
             ConditionBranch(control.node, result) # 0,
             jobs' = Append(jobs, NewJob(control.node, "RESOLVED", control.job, <<result>>)),
             stack' = <<Frame("exec", control.node, control.job, 0)>> \o stack,
             control' = Call("run", ConditionBranch(control.node, result), Last + 1)
      PROVE  IInv' /\ EndedStay
  <2>1. ConditionBranch(control.node, result) \in Node
    BY <1>5, CallTypes, ConditionBranchIs
  <2>2. control' \in Calls(Len(flow), Last + 1) /\ control'.op # "recall"
    BY <1>5, <2>1, CallTypes DEF Call, Calls, Ops
  <2>3. Frame("exec", control.node, control.job, 0) \in Frames(Len(flow), Last + 1)
    BY <1>1, CallTypes, FrameIs
  <2>4. stack' \in Seq(Frames(Len(flow), Last + 1))
    BY <1>5, <2>3, CallTypes, Pushed
  <2> QED
    BY <1>1, <1>2, <1>5, <2>2, <2>4, WaitKeeps
<1> QED
  BY <1>3, <1>4, <1>5 DEF RunCondition

LEMMA RunParallelKeeps == IInv /\ RunParallel => IInv' /\ EndedStay
<1> SUFFICES ASSUME IInv, RunParallel
             PROVE  IInv' /\ EndedStay
  OBVIOUS
<1> DEFINE n == control.node
           branches == Branches(n)
           result == [i \in DOMAIN branches |-> "NONE"]
           waiting == Frame("exec", n, control.job, 0)
           split == Frame("parallel", n, Last + 1, 1)
<1>1. /\ control.op = "run" /\ n \in Node /\ control.job \in 0..Last
      /\ UNCHANGED <<flow, execution>>
      /\ jobs' = Append(jobs, NewJob(n, "PENDING", control.job, result))
  BY CallTypes DEF RunParallel, Running
<1>2. /\ branches \in Seq(Node) /\ Len(branches) \in 0..Len(flow)
      /\ Last \in Nat /\ Len(flow) \in Nat /\ Node = 1..Len(flow)
      /\ stack \in Seq(Frames(Len(flow), Last))
  BY <1>1, CallTypes, BranchesAre
<1>3. result \in Seq(Marks) /\ "PENDING" \in Status
  BY <1>2 DEF Marks, Status
<1>4. waiting \in Frames(Len(flow), Last + 1)
  BY <1>1, <1>2, FrameIs
<1>5. <<waiting>> \o stack \in Seq(Frames(Len(flow), Last + 1))
  BY <1>2, <1>4, Pushed
<1>6. CASE /\ branches = <<>>
           /\ stack' = <<waiting>> \o stack
           /\ control' = Call("end", n, Last + 1)
  <2>1. control' \in Calls(Len(flow), Last + 1) /\ control'.op # "recall"
    BY <1>1, <1>2, <1>6 DEF Call, Calls, Ops
  <2> HIDE DEF result, waiting
  <2> QED
    BY <1>1, <1>3, <1>5, <1>6, <2>1, WaitKeeps
<1>7. CASE /\ branches # <<>>
           /\ stack' = <<split, waiting>> \o stack
           /\ control' = Call("run", branches[1], Last + 1)
  <2>1. branches[1] \in Node /\ 1 \in 0..Len(flow)
    BY <1>2, <1>7
  <2>2. control' \in Calls(Len(flow), Last + 1) /\ control'.op # "recall"
    BY <1>2, <1>7, <2>1 DEF Call, Calls, Ops
  <2>3. split \in Frames(Len(flow), Last + 1)
    BY <1>1, <1>2, <2>1, FrameIs
  <2>4. stack' \in Seq(Frames(Len(flow), Last + 1))
    <3> HIDE DEF split, waiting
    <3> QED
      BY <1>2, <1>4, <1>7, <2>3, FramesGrow
  <2> HIDE DEF result, split, waiting
  <2> QED
    BY <1>1, <1>3, <2>2, <2>4, WaitKeeps
<1> QED
  BY <1>6, <1>7 DEF RunParallel

LEMMA RunAsynchronousKeeps ==
    IInv /\ (RunDelay \/ RunManual \/ RunRequest) => IInv' /\ EndedStay
<1> SUFFICES ASSUME IInv, RunDelay \/ RunManual \/ RunRequest
             PROVE  IInv' /\ EndedStay
  OBVIOUS
<1>1. /\ control.op = "run" /\ control.node \in Node /\ control.job \in 0..Last
      /\ UNCHANGED <<flow, execution>> /\ 0 \in 0..Last
  BY CallTypes DEF RunDelay, RunManual, RunRequest, Running
<1>2. "PENDING" \in Status /\ <<>> \in Seq(Marks)
  BY DEF Status
<1>3. CASE RunDelay
  <2>1. control' \in Calls(Len(flow), Last + 1) /\ control'.op # "recall"
    BY <1>1, <1>3, CallTypes DEF RunDelay, Call, Calls, Ops
  <2>2. Frame("exec", control.node, control.job, 0) \in Frames(Len(flow), Last + 1)
    BY <1>1, CallTypes, FrameIs
  <2>3. stack' \in Seq(Frames(Len(flow), Last + 1))
    BY <1>3, <2>2, CallTypes, Pushed DEF RunDelay
  <2> QED
    BY <1>1, <1>2, <1>3, <2>1, <2>3, WaitKeeps DEF RunDelay
<1>4. CASE RunManual
  BY <1>1, <1>2, <1>4, FinishKeeps DEF RunManual
<1>5. CASE RunRequest
  BY <1>1, <1>2, <1>5, FinishKeeps DEF RunRequest
<1> QED
  BY <1>3, <1>4, <1>5

LEMMA RecallAsynchronousKeeps == IInv /\ RecallAsynchronous => IInv' /\ EndedStay
<1> SUFFICES ASSUME IInv, RecallAsynchronous
             PROVE  IInv' /\ EndedStay
  OBVIOUS
<1>1. PICK s \in Status :
          /\ jobs' = [jobs EXCEPT ![control.job].status = s]
          /\ control' = After(control.node, control.job, s)
  BY DEF RecallAsynchronous
<1>2. /\ control.node \in Node /\ control.job \in Job /\ Job = 1..Last /\ Last \in Nat
      /\ JobsOK /\ UNCHANGED <<flow, execution, stack>>
  BY CallTypes DEF RecallAsynchronous
<1>3. jobs[control.job].status = "PENDING" \/ Recounted(control.job)
  BY DEF RecallAsynchronous, IInv, RecalledIsPending
<1> DEFINE r == [jobs[control.job] EXCEPT !.status = s]
<1>4. /\ r \in Rows(Len(flow)) /\ r.upstream = jobs[control.job].upstream
      /\ jobs' = [jobs EXCEPT ![control.job] = r]
  BY <1>1, <1>2, JobTypes DEF Rows
<1>5. control' \in Calls(Len(flow), Last) /\ control'.op # "recall"
  BY <1>1, <1>2, AfterIs DEF IInv
<1>6. stack' \in Seq(Frames(Len(flow), Last))
  BY <1>2, CallTypes
<1> HIDE DEF r
<1> QED
  BY <1>2, <1>3, <1>4, <1>5, <1>6, Updates

LEMMA RecallConditionKeeps == IInv /\ RecallCondition => IInv' /\ EndedStay
<1> SUFFICES ASSUME IInv, RecallCondition
             PROVE  IInv' /\ EndedStay
  OBVIOUS
<1>1. /\ control.node \in Node /\ control.job \in Job /\ Job = 1..Last /\ Last \in Nat
      /\ Len(flow) \in Nat /\ Node = 1..Len(flow)
      /\ UNCHANGED <<flow, jobs, execution>> /\ execution \in {"STARTED", "RESOLVED", "FAILED"}
  BY CallTypes DEF RecallCondition, Recalled, IInv
<1>2. CASE /\ control' = After(control.node, control.job, "RESOLVED")
           /\ UNCHANGED stack
  <2>1. control' \in Calls(Len(flow), Last) /\ control'.op # "recall"
    BY <1>1, <1>2, AfterIs DEF IInv
  <2> QED
    BY <1>1, <1>2, <2>1, CallTypes, Leaves DEF RecalledIsPending
<1>3. CASE /\ stack' = <<Frame("exec", control.node, control.job, 0)>> \o stack
           /\ control' = Call("end", control.node, control.job)
  <2>1. control' \in Calls(Len(flow), Last) /\ control'.op # "recall"
    BY <1>1, <1>3 DEF Call, Calls, Ops
  <2>2. Frame("exec", control.node, control.job, 0) \in Frames(Len(flow), Last)
    BY <1>1, FrameIs
  <2>3. stack' \in Seq(Frames(Len(flow), Last))
    BY <1>1, <1>3, <2>2, CallTypes, Pushed
  <2> QED
    BY <1>1, <2>1, <2>3, Leaves DEF RecalledIsPending
<1> QED
  BY <1>2, <1>3 DEF RecallCondition

LEMMA RecallParallelKeeps == IInv /\ RecallParallel => IInv' /\ EndedStay
<1> SUFFICES ASSUME IInv, RecallParallel
             PROVE  IInv' /\ EndedStay
  OBVIOUS
<1> DEFINE n == control.node
           j == BranchParentJob(control.job, n)
           start == BranchStart(jobs[control.job].node, n)
           i == CHOOSE k \in DOMAIN Branches(n) : Branches(n)[k] = start
           result == [jobs[j].result EXCEPT ![i] = jobs[control.job].status]
           status == Verdict(flow[n].mode, result)
<1>1. /\ n \in Node /\ control.job \in Job /\ Job = 1..Last /\ Last \in Nat
      /\ Len(flow) \in Nat /\ Node = 1..Len(flow) /\ JobsOK /\ WellFormed(flow)
      /\ stack \in Seq(Frames(Len(flow), Last))
      /\ UNCHANGED <<flow, execution>> /\ execution \in {"STARTED", "RESOLVED", "FAILED"}
  BY CallTypes DEF RecallParallel, Recalled, IInv
<1>2. j \in Job \cup {0}
  BY <1>1, BranchParentJobIs
<1>3. CASE Finish(n, control.job, "FAILED", <<>>) /\ UNCHANGED stack
  <2>1. "FAILED" \in Status /\ <<>> \in Seq(Marks) /\ control.job \in 0..Last
    BY <1>1 DEF Status
  <2> QED
    BY <1>1, <1>3, <2>1, FinishKeeps
<1>4. CASE control' = Return(0) /\ UNCHANGED <<jobs, stack>>
  <2>1. control' \in Calls(Len(flow), Last) /\ control'.op # "recall"
    BY <1>1, <1>4 DEF Return, Call, Calls, Ops
  <2> QED
    BY <1>1, <1>4, <2>1, Leaves DEF RecalledIsPending
<1>5. ASSUME /\ j # 0
             /\ ~ Decided(j)
             /\ jobs' = [jobs EXCEPT ![j].result = result, ![j].status = status],
             \/ /\ status = "PENDING"
                /\ stack' = <<Frame("exec", n, control.job, 0)>> \o stack
                /\ control' = Call("end", n, j)
             \/ /\ status # "PENDING"
                /\ control' = After(n, j, status)
                /\ UNCHANGED stack
      PROVE  IInv' /\ EndedStay
  <2>1. j \in Job /\ jobs[j].status = "PENDING"
    BY <1>2, <1>5 DEF Decided
  <2>2. status \in Status
    BY VerdictIs
  <2>3. result \in Seq(Marks)
    <3>1. jobs[j].result \in Seq(Marks) /\ jobs[control.job].status \in Marks
      BY <1>1, <2>1, JobTypes DEF Rows, Marks
    <3> HIDE DEF i, j
    <3> QED
      BY <3>1, Replaced
  <2> HIDE DEF status, result, i, j
  <2> DEFINE r == [jobs[j] EXCEPT !.result = result, !.status = status]
  <2>4. jobs[j] \in Rows(Len(flow)) /\ jobs \in Seq(Rows(Len(flow)))
    BY <1>1, <2>1, JobTypes DEF JobsOK
  <2>5. r \in Rows(Len(flow)) /\ r.upstream = jobs[j].upstream
    BY <2>2, <2>3, <2>4 DEF Rows
  <2>6. jobs' = [jobs EXCEPT ![j] = r]
    BY <1>5, <2>1, <2>4 DEF Rows
  <2> HIDE DEF r
  <2>7. CASE /\ stack' = <<Frame("exec", n, control.job, 0)>> \o stack
             /\ control' = Call("end", n, j)
    <3>1. control' \in Calls(Len(flow), Last) /\ control'.op # "recall"
      BY <1>1, <2>1, <2>7 DEF Call, Calls, Ops
    <3>2. Frame("exec", n, control.job, 0) \in Frames(Len(flow), Last)
      BY <1>1, FrameIs
    <3>3. stack' \in Seq(Frames(Len(flow), Last))
      BY <1>1, <2>7, <3>2, Pushed
    <3> QED
      BY <1>1, <2>1, <2>5, <2>6, <3>1, <3>3, Updates
  <2>8. CASE control' = After(n, j, status) /\ UNCHANGED stack
    <3>1. control' \in Calls(Len(flow), Last) /\ control'.op # "recall"
      BY <1>1, <2>1, <2>8, AfterIs
    <3> QED
      BY <1>1, <2>1, <2>5, <2>6, <2>8, <3>1, Updates
  <2> QED
    BY <1>5, <2>7, <2>8
<1> QED
  BY <1>3, <1>4, <1>5 DEF RecallParallel

-----------------------------------------------------------------------------
(* The calls and returns of the processor *)

LEMMA EndBranchKeeps == IInv /\ EndBranch => IInv' /\ EndedStay
<1> SUFFICES ASSUME IInv, EndBranch
             PROVE  IInv' /\ EndedStay
  OBVIOUS
<1> DEFINE p == BranchParent(control.node)
<1>1. /\ control.node \in Node /\ control.job \in Job /\ Job = 1..Last /\ Last \in Nat
      /\ Len(flow) \in Nat /\ Node = 1..Len(flow) /\ WellFormed(flow)
      /\ UNCHANGED <<flow, jobs, execution>> /\ execution \in {"STARTED", "RESOLVED", "FAILED"}
  BY CallTypes DEF EndBranch, IInv
<1>2. p \in Node /\ flow[p].type \in {"condition", "parallel"}
  BY <1>1, BranchParentIs DEF EndBranch
<1>3. control' = Call("recall", p, control.job)
  BY DEF EndBranch
<1> HIDE DEF p
<1>4. control' \in Calls(Len(flow), Last) /\ control'.node = p
  BY <1>1, <1>2, <1>3 DEF Call, Calls, Ops
<1>5. RecalledIsPending'
  BY <1>1, <1>2, <1>4 DEF RecalledIsPending, Asynchronous
<1>6. Frame("end", 0, control.job, 0) \in Frames(Len(flow), Last)
  BY <1>1, FrameIs
<1>7. stack' \in Seq(Frames(Len(flow), Last))
  BY <1>1, <1>6, CallTypes, Pushed DEF EndBranch
<1> QED
  BY <1>1, <1>4, <1>5, <1>7, Leaves

LEMMA ExitKeeps == IInv /\ Exit => IInv' /\ EndedStay
<1> SUFFICES ASSUME IInv, Exit
             PROVE  IInv' /\ EndedStay
  OBVIOUS
<1>1. /\ control.job \in Job /\ Last \in Nat /\ Len(flow) \in Nat /\ JobsOK
      /\ stack \in Seq(Frames(Len(flow), Last))
      /\ UNCHANGED <<flow, jobs, stack>> /\ control' = Return(0)
      /\ UpdateStatus(StatusMap(jobs[control.job].status))
  BY CallTypes DEF Exit
<1>2. control' \in Calls(Len(flow), Last) /\ control'.op # "recall"
  BY <1>1 DEF Return, Call, Calls, Ops
<1>3. jobs[control.job].status \in Status
  BY <1>1, JobTypes DEF Rows
<1>4. execution' \in {"STARTED", "RESOLVED", "FAILED"}
  BY <1>1, <1>3 DEF UpdateStatus, StatusMap, Status, IInv
<1> QED
  BY <1>1, <1>2, <1>4, Leaves DEF RecalledIsPending

LEMMA ReturnKeeps ==
    IInv /\ (ReturnToExec \/ ReturnToEnd \/ ReturnToParallel \/ Done) => IInv' /\ EndedStay
<1> SUFFICES ASSUME IInv, ReturnToExec \/ ReturnToEnd \/ ReturnToParallel \/ Done
             PROVE  IInv' /\ EndedStay
  OBVIOUS
<1> DEFINE frame == Head(stack)
<1>1. /\ control.job \in 0..Last /\ Job = 1..Last /\ Last \in Nat
      /\ Len(flow) \in Nat /\ Node = 1..Len(flow) /\ WellFormed(flow)
      /\ stack \in Seq(Frames(Len(flow), Last))
      /\ UNCHANGED <<flow, jobs, execution>> /\ execution \in {"STARTED", "RESOLVED", "FAILED"}
  BY CallTypes DEF ReturnToExec, ReturnToEnd, ReturnToParallel, Done, IInv
<1>2. ASSUME stack # <<>>
      PROVE  /\ Tail(stack) \in Seq(Frames(Len(flow), Last))
             /\ frame \in Frames(Len(flow), Last) /\ frame = stack[1]
  BY <1>1, <1>2
<1>3. ASSUME control' \in Calls(Len(flow), Last), control'.op # "recall",
             stack' \in Seq(Frames(Len(flow), Last))
      PROVE  IInv' /\ EndedStay
  BY <1>1, <1>3, Leaves DEF RecalledIsPending
<1>4. CASE ReturnToExec
  <2>1. /\ stack # <<>> /\ frame.fn = "exec" /\ stack' = Tail(stack)
        /\ control' = IF control.job = 0 THEN Return(0)
                      ELSE After(frame.node, control.job, jobs[control.job].status)
    BY <1>4 DEF ReturnToExec, Returning
  <2>2. frame.node \in Node
    BY <1>1, <1>2, <2>1 DEF Frames
  <2> HIDE DEF frame
  <2>3. Return(0) \in Calls(Len(flow), Last) /\ Return(0).op # "recall"
    BY <1>1 DEF Return, Call, Calls, Ops
  <2>4. control' \in Calls(Len(flow), Last) /\ control'.op # "recall"
    BY <1>1, <2>1, <2>2, <2>3, AfterIs
  <2> QED
    BY <1>2, <1>3, <2>1, <2>4
<1>5. CASE ReturnToEnd
  <2>1. stack # <<>> /\ stack' = Tail(stack) /\ control' = Return(frame.job)
    BY <1>5 DEF ReturnToEnd, Returning
  <2>2. frame.job \in 0..Last
    BY <1>2, <2>1 DEF Frames
  <2> HIDE DEF frame
  <2>3. control' \in Calls(Len(flow), Last) /\ control'.op # "recall"
    BY <1>1, <2>1, <2>2 DEF Return, Call, Calls, Ops
  <2> QED
    BY <1>2, <1>3, <2>1, <2>3
<1>6. CASE ReturnToParallel
  <2> DEFINE branches == Branches(frame.node)
  <2>1. /\ stack # <<>> /\ frame.fn = "parallel"
        /\ \/ /\ frame.branch < Len(branches)
              /\ stack' = [stack EXCEPT ![1].branch = @ + 1]
              /\ control' = Call("run", branches[frame.branch + 1], frame.job)
           \/ /\ stack' = Tail(stack)
              /\ control' = Call("end", frame.node, frame.job)
    BY <1>6 DEF ReturnToParallel
  <2>2. /\ frame.node \in Node /\ frame.job \in Job /\ frame.branch \in Nat
        /\ frame \in Frames(Len(flow), Last) /\ frame = stack[1]
    BY <1>1, <1>2, <2>1 DEF Frames
  <2>3. branches \in Seq(Node) /\ Len(branches) \in 0..Len(flow)
    BY <1>1, BranchesAre
  <2> HIDE DEF frame, branches
  <2>4. CASE /\ frame.branch < Len(branches)
             /\ stack' = [stack EXCEPT ![1].branch = @ + 1]
             /\ control' = Call("run", branches[frame.branch + 1], frame.job)
    <3>0. frame.branch + 1 \in 1..Len(branches)
      BY <2>2, <2>3, <2>4
    <3>1. branches[frame.branch + 1] \in Node /\ frame.branch + 1 \in 0..Len(flow)
      BY <1>1, <2>3, <3>0
    <3>2. control' \in Calls(Len(flow), Last) /\ control'.op # "recall"
      BY <1>1, <2>2, <2>4, <3>1 DEF Call, Calls, Ops
    <3> DEFINE more == [frame EXCEPT !.branch = frame.branch + 1]
    <3>3. more \in Frames(Len(flow), Last)
      BY <2>2, <3>1 DEF Frames
    <3>4. stack' = [stack EXCEPT ![1] = more]
      BY <2>2, <2>4
    <3> HIDE DEF more
    <3>5. stack' \in Seq(Frames(Len(flow), Last))
      BY <1>1, <3>3, <3>4, Replaced
    <3> QED
      BY <1>3, <3>2, <3>5
  <2>5. CASE stack' = Tail(stack) /\ control' = Call("end", frame.node, frame.job)
    <3>1. control' \in Calls(Len(flow), Last) /\ control'.op # "recall"
      BY <1>1, <2>2, <2>5 DEF Call, Calls, Ops
    <3> QED
      BY <1>2, <1>3, <2>1, <2>5, <3>1
  <2> QED
    BY <2>1, <2>4, <2>5
<1>7. CASE Done
  <2>1. control' \in Calls(Len(flow), Last) /\ control'.op # "recall"
    BY <1>1, <1>7 DEF Done, Idle, Call, Calls, Ops
  <2> QED
    BY <1>1, <1>3, <1>7, <2>1 DEF Done
<1> QED
  BY <1>4, <1>5, <1>6, <1>7

LEMMA StartKeeps == IInv /\ Start => IInv' /\ EndedStay
<1> SUFFICES ASSUME IInv, Start
             PROVE  IInv' /\ EndedStay
  OBVIOUS
<1>1. /\ Last \in Nat /\ Len(flow) \in Nat /\ Node = 1..Len(flow)
      /\ stack' \in Seq(Frames(Len(flow), Last))
      /\ UNCHANGED <<flow, jobs>>
  BY CallTypes DEF Start
<1>2. /\ execution' \in {"STARTED", "RESOLVED", "FAILED"}
      /\ control' = Return(0) \/ \E head \in Node : control' = Call("run", head, 0)
  BY DEF Start, IInv, UpdateStatus
<1>3. control' \in Calls(Len(flow), Last) /\ control'.op # "recall"
  BY <1>1, <1>2 DEF Return, Call, Calls, Ops
<1> QED
  BY <1>1, <1>2, <1>3, Leaves DEF RecalledIsPending

LEMMA ResumeKeeps ==
    ASSUME IInv, NEW j \in Job, Resume(j) \/ ResumeStale(j)
    PROVE  IInv' /\ EndedStay
<1>1. /\ Last \in Nat /\ Len(flow) \in Nat /\ Node = 1..Len(flow) /\ Job = 1..Last /\ JobsOK
      /\ stack' \in Seq(Frames(Len(flow), Last)) /\ execution' \in {"STARTED", "RESOLVED", "FAILED"}
      /\ UNCHANGED <<flow, jobs>>
      /\ control' = Call("recall", jobs[j].node, j)
  BY CallTypes DEF Resume, ResumeStale, Recall, IInv
<1>2. jobs[j].node \in Node
  BY <1>1, JobTypes DEF Rows
<1>3. /\ control' \in Calls(Len(flow), Last) /\ control'.job = j /\ control'.op = "recall"
      /\ control'.node = jobs[j].node
  BY <1>1, <1>2 DEF Call, Calls, Ops
<1>4. CASE jobs[j].status = "PENDING"
  <2>1. RecalledIsPending'
    BY <1>1, <1>3, <1>4 DEF RecalledIsPending
  <2> QED
    BY <1>1, <1>3, <2>1, Leaves
<1>5. CASE jobs[j].status # "PENDING"
  <2>1. flow[jobs[j].node].type = "manual" /\ stale' = Append(stale, j)
    BY <1>5 DEF Resume, Resumable, ResumeStale
  <2>2. \E i \in DOMAIN stale' : stale'[i] = j
    BY <2>1
  <2>3. RecalledIsPending'
    BY <1>1, <1>3, <2>1, <2>2 DEF RecalledIsPending, Recounted, Recalled
  <2> QED
    BY <1>1, <1>3, <2>3, Leaves
<1> QED
  BY <1>4, <1>5

-----------------------------------------------------------------------------
(* The theorems *)

LEMMA InitHolds == Init => IInv
<1> SUFFICES ASSUME Init
             PROVE  IInv
  OBVIOUS
<1>1. WellFormed(flow)
  BY FlowsAssumption DEF Init
<1>2. Len(flow) \in Nat /\ Last = 0
  BY <1>1, NodeTypes DEF Init, Last
<1>3. JobsOK
  BY DEF Init, JobsOK, Job
<1>4. control \in Calls(Len(flow), Last) /\ control.op # "recall"
  BY <1>2 DEF Init, Call, Calls, Ops
<1> QED
  BY <1>1, <1>3, <1>4 DEF Init, IInv, RecalledIsPending

\* Each step keeps the invariant, and the jobs that have ended.
LEMMA StepHolds == IInv /\ Next => IInv' /\ EndedStay
  BY RunSimpleKeeps, RunConditionKeeps, RunParallelKeeps, RunAsynchronousKeeps,
     RecallAsynchronousKeeps, RecallConditionKeeps, RecallParallelKeeps,
     EndBranchKeeps, ExitKeeps, ReturnKeeps, StartKeeps, ResumeKeeps DEF Next, Step

\* The instance of the execution, over a step.
LEMMA SeenHolds == IInv /\ SeenOK /\ Next => SeenOK'
<1> SUFFICES ASSUME IInv, SeenOK, Next
             PROVE  SeenOK'
  OBVIOUS
<1>1. \A j \in Job : j \in Job'
  BY StepHolds DEF EndedStay, Job
<1>2. CASE UNCHANGED <<execution, seen, stale>>
  BY <1>1, <1>2 DEF SeenOK
<1>3. ASSUME NEW t \in {"STARTED", "RESOLVED", "FAILED"}, UpdateStatus(t), UNCHANGED stale
      PROVE  SeenOK'
  BY <1>1, <1>3 DEF SeenOK, UpdateStatus
<1>4. CASE Start
  BY <1>2, <1>3, <1>4 DEF Start
<1>5. CASE Exit
  <2>1. control.job \in Job
    BY <1>5, CallTypes DEF Exit
  <2>2. jobs[control.job].status \in Status
    BY <2>1, JobTypes DEF Rows, IInv
  <2>3. StatusMap(jobs[control.job].status) \in {"STARTED", "RESOLVED", "FAILED"}
    BY <2>2 DEF StatusMap, Status
  <2> QED
    BY <1>3, <1>5, <2>3 DEF Exit
<1>6. ASSUME NEW j \in Job, Resume(j)
      PROVE  SeenOK'
  BY <1>1, <1>6 DEF SeenOK, Resume, Resumable, Recall
<1>7. ASSUME NEW j \in Job, ResumeStale(j)
      PROVE  SeenOK'
  <2>1. stale' = Append(stale, j) /\ stale \in Seq(Nat) /\ j \in Nat /\ seen' = "STARTED"
    BY <1>7, CallTypes DEF ResumeStale, Recall, SeenOK
  <2>2. stale' \in Seq(Nat) /\ stale' # <<>>
    BY <2>1
  <2>3. \A i \in DOMAIN stale' : stale'[i] = j \/ (i \in DOMAIN stale /\ stale'[i] = stale[i])
    BY <2>1
  <2> QED
    BY <1>1, <2>1, <2>2, <2>3 DEF SeenOK
<1> QED
  BY <1>2, <1>4, <1>5, <1>6, <1>7
  DEF Next, Step, RunSimple, RunCondition, RunParallel, RunDelay, RunManual, RunRequest,
      RecallAsynchronous, RecallCondition, RecallParallel, EndBranch,
      ReturnToExec, ReturnToEnd, ReturnToParallel, Done

LEMMA StutterHolds == IInv /\ SeenOK /\ UNCHANGED vars => IInv' /\ SeenOK'
  BY DEF vars, IInv, SeenOK, JobsOK, Job, Last, RecalledIsPending, Recounted, Recalled

\* The invariant holds in each state of an execution.
LEMMA Invariance == Spec => [](IInv /\ SeenOK)
<1>1. IInv /\ SeenOK /\ [Next]_vars => IInv' /\ SeenOK'
  BY StepHolds, SeenHolds, StutterHolds
<1>2. Init => IInv /\ SeenOK
  BY InitHolds DEF Init, SeenOK
<1> QED
  BY <1>1, <1>2, PTL DEF Spec

\* The jobs, the calls in progress and the calls that wait are well-typed, for
\* every well-formed workflow: no call is made of a node or with a job that is
\* not there.
THEOREM TypeCorrect == Spec => []TypeOK
<1>1. IInv /\ SeenOK => TypeOK
  <2> SUFFICES ASSUME IInv, SeenOK
               PROVE  TypeOK
    OBVIOUS
  <2>1. flow \in Seq(Nodes(Len(flow))) /\ Node = 1..Len(flow) /\ JobsOK /\ Last \in Nat
    BY CallTypes, NodeTypes
  <2>2. ASSUME NEW j \in Job
        PROVE  /\ jobs[j].node \in Node
               /\ jobs[j].status \in Status
               /\ jobs[j].upstream \in 0..(j - 1)
               /\ \A i \in DOMAIN jobs[j].result :
                     jobs[j].result[i] \in Status \cup {"NONE", "TRUE", "FALSE", "OTHER"}
    <3>1. jobs[j] \in Rows(Len(flow)) /\ jobs[j].upstream \in 0..(j - 1)
      BY <2>1, JobTypes
    <3> QED
      BY <2>1, <3>1 DEF Rows, Marks
  <2>3. ASSUME NEW i \in DOMAIN stack
        PROVE  stack[i] \in [fn : {"exec", "end", "parallel"}, node : 0..Len(flow),
                             job : 0..Last, branch : 0..Len(flow)]
    <3>1. stack[i] \in Frames(Len(flow), Last)
      BY CallTypes
    <3> QED
      BY <3>1 DEF Frames
  <2>4. control \in [op : Ops, node : 0..Len(flow), job : 0..Last]
    BY DEF IInv, Calls
  <2>5. execution \in {"STARTED", "RESOLVED", "FAILED"} /\ seen \in {"STARTED", "RESOLVED", "FAILED"}
    BY DEF IInv, SeenOK
  <2>6. stale \in Seq(Job)
    BY DEF SeenOK
  <2> QED
    BY <2>1, <2>2, <2>3, <2>4, <2>5, <2>6 DEF TypeOK
<1> QED
  BY Invariance, <1>1, PTL

\* A job that has ended keeps its status, for every well-formed workflow and any
\* number of resumptions out of date: a parallel node that is decided counts no
\* more, and the job of a manual node changes only when an answer that was queued
\* before it ended is counted.
THEOREM EndedJobsAreKept == Spec => EndedJobsStay
<1> DEFINE A == \A j \in Job : jobs[j].status # "PENDING"
                                 => jobs'[j].status = jobs[j].status \/ Recounted(j)
<1>1. IInv /\ [Next]_vars => [A]_vars
  BY StepHolds DEF EndedStay
<1> HIDE DEF A
<1>2. Spec => [][A]_vars
  BY Invariance, <1>1, PTL DEF Spec
<1> QED
  BY <1>2 DEF A, EndedJobsStay

-----------------------------------------------------------------------------
(* The first of some elements on the way up *)

\* f is a set of rows that lead up to no row: the nodes of a flow by their
\* upstreams, or the jobs of an execution.
Rooted(f) ==
    /\ 0 \notin DOMAIN f
    /\ \A k \in DOMAIN f : f[k].upstream \in DOMAIN f \cup {0}
    /\ \A S \in SUBSET DOMAIN f : S # {} => \E k \in S : f[k].upstream \notin S

UpFrom(f) == [k \in DOMAIN f \cup {0} |-> IF k = 0 THEN 0 ELSE f[k].upstream]

\* The first element of Stop on the way up from n, n included.
FirstUp(f, Stop, n) ==
    (CHOOSE w : Walks(w, DOMAIN f \cup {0}, Stop, [k \in DOMAIN f \cup {0} |-> k], UpFrom(f)))[n]

\* The first element is found by the steps of the walk.
LEMMA FirstUpStep ==
    ASSUME NEW f, Rooted(f), NEW Stop \in SUBSET (DOMAIN f \cup {0}), 0 \in Stop
    PROVE  \A n \in DOMAIN f \cup {0} :
              /\ FirstUp(f, Stop, n) \in Stop
              /\ n \in Stop => FirstUp(f, Stop, n) = n
              /\ n \notin Stop => FirstUp(f, Stop, n) = FirstUp(f, Stop, f[n].upstream)
<1> DEFINE D == DOMAIN f \cup {0}
           val == [k \in D |-> k]
           w == CHOOSE w : Walks(w, D, Stop, val, UpFrom(f))
           Bad == {k \in D : w[k] \notin Stop}
<1>1. /\ UpFrom(f) \in [D -> D] /\ val \in [D -> D]
      /\ \A k \in D \ Stop : UpFrom(f)[k] = f[k].upstream
  BY DEF Rooted, UpFrom
<1>2. Ends(D, Stop, UpFrom(f))
  <2> SUFFICES ASSUME NEW S \in SUBSET (D \ Stop), S # {}
               PROVE  \E k \in S : UpFrom(f)[k] \notin S
    BY DEF Ends
  <2>1. PICK k \in S : f[k].upstream \notin S
    BY DEF Rooted
  <2> QED
    BY <1>1, <2>1
<1>3. \E v : Walks(v, D, Stop, val, UpFrom(f))
  BY <1>1, <1>2, WalkExists
<1>4. Walks(w, D, Stop, val, UpFrom(f))
  BY <1>3
<1>5. \A k \in D : w[k] = IF k \in Stop THEN k ELSE w[f[k].upstream]
  <2>1. w = [k \in D |-> IF k \in Stop THEN val[k] ELSE w[UpFrom(f)[k]]]
    BY <1>4 DEF Walks
  <2>2. \A k \in D : w[k] = IF k \in Stop THEN val[k] ELSE w[UpFrom(f)[k]]
    <3> HIDE DEF w, val
    <3> QED
      BY <2>1
  <2> HIDE DEF w
  <2> QED
    BY <1>1, <2>2
<1>6. Bad = {}
  <2>1. Bad \in SUBSET (D \ Stop)
    BY <1>5
  <2>2. \A k \in Bad : UpFrom(f)[k] \in Bad
    BY <1>1, <1>5, <2>1
  <2> HIDE DEF Bad
  <2> QED
    BY <1>2, <2>1, <2>2 DEF Ends
<1>7. \A n \in D : FirstUp(f, Stop, n) = w[n]
  BY DEF FirstUp
<1>8. \A n \in D \ Stop : f[n].upstream \in D
  BY DEF Rooted
<1> HIDE DEF w
<1> QED
  BY <1>5, <1>6, <1>7, <1>8

\* What is computed by the same steps is the same.
LEMMA FirstUpOnly ==
    ASSUME NEW f, Rooted(f), NEW Stop \in SUBSET (DOMAIN f \cup {0}), 0 \in Stop,
           NEW g, \A n \in Stop : g[n] = n,
           \A n \in DOMAIN f \ Stop : g[n] = g[f[n].upstream]
    PROVE  \A n \in DOMAIN f \cup {0} : g[n] = FirstUp(f, Stop, n)
<1> DEFINE Bad == {n \in DOMAIN f \cup {0} : g[n] # FirstUp(f, Stop, n)}
<1>1. \A n \in Stop : g[n] = FirstUp(f, Stop, n)
  BY FirstUpStep
<1>2. Bad \in SUBSET (DOMAIN f \ Stop)
  BY <1>1
<1>3. \A n \in Bad : f[n].upstream \in Bad
  <2> TAKE n \in Bad
  <2>1. n \in DOMAIN f \ Stop /\ f[n].upstream \in DOMAIN f \cup {0}
    BY <1>2 DEF Rooted
  <2>2. g[n] = g[f[n].upstream] /\ FirstUp(f, Stop, n) = FirstUp(f, Stop, f[n].upstream)
    BY <2>1, FirstUpStep
  <2> QED
    BY <2>1, <2>2
<1> HIDE DEF Bad
<1>4. Bad = {}
  BY <1>2, <1>3 DEF Rooted
<1> QED
  BY <1>4 DEF Bad

\* A set of rows that leads to itself is empty.
LEMMA UpInduction ==
    ASSUME NEW f, Rooted(f), NEW S \in SUBSET DOMAIN f, \A k \in S : f[k].upstream \in S
    PROVE  S = {}
  BY DEF Rooted

\* The nodes of a well-formed flow lead up to no node.
LEMMA FlowRooted ==
    ASSUME NEW f, WellFormed(f)
    PROVE  Rooted(f) /\ DOMAIN f = 1..Len(f) /\ Len(f) \in Nat
           /\ \A n \in DOMAIN f : f[n] \in Nodes(Len(f))
<1>1. f \in Seq(Nodes(Len(f))) /\ DOMAIN f = 1..Len(f) /\ Len(f) \in Nat
  BY DEF WellFormed
<1>2. \A n \in DOMAIN f : f[n] \in Nodes(Len(f))
  BY <1>1
<1>3. \A n \in DOMAIN f : f[n].upstream \in DOMAIN f \cup {0}
  <2> TAKE n \in DOMAIN f
  <2>1. f[n] \in Nodes(Len(f))
    BY <1>2
  <2>2. f[n].upstream \in 0..Len(f)
    BY <2>1 DEF Nodes
  <2> QED
    BY <1>1, <2>2
<1>4. 0 \notin DOMAIN f
  BY <1>1
<1> QED
  BY <1>1, <1>2, <1>3, <1>4 DEF Rooted, WellFormed

\* The jobs lead up to earlier ones.
Chained(js) ==
    /\ DOMAIN js = 1..Len(js) /\ Len(js) \in Nat
    /\ \A j \in DOMAIN js : js[j].upstream \in 0..(j - 1)

\* So do jobs.
LEMMA JobsRooted ==
    ASSUME NEW js, Chained(js)
    PROVE  Rooted(js)
<1>1. \A k \in DOMAIN js : js[k].upstream \in DOMAIN js \cup {0}
  BY DEF Chained
<1>2. ASSUME NEW S \in SUBSET DOMAIN js, S # {}
      PROVE  \E k \in S : js[k].upstream \notin S
  <2>1. S \in SUBSET Nat
    BY DEF Chained
  <2>2. PICK k \in S : \A y \in S : k <= y
    BY <1>2, <2>1, LeastNat
  <2> QED
    BY <2>1, <2>2 DEF Chained
<1> QED
  BY <1>1, <1>2 DEF Rooted, Chained

-----------------------------------------------------------------------------
(* Where a node is in a flow *)

\* The nodes that a branch of a parallel node starts with.
StartsIn(f) == {k \in DOMAIN f : f[k].branch # None /\ f[f[k].upstream].type = "parallel"}

\* The start of the innermost branch of a parallel node that n is in, 0 on the
\* main flow, and the parallel node.
PlaceIn(f, n) == FirstUp(f, {0} \cup StartsIn(f), n)
ParIn(f, n) == IF PlaceIn(f, n) = 0 THEN 0 ELSE f[PlaceIn(f, n)].upstream

\* The node the innermost branch starts from, of a condition too.
BranchedIn(f) == {k \in DOMAIN f : f[k].branch # None}
HomeIn(f, n) ==
    LET s == FirstUp(f, {0} \cup BranchedIn(f), n) IN IF s = 0 THEN 0 ELSE f[s].upstream

\* The place of a node is its own when a branch starts there, else the one of its upstream.
LEMMA PlaceStep ==
    ASSUME NEW f, WellFormed(f)
    PROVE  /\ PlaceIn(f, 0) = 0
           /\ \A n \in DOMAIN f :
                 /\ PlaceIn(f, n) \in {0} \cup StartsIn(f)
                 /\ n \in StartsIn(f) => PlaceIn(f, n) = n
                 /\ n \notin StartsIn(f) => PlaceIn(f, n) = PlaceIn(f, f[n].upstream)
<1>1. Rooted(f)
  BY FlowRooted
<1>2. {0} \cup StartsIn(f) \in SUBSET (DOMAIN f \cup {0}) /\ 0 \in {0} \cup StartsIn(f)
  BY DEF StartsIn
<1>3. \A n \in DOMAIN f : n # 0
  BY <1>1 DEF Rooted
<1> QED
  BY <1>1, <1>2, <1>3, FirstUpStep DEF PlaceIn

\* So is the node that the innermost branch starts from.
LEMMA HomeStep ==
    ASSUME NEW f, WellFormed(f)
    PROVE  /\ HomeIn(f, 0) = 0
           /\ \A n \in DOMAIN f :
                 HomeIn(f, n) = IF f[n].branch # None THEN f[n].upstream
                                ELSE HomeIn(f, f[n].upstream)
<1> DEFINE Stop == {0} \cup BranchedIn(f)
<1>1. Rooted(f)
  BY FlowRooted
<1>2. Stop \in SUBSET (DOMAIN f \cup {0}) /\ 0 \in Stop
  BY DEF BranchedIn
<1>3. \A n \in DOMAIN f : n # 0
  BY <1>1 DEF Rooted
<1>4. FirstUp(f, Stop, 0) = 0
  BY <1>1, <1>2, FirstUpStep
<1>5. \A n \in DOMAIN f : /\ f[n].branch # None => FirstUp(f, Stop, n) = n
                          /\ f[n].branch = None =>
                                FirstUp(f, Stop, n) = FirstUp(f, Stop, f[n].upstream)
  <2> TAKE n \in DOMAIN f
  <2>1. n \in Stop <=> f[n].branch # None
    BY <1>3 DEF BranchedIn
  <2> HIDE DEF Stop
  <2> QED
    BY <1>1, <1>2, <2>1, FirstUpStep
<1> QED
  BY <1>3, <1>4, <1>5 DEF HomeIn

\* findBranchParentNode finds that node.
LEMMA HomeIs ==
    ASSUME WellFormed(flow), NEW n \in Node \cup {0}
    PROVE  BranchParent(n) = HomeIn(flow, n)
<1> DEFINE D == Node \cup {0}
           Stop == {k \in D : k # 0 => flow[k].branch # None}
           val == [k \in D |-> IF k = 0 THEN 0 ELSE IF k \in Stop THEN flow[k].upstream ELSE 0]
           up == CHOOSE f : f = [k \in D |-> IF k = 0 THEN 0
                                           ELSE IF flow[k].branch # None THEN flow[k].upstream
                                           ELSE f[flow[k].upstream]]
           Bad == {k \in Node : up[k] # HomeIn(flow, k)}
<1>1. /\ UpFrom(flow) \in [D -> D] /\ Stop \in SUBSET D /\ 0 \in Stop /\ 0 \notin Node
      /\ \A k \in Node : UpFrom(flow)[k] = flow[k].upstream
      /\ Rooted(flow) /\ \A k \in Node : flow[k].upstream \in D
  BY FlowRooted DEF Rooted, UpFrom, Node
<1>2. val \in [D -> D]
  <2>1. \A k \in D : val[k] \in D
    BY <1>1
  <2> HIDE DEF D, Stop
  <2> QED
    BY <2>1
<1>3. Ends(D, Stop, UpFrom(flow))
  BY <1>1, UpstreamEnds
<1>4. \A f : Walks(f, D, Stop, val, UpFrom(flow)) <=>
             f = [k \in D |-> IF k = 0 THEN 0
                              ELSE IF flow[k].branch # None THEN flow[k].upstream
                              ELSE f[flow[k].upstream]]
  <2> TAKE f
  <2> DEFINE g == [k \in D |-> IF k \in Stop THEN val[k] ELSE f[UpFrom(flow)[k]]]
             h == [k \in D |-> IF k = 0 THEN 0
                              ELSE IF flow[k].branch # None THEN flow[k].upstream
                              ELSE f[flow[k].upstream]]
  <2>1. \A k \in D : g[k] = h[k]
    BY <1>1
  <2>2. g = h
    <3>1. g = [k \in D |-> g[k]] /\ h = [k \in D |-> h[k]]
      OBVIOUS
    <3> HIDE DEF g, h, D
    <3> QED
      BY <2>1, <3>1
  <2>3. Walks(f, D, Stop, val, UpFrom(flow)) <=> f = g
    BY DEF Walks
  <2> QED
    BY <2>2, <2>3
<1>5. \E f : Walks(f, D, Stop, val, UpFrom(flow))
  BY <1>1, <1>2, <1>3, WalkExists
<1>6. up = [k \in D |-> IF k = 0 THEN 0
                        ELSE IF flow[k].branch # None THEN flow[k].upstream
                        ELSE up[flow[k].upstream]]
  BY <1>4, <1>5
<1>7. up[0] = 0 /\ \A k \in Node : up[k] = IF flow[k].branch # None THEN flow[k].upstream
                                           ELSE up[flow[k].upstream]
  <2> HIDE DEF up
  <2> QED
    BY <1>1, <1>6
<1>8. Bad = {}
  <2>1. Bad \in SUBSET DOMAIN flow
    BY DEF Node
  <2>2. \A k \in Bad : flow[k].upstream \in Bad
    <3> HIDE DEF up
    <3> QED
      BY <1>1, <1>7, HomeStep DEF Node
  <2> HIDE DEF Bad
  <2> QED
    BY <1>1, <2>1, <2>2, UpInduction
<1>9. BranchParent(n) = up[n]
  BY DEF BranchParent
<1> HIDE DEF up
<1> QED
  BY <1>7, <1>8, <1>9, HomeStep

\* A node whose branch starts from a condition, or that comes after a node, is at
\* the place of this node.
LEMMA BelowPlace ==
    ASSUME NEW f, WellFormed(f), NEW m \in DOMAIN f, NEW n \in DOMAIN f, f[m].upstream = n,
           f[n].type # "parallel" \/ f[m].branch = None
    PROVE  PlaceIn(f, m) = PlaceIn(f, n) /\ ParIn(f, m) = ParIn(f, n)
<1>1. m \notin StartsIn(f)
  BY DEF StartsIn
<1> QED
  BY <1>1, PlaceStep DEF ParIn

\* The downstream of a node is at its place.
LEMMA DownstreamPlace ==
    ASSUME NEW f, WellFormed(f), NEW n \in DOMAIN f, f[n].downstream # 0
    PROVE  /\ f[n].downstream \in DOMAIN f
           /\ PlaceIn(f, f[n].downstream) = PlaceIn(f, n)
           /\ ParIn(f, f[n].downstream) = ParIn(f, n)
           /\ HomeIn(f, f[n].downstream) = HomeIn(f, n)
<1> DEFINE d == f[n].downstream
<1>1. d \in DOMAIN f
  <2>1. f[n] \in Nodes(Len(f)) /\ DOMAIN f = 1..Len(f) /\ Len(f) \in Nat
    BY FlowRooted
  <2>2. d \in 0..Len(f)
    BY <2>1 DEF Nodes
  <2> QED
    BY <2>1, <2>2
<1>2. f[d].upstream = n /\ f[d].branch = None
  BY DEF WellFormed
<1> QED
  BY <1>1, <1>2, BelowPlace, HomeStep

\* The place is the one of the node that the innermost branch starts from, unless
\* it is a parallel node.
LEMMA HomePlace ==
    ASSUME NEW f, WellFormed(f), NEW n \in DOMAIN f
    PROVE  /\ HomeIn(f, n) = 0 => PlaceIn(f, n) = 0
           /\ HomeIn(f, n) # 0 =>
                 /\ HomeIn(f, n) \in DOMAIN f
                 /\ f[HomeIn(f, n)].type \in {"condition", "parallel"}
                 /\ f[HomeIn(f, n)].type = "parallel" =>
                       PlaceIn(f, n) # 0 /\ ParIn(f, n) = HomeIn(f, n)
                 /\ f[HomeIn(f, n)].type # "parallel" => PlaceIn(f, n) = PlaceIn(f, HomeIn(f, n))
<1> DEFINE Stop == {0} \cup BranchedIn(f)
           s(k) == FirstUp(f, Stop, k)
           Bad == {k \in DOMAIN f : PlaceIn(f, k) # PlaceIn(f, s(k))}
<1>1. Rooted(f) /\ 0 \notin DOMAIN f /\ \A k \in DOMAIN f : f[k].upstream \in DOMAIN f \cup {0}
  BY FlowRooted DEF Rooted
<1>2. Stop \in SUBSET (DOMAIN f \cup {0}) /\ 0 \in Stop
  BY DEF BranchedIn
<1>3. /\ s(0) = 0
      /\ \A k \in DOMAIN f : /\ s(k) \in Stop
                             /\ f[k].branch # None => s(k) = k
                             /\ f[k].branch = None => s(k) = s(f[k].upstream)
  <2>1. \A k \in DOMAIN f : k \in Stop <=> f[k].branch # None
    BY <1>1 DEF BranchedIn
  <2> HIDE DEF Stop
  <2> QED
    BY <1>1, <1>2, <2>1, FirstUpStep
<1>4. Bad = {}
  <2>1. \A k \in Bad : f[k].upstream \in Bad
    <3> TAKE k \in Bad
    <3>1. f[k].branch = None /\ s(k) = s(f[k].upstream)
      BY <1>3
    <3>2. PlaceIn(f, k) = PlaceIn(f, f[k].upstream)
      BY <3>1, PlaceStep DEF StartsIn
    <3>3. f[k].upstream # 0
      BY <1>3, <3>1, <3>2, PlaceStep
    <3> QED
      BY <1>1, <3>1, <3>2, <3>3
  <2> HIDE DEF Bad
  <2>2. Bad \in SUBSET DOMAIN f
    BY DEF Bad
  <2> QED
    BY <1>1, <2>1, <2>2, UpInduction
<1>5. PlaceIn(f, n) = PlaceIn(f, s(n)) /\ s(n) \in Stop
  BY <1>3, <1>4
<1>6. HomeIn(f, n) = IF s(n) = 0 THEN 0 ELSE f[s(n)].upstream
  BY DEF HomeIn
<1> HIDE DEF s
<1>7. ASSUME s(n) # 0
      PROVE  /\ s(n) \in DOMAIN f /\ f[s(n)].branch # None /\ f[s(n)].upstream # 0
             /\ f[s(n)].upstream \in DOMAIN f
             /\ f[f[s(n)].upstream].type \in {"condition", "parallel"}
  <2>1. s(n) \in DOMAIN f /\ f[s(n)].branch # None
    BY <1>5, <1>7 DEF BranchedIn
  <2> QED
    BY <1>1, <2>1 DEF WellFormed
<1>8. ASSUME s(n) # 0, f[f[s(n)].upstream].type = "parallel"
      PROVE  PlaceIn(f, n) # 0 /\ ParIn(f, n) = f[s(n)].upstream
  <2>1. s(n) \in StartsIn(f)
    BY <1>7, <1>8 DEF StartsIn
  <2>2. PlaceIn(f, s(n)) = s(n)
    BY <1>7, <1>8, <2>1, PlaceStep
  <2> QED
    BY <1>5, <1>8, <2>2 DEF ParIn
<1>9. ASSUME s(n) # 0, f[f[s(n)].upstream].type # "parallel"
      PROVE  PlaceIn(f, n) = PlaceIn(f, f[s(n)].upstream)
  BY <1>5, <1>7, <1>9, BelowPlace
<1> QED
  BY <1>5, <1>6, <1>7, <1>8, <1>9, PlaceStep

\* The parallel node a node is in a branch of.
LEMMA ParIs ==
    ASSUME NEW f, WellFormed(f), NEW n \in DOMAIN f \cup {0}
    PROVE  /\ ParIn(f, n) \in DOMAIN f \cup {0}
           /\ ParIn(f, n) = 0 <=> PlaceIn(f, n) = 0
           /\ ParIn(f, n) # 0 =>
                 /\ f[ParIn(f, n)].type = "parallel"
                 /\ PlaceIn(f, n) \in StartsIn(f)
                 /\ f[PlaceIn(f, n)].upstream = ParIn(f, n)
           /\ PlaceIn(f, n) \in DOMAIN f \cup {0}
<1>1. PlaceIn(f, n) \in {0} \cup StartsIn(f)
  BY PlaceStep
<1>2. ASSUME NEW k \in StartsIn(f)
      PROVE  k \in DOMAIN f /\ f[k].upstream # 0 /\ f[f[k].upstream].type = "parallel"
             /\ f[k].upstream \in DOMAIN f
  BY FlowRooted DEF StartsIn, WellFormed, Rooted
<1>3. 0 \notin DOMAIN f
  BY FlowRooted DEF Rooted
<1> QED
  BY <1>1, <1>2, <1>3 DEF ParIn

\* Going up from parallel node to parallel node ends.
LEMMA ParInduction ==
    ASSUME NEW f, WellFormed(f), NEW S \in SUBSET DOMAIN f, \A k \in S : ParIn(f, k) \in S
    PROVE  S = {}
<1> DEFINE T == {k \in DOMAIN f : ParIn(f, k) \in S}
<1>1. 0 \notin DOMAIN f /\ \A k \in DOMAIN f : f[k].upstream \in DOMAIN f \cup {0}
  BY FlowRooted DEF Rooted
<1>2. \A k \in T : f[k].upstream \in T
  <2> TAKE k \in T
  <2>1. CASE k \in StartsIn(f)
    <3>1. ParIn(f, k) = f[k].upstream
      BY <1>1, <2>1, PlaceStep DEF ParIn
    <3> QED
      BY <3>1
  <2>2. CASE k \notin StartsIn(f)
    <3>1. PlaceIn(f, k) = PlaceIn(f, f[k].upstream)
      BY <2>2, PlaceStep
    <3>2. ParIn(f, k) = ParIn(f, f[k].upstream)
      BY <3>1 DEF ParIn
    <3>3. f[k].upstream # 0
      BY <1>1, <3>2, PlaceStep DEF ParIn
    <3> QED
      BY <1>1, <3>2, <3>3
  <2> QED
    BY <2>1, <2>2
<1>3. T = {}
  <2>1. T \in SUBSET DOMAIN f /\ Rooted(f)
    BY FlowRooted
  <2> HIDE DEF T
  <2> QED
    BY <1>2, <2>1, UpInduction
<1> QED
  BY <1>3

\* A parallel node is not in a branch of its own.
LEMMA ParIsOther ==
    ASSUME NEW f, WellFormed(f), NEW n \in DOMAIN f
    PROVE  ParIn(f, n) # n /\ (ParIn(f, n) # 0 => PlaceIn(f, ParIn(f, n)) # PlaceIn(f, n))
<1>1. ASSUME NEW k \in DOMAIN f, ParIn(f, k) = k
      PROVE  FALSE
  <2> DEFINE S == {k}
  <2>1. S \in SUBSET DOMAIN f /\ \A i \in S : ParIn(f, i) \in S
    BY <1>1
  <2>2. k \in S
    OBVIOUS
  <2> HIDE DEF S
  <2> QED
    BY <2>1, <2>2, ParInduction
<1>2. ASSUME ParIn(f, n) # 0, PlaceIn(f, ParIn(f, n)) = PlaceIn(f, n)
      PROVE  FALSE
  <2>1. ParIn(f, ParIn(f, n)) = ParIn(f, n) /\ ParIn(f, n) \in DOMAIN f
    BY <1>2, ParIs DEF ParIn
  <2> QED
    BY <1>1, <2>1
<1> QED
  BY <1>1, <1>2

\* The recursive function that the code's walks define exists.
LEMMA FirstUpExists ==
    ASSUME NEW f, Rooted(f), NEW Stop \in SUBSET (DOMAIN f \cup {0}), 0 \in Stop
    PROVE  \E g : g = [k \in DOMAIN f \cup {0} |-> IF k \in Stop THEN k ELSE g[f[k].upstream]]
<1> DEFINE D == DOMAIN f \cup {0}
           g == [n \in D |-> FirstUp(f, Stop, n)]
           h == [k \in D |-> IF k \in Stop THEN k ELSE g[f[k].upstream]]
<1>1. \A k \in D : k \notin Stop => f[k].upstream \in D
  BY DEF Rooted
<1>2. \A k \in D : g[k] = h[k]
  BY <1>1, FirstUpStep
<1>3. g = h
  <2>1. g = [k \in D |-> g[k]] /\ h = [k \in D |-> h[k]]
    OBVIOUS
  <2> HIDE DEF g, h, D
  <2> QED
    BY <1>2, <2>1
<1> QED
  BY <1>3

\* findBranchStartNode finds the first node below the parent.
LEMMA BranchStartStep ==
    ASSUME WellFormed(flow), NEW p
    PROVE  /\ BranchStart(0, p) = 0
           /\ \A n \in Node :
                BranchStart(n, p) = IF flow[n].upstream = p THEN n
                                    ELSE BranchStart(flow[n].upstream, p)
<1> DEFINE D == Node \cup {0}
           Stop == {0} \cup {k \in Node : flow[k].upstream = p}
           up == CHOOSE f : f = [k \in D |-> IF k = 0 \/ flow[k].upstream = p THEN k
                                             ELSE f[flow[k].upstream]]
<1>1. Rooted(flow) /\ 0 \notin Node /\ \A k \in Node : flow[k].upstream \in D
  BY FlowRooted DEF Rooted, Node
<1>2. \A f : f = [k \in D |-> IF k \in Stop THEN k ELSE f[flow[k].upstream]] <=>
             f = [k \in D |-> IF k = 0 \/ flow[k].upstream = p THEN k
                              ELSE f[flow[k].upstream]]
  <2> TAKE f
  <2> DEFINE g == [k \in D |-> IF k \in Stop THEN k ELSE f[flow[k].upstream]]
             h == [k \in D |-> IF k = 0 \/ flow[k].upstream = p THEN k
                               ELSE f[flow[k].upstream]]
  <2>1. \A k \in D : k \in Stop <=> k = 0 \/ flow[k].upstream = p
    BY <1>1
  <2>2. \A k \in D : g[k] = h[k]
    <3> HIDE DEF Stop
    <3> QED
      BY <2>1
  <2>3. g = [k \in D |-> g[k]] /\ h = [k \in D |-> h[k]]
    OBVIOUS
  <2>4. g = h
    <3> HIDE DEF g, h, D
    <3> QED
      BY <2>2, <2>3
  <2> QED
    BY <2>4
<1>3. \E f : f = [k \in D |-> IF k \in Stop THEN k ELSE f[flow[k].upstream]]
  BY <1>1, FirstUpExists DEF Node
<1>4. up = [k \in D |-> IF k = 0 \/ flow[k].upstream = p THEN k ELSE up[flow[k].upstream]]
  <2> HIDE DEF D, Stop
  <2> QED
    BY <1>2, <1>3
<1>5. \A n : BranchStart(n, p) = up[n]
  BY DEF BranchStart
<1> HIDE DEF up
<1>6. \A k \in D : up[k] = IF k = 0 \/ flow[k].upstream = p THEN k ELSE up[flow[k].upstream]
  BY <1>4
<1> QED
  BY <1>1, <1>5, <1>6

\* For the parallel node that a node is in a branch of, this is its place.
LEMMA BranchStartIs ==
    ASSUME WellFormed(flow), NEW n \in Node, ParIn(flow, n) # 0
    PROVE  BranchStart(n, ParIn(flow, n)) = PlaceIn(flow, n)
<1> DEFINE s == PlaceIn(flow, n)
           p == ParIn(flow, n)
           S == {k \in Node : PlaceIn(flow, k) = s /\ BranchStart(k, p) # s}
<1>1. Rooted(flow) /\ 0 \notin Node /\ \A k \in Node : flow[k].upstream \in Node \cup {0}
  BY FlowRooted DEF Rooted, Node
<1>2. s \in StartsIn(flow) /\ flow[s].upstream = p /\ s \in Node /\ p \in Node /\ s # 0 /\ p # 0
  BY ParIs, <1>1 DEF StartsIn, Node
<1>3. PlaceIn(flow, p) # s
  BY <1>2, ParIsOther DEF Node
<1>4. \A k \in S : flow[k].upstream \in S
  <2> TAKE k \in S
  <2> HIDE DEF s, p
  <2>1. k # s
    BY <1>2, BranchStartStep
  <2>2. k \notin StartsIn(flow)
    BY <2>1, PlaceStep DEF Node
  <2>3. PlaceIn(flow, flow[k].upstream) = s
    BY <2>2, PlaceStep DEF Node
  <2>4. flow[k].upstream # p /\ flow[k].upstream # 0
    BY <1>2, <1>3, <2>3, PlaceStep
  <2>5. BranchStart(k, p) = BranchStart(flow[k].upstream, p)
    BY <2>4, BranchStartStep
  <2> QED
    BY <1>1, <2>3, <2>4, <2>5
<1>5. S = {}
  <2>1. S \in SUBSET DOMAIN flow
    BY DEF Node
  <2> HIDE DEF S
  <2> QED
    BY <1>1, <1>4, <2>1, UpInduction
<1> QED
  BY <1>5

\* The branches of a parallel node start at places of their own.
LEMMA BranchPlaces ==
    ASSUME WellFormed(flow), NEW n \in Node, flow[n].type = "parallel"
    PROVE  /\ DOMAIN Branches(n) = 1..Len(Branches(n)) /\ Len(Branches(n)) \in 0..Len(flow)
           /\ \A i \in DOMAIN Branches(n) :
                 LET s == Branches(n)[i] IN
                 /\ s \in Node /\ PlaceIn(flow, s) = s
                 /\ ParIn(flow, s) = n /\ HomeIn(flow, s) = n
           /\ \A i, k \in DOMAIN Branches(n) : Branches(n)[i] = Branches(n)[k] => i = k
           /\ \A m \in Node : ParIn(flow, m) = n =>
                 \E i \in DOMAIN Branches(n) : Branches(n)[i] = PlaceIn(flow, m)
<1>1. /\ Branches(n) \in Seq(Node)
      /\ Len(Branches(n)) \in 0..Len(flow)
      /\ \A i \in DOMAIN Branches(n) :
            flow[Branches(n)[i]].upstream = n /\ flow[Branches(n)[i]].branch # None
      /\ \A i, k \in DOMAIN Branches(n) : Branches(n)[i] = Branches(n)[k] => i = k
      /\ \A m \in Node : flow[m].upstream = n /\ flow[m].branch # None =>
            \E i \in DOMAIN Branches(n) : Branches(n)[i] = m
  BY BranchesAre
<1>2. ASSUME NEW i \in DOMAIN Branches(n)
      PROVE  LET s == Branches(n)[i] IN
             /\ s \in Node /\ PlaceIn(flow, s) = s
             /\ ParIn(flow, s) = n /\ HomeIn(flow, s) = n
  <2> DEFINE s == Branches(n)[i]
  <2>1. s \in Node /\ s # 0 /\ flow[s].upstream = n /\ flow[s].branch # None
    BY <1>1, NodeTypes
  <2> HIDE DEF s
  <2>2. s \in StartsIn(flow)
    BY <2>1 DEF StartsIn, Node
  <2>3. PlaceIn(flow, s) = s /\ HomeIn(flow, s) = n
    BY <2>1, <2>2, PlaceStep, HomeStep DEF Node
  <2> QED
    BY <2>1, <2>3 DEF ParIn, s
<1>3. ASSUME NEW m \in Node, ParIn(flow, m) = n
      PROVE  \E i \in DOMAIN Branches(n) : Branches(n)[i] = PlaceIn(flow, m)
  <2>1. n # 0
    BY NodeTypes
  <2>2. PlaceIn(flow, m) \in StartsIn(flow) /\ flow[PlaceIn(flow, m)].upstream = n
    BY <1>3, <2>1, ParIs DEF Node
  <2> QED
    BY <1>1, <2>2 DEF StartsIn, Node
<1> QED
  <2>1. DOMAIN Branches(n) = 1..Len(Branches(n))
    BY <1>1
  <2> QED
    BY <1>1, <1>2, <1>3, <2>1

\* A is n, or a parallel node that n is in a branch of, at any depth.
Within(f, n, A) == \A S \in SUBSET (DOMAIN f \cup {0}) :
    n \in S /\ (\A k \in S \ {0} : ParIn(f, k) \in S) => A \in S

\* What is around the parallel node around n is around n, which is around itself, and
\* not around what it is in.
LEMMA WithinStep ==
    ASSUME NEW f, WellFormed(f), NEW n \in DOMAIN f, NEW A \in DOMAIN f
    PROVE  /\ Within(f, ParIn(f, n), A) => Within(f, n, A)
           /\ Within(f, n, n)
           /\ ~ Within(f, ParIn(f, n), n)
<1>1. Within(f, ParIn(f, n), A) => Within(f, n, A)
  BY FlowRooted DEF Within, Rooted
<1>2. Within(f, n, n)
  BY DEF Within
<1>3. ASSUME Within(f, ParIn(f, n), n)
      PROVE  FALSE
  <2> DEFINE C == {k \in DOMAIN f : Within(f, ParIn(f, k), n) /\ Within(f, ParIn(f, n), k)}
             X == DOMAIN f \cup {0}
  <2>1. 0 \notin DOMAIN f /\ \A k \in DOMAIN f : ParIn(f, k) \in X
    BY FlowRooted, ParIs DEF Rooted
  <2>2. \A k \in C : ParIn(f, k) \in C
    <3> TAKE k \in C
    <3> DEFINE q == ParIn(f, k)
               S == {i \in X : i = q \/ Within(f, ParIn(f, q), i)}
    <3>1. Within(f, q, n) /\ Within(f, ParIn(f, n), k) /\ k \in DOMAIN f /\ q \in X
      BY <2>1
    <3>2. Within(f, ParIn(f, n), q)
      BY <2>1, <3>1 DEF Within
    <3>3. q # 0
      <4> DEFINE Z == {0}
      <4>1. Z \in SUBSET X /\ \A i \in Z \ {0} : ParIn(f, i) \in Z
        OBVIOUS
      <4>2. 0 \in Z /\ n \notin Z
        BY <2>1
      <4> HIDE DEF Z, q
      <4> QED
        BY <3>1, <4>1, <4>2 DEF Within
    <3>4. n = q \/ Within(f, ParIn(f, q), n)
      <4> HIDE DEF q
      <4>1. S \in SUBSET X /\ q \in S
        BY <3>1
      <4>2. \A i \in S \ {0} : ParIn(f, i) \in S
        <5> TAKE i \in S \ {0}
        <5>1. i \in DOMAIN f /\ ParIn(f, i) \in X
          BY <2>1
        <5>2. Within(f, ParIn(f, q), ParIn(f, i))
          <6>1. CASE i = q
            BY <6>1 DEF Within
          <6>2. CASE Within(f, ParIn(f, q), i)
            BY <5>1, <6>2 DEF Within
          <6> QED
            BY <6>1, <6>2
        <5> QED
          BY <5>1, <5>2
      <4>3. n \in S
        <5> HIDE DEF S
        <5> QED
          BY <3>1, <4>1, <4>2 DEF Within
      <4> QED
        BY <4>3
    <3>5. Within(f, ParIn(f, q), n)
      <4> HIDE DEF q
      <4> QED
        BY <1>3, <3>4
    <3> QED
      BY <2>1, <3>2, <3>3, <3>5
  <2>3. n \in C
    BY <1>3
  <2>4. C \in SUBSET DOMAIN f
    OBVIOUS
  <2> HIDE DEF C
  <2> QED
    BY <2>2, <2>3, <2>4, ParInduction
<1> QED
  BY <1>1, <1>2, <1>3

-----------------------------------------------------------------------------
(* The jobs that a job leads up to *)

\* The closest job of node n up the jobs, j included; 0 when there is none.
UpIn(js, j, n) == FirstUp(js, {0} \cup {k \in DOMAIN js : js[k].node = n}, j)

\* c is d, or above it.
Leads(js, d, c) == \A S \in SUBSET (DOMAIN js \cup {0}) :
    d \in S /\ (\A k \in S \ {0} : js[k].upstream \in S) => c \in S

\* The closest job is found by the steps of the walk, and is an earlier one.
LEMMA UpStep ==
    ASSUME NEW js, Chained(js), NEW n
    PROVE  /\ UpIn(js, 0, n) = 0
           /\ \A j \in DOMAIN js :
                 /\ UpIn(js, j, n) \in 0..j
                 /\ UpIn(js, j, n) # 0 => UpIn(js, j, n) \in DOMAIN js
                                          /\ js[UpIn(js, j, n)].node = n
                 /\ js[j].node = n => UpIn(js, j, n) = j
                 /\ js[j].node # n => UpIn(js, j, n) = UpIn(js, js[j].upstream, n)
<1> DEFINE Stop == {0} \cup {k \in DOMAIN js : js[k].node = n}
           S == {j \in DOMAIN js : UpIn(js, j, n) > j}
<1>1. Rooted(js) /\ 0 \notin DOMAIN js /\ DOMAIN js \subseteq Nat
  <2>1. DOMAIN js = 1..Len(js) /\ Len(js) \in Nat
    BY DEF Chained
  <2>2. Rooted(js)
    BY JobsRooted
  <2> QED
    BY <2>1, <2>2
<1>2. Stop \in SUBSET (DOMAIN js \cup {0}) /\ 0 \in Stop
  OBVIOUS
<1>3. \A j \in DOMAIN js \cup {0} :
         /\ UpIn(js, j, n) \in Stop
         /\ j \in Stop => UpIn(js, j, n) = j
         /\ j \notin Stop => UpIn(js, j, n) = UpIn(js, js[j].upstream, n)
  <2>1. \A j : UpIn(js, j, n) = FirstUp(js, Stop, j)
    BY DEF UpIn
  <2> HIDE DEF Stop
  <2> QED
    BY <1>1, <1>2, <2>1, FirstUpStep
<1>4. S = {}
  <2>1. \A j \in S : js[j].upstream \in S
    <3> TAKE j \in S
    <3>1. j \in DOMAIN js /\ j \in Nat /\ j # 0
      BY <1>1
    <3>2. js[j].upstream \in 0..(j - 1) /\ js[j].upstream \in DOMAIN js \cup {0}
      BY <1>1, <3>1 DEF Chained, Rooted
    <3>3. j \notin Stop
      BY <1>3, <3>1
    <3>4. UpIn(js, js[j].upstream, n) = UpIn(js, j, n)
      BY <1>3, <3>1, <3>3
    <3>5. UpIn(js, j, n) > j /\ UpIn(js, 0, n) = 0
      BY <1>2, <1>3
    <3>6. UpIn(js, j, n) \in Nat
      BY <1>1, <1>3, <3>1
    <3> HIDE DEF Stop
    <3>7. js[j].upstream # 0
      BY <3>1, <3>4, <3>5, <3>6
    <3> QED
      BY <3>1, <3>2, <3>4, <3>5, <3>6, <3>7
  <2> HIDE DEF S
  <2>2. S \in SUBSET DOMAIN js
    BY DEF S
  <2> QED
    BY <1>1, <2>1, <2>2, UpInduction
<1>5. \A j \in DOMAIN js : UpIn(js, j, n) \in 0..j
  <2> TAKE j \in DOMAIN js
  <2>1. UpIn(js, j, n) \in Nat /\ j \in Nat
    BY <1>1, <1>3
  <2> QED
    BY <1>4, <2>1
<1>6. \A j \in DOMAIN js : j \in Stop <=> js[j].node = n
  BY <1>1
<1>7. \A k \in Stop : k # 0 => k \in DOMAIN js /\ js[k].node = n
  OBVIOUS
<1> HIDE DEF Stop
<1> QED
  BY <1>2, <1>3, <1>5, <1>6, <1>7

\* The jobs table of an execution is such.
LEMMA JobsChained ==
    ASSUME JobsOK
    PROVE  Chained(jobs)
<1>1. Job = 1..Last /\ Last \in Nat /\ \A j \in Job : jobs[j].upstream \in 0..(j - 1)
  BY JobTypes
<1> QED
  BY <1>1 DEF Chained, Job, Last

\* findBranchParentJob finds that job.
LEMMA UpIs ==
    ASSUME JobsOK, NEW n, NEW j \in Job \cup {0}
    PROVE  BranchParentJob(j, n) = UpIn(jobs, j, n)
<1> DEFINE D == Job \cup {0}
           Stop == {0} \cup {k \in Job : jobs[k].node = n}
           up == CHOOSE f : f = [k \in D |-> IF k = 0 \/ jobs[k].node = n THEN k
                                             ELSE f[jobs[k].upstream]]
<1>1. Chained(jobs) /\ Rooted(jobs) /\ 0 \notin Job /\ \A k \in Job : jobs[k].upstream \in D
  BY JobsChained, JobsRooted DEF Rooted, Job
<1>2. \A f : f = [k \in D |-> IF k \in Stop THEN k ELSE f[jobs[k].upstream]] <=>
             f = [k \in D |-> IF k = 0 \/ jobs[k].node = n THEN k
                              ELSE f[jobs[k].upstream]]
  <2> TAKE f
  <2> DEFINE g == [k \in D |-> IF k \in Stop THEN k ELSE f[jobs[k].upstream]]
             h == [k \in D |-> IF k = 0 \/ jobs[k].node = n THEN k
                               ELSE f[jobs[k].upstream]]
  <2>1. \A k \in D : k \in Stop <=> k = 0 \/ jobs[k].node = n
    BY <1>1
  <2>2. \A k \in D : g[k] = h[k]
    <3> HIDE DEF Stop
    <3> QED
      BY <2>1
  <2>3. g = [k \in D |-> g[k]] /\ h = [k \in D |-> h[k]]
    OBVIOUS
  <2>4. g = h
    <3> HIDE DEF g, h, D
    <3> QED
      BY <2>2, <2>3
  <2> QED
    BY <2>4
<1>3. \E f : f = [k \in D |-> IF k \in Stop THEN k ELSE f[jobs[k].upstream]]
  BY <1>1, FirstUpExists DEF Job
<1>4. up = [k \in D |-> IF k = 0 \/ jobs[k].node = n THEN k ELSE up[jobs[k].upstream]]
  <2> HIDE DEF D, Stop
  <2> QED
    BY <1>2, <1>3
<1>5. BranchParentJob(j, n) = up[j]
  BY DEF BranchParentJob
<1> HIDE DEF up
<1>6. \A k \in D : up[k] = IF k \in Stop THEN k ELSE up[jobs[k].upstream]
  BY <1>1, <1>4
<1>7. \A k \in D : up[k] = FirstUp(jobs, Stop, k)
  <2>1. /\ Stop \in SUBSET (DOMAIN jobs \cup {0}) /\ 0 \in Stop
        /\ \A k \in Stop : up[k] = k
        /\ \A k \in DOMAIN jobs \ Stop : up[k] = up[jobs[k].upstream]
    BY <1>6 DEF Job
  <2> HIDE DEF Stop
  <2> QED
    BY <1>1, <2>1, FirstUpOnly DEF Job
<1> QED
  BY <1>5, <1>7 DEF UpIn, Job

\* What a job leads up to is itself or what its upstream job leads up to.
LEMMA LeadsStep ==
    ASSUME NEW js, Chained(js), NEW c \in DOMAIN js
    PROVE  /\ ~ Leads(js, 0, c)
           /\ \A d \in DOMAIN js : Leads(js, d, c) => d = c \/ Leads(js, js[d].upstream, c)
           /\ \A d \in DOMAIN js : \A n : Leads(js, UpIn(js, d, n), c) => Leads(js, d, c)
<1>1. Rooted(js) /\ 0 \notin DOMAIN js /\ \A k \in DOMAIN js : js[k].upstream \in DOMAIN js \cup {0}
  BY JobsRooted DEF Rooted
<1>2. ~ Leads(js, 0, c)
  <2> DEFINE Z == {0}
  <2>1. Z \in SUBSET (DOMAIN js \cup {0}) /\ 0 \in Z /\ c \notin Z
        /\ \A k \in Z \ {0} : js[k].upstream \in Z
    BY <1>1
  <2> HIDE DEF Z
  <2> QED
    BY <2>1 DEF Leads
<1>3. ASSUME NEW d \in DOMAIN js, Leads(js, d, c), d # c
      PROVE  Leads(js, js[d].upstream, c)
  <2> SUFFICES ASSUME NEW S \in SUBSET (DOMAIN js \cup {0}), js[d].upstream \in S,
                      \A k \in S \ {0} : js[k].upstream \in S
               PROVE  c \in S
    BY DEF Leads
  <2> DEFINE T == S \cup {d}
  <2>1. T \in SUBSET (DOMAIN js \cup {0}) /\ d \in T /\ \A k \in T \ {0} : js[k].upstream \in T
    OBVIOUS
  <2>2. c \in T
    <3> HIDE DEF T
    <3> QED
      BY <1>3, <2>1 DEF Leads
  <2> QED
    BY <1>3, <2>2
<1>4. ASSUME NEW n
      PROVE  \A d \in DOMAIN js : Leads(js, UpIn(js, d, n), c) => Leads(js, d, c)
  <2> DEFINE Bad == {d \in DOMAIN js : Leads(js, UpIn(js, d, n), c) /\ ~ Leads(js, d, c)}
  <2>3. /\ UpIn(js, 0, n) = 0
        /\ \A d \in DOMAIN js :
              /\ js[d].node = n => UpIn(js, d, n) = d
              /\ js[d].node # n => UpIn(js, d, n) = UpIn(js, js[d].upstream, n)
    BY UpStep
  <2>1. \A d \in Bad : js[d].upstream \in Bad
    <3> TAKE d \in Bad
    <3>1. js[d].node # n
      BY <2>3
    <3>2. UpIn(js, d, n) = UpIn(js, js[d].upstream, n)
      BY <2>3, <3>1
    <3>3. ~ Leads(js, js[d].upstream, c)
      BY <1>1 DEF Leads
    <3>4. js[d].upstream # 0
      BY <1>2, <2>3, <3>2
    <3> QED
      BY <1>1, <3>2, <3>3, <3>4
  <2>2. Bad = {}
    <3>1. Bad \in SUBSET DOMAIN js
      OBVIOUS
    <3> HIDE DEF Bad
    <3> QED
      BY <1>1, <2>1, <3>1, UpInduction
  <2> QED
    BY <2>2
<1> QED
  BY <1>2, <1>3, <1>4

\* Jobs that are added, or change their status, leave the ways up as they are.
SameUps(js, ks) ==
    /\ Chained(js) /\ Chained(ks)
    /\ DOMAIN js \subseteq DOMAIN ks
    /\ \A j \in DOMAIN js : ks[j].node = js[j].node /\ ks[j].upstream = js[j].upstream

\* The ways up stay when jobs are added or updated.
LEMMA UpsStay ==
    ASSUME NEW js, NEW ks, SameUps(js, ks), NEW j \in DOMAIN js \cup {0}
    PROVE  /\ \A n : UpIn(ks, j, n) = UpIn(js, j, n)
           /\ \A c : Leads(ks, j, c) => Leads(js, j, c)
<1>1. /\ Rooted(js) /\ 0 \notin DOMAIN js
      /\ \A k \in DOMAIN js : js[k].upstream \in DOMAIN js \cup {0}
  BY JobsRooted DEF Rooted, SameUps
<1>2. ASSUME NEW n
      PROVE  UpIn(ks, j, n) = UpIn(js, j, n)
  <2> DEFINE Bad == {k \in DOMAIN js : UpIn(ks, k, n) # UpIn(js, k, n)}
  <2>4. Chained(js) /\ Chained(ks)
    BY DEF SameUps
  <2>5. /\ UpIn(js, 0, n) = 0
        /\ \A d \in DOMAIN js :
              /\ js[d].node = n => UpIn(js, d, n) = d
              /\ js[d].node # n => UpIn(js, d, n) = UpIn(js, js[d].upstream, n)
    BY <2>4, UpStep
  <2>6. /\ UpIn(ks, 0, n) = 0
        /\ \A d \in DOMAIN js :
              /\ js[d].node = n => UpIn(ks, d, n) = d
              /\ js[d].node # n => UpIn(ks, d, n) = UpIn(ks, js[d].upstream, n)
    <3>1. /\ UpIn(ks, 0, n) = 0
          /\ \A d \in DOMAIN ks :
                /\ ks[d].node = n => UpIn(ks, d, n) = d
                /\ ks[d].node # n => UpIn(ks, d, n) = UpIn(ks, ks[d].upstream, n)
      BY <2>4, UpStep
    <3> QED
      BY <3>1 DEF SameUps
  <2>1. \A k \in Bad : js[k].upstream \in Bad
    <3> TAKE k \in Bad
    <3>1. js[k].node # n
      BY <2>5, <2>6
    <3>2. /\ UpIn(js, k, n) = UpIn(js, js[k].upstream, n)
          /\ UpIn(ks, k, n) = UpIn(ks, js[k].upstream, n)
      BY <2>5, <2>6, <3>1
    <3>3. js[k].upstream # 0
      BY <2>5, <2>6, <3>2
    <3> QED
      BY <1>1, <3>2, <3>3
  <2>2. Bad = {}
    <3>1. Bad \in SUBSET DOMAIN js
      OBVIOUS
    <3> HIDE DEF Bad
    <3> QED
      BY <1>1, <2>1, <3>1, UpInduction
  <2> QED
    BY <2>2, <2>5, <2>6
<1>3. ASSUME NEW c, Leads(ks, j, c)
      PROVE  Leads(js, j, c)
  <2> SUFFICES ASSUME NEW S \in SUBSET (DOMAIN js \cup {0}), j \in S,
                      \A k \in S \ {0} : js[k].upstream \in S
               PROVE  c \in S
    BY DEF Leads
  <2>1. S \in SUBSET (DOMAIN ks \cup {0}) /\ \A k \in S \ {0} : ks[k].upstream \in S
    BY DEF SameUps
  <2> QED
    BY <1>3, <2>1 DEF Leads
<1> QED
  BY <1>2, <1>3

-----------------------------------------------------------------------------
(* Where the processor is: of a flow f, the jobs js, the execution e, the   *)
(* control c and the stack st                                              *)

BranchesIn(f, n) ==
    LET starts == {m \in DOMAIN f : f[m].upstream = n /\ f[m].branch # None}
        rank(m) == Cardinality({k \in starts : f[k].branch < f[m].branch})
    IN [i \in 1..Cardinality(starts) |-> CHOOSE m \in starts : rank(m) = i - 1]

\* Each branch of a parallel node is a place of its own.
BranchesOK(f) ==
    \A n \in DOMAIN f : f[n].type = "parallel" =>
        /\ DOMAIN BranchesIn(f, n) = 1..Len(BranchesIn(f, n))
        /\ Len(BranchesIn(f, n)) \in 0..Len(f)
        /\ \A i \in DOMAIN BranchesIn(f, n) :
              LET s == BranchesIn(f, n)[i] IN
              /\ s \in DOMAIN f /\ PlaceIn(f, s) = s
              /\ ParIn(f, s) = n /\ HomeIn(f, s) = n
        /\ \A i, k \in DOMAIN BranchesIn(f, n) : BranchesIn(f, n)[i] = BranchesIn(f, n)[k] => i = k
        /\ \A m \in DOMAIN f : ParIn(f, m) = n =>
              \E i \in DOMAIN BranchesIn(f, n) : BranchesIn(f, n)[i] = PlaceIn(f, m)

Typed(f, js, c, st) ==
    /\ WellFormed(f)
    /\ BranchesOK(f)
    /\ Chained(js)
    /\ js \in Seq(Rows(Len(f)))
    /\ c \in Calls(Len(f), Len(js))
    /\ st \in Seq(Frames(Len(f), Len(js)))

\* Nothing waits before the start and after the end; what a branch resumes has
\* the end() of this branch waiting, what is resumed on its own has nothing.
Disciplined(f, js, e, c, st) ==
    /\ c.op = "idle" => c = Idle
    /\ c.op = "start" => c.job = 0
    /\ c.op \in {"idle", "start"} => st = <<>>
    /\ c.op = "recall" =>
          IF f[c.node].type \in Asynchronous
          THEN /\ st = <<>>
               /\ js[c.job].node = c.node
               /\ js[c.job].status = "PENDING"
               /\ e = "STARTED"
          ELSE /\ st # <<>>
               /\ st[1].fn = "end"
               /\ st[1].job = c.job
               /\ f[c.node].type \in {"condition", "parallel"}

\* The job a node is run with comes from the same place, or is the job of the
\* parallel node whose branch starts; the job a scope ends with comes from the
\* place of this scope.
AtPlace(f, js, c) ==
    LET place == PlaceIn(f, c.node)
        from == PlaceIn(f, js[c.job].node)
    IN /\ c.op = "run" =>
             \/ c.job = 0 /\ place = 0
             \/ c.job # 0 /\ from = place
             \/ c.job # 0 /\ ParIn(f, c.node) # 0 /\ js[c.job].node = ParIn(f, c.node)
       /\ c.op = "end" => from = place
       /\ c.op = "recall" =>
             IF f[c.node].type = "parallel" THEN c.node = ParIn(f, js[c.job].node)
             ELSE place = from

\* What an exec() waits for is at the place of its node.
AboveIn(f, js, a, b) ==
    IF a.fn = "end" THEN PlaceIn(f, js[a.job].node) = PlaceIn(f, b.node)
    ELSE PlaceIn(f, a.node) = PlaceIn(f, b.node)

WaitingIn(f, js, st) ==
    /\ \A x \in DOMAIN st : st[x].fn = "parallel" =>
          /\ js[st[x].job].node = st[x].node
          /\ f[st[x].node].type = "parallel"
          /\ st[x].branch \in DOMAIN BranchesIn(f, st[x].node)
    /\ \A x \in DOMAIN st : x # 1 /\ st[x].fn = "exec" => AboveIn(f, js, st[x - 1], st[x])

AtTop(f, js, c, st) ==
    st # <<>> /\ st[1].fn = "exec" =>
        \/ c.op \in {"run", "end"} /\ PlaceIn(f, c.node) = PlaceIn(f, st[1].node)
        \/ /\ c.op = "return"
           /\ c.job # 0 => PlaceIn(f, js[c.job].node) = PlaceIn(f, st[1].node)

\* A job that leads to no job of the parallel node around it leads to none of the
\* parallel nodes around this one.
LostIn(f, js) ==
    \A d \in DOMAIN js : UpIn(js, d, ParIn(f, js[d].node)) = 0 =>
        \A A \in DOMAIN f : Within(f, ParIn(f, js[d].node), A) => UpIn(js, d, A) = 0

\* A parallel job is pending as long as what it keeps of its branches is not
\* decided; else only the jobs that wait for something are pending.
PendingIn(f, js) ==
    \A j \in DOMAIN js : js[j].status = "PENDING" =>
        \/ f[js[j].node].type \in Asynchronous
        \/ /\ f[js[j].node].type = "parallel"
           /\ DOMAIN js[j].result = DOMAIN BranchesIn(f, js[j].node)
           /\ BranchesIn(f, js[j].node) # <<>> =>
                 Verdict(f[js[j].node].mode, js[j].result) = "PENDING"

\* The job of a request leads up to no job.
RequestsIn(f, js) ==
    \A j \in DOMAIN js : f[js[j].node].type = "request" => js[j].upstream = 0

PlacedIn(f, js, e, c, st) ==
    /\ Disciplined(f, js, e, c, st)
    /\ AtPlace(f, js, c)
    /\ WaitingIn(f, js, st)
    /\ AtTop(f, js, c, st)
    /\ LostIn(f, js)
    /\ PendingIn(f, js)
    /\ RequestsIn(f, js)

-----------------------------------------------------------------------------
(* Facts about these definitions *)

\* What the types say of the parts of a state.
LEMMA TypedIs ==
    ASSUME NEW f, NEW js, NEW c, NEW st, Typed(f, js, c, st)
    PROVE  /\ DOMAIN f = 1..Len(f) /\ Len(f) \in Nat /\ 0 \notin DOMAIN f
           /\ DOMAIN js = 1..Len(js) /\ Len(js) \in Nat /\ 0 \notin DOMAIN js
           /\ \A j \in DOMAIN js :
                 /\ js[j] \in Rows(Len(f))
                 /\ js[j].node \in DOMAIN f /\ js[j].status \in Status
                 /\ js[j].upstream \in 0..(j - 1)
           /\ c.op \in Ops /\ c.node \in DOMAIN f \cup {0} /\ c.job \in DOMAIN js \cup {0}
           /\ c.op \in {"run", "recall", "end"} => c.node \in DOMAIN f
           /\ c.op \in {"recall", "end"} => c.job \in DOMAIN js
           /\ DOMAIN st = 1..Len(st) /\ Len(st) \in Nat
           /\ \A x \in DOMAIN st :
                 /\ st[x] \in Frames(Len(f), Len(js))
                 /\ st[x].fn \in {"exec", "end", "parallel"}
                 /\ st[x].job \in DOMAIN js \cup {0}
                 /\ st[x].fn # "end" => st[x].node \in DOMAIN f
                 /\ st[x].fn # "exec" => st[x].job \in DOMAIN js
<1>1. DOMAIN f = 1..Len(f) /\ Len(f) \in Nat /\ 0 \notin DOMAIN f
  BY FlowRooted DEF Typed, Rooted
<1>2. DOMAIN js = 1..Len(js) /\ Len(js) \in Nat /\ \A j \in DOMAIN js : js[j].upstream \in 0..(j - 1)
  BY DEF Typed, Chained
<1>3. \A j \in DOMAIN js : js[j] \in Rows(Len(f))
  BY DEF Typed
<1>4. DOMAIN st = 1..Len(st) /\ Len(st) \in Nat /\ \A x \in DOMAIN st : st[x] \in Frames(Len(f), Len(js))
  BY DEF Typed
<1>5. \A j \in DOMAIN js : js[j].node \in DOMAIN f /\ js[j].status \in Status
  BY <1>1, <1>3 DEF Rows
<1>6. /\ c.op \in Ops /\ c.node \in DOMAIN f \cup {0} /\ c.job \in DOMAIN js \cup {0}
      /\ c.op \in {"run", "recall", "end"} => c.node \in DOMAIN f
      /\ c.op \in {"recall", "end"} => c.job \in DOMAIN js
  BY <1>1, <1>2 DEF Typed, Calls
<1>7. \A x \in DOMAIN st :
         /\ st[x].fn \in {"exec", "end", "parallel"}
         /\ st[x].job \in DOMAIN js \cup {0}
         /\ st[x].fn # "end" => st[x].node \in DOMAIN f
         /\ st[x].fn # "exec" => st[x].job \in DOMAIN js
  BY <1>1, <1>2, <1>4 DEF Frames
<1> QED
  BY <1>1, <1>2, <1>3, <1>4, <1>5, <1>6, <1>7

\* getBranches does not look at the jobs.
LEMMA BranchesSame == \A n : Branches(n) = BranchesIn(flow, n)
  BY DEF Branches, BranchesIn, Node

\* A state that satisfies the invariant is typed, and its branches are in order.
LEMMA StateTyped == IInv => Typed(flow, jobs, control, stack)
<1> SUFFICES ASSUME IInv
             PROVE  Typed(flow, jobs, control, stack)
  OBVIOUS
<1>1. BranchesOK(flow)
  <2> SUFFICES ASSUME NEW n \in DOMAIN flow, flow[n].type = "parallel"
               PROVE  /\ DOMAIN Branches(n) = 1..Len(Branches(n))
                      /\ Len(Branches(n)) \in 0..Len(flow)
                      /\ \A i \in DOMAIN Branches(n) :
                            LET s == Branches(n)[i] IN
                            /\ s \in DOMAIN flow /\ PlaceIn(flow, s) = s
                            /\ ParIn(flow, s) = n /\ HomeIn(flow, s) = n
                      /\ \A i, k \in DOMAIN Branches(n) : Branches(n)[i] = Branches(n)[k] => i = k
                      /\ \A m \in DOMAIN flow : ParIn(flow, m) = n =>
                            \E i \in DOMAIN Branches(n) : Branches(n)[i] = PlaceIn(flow, m)
    BY BranchesSame DEF BranchesOK
  <2> QED
    BY BranchPlaces DEF IInv, Node
<1> QED
  BY <1>1, JobsChained DEF IInv, Typed, Last, JobsOK

\* A call on top of those that wait, element by element.
LEMMA PushIs ==
    ASSUME NEW S, NEW st \in Seq(S), NEW f
    PROVE  /\ DOMAIN st = 1..Len(st) /\ Len(st) \in Nat
           /\ DOMAIN (<<f>> \o st) = 1..(Len(st) + 1)
           /\ <<f>> \o st # <<>>
           /\ (<<f>> \o st)[1] = f
           /\ \A i \in 1..Len(st) : (<<f>> \o st)[i + 1] = st[i]
<1>1. st \in Seq(S \cup {f}) /\ <<f>> \in Seq(S \cup {f})
  OBVIOUS
<1> QED
  BY <1>1

\* The calls that wait without the first, element by element.
LEMMA PopIs ==
    ASSUME NEW S, NEW st \in Seq(S), st # <<>>
    PROVE  /\ DOMAIN st = 1..Len(st) /\ Len(st) \in Nat \ {0}
           /\ Head(st) = st[1]
           /\ DOMAIN Tail(st) = 1..(Len(st) - 1)
           /\ \A i \in 1..(Len(st) - 1) : Tail(st)[i] = st[i + 1]
  OBVIOUS

\* A call may wait on top of the others when it is at the place of the exec() below.
LEMMA WaitingPush ==
    ASSUME NEW f, NEW js, NEW S, NEW st \in Seq(S), WaitingIn(f, js, st), NEW a,
           a.fn = "parallel" =>
              /\ js[a.job].node = a.node
              /\ f[a.node].type = "parallel"
              /\ a.branch \in DOMAIN BranchesIn(f, a.node),
           st # <<>> /\ st[1].fn = "exec" => AboveIn(f, js, a, st[1])
    PROVE  WaitingIn(f, js, <<a>> \o st)
<1> DEFINE q == <<a>> \o st
<1>1. /\ DOMAIN st = 1..Len(st) /\ Len(st) \in Nat
      /\ DOMAIN q = 1..(Len(st) + 1) /\ q[1] = a
      /\ \A i \in 1..Len(st) : q[i + 1] = st[i]
  BY PushIs
<1>2. \A x \in DOMAIN q : x = 1 \/ (x - 1 \in DOMAIN st /\ q[x] = st[x - 1])
  <2> TAKE x \in DOMAIN q
  <2> HIDE DEF q
  <2>1. x # 1 => x - 1 \in 1..Len(st) /\ (x - 1) + 1 = x
    BY <1>1
  <2> QED
    BY <1>1, <2>1
<1>3. Len(st) # 0 <=> st # <<>>
  OBVIOUS
<1> HIDE DEF q
<1>4. \A x \in DOMAIN q : q[x].fn = "parallel" =>
          /\ js[q[x].job].node = q[x].node
          /\ f[q[x].node].type = "parallel"
          /\ q[x].branch \in DOMAIN BranchesIn(f, q[x].node)
  BY <1>1, <1>2 DEF WaitingIn
<1>5. ASSUME NEW x \in DOMAIN q, x # 1, q[x].fn = "exec"
      PROVE  AboveIn(f, js, q[x - 1], q[x])
  <2>1. x - 1 \in 1..Len(st) /\ q[x] = st[x - 1]
    BY <1>1, <1>2, <1>5
  <2>2. CASE x = 2
    BY <1>1, <1>3, <1>5, <2>1, <2>2
  <2>3. CASE x # 2
    <3>1. x - 1 # 1 /\ (x - 1) - 1 \in 1..Len(st) /\ ((x - 1) - 1) + 1 = x - 1
      BY <1>1, <1>5, <2>1, <2>3
    <3>2. q[x - 1] = st[(x - 1) - 1]
      BY <1>1, <3>1
    <3> QED
      BY <1>1, <1>5, <2>1, <3>1, <3>2 DEF WaitingIn
  <2> QED
    BY <2>2, <2>3
<1> QED
  BY <1>4, <1>5 DEF WaitingIn, q

\* The others may wait when the first goes on.
LEMMA WaitingPop ==
    ASSUME NEW f, NEW js, NEW S, NEW st \in Seq(S), WaitingIn(f, js, st), st # <<>>
    PROVE  /\ WaitingIn(f, js, Tail(st))
           /\ Tail(st) # <<>> /\ Tail(st)[1].fn = "exec" =>
                 AboveIn(f, js, st[1], Tail(st)[1])
<1> DEFINE q == Tail(st)
<1>1. /\ DOMAIN st = 1..Len(st) /\ Len(st) \in Nat \ {0}
      /\ DOMAIN q = 1..(Len(st) - 1)
      /\ \A i \in 1..(Len(st) - 1) : q[i] = st[i + 1]
  BY PopIs
<1>2. \A x \in DOMAIN q : x + 1 \in DOMAIN st /\ q[x] = st[x + 1]
  BY <1>1
<1>3. q # <<>> => 1 \in DOMAIN q
  <2>1. q \in Seq(S) /\ Len(q) = Len(st) - 1
    OBVIOUS
  <2> QED
    BY <1>1, <2>1
<1> HIDE DEF q
<1>4. \A x \in DOMAIN q : q[x].fn = "parallel" =>
          /\ js[q[x].job].node = q[x].node
          /\ f[q[x].node].type = "parallel"
          /\ q[x].branch \in DOMAIN BranchesIn(f, q[x].node)
  BY <1>2 DEF WaitingIn
<1>5. ASSUME NEW x \in DOMAIN q, q[x].fn = "exec"
      PROVE  AboveIn(f, js, st[x], q[x])
  <2>1. x + 1 \in DOMAIN st /\ q[x] = st[x + 1] /\ x + 1 # 1 /\ (x + 1) - 1 = x
    BY <1>1, <1>2
  <2> QED
    BY <1>5, <2>1 DEF WaitingIn
<1>6. ASSUME NEW x \in DOMAIN q, x # 1, q[x].fn = "exec"
      PROVE  AboveIn(f, js, q[x - 1], q[x])
  <2>1. x - 1 \in DOMAIN q /\ (x - 1) + 1 = x
    BY <1>1, <1>6
  <2> QED
    BY <1>2, <1>5, <1>6, <2>1
<1> QED
  BY <1>3, <1>4, <1>5, <1>6 DEF WaitingIn, q

\* What waits stays in place when jobs are added or updated.
LEMMA WaitingStays ==
    ASSUME NEW f, NEW js, NEW ks, SameUps(js, ks), NEW st, WaitingIn(f, js, st),
           \A x \in DOMAIN st : st[x].fn \in {"end", "parallel"} => st[x].job \in DOMAIN js,
           \A x \in DOMAIN st : x # 1 => x - 1 \in DOMAIN st
    PROVE  WaitingIn(f, ks, st)
  BY DEF WaitingIn, AboveIn, SameUps

-----------------------------------------------------------------------------
(* What a step does: to the jobs js (then ks), the execution e (then g), the *)
(* control c (then d) and the stack st (then q)                              *)

\* Job k goes on at node n, or at a node at the same place: at a node after n, or
\* below n when the instruction of n waits.
MovesTo(f, n, k, st, d, q) ==
    /\ d.op \in {"run", "end"}
    /\ d.job = k
    /\ d.node \in DOMAIN f
    /\ PlaceIn(f, d.node) = PlaceIn(f, n)
    /\ \/ q = st /\ HomeIn(f, d.node) = HomeIn(f, n)
       \/ \E m : q = <<Frame("exec", n, m, 0)>> \o st

\* Branch b of the parallel node n starts, for its job p.
Enters(f, n, p, b, st, d, q) ==
    /\ f[n].type = "parallel"
    /\ b \in DOMAIN BranchesIn(f, n)
    /\ d = Call("run", BranchesIn(f, n)[b], p)
    /\ q = <<Frame("parallel", n, p, b)>> \o st

\* A job of node n is added.
Grown(js, ks, n, s, u) ==
    /\ SameUps(js, ks)
    /\ Len(ks) = Len(js) + 1
    /\ DOMAIN ks = 1..(Len(js) + 1)
    /\ \A j \in DOMAIN js : ks[j] = js[j]
    /\ ks[Len(js) + 1].node = n
    /\ ks[Len(js) + 1].status = s
    /\ ks[Len(js) + 1].upstream = u

\* Job p is updated.
Changed(js, ks, p) ==
    /\ SameUps(js, ks)
    /\ DOMAIN ks = DOMAIN js
    /\ \A j \in DOMAIN js : j # p => ks[j] = js[j]

Executes(f, js, c, st, ks, d, q) ==
    LET n == c.node
        new == Len(js) + 1
    IN /\ c.op = "run"
       /\ \E s \in Status :
             /\ Grown(js, ks, n, s, IF f[n].type = "request" THEN 0 ELSE c.job)
             /\ MovesTo(f, n, new, st, d, q)
             /\ s = "PENDING" <=> f[n].type \in Asynchronous \cup {"parallel"}
             /\ d.op = "run" => s = "RESOLVED"
       /\ f[n].type = "parallel" =>
             BranchesIn(f, n) = <<>> /\ DOMAIN ks[new].result = DOMAIN BranchesIn(f, n)

Forks(f, js, c, st, ks, d, q) ==
    LET n == c.node
        new == Len(js) + 1
    IN /\ c.op = "run"
       /\ f[n].type = "parallel"
       /\ Grown(js, ks, n, "PENDING", c.job)
       /\ DOMAIN ks[new].result = DOMAIN BranchesIn(f, n)
       /\ \A i \in DOMAIN ks[new].result : ks[new].result[i] = "NONE"
       /\ \E m : Enters(f, n, new, 1, <<Frame("exec", n, m, 0)>> \o st, d, q)

Recalls(f, js, c, st, ks, d, q) ==
    /\ c.op = "recall"
    /\ f[c.node].type \in Asynchronous
    /\ Changed(js, ks, c.job)
    /\ ks[c.job].status \in Status
    /\ ks[c.job].status = "PENDING" => f[c.node].type = "manual"
    /\ MovesTo(f, c.node, c.job, st, d, q)
    /\ d.op = "run" => ks[c.job].status = "RESOLVED"

PassesOn(f, js, c, st, ks, d, q) ==
    /\ c.op = "recall"
    /\ f[c.node].type = "condition"
    /\ ks = js
    /\ MovesTo(f, c.node, c.job, st, d, q)
    /\ d.op = "run" => js[c.job].status = "RESOLVED"

Throws(f, js, c, st, ks, d, q) ==
    /\ c.op = "recall"
    /\ f[c.node].type = "parallel"
    /\ UpIn(js, c.job, c.node) = 0
    /\ Grown(js, ks, c.node, "FAILED", c.job)
    /\ MovesTo(f, c.node, Len(js) + 1, st, d, q)
    /\ d.op = "end"

Ignores(f, js, c, st, ks, d, q) ==
    /\ c.op = "recall"
    /\ f[c.node].type = "parallel"
    /\ UpIn(js, c.job, c.node) # 0
    /\ js[UpIn(js, c.job, c.node)].status # "PENDING"
    /\ ks = js
    /\ d = Return(0)
    /\ q = st

Counts(f, js, c, st, ks, d, q) ==
    LET n == c.node
        p == UpIn(js, c.job, n)
    IN /\ c.op = "recall"
       /\ f[n].type = "parallel"
       /\ p # 0
       /\ js[p].status = "PENDING"
       /\ Changed(js, ks, p)
       /\ \E i \in DOMAIN BranchesIn(f, n) :
             /\ BranchesIn(f, n)[i] = PlaceIn(f, js[c.job].node)
             /\ ks[p].result = [js[p].result EXCEPT ![i] = js[c.job].status]
       /\ ks[p].status = Verdict(f[n].mode, ks[p].result)
       /\ MovesTo(f, n, p, st, d, q)
       /\ d.op = "run" => ks[p].status = "RESOLVED"

ClimbsUp(f, js, c, st, ks, d, q) ==
    /\ c.op = "end"
    /\ HomeIn(f, c.node) # 0
    /\ ks = js
    /\ d = Call("recall", HomeIn(f, c.node), c.job)
    /\ q = <<Frame("end", 0, c.job, 0)>> \o st

Exits(f, js, c, st, ks, g, d, q) ==
    /\ c.op = "end"
    /\ HomeIn(f, c.node) = 0
    /\ ks = js
    /\ g = StatusMap(js[c.job].status)
    /\ d = Return(0)
    /\ q = st

Skips(f, js, c, st, ks, d, q) ==
    /\ c.op = "return"
    /\ c.job = 0
    /\ st # <<>>
    /\ st[1].fn = "exec"
    /\ ks = js
    /\ d = Return(0)
    /\ q = Tail(st)

Follows(f, js, c, st, ks, d, q) ==
    /\ c.op = "return"
    /\ c.job # 0
    /\ st # <<>>
    /\ st[1].fn = "exec"
    /\ ks = js
    /\ MovesTo(f, st[1].node, c.job, Tail(st), d, q)
    /\ d.op = "run" => js[c.job].status = "RESOLVED"

Yields(f, js, c, st, ks, d, q) ==
    /\ c.op = "return"
    /\ st # <<>>
    /\ st[1].fn = "end"
    /\ ks = js
    /\ d = Return(st[1].job)
    /\ q = Tail(st)

StartsNext(f, js, c, st, ks, d, q) ==
    /\ c.op = "return"
    /\ st # <<>>
    /\ st[1].fn = "parallel"
    /\ ks = js
    /\ Enters(f, st[1].node, st[1].job, st[1].branch + 1, Tail(st), d, q)

Joins(f, js, c, st, ks, d, q) ==
    /\ c.op = "return"
    /\ st # <<>>
    /\ st[1].fn = "parallel"
    /\ \/ ~ st[1].branch < Len(BranchesIn(f, st[1].node))
       \/ ~ GoesOn(f[st[1].node].mode, js[c.job].status)
    /\ ks = js
    /\ MovesTo(f, st[1].node, st[1].job, Tail(st), d, q)
    /\ d.op = "end"

Stops(f, js, c, st, ks, d, q) ==
    /\ c.op = "return"
    /\ st = <<>>
    /\ ks = js
    /\ d = Idle
    /\ q = st

Begins(f, js, e, c, st, ks, g, d, q) ==
    /\ c.op = "start"
    /\ ks = js
    /\ q = st
    /\ \/ g = "RESOLVED" /\ d = Return(0)
       \/ /\ g = e
          /\ \E head \in DOMAIN f : PlaceIn(f, head) = 0 /\ d = Call("run", head, 0)

Awakes(f, js, e, c, st, ks, d, q) ==
    /\ c = Idle
    /\ e = "STARTED"
    /\ ks = js
    /\ q = st
    /\ \E j \in DOMAIN js :
          /\ js[j].status = "PENDING"
          /\ f[js[j].node].type \in Asynchronous
          /\ d = Call("recall", js[j].node, j)

\* One of them.
Steps(f, js, e, c, st, ks, g, d, q) ==
    \/ Begins(f, js, e, c, st, ks, g, d, q)
    \/ Exits(f, js, c, st, ks, g, d, q)
    \/ /\ g = e
       /\ \/ Executes(f, js, c, st, ks, d, q) \/ Forks(f, js, c, st, ks, d, q)
          \/ Recalls(f, js, c, st, ks, d, q) \/ PassesOn(f, js, c, st, ks, d, q)
          \/ Throws(f, js, c, st, ks, d, q) \/ Ignores(f, js, c, st, ks, d, q)
          \/ Counts(f, js, c, st, ks, d, q) \/ ClimbsUp(f, js, c, st, ks, d, q)
          \/ Skips(f, js, c, st, ks, d, q) \/ Follows(f, js, c, st, ks, d, q)
          \/ Yields(f, js, c, st, ks, d, q) \/ StartsNext(f, js, c, st, ks, d, q)
          \/ Joins(f, js, c, st, ks, d, q) \/ Stops(f, js, c, st, ks, d, q)
          \/ Awakes(f, js, e, c, st, ks, d, q)

-----------------------------------------------------------------------------
(* The actions do it *)

\* exec() goes on at the same place.
LEMMA AfterMoves ==
    ASSUME WellFormed(flow), NEW n \in Node, NEW k, NEW s, NEW st
    PROVE  /\ MovesTo(flow, n, k, st, After(n, k, s), st)
           /\ After(n, k, s).op = "run" => s = "RESOLVED"
<1>1. CASE s = "RESOLVED" /\ flow[n].downstream # 0
  <2>1. After(n, k, s) = Call("run", flow[n].downstream, k)
    BY <1>1 DEF After
  <2> QED
    BY <1>1, <2>1, DownstreamPlace DEF MovesTo, Call, Node
<1>2. CASE ~ (s = "RESOLVED" /\ flow[n].downstream # 0)
  <2>1. After(n, k, s) = Call("end", n, k)
    BY <1>2 DEF After
  <2> QED
    BY <2>1 DEF MovesTo, Call, Node
<1> QED
  BY <1>1, <1>2

\* saveJob() without an id adds a job.
LEMMA AppendGrows ==
    ASSUME IInv, NEW n, NEW s, NEW u \in 0..Last, NEW r,
           jobs' = Append(jobs, NewJob(n, s, u, r))
    PROVE  Grown(jobs, jobs', n, s, u) /\ jobs'[Len(jobs) + 1].result = r
<1> DEFINE row == NewJob(n, s, u, r)
<1>1. Chained(jobs) /\ jobs \in Seq(Rows(Len(flow)))
  BY JobsChained DEF IInv, JobsOK
<1>2. row.node = n /\ row.status = s /\ row.upstream = u /\ row.result = r
  BY DEF NewJob
<1> HIDE DEF row
<1>3. jobs \in Seq(Rows(Len(flow)) \cup {row}) /\ row \in Rows(Len(flow)) \cup {row}
  BY <1>1
<1>4. jobs' = Append(jobs, row)
  BY DEF row
<1>5. /\ Len(jobs') = Len(jobs) + 1 /\ DOMAIN jobs' = 1..(Len(jobs) + 1)
      /\ \A j \in DOMAIN jobs : jobs'[j] = jobs[j]
      /\ jobs'[Len(jobs) + 1] = row
      /\ DOMAIN jobs = 1..Len(jobs) /\ Len(jobs) \in Nat
  BY <1>3, <1>4
<1>6. \A j \in DOMAIN jobs' : j \in DOMAIN jobs \/ j = Len(jobs) + 1
  BY <1>5
<1>7. Chained(jobs')
  <2>1. \A j \in DOMAIN jobs' : jobs'[j].upstream \in 0..(j - 1)
    BY <1>1, <1>2, <1>5, <1>6 DEF Chained, Last
  <2> QED
    BY <1>5, <2>1 DEF Chained
<1>8. SameUps(jobs, jobs')
  BY <1>1, <1>5, <1>7 DEF SameUps
<1> QED
  BY <1>2, <1>5, <1>8 DEF Grown

\* saveJob() with an id updates a job.
LEMMA ExceptChanges ==
    ASSUME IInv, NEW p \in Job, NEW r, r.node = jobs[p].node, r.upstream = jobs[p].upstream,
           jobs' = [jobs EXCEPT ![p] = r]
    PROVE  Changed(jobs, jobs', p) /\ jobs'[p] = r
<1>1. Chained(jobs) /\ jobs \in Seq(Rows(Len(flow)))
  BY JobsChained DEF IInv, JobsOK
<1>2. /\ DOMAIN jobs' = DOMAIN jobs /\ jobs'[p] = r
      /\ \A j \in DOMAIN jobs : j # p => jobs'[j] = jobs[j]
  BY <1>1 DEF Job
<1>3. jobs' \in Seq(Rows(Len(flow)) \cup {r})
  <2>1. jobs \in Seq(Rows(Len(flow)) \cup {r})
    BY <1>1
  <2> QED
    BY <2>1, Replaced
<1>4. Len(jobs') = Len(jobs) /\ DOMAIN jobs' = 1..Len(jobs')
  <2>1. DOMAIN jobs' = 1..Len(jobs') /\ Len(jobs') \in Nat
    BY <1>3
  <2>2. DOMAIN jobs = 1..Len(jobs) /\ Len(jobs) \in Nat
    BY <1>1 DEF Chained
  <2> QED
    BY <1>2, <2>1, <2>2
<1>5. \A j \in DOMAIN jobs : jobs'[j].node = jobs[j].node /\ jobs'[j].upstream = jobs[j].upstream
  BY <1>2
<1>6. Chained(jobs')
  BY <1>1, <1>2, <1>4, <1>5 DEF Chained
<1> QED
  BY <1>1, <1>2, <1>5, <1>6 DEF Changed, SameUps

\* Each action is one of the steps.
LEMMA RunSimpleIs ==
    ASSUME IInv, RunSimple
    PROVE  Executes(flow, jobs, control, stack, jobs', control', stack')
<1> DEFINE n == control.node
<1>1. PICK s \in {"RESOLVED", "FAILED"} : Finish(n, control.job, s, <<>>)
  BY DEF RunSimple
<1>2. /\ control.op = "run" /\ flow[n].type = "simple" /\ stack' = stack
      /\ n \in Node /\ control.job \in 0..Last
  BY CallTypes DEF RunSimple, Running
<1>3. Grown(jobs, jobs', n, s, control.job)
  BY <1>1, <1>2, AppendGrows DEF Finish
<1>4. MovesTo(flow, n, Len(jobs) + 1, stack, control', stack')
      /\ (control'.op = "run" => s = "RESOLVED")
  BY <1>1, <1>2, AfterMoves DEF Finish, Last, IInv
<1> QED
  BY <1>2, <1>3, <1>4 DEF Executes, Status, Asynchronous

LEMMA RunManualIs ==
    ASSUME IInv, RunManual \/ RunRequest
    PROVE  Executes(flow, jobs, control, stack, jobs', control', stack')
<1> DEFINE n == control.node
           u == IF flow[n].type = "request" THEN 0 ELSE control.job
<1>1. /\ control.op = "run" /\ flow[n].type \in {"manual", "request"} /\ stack' = stack
      /\ n \in Node /\ u \in 0..Last /\ Finish(n, u, "PENDING", <<>>)
  BY CallTypes DEF RunManual, RunRequest, Running
<1> HIDE DEF u
<1>3. Grown(jobs, jobs', n, "PENDING", u)
  BY <1>1, AppendGrows DEF Finish
<1>4. MovesTo(flow, n, Len(jobs) + 1, stack, control', stack')
      /\ (control'.op = "run" => "PENDING" = "RESOLVED")
  BY <1>1, AfterMoves DEF Finish, Last, IInv
<1> QED
  BY <1>1, <1>3, <1>4 DEF Executes, Status, Asynchronous, u

\* So does an instruction that ends the scope itself.
LEMMA EndMoves ==
    ASSUME NEW f, NEW n \in DOMAIN f, NEW k, NEW m, NEW st, NEW d, NEW q,
           d = Call("end", n, k), q = <<Frame("exec", n, m, 0)>> \o st
    PROVE  MovesTo(f, n, k, st, d, q) /\ d.op = "end"
  BY DEF MovesTo, Call

LEMMA RunDelayIs ==
    ASSUME IInv, RunDelay
    PROVE  Executes(flow, jobs, control, stack, jobs', control', stack')
<1> DEFINE n == control.node
<1>1. /\ control.op = "run" /\ flow[n].type = "delay"
      /\ n \in Node /\ control.job \in 0..Last
      /\ jobs' = Append(jobs, NewJob(n, "PENDING", control.job, <<>>))
      /\ stack' = <<Frame("exec", n, control.job, 0)>> \o stack
      /\ control' = Call("end", n, Len(jobs) + 1)
  BY CallTypes DEF RunDelay, Running, Last
<1>3. Grown(jobs, jobs', n, "PENDING", control.job)
  BY <1>1, AppendGrows
<1>4. MovesTo(flow, n, Len(jobs) + 1, stack, control', stack') /\ control'.op = "end"
  BY <1>1, EndMoves DEF Node
<1> QED
  BY <1>1, <1>3, <1>4 DEF Executes, Status, Asynchronous

\* The branch of a condition hangs below it.
LEMMA ConditionBelow ==
    ASSUME WellFormed(flow), NEW n, NEW result, ConditionBranch(n, result) # 0
    PROVE  /\ ConditionBranch(n, result) \in Node
           /\ flow[ConditionBranch(n, result)].upstream = n
<1> DEFINE hits == {m \in Node : /\ flow[m].upstream = n
                                 /\ result = IF flow[m].branch > 0 THEN "TRUE" ELSE "FALSE"}
<1>1. hits # {}
  BY DEF ConditionBranch
<1>2. \E m \in hits : \A k \in hits : m <= k
  <2>1. hits \in SUBSET Nat
    BY NodeTypes
  <2> HIDE DEF hits
  <2> QED
    BY <1>1, <2>1, LeastNat
<1>3. ConditionBranch(n, result) = CHOOSE m \in hits : \A k \in hits : m <= k
  BY <1>1 DEF ConditionBranch
<1>4. (CHOOSE m \in hits : \A k \in hits : m <= k) \in hits
  <2> HIDE DEF hits
  <2> QED
    BY <1>2
<1> QED
  BY <1>3, <1>4

LEMMA RunConditionIs ==
    ASSUME IInv, RunCondition
    PROVE  Executes(flow, jobs, control, stack, jobs', control', stack')
<1> DEFINE n == control.node
<1>1. /\ control.op = "run" /\ flow[n].type = "condition"
      /\ n \in Node /\ control.job \in 0..Last /\ WellFormed(flow)
  BY CallTypes DEF RunCondition, Running
<1>2. ASSUME NEW s \in Status, NEW r, s # "PENDING",
             Finish(n, control.job, s, r), stack' = stack
      PROVE  Executes(flow, jobs, control, stack, jobs', control', stack')
  <2>1. Grown(jobs, jobs', n, s, control.job)
    BY <1>1, <1>2, AppendGrows DEF Finish
  <2>2. MovesTo(flow, n, Len(jobs) + 1, stack, control', stack')
        /\ (control'.op = "run" => s = "RESOLVED")
    BY <1>1, <1>2, AfterMoves DEF Finish, Last
  <2> QED
    BY <1>1, <1>2, <2>1, <2>2 DEF Executes, Asynchronous
<1>3. ASSUME NEW result, LET branch == ConditionBranch(n, result) IN
             /\ branch # 0
             /\ jobs' = Append(jobs, NewJob(n, "RESOLVED", control.job, <<result>>))
             /\ stack' = <<Frame("exec", n, control.job, 0)>> \o stack
             /\ control' = Call("run", branch, Last + 1)
      PROVE  Executes(flow, jobs, control, stack, jobs', control', stack')
  <2> DEFINE b == ConditionBranch(n, result)
  <2>1. Grown(jobs, jobs', n, "RESOLVED", control.job)
    BY <1>1, <1>3, AppendGrows
  <2>2. b \in Node /\ flow[b].upstream = n
    BY <1>1, <1>3, ConditionBelow
  <2>3. PlaceIn(flow, b) = PlaceIn(flow, n)
    BY <1>1, <2>2, BelowPlace DEF Node
  <2>4. control' = Call("run", b, Len(jobs) + 1)
    BY <1>3 DEF Last
  <2> HIDE DEF b
  <2>5. MovesTo(flow, n, Len(jobs) + 1, stack, control', stack')
    BY <1>3, <2>2, <2>3, <2>4 DEF MovesTo, Call, Node
  <2> QED
    BY <1>1, <2>1, <2>5 DEF Executes, Status, Asynchronous
<1>4. CASE Finish(n, control.job, "FAILED", <<>>) /\ UNCHANGED stack
  BY <1>2, <1>4 DEF Status
<1>5. ASSUME NEW result \in {"TRUE", "FALSE", "OTHER"},
             \/ /\ ConditionBranch(n, result) = 0
                /\ Finish(n, control.job, "RESOLVED", <<result>>)
                /\ UNCHANGED stack
             \/ /\ ConditionBranch(n, result) # 0
                /\ jobs' = Append(jobs, NewJob(n, "RESOLVED", control.job, <<result>>))
                /\ stack' = <<Frame("exec", n, control.job, 0)>> \o stack
                /\ control' = Call("run", ConditionBranch(n, result), Last + 1)
      PROVE  Executes(flow, jobs, control, stack, jobs', control', stack')
  <2>1. "RESOLVED" \in Status /\ "RESOLVED" # "PENDING"
    BY DEF Status
  <2> QED
    BY <1>2, <1>3, <1>5, <2>1
<1> QED
  BY <1>4, <1>5 DEF RunCondition

\* Two calls on top of those that wait.
LEMMA PushTwo ==
    ASSUME NEW S, NEW st \in Seq(S), NEW a \in S, NEW b \in S
    PROVE  <<a, b>> \o st = <<a>> \o (<<b>> \o st)
<1> DEFINE l == <<a, b>> \o st
           r == <<a>> \o (<<b>> \o st)
<1>1. <<a, b>> \in Seq(S) /\ <<a>> \in Seq(S) /\ <<b>> \in Seq(S) /\ Len(st) \in Nat
  OBVIOUS
<1>2. <<b>> \o st \in Seq(S) /\ Len(<<b>> \o st) = Len(st) + 1
      /\ (<<b>> \o st)[1] = b /\ \A i \in 1..Len(st) : (<<b>> \o st)[i + 1] = st[i]
  BY <1>1, PushIs
<1>3. l \in Seq(S) /\ Len(l) = Len(st) + 2 /\ r \in Seq(S) /\ Len(r) = Len(st) + 2
  BY <1>1, <1>2
<1>4. \A i \in 1..(Len(st) + 2) : l[i] = IF i = 1 THEN a ELSE IF i = 2 THEN b ELSE st[i - 2]
  BY <1>1
<1>5. \A i \in 1..(Len(st) + 2) : r[i] = IF i = 1 THEN a ELSE (<<b>> \o st)[i - 1]
  <2> DEFINE m == <<b>> \o st
  <2>1. m \in Seq(S) /\ Len(m) = Len(st) + 1
    BY <1>2
  <2> HIDE DEF m
  <2>2. \A i \in 1..(Len(st) + 2) : (<<a>> \o m)[i] = IF i = 1 THEN a ELSE m[i - 1]
    BY <1>1, <2>1
  <2> QED
    BY <2>2 DEF m
<1>6. \A i \in 2..(Len(st) + 2) : (<<b>> \o st)[i - 1] = IF i = 2 THEN b ELSE st[i - 2]
  BY <1>1
<1>7. \A i \in 1..(Len(st) + 2) : l[i] = r[i]
  BY <1>1, <1>4, <1>5, <1>6
<1> HIDE DEF l, r
<1>8. l = [i \in 1..(Len(st) + 2) |-> l[i]] /\ r = [i \in 1..(Len(st) + 2) |-> r[i]]
  BY <1>3
<1>9. l = r
  BY <1>7, <1>8
<1> QED
  BY <1>9 DEF l, r

LEMMA RunParallelIs ==
    ASSUME IInv, RunParallel
    PROVE  \/ Executes(flow, jobs, control, stack, jobs', control', stack')
           \/ Forks(flow, jobs, control, stack, jobs', control', stack')
<1> DEFINE n == control.node
           branches == BranchesIn(flow, n)
           new == Len(jobs) + 1
           none == [i \in DOMAIN branches |-> "NONE"]
           below == <<Frame("exec", n, control.job, 0)>> \o stack
<1>1. /\ control.op = "run" /\ flow[n].type = "parallel"
      /\ n \in Node /\ control.job \in 0..Last /\ WellFormed(flow)
  BY CallTypes DEF RunParallel, Running
<1>2. /\ jobs' = Append(jobs, NewJob(n, "PENDING", control.job, none))
      /\ \/ /\ branches = <<>>
            /\ stack' = below
            /\ control' = Call("end", n, new)
         \/ /\ branches # <<>>
            /\ stack' = <<Frame("parallel", n, new, 1), Frame("exec", n, control.job, 0)>> \o stack
            /\ control' = Call("run", branches[1], new)
  BY BranchesSame DEF RunParallel, Last
<1>3. none = [i \in DOMAIN branches |-> none[i]] /\ DOMAIN none = DOMAIN branches
      /\ \A i \in DOMAIN none : none[i] = "NONE"
  OBVIOUS
<1> HIDE DEF none
<1>4. Grown(jobs, jobs', n, "PENDING", control.job) /\ jobs'[new].result = none
  BY <1>1, <1>2, AppendGrows
<1>5. CASE /\ branches = <<>>
           /\ stack' = below
           /\ control' = Call("end", n, new)
  <2>1. MovesTo(flow, n, new, stack, control', stack') /\ control'.op = "end"
    BY <1>1, <1>5, EndMoves DEF Node
  <2> QED
    BY <1>1, <1>3, <1>4, <1>5, <2>1 DEF Executes, Status
<1>6. CASE /\ branches # <<>>
           /\ stack' = <<Frame("parallel", n, new, 1), Frame("exec", n, control.job, 0)>> \o stack
           /\ control' = Call("run", branches[1], new)
  <2>1. 1 \in DOMAIN branches
    <3>1. Branches(n) \in Seq(Node)
      BY <1>1, BranchesAre
    <3>2. branches \in Seq(Node)
      BY <3>1, BranchesSame
    <3> HIDE DEF branches
    <3> QED
      BY <1>6, <3>2
  <2>2. stack' = <<Frame("parallel", n, new, 1)>> \o below
    <3> DEFINE a == Frame("parallel", n, new, 1)
               b == Frame("exec", n, control.job, 0)
               Z == Frames(Len(flow), Last) \cup {a, b}
    <3>1. stack \in Seq(Z) /\ a \in Z /\ b \in Z
      BY DEF IInv
    <3> HIDE DEF a, b, Z
    <3>2. <<a, b>> \o stack = <<a>> \o (<<b>> \o stack)
      BY <3>1, PushTwo
    <3> QED
      BY <1>6, <3>2 DEF a, b
  <2>3. Enters(flow, n, new, 1, below, control', stack')
    BY <1>1, <1>6, <2>1, <2>2 DEF Enters
  <2> QED
    BY <1>1, <1>3, <1>4, <2>3 DEF Forks
<1> QED
  BY <1>2, <1>5, <1>6

LEMMA RecallAsynchronousIs ==
    ASSUME IInv, RecallAsynchronous
    PROVE  Recalls(flow, jobs, control, stack, jobs', control', stack')
<1> DEFINE n == control.node
           j == control.job
<1>1. /\ control.op = "recall" /\ flow[n].type \in Asynchronous /\ stack' = stack
      /\ n \in Node /\ j \in Job /\ WellFormed(flow) /\ JobsOK
  BY CallTypes DEF RecallAsynchronous
<1>2. PICK s \in Status :
          /\ s = "PENDING" => flow[n].type = "manual" /\ jobs[j].status = "PENDING"
          /\ jobs' = [jobs EXCEPT ![j].status = s]
          /\ control' = After(n, j, s)
  BY DEF RecallAsynchronous
<1> DEFINE r == [jobs[j] EXCEPT !.status = s]
<1>3. r.node = jobs[j].node /\ r.upstream = jobs[j].upstream /\ r.status = s
  BY <1>1, JobTypes DEF Rows
<1>4. jobs' = [jobs EXCEPT ![j] = r]
  BY <1>2
<1> HIDE DEF r
<1>5. Changed(jobs, jobs', j) /\ jobs'[j] = r
  BY <1>1, <1>3, <1>4, ExceptChanges
<1>6. MovesTo(flow, n, j, stack, control', stack') /\ (control'.op = "run" => s = "RESOLVED")
  BY <1>1, <1>2, AfterMoves
<1> QED
  BY <1>1, <1>2, <1>3, <1>5, <1>6 DEF Recalls

LEMMA RecallConditionIs ==
    ASSUME IInv, RecallCondition
    PROVE  PassesOn(flow, jobs, control, stack, jobs', control', stack')
<1> DEFINE n == control.node
           j == control.job
<1>1. /\ control.op = "recall" /\ flow[n].type = "condition" /\ jobs' = jobs
      /\ n \in Node /\ WellFormed(flow)
  BY CallTypes DEF RecallCondition, Recalled
<1>2. CASE /\ jobs[j].status = "RESOLVED"
           /\ control' = After(n, j, "RESOLVED")
           /\ UNCHANGED stack
  BY <1>1, <1>2, AfterMoves DEF PassesOn
<1>3. CASE /\ stack' = <<Frame("exec", n, j, 0)>> \o stack
           /\ control' = Call("end", n, j)
  <2>1. MovesTo(flow, n, j, stack, control', stack') /\ control'.op = "end"
    BY <1>1, <1>3, EndMoves DEF Node
  <2> QED
    BY <1>1, <2>1 DEF PassesOn
<1> QED
  BY <1>2, <1>3 DEF RecallCondition

Placed == PlacedIn(flow, jobs, execution, control, stack)

LEMMA RecallParallelIs ==
    ASSUME IInv, Placed, RecallParallel
    PROVE  \/ Throws(flow, jobs, control, stack, jobs', control', stack')
           \/ Ignores(flow, jobs, control, stack, jobs', control', stack')
           \/ Counts(flow, jobs, control, stack, jobs', control', stack')
<1> DEFINE n == control.node
           p == BranchParentJob(control.job, n)
           start == BranchStart(jobs[control.job].node, n)
           branches == Branches(n)
           i == CHOOSE k \in DOMAIN branches : branches[k] = start
           result == [jobs[p].result EXCEPT ![i] = jobs[control.job].status]
           status == Verdict(flow[n].mode, result)
<1>1. /\ control.op = "recall" /\ flow[n].type = "parallel"
      /\ n \in Node /\ control.job \in Job /\ WellFormed(flow) /\ JobsOK
      /\ jobs[control.job].node \in Node
  BY CallTypes, JobTypes DEF RecallParallel, Recalled, Rows
<1>2. n = ParIn(flow, jobs[control.job].node) /\ n # 0
  BY <1>1, NodeTypes DEF Placed, PlacedIn, AtPlace
<1>3. p = UpIn(jobs, control.job, n) /\ p \in Job \cup {0}
  BY <1>1, UpIs, BranchParentJobIs
<1>4. start = PlaceIn(flow, jobs[control.job].node)
  BY <1>1, <1>2, BranchStartIs
<1>5. i \in DOMAIN branches /\ branches[i] = start
  <2>1. \E k \in DOMAIN branches : branches[k] = PlaceIn(flow, jobs[control.job].node)
    BY <1>1, <1>2, BranchPlaces
  <2> HIDE DEF branches, start
  <2> QED
    BY <1>4, <2>1
<1>6. branches = BranchesIn(flow, n)
  BY BranchesSame
<1>7. \/ /\ p = 0
         /\ Finish(n, control.job, "FAILED", <<>>)
         /\ stack' = stack
      \/ /\ p # 0
         /\ Decided(p)
         /\ control' = Return(0)
         /\ jobs' = jobs /\ stack' = stack
      \/ /\ p # 0
         /\ ~ Decided(p)
         /\ jobs' = [jobs EXCEPT ![p].result = result, ![p].status = status]
         /\ \/ /\ status = "PENDING"
               /\ stack' = <<Frame("exec", n, control.job, 0)>> \o stack
               /\ control' = Call("end", n, p)
            \/ /\ status # "PENDING"
               /\ control' = After(n, p, status)
               /\ stack' = stack
  BY DEF RecallParallel
<1> HIDE DEF p, start, i, branches
<1>8. CASE p = 0 /\ Finish(n, control.job, "FAILED", <<>>) /\ stack' = stack
  <2>1. control.job \in 0..Last
    BY <1>1, JobTypes
  <2>2. Grown(jobs, jobs', n, "FAILED", control.job)
    BY <1>8, <2>1, AppendGrows DEF Finish
  <2>3. MovesTo(flow, n, Len(jobs) + 1, stack, control', stack')
        /\ (control'.op = "run" => "FAILED" = "RESOLVED")
    BY <1>1, <1>8, AfterMoves DEF Finish, Last
  <2>4. control'.op = "end"
    BY <2>3 DEF MovesTo
  <2> QED
    BY <1>1, <1>3, <1>8, <2>2, <2>3, <2>4 DEF Throws
<1>9. CASE /\ p # 0
           /\ Decided(p)
           /\ control' = Return(0)
           /\ jobs' = jobs /\ stack' = stack
  BY <1>1, <1>3, <1>9 DEF Ignores, Decided
<1>10. CASE /\ p # 0
            /\ ~ Decided(p)
            /\ jobs' = [jobs EXCEPT ![p].result = result, ![p].status = status]
            /\ \/ /\ status = "PENDING"
                  /\ stack' = <<Frame("exec", n, control.job, 0)>> \o stack
                  /\ control' = Call("end", n, p)
               \/ /\ status # "PENDING"
                  /\ control' = After(n, p, status)
                  /\ stack' = stack
  <2>1. p \in Job /\ jobs[p].status = "PENDING"
    BY <1>3, <1>10 DEF Decided
  <2> HIDE DEF status, result
  <2> DEFINE r == [jobs[p] EXCEPT !.result = result, !.status = status]
  <2>2. /\ r.node = jobs[p].node /\ r.upstream = jobs[p].upstream
        /\ r.result = result /\ r.status = status
    BY <1>1, <2>1, JobTypes DEF Rows
  <2>3. jobs' = [jobs EXCEPT ![p] = r]
    <3>1. jobs[p] \in Rows(Len(flow)) /\ jobs \in Seq(Rows(Len(flow)))
      BY <1>1, <2>1, JobTypes DEF JobsOK
    <3> QED
      BY <1>10, <2>1, <3>1 DEF Rows
  <2> HIDE DEF r
  <2>4. Changed(jobs, jobs', p) /\ jobs'[p] = r
    BY <2>1, <2>2, <2>3, ExceptChanges
  <2>5. MovesTo(flow, n, p, stack, control', stack') /\ (control'.op = "run" => status = "RESOLVED")
    <3>1. CASE /\ stack' = <<Frame("exec", n, control.job, 0)>> \o stack
               /\ control' = Call("end", n, p)
      <4>1. MovesTo(flow, n, p, stack, control', stack') /\ control'.op = "end"
        BY <1>1, <3>1, EndMoves DEF Node
      <4> QED
        BY <4>1
    <3>2. CASE control' = After(n, p, status) /\ stack' = stack
      BY <1>1, <3>2, AfterMoves
    <3> QED
      BY <1>10, <3>1, <3>2
  <2>6. \E k \in DOMAIN branches :
           /\ branches[k] = start
           /\ result = [jobs[p].result EXCEPT ![k] = jobs[control.job].status]
    BY <1>5 DEF result
  <2>7. jobs'[p].status = Verdict(flow[n].mode, jobs'[p].result) /\ jobs'[p].result = result
        /\ jobs'[p].status = status
    BY <2>2, <2>4 DEF status
  <2> DEFINE U == UpIn(jobs, control.job, n)
  <2>8. U = p /\ U # 0
    BY <1>3, <1>10
  <2>9. \E k \in DOMAIN BranchesIn(flow, n) :
           /\ BranchesIn(flow, n)[k] = PlaceIn(flow, jobs[control.job].node)
           /\ jobs'[U].result = [jobs[U].result EXCEPT ![k] = jobs[control.job].status]
    BY <1>4, <1>6, <2>6, <2>7, <2>8
  <2>10. /\ jobs[U].status = "PENDING" /\ Changed(jobs, jobs', U)
         /\ jobs'[U].status = Verdict(flow[n].mode, jobs'[U].result)
         /\ MovesTo(flow, n, U, stack, control', stack')
         /\ (control'.op = "run" => jobs'[U].status = "RESOLVED")
    BY <2>1, <2>4, <2>5, <2>7, <2>8
  <2> HIDE DEF U
  <2>11. control.op = "recall" /\ flow[n].type = "parallel"
    BY <1>1
  <2> QED
    BY <2>8, <2>9, <2>10, <2>11 DEF Counts, U
<1> QED
  BY <1>7, <1>8, <1>9, <1>10

LEMMA EndIs ==
    ASSUME IInv, seen = execution, EndBranch \/ Exit
    PROVE  \/ ClimbsUp(flow, jobs, control, stack, jobs', control', stack') /\ EndBranch
           \/ Exits(flow, jobs, control, stack, jobs', execution', control', stack') /\ Exit
<1>1. control.op = "end" /\ control.node \in Node \cup {0} /\ WellFormed(flow)
  BY CallTypes DEF EndBranch, Exit
<1>2. BranchParent(control.node) = HomeIn(flow, control.node)
  BY <1>1, HomeIs
<1>3. CASE EndBranch
  BY <1>1, <1>2, <1>3 DEF EndBranch, ClimbsUp
<1>4. CASE Exit
  BY <1>1, <1>2, <1>4 DEF Exit, Exits, UpdateStatus
<1> QED
  BY <1>3, <1>4

LEMMA ReturnIs ==
    ASSUME IInv, ReturnToExec \/ ReturnToEnd \/ Done
    PROVE  \/ Skips(flow, jobs, control, stack, jobs', control', stack')
           \/ Follows(flow, jobs, control, stack, jobs', control', stack')
           \/ Yields(flow, jobs, control, stack, jobs', control', stack')
           \/ Stops(flow, jobs, control, stack, jobs', control', stack')
<1>1. stack \in Seq(Frames(Len(flow), Last)) /\ WellFormed(flow)
  BY CallTypes
<1>2. stack # <<>> => Head(stack) = stack[1] /\ stack[1] \in Frames(Len(flow), Last)
  BY <1>1
<1>3. CASE ReturnToExec
  <2>1. /\ control.op = "return" /\ stack # <<>> /\ stack[1].fn = "exec"
        /\ stack' = Tail(stack) /\ jobs' = jobs
        /\ control' = IF control.job = 0 THEN Return(0)
                      ELSE After(stack[1].node, control.job, jobs[control.job].status)
    BY <1>2, <1>3 DEF ReturnToExec, Returning
  <2>2. CASE control.job = 0
    BY <2>1, <2>2 DEF Skips
  <2>3. CASE control.job # 0
    <3>1. stack[1].node \in Node
      <4>1. stack[1].node \in 0..Len(flow) /\ stack[1].node # 0
        BY <1>2, <2>1 DEF Frames
      <4> QED
        BY <1>1, <4>1, NodeTypes
    <3> DEFINE n == stack[1].node
               s == jobs[control.job].status
    <3>2. control' = After(n, control.job, s)
      BY <2>1, <2>3
    <3> HIDE DEF s
    <3>3. MovesTo(flow, n, control.job, Tail(stack), control', Tail(stack))
          /\ (control'.op = "run" => s = "RESOLVED")
      BY <1>1, <3>1, <3>2, AfterMoves
    <3> QED
      BY <2>1, <2>3, <3>3 DEF Follows, s
  <2> QED
    BY <2>2, <2>3
<1>4. CASE ReturnToEnd
  BY <1>2, <1>4 DEF ReturnToEnd, Returning, Yields
<1>5. CASE Done
  BY <1>5 DEF Done, Stops
<1> QED
  BY <1>3, <1>4, <1>5

LEMMA ReturnToParallelIs ==
    ASSUME IInv, Placed, ReturnToParallel
    PROVE  \/ StartsNext(flow, jobs, control, stack, jobs', control', stack')
           \/ Joins(flow, jobs, control, stack, jobs', control', stack')
<1> DEFINE a == stack[1]
           n == stack[1].node
           branches == BranchesIn(flow, n)
<1>1. /\ stack \in Seq(Frames(Len(flow), Last)) /\ WellFormed(flow)
      /\ Len(flow) \in Nat /\ Last \in Nat /\ Node = 1..Len(flow)
  BY CallTypes
<1>2. /\ control.op = "return" /\ stack # <<>> /\ a.fn = "parallel" /\ Head(stack) = a
      /\ jobs' = jobs
  BY <1>1 DEF ReturnToParallel
<1>3. a \in Frames(Len(flow), Last) /\ 1 \in DOMAIN stack
  BY <1>1, <1>2
<1>4. n \in Node /\ flow[n].type = "parallel" /\ branches = Branches(n)
      /\ a.branch \in Nat
  BY <1>1, <1>2, <1>3, BranchesSame DEF Frames, Placed, PlacedIn, WaitingIn
<1>5. \/ /\ a.branch < Len(branches)
         /\ GoesOn(flow[n].mode, jobs[control.job].status)
         /\ stack' = [stack EXCEPT ![1].branch = @ + 1]
         /\ control' = Call("run", branches[a.branch + 1], a.job)
      \/ /\ ~ (/\ a.branch < Len(branches)
               /\ GoesOn(flow[n].mode, jobs[control.job].status))
         /\ stack' = Tail(stack)
         /\ control' = Call("end", n, a.job)
  BY <1>2, <1>4 DEF ReturnToParallel
<1>6. CASE /\ a.branch < Len(branches)
           /\ stack' = [stack EXCEPT ![1].branch = @ + 1]
           /\ control' = Call("run", branches[a.branch + 1], a.job)
  <2>1. a.branch + 1 \in DOMAIN branches
    <3>1. DOMAIN Branches(n) = 1..Len(Branches(n)) /\ Len(Branches(n)) \in 0..Len(flow)
      BY <1>1, <1>4, BranchPlaces
    <3>2. DOMAIN branches = 1..Len(branches) /\ Len(branches) \in 0..Len(flow)
      BY <1>4, <3>1
    <3> HIDE DEF branches, a
    <3> QED
      BY <1>1, <1>4, <1>6, <3>2
  <2> DEFINE z == Frame("parallel", n, a.job, a.branch + 1)
             l == [stack EXCEPT ![1] = z]
             r == <<z>> \o Tail(stack)
             Z == Frames(Len(flow), Last) \cup {z}
  <2>2. stack' = l
    <3>1. z = [a EXCEPT !.branch = a.branch + 1]
      BY <1>2, <1>3 DEF Frames, Frame
    <3>2. stack' = [stack EXCEPT ![1] = [a EXCEPT !.branch = a.branch + 1]]
      BY <1>6
    <3> QED
      BY <3>1, <3>2
  <2>3. stack \in Seq(Z) /\ z \in Z
    BY <1>1
  <2>4. l \in Seq(Z) /\ Tail(stack) \in Seq(Z)
    <3> HIDE DEF z, Z
    <3>1. [stack EXCEPT ![1] = z] \in Seq(Z)
      BY <2>3, Replaced
    <3> QED
      BY <1>2, <2>3, <3>1
  <2>5. /\ DOMAIN l = 1..Len(stack) /\ l[1] = z /\ \A x \in 2..Len(stack) : l[x] = stack[x]
    <3> HIDE DEF z, Z
    <3> QED
      BY <2>3, <1>2
  <2>6. /\ r \in Seq(Z) /\ DOMAIN r = 1..Len(stack) /\ r[1] = z
        /\ \A x \in 2..Len(stack) : r[x] = stack[x]
    <3> DEFINE t == Tail(stack)
    <3>1. /\ t \in Seq(Z) /\ Len(t) = Len(stack) - 1 /\ Len(stack) \in Nat \ {0}
          /\ \A x \in 1..(Len(stack) - 1) : t[x] = stack[x + 1]
      BY <1>2, <2>3, <2>4, PopIs
    <3> HIDE DEF t, Z, z
    <3>2. <<z>> \o t \in Seq(Z)
      BY <2>3, <3>1
    <3>3. /\ DOMAIN (<<z>> \o t) = 1..(Len(t) + 1) /\ (<<z>> \o t)[1] = z
          /\ \A x \in 1..Len(t) : (<<z>> \o t)[x + 1] = t[x]
      BY <3>1, PushIs
    <3>4. \A x \in 2..Len(stack) : (<<z>> \o t)[x] = stack[x]
      <4> TAKE x \in 2..Len(stack)
      <4>1. x - 1 \in 1..Len(t) /\ (x - 1) + 1 = x
        BY <3>1
      <4> QED
        BY <3>1, <3>3, <4>1
    <3> QED
      BY <3>1, <3>2, <3>3, <3>4 DEF t
  <2>7. l = r
    <3>1. l = [x \in 1..Len(stack) |-> l[x]] /\ r = [x \in 1..Len(stack) |-> r[x]]
      <4> HIDE DEF l, r, Z, z
      <4> QED
        BY <2>4, <2>5, <2>6
    <3>2. \A x \in 1..Len(stack) : l[x] = r[x]
      <4> HIDE DEF l, r, Z, z
      <4>1. Len(stack) \in Nat
        BY <1>1
      <4> QED
        BY <2>5, <2>6, <4>1
    <3> HIDE DEF l, r
    <3> QED
      BY <3>1, <3>2
  <2>8. stack' = <<Frame("parallel", n, a.job, a.branch + 1)>> \o Tail(stack)
    BY <2>2, <2>7
  <2> QED
    BY <1>2, <1>4, <1>6, <2>1, <2>8 DEF StartsNext, Enters
<1>7. CASE /\ ~ (/\ a.branch < Len(branches)
                 /\ GoesOn(flow[n].mode, jobs[control.job].status))
           /\ stack' = Tail(stack)
           /\ control' = Call("end", n, a.job)
  <2>1. MovesTo(flow, n, a.job, Tail(stack), control', stack') /\ control'.op = "end"
    BY <1>4, <1>7 DEF MovesTo, Call, Node
  <2> QED
    BY <1>2, <1>7, <2>1 DEF Joins
<1> QED
  BY <1>5, <1>6, <1>7

LEMMA StartIs ==
    ASSUME IInv, seen = execution, Start
    PROVE  Begins(flow, jobs, execution, control, stack, jobs', execution', control', stack')
<1>1. ASSUME NEW head \in Node, flow[head].upstream = 0
      PROVE  PlaceIn(flow, head) = 0
  <2>1. WellFormed(flow)
    BY CallTypes
  <2>2. head \notin StartsIn(flow)
    BY <1>1, <2>1 DEF StartsIn, WellFormed, Node
  <2> QED
    BY <1>1, <2>1, <2>2, PlaceStep DEF Node
<1> QED
  BY <1>1 DEF Start, Begins, Node, UpdateStatus

LEMMA ResumeIs ==
    ASSUME IInv, NEW j \in Job, Resume(j)
    PROVE  Awakes(flow, jobs, execution, control, stack, jobs', control', stack')
  BY DEF Resume, Resumable, Recall, Awakes, Job

\* A step of the specification, of instances up to date, is one of those steps.
LEMMA NextIs ==
    ASSUME IInv, SeenOK, Placed, Next, stale = <<>>, stale' = <<>>
    PROVE  /\ flow' = flow
           /\ Steps(flow, jobs, execution, control, stack, jobs', execution', control', stack')
<1>1. flow' = flow
  BY DEF Next, Step, Start, RunSimple, RunCondition, RunParallel, RunDelay, RunManual, RunRequest,
         RecallAsynchronous, RecallCondition, RecallParallel, EndBranch, Exit,
         ReturnToExec, ReturnToEnd, ReturnToParallel, Done, Resume, ResumeStale, Recall
<1>2. CASE RunSimple \/ RunCondition \/ RunParallel \/ RunDelay \/ RunManual \/ RunRequest
  <2>1. execution' = execution
    BY <1>2 DEF RunSimple, RunCondition, RunParallel, RunDelay, RunManual, RunRequest
  <2> QED
    BY <1>1, <1>2, <2>1, RunSimpleIs, RunConditionIs, RunParallelIs, RunDelayIs, RunManualIs DEF Steps
<1>3. CASE RecallAsynchronous \/ RecallCondition \/ RecallParallel
  <2>1. execution' = execution
    BY <1>3 DEF RecallAsynchronous, RecallCondition, RecallParallel
  <2> QED
    BY <1>1, <1>3, <2>1, RecallAsynchronousIs, RecallConditionIs, RecallParallelIs DEF Steps
<1>4. CASE EndBranch \/ Exit
  <2>1. EndBranch => execution' = execution
    BY DEF EndBranch
  <2> QED
    BY <1>1, <1>4, <2>1, EndIs DEF Steps, SeenOK
<1>5. CASE ReturnToExec \/ ReturnToEnd \/ ReturnToParallel \/ Done
  <2>1. execution' = execution
    BY <1>5 DEF ReturnToExec, ReturnToEnd, ReturnToParallel, Done
  <2> QED
    BY <1>1, <1>5, <2>1, ReturnIs, ReturnToParallelIs DEF Steps
<1>6. CASE Start
  BY <1>1, <1>6, StartIs DEF Steps, SeenOK
<1>7. ASSUME NEW j \in Job, Resume(j)
      PROVE  Steps(flow, jobs, execution, control, stack, jobs', execution', control', stack')
  <2>1. execution' = execution
    BY <1>7 DEF Resume, Recall
  <2> QED
    BY <1>7, <2>1, ResumeIs DEF Steps
<1>8. \A j \in Job : ~ ResumeStale(j)
  BY DEF ResumeStale, SeenOK
<1> QED
  BY <1>1, <1>2, <1>3, <1>4, <1>5, <1>6, <1>7, <1>8 DEF Next, Step

-----------------------------------------------------------------------------
(* How a step keeps the places *)

Placing(f, js, e, c, st) ==
    Disciplined(f, js, e, c, st) /\ AtPlace(f, js, c) /\ WaitingIn(f, js, st) /\ AtTop(f, js, c, st)

\* A call that goes on at its place is in place.
LEMMA MovesPlaced ==
    ASSUME NEW f, NEW ks, NEW g, NEW d, NEW q, NEW st, NEW n \in DOMAIN f, NEW k \in DOMAIN ks,
           WellFormed(f), st \in Seq(Frames(Len(f), Len(ks))), WaitingIn(f, ks, st), k # 0,
           st # <<>> /\ st[1].fn = "exec" => PlaceIn(f, st[1].node) = PlaceIn(f, n),
           PlaceIn(f, ks[k].node) = PlaceIn(f, n), MovesTo(f, n, k, st, d, q)
    PROVE  Placing(f, ks, g, d, q)
<1>1. /\ d.op \in {"run", "end"} /\ d.job = k /\ d.node \in DOMAIN f
      /\ PlaceIn(f, d.node) = PlaceIn(f, n)
  BY DEF MovesTo
<1>2. Disciplined(f, ks, g, d, q) /\ AtPlace(f, ks, d)
  BY <1>1 DEF Disciplined, AtPlace
<1>3. CASE q = st
  BY <1>1, <1>2, <1>3 DEF AtTop, Placing
<1>4. ASSUME NEW m, q = <<Frame("exec", n, m, 0)>> \o st
      PROVE  WaitingIn(f, ks, q) /\ AtTop(f, ks, d, q)
  <2> DEFINE a == Frame("exec", n, m, 0)
  <2>1. a.fn = "exec" /\ a.node = n
    BY DEF Frame
  <2> HIDE DEF a
  <2>2. q = <<a>> \o st
    BY <1>4 DEF a
  <2>3. st # <<>> /\ st[1].fn = "exec" => AboveIn(f, ks, a, st[1])
    BY <2>1 DEF AboveIn
  <2>4. WaitingIn(f, ks, q)
    BY <2>1, <2>2, <2>3, WaitingPush
  <2>5. q[1] = a
    BY <2>2, PushIs
  <2> QED
    BY <1>1, <2>1, <2>4, <2>5 DEF AtTop
<1> QED
  BY <1>2, <1>3, <1>4 DEF MovesTo, Placing

\* So is the one that starts a branch.
LEMMA EntersPlaced ==
    ASSUME NEW f, NEW ks, NEW g, NEW d, NEW q, NEW st, NEW n \in DOMAIN f, NEW p \in DOMAIN ks, NEW b,
           WellFormed(f), BranchesOK(f), st \in Seq(Frames(Len(f), Len(ks))), WaitingIn(f, ks, st),
           p # 0, 0 \notin DOMAIN f, ks[p].node = n,
           st # <<>> /\ st[1].fn = "exec" => PlaceIn(f, st[1].node) = PlaceIn(f, n),
           Enters(f, n, p, b, st, d, q)
    PROVE  Placing(f, ks, g, d, q)
<1> DEFINE s == BranchesIn(f, n)[b]
           a == Frame("parallel", n, p, b)
<1>1. f[n].type = "parallel" /\ b \in DOMAIN BranchesIn(f, n)
      /\ d = Call("run", s, p) /\ q = <<a>> \o st
  BY DEF Enters
<1>2. s \in DOMAIN f /\ PlaceIn(f, s) = s /\ ParIn(f, s) = n
  BY <1>1 DEF BranchesOK
<1> HIDE DEF s
<1>3. a.fn = "parallel" /\ a.node = n /\ a.job = p /\ a.branch = b
  BY DEF Frame
<1> HIDE DEF a
<1>4. d.op = "run" /\ d.node = s /\ d.job = p
  BY <1>1 DEF Call
<1>5. Disciplined(f, ks, g, d, q) /\ AtPlace(f, ks, d)
  BY <1>2, <1>4 DEF Disciplined, AtPlace
<1>6. WaitingIn(f, ks, q)
  <2>1. st # <<>> /\ st[1].fn = "exec" => AboveIn(f, ks, a, st[1])
    BY <1>3 DEF AboveIn
  <2> QED
    BY <1>1, <1>3, <2>1, WaitingPush
<1>7. q[1] = a
  BY <1>1, PushIs
<1> QED
  BY <1>3, <1>5, <1>6, <1>7 DEF AtTop, Placing

\* So is a value that comes back.
LEMMA ReturnsPlaced ==
    ASSUME NEW f, NEW ks, NEW g, NEW d, NEW q, NEW k, WaitingIn(f, ks, q), d = Return(k),
           q # <<>> /\ q[1].fn = "exec" /\ k # 0 => PlaceIn(f, ks[k].node) = PlaceIn(f, q[1].node)
    PROVE  Placing(f, ks, g, d, q)
<1>1. d.op = "return" /\ d.job = k
  BY DEF Return, Call
<1> QED
  BY <1>1 DEF Disciplined, AtPlace, AtTop, Placing

\* The ways up of the job that is added, and of the others.
UpsOfGrown(js, ks, n, u) ==
    LET new == Len(js) + 1 IN
    /\ new \in DOMAIN ks /\ new \notin DOMAIN js /\ new # 0
    /\ DOMAIN ks = DOMAIN js \cup {new}
    /\ UpIn(ks, new, n) = new
    /\ \A m : m # n => UpIn(ks, new, m) = UpIn(js, u, m)
    /\ \A j \in DOMAIN js \cup {0} : \A m : UpIn(ks, j, m) = UpIn(js, j, m)
    /\ \A z \in DOMAIN js : Leads(ks, new, z) => Leads(js, u, z)
    /\ \A j \in DOMAIN js \cup {0} : \A z : Leads(ks, j, z) => Leads(js, j, z)

\* The ways up from a job that is added are those from its upstream job.
LEMMA GrownUp ==
    ASSUME NEW js, NEW ks, NEW n, NEW s, NEW u \in DOMAIN js \cup {0}, Grown(js, ks, n, s, u)
    PROVE  UpsOfGrown(js, ks, n, u)
<1> DEFINE new == Len(js) + 1
<1>1. /\ SameUps(js, ks) /\ Chained(js) /\ Chained(ks) /\ DOMAIN js = 1..Len(js) /\ Len(js) \in Nat
      /\ DOMAIN ks = 1..new /\ ks[new].node = n /\ ks[new].upstream = u
  BY DEF Grown, SameUps, Chained
<1>2. new \in DOMAIN ks /\ new \notin DOMAIN js /\ new # 0 /\ DOMAIN ks = DOMAIN js \cup {new}
  BY <1>1
<1> HIDE DEF new
<1>3. UpIn(ks, new, n) = new /\ \A m : m # n => UpIn(ks, new, m) = UpIn(ks, u, m)
  <2>1. ASSUME NEW m
        PROVE  /\ ks[new].node = m => UpIn(ks, new, m) = new
               /\ ks[new].node # m => UpIn(ks, new, m) = UpIn(ks, ks[new].upstream, m)
    BY <1>1, <1>2, UpStep
  <2> QED
    BY <1>1, <2>1
<1>4. \A j \in DOMAIN js \cup {0} : /\ \A m : UpIn(ks, j, m) = UpIn(js, j, m)
                                    /\ \A z : Leads(ks, j, z) => Leads(js, j, z)
  BY <1>1, UpsStay
<1>5. \A z \in DOMAIN js : Leads(ks, new, z) => Leads(js, u, z)
  <2> TAKE z \in DOMAIN js
  <2>1. z \in DOMAIN ks /\ z # new
    BY <1>2
  <2>2. Leads(ks, new, z) => new = z \/ Leads(ks, ks[new].upstream, z)
    BY <1>1, <1>2, <2>1, LeadsStep
  <2> QED
    BY <1>1, <1>4, <2>1, <2>2
<1> QED
  BY <1>2, <1>3, <1>4, <1>5 DEF new, UpsOfGrown

\* A job that is added is in place.
LEMMA GrownPlaced ==
    ASSUME NEW f, NEW js, NEW ks, NEW n \in DOMAIN f, NEW s, NEW u \in DOMAIN js \cup {0},
           WellFormed(f), Grown(js, ks, n, s, u), LostIn(f, js), PendingIn(f, js), RequestsIn(f, js),
           UpIn(js, u, ParIn(f, n)) = 0 =>
              \A A \in DOMAIN f : Within(f, ParIn(f, n), A) => UpIn(js, u, A) = 0,
           s = "PENDING" =>
              \/ f[n].type \in Asynchronous
              \/ /\ f[n].type = "parallel"
                 /\ DOMAIN ks[Len(js) + 1].result = DOMAIN BranchesIn(f, n)
                 /\ BranchesIn(f, n) # <<>> => Verdict(f[n].mode, ks[Len(js) + 1].result) = "PENDING",
           f[n].type = "request" => u = 0
    PROVE  LostIn(f, ks) /\ PendingIn(f, ks) /\ RequestsIn(f, ks)
<1> DEFINE new == Len(js) + 1
<1>1. /\ new \in DOMAIN ks /\ new \notin DOMAIN js /\ new # 0
      /\ DOMAIN ks = DOMAIN js \cup {new}
      /\ \A m : m # n => UpIn(ks, new, m) = UpIn(js, u, m)
      /\ \A j \in DOMAIN js \cup {0} : \A m : UpIn(ks, j, m) = UpIn(js, j, m)
  <2>1. UpsOfGrown(js, ks, n, u)
    BY GrownUp
  <2> QED
    BY <2>1 DEF UpsOfGrown
<1>2. /\ \A j \in DOMAIN js : ks[j] = js[j]
      /\ ks[new].node = n /\ ks[new].status = s /\ ks[new].upstream = u
  BY DEF Grown
<1> HIDE DEF new
<1>3. LostIn(f, ks)
  <2> SUFFICES ASSUME NEW j \in DOMAIN ks, UpIn(ks, j, ParIn(f, ks[j].node)) = 0,
                      NEW A \in DOMAIN f, Within(f, ParIn(f, ks[j].node), A)
               PROVE  UpIn(ks, j, A) = 0
    BY DEF LostIn
  <2>1. CASE j \in DOMAIN js
    BY <1>1, <1>2, <2>1 DEF LostIn
  <2>2. CASE j = new
    <3>1. A # n /\ ParIn(f, n) # n
      BY <1>2, <2>2, WithinStep, ParIsOther
    <3> QED
      BY <1>1, <1>2, <2>2, <3>1
  <2> QED
    BY <1>1, <2>1, <2>2
<1>4. PendingIn(f, ks)
  <2> SUFFICES ASSUME NEW j \in DOMAIN ks, ks[j].status = "PENDING"
               PROVE  \/ f[ks[j].node].type \in Asynchronous
                      \/ /\ f[ks[j].node].type = "parallel"
                         /\ DOMAIN ks[j].result = DOMAIN BranchesIn(f, ks[j].node)
                         /\ BranchesIn(f, ks[j].node) # <<>> =>
                               Verdict(f[ks[j].node].mode, ks[j].result) = "PENDING"
    BY DEF PendingIn
  <2>1. CASE j \in DOMAIN js
    BY <1>2, <2>1 DEF PendingIn
  <2>2. CASE j = new
    BY <1>2, <2>2 DEF new
  <2> QED
    BY <1>1, <2>1, <2>2
<1>5. RequestsIn(f, ks)
  BY <1>1, <1>2 DEF RequestsIn
<1> QED
  BY <1>3, <1>4, <1>5

\* A job that is updated stays in place.
LEMMA ChangedPlaced ==
    ASSUME NEW f, NEW js, NEW ks, NEW p \in DOMAIN js,
           Changed(js, ks, p), LostIn(f, js), PendingIn(f, js), RequestsIn(f, js),
           ks[p].status = "PENDING" =>
              \/ f[js[p].node].type \in Asynchronous
              \/ /\ f[js[p].node].type = "parallel"
                 /\ DOMAIN ks[p].result = DOMAIN BranchesIn(f, js[p].node)
                 /\ BranchesIn(f, js[p].node) # <<>> =>
                       Verdict(f[js[p].node].mode, ks[p].result) = "PENDING"
    PROVE  LostIn(f, ks) /\ PendingIn(f, ks) /\ RequestsIn(f, ks)
<1>1. /\ DOMAIN ks = DOMAIN js /\ SameUps(js, ks)
      /\ \A j \in DOMAIN js : ks[j].node = js[j].node /\ ks[j].upstream = js[j].upstream
      /\ \A j \in DOMAIN js : j # p => ks[j] = js[j]
  BY DEF Changed, SameUps
<1>2. \A j \in DOMAIN js : \A m : UpIn(ks, j, m) = UpIn(js, j, m)
  BY <1>1, UpsStay
<1>3. LostIn(f, ks)
  BY <1>1, <1>2 DEF LostIn
<1>4. PendingIn(f, ks)
  <2> SUFFICES ASSUME NEW j \in DOMAIN js, ks[j].status = "PENDING"
               PROVE  \/ f[js[j].node].type \in Asynchronous
                      \/ /\ f[js[j].node].type = "parallel"
                         /\ DOMAIN ks[j].result = DOMAIN BranchesIn(f, js[j].node)
                         /\ BranchesIn(f, js[j].node) # <<>> =>
                               Verdict(f[js[j].node].mode, ks[j].result) = "PENDING"
    BY <1>1 DEF PendingIn
  <2>1. CASE j = p
    BY <2>1
  <2>2. CASE j # p
    BY <1>1, <2>2 DEF PendingIn
  <2> QED
    BY <2>1, <2>2
<1>5. RequestsIn(f, ks)
  BY <1>1 DEF RequestsIn
<1> QED
  BY <1>3, <1>4, <1>5

\* A parallel job is not decided before a branch has ended.
LEMMA VerdictOfNone ==
    ASSUME NEW mode, NEW result, NEW i \in DOMAIN result, \A k \in DOMAIN result : result[k] = "NONE"
    PROVE  Verdict(mode, result) = "PENDING"
<1>1. \A s \in {"RESOLVED", "FAILED"} : ~ (\E k \in DOMAIN result : result[k] = s)
                                        /\ ~ (\A k \in DOMAIN result : result[k] = s)
  OBVIOUS
<1> QED
  BY <1>1, Zenon DEF Verdict

\* What waits, for jobs that are added or updated.
LEMMA WaitingKept ==
    ASSUME NEW f, NEW js, NEW ks, NEW c, NEW st, Typed(f, js, c, st), SameUps(js, ks), WaitingIn(f, js, st)
    PROVE  /\ WaitingIn(f, ks, st)
           /\ st # <<>> => /\ WaitingIn(f, ks, Tail(st))
                           /\ Tail(st) # <<>> /\ Tail(st)[1].fn = "exec" => AboveIn(f, ks, st[1], Tail(st)[1])
<1>1. WaitingIn(f, ks, st)
  <2>1. \A x \in DOMAIN st : st[x].fn \in {"end", "parallel"} => st[x].job \in DOMAIN js
    BY TypedIs
  <2>2. \A x \in DOMAIN st : x # 1 => x - 1 \in DOMAIN st
    BY TypedIs
  <2> QED
    BY <2>1, <2>2, WaitingStays
<1>2. st \in Seq(Frames(Len(f), Len(js)))
  BY DEF Typed
<1> QED
  BY <1>1, <1>2, WaitingPop

\* Each of the steps keeps the places.
LEMMA ExecutesPlaced ==
    ASSUME NEW f, NEW js, NEW e, NEW c, NEW st, NEW ks, NEW g, NEW d, NEW q,
           Typed(f, js, c, st), Typed(f, ks, d, q), PlacedIn(f, js, e, c, st),
           Executes(f, js, c, st, ks, d, q) \/ Forks(f, js, c, st, ks, d, q)
    PROVE  PlacedIn(f, ks, g, d, q)
<1> DEFINE n == c.node
           new == Len(js) + 1
           u == IF f[n].type = "request" THEN 0 ELSE c.job
<1>1. /\ c.op = "run" /\ n \in DOMAIN f /\ WellFormed(f) /\ BranchesOK(f) /\ 0 \notin DOMAIN f
      /\ u \in DOMAIN js \cup {0}
  BY TypedIs DEF Typed, Executes, Forks
<1> DEFINE row == ks[new]
<1>2. PICK s : Grown(js, ks, n, s, u)
  BY DEF Executes, Forks, Asynchronous
<1>3. UpsOfGrown(js, ks, n, u)
  BY <1>1, <1>2, GrownUp
<1>4. UpIn(js, u, ParIn(f, n)) = 0 =>
         \A A \in DOMAIN f : Within(f, ParIn(f, n), A) => UpIn(js, u, A) = 0
  <2>1. Chained(js)
    BY DEF Typed
  <2>2. \A A : UpIn(js, 0, A) = 0
    BY <2>1, UpStep
  <2>3. CASE u = 0
    BY <2>2, <2>3
  <2>4. CASE u # 0 /\ PlaceIn(f, js[u].node) = PlaceIn(f, n)
    <3>1. ParIn(f, js[u].node) = ParIn(f, n)
      BY <2>4 DEF ParIn
    <3> QED
      BY <1>1, <2>4, <3>1 DEF PlacedIn, LostIn
  <2>5. CASE u # 0 /\ js[u].node = ParIn(f, n)
    <3>1. UpIn(js, u, js[u].node) = u
      BY <1>1, <2>1, <2>5, UpStep
    <3> QED
      BY <2>5, <3>1
  <2> QED
    BY <1>1, <2>3, <2>4, <2>5 DEF PlacedIn, AtPlace
<1>5. row.node = n /\ row.status = s /\ SameUps(js, ks)
  BY <1>2 DEF Grown
<1>6. s = "PENDING" =>
         \/ f[n].type \in Asynchronous
         \/ /\ f[n].type = "parallel"
            /\ DOMAIN row.result = DOMAIN BranchesIn(f, n)
            /\ BranchesIn(f, n) # <<>> => Verdict(f[n].mode, row.result) = "PENDING"
  <2>1. CASE Executes(f, js, c, st, ks, d, q)
    <3>1. s = "PENDING" <=> f[n].type \in Asynchronous \cup {"parallel"}
      BY <1>5, <2>1 DEF Executes, Grown
    <3> QED
      BY <2>1, <3>1 DEF Executes
  <2>2. CASE Forks(f, js, c, st, ks, d, q)
    <3>1. /\ f[n].type = "parallel" /\ DOMAIN row.result = DOMAIN BranchesIn(f, n)
          /\ \A i \in DOMAIN row.result : row.result[i] = "NONE"
          /\ 1 \in DOMAIN BranchesIn(f, n)
      BY <2>2 DEF Forks, Enters
    <3>2. Verdict(f[n].mode, row.result) = "PENDING"
      <4> DEFINE r == row.result
      <4>1. 1 \in DOMAIN r /\ \A i \in DOMAIN r : r[i] = "NONE"
        BY <3>1
      <4> HIDE DEF r
      <4>2. Verdict(f[n].mode, r) = "PENDING"
        BY <4>1, VerdictOfNone
      <4> QED
        BY <4>2 DEF r
    <3> QED
      BY <3>1, <3>2
  <2> QED
    BY <2>1, <2>2
<1>7. f[n].type = "request" => u = 0
  OBVIOUS
<1> HIDE DEF u
<1>8. LostIn(f, ks) /\ PendingIn(f, ks) /\ RequestsIn(f, ks)
  BY <1>1, <1>2, <1>4, <1>6, <1>7, GrownPlaced DEF PlacedIn
<1>9. st \in Seq(Frames(Len(f), Len(ks))) /\ WaitingIn(f, ks, st)
  <2>1. st \in Seq(Frames(Len(f), Len(js))) /\ Len(f) \in Nat /\ Len(js) \in Nat /\ Len(ks) = Len(js) + 1
    BY <1>2, TypedIs DEF Typed, Grown
  <2>2. Len(ks) \in Nat /\ Len(js) <= Len(ks)
    BY <2>1
  <2> QED
    BY <1>5, <2>1, <2>2, FramesGrow, WaitingKept DEF PlacedIn
<1>10. st # <<>> /\ st[1].fn = "exec" => PlaceIn(f, st[1].node) = PlaceIn(f, n)
  BY <1>1 DEF PlacedIn, AtTop
<1>11. new \in DOMAIN ks /\ new # 0
  BY <1>3 DEF UpsOfGrown
<1>14. ks[new].node = n /\ PlaceIn(f, ks[new].node) = PlaceIn(f, n)
  BY <1>5
<1> HIDE DEF new
<1>12. CASE Executes(f, js, c, st, ks, d, q)
  <2>1. MovesTo(f, n, new, st, d, q)
    BY <1>12 DEF Executes, new
  <2>2. Placing(f, ks, g, d, q)
    BY <1>1, <1>9, <1>10, <1>11, <1>14, <2>1, MovesPlaced
  <2> QED
    BY <1>8, <2>2 DEF PlacedIn, Placing
<1>13. CASE Forks(f, js, c, st, ks, d, q)
  <2>1. PICK m : Enters(f, n, new, 1, <<Frame("exec", n, m, 0)>> \o st, d, q)
    BY <1>13 DEF Forks, new
  <2> DEFINE a == Frame("exec", n, m, 0)
             t == <<a>> \o st
  <2>2. a.fn = "exec" /\ a.node = n
    BY DEF Frame
  <2>3. WaitingIn(f, ks, t)
    <3> HIDE DEF a
    <3>1. st # <<>> /\ st[1].fn = "exec" => AboveIn(f, ks, a, st[1])
      BY <1>10, <2>2 DEF AboveIn
    <3> QED
      BY <1>9, <2>2, <3>1, WaitingPush
  <2>4. t[1] = a
    <3> HIDE DEF a
    <3> QED
      BY <1>9, PushIs
  <2>5. t \in Seq(Frames(Len(f), Len(ks)) \cup {a})
    BY <1>9
  <2> HIDE DEF t
  <2>6. Enters(f, n, new, 1, t, d, q)
    BY <2>1 DEF t
  <2>7. t \in Seq(Frames(Len(f), Len(ks)))
    <3>1. q \in Seq(Frames(Len(f), Len(ks))) /\ q = <<Frame("parallel", n, new, 1)>> \o t
      BY <2>1 DEF Enters, Typed, t, a
    <3> DEFINE z == Frame("parallel", n, new, 1)
    <3> HIDE DEF z, a
    <3>2. /\ DOMAIN t = 1..Len(t) /\ Len(t) \in Nat /\ DOMAIN q = 1..(Len(t) + 1)
          /\ \A x \in 1..Len(t) : q[x + 1] = t[x]
      BY <2>5, <3>1, PushIs DEF z
    <3>3. \A x \in 1..Len(t) : t[x] \in Frames(Len(f), Len(ks))
      BY <3>1, <3>2
    <3> QED
      BY <2>5, <3>3
  <2>8. t # <<>> /\ t[1].fn = "exec" => PlaceIn(f, t[1].node) = PlaceIn(f, n)
    BY <2>2, <2>4
  <2>9. Placing(f, ks, g, d, q)
    BY <1>1, <1>11, <1>14, <2>3, <2>6, <2>7, <2>8, EntersPlaced
  <2> QED
    BY <1>8, <2>9 DEF PlacedIn, Placing
<1> QED
  BY <1>12, <1>13

\* The closest job of a node up the jobs is a job of this node.
LEMMA UpIsJob ==
    ASSUME NEW js, Chained(js), NEW j \in DOMAIN js, NEW n, UpIn(js, j, n) # 0
    PROVE  UpIn(js, j, n) \in DOMAIN js /\ js[UpIn(js, j, n)].node = n /\ UpIn(js, j, n) <= j
<1>1. /\ UpIn(js, j, n) \in 0..j
      /\ UpIn(js, j, n) # 0 => UpIn(js, j, n) \in DOMAIN js /\ js[UpIn(js, j, n)].node = n
  BY UpStep
<1> QED
  BY <1>1 DEF Chained

LEMMA RecallsPlaced ==
    ASSUME NEW f, NEW js, NEW e, NEW c, NEW st, NEW ks, NEW g, NEW d, NEW q,
           Typed(f, js, c, st), Typed(f, ks, d, q), PlacedIn(f, js, e, c, st),
           Recalls(f, js, c, st, ks, d, q)
    PROVE  PlacedIn(f, ks, g, d, q)
<1> DEFINE n == c.node
           j == c.job
<1>1. /\ c.op = "recall" /\ f[n].type \in Asynchronous /\ n \in DOMAIN f /\ j \in DOMAIN js
      /\ WellFormed(f) /\ Changed(js, ks, j) /\ MovesTo(f, n, j, st, d, q) /\ j # 0
  BY TypedIs DEF Typed, Recalls
<1>2. st = <<>> /\ js[j].node = n
  BY <1>1 DEF PlacedIn, Disciplined
<1>3. LostIn(f, ks) /\ PendingIn(f, ks) /\ RequestsIn(f, ks)
  BY <1>1, <1>2, ChangedPlaced DEF PlacedIn
<1>4. j \in DOMAIN ks /\ PlaceIn(f, ks[j].node) = PlaceIn(f, n)
  BY <1>1, <1>2 DEF Changed, SameUps
<1>5. st \in Seq(Frames(Len(f), Len(ks))) /\ WaitingIn(f, ks, st)
  <2>1. WaitingIn(f, ks, st)
    BY <1>1, WaitingKept DEF PlacedIn, Changed
  <2> QED
    BY <1>2, <2>1
<1>6. Placing(f, ks, g, d, q)
  BY <1>1, <1>2, <1>4, <1>5, MovesPlaced
<1> QED
  BY <1>3, <1>6 DEF PlacedIn, Placing

LEMMA ThrowsPlaced ==
    ASSUME NEW f, NEW js, NEW e, NEW c, NEW st, NEW ks, NEW g, NEW d, NEW q,
           Typed(f, js, c, st), Typed(f, ks, d, q), PlacedIn(f, js, e, c, st),
           Throws(f, js, c, st, ks, d, q)
    PROVE  PlacedIn(f, ks, g, d, q)
<1> DEFINE n == c.node
           j == c.job
           new == Len(js) + 1
<1>1. /\ c.op = "recall" /\ f[n].type = "parallel" /\ n \in DOMAIN f /\ j \in DOMAIN js
      /\ WellFormed(f) /\ Grown(js, ks, n, "FAILED", j) /\ MovesTo(f, n, new, st, d, q)
      /\ UpIn(js, j, n) = 0
  BY TypedIs DEF Typed, Throws
<1>2. n = ParIn(f, js[j].node) /\ st[1].fn = "end"
  BY <1>1 DEF PlacedIn, AtPlace, Disciplined, Asynchronous
<1>3. UpsOfGrown(js, ks, n, j)
  BY <1>1, GrownUp
<1>4. \A A \in DOMAIN f : Within(f, ParIn(f, n), A) => UpIn(js, j, A) = 0
  <2>1. \A A \in DOMAIN f : Within(f, n, A) => UpIn(js, j, A) = 0
    BY <1>1, <1>2 DEF PlacedIn, LostIn
  <2> QED
    BY <1>1, <2>1, WithinStep
<1>5. LostIn(f, ks) /\ PendingIn(f, ks) /\ RequestsIn(f, ks)
  BY <1>1, <1>4, GrownPlaced DEF PlacedIn
<1>6. new \in DOMAIN ks /\ new # 0 /\ ks[new].node = n /\ SameUps(js, ks) /\ Len(ks) = Len(js) + 1
  BY <1>1, <1>3 DEF Grown, UpsOfGrown
<1>7. st \in Seq(Frames(Len(f), Len(ks))) /\ WaitingIn(f, ks, st)
  <2>1. st \in Seq(Frames(Len(f), Len(js))) /\ Len(f) \in Nat /\ Len(js) \in Nat
    BY TypedIs DEF Typed
  <2>2. Len(ks) \in Nat /\ Len(js) <= Len(ks)
    BY <1>6, <2>1
  <2> QED
    BY <1>6, <2>1, <2>2, FramesGrow, WaitingKept DEF PlacedIn
<1> HIDE DEF new
<1>8. Placing(f, ks, g, d, q)
  BY <1>1, <1>2, <1>6, <1>7, MovesPlaced
<1> QED
  BY <1>5, <1>8 DEF PlacedIn, Placing

LEMMA CountsPlaced ==
    ASSUME NEW f, NEW js, NEW e, NEW c, NEW st, NEW ks, NEW g, NEW d, NEW q,
           Typed(f, js, c, st), Typed(f, ks, d, q), PlacedIn(f, js, e, c, st),
           Counts(f, js, c, st, ks, d, q)
    PROVE  PlacedIn(f, ks, g, d, q)
<1> DEFINE n == c.node
           j == c.job
           p == UpIn(js, j, n)
<1>1. /\ c.op = "recall" /\ f[n].type = "parallel" /\ n \in DOMAIN f /\ j \in DOMAIN js
      /\ WellFormed(f) /\ Changed(js, ks, p) /\ MovesTo(f, n, p, st, d, q)
      /\ p # 0 /\ js[p].status = "PENDING"
      /\ ks[p].status = Verdict(f[n].mode, ks[p].result)
  BY TypedIs DEF Typed, Counts
<1>2. st[1].fn = "end"
  BY <1>1 DEF PlacedIn, Disciplined, Asynchronous
<1>3. p \in DOMAIN js /\ js[p].node = n
  BY <1>1, UpIsJob DEF Typed
<1>4. DOMAIN ks[p].result = DOMAIN BranchesIn(f, n)
  <2>1. DOMAIN js[p].result = DOMAIN BranchesIn(f, n)
    BY <1>1, <1>3 DEF PlacedIn, PendingIn, Asynchronous
  <2> HIDE DEF p
  <2>2. DOMAIN ks[p].result = DOMAIN js[p].result
    BY DEF Counts, p
  <2> QED
    BY <2>1, <2>2
<1> HIDE DEF p
<1>5. LostIn(f, ks) /\ PendingIn(f, ks) /\ RequestsIn(f, ks)
  BY <1>1, <1>3, <1>4, ChangedPlaced DEF PlacedIn
<1>6. p \in DOMAIN ks /\ ks[p].node = n /\ SameUps(js, ks) /\ DOMAIN ks = DOMAIN js
  BY <1>1, <1>3 DEF Changed, SameUps
<1>7. st \in Seq(Frames(Len(f), Len(ks))) /\ WaitingIn(f, ks, st)
  <2>1. Len(ks) = Len(js)
    BY <1>6, TypedIs
  <2> QED
    BY <1>6, <2>1, WaitingKept DEF PlacedIn, Typed
<1>8. Placing(f, ks, g, d, q)
  BY <1>1, <1>2, <1>6, <1>7, MovesPlaced
<1> QED
  BY <1>5, <1>8 DEF PlacedIn, Placing

LEMMA ClimbsPlaced ==
    ASSUME NEW f, NEW js, NEW e, NEW c, NEW st, NEW g, NEW d, NEW q,
           Typed(f, js, c, st), PlacedIn(f, js, e, c, st), ClimbsUp(f, js, c, st, js, d, q)
    PROVE  Placing(f, js, g, d, q)
<1> DEFINE n == c.node
           j == c.job
           h == HomeIn(f, n)
           a == Frame("end", 0, j, 0)
<1>1. /\ c.op = "end" /\ n \in DOMAIN f /\ j \in DOMAIN js /\ h # 0 /\ WellFormed(f)
      /\ d = Call("recall", h, j) /\ q = <<a>> \o st /\ st \in Seq(Frames(Len(f), Len(js)))
  BY TypedIs DEF Typed, ClimbsUp
<1>2. /\ h \in DOMAIN f /\ f[h].type \in {"condition", "parallel"}
      /\ f[h].type = "parallel" => ParIn(f, n) = h
      /\ f[h].type # "parallel" => PlaceIn(f, n) = PlaceIn(f, h)
  BY <1>1, HomePlace
<1>3. PlaceIn(f, js[j].node) = PlaceIn(f, n) /\ ParIn(f, js[j].node) = ParIn(f, n)
  BY <1>1 DEF PlacedIn, AtPlace, ParIn
<1>4. a.fn = "end" /\ a.job = j /\ d.op = "recall" /\ d.node = h /\ d.job = j
  BY <1>1 DEF Frame, Call
<1> HIDE DEF a, h
<1>5. q[1] = a /\ q # <<>>
  BY <1>1, PushIs
<1>6. Disciplined(f, js, g, d, q)
  BY <1>2, <1>4, <1>5 DEF Disciplined, Asynchronous
<1>7. AtPlace(f, js, d)
  BY <1>2, <1>3, <1>4 DEF AtPlace
<1>8. WaitingIn(f, js, q)
  <2>1. st # <<>> /\ st[1].fn = "exec" => AboveIn(f, js, a, st[1])
    BY <1>1, <1>3, <1>4 DEF AboveIn, PlacedIn, AtTop
  <2> QED
    BY <1>1, <1>4, <2>1, WaitingPush DEF PlacedIn
<1>9. AtTop(f, js, d, q)
  BY <1>4, <1>5 DEF AtTop
<1> QED
  BY <1>6, <1>7, <1>8, <1>9 DEF Placing

\* The steps that leave the jobs as they are.
LEMMA OthersPlaced ==
    ASSUME NEW f, NEW js, NEW e, NEW c, NEW st, NEW ks, NEW g, NEW d, NEW q,
           Typed(f, js, c, st), PlacedIn(f, js, e, c, st),
           \/ PassesOn(f, js, c, st, ks, d, q) \/ Ignores(f, js, c, st, ks, d, q)
           \/ ClimbsUp(f, js, c, st, ks, d, q) \/ Exits(f, js, c, st, ks, g, d, q)
           \/ Skips(f, js, c, st, ks, d, q) \/ Follows(f, js, c, st, ks, d, q)
           \/ Yields(f, js, c, st, ks, d, q) \/ StartsNext(f, js, c, st, ks, d, q)
           \/ Joins(f, js, c, st, ks, d, q) \/ Stops(f, js, c, st, ks, d, q)
           \/ Begins(f, js, e, c, st, ks, g, d, q)
           \/ Awakes(f, js, e, c, st, ks, d, q) /\ g = e
    PROVE  PlacedIn(f, ks, g, d, q)
<1>1. ks = js
  BY DEF PassesOn, Ignores, ClimbsUp, Exits, Skips, Follows, Yields, StartsNext, Joins, Stops, Begins, Awakes
<1>2. SUFFICES Placing(f, js, g, d, q)
  BY <1>1 DEF PlacedIn, Placing
<1>3. /\ WellFormed(f) /\ BranchesOK(f) /\ Chained(js) /\ 0 \notin DOMAIN f /\ 0 \notin DOMAIN js
      /\ st \in Seq(Frames(Len(f), Len(js))) /\ c.job \in DOMAIN js \cup {0}
      /\ Disciplined(f, js, e, c, st) /\ AtPlace(f, js, c) /\ WaitingIn(f, js, st) /\ AtTop(f, js, c, st)
  BY TypedIs DEF Typed, PlacedIn
<1>4. ASSUME st # <<>>
      PROVE  /\ WaitingIn(f, js, Tail(st)) /\ Tail(st) \in Seq(Frames(Len(f), Len(js)))
             /\ Tail(st) # <<>> /\ Tail(st)[1].fn = "exec" => AboveIn(f, js, st[1], Tail(st)[1])
             /\ st[1].fn # "end" => st[1].node \in DOMAIN f
             /\ st[1].fn # "exec" => st[1].job \in DOMAIN js
             /\ st[1].fn = "parallel" => js[st[1].job].node = st[1].node
  <2>1. WaitingIn(f, js, Tail(st)) /\ Tail(st) \in Seq(Frames(Len(f), Len(js)))
        /\ (Tail(st) # <<>> /\ Tail(st)[1].fn = "exec" => AboveIn(f, js, st[1], Tail(st)[1]))
    <3>1. Tail(st) \in Seq(Frames(Len(f), Len(js)))
      BY <1>3, <1>4
    <3>2. WaitingIn(f, js, Tail(st))
          /\ (Tail(st) # <<>> /\ Tail(st)[1].fn = "exec" => AboveIn(f, js, st[1], Tail(st)[1]))
      BY <1>3, <1>4, WaitingPop
    <3> QED
      BY <3>1, <3>2
  <2>2. 1 \in DOMAIN st
    BY <1>3, <1>4
  <2>3. /\ st[1].fn # "end" => st[1].node \in DOMAIN f
        /\ st[1].fn # "exec" => st[1].job \in DOMAIN js
    BY <2>2, TypedIs
  <2>4. st[1].fn = "parallel" => js[st[1].job].node = st[1].node
    BY <1>3, <2>2 DEF WaitingIn
  <2> QED
    BY <2>1, <2>3, <2>4
<1>5. CASE PassesOn(f, js, c, st, ks, d, q)
  <2>1. /\ c.op = "recall" /\ f[c.node].type = "condition" /\ MovesTo(f, c.node, c.job, st, d, q)
        /\ c.node \in DOMAIN f /\ c.job \in DOMAIN js
    BY <1>5, TypedIs DEF PassesOn
  <2>2. PlaceIn(f, js[c.job].node) = PlaceIn(f, c.node) /\ st[1].fn = "end"
    BY <1>3, <2>1 DEF AtPlace, Disciplined, Asynchronous
  <2> QED
    BY <1>3, <2>1, <2>2, MovesPlaced
<1>6. CASE Ignores(f, js, c, st, ks, d, q)
  BY <1>3, <1>6, ReturnsPlaced DEF Ignores
<1>7. CASE ClimbsUp(f, js, c, st, ks, d, q)
  BY <1>1, <1>7, ClimbsPlaced
<1>8. CASE Exits(f, js, c, st, ks, g, d, q)
  BY <1>3, <1>8, ReturnsPlaced DEF Exits
<1>9. CASE Skips(f, js, c, st, ks, d, q)
  BY <1>4, <1>9, ReturnsPlaced DEF Skips
<1>10. CASE Follows(f, js, c, st, ks, d, q)
  <2> DEFINE n == st[1].node
             t == Tail(st)
  <2>1. /\ c.op = "return" /\ c.job # 0 /\ c.job \in DOMAIN js /\ st # <<>> /\ st[1].fn = "exec"
        /\ MovesTo(f, n, c.job, t, d, q)
    BY <1>3, <1>10 DEF Follows
  <2>2. n \in DOMAIN f /\ PlaceIn(f, js[c.job].node) = PlaceIn(f, n)
    BY <1>3, <1>4, <2>1 DEF AtTop
  <2>3. t # <<>> /\ t[1].fn = "exec" => PlaceIn(f, t[1].node) = PlaceIn(f, n)
    BY <1>4, <2>1 DEF AboveIn
  <2>4. t \in Seq(Frames(Len(f), Len(js))) /\ WaitingIn(f, js, t)
    BY <1>4, <2>1
  <2> HIDE DEF n, t
  <2> QED
    BY <1>3, <2>1, <2>2, <2>3, <2>4, MovesPlaced
<1>11. CASE Yields(f, js, c, st, ks, d, q)
  <2>1. st # <<>> /\ st[1].fn = "end" /\ d = Return(st[1].job) /\ q = Tail(st)
    BY <1>11 DEF Yields
  <2>2. q # <<>> /\ q[1].fn = "exec" => PlaceIn(f, js[st[1].job].node) = PlaceIn(f, q[1].node)
    BY <1>4, <2>1 DEF AboveIn
  <2> QED
    BY <1>4, <2>1, <2>2, ReturnsPlaced
<1>12. CASE StartsNext(f, js, c, st, ks, d, q)
  <2> DEFINE n == st[1].node
             t == Tail(st)
  <2>1. st # <<>> /\ st[1].fn = "parallel" /\ Enters(f, n, st[1].job, st[1].branch + 1, t, d, q)
    BY <1>12 DEF StartsNext
  <2>2. n \in DOMAIN f /\ st[1].job \in DOMAIN js /\ js[st[1].job].node = n /\ st[1].job # 0
    BY <1>3, <1>4, <2>1
  <2>3. t # <<>> /\ t[1].fn = "exec" => PlaceIn(f, t[1].node) = PlaceIn(f, n)
    BY <1>4, <2>1 DEF AboveIn
  <2>4. t \in Seq(Frames(Len(f), Len(js))) /\ WaitingIn(f, js, t)
    BY <1>4, <2>1
  <2> HIDE DEF n, t
  <2> QED
    BY <1>3, <2>1, <2>2, <2>3, <2>4, EntersPlaced
<1>13. CASE Joins(f, js, c, st, ks, d, q)
  <2> DEFINE n == st[1].node
             t == Tail(st)
  <2>1. st # <<>> /\ st[1].fn = "parallel" /\ MovesTo(f, n, st[1].job, t, d, q)
    BY <1>13 DEF Joins
  <2>2. n \in DOMAIN f /\ st[1].job \in DOMAIN js /\ st[1].job # 0
        /\ PlaceIn(f, js[st[1].job].node) = PlaceIn(f, n)
    BY <1>3, <1>4, <2>1
  <2>3. t # <<>> /\ t[1].fn = "exec" => PlaceIn(f, t[1].node) = PlaceIn(f, n)
    BY <1>4, <2>1 DEF AboveIn
  <2>4. t \in Seq(Frames(Len(f), Len(js))) /\ WaitingIn(f, js, t)
    BY <1>4, <2>1
  <2> HIDE DEF n, t
  <2> QED
    BY <1>3, <2>1, <2>2, <2>3, <2>4, MovesPlaced
<1>14. CASE Stops(f, js, c, st, ks, d, q)
  <2>1. d = Idle /\ d.op = "idle" /\ q = <<>> /\ q = st
    BY <1>14 DEF Stops, Idle, Call
  <2> QED
    BY <1>3, <2>1 DEF Placing, Disciplined, AtPlace, AtTop
<1>15. CASE Begins(f, js, e, c, st, ks, g, d, q)
  <2>1. q = st /\ st = <<>>
    BY <1>3, <1>15 DEF Begins, Disciplined
  <2>2. CASE d = Return(0)
    BY <1>3, <2>1, <2>2, ReturnsPlaced
  <2>3. ASSUME NEW head \in DOMAIN f, PlaceIn(f, head) = 0, d = Call("run", head, 0)
        PROVE  Placing(f, js, g, d, q)
    <3>1. d.op = "run" /\ d.node = head /\ d.job = 0
      BY <2>3 DEF Call
    <3> QED
      BY <1>3, <2>1, <2>3, <3>1 DEF Placing, Disciplined, AtPlace, AtTop
  <2> QED
    BY <1>15, <2>2, <2>3 DEF Begins
<1>16. CASE Awakes(f, js, e, c, st, ks, d, q) /\ g = e
  <2>1. PICK j \in DOMAIN js : /\ js[j].status = "PENDING"
                               /\ f[js[j].node].type \in Asynchronous
                               /\ d = Call("recall", js[j].node, j)
    BY <1>16 DEF Awakes
  <2>2. d.op = "recall" /\ d.node = js[j].node /\ d.job = j
    BY <2>1 DEF Call
  <2>3. q = st /\ st = <<>> /\ g = "STARTED"
    BY <1>3, <1>16 DEF Awakes, Disciplined, Idle, Call
  <2>4. f[d.node].type # "parallel"
    BY <2>1, <2>2 DEF Asynchronous
  <2> QED
    BY <1>3, <2>1, <2>2, <2>3, <2>4 DEF Placing, Disciplined, AtPlace, AtTop
<1> QED
  BY <1>5, <1>6, <1>7, <1>8, <1>9, <1>10, <1>11, <1>12, <1>13, <1>14, <1>15, <1>16

\* Every step keeps the places.
LEMMA StepsPlaced ==
    ASSUME NEW f, NEW js, NEW e, NEW c, NEW st, NEW ks, NEW g, NEW d, NEW q,
           Typed(f, js, c, st), Typed(f, ks, d, q), PlacedIn(f, js, e, c, st),
           Steps(f, js, e, c, st, ks, g, d, q)
    PROVE  PlacedIn(f, ks, g, d, q)
  BY ExecutesPlaced, RecallsPlaced, ThrowsPlaced, CountsPlaced, OthersPlaced DEF Steps

-----------------------------------------------------------------------------
(* After a request in a branch, the execution fails                         *)

\* A request in a branch of a parallel node waits.
Requested(f, js) ==
    \E j \in DOMAIN js : /\ js[j].status = "PENDING"
                         /\ f[js[j].node].type = "request"
                         /\ ParIn(f, js[j].node) # 0

\* The job r of such a request, or one that was added since, after job b.
Since(r, b, j) == j = r \/ j > b

Orphan(f, js, r, b) ==
    /\ r \in DOMAIN js /\ b \in Nat /\ r <= b /\ b <= Len(js)
    /\ ParIn(f, js[r].node) # 0
    /\ f[js[r].node].type # "parallel"
    /\ js[r].upstream = 0
    /\ js[r].status # "PENDING"
    /\ \A j \in DOMAIN js : j > b =>
          /\ Since(r, b, js[j].upstream)
          /\ ParIn(f, js[j].node) # 0 \/ js[j].status = "FAILED"

WaitSince(st, r, b) == \A x \in DOMAIN st : st[x].fn # "exec" => Since(r, b, st[x].job)

\* A parallel node waits whose job leads to no job of the parallel node around.
AdriftIn(f, js, st) ==
    \E x \in DOMAIN st : st[x].fn = "parallel" /\ UpIn(js, st[x].job, ParIn(f, st[x].node)) = 0

Adrift(f, js, c, st) ==
    \/ c.op \in {"run", "end"} /\ UpIn(js, c.job, ParIn(f, c.node)) = 0
    \/ c.op = "recall" /\ UpIn(js, c.job, ParIn(f, js[c.job].node)) = 0
    \/ AdriftIn(f, js, st)

\* What the processor does comes from the job r, and the execution is to fail.
DoomedBy(f, js, e, c, st, r, b) ==
    /\ Orphan(f, js, r, b)
    /\ \/ Since(r, b, c.job)
       \/ c.op \in {"return", "idle"} /\ c.job = 0
    /\ WaitSince(st, r, b)
    /\ c.op = "run" => ParIn(f, c.node) # 0
    /\ e \in {"STARTED", "FAILED"}
    /\ e = "STARTED" => Adrift(f, js, c, st)

\* Up the jobs from one that came since, the jobs came since.
LEMMA SinceUp ==
    ASSUME NEW f, NEW js, NEW r, NEW b, Chained(js), Orphan(f, js, r, b),
           NEW j \in DOMAIN js, Since(r, b, j), NEW n, UpIn(js, j, n) # 0
    PROVE  Since(r, b, UpIn(js, j, n))
<1> DEFINE S == {z \in DOMAIN js : /\ Since(r, b, z)
                                   /\ UpIn(js, z, n) # 0
                                   /\ ~ Since(r, b, UpIn(js, z, n))}
<1>1. Rooted(js) /\ 0 \notin DOMAIN js /\ \A k \in DOMAIN js : js[k].upstream \in DOMAIN js \cup {0}
  BY JobsRooted DEF Rooted
<1>2. UpIn(js, 0, n) = 0
      /\ \A z \in DOMAIN js : /\ js[z].node = n => UpIn(js, z, n) = z
                              /\ js[z].node # n => UpIn(js, z, n) = UpIn(js, js[z].upstream, n)
  BY UpStep
<1>3. \A z \in S : js[z].upstream \in S
  <2> TAKE z \in S
  <2>1. js[z].node # n /\ UpIn(js, z, n) = UpIn(js, js[z].upstream, n)
    BY <1>2
  <2>2. js[z].upstream # 0
    BY <1>2, <2>1
  <2>3. Since(r, b, js[z].upstream)
    BY <2>2 DEF Orphan, Since
  <2> QED
    BY <1>1, <2>1, <2>2, <2>3
<1>4. S = {}
  <2>1. S \in SUBSET DOMAIN js
    OBVIOUS
  <2> HIDE DEF S
  <2> QED
    BY <1>1, <1>3, <2>1, UpInduction
<1> QED
  BY <1>4

\* A job that is added comes since, when the one before it does.
LEMMA SinceGrown ==
    ASSUME NEW f, NEW js, NEW ks, NEW n \in DOMAIN f, NEW s, NEW u \in DOMAIN js \cup {0}, NEW r, NEW b,
           Grown(js, ks, n, s, u), Orphan(f, js, r, b), Since(r, b, u),
           ParIn(f, n) # 0 \/ s = "FAILED"
    PROVE  Orphan(f, ks, r, b) /\ Since(r, b, Len(js) + 1)
<1> DEFINE new == Len(js) + 1
<1>1. UpsOfGrown(js, ks, n, u)
  BY GrownUp
<1>2. /\ DOMAIN ks = DOMAIN js \cup {new} /\ new \notin DOMAIN js
      /\ \A j \in DOMAIN js : ks[j] = js[j]
      /\ ks[new].node = n /\ ks[new].status = s /\ ks[new].upstream = u
      /\ Len(js) \in Nat /\ Len(ks) = Len(js) + 1
  BY <1>1 DEF UpsOfGrown, Grown, SameUps, Chained
<1>3. new > b /\ b <= Len(ks) /\ b \in Nat
  BY <1>2 DEF Orphan
<1> HIDE DEF new
<1>4. Orphan(f, ks, r, b)
  BY <1>2, <1>3 DEF Orphan
<1>5. Since(r, b, new)
  BY <1>3 DEF Since
<1> QED
  BY <1>4, <1>5 DEF new

\* A job that is updated is none of those that matter.
LEMMA SinceChanged ==
    ASSUME NEW f, NEW js, NEW ks, NEW p \in DOMAIN js, NEW r, NEW b,
           Changed(js, ks, p), Orphan(f, js, r, b), js[p].status = "PENDING"
    PROVE  Orphan(f, ks, r, b)
<1>1. /\ DOMAIN ks = DOMAIN js /\ Len(js) = Len(ks)
      /\ \A j \in DOMAIN js : ks[j].node = js[j].node /\ ks[j].upstream = js[j].upstream
      /\ \A j \in DOMAIN js : j # p => ks[j] = js[j]
  <2>1. /\ DOMAIN ks = DOMAIN js /\ Chained(js) /\ Chained(ks)
        /\ \A j \in DOMAIN js : ks[j].node = js[j].node /\ ks[j].upstream = js[j].upstream
        /\ \A j \in DOMAIN js : j # p => ks[j] = js[j]
    BY DEF Changed, SameUps
  <2>2. Len(js) = Len(ks)
    <3>1. Len(js) \in Nat /\ Len(ks) \in Nat /\ 1..Len(js) = 1..Len(ks)
      BY <2>1 DEF Chained
    <3> QED
      BY <3>1
  <2> QED
    BY <2>1, <2>2
<1>2. p # r
  BY DEF Orphan
<1>3. \A j \in DOMAIN ks : j > b =>
          /\ Since(r, b, ks[j].upstream)
          /\ ParIn(f, ks[j].node) # 0 \/ ks[j].status = "FAILED"
  <2> TAKE j \in DOMAIN ks
  <2>1. CASE j = p
    BY <1>1, <2>1 DEF Orphan
  <2>2. CASE j # p
    BY <1>1, <2>2 DEF Orphan
  <2> QED
    BY <2>1, <2>2
<1> QED
  BY <1>1, <1>2, <1>3 DEF Orphan

\* A call on top changes nothing below.
LEMMA AdriftPush ==
    ASSUME NEW f, NEW js, NEW S, NEW st \in Seq(S), NEW a, NEW r, NEW b,
           WaitSince(st, r, b), a.fn # "exec" => Since(r, b, a.job)
    PROVE  /\ WaitSince(<<a>> \o st, r, b)
           /\ AdriftIn(f, js, st) => AdriftIn(f, js, <<a>> \o st)
           /\ (a.fn = "parallel" /\ UpIn(js, a.job, ParIn(f, a.node)) = 0) => AdriftIn(f, js, <<a>> \o st)
<1> DEFINE q == <<a>> \o st
<1>1. /\ DOMAIN st = 1..Len(st) /\ Len(st) \in Nat
      /\ DOMAIN q = 1..(Len(st) + 1) /\ q[1] = a
      /\ \A i \in 1..Len(st) : q[i + 1] = st[i]
  BY PushIs
<1>2. \A x \in DOMAIN q : x = 1 \/ (x - 1 \in DOMAIN st /\ q[x] = st[x - 1])
  <2> TAKE x \in DOMAIN q
  <2> HIDE DEF q
  <2>1. x # 1 => x - 1 \in 1..Len(st) /\ (x - 1) + 1 = x
    BY <1>1
  <2> QED
    BY <1>1, <2>1
<1> HIDE DEF q
<1>3. WaitSince(q, r, b)
  BY <1>1, <1>2 DEF WaitSince
<1>4. \A x \in DOMAIN st : x + 1 \in DOMAIN q /\ q[x + 1] = st[x]
  BY <1>1
<1>5. 1 \in DOMAIN q
  BY <1>1
<1> QED
  BY <1>1, <1>3, <1>4, <1>5 DEF AdriftIn, q

\* When the first call goes on, it or one of the others is adrift.
LEMMA AdriftPop ==
    ASSUME NEW f, NEW js, NEW S, NEW st \in Seq(S), st # <<>>, NEW r, NEW b, WaitSince(st, r, b)
    PROVE  /\ WaitSince(Tail(st), r, b)
           /\ st[1].fn # "exec" => Since(r, b, st[1].job)
           /\ AdriftIn(f, js, st) =>
                 \/ AdriftIn(f, js, Tail(st))
                 \/ st[1].fn = "parallel" /\ UpIn(js, st[1].job, ParIn(f, st[1].node)) = 0
<1> DEFINE q == Tail(st)
<1>1. /\ DOMAIN st = 1..Len(st) /\ Len(st) \in Nat \ {0}
      /\ DOMAIN q = 1..(Len(st) - 1)
      /\ \A i \in 1..(Len(st) - 1) : q[i] = st[i + 1]
  BY PopIs
<1>2. 1 \in DOMAIN st /\ \A x \in DOMAIN q : x + 1 \in DOMAIN st /\ q[x] = st[x + 1]
  BY <1>1
<1> HIDE DEF q
<1>3. \A x \in DOMAIN st : x # 1 => x - 1 \in DOMAIN q /\ q[x - 1] = st[x]
  <2> TAKE x \in DOMAIN st
  <2>1. x # 1 => x - 1 \in 1..(Len(st) - 1) /\ (x - 1) + 1 = x
    BY <1>1
  <2> QED
    BY <1>1, <2>1
<1>4. WaitSince(q, r, b)
  BY <1>2 DEF WaitSince
<1> QED
  BY <1>2, <1>3, <1>4 DEF WaitSince, AdriftIn, q

\* What is adrift stays so when jobs are added or updated.
LEMMA AdriftStays ==
    ASSUME NEW f, NEW js, NEW ks, NEW c, NEW st, Typed(f, js, c, st), SameUps(js, ks), AdriftIn(f, js, st)
    PROVE  AdriftIn(f, ks, st)
<1>1. PICK x \in DOMAIN st : st[x].fn = "parallel" /\ UpIn(js, st[x].job, ParIn(f, st[x].node)) = 0
  BY DEF AdriftIn
<1>2. st[x].job \in DOMAIN js
  BY <1>1, TypedIs
<1>3. UpIn(ks, st[x].job, ParIn(f, st[x].node)) = UpIn(js, st[x].job, ParIn(f, st[x].node))
  BY <1>2, UpsStay
<1> QED
  BY <1>1, <1>3 DEF AdriftIn

\* The execution is still to fail when a call goes on at its place,
LEMMA MovesDoomed ==
    ASSUME NEW f, NEW ks, NEW g, NEW d, NEW q, NEW S, NEW st \in Seq(S), NEW n, NEW k, NEW r, NEW b,
           MovesTo(f, n, k, st, d, q), Orphan(f, ks, r, b), Since(r, b, k), WaitSince(st, r, b),
           d.op = "run" => ParIn(f, n) # 0, g \in {"STARTED", "FAILED"},
           g = "STARTED" => (UpIn(ks, k, ParIn(f, n)) = 0 \/ AdriftIn(f, ks, st))
    PROVE  DoomedBy(f, ks, g, d, q, r, b)
<1>1. d.op \in {"run", "end"} /\ d.job = k /\ ParIn(f, d.node) = ParIn(f, n)
  BY DEF MovesTo, ParIn
<1>2. WaitSince(q, r, b) /\ (AdriftIn(f, ks, st) => AdriftIn(f, ks, q))
  <2>1. ASSUME NEW m, q = <<Frame("exec", n, m, 0)>> \o st
        PROVE  WaitSince(q, r, b) /\ (AdriftIn(f, ks, st) => AdriftIn(f, ks, q))
    <3> DEFINE a == Frame("exec", n, m, 0)
    <3>1. a.fn = "exec"
      BY DEF Frame
    <3> HIDE DEF a
    <3>2. q = <<a>> \o st
      BY <2>1 DEF a
    <3> QED
      BY <3>1, <3>2, AdriftPush
  <2> QED
    BY <2>1 DEF MovesTo
<1> QED
  BY <1>1, <1>2 DEF DoomedBy, Adrift

\* when a branch starts,
LEMMA EntersDoomed ==
    ASSUME NEW f, NEW ks, NEW g, NEW d, NEW q, NEW S, NEW st \in Seq(S), NEW n \in DOMAIN f, NEW p, NEW k,
           NEW r, NEW b, 0 \notin DOMAIN f, BranchesOK(f),
           Enters(f, n, p, k, st, d, q), Orphan(f, ks, r, b), Since(r, b, p), WaitSince(st, r, b),
           g \in {"STARTED", "FAILED"},
           g = "STARTED" => (UpIn(ks, p, ParIn(f, n)) = 0 \/ AdriftIn(f, ks, st))
    PROVE  DoomedBy(f, ks, g, d, q, r, b)
<1> DEFINE s == BranchesIn(f, n)[k]
           a == Frame("parallel", n, p, k)
<1>1. f[n].type = "parallel" /\ k \in DOMAIN BranchesIn(f, n)
      /\ d = Call("run", s, p) /\ q = <<a>> \o st
  BY DEF Enters
<1>2. ParIn(f, s) = n
  BY <1>1 DEF BranchesOK
<1> HIDE DEF s
<1>3. a.fn = "parallel" /\ a.node = n /\ a.job = p
  BY DEF Frame
<1> HIDE DEF a
<1>4. d.op = "run" /\ d.node = s /\ d.job = p
  BY <1>1 DEF Call
<1>5. /\ WaitSince(q, r, b)
      /\ AdriftIn(f, ks, st) => AdriftIn(f, ks, q)
      /\ (a.fn = "parallel" /\ UpIn(ks, a.job, ParIn(f, a.node)) = 0) => AdriftIn(f, ks, q)
  BY <1>1, <1>3, AdriftPush
<1> QED
  BY <1>2, <1>3, <1>4, <1>5 DEF DoomedBy, Adrift

\* What a call finds: the job it is made with is one of those that came since.
LEMMA DoomedJob ==
    ASSUME NEW f, NEW js, NEW e, NEW c, NEW st, NEW r, NEW b,
           Typed(f, js, c, st), DoomedBy(f, js, e, c, st, r, b),
           c.op \notin {"return", "idle"} \/ c.job # 0
    PROVE  /\ c.job \in DOMAIN js /\ Since(r, b, c.job)
           /\ js[c.job].status = "PENDING" => c.job # r
           /\ js[c.job].status # "FAILED" => ParIn(f, js[c.job].node) # 0
<1>1. Since(r, b, c.job) /\ Orphan(f, js, r, b)
  BY DEF DoomedBy
<1>2. c.job \in DOMAIN js \cup {0} /\ 0 \notin DOMAIN js
  BY TypedIs
<1>3. c.job # 0
  BY <1>1, <1>2 DEF Since, Orphan
<1> QED
  BY <1>1, <1>2, <1>3 DEF Since, Orphan

\* when a job is added,
LEMMA GrowsDoomed ==
    ASSUME NEW f, NEW js, NEW e, NEW c, NEW st, NEW ks, NEW d, NEW q, NEW r, NEW b,
           Typed(f, js, c, st), PlacedIn(f, js, e, c, st), DoomedBy(f, js, e, c, st, r, b),
           Executes(f, js, c, st, ks, d, q) \/ Forks(f, js, c, st, ks, d, q)
    PROVE  DoomedBy(f, ks, e, d, q, r, b) \/ Requested(f, ks)
<1> DEFINE n == c.node
           new == Len(js) + 1
           u == IF f[n].type = "request" THEN 0 ELSE c.job
<1>1. /\ c.op = "run" /\ n \in DOMAIN f /\ WellFormed(f) /\ BranchesOK(f) /\ 0 \notin DOMAIN f
      /\ st \in Seq(Frames(Len(f), Len(js)))
  BY TypedIs DEF Typed, Executes, Forks
<1>2. /\ ParIn(f, n) # 0 /\ Orphan(f, js, r, b) /\ WaitSince(st, r, b) /\ e \in {"STARTED", "FAILED"}
      /\ e = "STARTED" => (UpIn(js, c.job, ParIn(f, n)) = 0 \/ AdriftIn(f, js, st))
  BY <1>1 DEF DoomedBy, Adrift
<1>3. c.job \in DOMAIN js /\ Since(r, b, c.job)
  BY <1>1, DoomedJob
<1>4. CASE Executes(f, js, c, st, ks, d, q) /\ f[n].type = "request"
  <2>1. PICK s \in Status : Grown(js, ks, n, s, 0) /\ s = "PENDING"
    BY <1>4 DEF Executes, Asynchronous
  <2>2. new \in DOMAIN ks /\ ks[new].status = "PENDING" /\ ks[new].node = n
    <3>1. Len(js) \in Nat
      BY TypedIs
    <3> QED
      BY <2>1, <3>1 DEF Grown
  <2> QED
    BY <1>2, <1>4, <2>2 DEF Requested
<1>5. ASSUME NEW s, Grown(js, ks, n, s, c.job)
      PROVE  /\ Orphan(f, ks, r, b) /\ Since(r, b, new)
             /\ e = "STARTED" => (UpIn(ks, new, ParIn(f, n)) = 0 \/ AdriftIn(f, ks, st))
  <2>1. Orphan(f, ks, r, b) /\ Since(r, b, new)
    BY <1>1, <1>2, <1>3, <1>5, SinceGrown
  <2>2. UpIn(ks, new, ParIn(f, n)) = UpIn(js, c.job, ParIn(f, n))
    <3>1. UpsOfGrown(js, ks, n, c.job)
      BY <1>3, <1>5, GrownUp
    <3>2. ParIn(f, n) # n
      BY <1>1, ParIsOther
    <3> QED
      BY <3>1, <3>2 DEF UpsOfGrown
  <2>3. AdriftIn(f, js, st) => AdriftIn(f, ks, st)
    BY <1>5, AdriftStays DEF Grown
  <2> QED
    BY <1>2, <2>1, <2>2, <2>3
<1>6. CASE Executes(f, js, c, st, ks, d, q) /\ f[n].type # "request"
  <2>1. PICK s \in Status : Grown(js, ks, n, s, c.job) /\ MovesTo(f, n, new, st, d, q)
    BY <1>6 DEF Executes
  <2>2. /\ Orphan(f, ks, r, b) /\ Since(r, b, new)
        /\ e = "STARTED" => (UpIn(ks, new, ParIn(f, n)) = 0 \/ AdriftIn(f, ks, st))
    BY <1>5, <2>1
  <2> HIDE DEF new
  <2> QED
    BY <1>1, <1>2, <2>1, <2>2, MovesDoomed
<1>7. CASE Forks(f, js, c, st, ks, d, q)
  <2>1. PICK m : Enters(f, n, new, 1, <<Frame("exec", n, m, 0)>> \o st, d, q)
    BY <1>7 DEF Forks
  <2>2. /\ Orphan(f, ks, r, b) /\ Since(r, b, new)
        /\ e = "STARTED" => (UpIn(ks, new, ParIn(f, n)) = 0 \/ AdriftIn(f, ks, st))
    BY <1>5, <1>7 DEF Forks
  <2> DEFINE a == Frame("exec", n, m, 0)
             t == <<a>> \o st
  <2>3. a.fn = "exec"
    BY DEF Frame
  <2> HIDE DEF a
  <2>4. WaitSince(t, r, b) /\ (AdriftIn(f, ks, st) => AdriftIn(f, ks, t))
    BY <1>1, <1>2, <2>3, AdriftPush
  <2>5. t \in Seq(Frames(Len(f), Len(js)) \cup {a})
    BY <1>1
  <2> HIDE DEF t, new
  <2>6. Enters(f, n, new, 1, t, d, q)
    BY <2>1 DEF t, a
  <2> QED
    BY <1>1, <1>2, <2>2, <2>4, <2>5, <2>6, EntersDoomed
<1> QED
  BY <1>4, <1>6, <1>7

\* when a job that waited resumes,
LEMMA RecallsDoomed ==
    ASSUME NEW f, NEW js, NEW e, NEW c, NEW st, NEW ks, NEW d, NEW q, NEW r, NEW b,
           Typed(f, js, c, st), PlacedIn(f, js, e, c, st), DoomedBy(f, js, e, c, st, r, b),
           Recalls(f, js, c, st, ks, d, q)
    PROVE  DoomedBy(f, ks, e, d, q, r, b)
<1> DEFINE n == c.node
           j == c.job
<1>1. /\ c.op = "recall" /\ f[n].type \in Asynchronous /\ n \in DOMAIN f /\ j \in DOMAIN js
      /\ Changed(js, ks, j) /\ MovesTo(f, n, j, st, d, q)
  BY TypedIs DEF Recalls
<1>2. st = <<>> /\ js[j].node = n /\ js[j].status = "PENDING"
  BY <1>1 DEF PlacedIn, Disciplined
<1>3. Orphan(f, js, r, b) /\ Since(r, b, j) /\ WaitSince(st, r, b) /\ e \in {"STARTED", "FAILED"}
      /\ ParIn(f, n) # 0
  BY <1>1, <1>2, DoomedJob DEF DoomedBy
<1>4. e = "STARTED" => UpIn(js, j, ParIn(f, n)) = 0
  BY <1>1, <1>2 DEF DoomedBy, Adrift, AdriftIn
<1>5. UpIn(ks, j, ParIn(f, n)) = UpIn(js, j, ParIn(f, n))
  BY <1>1, UpsStay DEF Changed
<1>6. Orphan(f, ks, r, b)
  BY <1>1, <1>2, <1>3, SinceChanged
<1>7. st \in Seq(Frames(Len(f), Len(js)))
  BY DEF Typed
<1> QED
  BY <1>1, <1>3, <1>4, <1>5, <1>6, <1>7, MovesDoomed

\* when resume() of a parallel node throws,
LEMMA ThrowsDoomed ==
    ASSUME NEW f, NEW js, NEW e, NEW c, NEW st, NEW ks, NEW d, NEW q, NEW r, NEW b,
           Typed(f, js, c, st), PlacedIn(f, js, e, c, st), DoomedBy(f, js, e, c, st, r, b),
           Throws(f, js, c, st, ks, d, q)
    PROVE  DoomedBy(f, ks, e, d, q, r, b)
<1> DEFINE n == c.node
           j == c.job
           new == Len(js) + 1
           m == ParIn(f, n)
<1>1. /\ c.op = "recall" /\ f[n].type = "parallel" /\ n \in DOMAIN f /\ j \in DOMAIN js
      /\ WellFormed(f) /\ Chained(js) /\ 0 \notin DOMAIN f
      /\ Grown(js, ks, n, "FAILED", j) /\ MovesTo(f, n, new, st, d, q) /\ d.op = "end"
      /\ UpIn(js, j, n) = 0 /\ st \in Seq(Frames(Len(f), Len(js)))
  BY TypedIs DEF Typed, Throws
<1>2. n = ParIn(f, js[j].node)
  BY <1>1 DEF PlacedIn, AtPlace
<1>3. Orphan(f, js, r, b) /\ Since(r, b, j) /\ WaitSince(st, r, b) /\ e \in {"STARTED", "FAILED"}
  BY <1>1, DoomedJob DEF DoomedBy
<1>4. Orphan(f, ks, r, b) /\ Since(r, b, new)
  BY <1>1, <1>3, SinceGrown
<1>5. UpIn(js, j, m) = 0
  <2>1. CASE m = 0
    <3>1. \A i \in DOMAIN js : js[i].node # 0
      BY <1>1, TypedIs
    <3> QED
      BY <1>1, <2>1, <3>1, UpIsJob
  <2>2. CASE m # 0
    <3>1. m \in DOMAIN f
      BY <1>1, <2>2, ParIs
    <3> HIDE DEF m
    <3>2. Within(f, m, m)
      BY <1>1, <3>1, WithinStep
    <3>3. Within(f, n, m)
      BY <1>1, <3>1, <3>2, WithinStep DEF m
    <3> QED
      BY <1>1, <1>2, <3>1, <3>3 DEF PlacedIn, LostIn
  <2> QED
    BY <2>1, <2>2
<1>6. UpIn(ks, new, m) = 0
  <2>1. UpsOfGrown(js, ks, n, j)
    BY <1>1, GrownUp
  <2>2. m # n
    BY <1>1, ParIsOther
  <2> QED
    BY <1>5, <2>1, <2>2 DEF UpsOfGrown
<1> HIDE DEF new
<1> QED
  BY <1>1, <1>3, <1>4, <1>6, MovesDoomed

\* and when it counts a branch.
LEMMA CountsDoomed ==
    ASSUME NEW f, NEW js, NEW e, NEW c, NEW st, NEW ks, NEW d, NEW q, NEW r, NEW b,
           Typed(f, js, c, st), PlacedIn(f, js, e, c, st), DoomedBy(f, js, e, c, st, r, b),
           Counts(f, js, c, st, ks, d, q)
    PROVE  DoomedBy(f, ks, e, d, q, r, b)
<1> DEFINE n == c.node
           j == c.job
           p == UpIn(js, j, n)
<1>1. /\ c.op = "recall" /\ f[n].type = "parallel" /\ n \in DOMAIN f /\ j \in DOMAIN js
      /\ Chained(js) /\ Changed(js, ks, p) /\ MovesTo(f, n, p, st, d, q)
      /\ p # 0 /\ js[p].status = "PENDING" /\ st \in Seq(Frames(Len(f), Len(js)))
  BY TypedIs DEF Typed, Counts
<1>2. p \in DOMAIN js /\ js[p].node = n
  BY <1>1, UpIsJob
<1>3. n = ParIn(f, js[j].node)
  BY <1>1 DEF PlacedIn, AtPlace
<1>4. Orphan(f, js, r, b) /\ Since(r, b, j) /\ WaitSince(st, r, b) /\ e \in {"STARTED", "FAILED"}
  BY <1>1, DoomedJob DEF DoomedBy
<1>5. Since(r, b, p)
  BY <1>1, <1>4, SinceUp
<1>6. e = "STARTED" => AdriftIn(f, ks, st)
  <2>1. e = "STARTED" => AdriftIn(f, js, st)
    BY <1>1, <1>3 DEF DoomedBy, Adrift
  <2> QED
    BY <1>1, <2>1, AdriftStays DEF Changed
<1> HIDE DEF p
<1>7. Orphan(f, ks, r, b)
  BY <1>1, <1>2, <1>4, SinceChanged
<1>8. ParIn(f, n) # 0
  BY <1>1, <1>2, <1>4, <1>5 DEF Orphan, Since
<1> QED
  BY <1>1, <1>4, <1>5, <1>6, <1>7, <1>8, MovesDoomed

\* The steps that leave the jobs as they are.
LEMMA OthersDoomed ==
    ASSUME NEW f, NEW js, NEW e, NEW c, NEW st, NEW ks, NEW g, NEW d, NEW q, NEW r, NEW b,
           Typed(f, js, c, st), PlacedIn(f, js, e, c, st), DoomedBy(f, js, e, c, st, r, b),
           \/ Begins(f, js, e, c, st, ks, g, d, q)
           \/ Exits(f, js, c, st, ks, g, d, q)
           \/ /\ g = e
              /\ \/ PassesOn(f, js, c, st, ks, d, q) \/ Ignores(f, js, c, st, ks, d, q)
                 \/ ClimbsUp(f, js, c, st, ks, d, q)
                 \/ Skips(f, js, c, st, ks, d, q) \/ Follows(f, js, c, st, ks, d, q)
                 \/ Yields(f, js, c, st, ks, d, q) \/ StartsNext(f, js, c, st, ks, d, q)
                 \/ Joins(f, js, c, st, ks, d, q) \/ Stops(f, js, c, st, ks, d, q)
                 \/ Awakes(f, js, e, c, st, ks, d, q)
    PROVE  DoomedBy(f, ks, g, d, q, r, b)
<1> DEFINE n == c.node
           j == c.job
<1>1. ks = js
  BY DEF PassesOn, Ignores, ClimbsUp, Exits, Skips, Follows, Yields, StartsNext, Joins, Stops, Begins, Awakes
<1>2. /\ WellFormed(f) /\ BranchesOK(f) /\ Chained(js) /\ 0 \notin DOMAIN f /\ 0 \notin DOMAIN js
      /\ st \in Seq(Frames(Len(f), Len(js)))
      /\ Disciplined(f, js, e, c, st) /\ AtPlace(f, js, c) /\ WaitingIn(f, js, st) /\ AtTop(f, js, c, st)
      /\ Orphan(f, js, r, b) /\ WaitSince(st, r, b) /\ e \in {"STARTED", "FAILED"}
      /\ e = "STARTED" => Adrift(f, js, c, st)
  BY TypedIs DEF Typed, PlacedIn, DoomedBy
<1>3. c.op \in {"run", "recall", "end"} => c.node \in DOMAIN f
  BY TypedIs
<1>4. ASSUME st # <<>>
      PROVE  /\ Tail(st) \in Seq(Frames(Len(f), Len(js))) /\ WaitSince(Tail(st), r, b)
             /\ st[1].fn # "exec" => Since(r, b, st[1].job)
             /\ AdriftIn(f, js, st) =>
                   \/ AdriftIn(f, js, Tail(st))
                   \/ st[1].fn = "parallel" /\ UpIn(js, st[1].job, ParIn(f, st[1].node)) = 0
             /\ st[1].fn # "end" => st[1].node \in DOMAIN f
             /\ st[1].fn # "exec" => st[1].job \in DOMAIN js
  <2>1. Tail(st) \in Seq(Frames(Len(f), Len(js)))
    BY <1>2, <1>4
  <2>2. /\ WaitSince(Tail(st), r, b) /\ (st[1].fn # "exec" => Since(r, b, st[1].job))
        /\ AdriftIn(f, js, st) =>
              \/ AdriftIn(f, js, Tail(st))
              \/ st[1].fn = "parallel" /\ UpIn(js, st[1].job, ParIn(f, st[1].node)) = 0
    BY <1>2, <1>4, AdriftPop
  <2>3. 1 \in DOMAIN st
    BY <1>2, <1>4
  <2>4. /\ st[1].fn # "end" => st[1].node \in DOMAIN f
        /\ st[1].fn # "exec" => st[1].job \in DOMAIN js
    BY <2>3, TypedIs
  <2> QED
    BY <2>1, <2>2, <2>4
<1>5. CASE g = e /\ PassesOn(f, js, c, st, ks, d, q)
  <2>1. /\ c.op = "recall" /\ f[n].type = "condition" /\ MovesTo(f, n, j, st, d, q) /\ n \in DOMAIN f
        /\ d.op = "run" => js[j].status = "RESOLVED"
    BY <1>3, <1>5 DEF PassesOn
  <2>2. ParIn(f, js[j].node) = ParIn(f, n)
    BY <2>1 DEF PlacedIn, AtPlace, ParIn
  <2>3. Since(r, b, j) /\ (js[j].status # "FAILED" => ParIn(f, js[j].node) # 0)
    BY <2>1, DoomedJob
  <2>4. e = "STARTED" => (UpIn(js, j, ParIn(f, n)) = 0 \/ AdriftIn(f, js, st))
    BY <1>2, <2>1, <2>2 DEF Adrift
  <2> QED
    BY <1>1, <1>2, <1>5, <2>1, <2>2, <2>3, <2>4, MovesDoomed
<1>6. CASE g = e /\ Ignores(f, js, c, st, ks, d, q)
  <2>1. c.op = "recall" /\ f[n].type = "parallel" /\ UpIn(js, j, n) # 0 /\ d = Return(0) /\ q = st
    BY <1>6 DEF Ignores
  <2>2. n = ParIn(f, js[j].node)
    BY <2>1 DEF PlacedIn, AtPlace
  <2>3. d.op = "return" /\ d.job = 0
    BY <2>1 DEF Return, Call
  <2>4. e = "STARTED" => AdriftIn(f, js, st)
    BY <1>2, <2>1, <2>2 DEF Adrift
  <2> QED
    BY <1>1, <1>2, <1>6, <2>1, <2>3, <2>4 DEF DoomedBy, Adrift
<1>7. CASE g = e /\ ClimbsUp(f, js, c, st, ks, d, q)
  <2> DEFINE h == HomeIn(f, n)
             a == Frame("end", 0, j, 0)
  <2>1. c.op = "end" /\ d = Call("recall", h, j) /\ q = <<a>> \o st
    BY <1>7 DEF ClimbsUp
  <2>2. a.fn = "end" /\ a.job = j /\ d.op = "recall" /\ d.job = j
    BY <2>1 DEF Frame, Call
  <2> HIDE DEF a, h
  <2>3. ParIn(f, js[j].node) = ParIn(f, n)
    BY <2>1 DEF PlacedIn, AtPlace, ParIn
  <2>4. Since(r, b, j)
    BY <2>1, DoomedJob
  <2>5. WaitSince(q, r, b) /\ (AdriftIn(f, js, st) => AdriftIn(f, js, q))
    BY <1>2, <2>1, <2>2, <2>4, AdriftPush
  <2>6. e = "STARTED" => Adrift(f, js, d, q)
    BY <1>2, <2>1, <2>2, <2>3, <2>5 DEF Adrift
  <2> QED
    BY <1>1, <1>2, <1>7, <2>2, <2>4, <2>5, <2>6 DEF DoomedBy
<1>8. CASE Exits(f, js, c, st, ks, g, d, q)
  <2>1. /\ c.op = "end" /\ HomeIn(f, n) = 0 /\ g = StatusMap(js[j].status) /\ d = Return(0) /\ q = st
        /\ n \in DOMAIN f
    BY <1>3, <1>8 DEF Exits
  <2>2. ParIn(f, js[j].node) = 0
    <3>1. PlaceIn(f, n) = 0
      BY <1>2, <2>1, HomePlace
    <3> QED
      BY <2>1, <3>1 DEF PlacedIn, AtPlace, ParIn
  <2>3. js[j].status = "FAILED"
    BY <2>1, <2>2, DoomedJob
  <2>4. g = "FAILED" /\ d.op = "return" /\ d.job = 0
    BY <2>1, <2>3 DEF StatusMap, Return, Call
  <2> QED
    BY <1>1, <1>2, <2>1, <2>4 DEF DoomedBy
<1>9. CASE g = e /\ Skips(f, js, c, st, ks, d, q)
  <2>1. c.op = "return" /\ st # <<>> /\ st[1].fn = "exec" /\ d = Return(0) /\ q = Tail(st)
    BY <1>9 DEF Skips
  <2>2. d.op = "return" /\ d.job = 0
    BY <2>1 DEF Return, Call
  <2>3. e = "STARTED" => AdriftIn(f, js, q)
    BY <1>2, <1>4, <2>1 DEF Adrift
  <2> QED
    BY <1>1, <1>2, <1>4, <1>9, <2>1, <2>2, <2>3 DEF DoomedBy, Adrift
<1>10. CASE g = e /\ Follows(f, js, c, st, ks, d, q)
  <2> DEFINE m == st[1].node
             t == Tail(st)
  <2>1. /\ c.op = "return" /\ j # 0 /\ st # <<>> /\ st[1].fn = "exec" /\ MovesTo(f, m, j, t, d, q)
        /\ d.op = "run" => js[j].status = "RESOLVED"
    BY <1>10 DEF Follows
  <2>2. ParIn(f, js[j].node) = ParIn(f, m)
    BY <1>2, <2>1 DEF AtTop, ParIn
  <2>3. Since(r, b, j) /\ (js[j].status # "FAILED" => ParIn(f, js[j].node) # 0)
    BY <2>1, DoomedJob
  <2>4. e = "STARTED" => AdriftIn(f, js, t)
    BY <1>2, <1>4, <2>1 DEF Adrift
  <2>5. t \in Seq(Frames(Len(f), Len(js))) /\ WaitSince(t, r, b)
    BY <1>4, <2>1
  <2> HIDE DEF m, t
  <2> QED
    BY <1>1, <1>2, <1>10, <2>1, <2>2, <2>3, <2>4, <2>5, MovesDoomed
<1>11. CASE g = e /\ Yields(f, js, c, st, ks, d, q)
  <2>1. c.op = "return" /\ st # <<>> /\ st[1].fn = "end" /\ d = Return(st[1].job) /\ q = Tail(st)
    BY <1>11 DEF Yields
  <2>2. d.op = "return" /\ d.job = st[1].job /\ Since(r, b, st[1].job)
    BY <1>4, <2>1 DEF Return, Call
  <2>3. e = "STARTED" => AdriftIn(f, js, q)
    BY <1>2, <1>4, <2>1 DEF Adrift
  <2> QED
    BY <1>1, <1>2, <1>4, <1>11, <2>1, <2>2, <2>3 DEF DoomedBy, Adrift
<1>12. CASE g = e /\ StartsNext(f, js, c, st, ks, d, q)
  <2> DEFINE m == st[1].node
             p == st[1].job
             k == st[1].branch + 1
             t == Tail(st)
  <2>1. c.op = "return" /\ st # <<>> /\ st[1].fn = "parallel" /\ Enters(f, m, p, k, t, d, q)
    BY <1>12 DEF StartsNext
  <2>2. Since(r, b, p) /\ m \in DOMAIN f
    BY <1>4, <2>1
  <2>3. e = "STARTED" => (UpIn(js, p, ParIn(f, m)) = 0 \/ AdriftIn(f, js, t))
    BY <1>2, <1>4, <2>1 DEF Adrift
  <2>4. t \in Seq(Frames(Len(f), Len(js))) /\ WaitSince(t, r, b)
    BY <1>4, <2>1
  <2> HIDE DEF m, p, k, t
  <2> QED
    BY <1>1, <1>2, <1>12, <2>1, <2>2, <2>3, <2>4, EntersDoomed
<1>13. CASE g = e /\ Joins(f, js, c, st, ks, d, q)
  <2> DEFINE m == st[1].node
             p == st[1].job
             t == Tail(st)
  <2>1. c.op = "return" /\ st # <<>> /\ st[1].fn = "parallel" /\ MovesTo(f, m, p, t, d, q) /\ d.op = "end"
    BY <1>13 DEF Joins
  <2>2. Since(r, b, p)
    BY <1>4, <2>1
  <2>3. e = "STARTED" => (UpIn(js, p, ParIn(f, m)) = 0 \/ AdriftIn(f, js, t))
    BY <1>2, <1>4, <2>1 DEF Adrift
  <2>4. t \in Seq(Frames(Len(f), Len(js))) /\ WaitSince(t, r, b)
    BY <1>4, <2>1
  <2> HIDE DEF m, p, t
  <2> QED
    BY <1>1, <1>2, <1>13, <2>1, <2>2, <2>3, <2>4, MovesDoomed
<1>14. CASE g = e /\ Stops(f, js, c, st, ks, d, q)
  <2>1. c.op = "return" /\ st = <<>> /\ d.op = "idle" /\ d.job = 0 /\ q = st
    BY <1>14 DEF Stops, Idle, Call
  <2>2. e # "STARTED"
    BY <1>2, <2>1 DEF Adrift, AdriftIn
  <2> QED
    BY <1>1, <1>2, <1>14, <2>1, <2>2 DEF DoomedBy
<1>15. ~ Begins(f, js, e, c, st, ks, g, d, q)
  <2> SUFFICES ASSUME c.op = "start"
               PROVE  FALSE
    BY DEF Begins
  <2>1. c.job = 0
    BY <1>2 DEF Disciplined
  <2> QED
    BY <1>2, <2>1, DoomedJob
<1>16. ~ Awakes(f, js, e, c, st, ks, d, q)
  <2> SUFFICES ASSUME c = Idle, e = "STARTED"
               PROVE  FALSE
    BY DEF Awakes
  <2>1. c.op = "idle" /\ st = <<>>
    BY <1>2 DEF Disciplined, Idle, Call
  <2> QED
    BY <1>2, <2>1 DEF Adrift, AdriftIn
<1> QED
  BY <1>5, <1>6, <1>7, <1>8, <1>9, <1>10, <1>11, <1>12, <1>13, <1>14, <1>15, <1>16

\* Every step leaves the execution to fail.
LEMMA StepsDoomed ==
    ASSUME NEW f, NEW js, NEW e, NEW c, NEW st, NEW ks, NEW g, NEW d, NEW q, NEW r, NEW b,
           Typed(f, js, c, st), PlacedIn(f, js, e, c, st), DoomedBy(f, js, e, c, st, r, b),
           Steps(f, js, e, c, st, ks, g, d, q)
    PROVE  DoomedBy(f, ks, g, d, q, r, b) \/ Requested(f, ks)
  BY GrowsDoomed, RecallsDoomed, ThrowsDoomed, CountsDoomed, OthersDoomed DEF Steps

\* The request is resumed: its job leads to no job.
LEMMA RequestResumes ==
    ASSUME NEW f, NEW js, NEW e, NEW c, NEW st, NEW ks, NEW d, NEW q,
           Typed(f, js, c, st), PlacedIn(f, js, e, c, st), Recalls(f, js, c, st, ks, d, q),
           f[c.node].type = "request", ParIn(f, c.node) # 0
    PROVE  DoomedBy(f, ks, e, d, q, c.job, Len(js))
<1> DEFINE n == c.node
           r == c.job
<1>1. /\ c.op = "recall" /\ f[n].type \in Asynchronous /\ n \in DOMAIN f /\ r \in DOMAIN js
      /\ Chained(js) /\ DOMAIN js = 1..Len(js) /\ Len(js) \in Nat
      /\ Changed(js, ks, r) /\ ks[r].status # "PENDING" /\ MovesTo(f, n, r, st, d, q)
      /\ WellFormed(f) /\ st \in Seq(Frames(Len(f), Len(js)))
  BY TypedIs DEF Typed, Recalls
<1>2. st = <<>> /\ js[r].node = n /\ e = "STARTED" /\ js[r].upstream = 0
  BY <1>1 DEF PlacedIn, Disciplined, RequestsIn
<1>3. DOMAIN ks = DOMAIN js /\ ks[r].node = n /\ ks[r].upstream = 0 /\ SameUps(js, ks)
      /\ Chained(ks) /\ Len(ks) = Len(js)
  <2>1. DOMAIN ks = DOMAIN js /\ ks[r].node = n /\ ks[r].upstream = 0 /\ SameUps(js, ks) /\ Chained(ks)
    BY <1>1, <1>2 DEF Changed, SameUps
  <2>2. Len(ks) \in Nat /\ 1..Len(ks) = 1..Len(js)
    BY <1>1, <2>1 DEF Chained
  <2> QED
    BY <1>1, <2>1, <2>2
<1>4. Orphan(f, ks, r, Len(js))
  BY <1>1, <1>3 DEF Orphan
<1>5. UpIn(ks, r, ParIn(f, n)) = 0
  <2> DEFINE m == ParIn(f, n)
  <2>1. m # n
    BY <1>1, ParIsOther
  <2> HIDE DEF m
  <2>2. UpIn(ks, 0, m) = 0 /\ (ks[r].node # m => UpIn(ks, r, m) = UpIn(ks, ks[r].upstream, m))
    BY <1>1, <1>3, UpStep
  <2>3. UpIn(ks, r, m) = 0
    BY <1>3, <2>1, <2>2
  <2> QED
    BY <2>3 DEF m
<1>6. WaitSince(st, r, Len(js)) /\ Since(r, Len(js), r)
  BY <1>2 DEF WaitSince, Since
<1> QED
  BY <1>1, <1>2, <1>4, <1>5, <1>6, MovesDoomed

\* When the request answers, the execution is to fail.
LEMMA StepsRequested ==
    ASSUME NEW f, NEW js, NEW e, NEW c, NEW st, NEW ks, NEW g, NEW d, NEW q,
           Typed(f, js, c, st), PlacedIn(f, js, e, c, st), Requested(f, js),
           Steps(f, js, e, c, st, ks, g, d, q)
    PROVE  Requested(f, ks) \/ \E r, b : DoomedBy(f, ks, g, d, q, r, b)
<1>1. PICK r \in DOMAIN js : /\ js[r].status = "PENDING"
                             /\ f[js[r].node].type = "request"
                             /\ ParIn(f, js[r].node) # 0
  BY DEF Requested
<1>2. ASSUME r \in DOMAIN ks, ks[r] = js[r]
      PROVE  Requested(f, ks)
  BY <1>1, <1>2 DEF Requested
<1>3. ASSUME NEW n, NEW s, NEW u, Grown(js, ks, n, s, u)
      PROVE  Requested(f, ks)
  BY <1>1, <1>2, <1>3 DEF Grown, SameUps
<1>4. ASSUME NEW p, p # r, Changed(js, ks, p)
      PROVE  Requested(f, ks)
  BY <1>1, <1>2, <1>4 DEF Changed
<1>5. CASE Executes(f, js, c, st, ks, d, q)
  BY <1>3, <1>5 DEF Executes
<1>6. CASE Forks(f, js, c, st, ks, d, q)
  BY <1>3, <1>6 DEF Forks
<1>7. CASE Throws(f, js, c, st, ks, d, q)
  BY <1>3, <1>7 DEF Throws
<1>8. CASE Counts(f, js, c, st, ks, d, q)
  <2> DEFINE p == UpIn(js, c.job, c.node)
  <2>1. Changed(js, ks, p) /\ p # 0 /\ f[c.node].type = "parallel" /\ c.op = "recall"
    BY <1>8 DEF Counts
  <2>2. js[p].node = c.node
    BY <2>1, UpIsJob, TypedIs DEF Typed
  <2> HIDE DEF p
  <2> QED
    BY <1>1, <1>4, <2>1, <2>2
<1>9. CASE g = e /\ Recalls(f, js, c, st, ks, d, q)
  <2>1. c.op = "recall" /\ f[c.node].type \in Asynchronous /\ Changed(js, ks, c.job)
    BY <1>9 DEF Recalls
  <2>2. js[c.job].node = c.node
    BY <2>1 DEF PlacedIn, Disciplined
  <2>3. CASE c.job = r
    BY <1>1, <1>9, <2>2, <2>3, RequestResumes
  <2> QED
    BY <1>4, <2>1, <2>3
<1>10. CASE ks = js
  BY <1>1, <1>2, <1>10
<1> QED
  BY <1>5, <1>6, <1>7, <1>8, <1>9, <1>10 DEF Steps, Begins, Exits, PassesOn, Ignores, ClimbsUp, Skips,
     Follows, Yields, StartsNext, Joins, Stops, Awakes

-----------------------------------------------------------------------------
(* How the calls that wait stand over each other                            *)

\* A parallel job that waits for its branches.
Joining(f, js, z) == js[z].status = "PENDING" /\ f[js[z].node].type = "parallel"

\* The parallel node that waits at x is the next one below y, over exec()s only.
Open(st, y, x) ==
    /\ x \in DOMAIN st /\ y < x /\ st[x].fn = "parallel"
    /\ \A z \in DOMAIN st : y < z /\ z < x => st[z].fn = "exec"

\* What stands so over the parallel node of b is in the branch it waits for.
Sits(f, js, a, b, next) ==
    /\ a.fn # "end" => ParIn(f, a.node) = b.node
    /\ a.fn # "exec" => UpIn(js, a.job, b.node) = b.job
    /\ next => /\ a.fn # "parallel"
               /\ a.fn = "exec" => HomeIn(f, a.node) = b.node

Under(f, js, c, b, next) ==
    /\ c.op \in {"run", "end", "return"}
    /\ UpIn(js, c.job, b.node) = b.job
    /\ c.op # "return" => /\ ParIn(f, c.node) = b.node
                          /\ next => HomeIn(f, c.node) = b.node

\* Nothing that waits above the end of a scope with a parallel job that waits comes
\* from this job, except for the ends it climbs up.
Apart(f, js, st, k, ended) ==
    \A x \in DOMAIN st :
        (st[x].fn = "end" /\ Joining(f, js, st[x].job) /\ Leads(js, k, st[x].job)) =>
            (ended /\ k = st[x].job)

\* The status that comes back to the parallel node st[1] lets it go on.
Continues(f, js, st, k) ==
    (st # <<>> /\ st[1].fn = "parallel" /\ js[st[1].job].status = "PENDING") =>
        GoesOn(f[st[1].node].mode, js[k].status)

\* a can wait over st.
Over(f, js, a, st) ==
    /\ \A x \in DOMAIN st : Open(st, 0, x) => Sits(f, js, a, st[x], x = 1)
    /\ a.fn # "exec" => Apart(f, js, st, a.job, a.fn = "end")

StackIn(f, js, st, m) ==
    /\ \A x, y \in DOMAIN st : Open(st, y, x) => Sits(f, js, st[y], st[x], x = y + 1)
    /\ \A x, y \in DOMAIN st :
          (/\ y < x /\ st[x].fn = "end" /\ Joining(f, js, st[x].job)
           /\ st[y].fn # "exec" /\ Leads(js, st[y].job, st[x].job)) =>
              (st[y].fn = "end" /\ st[y].job = st[x].job)
    /\ \A x \in DOMAIN st :
          (/\ x > m /\ x # 1 /\ st[x].fn = "parallel" /\ js[st[x].job].status = "PENDING"
           /\ st[x - 1].fn = "end") =>
              GoesOn(f[st[x].node].mode, js[st[x - 1].job].status)

TopIn(f, js, c, st) ==
    /\ \A x \in DOMAIN st : Open(st, 0, x) => Under(f, js, c, st[x], x = 1)
    /\ Apart(f, js, st, c.job, c.op # "run")
    /\ c.op = "return" => Continues(f, js, st, c.job)
    /\ (c.op = "recall" /\ 2 \in DOMAIN st /\ st[2].fn = "parallel") => c.node = st[2].node

\* From an end() to the resume() of the node it calls, the parallel node above has
\* not counted yet.
Uncounted(c) == IF c.op = "recall" THEN 2 ELSE 1
Standing(f, js, c, st) == StackIn(f, js, st, Uncounted(c)) /\ TopIn(f, js, c, st)

\* How the calls stand when one is put on top of them.
LEMMA StackPush ==
    ASSUME NEW f, NEW js, NEW S, NEW st \in Seq(S), StackIn(f, js, st, 1), NEW a, Over(f, js, a, st),
           NEW m \in {1, 2}, (m = 1 /\ a.fn = "end") => Continues(f, js, st, a.job)
    PROVE  /\ StackIn(f, js, <<a>> \o st, m)
           /\ \A x \in DOMAIN (<<a>> \o st) : Open(<<a>> \o st, 0, x) =>
                 \/ x = 1 /\ a.fn = "parallel"
                 \/ /\ x # 1 /\ a.fn = "exec" /\ x - 1 \in DOMAIN st
                    /\ Open(st, 0, x - 1) /\ (<<a>> \o st)[x] = st[x - 1]
<1> DEFINE q == <<a>> \o st
<1>1. /\ DOMAIN st = 1..Len(st) /\ Len(st) \in Nat
      /\ DOMAIN q = 1..(Len(st) + 1) /\ q[1] = a
      /\ \A i \in 1..Len(st) : q[i + 1] = st[i]
  BY PushIs
<1>2. \A x \in DOMAIN q : x = 1 \/ (x # 1 /\ x - 1 \in DOMAIN st /\ q[x] = st[x - 1])
  <2> TAKE x \in DOMAIN q
  <2> HIDE DEF q
  <2>1. x # 1 => x - 1 \in 1..Len(st) /\ (x - 1) + 1 = x
    BY <1>1
  <2> QED
    BY <1>1, <2>1
<1>3. st # <<>> <=> 1 \in DOMAIN st
  OBVIOUS
<1>4. DOMAIN q \subseteq Nat \ {0} /\ DOMAIN st \subseteq Nat \ {0}
      /\ \A z \in DOMAIN st : z + 1 \in DOMAIN q /\ q[z + 1] = st[z]
  BY <1>1
<1> HIDE DEF q
<1>5. ASSUME NEW x \in DOMAIN q, NEW y \in Nat, Open(q, y, x), x # 1
      PROVE  /\ x - 1 \in DOMAIN st /\ q[x] = st[x - 1]
             /\ y # 0 => Open(st, y - 1, x - 1)
             /\ y = 0 => a.fn = "exec" /\ Open(st, 0, x - 1)
  <2>1. x - 1 \in DOMAIN st /\ q[x] = st[x - 1] /\ st[x - 1].fn = "parallel"
    BY <1>2, <1>5 DEF Open
  <2>2. ASSUME NEW w \in Nat, w = 0 \/ w = y - 1, y <= w + 1, w < x - 1
        PROVE  Open(st, w, x - 1)
    <3>1. ASSUME NEW z \in DOMAIN st, w < z, z < x - 1
          PROVE  st[z].fn = "exec"
      <4>1. z + 1 \in DOMAIN q /\ q[z + 1] = st[z] /\ y < z + 1 /\ z + 1 < x
        BY <1>4, <2>2, <3>1
      <4> QED
        BY <1>5, <4>1 DEF Open
    <3> QED
      BY <2>1, <2>2, <3>1 DEF Open
  <2>3. x \in Nat /\ x > 1 /\ y < x
    BY <1>4, <1>5 DEF Open
  <2>4. CASE y # 0
    <3>1. y - 1 \in Nat /\ y <= (y - 1) + 1 /\ y - 1 < x - 1
      BY <2>3, <2>4
    <3> QED
      BY <2>1, <2>2, <2>4, <3>1
  <2>5. CASE y = 0
    <3>1. Open(st, 0, x - 1)
      BY <2>2, <2>3, <2>5
    <3>2. 1 \in DOMAIN q
      BY <1>1
    <3>3. a.fn = "exec"
      BY <1>1, <1>5, <2>3, <2>5, <3>2 DEF Open
    <3> QED
      BY <2>1, <2>5, <3>1, <3>3
  <2> QED
    BY <2>4, <2>5
<1>6. ASSUME NEW x \in DOMAIN q, NEW y \in DOMAIN q, Open(q, y, x)
      PROVE  Sits(f, js, q[y], q[x], x = y + 1)
  <2>1. x # 1 /\ y \in Nat
    BY <1>4, <1>5, <1>6 DEF Open
  <2>2. CASE y = 1
    <3>1. x - 1 \in DOMAIN st /\ q[x] = st[x - 1] /\ Open(st, 0, x - 1)
      BY <1>5, <1>6, <2>1, <2>2
    <3>2. (x - 1 = 1) <=> (x = y + 1)
      BY <1>4, <2>2
    <3>3. Sits(f, js, a, st[x - 1], x - 1 = 1)
      BY <3>1 DEF Over
    <3>4. Sits(f, js, a, st[x - 1], x = y + 1)
      BY <3>2, <3>3 DEF Sits
    <3> QED
      BY <1>1, <2>2, <3>1, <3>4
  <2>3. CASE y # 1
    <3>1. x - 1 \in DOMAIN st /\ q[x] = st[x - 1] /\ Open(st, y - 1, x - 1)
          /\ y - 1 \in DOMAIN st /\ q[y] = st[y - 1]
      BY <1>2, <1>4, <1>5, <1>6, <2>1, <2>3
    <3>2. (x - 1 = (y - 1) + 1) <=> (x = y + 1)
      BY <1>4
    <3>3. Sits(f, js, st[y - 1], st[x - 1], x - 1 = (y - 1) + 1)
      BY <3>1 DEF StackIn
    <3>4. Sits(f, js, st[y - 1], st[x - 1], x = y + 1)
      BY <3>2, <3>3 DEF Sits
    <3> QED
      BY <3>1, <3>4
  <2> QED
    BY <2>2, <2>3
<1>7. ASSUME NEW x \in DOMAIN q, NEW y \in DOMAIN q, y < x, q[x].fn = "end", Joining(f, js, q[x].job),
             q[y].fn # "exec", Leads(js, q[y].job, q[x].job)
      PROVE  q[y].fn = "end" /\ q[y].job = q[x].job
  <2>1. x # 1 /\ x - 1 \in DOMAIN st /\ q[x] = st[x - 1]
    BY <1>2, <1>4, <1>7
  <2>2. CASE y = 1
    BY <1>1, <1>7, <2>1, <2>2 DEF Over, Apart
  <2>3. CASE y # 1
    <3>1. y - 1 \in DOMAIN st /\ q[y] = st[y - 1] /\ y - 1 < x - 1
      BY <1>2, <1>4, <1>7, <2>3
    <3> QED
      BY <1>7, <2>1, <3>1 DEF StackIn
  <2> QED
    BY <2>2, <2>3
<1>8. ASSUME NEW x \in DOMAIN q, x > m, x # 1, q[x].fn = "parallel", js[q[x].job].status = "PENDING",
             q[x - 1].fn = "end"
      PROVE  GoesOn(f[q[x].node].mode, js[q[x - 1].job].status)
  <2>1. x - 1 \in DOMAIN st /\ q[x] = st[x - 1] /\ x \in Nat
    BY <1>2, <1>4, <1>8
  <2>2. CASE x = 2
    <3>1. q[x - 1] = a /\ m = 1 /\ q[x] = st[1] /\ st # <<>>
      BY <1>1, <1>3, <1>8, <2>1, <2>2
    <3> QED
      BY <1>8, <3>1 DEF Continues
  <2>3. CASE x # 2
    <3>1. x - 1 # 1 /\ x - 1 > 1 /\ x - 1 \in DOMAIN q
      BY <1>1, <1>4, <1>8, <2>1, <2>3
    <3>2. q[x - 1] = st[(x - 1) - 1]
      BY <1>2, <3>1
    <3> QED
      BY <1>8, <2>1, <3>1, <3>2 DEF StackIn
  <2> QED
    BY <2>2, <2>3
<1>9. StackIn(f, js, q, m)
  BY <1>6, <1>7, <1>8 DEF StackIn
<1>10. ASSUME NEW x \in DOMAIN q, Open(q, 0, x)
       PROVE  \/ x = 1 /\ a.fn = "parallel"
              \/ /\ x # 1 /\ a.fn = "exec" /\ x - 1 \in DOMAIN st
                 /\ Open(st, 0, x - 1) /\ q[x] = st[x - 1]
  <2>1. x = 1 => a.fn = "parallel"
    BY <1>1, <1>10 DEF Open
  <2> QED
    BY <1>5, <1>10, <2>1
<1> QED
  BY <1>9, <1>10 DEF q

\* How they stand when the first goes on.
LEMMA StackPop ==
    ASSUME NEW f, NEW js, NEW S, NEW st \in Seq(S), st # <<>>, StackIn(f, js, st, 1)
    PROVE  /\ StackIn(f, js, Tail(st), 1)
           /\ Over(f, js, st[1], Tail(st))
           /\ st[1].fn = "end" => Continues(f, js, Tail(st), st[1].job)
           /\ \A x \in DOMAIN Tail(st) : (Open(Tail(st), 0, x) /\ st[1].fn = "exec") =>
                 /\ x + 1 \in DOMAIN st /\ Open(st, 0, x + 1) /\ Tail(st)[x] = st[x + 1]
                 /\ x # 0
           /\ \A x \in DOMAIN Tail(st) : x + 1 \in DOMAIN st /\ x + 1 # 1 /\ Tail(st)[x] = st[x + 1]
<1> DEFINE q == Tail(st)
<1>1. /\ DOMAIN st = 1..Len(st) /\ Len(st) \in Nat \ {0}
      /\ DOMAIN q = 1..(Len(st) - 1)
      /\ \A i \in 1..(Len(st) - 1) : q[i] = st[i + 1]
  BY PopIs
<1>2. q # <<>> => 1 \in DOMAIN q
  <2>1. q \in Seq(S) /\ Len(q) = Len(st) - 1
    OBVIOUS
  <2> QED
    BY <1>1, <2>1
<1> HIDE DEF q
<1>3. /\ 1 \in DOMAIN st
      /\ \A z \in DOMAIN st : z \in Nat /\ z # 0
      /\ \A z \in DOMAIN q : z \in Nat /\ z # 0
      /\ \A x \in DOMAIN q : x + 1 \in DOMAIN st /\ x + 1 # 1 /\ q[x] = st[x + 1]
      /\ \A z \in DOMAIN st : z # 1 => z - 1 \in DOMAIN q /\ q[z - 1] = st[z]
  <2>1. \A z \in DOMAIN st : z # 1 => z - 1 \in 1..(Len(st) - 1) /\ (z - 1) + 1 = z
    BY <1>1
  <2> QED
    BY <1>1, <2>1
<1>4. ASSUME NEW x \in DOMAIN q, NEW y \in Nat, Open(q, y, x)
      PROVE  Open(st, y + 1, x + 1)
  <2>1. ASSUME NEW z \in DOMAIN st, y + 1 < z, z < x + 1
        PROVE  st[z].fn = "exec"
    <3>0. z \in Nat /\ x \in Nat
      BY <1>3
    <3>1. z # 1 /\ y < z - 1 /\ z - 1 < x
      BY <2>1, <3>0
    <3>2. z - 1 \in DOMAIN q /\ q[z - 1] = st[z]
      BY <1>3, <3>1
    <3> QED
      BY <1>4, <3>1, <3>2 DEF Open
  <2>2. x \in Nat /\ x + 1 \in DOMAIN st /\ st[x + 1].fn = "parallel" /\ y < x
    BY <1>3, <1>4 DEF Open
  <2>3. y + 1 < x + 1
    BY <2>2
  <2> QED
    BY <2>1, <2>2, <2>3 DEF Open
<1>5. ASSUME NEW x \in DOMAIN q, Open(q, 0, x), st[1].fn = "exec"
      PROVE  Open(st, 0, x + 1)
  <2>1. Open(st, 0 + 1, x + 1)
    BY <1>4, <1>5
  <2>2. \A z \in DOMAIN st : z = 1 \/ 0 + 1 < z
    <3> TAKE z \in DOMAIN st
    <3>1. z \in Nat /\ z # 0
      BY <1>3
    <3> QED
      BY <3>1
  <2>3. 0 < x + 1
    BY <1>3
  <2> QED
    BY <1>5, <2>1, <2>2, <2>3 DEF Open
<1>6. ASSUME NEW x \in DOMAIN q, NEW y \in DOMAIN q, Open(q, y, x)
      PROVE  Sits(f, js, q[y], q[x], x = y + 1)
  <2>1. Open(st, y + 1, x + 1) /\ x + 1 \in DOMAIN st /\ y + 1 \in DOMAIN st
        /\ q[x] = st[x + 1] /\ q[y] = st[y + 1]
    BY <1>3, <1>4, <1>6
  <2>2. (x + 1 = (y + 1) + 1) <=> (x = y + 1)
    <3>1. x \in Nat /\ y \in Nat
      BY <1>3
    <3> QED
      BY <3>1
  <2>3. Sits(f, js, st[y + 1], st[x + 1], x + 1 = (y + 1) + 1)
    BY <2>1 DEF StackIn
  <2>4. Sits(f, js, st[y + 1], st[x + 1], x = y + 1)
    BY <2>2, <2>3 DEF Sits
  <2> QED
    BY <2>1, <2>4
<1>7. \A x, y \in DOMAIN q :
         (/\ y < x /\ q[x].fn = "end" /\ Joining(f, js, q[x].job)
          /\ q[y].fn # "exec" /\ Leads(js, q[y].job, q[x].job)) =>
             (q[y].fn = "end" /\ q[y].job = q[x].job)
  <2> TAKE x, y \in DOMAIN q
  <2>1. x \in Nat /\ y \in Nat
    BY <1>3
  <2>2. y < x => y + 1 < x + 1
    BY <2>1
  <2>3. /\ x + 1 \in DOMAIN st /\ q[x] = st[x + 1]
        /\ y + 1 \in DOMAIN st /\ q[y] = st[y + 1]
    BY <1>3
  <2> QED
    BY <2>2, <2>3 DEF StackIn
<1>8. ASSUME NEW x \in DOMAIN q, x > 1, x # 1, q[x].fn = "parallel", js[q[x].job].status = "PENDING",
             q[x - 1].fn = "end"
      PROVE  GoesOn(f[q[x].node].mode, js[q[x - 1].job].status)
  <2>1. x - 1 \in DOMAIN q /\ (x - 1) + 1 = x /\ (x + 1) - 1 = x /\ x + 1 > 1
    BY <1>1, <1>3, <1>8
  <2>2. q[x - 1] = st[(x + 1) - 1] /\ q[x] = st[x + 1] /\ x + 1 \in DOMAIN st /\ x + 1 # 1
    BY <1>3, <2>1
  <2> QED
    BY <1>8, <2>1, <2>2 DEF StackIn
<1>9. StackIn(f, js, q, 1)
  BY <1>6, <1>7, <1>8 DEF StackIn
<1>10. ASSUME NEW x \in DOMAIN q, Open(q, 0, x)
       PROVE  Sits(f, js, st[1], q[x], x = 1)
  <2>1. Open(st, 1, x + 1) /\ x + 1 \in DOMAIN st /\ q[x] = st[x + 1]
    BY <1>3, <1>4, <1>10
  <2>2. (x + 1 = 1 + 1) <=> (x = 1)
    <3>1. x \in Nat
      BY <1>3
    <3> QED
      BY <3>1
  <2>3. Sits(f, js, st[1], st[x + 1], x + 1 = 1 + 1)
    BY <1>3, <2>1 DEF StackIn
  <2>4. Sits(f, js, st[1], st[x + 1], x = 1)
    BY <2>2, <2>3 DEF Sits
  <2> QED
    BY <2>1, <2>4
<1>11. st[1].fn # "exec" => Apart(f, js, q, st[1].job, st[1].fn = "end")
  <2> SUFFICES ASSUME st[1].fn # "exec", NEW x \in DOMAIN q, q[x].fn = "end", Joining(f, js, q[x].job),
                      Leads(js, st[1].job, q[x].job)
               PROVE  st[1].fn = "end" /\ st[1].job = q[x].job
    BY DEF Apart
  <2>1. x + 1 \in DOMAIN st /\ q[x] = st[x + 1] /\ 1 \in DOMAIN st /\ x \in Nat /\ x # 0
    BY <1>3
  <2>2. 1 < x + 1
    BY <2>1
  <2> QED
    BY <2>1, <2>2 DEF StackIn
<1>12. Over(f, js, st[1], q)
  BY <1>10, <1>11 DEF Over
<1>13. st[1].fn = "end" => Continues(f, js, q, st[1].job)
  <2> SUFFICES ASSUME st[1].fn = "end", q # <<>>, q[1].fn = "parallel", js[q[1].job].status = "PENDING"
               PROVE  GoesOn(f[q[1].node].mode, js[st[1].job].status)
    BY DEF Continues
  <2>1. 1 + 1 \in DOMAIN st /\ q[1] = st[1 + 1] /\ 1 + 1 > 1 /\ 1 + 1 # 1 /\ (1 + 1) - 1 = 1
    BY <1>2, <1>3
  <2> QED
    BY <2>1 DEF StackIn
<1>14. \A x \in DOMAIN q : x # 0
  BY <1>3
<1> QED
  BY <1>3, <1>5, <1>9, <1>12, <1>13, <1>14 DEF q

\* Job k may go on at node n, over what waits in st.
Stands(f, js, n, k, st) ==
    \A x \in DOMAIN st : Open(st, 0, x) =>
        /\ UpIn(js, k, st[x].node) = st[x].job
        /\ ParIn(f, n) = st[x].node
        /\ x = 1 => HomeIn(f, n) = st[x].node

\* What stands apart of a job is so with one more call on top.
LEMMA ApartPush ==
    ASSUME NEW f, NEW js, NEW S, NEW st \in Seq(S), NEW a, NEW k, NEW ended, Apart(f, js, st, k, ended),
           a.fn = "end" => (ended /\ k = a.job)
    PROVE  Apart(f, js, <<a>> \o st, k, ended)
<1> DEFINE q == <<a>> \o st
<1>1. /\ DOMAIN st = 1..Len(st) /\ Len(st) \in Nat
      /\ DOMAIN q = 1..(Len(st) + 1) /\ q[1] = a
      /\ \A i \in 1..Len(st) : q[i + 1] = st[i]
  BY PushIs
<1> HIDE DEF q
<1>2. \A x \in DOMAIN q : x = 1 \/ (x - 1 \in DOMAIN st /\ q[x] = st[x - 1])
  <2> TAKE x \in DOMAIN q
  <2>1. x # 1 => x - 1 \in 1..Len(st) /\ (x - 1) + 1 = x
    BY <1>1
  <2> QED
    BY <1>1, <2>1
<1> QED
  BY <1>1, <1>2 DEF Apart, q

\* The calls stand when one goes on at its place,
LEMMA MovesStand ==
    ASSUME NEW f, NEW ks, NEW d, NEW q, NEW S, NEW st \in Seq(S), NEW n, NEW k,
           MovesTo(f, n, k, st, d, q), StackIn(f, ks, st, 1), Stands(f, ks, n, k, st),
           Apart(f, ks, st, k, d.op # "run")
    PROVE  Standing(f, ks, d, q)
<1>1. d.op \in {"run", "end"} /\ d.job = k /\ ParIn(f, d.node) = ParIn(f, n) /\ Uncounted(d) = 1
  BY DEF MovesTo, ParIn, Uncounted
<1>2. CASE q = st /\ HomeIn(f, d.node) = HomeIn(f, n)
  <2>1. \A x \in DOMAIN st : Open(st, 0, x) => Under(f, ks, d, st[x], x = 1)
    BY <1>1, <1>2 DEF Stands, Under
  <2> QED
    BY <1>1, <1>2, <2>1 DEF Standing, TopIn
<1>3. ASSUME NEW m, q = <<Frame("exec", n, m, 0)>> \o st
      PROVE  Standing(f, ks, d, q)
  <2> DEFINE a == Frame("exec", n, m, 0)
  <2>1. a.fn = "exec" /\ a.node = n
    BY DEF Frame
  <2> HIDE DEF a
  <2>2. q = <<a>> \o st
    BY <1>3 DEF a
  <2>3. Over(f, ks, a, st)
    BY <2>1 DEF Over, Stands, Sits
  <2>4. /\ StackIn(f, ks, q, 1)
        /\ \A x \in DOMAIN q : Open(q, 0, x) =>
              x # 1 /\ x - 1 \in DOMAIN st /\ Open(st, 0, x - 1) /\ q[x] = st[x - 1]
    BY <2>1, <2>2, <2>3, StackPush
  <2>5. Apart(f, ks, q, k, d.op # "run")
    BY <2>1, <2>2, ApartPush
  <2>6. \A x \in DOMAIN q : Open(q, 0, x) => Under(f, ks, d, q[x], x = 1)
    BY <1>1, <2>4 DEF Stands, Under
  <2> QED
    BY <1>1, <2>4, <2>5, <2>6 DEF Standing, TopIn
<1> QED
  BY <1>2, <1>3 DEF MovesTo

\* when a branch starts,
LEMMA EntersStand ==
    ASSUME NEW f, NEW ks, NEW d, NEW q, NEW S, NEW st \in Seq(S), NEW n \in DOMAIN f, NEW p \in DOMAIN ks, NEW b,
           BranchesOK(f), Chained(ks), ks[p].node = n,
           Enters(f, n, p, b, st, d, q), StackIn(f, ks, st, 1), Stands(f, ks, n, p, st),
           st # <<>> => st[1].fn # "parallel", Apart(f, ks, st, p, FALSE)
    PROVE  Standing(f, ks, d, q)
<1> DEFINE s == BranchesIn(f, n)[b]
           a == Frame("parallel", n, p, b)
<1>1. f[n].type = "parallel" /\ b \in DOMAIN BranchesIn(f, n)
      /\ d = Call("run", s, p) /\ q = <<a>> \o st
  BY DEF Enters
<1>2. ParIn(f, s) = n /\ HomeIn(f, s) = n
  BY <1>1 DEF BranchesOK
<1> HIDE DEF s
<1>3. a.fn = "parallel" /\ a.node = n /\ a.job = p
  BY DEF Frame
<1> HIDE DEF a
<1>4. d.op = "run" /\ d.node = s /\ d.job = p /\ Uncounted(d) = 1
  BY <1>1 DEF Call, Uncounted
<1>5. Over(f, ks, a, st)
  <2>1. \A x \in DOMAIN st : Open(st, 0, x) => x # 1
    BY DEF Open
  <2>2. Apart(f, ks, st, p, a.fn = "end")
    BY <1>3 DEF Apart
  <2> QED
    BY <1>3, <2>1, <2>2 DEF Over, Stands, Sits
<1>6. StackIn(f, ks, q, 1) /\ \A x \in DOMAIN q : Open(q, 0, x) => x = 1
  BY <1>1, <1>3, <1>5, StackPush
<1>7. Apart(f, ks, q, p, d.op # "run")
  <2>1. Apart(f, ks, st, p, d.op # "run")
    BY <1>4 DEF Apart
  <2> QED
    BY <1>1, <1>3, <2>1, ApartPush
<1>8. q[1] = a /\ UpIn(ks, p, n) = p
  BY <1>1, PushIs, UpStep
<1>9. \A x \in DOMAIN q : Open(q, 0, x) => Under(f, ks, d, q[x], x = 1)
  BY <1>2, <1>3, <1>4, <1>6, <1>8 DEF Under
<1> QED
  BY <1>4, <1>6, <1>7, <1>9 DEF Standing, TopIn

\* Jobs that are added, or decided, where no scope ends with them.
LEMMA StackStays ==
    ASSUME NEW f, NEW js, NEW ks, NEW c, NEW st, NEW m, Typed(f, js, c, st), SameUps(js, ks),
           \A j \in DOMAIN js : ks[j].status = "PENDING" => js[j].status = "PENDING",
           \A x \in DOMAIN st : st[x].fn = "end" => ks[st[x].job].status = js[st[x].job].status,
           StackIn(f, js, st, m)
    PROVE  /\ StackIn(f, ks, st, m)
           /\ \A k \in DOMAIN js \cup {0} : \A ended : Apart(f, js, st, k, ended) => Apart(f, ks, st, k, ended)
<1>1. \A x \in DOMAIN st : /\ st[x].fn # "exec" => st[x].job \in DOMAIN js
                           /\ x # 1 => x - 1 \in DOMAIN st
  BY TypedIs
<1>2. \A j \in DOMAIN js : ks[j].node = js[j].node
  BY DEF SameUps
<1>3. \A j \in DOMAIN js : /\ Joining(f, ks, j) => Joining(f, js, j)
                           /\ \A n : UpIn(ks, j, n) = UpIn(js, j, n)
                           /\ \A z : Leads(ks, j, z) => Leads(js, j, z)
  BY <1>2, UpsStay DEF Joining
<1>4. \A x, y \in DOMAIN st : Open(st, y, x) => Sits(f, ks, st[y], st[x], x = y + 1)
  <2> TAKE x, y \in DOMAIN st
  <2>1. Open(st, y, x) => Sits(f, js, st[y], st[x], x = y + 1)
    BY DEF StackIn
  <2> QED
    BY <1>1, <1>3, <2>1 DEF Sits
<1>5. \A x, y \in DOMAIN st :
          (/\ y < x /\ st[x].fn = "end" /\ Joining(f, ks, st[x].job)
           /\ st[y].fn # "exec" /\ Leads(ks, st[y].job, st[x].job)) =>
              (st[y].fn = "end" /\ st[y].job = st[x].job)
  <2> TAKE x, y \in DOMAIN st
  <2>1. (/\ y < x /\ st[x].fn = "end" /\ Joining(f, js, st[x].job)
         /\ st[y].fn # "exec" /\ Leads(js, st[y].job, st[x].job)) =>
              (st[y].fn = "end" /\ st[y].job = st[x].job)
    BY DEF StackIn
  <2> QED
    BY <1>1, <1>3, <2>1
<1>6. \A x \in DOMAIN st :
          (/\ x > m /\ x # 1 /\ st[x].fn = "parallel" /\ ks[st[x].job].status = "PENDING"
           /\ st[x - 1].fn = "end") =>
              GoesOn(f[st[x].node].mode, ks[st[x - 1].job].status)
  <2> TAKE x \in DOMAIN st
  <2>1. (/\ x > m /\ x # 1 /\ st[x].fn = "parallel" /\ js[st[x].job].status = "PENDING"
         /\ st[x - 1].fn = "end") =>
              GoesOn(f[st[x].node].mode, js[st[x - 1].job].status)
    BY DEF StackIn
  <2> QED
    BY <1>1, <2>1
<1>7. \A k \in DOMAIN js \cup {0} : \A ended : Apart(f, js, st, k, ended) => Apart(f, ks, st, k, ended)
  <2> SUFFICES ASSUME NEW k \in DOMAIN js \cup {0}, NEW ended, Apart(f, js, st, k, ended),
                      NEW x \in DOMAIN st, st[x].fn = "end", Joining(f, ks, st[x].job), Leads(ks, k, st[x].job)
               PROVE  ended /\ k = st[x].job
    BY DEF Apart
  <2>1. Leads(js, k, st[x].job)
    BY UpsStay
  <2>2. Joining(f, js, st[x].job)
    BY <1>1, <1>3
  <2> QED
    BY <2>1, <2>2 DEF Apart
<1> QED
  BY <1>4, <1>5, <1>6, <1>7 DEF StackIn

\* Each job in a branch leads up to the job of its parallel node.
NoLostIn(f, js) ==
    \A z \in DOMAIN js : ParIn(f, js[z].node) # 0 => UpIn(js, z, ParIn(f, js[z].node)) # 0

\* Where nothing waits, everything stands.
LEMMA EmptyStands ==
    ASSUME NEW f, NEW js, NEW d, NEW st, st = <<>>
    PROVE  /\ Standing(f, js, d, st) /\ StackIn(f, js, st, 1)
           /\ \A n, k : Stands(f, js, n, k, st)
           /\ \A k, ended : Apart(f, js, st, k, ended)
<1>1. DOMAIN st = {}
  OBVIOUS
<1>2. \A m : StackIn(f, js, st, m)
  BY <1>1 DEF StackIn
<1>3. \A n, k : Stands(f, js, n, k, st)
  BY <1>1 DEF Stands
<1>4. \A k, ended : Apart(f, js, st, k, ended)
  BY <1>1 DEF Apart
<1>5. TopIn(f, js, d, st)
  BY <1>1, <1>4 DEF TopIn, Continues
<1> QED
  BY <1>2, <1>3, <1>4, <1>5 DEF Standing

\* Without a job, nothing is in the way.
LEMMA ApartZero ==
    ASSUME NEW f, NEW js, NEW c, NEW st, Typed(f, js, c, st), NEW ended
    PROVE  Apart(f, js, st, 0, ended)
<1>1. \A x \in DOMAIN st : st[x].fn = "end" => st[x].job \in DOMAIN js
  BY TypedIs
<1>2. \A z \in DOMAIN js : ~ Leads(js, 0, z)
  BY LeadsStep DEF Typed
<1> QED
  BY <1>1, <1>2 DEF Apart

\* The call that waits first, when it is a parallel node's, is open.
LEMMA OpenFirst ==
    ASSUME NEW S, NEW st \in Seq(S), st # <<>>, st[1].fn = "parallel"
    PROVE  1 \in DOMAIN st /\ Open(st, 0, 1)
<1>1. 1 \in DOMAIN st /\ \A z \in DOMAIN st : z \in Nat
  OBVIOUS
<1>2. \A z \in DOMAIN st : ~ (0 < z /\ z < 1)
  BY <1>1
<1> QED
  BY <1>1, <1>2 DEF Open

\* A value comes back over calls that stand.
LEMMA ReturnsStand ==
    ASSUME NEW f, NEW js, NEW d, NEW q, NEW k, d = Return(k), StackIn(f, js, q, 1),
           \A x \in DOMAIN q : Open(q, 0, x) => UpIn(js, k, q[x].node) = q[x].job,
           Apart(f, js, q, k, TRUE), Continues(f, js, q, k)
    PROVE  Standing(f, js, d, q)
<1>1. d.op = "return" /\ d.job = k /\ Uncounted(d) = 1
  BY DEF Return, Call, Uncounted
<1>2. \A x \in DOMAIN q : Open(q, 0, x) => Under(f, js, d, q[x], x = 1)
  BY <1>1 DEF Under
<1> QED
  BY <1>1, <1>2 DEF Standing, TopIn

\* Return(0) comes to no parallel node.
LEMMA ReturnsNothing ==
    ASSUME NEW f, NEW js, NEW c, NEW st, NEW d, NEW q, Typed(f, js, c, st), NEW S, q \in Seq(S), d = Return(0),
           StackIn(f, js, q, 1), \A x \in DOMAIN q : ~ Open(q, 0, x), Apart(f, js, q, 0, TRUE)
    PROVE  Standing(f, js, d, q)
<1>1. Continues(f, js, q, 0)
  BY OpenFirst DEF Continues
<1> QED
  BY <1>1, ReturnsStand

\* A parallel node that goes on for the status it counted.
LEMMA CountedStack ==
    ASSUME NEW f, NEW js, NEW S, NEW st \in Seq(S), StackIn(f, js, st, 2),
           (/\ 2 \in DOMAIN st /\ st[2].fn = "parallel" /\ js[st[2].job].status = "PENDING"
            /\ st[1].fn = "end") =>
               GoesOn(f[st[2].node].mode, js[st[1].job].status)
    PROVE  StackIn(f, js, st, 1)
<1>1. \A x \in DOMAIN st : x \in Nat
  OBVIOUS
<1>2. ASSUME NEW x \in DOMAIN st, x > 1, st[x].fn = "parallel", js[st[x].job].status = "PENDING",
             st[x - 1].fn = "end"
      PROVE  GoesOn(f[st[x].node].mode, js[st[x - 1].job].status)
  <2>1. CASE x = 2
    BY <1>2, <2>1
  <2>2. CASE x # 2
    <3>1. x > 2 /\ x # 1
      BY <1>1, <1>2, <2>2
    <3> QED
      BY <1>2, <3>1 DEF StackIn
  <2> QED
    BY <2>1, <2>2
<1> QED
  BY <1>2 DEF StackIn

\* A parallel node whose branches decide runs no further one in that mode.
LEMMA VerdictGoesOn ==
    ASSUME NEW mode \in Mode, NEW result, NEW i \in DOMAIN result, result[i] \in Status,
           Verdict(mode, result) = "PENDING"
    PROVE  GoesOn(mode, result[i])
<1>1. CASE result[i] = "PENDING"
  BY <1>1 DEF GoesOn
<1>2. CASE result[i] = "RESOLVED"
  <2>1. mode # "all" => Verdict(mode, result) # "PENDING"
    <3> SUFFICES ASSUME mode # "all"
                 PROVE  Verdict(mode, result) # "PENDING"
      OBVIOUS
    <3>1. \E k \in DOMAIN result : result[k] = "RESOLVED"
      BY <1>2
    <3>2. ~ \A k \in DOMAIN result : result[k] = "FAILED"
      BY <1>2
    <3> QED
      BY <3>1, <3>2 DEF Verdict
  <2> QED
    BY <1>2, <2>1 DEF GoesOn
<1>3. CASE result[i] = "FAILED"
  <2>1. mode # "any" => Verdict(mode, result) # "PENDING"
    <3> SUFFICES ASSUME mode # "any"
                 PROVE  Verdict(mode, result) # "PENDING"
      OBVIOUS
    <3>1. \E k \in DOMAIN result : result[k] = "FAILED"
      BY <1>3
    <3>2. ~ \A k \in DOMAIN result : result[k] = "RESOLVED"
      BY <1>3
    <3> QED
      BY <3>1, <3>2 DEF Verdict, Mode
  <2> QED
    BY <1>3, <2>1 DEF GoesOn
<1> QED
  BY <1>1, <1>2, <1>3 DEF Status

\* A job leads up to earlier ones.
LEMMA LeadsLess ==
    ASSUME NEW js, Chained(js), NEW d \in DOMAIN js \cup {0}, NEW c, Leads(js, d, c)
    PROVE  c <= d
<1> DEFINE S == {k \in DOMAIN js \cup {0} : k <= d}
<1>1. DOMAIN js = 1..Len(js) /\ Len(js) \in Nat /\ \A j \in DOMAIN js : js[j].upstream \in 0..(j - 1)
  BY DEF Chained
<1>2. d \in Nat
  BY <1>1
<1>3. S \in SUBSET (DOMAIN js \cup {0}) /\ d \in S
  BY <1>2
<1>4. \A k \in S \ {0} : js[k].upstream \in S
  <2> TAKE k \in S \ {0}
  <2>1. k \in DOMAIN js /\ k \in Nat /\ k <= d
    BY <1>1
  <2>2. js[k].upstream \in 0..(k - 1) /\ k \in 1..Len(js)
    BY <1>1, <2>1
  <2>3. js[k].upstream <= d /\ (js[k].upstream = 0 \/ js[k].upstream \in 1..Len(js))
    BY <1>1, <1>2, <2>1, <2>2
  <2> QED
    BY <1>1, <2>3
<1> HIDE DEF S
<1>5. c \in S
  BY <1>3, <1>4 DEF Leads
<1> QED
  BY <1>5 DEF S

\* A job is added by what runs at node n.
LEMMA GrownStands ==
    ASSUME NEW f, NEW js, NEW c, NEW st, NEW ks, NEW n \in DOMAIN f, NEW s, NEW u \in DOMAIN js \cup {0},
           Typed(f, js, c, st), Grown(js, ks, n, s, u), StackIn(f, js, st, 1), Stands(f, js, n, u, st),
           Apart(f, js, st, u, FALSE)
    PROVE  /\ StackIn(f, ks, st, 1) /\ Stands(f, ks, n, Len(js) + 1, st)
           /\ \A ended : Apart(f, ks, st, Len(js) + 1, ended)
<1> DEFINE new == Len(js) + 1
<1>1. UpsOfGrown(js, ks, n, u)
  BY GrownUp
<1>2. SameUps(js, ks) /\ \A j \in DOMAIN js : ks[j] = js[j]
  BY DEF Grown
<1>3. \A x \in DOMAIN st : st[x].fn # "exec" => st[x].job \in DOMAIN js
  BY TypedIs
<1>4. StackIn(f, ks, st, 1)
  BY <1>2, <1>3, StackStays
<1>5. Stands(f, ks, n, new, st)
  <2>1. ParIn(f, n) # n
    BY ParIsOther DEF Typed
  <2>2. \A m : m # n => UpIn(ks, new, m) = UpIn(js, u, m)
    BY <1>1 DEF UpsOfGrown
  <2> HIDE DEF new
  <2> QED
    BY <2>1, <2>2 DEF Stands
<1>6. ASSUME NEW ended
      PROVE  Apart(f, ks, st, new, ended)
  <2> SUFFICES ASSUME NEW x \in DOMAIN st, st[x].fn = "end", Joining(f, ks, st[x].job), Leads(ks, new, st[x].job)
               PROVE  FALSE
    BY DEF Apart
  <2>1. st[x].job \in DOMAIN js
    BY <1>3
  <2>2. Leads(js, u, st[x].job) /\ Joining(f, js, st[x].job)
    BY <1>1, <1>2, <2>1 DEF UpsOfGrown, Joining
  <2> QED
    BY <2>2 DEF Apart
<1> QED
  BY <1>4, <1>5, <1>6

\* Each of the steps keeps how the calls stand, until a request waits in a branch.
LEMMA GrowsStand ==
    ASSUME NEW f, NEW js, NEW e, NEW c, NEW st, NEW ks, NEW d, NEW q,
           Typed(f, js, c, st), Standing(f, js, c, st),
           Executes(f, js, c, st, ks, d, q) \/ Forks(f, js, c, st, ks, d, q)
    PROVE  Standing(f, ks, d, q) \/ Requested(f, ks)
<1> DEFINE n == c.node
           new == Len(js) + 1
<1>1. /\ c.op = "run" /\ n \in DOMAIN f /\ BranchesOK(f) /\ 0 \notin DOMAIN f /\ c.job \in DOMAIN js \cup {0}
      /\ st \in Seq(Frames(Len(f), Len(js))) /\ Len(js) \in Nat
  BY TypedIs DEF Typed, Executes, Forks
<1>2. StackIn(f, js, st, 1) /\ Stands(f, js, n, c.job, st) /\ Apart(f, js, st, c.job, FALSE)
  <2>1. StackIn(f, js, st, 1) /\ TopIn(f, js, c, st)
    BY <1>1 DEF Standing, Uncounted
  <2>2. Stands(f, js, n, c.job, st)
    BY <1>1, <2>1 DEF TopIn, Under, Stands
  <2>3. Apart(f, js, st, c.job, FALSE)
    BY <1>1, <2>1 DEF TopIn, Apart
  <2> QED
    BY <2>1, <2>2, <2>3
<1>3. CASE Executes(f, js, c, st, ks, d, q) /\ f[n].type = "request"
  <2>1. PICK s \in Status : Grown(js, ks, n, s, 0) /\ s = "PENDING" /\ MovesTo(f, n, new, st, d, q)
    BY <1>3 DEF Executes, Asynchronous
  <2>2. CASE ParIn(f, n) # 0
    <3>1. new \in DOMAIN ks /\ ks[new].status = "PENDING" /\ ks[new].node = n
      BY <1>1, <2>1 DEF Grown
    <3> QED
      BY <1>3, <2>2, <3>1 DEF Requested
  <2>3. CASE ParIn(f, n) = 0
    <3>1. \A x \in DOMAIN st : st[x].fn = "parallel" => st[x].node \in DOMAIN f
      BY TypedIs
    <3>2. Stands(f, js, n, 0, st)
      BY <1>1, <1>2, <2>3, <3>1 DEF Stands, Open
    <3>3. Apart(f, js, st, 0, FALSE)
      BY ApartZero
    <3>4. /\ StackIn(f, ks, st, 1) /\ Stands(f, ks, n, new, st)
          /\ \A ended : Apart(f, ks, st, new, ended)
      BY <1>1, <1>2, <2>1, <3>2, <3>3, GrownStands
    <3> HIDE DEF new
    <3> QED
      BY <1>1, <2>1, <3>4, MovesStand
  <2> QED
    BY <2>2, <2>3
<1>4. ASSUME NEW s, Grown(js, ks, n, s, c.job)
      PROVE  /\ StackIn(f, ks, st, 1) /\ Stands(f, ks, n, new, st)
             /\ \A ended : Apart(f, ks, st, new, ended)
  BY <1>1, <1>2, <1>4, GrownStands
<1>5. CASE Executes(f, js, c, st, ks, d, q) /\ f[n].type # "request"
  <2>1. PICK s \in Status : Grown(js, ks, n, s, c.job) /\ MovesTo(f, n, new, st, d, q)
    BY <1>5 DEF Executes
  <2>2. /\ StackIn(f, ks, st, 1) /\ Stands(f, ks, n, new, st)
        /\ \A ended : Apart(f, ks, st, new, ended)
    BY <1>4, <2>1
  <2> HIDE DEF new
  <2> QED
    BY <1>1, <2>1, <2>2, MovesStand
<1>6. CASE Forks(f, js, c, st, ks, d, q)
  <2>1. PICK m : Enters(f, n, new, 1, <<Frame("exec", n, m, 0)>> \o st, d, q)
    BY <1>6 DEF Forks
  <2>2. Grown(js, ks, n, "PENDING", c.job)
    BY <1>6 DEF Forks
  <2>3. /\ StackIn(f, ks, st, 1) /\ Stands(f, ks, n, new, st)
        /\ \A ended : Apart(f, ks, st, new, ended)
    BY <1>4, <2>2
  <2>4. new \in DOMAIN ks /\ ks[new].node = n /\ Chained(ks)
    BY <1>1, <2>2 DEF Grown, SameUps
  <2> DEFINE a == Frame("exec", n, m, 0)
             t == <<a>> \o st
  <2>5. a.fn = "exec" /\ a.node = n
    BY DEF Frame
  <2> HIDE DEF a, new
  <2>6. Over(f, ks, a, st)
    BY <2>3, <2>5 DEF Over, Stands, Sits
  <2>7. /\ StackIn(f, ks, t, 1)
        /\ \A x \in DOMAIN t : Open(t, 0, x) =>
              x # 1 /\ x - 1 \in DOMAIN st /\ Open(st, 0, x - 1) /\ t[x] = st[x - 1]
    BY <1>1, <2>3, <2>5, <2>6, StackPush
  <2>8. Apart(f, ks, t, new, FALSE)
    BY <1>1, <2>3, <2>5, ApartPush
  <2>9. t[1] = a
    BY <1>1, PushIs
  <2>10. t \in Seq(Frames(Len(f), Len(js)) \cup {a})
    BY <1>1
  <2> HIDE DEF t
  <2>11. Stands(f, ks, n, new, t)
    BY <2>3, <2>7 DEF Stands
  <2>12. Enters(f, n, new, 1, t, d, q)
    BY <2>1 DEF t, a
  <2> QED
    BY <1>1, <2>4, <2>5, <2>7, <2>8, <2>9, <2>10, <2>11, <2>12, EntersStand
<1> QED
  BY <1>3, <1>5, <1>6

\* Where a branch resumes what it starts from, no parallel node is next.
Recalling(f, js, c, st) ==
    /\ st \in Seq(Frames(Len(f), Len(js))) /\ st # <<>> /\ 1 \in DOMAIN st
    /\ st[1].fn = "end" /\ st[1].job = c.job /\ c.job \in DOMAIN js /\ c.node \in DOMAIN f
    /\ \A x \in DOMAIN st : ~ Open(st, 0, x)
    /\ \A n, k : Stands(f, js, n, k, st)
    /\ StackIn(f, js, st, 2)
    /\ Apart(f, js, st, c.job, TRUE)
    /\ (2 \in DOMAIN st /\ st[2].fn = "parallel") =>
          /\ st[2].node = c.node
          /\ UpIn(js, c.job, c.node) = st[2].job

\* The parallel node that is resumed is not one that waits over its end().
LEMMA RecallOpen ==
    ASSUME NEW f, NEW js, NEW e, NEW c, NEW st, Typed(f, js, c, st), PlacedIn(f, js, e, c, st),
           Standing(f, js, c, st), c.op = "recall", f[c.node].type \notin Asynchronous
    PROVE  Recalling(f, js, c, st)
<1>1. st \in Seq(Frames(Len(f), Len(js))) /\ c.job \in DOMAIN js /\ c.node \in DOMAIN f
  BY TypedIs DEF Typed
<1>2. st # <<>> /\ st[1].fn = "end" /\ st[1].job = c.job
  BY DEF PlacedIn, Disciplined
<1>3. 1 \in DOMAIN st /\ \A z \in DOMAIN st : z \in Nat
  BY <1>1, <1>2
<1>4. StackIn(f, js, st, 2) /\ TopIn(f, js, c, st)
  BY DEF Standing, Uncounted
<1>5. \A x \in DOMAIN st : ~ Open(st, 0, x)
  BY <1>4 DEF TopIn, Under
<1>6. \A n, k : Stands(f, js, n, k, st)
  BY <1>5 DEF Stands
<1>7. Apart(f, js, st, c.job, TRUE)
  BY <1>4 DEF TopIn, Apart
<1>8. ASSUME 2 \in DOMAIN st, st[2].fn = "parallel"
      PROVE  st[2].node = c.node /\ UpIn(js, c.job, c.node) = st[2].job
  <2>1. \A z \in DOMAIN st : ~ (1 < z /\ z < 2)
    BY <1>3
  <2>2. Open(st, 1, 2)
    BY <1>8, <2>1 DEF Open
  <2>3. Sits(f, js, st[1], st[2], 2 = 1 + 1)
    BY <1>3, <1>4, <1>8, <2>2 DEF StackIn
  <2>4. st[2].node = c.node
    BY <1>4, <1>8 DEF TopIn
  <2> QED
    BY <1>2, <2>3, <2>4 DEF Sits
<1> QED
  BY <1>1, <1>2, <1>3, <1>4, <1>5, <1>6, <1>7, <1>8 DEF Recalling

LEMMA RecallsStand ==
    ASSUME NEW f, NEW js, NEW e, NEW c, NEW st, NEW ks, NEW d, NEW q,
           Typed(f, js, c, st), PlacedIn(f, js, e, c, st), Recalls(f, js, c, st, ks, d, q)
    PROVE  Standing(f, ks, d, q)
<1>1. st = <<>> /\ MovesTo(f, c.node, c.job, st, d, q)
  BY DEF Recalls, PlacedIn, Disciplined
<1>2. st \in Seq(Frames(Len(f), Len(js)))
  BY DEF Typed
<1>3. /\ StackIn(f, ks, st, 1) /\ Stands(f, ks, c.node, c.job, st)
      /\ Apart(f, ks, st, c.job, d.op # "run")
  BY <1>1, EmptyStands
<1> QED
  BY <1>1, <1>2, <1>3, MovesStand

LEMMA PassesStand ==
    ASSUME NEW f, NEW js, NEW e, NEW c, NEW st, NEW ks, NEW d, NEW q,
           Typed(f, js, c, st), PlacedIn(f, js, e, c, st), Standing(f, js, c, st),
           PassesOn(f, js, c, st, ks, d, q)
    PROVE  Standing(f, ks, d, q)
<1> DEFINE n == c.node
           j == c.job
<1>1. /\ c.op = "recall" /\ f[n].type = "condition" /\ ks = js /\ MovesTo(f, n, j, st, d, q)
      /\ d.op = "run" => js[j].status = "RESOLVED"
  BY DEF PassesOn
<1>2. /\ st \in Seq(Frames(Len(f), Len(js)))
      /\ Stands(f, js, n, j, st) /\ StackIn(f, js, st, 2) /\ Apart(f, js, st, j, TRUE)
      /\ (2 \in DOMAIN st /\ st[2].fn = "parallel") => st[2].node = n
  <2>1. c.op = "recall" /\ f[c.node].type \notin Asynchronous
    BY <1>1 DEF Asynchronous
  <2>2. Recalling(f, js, c, st)
    BY <2>1, RecallOpen
  <2> QED
    BY <2>2 DEF Recalling
<1>3. (2 \in DOMAIN st /\ st[2].fn = "parallel") => f[st[2].node].type = "parallel"
  BY DEF PlacedIn, WaitingIn
<1>4. StackIn(f, js, st, 1)
  BY <1>1, <1>2, <1>3, CountedStack
<1>5. Apart(f, js, st, j, d.op # "run")
  BY <1>1, <1>2 DEF Apart, Joining
<1> QED
  BY <1>1, <1>2, <1>4, <1>5, MovesStand

LEMMA IgnoresStand ==
    ASSUME NEW f, NEW js, NEW e, NEW c, NEW st, NEW ks, NEW d, NEW q,
           Typed(f, js, c, st), PlacedIn(f, js, e, c, st), Standing(f, js, c, st),
           Ignores(f, js, c, st, ks, d, q)
    PROVE  Standing(f, ks, d, q)
<1> DEFINE n == c.node
           j == c.job
<1>1. /\ c.op = "recall" /\ f[n].type = "parallel" /\ ks = js /\ q = st /\ d = Return(0)
      /\ js[UpIn(js, j, n)].status # "PENDING"
  BY DEF Ignores
<1>2. /\ st \in Seq(Frames(Len(f), Len(js))) /\ StackIn(f, js, st, 2)
      /\ \A x \in DOMAIN st : ~ Open(st, 0, x)
      /\ (2 \in DOMAIN st /\ st[2].fn = "parallel") => UpIn(js, j, n) = st[2].job
  <2>1. c.op = "recall" /\ f[c.node].type \notin Asynchronous
    BY <1>1 DEF Asynchronous
  <2>2. Recalling(f, js, c, st)
    BY <2>1, RecallOpen
  <2> QED
    BY <2>2 DEF Recalling
<1>3. StackIn(f, js, st, 1)
  BY <1>1, <1>2, CountedStack
<1>4. Apart(f, js, st, 0, TRUE)
  BY ApartZero
<1> QED
  BY <1>1, <1>2, <1>3, <1>4, ReturnsNothing

LEMMA CountsStand ==
    ASSUME NEW f, NEW js, NEW e, NEW c, NEW st, NEW ks, NEW d, NEW q,
           Typed(f, js, c, st), PlacedIn(f, js, e, c, st), Standing(f, js, c, st),
           Counts(f, js, c, st, ks, d, q)
    PROVE  Standing(f, ks, d, q)
<1> DEFINE n == c.node
           j == c.job
           p == UpIn(js, j, n)
<1>1. /\ c.op = "recall" /\ f[n].type = "parallel" /\ n \in DOMAIN f /\ j \in DOMAIN js
      /\ WellFormed(f) /\ Chained(js) /\ Changed(js, ks, p) /\ MovesTo(f, n, p, st, d, q)
      /\ p # 0 /\ js[p].status = "PENDING"
      /\ ks[p].status = Verdict(f[n].mode, ks[p].result)
  BY TypedIs DEF Typed, Counts
<1>2. p \in DOMAIN js /\ js[p].node = n /\ p <= j
  BY <1>1, UpIsJob
<1>3. js[j].node # n /\ j # p
  <2>1. n = ParIn(f, js[j].node)
    BY <1>1 DEF PlacedIn, AtPlace
  <2>2. js[j].node \in DOMAIN f
    BY <1>1, TypedIs
  <2>3. n # js[j].node
    BY <1>1, <2>1, <2>2, ParIsOther
  <2> QED
    BY <1>2, <2>3
<1>4. /\ st \in Seq(Frames(Len(f), Len(js))) /\ StackIn(f, js, st, 2)
      /\ \A x \in DOMAIN st : ~ Open(st, 0, x)
      /\ Apart(f, js, st, j, TRUE) /\ st[1].job = j
      /\ (2 \in DOMAIN st /\ st[2].fn = "parallel") => (st[2].node = n /\ p = st[2].job)
  <2>1. c.op = "recall" /\ f[c.node].type \notin Asynchronous
    BY <1>1 DEF Asynchronous
  <2>2. Recalling(f, js, c, st)
    BY <2>1, RecallOpen
  <2> QED
    BY <2>2 DEF Recalling
<1>5. \A z \in DOMAIN js : Leads(js, p, z) => Leads(js, j, z)
  BY <1>1, LeadsStep
<1>6. /\ DOMAIN js = DOMAIN ks /\ SameUps(js, ks)
      /\ \A z \in DOMAIN js : z # p => ks[z] = js[z]
  BY <1>1 DEF Changed
<1>7. \A x \in DOMAIN st : st[x].fn = "end" => st[x].job \in DOMAIN js
  BY TypedIs
<1>8. Leads(js, p, p)
  BY DEF Leads
<1>9. ~ Leads(js, p, j)
  <2>1. Leads(js, p, j) => j <= p
    BY <1>1, <1>2, LeadsLess
  <2>2. p \in Nat /\ j \in Nat
    BY <1>1, <1>2 DEF Chained
  <2> QED
    BY <1>2, <1>3, <2>1, <2>2
<1>10. \E i \in DOMAIN ks[p].result : ks[p].result[i] = js[j].status
  <2>1. DOMAIN js[p].result = DOMAIN BranchesIn(f, n)
    BY <1>1, <1>2 DEF PlacedIn, PendingIn, Asynchronous
  <2> HIDE DEF p
  <2>2. PICK i \in DOMAIN BranchesIn(f, n) : ks[p].result = [js[p].result EXCEPT ![i] = js[j].status]
    BY DEF Counts, p
  <2> QED
    BY <2>1, <2>2
<1> HIDE DEF p
<1>11. \A x \in DOMAIN st : st[x].fn = "end" => st[x].job # p
  <2> SUFFICES ASSUME NEW x \in DOMAIN st, st[x].fn = "end", st[x].job = p
               PROVE  FALSE
    OBVIOUS
  <2>1. Joining(f, js, p) /\ Leads(js, j, p)
    BY <1>1, <1>2, <1>5, <1>8 DEF Joining
  <2> QED
    BY <1>3, <1>4, <2>1 DEF Apart
<1>12. Apart(f, js, st, p, FALSE)
  <2> SUFFICES ASSUME NEW x \in DOMAIN st, st[x].fn = "end", Joining(f, js, st[x].job), Leads(js, p, st[x].job)
               PROVE  FALSE
    BY DEF Apart
  <2>1. Leads(js, j, st[x].job)
    BY <1>5, <1>7
  <2>2. j = st[x].job
    BY <1>4, <2>1 DEF Apart
  <2> QED
    BY <1>9, <2>2
<1>13. StackIn(f, ks, st, 2) /\ Apart(f, ks, st, p, FALSE)
  <2>1. \A z \in DOMAIN js : ks[z].status = "PENDING" => js[z].status = "PENDING"
    BY <1>1, <1>6
  <2>2. \A x \in DOMAIN st : st[x].fn = "end" => ks[st[x].job].status = js[st[x].job].status
    BY <1>6, <1>7, <1>11
  <2> QED
    BY <1>2, <1>4, <1>6, <1>12, <2>1, <2>2, StackStays
<1>14. StackIn(f, ks, st, 1)
  <2> SUFFICES ASSUME 2 \in DOMAIN st, st[2].fn = "parallel", ks[st[2].job].status = "PENDING",
                      st[1].fn = "end"
               PROVE  GoesOn(f[st[2].node].mode, ks[st[1].job].status)
    BY <1>4, <1>13, CountedStack
  <2>1. st[2].node = n /\ p = st[2].job /\ ks[j] = js[j] /\ st[1].job = j
    BY <1>1, <1>3, <1>4, <1>6
  <2>2. PICK i \in DOMAIN ks[p].result : ks[p].result[i] = js[j].status
    BY <1>10
  <2>3. f[n].mode \in Mode /\ js[j].status \in Status
    <3>1. f[n] \in Nodes(Len(f))
      BY <1>1, FlowRooted
    <3> QED
      BY <1>1, <3>1, TypedIs DEF Nodes
  <2>4. Verdict(f[n].mode, ks[p].result) = "PENDING"
    BY <1>1, <2>1
  <2>5. GoesOn(f[n].mode, js[j].status)
    BY <2>2, <2>3, <2>4, VerdictGoesOn
  <2> QED
    BY <2>1, <2>5
<1>15. Stands(f, ks, n, p, st)
  BY <1>4 DEF Stands
<1>16. Apart(f, ks, st, p, d.op # "run")
  BY <1>13 DEF Apart
<1> QED
  BY <1>1, <1>4, <1>14, <1>15, <1>16, MovesStand

\* What the invariant says of a parallel node that waits.
LEMMA OpenUnder ==
    ASSUME NEW f, NEW js, NEW c, NEW st, Typed(f, js, c, st), Standing(f, js, c, st), NEW x \in DOMAIN st,
           Open(st, 0, x)
    PROVE  Under(f, js, c, st[x], x = 1) /\ st[x].job \in DOMAIN js /\ st[x].job # 0 /\ st[x].node \in DOMAIN f
           /\ st[x].node # 0
<1>1. st[x].fn = "parallel"
  BY DEF Open
<1>2. st[x].job \in DOMAIN js /\ st[x].job # 0 /\ st[x].node \in DOMAIN f /\ st[x].node # 0
  BY <1>1, TypedIs
<1> QED
  BY <1>2 DEF Standing, TopIn

LEMMA EndsStand ==
    ASSUME NEW f, NEW js, NEW e, NEW c, NEW st, NEW ks, NEW g, NEW d, NEW q,
           Typed(f, js, c, st), Standing(f, js, c, st),
           ClimbsUp(f, js, c, st, ks, d, q) \/ Exits(f, js, c, st, ks, g, d, q)
    PROVE  Standing(f, ks, d, q)
<1> DEFINE n == c.node
           j == c.job
           h == HomeIn(f, n)
<1>1. /\ c.op = "end" /\ ks = js /\ n \in DOMAIN f /\ WellFormed(f)
      /\ st \in Seq(Frames(Len(f), Len(js)))
  BY TypedIs DEF Typed, ClimbsUp, Exits
<1>2. StackIn(f, js, st, 1) /\ Apart(f, js, st, j, TRUE)
  BY <1>1 DEF Standing, TopIn, Uncounted, Apart
<1>3. ASSUME NEW x \in DOMAIN st, Open(st, 0, x)
      PROVE  /\ UpIn(js, j, st[x].node) = st[x].job
             /\ ParIn(f, n) = st[x].node /\ ParIn(f, n) # 0
             /\ x = 1 => h = st[x].node
  BY <1>1, <1>3, OpenUnder DEF Under
<1>4. CASE ClimbsUp(f, js, c, st, ks, d, q)
  <2> DEFINE a == Frame("end", 0, j, 0)
  <2>1. d = Call("recall", h, j) /\ q = <<a>> \o st
    BY <1>4 DEF ClimbsUp
  <2>2. a.fn = "end" /\ a.job = j
    BY DEF Frame
  <2>3. d.op = "recall" /\ d.node = h /\ d.job = j /\ Uncounted(d) = 2
    BY <2>1 DEF Call, Uncounted
  <2> HIDE DEF a, h
  <2>4. Over(f, js, a, st)
    BY <1>2, <1>3, <2>2 DEF Over, Sits
  <2>5. StackIn(f, js, q, 2) /\ \A x \in DOMAIN q : ~ Open(q, 0, x)
    BY <1>1, <1>2, <2>1, <2>2, <2>4, StackPush
  <2>6. Apart(f, js, q, j, d.op # "run")
    <3>1. Apart(f, js, st, j, d.op # "run")
      BY <1>2, <2>3 DEF Apart
    <3> QED
      BY <1>1, <2>1, <2>2, <2>3, <3>1, ApartPush
  <2>7. (2 \in DOMAIN q /\ q[2].fn = "parallel") => d.node = q[2].node
    <3> SUFFICES ASSUME 2 \in DOMAIN q, q[2].fn = "parallel"
                 PROVE  h = q[2].node
      BY <2>3
    <3>1. /\ DOMAIN st = 1..Len(st) /\ Len(st) \in Nat
          /\ DOMAIN q = 1..(Len(st) + 1)
          /\ \A i \in 1..Len(st) : q[i + 1] = st[i]
      BY <1>1, <2>1, PushIs
    <3>2. 1 \in DOMAIN st /\ q[1 + 1] = st[1]
      BY <3>1
    <3>3. q[2] = st[1] /\ st # <<>>
      BY <3>2
    <3>4. Open(st, 0, 1)
      BY <1>1, <3>3, OpenFirst
    <3> QED
      BY <1>3, <3>2, <3>3, <3>4
  <2> QED
    BY <1>1, <2>3, <2>5, <2>6, <2>7 DEF Standing, TopIn
<1>5. CASE Exits(f, js, c, st, ks, g, d, q)
  <2>1. h = 0 /\ d = Return(0) /\ q = st
    BY <1>5 DEF Exits
  <2>2. ParIn(f, n) = 0
    BY <1>1, <2>1, HomePlace DEF ParIn
  <2>3. \A x \in DOMAIN st : ~ Open(st, 0, x)
    BY <1>3, <2>2
  <2>4. Apart(f, js, st, 0, TRUE)
    BY ApartZero
  <2> QED
    BY <1>1, <1>2, <2>1, <2>3, <2>4, ReturnsNothing
<1> QED
  BY <1>4, <1>5

\* What is left when the call that waits first goes on.
Popped(f, js, c, st) ==
    LET a == st[1]
        t == Tail(st)
    IN /\ t \in Seq(Frames(Len(f), Len(js)))
       /\ StackIn(f, js, t, 1)
       /\ Over(f, js, a, t)
       /\ Apart(f, js, t, c.job, TRUE)
       /\ a.fn = "end" => Continues(f, js, t, a.job)
       /\ \A x \in DOMAIN t : (Open(t, 0, x) /\ a.fn = "exec") =>
             UpIn(js, c.job, t[x].node) = t[x].job /\ t[x].job # 0
       /\ a.fn # "end" => a.node \in DOMAIN f
       /\ a.fn # "exec" => a.job \in DOMAIN js

\* The invariant gives it.
LEMMA PoppedIs ==
    ASSUME NEW f, NEW js, NEW c, NEW st, Typed(f, js, c, st), Standing(f, js, c, st), c.op = "return", st # <<>>
    PROVE  Popped(f, js, c, st)
<1> DEFINE t == Tail(st)
<1>1. st \in Seq(Frames(Len(f), Len(js)))
  BY DEF Typed
<1>2. StackIn(f, js, st, 1) /\ Apart(f, js, st, c.job, TRUE)
  BY DEF Standing, TopIn, Uncounted, Apart
<1>3. t \in Seq(Frames(Len(f), Len(js))) /\ 1 \in DOMAIN st
  BY <1>1
<1>4. /\ StackIn(f, js, t, 1)
      /\ Over(f, js, st[1], t)
      /\ st[1].fn = "end" => Continues(f, js, t, st[1].job)
      /\ \A x \in DOMAIN t : (Open(t, 0, x) /\ st[1].fn = "exec") =>
            x + 1 \in DOMAIN st /\ Open(st, 0, x + 1) /\ t[x] = st[x + 1]
      /\ \A x \in DOMAIN t : x + 1 \in DOMAIN st /\ t[x] = st[x + 1]
  BY <1>1, <1>2, StackPop
<1> HIDE DEF t
<1>5. Apart(f, js, t, c.job, TRUE)
  BY <1>2, <1>4 DEF Apart
<1>6. ASSUME NEW x \in DOMAIN t, Open(t, 0, x), st[1].fn = "exec"
      PROVE  UpIn(js, c.job, t[x].node) = t[x].job /\ t[x].job # 0
  <2>1. x + 1 \in DOMAIN st /\ Open(st, 0, x + 1) /\ t[x] = st[x + 1]
    BY <1>4, <1>6
  <2> QED
    BY <2>1, OpenUnder DEF Under
<1>7. /\ st[1].fn # "end" => st[1].node \in DOMAIN f
      /\ st[1].fn # "exec" => st[1].job \in DOMAIN js
  BY <1>3, TypedIs
<1> QED
  BY <1>3, <1>4, <1>5, <1>6, <1>7 DEF Popped, t

\* A value comes back to the call that waits first.
LEMMA PopsStand ==
    ASSUME NEW f, NEW js, NEW e, NEW c, NEW st, NEW ks, NEW d, NEW q,
           Typed(f, js, c, st), PlacedIn(f, js, e, c, st), Standing(f, js, c, st),
           \/ Skips(f, js, c, st, ks, d, q) \/ Follows(f, js, c, st, ks, d, q)
           \/ Yields(f, js, c, st, ks, d, q) \/ StartsNext(f, js, c, st, ks, d, q)
           \/ Joins(f, js, c, st, ks, d, q)
    PROVE  Standing(f, ks, d, q)
<1> DEFINE a == st[1]
           t == Tail(st)
           n == a.node
           p == a.job
<1>1. c.op = "return" /\ st # <<>> /\ ks = js
  BY DEF Skips, Follows, Yields, StartsNext, Joins
<1>2. /\ t \in Seq(Frames(Len(f), Len(js)))
      /\ StackIn(f, js, t, 1)
      /\ Over(f, js, a, t)
      /\ Apart(f, js, t, c.job, TRUE)
      /\ a.fn = "end" => Continues(f, js, t, a.job)
      /\ \A x \in DOMAIN t : (Open(t, 0, x) /\ a.fn = "exec") =>
             UpIn(js, c.job, t[x].node) = t[x].job /\ t[x].job # 0
      /\ a.fn # "end" => a.node \in DOMAIN f
      /\ a.fn # "exec" => a.job \in DOMAIN js
  BY <1>1, PoppedIs DEF Popped
<1>3. a.fn = "parallel" => js[p].node = n
  <2>1. 1 \in DOMAIN st
    BY <1>1 DEF Typed
  <2> QED
    BY <2>1 DEF PlacedIn, WaitingIn
<1>4. BranchesOK(f) /\ Chained(js)
  BY DEF Typed
<1> HIDE DEF a, t
<1>5. CASE Skips(f, js, c, st, ks, d, q)
  <2>1. a.fn = "exec" /\ c.job = 0 /\ d = Return(0) /\ q = t
    BY <1>5 DEF Skips, a, t
  <2>2. \A m : UpIn(js, 0, m) = 0
    BY <1>4, UpStep
  <2>3. \A x \in DOMAIN t : ~ Open(t, 0, x)
    BY <1>2, <2>1, <2>2
  <2>4. Apart(f, js, t, 0, TRUE)
    BY <1>2, <2>1
  <2> QED
    BY <1>1, <1>2, <2>1, <2>3, <2>4, ReturnsNothing
<1>6. CASE Follows(f, js, c, st, ks, d, q)
  <2>1. a.fn = "exec" /\ MovesTo(f, n, c.job, t, d, q) /\ (d.op = "run" => js[c.job].status = "RESOLVED")
    BY <1>6 DEF Follows, a, t
  <2>2. Stands(f, js, n, c.job, t)
    BY <1>2, <2>1 DEF Stands, Over, Sits
  <2>3. Apart(f, js, t, c.job, d.op # "run")
    BY <1>2, <2>1 DEF Apart, Joining
  <2> QED
    BY <1>1, <1>2, <2>1, <2>2, <2>3, MovesStand
<1>7. CASE Yields(f, js, c, st, ks, d, q)
  <2>1. a.fn = "end" /\ d = Return(p) /\ q = t
    BY <1>7 DEF Yields, a, t
  <2>2. \A x \in DOMAIN t : Open(t, 0, x) => UpIn(js, p, t[x].node) = t[x].job
    BY <1>2, <2>1 DEF Over, Sits
  <2>3. Apart(f, js, t, p, TRUE)
    BY <1>2, <2>1 DEF Over, Apart
  <2> QED
    BY <1>1, <1>2, <2>1, <2>2, <2>3, ReturnsStand
<1>8. ASSUME a.fn = "parallel"
      PROVE  /\ Stands(f, js, n, p, t)
             /\ \A ended : Apart(f, js, t, p, ended)
             /\ t # <<>> => t[1].fn # "parallel"
  <2>1. Stands(f, js, n, p, t)
    BY <1>2, <1>8 DEF Stands, Over, Sits
  <2>2. \A ended : Apart(f, js, t, p, ended)
    BY <1>2, <1>8 DEF Over, Apart
  <2>3. ~ (t # <<>> /\ t[1].fn = "parallel")
    <3> SUFFICES ASSUME t # <<>>, t[1].fn = "parallel"
                 PROVE  FALSE
      OBVIOUS
    <3>1. 1 \in DOMAIN t /\ Open(t, 0, 1)
      BY <1>2, OpenFirst
    <3> QED
      BY <1>2, <1>8, <3>1 DEF Over, Sits
  <2> QED
    BY <2>1, <2>2, <2>3
<1>9. CASE StartsNext(f, js, c, st, ks, d, q)
  <2>1. a.fn = "parallel" /\ Enters(f, n, p, a.branch + 1, t, d, q)
    BY <1>9 DEF StartsNext, a, t
  <2>2. n \in DOMAIN f /\ p \in DOMAIN js
    BY <1>2, <2>1
  <2> HIDE DEF n, p
  <2> QED
    BY <1>1, <1>2, <1>3, <1>4, <1>8, <2>1, <2>2, EntersStand
<1>10. CASE Joins(f, js, c, st, ks, d, q)
  <2>1. a.fn = "parallel" /\ MovesTo(f, n, p, t, d, q)
    BY <1>10 DEF Joins, a, t
  <2> QED
    BY <1>1, <1>2, <1>8, <2>1, MovesStand
<1> QED
  BY <1>5, <1>6, <1>7, <1>9, <1>10

\* Every step keeps how the calls stand, until a request waits in a branch.
LEMMA StepsStand ==
    ASSUME NEW f, NEW js, NEW e, NEW c, NEW st, NEW ks, NEW g, NEW d, NEW q,
           Typed(f, js, c, st), PlacedIn(f, js, e, c, st), NoLostIn(f, js), Standing(f, js, c, st),
           Steps(f, js, e, c, st, ks, g, d, q)
    PROVE  Standing(f, ks, d, q) \/ Requested(f, ks)
<1>1. ~ Throws(f, js, c, st, ks, d, q)
  <2> SUFFICES ASSUME c.op = "recall", f[c.node].type = "parallel", UpIn(js, c.job, c.node) = 0
               PROVE  FALSE
    BY DEF Throws
  <2>1. c.node = ParIn(f, js[c.job].node)
    BY DEF PlacedIn, AtPlace
  <2>2. c.job \in DOMAIN js /\ c.node # 0
    BY TypedIs
  <2> QED
    BY <2>1, <2>2 DEF NoLostIn
<1>2. (Stops(f, js, c, st, ks, d, q) \/ Begins(f, js, e, c, st, ks, g, d, q)
       \/ Awakes(f, js, e, c, st, ks, d, q)) => Standing(f, ks, d, q)
  <2> SUFFICES ASSUME \/ Stops(f, js, c, st, ks, d, q) \/ Begins(f, js, e, c, st, ks, g, d, q)
                      \/ Awakes(f, js, e, c, st, ks, d, q)
               PROVE  q = <<>>
    BY EmptyStands
  <2> QED
    BY DEF Stops, Begins, Awakes, PlacedIn, Disciplined, Idle, Call
<1>3. (Executes(f, js, c, st, ks, d, q) \/ Forks(f, js, c, st, ks, d, q)) =>
            Standing(f, ks, d, q) \/ Requested(f, ks)
  BY GrowsStand
<1>4. Recalls(f, js, c, st, ks, d, q) => Standing(f, ks, d, q)
  BY RecallsStand
<1>5. PassesOn(f, js, c, st, ks, d, q) => Standing(f, ks, d, q)
  BY PassesStand
<1>6. Ignores(f, js, c, st, ks, d, q) => Standing(f, ks, d, q)
  BY IgnoresStand
<1>7. Counts(f, js, c, st, ks, d, q) => Standing(f, ks, d, q)
  BY CountsStand
<1>8. (ClimbsUp(f, js, c, st, ks, d, q) \/ Exits(f, js, c, st, ks, g, d, q)) => Standing(f, ks, d, q)
  BY EndsStand
<1>9. (Skips(f, js, c, st, ks, d, q) \/ Follows(f, js, c, st, ks, d, q)
       \/ Yields(f, js, c, st, ks, d, q) \/ StartsNext(f, js, c, st, ks, d, q)
       \/ Joins(f, js, c, st, ks, d, q)) => Standing(f, ks, d, q)
  BY PopsStand
<1> QED
  BY <1>1, <1>2, <1>3, <1>4, <1>5, <1>6, <1>7, <1>8, <1>9 DEF Steps

\* A job is lost only after a request.
LEMMA StepsNoLost ==
    ASSUME NEW f, NEW js, NEW e, NEW c, NEW st, NEW ks, NEW g, NEW d, NEW q,
           Typed(f, js, c, st), PlacedIn(f, js, e, c, st), NoLostIn(f, js),
           Steps(f, js, e, c, st, ks, g, d, q)
    PROVE  NoLostIn(f, ks) \/ Requested(f, ks)
<1> DEFINE n == c.node
           j == c.job
           new == Len(js) + 1
<1>1. /\ WellFormed(f) /\ Chained(js) /\ j \in DOMAIN js \cup {0} /\ Len(js) \in Nat
      /\ \A z \in DOMAIN js : js[z].node \in DOMAIN f
  BY TypedIs DEF Typed
<1>2. ASSUME SameUps(js, ks), DOMAIN ks = DOMAIN js
      PROVE  NoLostIn(f, ks)
  <2>1. \A z \in DOMAIN js : ks[z].node = js[z].node /\ \A m : UpIn(ks, z, m) = UpIn(js, z, m)
    BY <1>2, UpsStay DEF SameUps
  <2> QED
    BY <1>2, <2>1 DEF NoLostIn
<1>3. ASSUME NEW s, Grown(js, ks, n, s, j), n \in DOMAIN f, ParIn(f, n) # 0 => UpIn(js, j, ParIn(f, n)) # 0
      PROVE  NoLostIn(f, ks)
  <2>1. UpsOfGrown(js, ks, n, j)
    BY <1>1, <1>3, GrownUp
  <2>2. ParIn(f, n) # n
    BY <1>1, <1>3, ParIsOther
  <2>3. ks[new].node = n /\ \A z \in DOMAIN js : ks[z] = js[z]
    BY <1>3 DEF Grown
  <2> HIDE DEF new
  <2>4. UpIn(ks, new, ParIn(f, n)) = UpIn(js, j, ParIn(f, n))
    BY <2>1, <2>2 DEF UpsOfGrown, new
  <2>5. \A z \in DOMAIN ks : z = new \/ (z \in DOMAIN js /\ \A m : UpIn(ks, z, m) = UpIn(js, z, m))
    BY <2>1 DEF UpsOfGrown, new
  <2> QED
    BY <1>3, <2>3, <2>4, <2>5 DEF NoLostIn
<1>4. ASSUME c.op = "run"
      PROVE  n \in DOMAIN f /\ (ParIn(f, n) # 0 => UpIn(js, j, ParIn(f, n)) # 0)
  <2>1. n \in DOMAIN f
    BY <1>4, TypedIs
  <2> SUFFICES ASSUME ParIn(f, n) # 0
               PROVE  UpIn(js, j, ParIn(f, n)) # 0
    BY <2>1
  <2>2. PlaceIn(f, n) # 0
    BY DEF ParIn
  <2>3. CASE j # 0 /\ PlaceIn(f, js[j].node) = PlaceIn(f, n)
    <3>1. ParIn(f, js[j].node) = ParIn(f, n)
      BY <2>3 DEF ParIn
    <3> QED
      BY <1>1, <2>3, <3>1 DEF NoLostIn
  <2>4. CASE j # 0 /\ js[j].node = ParIn(f, n)
    <3> DEFINE m == ParIn(f, n)
    <3>1. j \in DOMAIN js /\ j \in Nat /\ js[j].node = m
      BY <1>1, <2>4 DEF Chained
    <3> HIDE DEF m
    <3>2. UpIn(js, j, m) = j
      BY <1>1, <3>1, UpStep
    <3> QED
      BY <2>4, <3>2 DEF m
  <2> QED
    BY <1>4, <2>2, <2>3, <2>4 DEF PlacedIn, AtPlace
<1>5. CASE Executes(f, js, c, st, ks, d, q) \/ Forks(f, js, c, st, ks, d, q)
  <2>1. c.op = "run" /\ (f[n].type # "request" => \E s : Grown(js, ks, n, s, j))
    BY <1>5 DEF Executes, Forks
  <2>2. CASE f[n].type # "request"
    BY <1>3, <1>4, <2>1, <2>2
  <2>3. CASE f[n].type = "request"
    <3>1. PICK s \in Status : Grown(js, ks, n, s, 0) /\ s = "PENDING"
      BY <1>5, <2>3 DEF Executes, Forks, Asynchronous
    <3>2. new \in DOMAIN ks /\ ks[new].status = "PENDING" /\ ks[new].node = n
          /\ \A z \in DOMAIN js : ks[z] = js[z]
      BY <1>1, <3>1 DEF Grown
    <3>3. UpsOfGrown(js, ks, n, 0)
      BY <3>1, GrownUp
    <3>4. CASE ParIn(f, n) # 0
      BY <2>3, <3>2, <3>4 DEF Requested
    <3>5. CASE ParIn(f, n) = 0
      <4>1. \A z \in DOMAIN ks : z = new \/ (z \in DOMAIN js /\ \A m : UpIn(ks, z, m) = UpIn(js, z, m))
        BY <3>3 DEF UpsOfGrown
      <4> HIDE DEF new
      <4> QED
        BY <3>2, <3>5, <4>1 DEF NoLostIn
    <3> QED
      BY <3>4, <3>5
  <2> QED
    BY <2>2, <2>3
<1>6. ~ Throws(f, js, c, st, ks, d, q)
  <2> SUFFICES ASSUME c.op = "recall", f[c.node].type = "parallel", UpIn(js, c.job, c.node) = 0
               PROVE  FALSE
    BY DEF Throws
  <2>1. c.node = ParIn(f, js[c.job].node)
    BY DEF PlacedIn, AtPlace
  <2>2. c.job \in DOMAIN js /\ c.node # 0
    BY TypedIs
  <2> QED
    BY <2>1, <2>2 DEF NoLostIn
<1>7. CASE \E p : Changed(js, ks, p)
  BY <1>2, <1>7 DEF Changed
<1>8. CASE ks = js
  BY <1>8
<1> QED
  BY <1>5, <1>6, <1>7, <1>8 DEF Steps, Begins, Exits, Recalls, Counts, PassesOn, Ignores, ClimbsUp, Skips,
     Follows, Yields, StartsNext, Joins, Stops, Awakes

-----------------------------------------------------------------------------
(* What goes on with each branch that a parallel job waits for              *)

\* The node that a call is at: for resume(), the one whose job is passed on.
Where(f, js, c) == IF c.op = "recall" THEN js[c.job].node ELSE c.node

\* The call c is in the branch that starts at node s, for the parallel job p; on the
\* main flow both are 0.
Attends(f, js, c, s, p) ==
    /\ c.op \in {"run", "end", "recall"}
    /\ PlaceIn(f, Where(f, js, c)) = s
    /\ UpIn(js, c.job, ParIn(f, Where(f, js, c))) = p

\* A job is pending there.
Suspends(f, js, s, p) ==
    \E z \in DOMAIN js :
        /\ js[z].status = "PENDING"
        /\ PlaceIn(f, js[z].node) = s
        /\ UpIn(js, z, ParIn(f, js[z].node)) = p

Alive(f, js, c, s, p) == Attends(f, js, c, s, p) \/ Suspends(f, js, s, p)

\* The branch i of the parallel job p is decided, goes on, or is yet to start.
Awaited(f, js, c, st, p, i) ==
    \/ js[p].result[i] \in {"RESOLVED", "FAILED"}
    \/ Alive(f, js, c, BranchesIn(f, js[p].node)[i], p)
    \/ \E x \in DOMAIN st : st[x].fn = "parallel" /\ st[x].job = p /\ st[x].branch < i

BranchesWait(f, js, c, st) ==
    \A p \in DOMAIN js : Joining(f, js, p) =>
        \A i \in DOMAIN BranchesIn(f, js[p].node) : Awaited(f, js, c, st, p, i)

MainWaits(f, js, e, c) == e = "STARTED" => (c.op = "start" \/ Alive(f, js, c, 0, 0))

\* The parallel nodes that wait are still there.
Keeps(st, q) == \A x \in DOMAIN st : st[x].fn = "parallel" => \E y \in DOMAIN q : q[y] = st[x]

\* No job is a job of no node.
LEMMA UpToNone ==
    ASSUME NEW f, NEW js, NEW c, NEW st, Typed(f, js, c, st)
    PROVE  \A j \in DOMAIN js \cup {0} : UpIn(js, j, 0) = 0
<1> TAKE j \in DOMAIN js \cup {0}
<1>1. Chained(js)
  BY DEF Typed
<1>2. UpIn(js, 0, 0) = 0
  BY <1>1, UpStep
<1>3. \A k \in DOMAIN js : UpIn(js, k, 0) # 0 => js[UpIn(js, k, 0)].node = 0 /\ UpIn(js, k, 0) \in DOMAIN js
  BY <1>1, UpStep
<1>4. \A k \in DOMAIN js : js[k].node # 0
  BY TypedIs
<1> QED
  BY <1>2, <1>3, <1>4

\* What waits is kept when nothing changes,
LEMMA KeepsSelf == \A st : Keeps(st, st)
BY DEF Keeps

\* when a call is put on top,
LEMMA PushKeeps ==
    ASSUME NEW S, NEW st \in Seq(S), NEW a
    PROVE  Keeps(st, <<a>> \o st)
<1> DEFINE q == <<a>> \o st
<1>1. /\ DOMAIN st = 1..Len(st) /\ Len(st) \in Nat /\ DOMAIN q = 1..(Len(st) + 1)
      /\ \A i \in 1..Len(st) : q[i + 1] = st[i]
  BY PushIs
<1> HIDE DEF q
<1>2. \A x \in DOMAIN st : x + 1 \in DOMAIN q /\ q[x + 1] = st[x]
  BY <1>1
<1>3. Keeps(st, q)
  BY <1>2 DEF Keeps
<1> QED
  BY <1>3 DEF q

\* When the first goes on, the others are kept.
LEMMA PopKeeps ==
    ASSUME NEW S, NEW st \in Seq(S), st # <<>>
    PROVE  \A x \in DOMAIN st : x = 1 \/ \E y \in DOMAIN Tail(st) : Tail(st)[y] = st[x]
<1> DEFINE t == Tail(st)
<1>1. /\ DOMAIN st = 1..Len(st) /\ Len(st) \in Nat \ {0} /\ DOMAIN t = 1..(Len(st) - 1)
      /\ \A i \in 1..(Len(st) - 1) : t[i] = st[i + 1]
  BY PopIs
<1> HIDE DEF t
<1>2. \A x \in DOMAIN st \ {1} : x - 1 \in 1..(Len(st) - 1) /\ (x - 1) + 1 = x
  BY <1>1
<1>3. \A x \in DOMAIN st \ {1} : x - 1 \in DOMAIN t /\ t[x - 1] = st[x]
  <2> TAKE x \in DOMAIN st \ {1}
  <2>1. t[x - 1] = st[(x - 1) + 1]
    BY <1>1, <1>2
  <2> QED
    BY <1>1, <1>2, <2>1
<1> QED
  BY <1>3 DEF t

\* and when a call goes on.
LEMMA MovesKeep ==
    ASSUME NEW f, NEW n, NEW k, NEW S, NEW st \in Seq(S), NEW d, NEW q, MovesTo(f, n, k, st, d, q)
    PROVE  Keeps(st, q)
<1>1. CASE q = st
  BY <1>1, KeepsSelf
<1>2. CASE \E m : q = <<Frame("exec", n, m, 0)>> \o st
  BY <1>2, PushKeeps
<1> QED
  BY <1>1, <1>2 DEF MovesTo

\* The branches wait as before, where nothing is lost.
LEMMA WaitsStay ==
    ASSUME NEW f, NEW js, NEW c, NEW st, NEW ks, NEW d, NEW q, BranchesWait(f, js, c, st),
           \A s, p : Alive(f, js, c, s, p) => Alive(f, ks, d, s, p),
           Keeps(st, q),
           \A p \in DOMAIN ks : Joining(f, ks, p) =>
               (p \in DOMAIN js /\ ks[p] = js[p]) \/ BranchesIn(f, ks[p].node) = <<>>
    PROVE  BranchesWait(f, ks, d, q)
<1> SUFFICES ASSUME NEW p \in DOMAIN ks, Joining(f, ks, p), NEW i \in DOMAIN BranchesIn(f, ks[p].node)
             PROVE  Awaited(f, ks, d, q, p, i)
  BY DEF BranchesWait
<1>1. p \in DOMAIN js /\ ks[p] = js[p]
  <2>1. BranchesIn(f, ks[p].node) # <<>>
    OBVIOUS
  <2> QED
    BY <2>1
<1>2. Joining(f, js, p) /\ i \in DOMAIN BranchesIn(f, js[p].node)
  BY <1>1 DEF Joining
<1>3. Awaited(f, js, c, st, p, i)
  BY <1>1, <1>2 DEF BranchesWait
<1> QED
  BY <1>1, <1>3 DEF Awaited, Keeps

\* The call goes on at the same place, for the same job.
LEMMA AttendsMoves ==
    ASSUME NEW f, NEW ks, NEW n, NEW k, NEW st, NEW d, NEW q, MovesTo(f, n, k, st, d, q)
    PROVE  Attends(f, ks, d, PlaceIn(f, n), UpIn(ks, k, ParIn(f, n)))
<1>1. d.op \in {"run", "end"} /\ d.job = k /\ PlaceIn(f, d.node) = PlaceIn(f, n) /\ Where(f, ks, d) = d.node
  BY DEF MovesTo, Where
<1>2. ParIn(f, d.node) = ParIn(f, n)
  BY <1>1 DEF ParIn
<1> QED
  BY <1>1, <1>2 DEF Attends

\* A job that is still pending stands where it stood.
LEMMA SuspendsStill ==
    ASSUME NEW f, NEW js, NEW ks, SameUps(js, ks), NEW z \in DOMAIN js, ks[z].status = "PENDING"
    PROVE  Suspends(f, ks, PlaceIn(f, js[z].node), UpIn(js, z, ParIn(f, js[z].node)))
<1>1. z \in DOMAIN ks /\ ks[z].node = js[z].node
  BY DEF SameUps
<1>2. UpIn(ks, z, ParIn(f, js[z].node)) = UpIn(js, z, ParIn(f, js[z].node))
  BY UpsStay
<1> QED
  BY <1>1, <1>2 DEF Suspends

\* What suspends a branch stays when no job that was pending is updated.
LEMMA SuspendsStay ==
    ASSUME NEW f, NEW js, NEW ks, SameUps(js, ks),
           \A z \in DOMAIN js : js[z].status = "PENDING" => ks[z].status = "PENDING"
    PROVE  \A s, p : Suspends(f, js, s, p) => Suspends(f, ks, s, p)
<1> SUFFICES ASSUME NEW s, NEW p, Suspends(f, js, s, p)
             PROVE  Suspends(f, ks, s, p)
  OBVIOUS
<1>1. PICK z \in DOMAIN js : /\ js[z].status = "PENDING" /\ PlaceIn(f, js[z].node) = s
                             /\ UpIn(js, z, ParIn(f, js[z].node)) = p
  BY DEF Suspends
<1>2. Suspends(f, ks, PlaceIn(f, js[z].node), UpIn(js, z, ParIn(f, js[z].node)))
  BY <1>1, SuspendsStill
<1> QED
  BY <1>1, <1>2

\* So it does when a job is added.
LEMMA GrownSuspends ==
    ASSUME NEW f, NEW js, NEW ks, NEW n, NEW s, NEW u, Grown(js, ks, n, s, u)
    PROVE  \A x, p : Suspends(f, js, x, p) => Suspends(f, ks, x, p)
<1>1. SameUps(js, ks) /\ \A j \in DOMAIN js : ks[j] = js[j]
  BY DEF Grown
<1> QED
  BY <1>1, SuspendsStay

\* The new job of node n belongs to the parallel job that the one before it does.
OwnerOfGrown(f, js, ks, n, u) ==
    LET new == Len(js) + 1
    IN /\ UpIn(ks, new, ParIn(f, n)) = UpIn(js, u, ParIn(f, n))
       /\ new \in DOMAIN ks
       /\ \A z \in DOMAIN ks : z \in DOMAIN js \/ z = new

\* It does, by the ways up.
LEMMA GrownOwner ==
    ASSUME NEW f, WellFormed(f), NEW js, NEW ks, NEW n \in DOMAIN f, NEW s,
           NEW u \in DOMAIN js \cup {0}, Grown(js, ks, n, s, u)
    PROVE  OwnerOfGrown(f, js, ks, n, u)
<1>1. UpsOfGrown(js, ks, n, u)
  BY GrownUp
<1>2. ParIn(f, n) # n
  BY ParIsOther
<1> DEFINE new == Len(js) + 1
           m == ParIn(f, n)
<1>3. \A x : x # n => UpIn(ks, new, x) = UpIn(js, u, x)
  BY <1>1 DEF UpsOfGrown
<1>4. new \in DOMAIN ks /\ DOMAIN ks = DOMAIN js \cup {new}
  BY <1>1 DEF UpsOfGrown
<1> HIDE DEF m, new
<1>5. UpIn(ks, new, m) = UpIn(js, u, m)
  BY <1>2, <1>3 DEF m
<1> QED
  BY <1>4, <1>5 DEF m, new, OwnerOfGrown

\* Each of the steps keeps each branch decided, attended, suspended or yet to start.
LEMMA ExecutesWait ==
    ASSUME NEW f, NEW js, NEW e, NEW c, NEW st, NEW ks, NEW d, NEW q, Typed(f, js, c, st),
           Executes(f, js, c, st, ks, d, q), BranchesWait(f, js, c, st), MainWaits(f, js, e, c),
           ~ Requested(f, ks)
    PROVE  BranchesWait(f, ks, d, q) /\ MainWaits(f, ks, e, d)
<1> DEFINE n == c.node
           new == Len(js) + 1
           u == IF f[n].type = "request" THEN 0 ELSE c.job
<1>1. /\ c.op = "run" /\ n \in DOMAIN f /\ 0 \notin DOMAIN f /\ c.job \in DOMAIN js \cup {0}
      /\ st \in Seq(Frames(Len(f), Len(js))) /\ WellFormed(f) /\ Chained(js)
  BY TypedIs DEF Typed, Executes
<1>2. PICK s \in Status : /\ Grown(js, ks, n, s, u) /\ MovesTo(f, n, new, st, d, q)
                          /\ s = "PENDING" <=> f[n].type \in Asynchronous \cup {"parallel"}
  BY DEF Executes
<1>3. u \in DOMAIN js \cup {0}
  BY <1>1
<1>4. u = 0 \/ u = c.job
  OBVIOUS
<1>5. f[n].type = "request" => u = 0
  OBVIOUS
<1>6. f[n].type # "request" => u = c.job
  OBVIOUS
<1>7. /\ ks[new].node = n /\ ks[new].status = s
      /\ \A j \in DOMAIN js : ks[j] = js[j]
  BY <1>2 DEF Grown
<1> HIDE DEF u
<1>8. /\ UpIn(ks, new, ParIn(f, n)) = UpIn(js, u, ParIn(f, n)) /\ new \in DOMAIN ks
      /\ \A z \in DOMAIN ks : z \in DOMAIN js \/ z = new
  <2>1. OwnerOfGrown(f, js, ks, n, u)
    BY <1>1, <1>2, <1>3, GrownOwner
  <2> QED
    BY <2>1 DEF OwnerOfGrown
<1>9. f[n].type = "parallel" => BranchesIn(f, n) = <<>>
  BY DEF Executes
<1> HIDE DEF new
<1>10. UpIn(js, u, ParIn(f, n)) = UpIn(js, c.job, ParIn(f, n))
  <2>1. CASE f[n].type # "request"
    BY <1>6, <2>1
  <2>2. CASE f[n].type = "request"
    <3>1. s = "PENDING"
      BY <1>2, <2>2 DEF Asynchronous
    <3>2. ParIn(f, n) = 0
      BY <1>7, <1>8, <2>2, <3>1 DEF Requested
    <3>3. \A j \in DOMAIN js \cup {0} : UpIn(js, j, 0) = 0
      BY UpToNone
    <3> QED
      BY <1>1, <1>3, <3>2, <3>3
  <2> QED
    BY <2>1, <2>2
<1>11. \A x, p : Alive(f, js, c, x, p) => Alive(f, ks, d, x, p)
  <2>1. Attends(f, ks, d, PlaceIn(f, n), UpIn(ks, new, ParIn(f, n)))
    BY <1>2, AttendsMoves
  <2>2. \A x, p : Attends(f, js, c, x, p) =>
            x = PlaceIn(f, n) /\ p = UpIn(js, c.job, ParIn(f, n))
    BY <1>1 DEF Attends, Where
  <2>3. \A x, p : Suspends(f, js, x, p) => Suspends(f, ks, x, p)
    BY <1>2, GrownSuspends
  <2> QED
    BY <1>8, <1>10, <2>1, <2>2, <2>3 DEF Alive
<1>12. Keeps(st, q)
  BY <1>1, <1>2, MovesKeep
<1>13. \A p \in DOMAIN ks : Joining(f, ks, p) =>
          (p \in DOMAIN js /\ ks[p] = js[p]) \/ BranchesIn(f, ks[p].node) = <<>>
  BY <1>7, <1>8, <1>9 DEF Joining
<1>14. BranchesWait(f, ks, d, q)
  BY <1>11, <1>12, <1>13, WaitsStay
<1>15. MainWaits(f, ks, e, d)
  BY <1>1, <1>11 DEF MainWaits
<1> QED
  BY <1>14, <1>15

LEMMA ForksWait ==
    ASSUME NEW f, NEW js, NEW e, NEW c, NEW st, NEW ks, NEW d, NEW q, Typed(f, js, c, st),
           Forks(f, js, c, st, ks, d, q), BranchesWait(f, js, c, st), MainWaits(f, js, e, c)
    PROVE  BranchesWait(f, ks, d, q) /\ MainWaits(f, ks, e, d)
<1> DEFINE n == c.node
           new == Len(js) + 1
<1>1. /\ c.op = "run" /\ n \in DOMAIN f /\ 0 \notin DOMAIN f /\ c.job \in DOMAIN js \cup {0}
      /\ st \in Seq(Frames(Len(f), Len(js))) /\ WellFormed(f) /\ Chained(js) /\ BranchesOK(f)
      /\ Grown(js, ks, n, "PENDING", c.job) /\ f[n].type = "parallel"
  BY TypedIs DEF Typed, Forks
<1>2. PICK m : Enters(f, n, new, 1, <<Frame("exec", n, m, 0)>> \o st, d, q)
  BY DEF Forks
<1>3. /\ ks[new].node = n /\ ks[new].status = "PENDING"
      /\ \A j \in DOMAIN js : ks[j] = js[j]
  BY <1>1 DEF Grown
<1>4. /\ UpIn(ks, new, ParIn(f, n)) = UpIn(js, c.job, ParIn(f, n)) /\ new \in DOMAIN ks
      /\ \A z \in DOMAIN ks : z \in DOMAIN js \/ z = new
  <2>1. OwnerOfGrown(f, js, ks, n, c.job)
    BY <1>1, GrownOwner
  <2> QED
    BY <2>1 DEF OwnerOfGrown
<1>5. UpIn(ks, new, n) = new
  <2>1. UpsOfGrown(js, ks, n, c.job)
    BY <1>1, GrownUp
  <2> QED
    BY <2>1 DEF UpsOfGrown
<1> HIDE DEF new
<1>6. \A x, p : Alive(f, js, c, x, p) => Alive(f, ks, d, x, p)
  <2>1. Suspends(f, ks, PlaceIn(f, n), UpIn(ks, new, ParIn(f, n)))
    BY <1>3, <1>4 DEF Suspends
  <2>2. \A x, p : Attends(f, js, c, x, p) =>
            x = PlaceIn(f, n) /\ p = UpIn(js, c.job, ParIn(f, n))
    BY <1>1 DEF Attends, Where
  <2>3. \A x, p : Suspends(f, js, x, p) => Suspends(f, ks, x, p)
    BY <1>1, GrownSuspends
  <2> QED
    BY <1>4, <2>1, <2>2, <2>3 DEF Alive
<1> DEFINE a == Frame("exec", n, m, 0)
           b == Frame("parallel", n, new, 1)
           r == <<a>> \o st
<1>7. /\ b.fn = "parallel" /\ b.job = new /\ b.branch = 1
      /\ d.op = "run" /\ d.node = BranchesIn(f, n)[1] /\ d.job = new
      /\ 1 \in DOMAIN BranchesIn(f, n) /\ q = <<b>> \o r
  BY <1>2 DEF Enters, Frame, Call
<1>8. /\ Keeps(st, q) /\ 1 \in DOMAIN q /\ q[1] = b
  <2>1. st \in Seq(Frames(Len(f), Len(js)) \cup {a, b}) /\ a \in Frames(Len(f), Len(js)) \cup {a, b}
    BY <1>1
  <2> HIDE DEF a, b
  <2>2. r \in Seq(Frames(Len(f), Len(js)) \cup {a, b})
    BY <2>1
  <2>3. Keeps(st, r)
    BY <2>1, PushKeeps
  <2> HIDE DEF r
  <2>4. Keeps(r, q)
    BY <1>7, <2>2, PushKeeps
  <2>5. DOMAIN q = 1..(Len(r) + 1) /\ q[1] = b /\ Len(r) \in Nat
    BY <1>7, <2>2, PushIs
  <2>6. Keeps(st, q)
    BY <2>3, <2>4 DEF Keeps
  <2> QED
    BY <2>5, <2>6
<1> HIDE DEF a, b, r
<1>9. Attends(f, ks, d, BranchesIn(f, n)[1], new)
  <2>1. PlaceIn(f, d.node) = d.node /\ ParIn(f, d.node) = n
    BY <1>1, <1>7 DEF BranchesOK
  <2>2. Where(f, ks, d) = d.node
    BY <1>7 DEF Where
  <2> QED
    BY <1>5, <1>7, <2>1, <2>2 DEF Attends
<1>10. ASSUME NEW p \in DOMAIN ks, Joining(f, ks, p), NEW i \in DOMAIN BranchesIn(f, ks[p].node)
       PROVE  Awaited(f, ks, d, q, p, i)
  <2>1. CASE p \in DOMAIN js
    <3>1. ks[p] = js[p] /\ Awaited(f, js, c, st, p, i)
      BY <1>3, <1>10, <2>1 DEF Joining, BranchesWait
    <3> QED
      BY <1>6, <1>8, <3>1 DEF Awaited, Keeps
  <2>2. CASE p = new
    <3>1. i \in Nat /\ i >= 1
      <4>1. DOMAIN BranchesIn(f, n) = 1..Len(BranchesIn(f, n)) /\ Len(BranchesIn(f, n)) \in 0..Len(f)
        BY <1>1 DEF BranchesOK
      <4>2. i \in DOMAIN BranchesIn(f, n)
        BY <1>3, <1>10, <2>2
      <4> HIDE DEF n
      <4> QED
        BY <4>1, <4>2
    <3>2. CASE i = 1
      BY <1>3, <1>9, <2>2, <3>2 DEF Awaited, Alive
    <3>3. CASE 1 < i
      BY <1>7, <1>8, <2>2, <3>3 DEF Awaited
    <3> QED
      BY <3>1, <3>2, <3>3
  <2> QED
    BY <1>4, <2>1, <2>2
<1>11. MainWaits(f, ks, e, d)
  BY <1>1, <1>6 DEF MainWaits
<1> QED
  BY <1>10, <1>11 DEF BranchesWait

LEMMA RecallsWait ==
    ASSUME NEW f, NEW js, NEW e, NEW c, NEW st, NEW ks, NEW d, NEW q,
           Typed(f, js, c, st), PlacedIn(f, js, e, c, st), Recalls(f, js, c, st, ks, d, q),
           BranchesWait(f, js, c, st), MainWaits(f, js, e, c)
    PROVE  BranchesWait(f, ks, d, q) /\ MainWaits(f, ks, e, d)
<1> DEFINE n == c.node
           j == c.job
<1>1. /\ c.op = "recall" /\ f[n].type \in Asynchronous /\ Changed(js, ks, j) /\ MovesTo(f, n, j, st, d, q)
      /\ SameUps(js, ks) /\ st \in Seq(Frames(Len(f), Len(js))) /\ j \in DOMAIN js
  BY TypedIs DEF Recalls, Changed, Typed
<1>2. js[j].node = n /\ ks[j].node = n
  BY <1>1 DEF PlacedIn, Disciplined, SameUps
<1>3. DOMAIN ks = DOMAIN js /\ \A z \in DOMAIN js : z # j => ks[z] = js[z]
  BY <1>1 DEF Changed
<1> DEFINE s0 == PlaceIn(f, n)
           p0 == UpIn(js, j, ParIn(f, n))
<1>4. Attends(f, ks, d, s0, p0)
  <2>1. UpIn(ks, j, ParIn(f, n)) = UpIn(js, j, ParIn(f, n))
    BY <1>1, UpsStay
  <2> QED
    BY <1>1, <2>1, AttendsMoves
<1>5. \A s, p : Alive(f, js, c, s, p) => Alive(f, ks, d, s, p)
  <2> SUFFICES ASSUME NEW s, NEW p, Alive(f, js, c, s, p)
               PROVE  Alive(f, ks, d, s, p)
    OBVIOUS
  <2>1. CASE Attends(f, js, c, s, p)
    <3>1. s = s0 /\ p = p0
      BY <1>1, <1>2, <2>1 DEF Attends, Where
    <3> QED
      BY <1>4, <3>1 DEF Alive
  <2>2. CASE Suspends(f, js, s, p)
    <3>1. PICK z \in DOMAIN js : /\ js[z].status = "PENDING" /\ PlaceIn(f, js[z].node) = s
                                 /\ UpIn(js, z, ParIn(f, js[z].node)) = p
      BY <2>2 DEF Suspends
    <3>2. CASE z = j
      BY <1>2, <1>4, <3>1, <3>2 DEF Alive
    <3>3. CASE z # j
      <4>1. ks[z].status = "PENDING"
        BY <1>3, <3>1, <3>3
      <4> QED
        BY <1>1, <3>1, <4>1, SuspendsStill DEF Alive
    <3> QED
      BY <3>2, <3>3
  <2> QED
    BY <2>1, <2>2 DEF Alive
<1>6. Keeps(st, q)
  BY <1>1, MovesKeep
<1>7. \A p \in DOMAIN ks : Joining(f, ks, p) => p \in DOMAIN js /\ ks[p] = js[p]
  BY <1>1, <1>2, <1>3 DEF Joining, Asynchronous
<1>8. BranchesWait(f, ks, d, q)
  BY <1>5, <1>6, <1>7, WaitsStay
<1> QED
  BY <1>1, <1>5, <1>8 DEF MainWaits

\* The jobs stay, and the call goes on where it was.
LEMMA SameWait ==
    ASSUME NEW f, NEW js, NEW e, NEW c, NEW st, NEW d, NEW q, c.op # "start",
           BranchesWait(f, js, c, st), MainWaits(f, js, e, c), Keeps(st, q),
           \A s, p : Attends(f, js, c, s, p) => Alive(f, js, d, s, p)
    PROVE  BranchesWait(f, js, d, q) /\ MainWaits(f, js, e, d)
<1>1. \A s, p : Alive(f, js, c, s, p) => Alive(f, js, d, s, p)
  BY DEF Alive
<1>2. BranchesWait(f, js, d, q)
  BY <1>1, WaitsStay
<1> QED
  BY <1>1, <1>2 DEF MainWaits

LEMMA PassesWait ==
    ASSUME NEW f, NEW js, NEW e, NEW c, NEW st, NEW ks, NEW d, NEW q,
           Typed(f, js, c, st), PlacedIn(f, js, e, c, st), PassesOn(f, js, c, st, ks, d, q),
           BranchesWait(f, js, c, st), MainWaits(f, js, e, c)
    PROVE  BranchesWait(f, ks, d, q) /\ MainWaits(f, ks, e, d)
<1> DEFINE n == c.node
           j == c.job
<1>1. /\ c.op = "recall" /\ f[n].type = "condition" /\ ks = js /\ MovesTo(f, n, j, st, d, q)
      /\ st \in Seq(Frames(Len(f), Len(js)))
  BY DEF PassesOn, Typed
<1>2. PlaceIn(f, n) = PlaceIn(f, js[j].node)
  BY <1>1 DEF PlacedIn, AtPlace
<1>3. ParIn(f, n) = ParIn(f, js[j].node)
  BY <1>2 DEF ParIn
<1>4. Attends(f, js, d, PlaceIn(f, n), UpIn(js, j, ParIn(f, n)))
  BY <1>1, AttendsMoves
<1>5. \A s, p : Attends(f, js, c, s, p) => s = PlaceIn(f, n) /\ p = UpIn(js, j, ParIn(f, n))
  BY <1>1, <1>2, <1>3 DEF Attends, Where
<1>6. \A s, p : Attends(f, js, c, s, p) => Alive(f, js, d, s, p)
  BY <1>4, <1>5 DEF Alive
<1>7. Keeps(st, q)
  BY <1>1, MovesKeep
<1> QED
  BY <1>1, <1>6, <1>7, SameWait

LEMMA ClimbsWait ==
    ASSUME NEW f, NEW js, NEW e, NEW c, NEW st, NEW ks, NEW d, NEW q,
           Typed(f, js, c, st), PlacedIn(f, js, e, c, st), ClimbsUp(f, js, c, st, ks, d, q),
           BranchesWait(f, js, c, st), MainWaits(f, js, e, c)
    PROVE  BranchesWait(f, ks, d, q) /\ MainWaits(f, ks, e, d)
<1> DEFINE n == c.node
           j == c.job
<1>1. /\ c.op = "end" /\ ks = js /\ d = Call("recall", HomeIn(f, n), j)
      /\ q = <<Frame("end", 0, j, 0)>> \o st /\ st \in Seq(Frames(Len(f), Len(js)))
  BY DEF ClimbsUp, Typed
<1>2. d.op = "recall" /\ d.job = j
  BY <1>1 DEF Call
<1>3. PlaceIn(f, js[j].node) = PlaceIn(f, n)
  BY <1>1 DEF PlacedIn, AtPlace
<1>4. ParIn(f, n) = ParIn(f, js[j].node)
  BY <1>3 DEF ParIn
<1>5. \A s, p : Attends(f, js, c, s, p) => Attends(f, js, d, s, p)
  BY <1>1, <1>2, <1>3, <1>4 DEF Attends, Where
<1>6. Keeps(st, q)
  BY <1>1, PushKeeps
<1> QED
  BY <1>1, <1>5, <1>6, SameWait DEF Alive

LEMMA ExitsWait ==
    ASSUME NEW f, NEW js, NEW e, NEW c, NEW st, NEW ks, NEW g, NEW d, NEW q,
           Typed(f, js, c, st), PlacedIn(f, js, e, c, st), Exits(f, js, c, st, ks, g, d, q),
           BranchesWait(f, js, c, st)
    PROVE  BranchesWait(f, ks, d, q) /\ MainWaits(f, ks, g, d)
<1> DEFINE n == c.node
           j == c.job
<1>1. /\ c.op = "end" /\ HomeIn(f, n) = 0 /\ ks = js /\ g = StatusMap(js[j].status) /\ d = Return(0) /\ q = st
      /\ WellFormed(f) /\ n \in DOMAIN f /\ j \in DOMAIN js /\ Chained(js) /\ 0 \notin DOMAIN f
  BY TypedIs DEF Exits, Typed
<1>2. PlaceIn(f, n) = 0 /\ PlaceIn(f, js[j].node) = 0
  <2>1. PlaceIn(f, n) = 0
    BY <1>1, HomePlace
  <2> QED
    BY <1>1, <2>1 DEF PlacedIn, AtPlace
<1>3. MainWaits(f, js, g, d)
  <2> SUFFICES ASSUME g = "STARTED"
               PROVE  Suspends(f, js, 0, 0)
    BY DEF MainWaits, Alive
  <2>1. js[j].status = "PENDING"
    <3>1. js[j].status \in Status
      BY <1>1, TypedIs
    <3> QED
      BY <1>1, <3>1 DEF StatusMap, Status
  <2>2. ParIn(f, js[j].node) = 0
    BY <1>2 DEF ParIn
  <2>3. UpIn(js, j, 0) = 0
    BY <1>1, UpToNone
  <2> QED
    BY <1>1, <1>2, <2>1, <2>2, <2>3 DEF Suspends
<1>4. BranchesWait(f, js, d, q)
  <2> SUFFICES ASSUME NEW p \in DOMAIN js, Joining(f, js, p), NEW i \in DOMAIN BranchesIn(f, js[p].node)
               PROVE  Awaited(f, js, d, q, p, i)
    BY DEF BranchesWait
  <2>1. Awaited(f, js, c, st, p, i)
    BY DEF BranchesWait
  <2> DEFINE s == BranchesIn(f, js[p].node)[i]
  <2>2. s # 0
    <3>1. js[p].node \in DOMAIN f /\ f[js[p].node].type = "parallel"
      BY TypedIs DEF Joining
    <3>2. BranchesOK(f)
      BY DEF Typed
    <3>3. s \in DOMAIN f
      BY <3>1, <3>2 DEF BranchesOK
    <3> QED
      BY <1>1, <3>3
  <2>3. ~ Attends(f, js, c, s, p)
    BY <1>1, <1>2, <2>2 DEF Attends, Where
  <2>4. Alive(f, js, c, s, p) => Alive(f, js, d, s, p)
    BY <2>3 DEF Alive
  <2> HIDE DEF s
  <2> QED
    BY <1>1, <2>1, <2>4 DEF Awaited, s
<1> QED
  BY <1>1, <1>3, <1>4

\* The call of a parallel node's resume() is in the branch that it is resumed by.
LEMMA RecallAttends ==
    ASSUME NEW f, NEW js, NEW e, NEW c, NEW st, Typed(f, js, c, st), PlacedIn(f, js, e, c, st),
           c.op = "recall", f[c.node].type = "parallel"
    PROVE  /\ c.node = ParIn(f, js[c.job].node)
           /\ PlaceIn(f, js[c.job].node) # 0
           /\ \A s, p : Attends(f, js, c, s, p) =>
                 s = PlaceIn(f, js[c.job].node) /\ p = UpIn(js, c.job, c.node)
<1>1. c.node = ParIn(f, js[c.job].node)
  BY DEF PlacedIn, AtPlace
<1>2. c.node # 0
  BY TypedIs
<1>3. PlaceIn(f, js[c.job].node) # 0
  BY <1>1, <1>2 DEF ParIn
<1> QED
  BY <1>1, <1>3 DEF Attends, Where

LEMMA IgnoresWait ==
    ASSUME NEW f, NEW js, NEW e, NEW c, NEW st, NEW ks, NEW d, NEW q,
           Typed(f, js, c, st), PlacedIn(f, js, e, c, st), Ignores(f, js, c, st, ks, d, q),
           BranchesWait(f, js, c, st), MainWaits(f, js, e, c)
    PROVE  BranchesWait(f, ks, d, q) /\ MainWaits(f, ks, e, d)
<1> DEFINE n == c.node
           p0 == UpIn(js, c.job, n)
           s0 == PlaceIn(f, js[c.job].node)
<1>1. c.op = "recall" /\ f[n].type = "parallel" /\ js[p0].status # "PENDING" /\ ks = js /\ q = st
  BY DEF Ignores
<1>2. s0 # 0 /\ \A s, p : Attends(f, js, c, s, p) => s = s0 /\ p = p0
  BY <1>1, RecallAttends
<1> HIDE DEF p0, s0
<1>3. \A s, p : (s = 0 \/ p # p0) /\ Alive(f, js, c, s, p) => Alive(f, js, d, s, p)
  BY <1>2 DEF Alive
<1>4. MainWaits(f, js, e, d)
  BY <1>1, <1>3 DEF MainWaits
<1>5. BranchesWait(f, js, d, q)
  <2> SUFFICES ASSUME NEW p \in DOMAIN js, Joining(f, js, p), NEW i \in DOMAIN BranchesIn(f, js[p].node)
               PROVE  Awaited(f, js, d, q, p, i)
    BY DEF BranchesWait
  <2>1. Awaited(f, js, c, st, p, i)
    BY DEF BranchesWait
  <2>2. p # p0
    BY <1>1 DEF Joining
  <2> QED
    BY <1>1, <1>3, <2>1, <2>2 DEF Awaited
<1> QED
  BY <1>1, <1>4, <1>5

LEMMA CountsWait ==
    ASSUME NEW f, NEW js, NEW e, NEW c, NEW st, NEW ks, NEW d, NEW q,
           Typed(f, js, c, st), PlacedIn(f, js, e, c, st), Counts(f, js, c, st, ks, d, q),
           BranchesWait(f, js, c, st), MainWaits(f, js, e, c)
    PROVE  BranchesWait(f, ks, d, q) /\ MainWaits(f, ks, e, d)
<1> DEFINE n == c.node
           j == c.job
           p0 == UpIn(js, j, n)
           s0 == PlaceIn(f, js[j].node)
<1>1. /\ c.op = "recall" /\ f[n].type = "parallel" /\ p0 # 0 /\ js[p0].status = "PENDING"
      /\ Changed(js, ks, p0) /\ MovesTo(f, n, p0, st, d, q) /\ SameUps(js, ks)
      /\ WellFormed(f) /\ BranchesOK(f) /\ Chained(js) /\ js \in Seq(Rows(Len(f)))
      /\ st \in Seq(Frames(Len(f), Len(js))) /\ j \in DOMAIN js /\ n \in DOMAIN f
  BY TypedIs DEF Counts, Changed, Typed
<1>2. /\ n = ParIn(f, js[j].node) /\ s0 # 0
      /\ \A s, p : Attends(f, js, c, s, p) => s = s0 /\ p = p0
  BY <1>1, RecallAttends
<1>3. p0 \in DOMAIN js /\ js[p0].node = n
  <2> HIDE DEF n, j
  <2> QED
    BY <1>1, UpStep
<1>4. j # p0
  BY <1>1, <1>2, <1>3, ParIsOther
<1>5. DOMAIN js[p0].result = DOMAIN BranchesIn(f, n)
  BY <1>1, <1>3 DEF PlacedIn, PendingIn, Asynchronous
<1>6. PICK i0 \in DOMAIN BranchesIn(f, n) :
         /\ BranchesIn(f, n)[i0] = s0
         /\ ks[p0].result = [js[p0].result EXCEPT ![i0] = js[j].status]
  BY DEF Counts
<1>7. js[j].status \in Status /\ (js[j].status = "PENDING" => ks[j].status = "PENDING")
  BY <1>1, <1>4, TypedIs DEF Changed
<1>8. DOMAIN ks = DOMAIN js /\ \A z \in DOMAIN js : z # p0 => ks[z] = js[z]
  BY <1>1 DEF Changed
<1>9. UpIn(ks, p0, ParIn(f, n)) = UpIn(js, p0, ParIn(f, n))
  BY <1>1, <1>3, UpsStay
<1>10. Attends(f, ks, d, PlaceIn(f, n), UpIn(js, p0, ParIn(f, n)))
  BY <1>1, <1>9, AttendsMoves
<1>11. Keeps(st, q)
  BY <1>1, MovesKeep
<1>12. js[j].status = "PENDING" => Suspends(f, ks, s0, p0)
  BY <1>1, <1>2, <1>7, SuspendsStill
<1>13. ks[p0].node = n
  BY <1>1, <1>3 DEF SameUps
<1> HIDE DEF p0, s0
<1>14. \A s, p : Suspends(f, js, s, p) => Alive(f, ks, d, s, p)
  <2> SUFFICES ASSUME NEW s, NEW p, Suspends(f, js, s, p)
               PROVE  Alive(f, ks, d, s, p)
    OBVIOUS
  <2>1. PICK z \in DOMAIN js : /\ js[z].status = "PENDING" /\ PlaceIn(f, js[z].node) = s
                               /\ UpIn(js, z, ParIn(f, js[z].node)) = p
    BY DEF Suspends
  <2>2. CASE z = p0
    BY <1>3, <1>10, <2>1, <2>2 DEF Alive
  <2>3. CASE z # p0
    <3>1. ks[z].status = "PENDING"
      BY <1>8, <2>1, <2>3
    <3> QED
      BY <1>1, <2>1, <3>1, SuspendsStill DEF Alive
  <2> QED
    BY <2>2, <2>3
<1>15. \A s, p : (s # s0 \/ p # p0) /\ Alive(f, js, c, s, p) => Alive(f, ks, d, s, p)
  BY <1>2, <1>14 DEF Alive
<1>16. MainWaits(f, ks, e, d)
  BY <1>1, <1>2, <1>15 DEF MainWaits
<1>17. ASSUME NEW p \in DOMAIN ks, Joining(f, ks, p), NEW i \in DOMAIN BranchesIn(f, ks[p].node)
       PROVE  Awaited(f, ks, d, q, p, i)
  <2>1. Joining(f, js, p) /\ p \in DOMAIN js /\ ks[p].node = js[p].node
    BY <1>1, <1>3, <1>8, <1>13, <1>17 DEF Joining
  <2>2. Awaited(f, js, c, st, p, i)
    BY <1>17, <2>1 DEF BranchesWait
  <2>3. (\E x \in DOMAIN st : st[x].fn = "parallel" /\ st[x].job = p /\ st[x].branch < i) =>
            (\E x \in DOMAIN q : q[x].fn = "parallel" /\ q[x].job = p /\ q[x].branch < i)
    BY <1>11 DEF Keeps
  <2>4. CASE p # p0
    <3>1. ks[p] = js[p]
      BY <1>8, <2>1, <2>4
    <3>2. Alive(f, js, c, BranchesIn(f, js[p].node)[i], p) => Alive(f, ks, d, BranchesIn(f, js[p].node)[i], p)
      BY <1>15, <2>4
    <3> QED
      BY <2>2, <2>3, <3>1, <3>2 DEF Awaited
  <2>5. CASE p = p0 /\ i # i0
    <3>1. ks[p].result[i] = js[p].result[i]
      BY <1>3, <1>5, <1>6, <1>13, <1>17, <2>5
    <3>2. BranchesIn(f, n)[i] # s0
      BY <1>1, <1>6, <1>13, <1>17, <2>5 DEF BranchesOK
    <3>3. Alive(f, js, c, BranchesIn(f, n)[i], p) => Alive(f, ks, d, BranchesIn(f, n)[i], p)
      BY <1>15, <3>2
    <3> QED
      BY <1>3, <1>13, <2>2, <2>3, <2>5, <3>1, <3>3 DEF Awaited
  <2>6. CASE p = p0 /\ i = i0
    <3>1. ks[p].result[i] = js[j].status
      BY <1>5, <1>6, <2>6
    <3>2. CASE js[j].status = "PENDING"
      BY <1>6, <1>12, <1>13, <2>6, <3>2 DEF Awaited, Alive
    <3>3. CASE js[j].status # "PENDING"
      BY <1>7, <3>1, <3>3 DEF Awaited, Status
    <3> QED
      BY <3>2, <3>3
  <2> QED
    BY <2>4, <2>5, <2>6
<1> QED
  BY <1>16, <1>17 DEF BranchesWait

\* Nothing is in a branch while a value comes back.
LEMMA ReturnWait ==
    ASSUME NEW f, NEW js, NEW e, NEW c, NEW st, NEW d, NEW q, c.op \in {"return", "idle"},
           BranchesWait(f, js, c, st), MainWaits(f, js, e, c), Keeps(st, q)
    PROVE  BranchesWait(f, js, d, q) /\ MainWaits(f, js, e, d)
<1>1. c.op # "start" /\ \A s, p : ~ Attends(f, js, c, s, p)
  BY DEF Attends
<1> QED
  BY <1>1, SameWait

LEMMA PopsWait ==
    ASSUME NEW f, NEW js, NEW e, NEW c, NEW st, NEW ks, NEW d, NEW q, Typed(f, js, c, st),
           \/ Skips(f, js, c, st, ks, d, q) \/ Follows(f, js, c, st, ks, d, q) \/ Yields(f, js, c, st, ks, d, q),
           BranchesWait(f, js, c, st), MainWaits(f, js, e, c)
    PROVE  BranchesWait(f, ks, d, q) /\ MainWaits(f, ks, e, d)
<1> DEFINE t == Tail(st)
<1>1. /\ c.op = "return" /\ st # <<>> /\ st[1].fn \in {"exec", "end"} /\ ks = js
      /\ q = t \/ MovesTo(f, st[1].node, c.job, t, d, q)
  BY DEF Skips, Follows, Yields
<1>2. st \in Seq(Frames(Len(f), Len(js)))
  BY DEF Typed
<1>3. t \in Seq(Frames(Len(f), Len(js))) /\ \A x \in DOMAIN st : x = 1 \/ \E y \in DOMAIN t : t[y] = st[x]
  BY <1>1, <1>2, PopKeeps
<1> HIDE DEF t
<1>4. Keeps(st, t)
  BY <1>1, <1>3 DEF Keeps
<1>5. Keeps(t, q)
  BY <1>1, <1>3, KeepsSelf, MovesKeep
<1>6. Keeps(st, q)
  BY <1>4, <1>5 DEF Keeps
<1>7. c.op \in {"return", "idle"} /\ ks = js
  BY <1>1
<1>8. BranchesWait(f, js, d, q) /\ MainWaits(f, js, e, d)
  BY <1>6, <1>7, ReturnWait
<1> QED
  BY <1>7, <1>8

LEMMA StartsNextWait ==
    ASSUME NEW f, NEW js, NEW e, NEW c, NEW st, NEW ks, NEW d, NEW q,
           Typed(f, js, c, st), PlacedIn(f, js, e, c, st), StartsNext(f, js, c, st, ks, d, q),
           BranchesWait(f, js, c, st), MainWaits(f, js, e, c)
    PROVE  BranchesWait(f, ks, d, q) /\ MainWaits(f, ks, e, d)
<1> DEFINE t == Tail(st)
           a == st[1]
           b == Frame("parallel", a.node, a.job, a.branch + 1)
<1>1. /\ c.op = "return" /\ st # <<>> /\ a.fn = "parallel" /\ ks = js
      /\ a.branch + 1 \in DOMAIN BranchesIn(f, a.node)
      /\ d = Call("run", BranchesIn(f, a.node)[a.branch + 1], a.job)
      /\ q = <<b>> \o t
  BY DEF StartsNext, Enters
<1>2. /\ st \in Seq(Frames(Len(f), Len(js))) /\ 1 \in DOMAIN st /\ BranchesOK(f) /\ Chained(js)
  BY <1>1 DEF Typed
<1>3. /\ a.job \in DOMAIN js /\ a.node \in DOMAIN f /\ f[a.node].type = "parallel" /\ js[a.job].node = a.node
      /\ a.branch \in Nat
  <2>1. a.fn = "parallel" /\ a \in Frames(Len(f), Len(js)) /\ a.job \in DOMAIN js /\ a.node \in DOMAIN f
    BY <1>1, <1>2, TypedIs
  <2>2. a.branch \in 0..Len(f) /\ Len(f) \in Nat
    BY <2>1, TypedIs DEF Frames
  <2>3. f[a.node].type = "parallel" /\ js[a.job].node = a.node
    BY <1>1, <1>2 DEF PlacedIn, WaitingIn
  <2> QED
    BY <2>1, <2>2, <2>3
<1>4. t \in Seq(Frames(Len(f), Len(js))) /\ \A x \in DOMAIN st : x = 1 \/ \E y \in DOMAIN t : t[y] = st[x]
  BY <1>1, <1>2, PopKeeps
<1>5. /\ d.op = "run" /\ d.node = BranchesIn(f, a.node)[a.branch + 1] /\ d.job = a.job
      /\ b.fn = "parallel" /\ b.job = a.job /\ b.branch = a.branch + 1
  BY <1>1 DEF Call, Frame
<1> HIDE DEF b, t
<1>6. Keeps(t, q) /\ 1 \in DOMAIN q /\ q[1] = b
  <2>1. DOMAIN q = 1..(Len(t) + 1) /\ q[1] = b /\ Len(t) \in Nat
    BY <1>1, <1>4, PushIs
  <2>2. Keeps(t, q)
    BY <1>1, <1>4, PushKeeps
  <2> QED
    BY <2>1, <2>2
<1>7. Attends(f, js, d, BranchesIn(f, a.node)[a.branch + 1], a.job)
  <2>1. PlaceIn(f, d.node) = d.node /\ ParIn(f, d.node) = a.node
    BY <1>1, <1>2, <1>3, <1>5 DEF BranchesOK
  <2>2. UpIn(js, a.job, a.node) = a.job
    <3> DEFINE m == a.node
               k == a.job
    <3>1. k \in DOMAIN js /\ js[k].node = m
      BY <1>3
    <3> HIDE DEF m, k
    <3>2. UpIn(js, k, m) = k
      BY <1>2, <3>1, UpStep
    <3> QED
      BY <3>2 DEF m, k
  <2>3. Where(f, js, d) = d.node
    BY <1>5 DEF Where
  <2> QED
    BY <1>5, <2>1, <2>2, <2>3 DEF Attends
<1>8. \A s, p : Alive(f, js, c, s, p) => Alive(f, js, d, s, p)
  BY <1>1 DEF Alive, Attends
<1>9. ASSUME NEW p \in DOMAIN js, Joining(f, js, p), NEW i \in DOMAIN BranchesIn(f, js[p].node)
      PROVE  Awaited(f, js, d, q, p, i)
  <2>1. Awaited(f, js, c, st, p, i)
    BY <1>9 DEF BranchesWait
  <2>2. ASSUME NEW x \in DOMAIN st, st[x].fn = "parallel", st[x].job = p, st[x].branch < i
        PROVE  Awaited(f, js, d, q, p, i)
    <3>1. CASE x = 1
      <4>1. p = a.job /\ a.branch < i /\ js[p].node = a.node
        BY <1>3, <2>2, <3>1
      <4>2. i \in Nat
        <5>1. DOMAIN BranchesIn(f, a.node) = 1..Len(BranchesIn(f, a.node))
              /\ Len(BranchesIn(f, a.node)) \in 0..Len(f) /\ i \in DOMAIN BranchesIn(f, a.node)
          BY <1>2, <1>3, <1>9, <4>1 DEF BranchesOK
        <5> HIDE DEF a
        <5> QED
          BY <5>1
      <4>3. CASE i = a.branch + 1
        BY <1>7, <4>1, <4>3 DEF Awaited, Alive
      <4>4. CASE i # a.branch + 1
        <5>1. b.branch < i
          BY <1>3, <1>5, <4>1, <4>2, <4>4
        <5> QED
          BY <1>5, <1>6, <4>1, <5>1 DEF Awaited
      <4> QED
        BY <4>3, <4>4
    <3>2. CASE x # 1
      <4>1. PICK y \in DOMAIN t : t[y] = st[x]
        BY <1>4, <3>2
      <4>2. PICK z \in DOMAIN q : q[z] = st[x]
        BY <1>6, <2>2, <4>1 DEF Keeps
      <4> QED
        BY <2>2, <4>2 DEF Awaited
    <3> QED
      BY <3>1, <3>2
  <2> QED
    BY <1>8, <2>1, <2>2 DEF Awaited
<1>10. MainWaits(f, js, e, d)
  BY <1>1, <1>8 DEF MainWaits
<1> QED
  BY <1>1, <1>9, <1>10 DEF BranchesWait

LEMMA JoinsWait ==
    ASSUME NEW f, NEW js, NEW e, NEW c, NEW st, NEW ks, NEW d, NEW q,
           Typed(f, js, c, st), PlacedIn(f, js, e, c, st), Standing(f, js, c, st), Joins(f, js, c, st, ks, d, q),
           BranchesWait(f, js, c, st), MainWaits(f, js, e, c)
    PROVE  BranchesWait(f, ks, d, q) /\ MainWaits(f, ks, e, d)
<1> DEFINE t == Tail(st)
           a == st[1]
<1>1. /\ c.op = "return" /\ st # <<>> /\ a.fn = "parallel" /\ ks = js
      /\ \/ ~ a.branch < Len(BranchesIn(f, a.node))
         \/ ~ GoesOn(f[a.node].mode, js[c.job].status)
      /\ MovesTo(f, a.node, a.job, t, d, q)
  BY DEF Joins
<1>2. /\ st \in Seq(Frames(Len(f), Len(js))) /\ 1 \in DOMAIN st /\ BranchesOK(f) /\ Chained(js)
  BY <1>1 DEF Typed
<1>3. a.node \in DOMAIN f /\ f[a.node].type = "parallel" /\ js[a.job].node = a.node /\ a.branch \in Nat
  <2>1. a \in Frames(Len(f), Len(js)) /\ a.node \in DOMAIN f
    BY <1>1, <1>2, TypedIs
  <2>2. a.branch \in 0..Len(f) /\ Len(f) \in Nat
    BY <2>1, TypedIs DEF Frames
  <2>3. f[a.node].type = "parallel" /\ js[a.job].node = a.node
    BY <1>1, <1>2 DEF PlacedIn, WaitingIn
  <2> QED
    BY <2>1, <2>2, <2>3
<1>4. t \in Seq(Frames(Len(f), Len(js))) /\ \A x \in DOMAIN st : x = 1 \/ \E y \in DOMAIN t : t[y] = st[x]
  BY <1>1, <1>2, PopKeeps
<1>5. js[a.job].status = "PENDING" => ~ a.branch < Len(BranchesIn(f, a.node))
  BY <1>1 DEF Standing, TopIn, Continues
<1>6. Keeps(t, q)
  BY <1>1, <1>4, MovesKeep
<1> HIDE DEF t
<1>7. \A s, p : Alive(f, js, c, s, p) => Alive(f, js, d, s, p)
  BY <1>1 DEF Alive, Attends
<1>8. ASSUME NEW p \in DOMAIN js, Joining(f, js, p), NEW i \in DOMAIN BranchesIn(f, js[p].node)
      PROVE  Awaited(f, js, d, q, p, i)
  <2>1. Awaited(f, js, c, st, p, i)
    BY <1>8 DEF BranchesWait
  <2>2. ASSUME NEW x \in DOMAIN st, st[x].fn = "parallel", st[x].job = p, st[x].branch < i
        PROVE  Awaited(f, js, d, q, p, i)
    <3>1. x # 1
      <4> SUFFICES ASSUME x = 1
                   PROVE  FALSE
        OBVIOUS
      <4>1. a.job = p /\ a.branch < i
        BY <2>2
      <4>2. ~ a.branch < Len(BranchesIn(f, a.node))
        BY <1>5, <1>8, <4>1 DEF Joining
      <4>3. DOMAIN BranchesIn(f, a.node) = 1..Len(BranchesIn(f, a.node))
            /\ Len(BranchesIn(f, a.node)) \in 0..Len(f) /\ i \in DOMAIN BranchesIn(f, a.node)
        BY <1>2, <1>3, <1>8, <4>1 DEF BranchesOK
      <4>4. a.branch \in Nat
        BY <1>3
      <4> HIDE DEF a
      <4> QED
        BY <4>1, <4>2, <4>3, <4>4
    <3>2. PICK y \in DOMAIN t : t[y] = st[x]
      BY <1>4, <3>1
    <3>3. PICK z \in DOMAIN q : q[z] = st[x]
      BY <1>6, <2>2, <3>2 DEF Keeps
    <3> QED
      BY <2>2, <3>3 DEF Awaited
  <2> QED
    BY <1>7, <2>1, <2>2 DEF Awaited
<1>9. MainWaits(f, js, e, d)
  BY <1>1, <1>7 DEF MainWaits
<1> QED
  BY <1>1, <1>8, <1>9 DEF BranchesWait

LEMMA BeginsWait ==
    ASSUME NEW f, NEW js, NEW e, NEW c, NEW st, NEW ks, NEW g, NEW d, NEW q,
           Typed(f, js, c, st), PlacedIn(f, js, e, c, st), Begins(f, js, e, c, st, ks, g, d, q),
           BranchesWait(f, js, c, st)
    PROVE  BranchesWait(f, ks, d, q) /\ MainWaits(f, ks, g, d)
<1>1. c.op = "start" /\ ks = js /\ q = st
  BY DEF Begins
<1>2. \A s, p : Alive(f, js, c, s, p) => Alive(f, js, d, s, p)
  BY <1>1 DEF Alive, Attends
<1>3. BranchesWait(f, js, d, q)
  BY <1>1, <1>2, KeepsSelf, WaitsStay
<1>4. MainWaits(f, js, g, d)
  <2> SUFFICES ASSUME g = "STARTED"
               PROVE  Attends(f, js, d, 0, 0)
    BY DEF MainWaits, Alive
  <2>1. PICK head \in DOMAIN f : PlaceIn(f, head) = 0 /\ d = Call("run", head, 0)
    BY DEF Begins
  <2>2. d.op = "run" /\ d.node = head /\ d.job = 0 /\ Where(f, js, d) = head
    BY <2>1 DEF Call, Where
  <2>3. ParIn(f, head) = 0
    BY <2>1 DEF ParIn
  <2>4. UpIn(js, 0, 0) = 0
    BY UpToNone
  <2> QED
    BY <2>1, <2>2, <2>3, <2>4 DEF Attends
<1> QED
  BY <1>1, <1>3, <1>4

\* Every step keeps the branches waiting, until a request waits in a branch.
LEMMA StepsWait ==
    ASSUME NEW f, NEW js, NEW e, NEW c, NEW st, NEW ks, NEW g, NEW d, NEW q,
           Typed(f, js, c, st), PlacedIn(f, js, e, c, st), NoLostIn(f, js), Standing(f, js, c, st),
           BranchesWait(f, js, c, st), MainWaits(f, js, e, c),
           Steps(f, js, e, c, st, ks, g, d, q)
    PROVE  (BranchesWait(f, ks, d, q) /\ MainWaits(f, ks, g, d)) \/ Requested(f, ks)
<1>1. ~ Throws(f, js, c, st, ks, d, q)
  <2> SUFFICES ASSUME c.op = "recall", f[c.node].type = "parallel", UpIn(js, c.job, c.node) = 0
               PROVE  FALSE
    BY DEF Throws
  <2>1. c.node = ParIn(f, js[c.job].node)
    BY DEF PlacedIn, AtPlace
  <2>2. c.job \in DOMAIN js /\ c.node # 0
    BY TypedIs
  <2> QED
    BY <2>1, <2>2 DEF NoLostIn
<1>2. CASE Begins(f, js, e, c, st, ks, g, d, q)
  BY <1>2, BeginsWait
<1>3. CASE Exits(f, js, c, st, ks, g, d, q)
  BY <1>3, ExitsWait
<1>4. CASE Executes(f, js, c, st, ks, d, q) /\ g = e
  BY <1>4, ExecutesWait
<1>5. CASE Forks(f, js, c, st, ks, d, q) /\ g = e
  BY <1>5, ForksWait
<1>6. CASE Recalls(f, js, c, st, ks, d, q) /\ g = e
  BY <1>6, RecallsWait
<1>7. CASE PassesOn(f, js, c, st, ks, d, q) /\ g = e
  BY <1>7, PassesWait
<1>8. CASE Ignores(f, js, c, st, ks, d, q) /\ g = e
  BY <1>8, IgnoresWait
<1>9. CASE Counts(f, js, c, st, ks, d, q) /\ g = e
  BY <1>9, CountsWait
<1>10. CASE ClimbsUp(f, js, c, st, ks, d, q) /\ g = e
  BY <1>10, ClimbsWait
<1>11. CASE (Skips(f, js, c, st, ks, d, q) \/ Follows(f, js, c, st, ks, d, q) \/ Yields(f, js, c, st, ks, d, q)) /\ g = e
  BY <1>11, PopsWait
<1>12. CASE StartsNext(f, js, c, st, ks, d, q) /\ g = e
  BY <1>12, StartsNextWait
<1>13. CASE Joins(f, js, c, st, ks, d, q) /\ g = e
  BY <1>13, JoinsWait
<1>14. CASE (Stops(f, js, c, st, ks, d, q) \/ Awakes(f, js, e, c, st, ks, d, q)) /\ g = e
  <2>1. c.op \in {"return", "idle"} /\ ks = js /\ q = st
    BY <1>14 DEF Stops, Awakes, Idle, Call
  <2> QED
    BY <1>14, <2>1, KeepsSelf, ReturnWait
<1> QED
  BY <1>1, <1>2, <1>3, <1>4, <1>5, <1>6, <1>7, <1>8, <1>9, <1>10, <1>11, <1>12, <1>13, <1>14 DEF Steps

\* A parallel job is decided when each of its branches is.
LEMMA VerdictUndecided ==
    ASSUME NEW mode \in Mode, NEW result, DOMAIN result # {}, Verdict(mode, result) = "PENDING"
    PROVE  \E i \in DOMAIN result : result[i] \notin {"RESOLVED", "FAILED"}
<1> SUFFICES ASSUME \A i \in DOMAIN result : result[i] \in {"RESOLVED", "FAILED"}
             PROVE  Verdict(mode, result) # "PENDING"
  OBVIOUS
<1> DEFINE some(s) == \E i \in DOMAIN result : result[i] = s
           every(s) == \A i \in DOMAIN result : result[i] = s
<1>1. /\ some("FAILED") \/ every("RESOLVED")
      /\ some("RESOLVED") \/ every("FAILED")
      /\ some("RESOLVED") \/ some("FAILED")
      /\ mode \in {"all", "any", "race"}
  BY DEF Mode
<1>2. Verdict(mode, result) =
        CASE mode = "all" /\ some("FAILED") -> "FAILED"
          [] mode = "all" /\ ~some("FAILED") /\ every("RESOLVED") -> "RESOLVED"
          [] mode # "all" /\ some("RESOLVED") -> "RESOLVED"
          [] mode = "any" /\ every("FAILED") -> "FAILED"
          [] mode = "race" /\ ~some("RESOLVED") /\ some("FAILED") -> "FAILED"
          [] OTHER -> "PENDING"
  BY DEF Verdict
<1> HIDE DEF some, every
<1>3. CASE mode = "all"
  BY <1>1, <1>2, <1>3
<1>4. CASE mode = "any"
  <2>1. CASE some("RESOLVED")
    BY <1>2, <1>4, <2>1
  <2>2. CASE ~ some("RESOLVED")
    BY <1>1, <1>2, <1>4, <2>2
  <2> QED
    BY <2>1, <2>2
<1>5. CASE mode = "race"
  <2>1. CASE some("RESOLVED")
    BY <1>2, <1>5, <2>1
  <2>2. CASE ~ some("RESOLVED")
    BY <1>1, <1>2, <1>5, <2>2
  <2> QED
    BY <2>1, <2>2
<1> QED
  BY <1>1, <1>3, <1>4, <1>5

\* A set of numbers that are bounded has a largest one.
LEMMA LargestOf ==
    ASSUME NEW N \in Nat, NEW S \in SUBSET (1..N), S # {}
    PROVE  \E m \in S : \A k \in S : k <= m
<1> DEFINE T == {x \in Nat : \E k \in S : x = N - k}
<1>1. T # {}
  <2>1. PICK k \in S : TRUE
    OBVIOUS
  <2>2. N - k \in Nat
    BY <2>1
  <2> QED
    BY <2>1, <2>2
<1>2. PICK t \in T : \A x \in T : t <= x
  BY <1>1, LeastNat
<1>3. PICK m \in S : t = N - m
  BY <1>2
<1>4. \A k \in S : N - k \in T
  OBVIOUS
<1>5. \A k \in S : N - m <= N - k
  BY <1>2, <1>3, <1>4
<1>6. \A k \in S : k \in Nat
  OBVIOUS
<1> QED
  BY <1>3, <1>5, <1>6

\* Where no processor runs, the last of the jobs that are pending is one that
\* something resumes, or the job of a parallel node without branches.
LEMMA WaitsResume ==
    ASSUME NEW f, NEW js, NEW e, NEW c, NEW st, Typed(f, js, c, st), PlacedIn(f, js, e, c, st),
           BranchesWait(f, js, c, st), MainWaits(f, js, e, c), c = Idle, e = "STARTED"
    PROVE  \E j \in DOMAIN js :
              /\ js[j].status = "PENDING"
              /\ \/ f[js[j].node].type \in Asynchronous
                 \/ f[js[j].node].type = "parallel" /\ BranchesIn(f, js[j].node) = <<>>
<1> DEFINE Pend == {z \in DOMAIN js : js[z].status = "PENDING"}
<1>1. c.op = "idle" /\ \A s, p : ~ Attends(f, js, c, s, p)
  BY DEF Idle, Call, Attends
<1>2. st = <<>>
  BY <1>1 DEF PlacedIn, Disciplined
<1>3. Pend # {}
  BY <1>1 DEF MainWaits, Alive, Suspends
<1>4. /\ DOMAIN js = 1..Len(js) /\ Len(js) \in Nat /\ 0 \notin DOMAIN js /\ Chained(js)
      /\ WellFormed(f) /\ BranchesOK(f) /\ 0 \notin DOMAIN f
  BY TypedIs DEF Typed
<1>5. Pend \in SUBSET (1..Len(js))
  BY <1>4
<1>6. PICK j \in Pend : \A k \in Pend : k <= j
  BY <1>3, <1>4, <1>5, LargestOf
<1>7. j \in DOMAIN js /\ js[j].status = "PENDING" /\ js[j].node \in DOMAIN f
  BY <1>6, TypedIs
<1> DEFINE n == js[j].node
<1>8. \/ f[n].type \in Asynchronous
      \/ /\ f[n].type = "parallel"
         /\ DOMAIN js[j].result = DOMAIN BranchesIn(f, n)
         /\ BranchesIn(f, n) # <<>> => Verdict(f[n].mode, js[j].result) = "PENDING"
  BY <1>7 DEF PlacedIn, PendingIn
<1>9. ASSUME f[n].type = "parallel", BranchesIn(f, n) # <<>>, DOMAIN js[j].result = DOMAIN BranchesIn(f, n),
             Verdict(f[n].mode, js[j].result) = "PENDING"
      PROVE  FALSE
  <2>1. DOMAIN js[j].result # {}
    <3> DEFINE branches == BranchesIn(f, n)
    <3>1. DOMAIN branches = 1..Len(branches) /\ Len(branches) \in Nat /\ branches # <<>>
      BY <1>4, <1>7, <1>9 DEF BranchesOK
    <3>2. \E S : branches \in [DOMAIN branches -> S]
      <4>1. branches \in [DOMAIN branches -> {branches[i] : i \in DOMAIN branches}]
        BY DEF BranchesIn
      <4> QED
        BY <4>1
    <3>3. DOMAIN branches # {}
      <4> HIDE DEF branches
      <4> QED
        BY <3>1, <3>2
    <3> QED
      BY <1>9, <3>3
  <2>2. f[n].mode \in Mode
    BY <1>4, <1>7, FlowRooted DEF Nodes
  <2>3. PICK i \in DOMAIN js[j].result : js[j].result[i] \notin {"RESOLVED", "FAILED"}
    BY <1>9, <2>1, <2>2, VerdictUndecided
  <2>4. Awaited(f, js, c, st, j, i)
    BY <1>7, <1>9, <2>3 DEF BranchesWait, Joining
  <2> DEFINE s == BranchesIn(f, n)[i]
  <2>5. Suspends(f, js, s, j)
    BY <1>1, <1>2, <2>3, <2>4 DEF Awaited, Alive
  <2>6. s \in DOMAIN f /\ PlaceIn(f, s) = s /\ ParIn(f, s) = n
    BY <1>4, <1>7, <1>9, <2>3 DEF BranchesOK
  <2> HIDE DEF s
  <2>7. PICK z \in DOMAIN js : /\ js[z].status = "PENDING" /\ PlaceIn(f, js[z].node) = s
                               /\ UpIn(js, z, ParIn(f, js[z].node)) = j
    BY <2>5 DEF Suspends
  <2>8. UpIn(js, z, ParIn(f, js[z].node)) \in 0..z
    <3> DEFINE m == ParIn(f, js[z].node)
    <3> HIDE DEF m
    <3>1. UpIn(js, z, m) \in 0..z
      BY <1>4, <2>7, UpStep
    <3> QED
      BY <3>1 DEF m
  <2>9. z \in Pend /\ z <= j /\ j <= z
    BY <1>4, <1>6, <1>7, <2>7, <2>8
  <2>10. z = j
    BY <1>4, <1>7, <2>7, <2>9
  <2>11. ParIn(f, n) = n
    BY <1>4, <2>6, <2>7, <2>10 DEF ParIn
  <2> QED
    BY <1>4, <1>7, <2>11, ParIsOther
<1> QED
  BY <1>7, <1>8, <1>9

-----------------------------------------------------------------------------
(* The theorem *)

\* What is not decided goes on.
GoingIn(f, js, e, c, st) ==
    NoLostIn(f, js) /\ Standing(f, js, c, st) /\ BranchesWait(f, js, c, st) /\ MainWaits(f, js, e, c)

\* Or a request in a branch waits, or has been answered and the execution is to fail.
HopefulIn(f, js, e, c, st) ==
    \/ Requested(f, js)
    \/ \E r, b : DoomedBy(f, js, e, c, st, r, b)
    \/ GoingIn(f, js, e, c, st)

\* Every step keeps the hope: from one of its three cases to the same or another.
LEMMA StepsHope ==
    ASSUME NEW f, NEW js, NEW e, NEW c, NEW st, NEW ks, NEW g, NEW d, NEW q,
           Typed(f, js, c, st), PlacedIn(f, js, e, c, st), HopefulIn(f, js, e, c, st),
           Steps(f, js, e, c, st, ks, g, d, q)
    PROVE  HopefulIn(f, ks, g, d, q)
<1>1. CASE Requested(f, js)
  BY <1>1, StepsRequested DEF HopefulIn
<1>2. CASE \E r, b : DoomedBy(f, js, e, c, st, r, b)
  BY <1>2, StepsDoomed DEF HopefulIn
<1>3. CASE GoingIn(f, js, e, c, st)
  <2>1. NoLostIn(f, js) /\ Standing(f, js, c, st) /\ BranchesWait(f, js, c, st) /\ MainWaits(f, js, e, c)
    BY <1>3 DEF GoingIn
  <2>2. NoLostIn(f, ks) \/ Requested(f, ks)
    BY <2>1, StepsNoLost
  <2>3. Standing(f, ks, d, q) \/ Requested(f, ks)
    BY <2>1, StepsStand
  <2>4. (BranchesWait(f, ks, d, q) /\ MainWaits(f, ks, g, d)) \/ Requested(f, ks)
    BY <2>1, StepsWait
  <2> QED
    BY <2>2, <2>3, <2>4 DEF HopefulIn, GoingIn
<1> QED
  BY <1>1, <1>2, <1>3 DEF HopefulIn

Hopeful == HopefulIn(flow, jobs, execution, control, stack)

\* There is hope when the execution starts.
LEMMA HopeInit == Init => Placed /\ Hopeful
<1> SUFFICES ASSUME Init
             PROVE  Placed /\ Hopeful
  OBVIOUS
<1>1. /\ jobs = <<>> /\ execution = "STARTED" /\ control = Call("start", 0, 0) /\ stack = <<>>
      /\ DOMAIN jobs = {} /\ DOMAIN stack = {}
  BY DEF Init
<1>2. control.op = "start" /\ control.job = 0
  BY <1>1 DEF Call
<1>3. Placed
  BY <1>1, <1>2 DEF Placed, PlacedIn, Disciplined, AtPlace, WaitingIn, AtTop, LostIn, PendingIn, RequestsIn
<1>4. NoLostIn(flow, jobs) /\ BranchesWait(flow, jobs, control, stack) /\ MainWaits(flow, jobs, execution, control)
  BY <1>1, <1>2 DEF NoLostIn, BranchesWait, MainWaits
<1>5. Standing(flow, jobs, control, stack)
  BY <1>1, EmptyStands
<1> QED
  BY <1>3, <1>4, <1>5 DEF Hopeful, HopefulIn, GoingIn

\* The state after a step is typed.
LEMMA TypedNext == IInv' => Typed(flow, jobs, control, stack)'
BY StateTyped, PTL

\* While no resumption is out of date there is a place for all, and hope.
Hoped == stale = <<>> => Placed /\ Hopeful

\* Places and hope are inductive.
LEMMA HopeNext == IInv /\ IInv' /\ SeenOK /\ Hoped /\ [Next]_vars => Hoped'
<1>0. SUFFICES ASSUME IInv, IInv', SeenOK, Hoped, [Next]_vars, stale' = <<>>
               PROVE  Placed' /\ Hopeful'
  BY DEF Hoped
<1>3. stale = <<>> /\ Placed /\ Hopeful
  <2>1. CASE \E j \in Job : ResumeStale(j)
    BY <1>0, <2>1 DEF ResumeStale, SeenOK
  <2>2. CASE ~ \E j \in Job : ResumeStale(j)
    BY <1>0, <2>2
    DEF Hoped, vars, Next, Step, Start, RunSimple, RunCondition, RunParallel, RunDelay, RunManual,
        RunRequest, RecallAsynchronous, RecallCondition, RecallParallel, EndBranch, Exit,
        ReturnToExec, ReturnToEnd, ReturnToParallel, Done, Resume
  <2> QED
    BY <2>1, <2>2
<1>1. CASE UNCHANGED vars
  BY <1>1, <1>3 DEF vars, Placed, Hopeful
<1>2. CASE Next
  <2>1. flow' = flow /\ Steps(flow, jobs, execution, control, stack, jobs', execution', control', stack')
    BY <1>0, <1>2, <1>3, NextIs
  <2>2. Typed(flow, jobs, control, stack)
    BY <1>0, StateTyped
  <2>3. Typed(flow', jobs', control', stack')
    BY <1>0, TypedNext
  <2>4. Typed(flow, jobs', control', stack')
    BY <2>1, <2>3
  <2>5. PlacedIn(flow, jobs, execution, control, stack) /\ HopefulIn(flow, jobs, execution, control, stack)
    BY <1>3 DEF Placed, Hopeful
  <2>6. PlacedIn(flow, jobs', execution', control', stack')
    BY <2>1, <2>2, <2>4, <2>5, StepsPlaced
  <2>7. HopefulIn(flow, jobs', execution', control', stack')
    BY <2>1, <2>2, <2>5, StepsHope
  <2> QED
    BY <2>1, <2>6, <2>7 DEF Placed, Hopeful
<1> QED
  BY <1>0, <1>1, <1>2

\* In every state of an execution the calls and the jobs are in their places, and
\* what is not decided goes on, or a request in a branch waits, or has been
\* answered and the execution is to fail; until a resumption out of date.
THEOREM HopeHolds == Spec => [](stale = <<>> => Placed /\ Hopeful)
<1>1. Init => Hoped
  BY HopeInit DEF Hoped
<1>2. IInv /\ IInv' /\ SeenOK /\ Hoped /\ [Next]_vars => Hoped'
  BY HopeNext
<1>3. Spec => []Hoped
  BY Invariance, <1>1, <1>2, PTL DEF Spec
<1> QED
  BY <1>3 DEF Hoped

\* A suspended execution with hope has a job that something resumes.
LEMMA HopeResumes == IInv /\ Placed /\ Hopeful => SuspendedCanResume
<1> SUFFICES ASSUME IInv, Placed, Hopeful, control = Idle, execution = "STARTED"
             PROVE  \E j \in Job : Resumable(j) \/ Branchless(j)
  BY DEF SuspendedCanResume
<1>1. Typed(flow, jobs, control, stack) /\ PlacedIn(flow, jobs, execution, control, stack)
  BY StateTyped DEF Placed
<1>2. CASE Requested(flow, jobs)
  BY <1>2 DEF Requested, Resumable, Asynchronous, Job
<1>3. CASE \E r, b : DoomedBy(flow, jobs, execution, control, stack, r, b)
  <2>1. control.op = "idle"
    BY DEF Idle, Call
  <2>2. stack = <<>>
    BY <1>1, <2>1 DEF PlacedIn, Disciplined
  <2>3. ~ AdriftIn(flow, jobs, stack)
    BY <2>2 DEF AdriftIn
  <2>4. ~ Adrift(flow, jobs, control, stack)
    BY <2>1, <2>3 DEF Adrift
  <2> QED
    BY <1>3, <2>4 DEF DoomedBy
<1>4. CASE GoingIn(flow, jobs, execution, control, stack)
  <2>1. PICK j \in DOMAIN jobs :
              /\ jobs[j].status = "PENDING"
              /\ \/ flow[jobs[j].node].type \in Asynchronous
                 \/ flow[jobs[j].node].type = "parallel" /\ BranchesIn(flow, jobs[j].node) = <<>>
    BY <1>1, <1>4, WaitsResume DEF GoingIn
  <2> QED
    BY <2>1, BranchesSame DEF Resumable, Branchless, Job
<1> QED
  BY <1>2, <1>3, <1>4 DEF Hopeful, HopefulIn

\* An execution that is suspended can go on: something will resume one of its
\* pending jobs, unless it came to a parallel node without branches; while each
\* resumption found its job and its execution as it was queued with them.
THEOREM SuspendedExecutionsResume == Spec => [](stale = <<>> => SuspendedCanResume)
BY Invariance, HopeHolds, HopeResumes, PTL

=============================================================================
