--------------------------- MODULE MCFlowProcessor ---------------------------
(* FlowProcessor on small workflows of every shape. *)
EXTENDS FlowProcessor

N(type, upstream, downstream, branch) ==
    [type |-> type, mode |-> "all", upstream |-> upstream,
     downstream |-> downstream, branch |-> branch]
P(mode, upstream, downstream, branch) ==
    [N("parallel", upstream, downstream, branch) EXCEPT !.mode = mode]

Leaf == {"simple", "delay", "manual", "request"}

\* one node after the other, and a workflow without nodes
Sequences ==
    {<<>>} \cup {<<N(a, 0, 2, None), N(b, 1, 0, None)>> : a, b \in Leaf}

\* a condition, its two branches and the downstream
Conditions ==
    {<<N("condition", 0, 4, None), N(a, 1, 0, 1), N(b, 1, 0, 0),
       N(d, 1, 0, None)>> : a, b, d \in Leaf}

\* a condition without branches ("Continue when Yes"), and with the one for true
Gates ==
    {<<N("condition", 0, 2, None), N(d, 1, 0, None)>> : d \in Leaf}
    \cup {<<N("condition", 0, 3, None), N(a, 1, 0, 1), N(d, 1, 0, None)>> :
            a, d \in Leaf}

\* a parallel node without a node in its branches
EmptyParallels ==
    {<<P(m, 0, 2, None), N("simple", 1, 0, None)>> : m \in Mode}

\* a parallel node, its two branches and the downstream
Parallels ==
    {<<P(m, 0, 4, None), N(a, 1, 0, 1), N(b, 1, 0, 2), N(d, 1, 0, None)>> :
        m \in Mode, a, b, d \in Leaf}

\* a branch of a parallel node that is a condition with two branches
ConditionInParallel ==
    {<<P(m, 0, 6, None), N("condition", 1, 0, 1), N(a, 1, 0, 2), N(b, 2, 0, 1),
       N(c, 2, 0, 0), N("simple", 1, 0, None)>> :
        m \in Mode, a, b, c \in Leaf}

\* a branch of a condition that is a parallel node
ParallelInCondition ==
    {<<N("condition", 0, 5, None), P(m, 1, 0, 1), N(a, 2, 0, 1), N(b, 2, 0, 2),
       N(d, 1, 0, None)>> : m \in Mode, a, b, d \in Leaf}

\* a branch of a parallel node that is a parallel node
ParallelInParallel ==
    {<<P(m, 0, 6, None), P(k, 1, 0, 1), N(a, 1, 0, 2), N(b, 2, 0, 1),
       N(c, 2, 0, 2), N("simple", 1, 0, None)>> :
        m, k \in Mode, a, b, c \in Leaf}

\* a condition and its branches, created after its downstream
DownstreamFirst ==
    {<<N("condition", 0, 2, None), N(d, 1, 0, None), N(a, 1, 0, 1), N(b, 1, 0, 0)>> :
        a, b, d \in Leaf}

\* a branch of a parallel node that is a condition with a downstream
JoinInParallel ==
    {<<P(m, 0, 6, None), N("condition", 1, 5, 1), N(a, 1, 0, 2), N(b, 2, 0, 1),
       N(c, 2, 0, None), N("simple", 1, 0, None)>> :
        m \in Mode, a, b, c \in Leaf}

\* a branch of a parallel node that is a parallel node with a downstream, behind
\* another branch
ParallelGoesOn ==
    {<<P(m, 0, 6, None), N(a, 1, 0, 1), P(k, 1, 5, 2), N(b, 3, 0, 1),
       N(c, 3, 0, None), N("simple", 1, 0, None)>> :
        m, k \in Mode, a, b, c \in Leaf}

\* every shape with every leaf
AllFlows == Sequences \cup Gates \cup EmptyParallels \cup Conditions
            \cup DownstreamFirst \cup Parallels
            \cup ConditionInParallel \cup ParallelInCondition
            \cup ParallelInParallel \cup JoinInParallel
            \cup ParallelGoesOn

=============================================================================
