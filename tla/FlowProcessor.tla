---------------------------- MODULE FlowProcessor ----------------------------
(***************************************************************************)
(* The processor of one workflow execution                                 *)
(* (packages/plugins/workflow/src/server/Processor.ts) with the            *)
(* instructions that decide where it goes next: condition, parallel, and   *)
(* the ones that run a job to its end at once (calculation, query, create, *)
(* update, destroy) or leave it pending (delay, manual, request).          *)
(*                                                                         *)
(* The code is a set of async functions that call one another: exec calls  *)
(* an instruction, which may call run, end or saveJob of the processor,    *)
(* which call exec again.  "control" is the call being made or the value   *)
(* being returned, and "stack" the calls that wait for a value: only the   *)
(* ones that do something with it, since `return this.run(...)` leaves     *)
(* nothing to do.  Between two runs of the processor the timers, the       *)
(* responses and the users resume the jobs that are pending.               *)
(***************************************************************************)
EXTENDS Integers, Sequences, FiniteSets

CONSTANT
    Flows,    \* the workflows to execute, each a sequence of nodes
    MaxStale  \* how many resumptions are processed with instances out of date

(***************************************************************************)
(* A node has its index in the sequence for id, in the order of creation;  *)
(* 0 stands for no node and -1 for the branchIndex null.                   *)
(***************************************************************************)
None == -1
Asynchronous == {"delay", "manual", "request"}
Type == {"simple", "condition", "parallel"} \cup Asynchronous
Mode == {"all", "any", "race"}

\* JOB_STATUS and EXECUTION_STATUS, every failing one as "FAILED": the code
\* only tells them apart by their sign, and StatusMap maps each to itself
Status == {"PENDING", "RESOLVED", "FAILED"}
Ops == {"start", "run", "recall", "end", "return", "idle"}

\* the columns of flow_nodes that the processor reads
Nodes(n) == [type : Type, mode : Mode, upstream : 0..n, downstream : 0..n,
             branch : Nat \cup {None}]

\* what is known of a flow from the code that edits it (actions/nodes.ts, see
\* FlowNodes, and the canvas): the upstreams end at a node without one, the
\* downstream of a node has it for upstream and is in no branch of it, a branch
\* starts below a node that has branches, and once for each branchIndex
WellFormed(f) ==
    /\ f \in Seq(Nodes(Len(f)))
    /\ \A S \in SUBSET DOMAIN f : S # {} => \E n \in S : f[n].upstream \notin S
    /\ \A n \in DOMAIN f : f[n].downstream # 0 =>
          f[f[n].downstream].upstream = n /\ f[f[n].downstream].branch = None
    /\ \A n \in DOMAIN f : f[n].branch # None =>
          /\ f[n].upstream # 0
          /\ f[f[n].upstream].type \in {"condition", "parallel"}
          /\ \A m \in DOMAIN f \ {n} :
                f[m].upstream = f[n].upstream => f[m].branch # f[n].branch

ASSUME FlowsAssumption == \A f \in Flows : WellFormed(f)
ASSUME MaxStaleAssumption == MaxStale \in Nat

VARIABLES
    flow,       \* Processor.nodes
    jobs,       \* the jobs table of the execution, by id
    execution,  \* executions.status
    seen,       \* the status in the processor's instance of the execution
    stale,      \* the jobs resumed with instances out of date, in order
    control,    \* the call or the return in progress
    stack       \* the calls that wait for a value, the innermost first

vars == <<flow, jobs, execution, seen, stale, control, stack>>

Node == DOMAIN flow
Job == DOMAIN jobs

\* job 0 is null
Call(op, n, j) == [op |-> op, node |-> n, job |-> j]
Idle == Call("idle", 0, 0)
Return(j) == Call("return", 0, j)
Frame(fn, n, j, i) == [fn |-> fn, node |-> n, job |-> j, branch |-> i]

\* mutant of NewJob: the node's id is taken for the upstream job's
NewJobOfNode(n, s, prev, result) ==
    [node |-> n, status |-> s, upstream |-> n, result |-> result]

NewJob(n, s, prev, result) ==
    [node |-> n, status |-> s, upstream |-> prev, result |-> result]
Last == Len(jobs)

-----------------------------------------------------------------------------
(* The flow's shape *)

\* getBranches(node), in the order of branchIndex
Branches(n) ==
    LET starts == {m \in Node : flow[m].upstream = n /\ flow[m].branch # None}
        rank(m) == Cardinality({k \in starts : flow[k].branch < flow[m].branch})
    IN [i \in 1..Cardinality(starts) |-> CHOOSE m \in starts : rank(m) = i - 1]

\* findBranchParentNode(node): the node the innermost branch starts from
BranchParent(n) ==
    LET up[k \in Node \cup {0}] ==
          IF k = 0 THEN 0
          ELSE IF flow[k].branch # None THEN flow[k].upstream
          ELSE up[flow[k].upstream]
    IN up[n]

\* findBranchStartNode(node, parent)
BranchStart(n, parent) ==
    LET up[k \in Node \cup {0}] ==
          IF k = 0 \/ flow[k].upstream = parent THEN k
          ELSE up[flow[k].upstream]
    IN up[n]

\* findBranchParentJob(job, node): the closest job of the node up the jobs
BranchParentJob(j, n) ==
    LET up[k \in Job \cup {0}] ==
          IF k = 0 \/ jobs[k].node = n THEN k
          ELSE up[jobs[k].upstream]
    IN up[j]

-----------------------------------------------------------------------------
(* exec(): what follows the instruction, with the job it returned saved *)

\* the next node runs when the job is resolved, else the scope ends
After(n, j, status) ==
    IF status = "RESOLVED" /\ flow[n].downstream # 0
    THEN Call("run", flow[n].downstream, j)
    ELSE Call("end", n, j)

\* the instruction of node n, run or resumed with job prev, gives a new job
\* that is saved by exec(), or its own exception does
Finish(n, prev, s, result) ==
    /\ jobs' = Append(jobs, NewJob(n, s, prev, result))
    /\ control' = After(n, Last + 1, s)

-----------------------------------------------------------------------------
(* The instructions' run() *)

Running(type) == control.op = "run" /\ flow[control.node].type = type

\* calculation, query, create, update, destroy: a result, or an exception
RunSimple ==
    /\ Running("simple")
    /\ \E s \in {"RESOLVED", "FAILED"} : Finish(control.node, control.job, s, <<>>)
    /\ UNCHANGED <<flow, execution, seen, stale, stack>>

\* the first node, in the order of the list, that hangs below the condition
\* with a branchIndex of the result's truth value; null is false, and a result
\* that is not a boolean, as the evaluators may give, equals neither
ConditionBranch(n, result) ==
    LET hits == {m \in Node : /\ flow[m].upstream = n
                              /\ result = IF flow[m].branch > 0 THEN "TRUE" ELSE "FALSE"}
    IN IF hits = {} THEN 0 ELSE CHOOSE m \in hits : \A k \in hits : m <= k

\* the branch of the result runs inside the instruction, whose value is the
\* job that comes back from it
RunCondition ==
    /\ Running("condition")
    /\ \/ /\ Finish(control.node, control.job, "FAILED", <<>>)
          /\ UNCHANGED stack
       \/ \E result \in {"TRUE", "FALSE", "OTHER"} :
             LET branch == ConditionBranch(control.node, result)
             IN \/ /\ branch = 0
                   /\ Finish(control.node, control.job, "RESOLVED", <<result>>)
                   /\ UNCHANGED stack
                \/ /\ branch # 0
                   /\ jobs' = Append(jobs, NewJob(control.node, "RESOLVED",
                                                  control.job, <<result>>))
                   /\ stack' = <<Frame("exec", control.node, control.job, 0)>> \o stack
                   /\ control' = Call("run", branch, Last + 1)
    /\ UNCHANGED <<flow, execution, seen, stale>>

\* the job of the parallel node is pending until its branches decide; they
\* run one after the other
RunParallel ==
    /\ Running("parallel")
    /\ LET branches == Branches(control.node)
           waiting == Frame("exec", control.node, control.job, 0)
       IN /\ jobs' = Append(jobs, NewJob(control.node, "PENDING", control.job,
                                         [i \in DOMAIN branches |-> "NONE"]))
          /\ \/ /\ branches = <<>>
                /\ stack' = <<waiting>> \o stack
                /\ control' = Call("end", control.node, Last + 1)
             \/ /\ branches # <<>>
                /\ stack' = <<Frame("parallel", control.node, Last + 1, 1),
                              waiting>> \o stack
                /\ control' = Call("run", branches[1], Last + 1)
    /\ UNCHANGED <<flow, execution, seen, stale>>

\* delay: the job is saved and the scope ended inside the instruction
RunDelay ==
    /\ Running("delay")
    /\ jobs' = Append(jobs, NewJob(control.node, "PENDING", control.job, <<>>))
    /\ stack' = <<Frame("exec", control.node, control.job, 0)>> \o stack
    /\ control' = Call("end", control.node, Last + 1)
    /\ UNCHANGED <<flow, execution, seen, stale>>

RunManual ==
    /\ Running("manual")
    /\ Finish(control.node, control.job, "PENDING", <<>>)
    /\ UNCHANGED <<flow, execution, seen, stale, stack>>

\* request: the job is saved without its upstreamId
RunRequest ==
    /\ Running("request")
    /\ Finish(control.node, 0, "PENDING", <<>>)
    /\ UNCHANGED <<flow, execution, seen, stale, stack>>

-----------------------------------------------------------------------------
(* The instructions' resume() *)

Recalled(type) == control.op = "recall" /\ flow[control.node].type = type

\* a job of the node itself resumes: delay takes endStatus of its config,
\* request what the response said, or ignoreFail; manual what was submitted,
\* still pending while other users have to submit (what decided it once decides
\* it again); or resume() throws
RecallAsynchronous ==
    /\ control.op = "recall"
    /\ flow[control.node].type \in Asynchronous
    /\ \E s \in Status :
          /\ s = "PENDING" => /\ flow[control.node].type = "manual"
                              /\ jobs[control.job].status = "PENDING"
          /\ jobs' = [jobs EXCEPT ![control.job].status = s]
          /\ control' = After(control.node, control.job, s)
    /\ UNCHANGED <<flow, execution, seen, stale, stack>>

\* mutant of RecallCondition: a branch that does not resolve is not passed on
RecallConditionSilently ==
    /\ Recalled("condition")
    /\ control' = IF jobs[control.job].status = "RESOLVED"
                  THEN After(control.node, control.job, "RESOLVED")
                  ELSE Return(0)
    /\ UNCHANGED <<flow, jobs, execution, seen, stale, stack>>

\* a branch of the condition ended: with its job resolved the condition's
\* downstream runs, else the scope of the condition ends
RecallCondition ==
    /\ Recalled("condition")
    /\ \/ /\ jobs[control.job].status = "RESOLVED"
          /\ control' = After(control.node, control.job, "RESOLVED")
          /\ UNCHANGED stack
       \/ /\ jobs[control.job].status # "RESOLVED"
          /\ stack' = <<Frame("exec", control.node, control.job, 0)>> \o stack
          /\ control' = Call("end", control.node, control.job)
    /\ UNCHANGED <<flow, jobs, execution, seen, stale>>

\* mutant of Verdict: "all" resolves with the first branch that does
VerdictOfOne(mode, result) ==
    LET some(s) == \E i \in DOMAIN result : result[i] = s
        every(s) == \A i \in DOMAIN result : result[i] = s
    IN IF some("RESOLVED") THEN "RESOLVED"
       ELSE IF some("FAILED") /\ (mode # "any" \/ every("FAILED")) THEN "FAILED"
       ELSE "PENDING"

\* Modes[mode].getStatus(result)
Verdict(mode, result) ==
    LET some(s) == \E i \in DOMAIN result : result[i] = s
        every(s) == \A i \in DOMAIN result : result[i] = s
    IN CASE mode = "all" /\ some("FAILED") -> "FAILED"
         [] mode = "all" /\ ~some("FAILED") /\ every("RESOLVED") -> "RESOLVED"
         [] mode # "all" /\ some("RESOLVED") -> "RESOLVED"
         [] mode = "any" /\ every("FAILED") -> "FAILED"
         [] mode = "race" /\ ~some("RESOLVED") /\ some("FAILED") -> "FAILED"
         [] OTHER -> "PENDING"

\* mutant of Decided: a branch job counts after the parallel job is done
DecidedNever(p) == FALSE

\* the parallel job p is done: newly executed branch jobs do not count
Decided(p) == jobs[p].status # "PENDING"

\* a branch of the parallel node ended, or is suspended, with control.job
RecallParallel ==
    /\ Recalled("parallel")
    /\ LET n == control.node
           j == BranchParentJob(control.job, n)
           start == BranchStart(jobs[control.job].node, n)
           i == CHOOSE k \in DOMAIN Branches(n) : Branches(n)[k] = start
           result == [jobs[j].result EXCEPT ![i] = jobs[control.job].status]
           status == Verdict(flow[n].mode, result)
       IN \/ /\ j = 0  \* the destructuring of null throws
             /\ Finish(n, control.job, "FAILED", <<>>)
             /\ UNCHANGED stack
          \/ /\ j # 0
             /\ Decided(j)
             /\ control' = Return(0)
             /\ UNCHANGED <<jobs, stack>>
          \/ /\ j # 0
             /\ ~Decided(j)
             /\ jobs' = [jobs EXCEPT ![j].result = result, ![j].status = status]
             /\ \/ /\ status = "PENDING"
                   /\ stack' = <<Frame("exec", n, control.job, 0)>> \o stack
                   /\ control' = Call("end", n, j)
                \/ /\ status # "PENDING"
                   /\ control' = After(n, j, status)
                   /\ UNCHANGED stack
    /\ UNCHANGED <<flow, execution, seen, stale>>

-----------------------------------------------------------------------------
(* end() and exit() *)

\* inside a branch, the node it starts from takes over
EndBranch ==
    /\ control.op = "end"
    /\ BranchParent(control.node) # 0
    /\ stack' = <<Frame("end", 0, control.job, 0)>> \o stack
    /\ control' = Call("recall", BranchParent(control.node), control.job)
    /\ UNCHANGED <<flow, jobs, execution, seen, stale>>

StatusMap(s) == IF s = "PENDING" THEN "STARTED" ELSE s

\* execution.update({ status }) writes what differs from the instance
UpdateStatus(s) ==
    /\ execution' = IF s = seen THEN execution ELSE s
    /\ seen' = s

\* on the main flow, the execution gets the status of the job
Exit ==
    /\ control.op = "end"
    /\ BranchParent(control.node) = 0
    /\ UpdateStatus(StatusMap(jobs[control.job].status))
    /\ control' = Return(0)
    /\ UNCHANGED <<flow, jobs, stale, stack>>

-----------------------------------------------------------------------------
(* A value comes back to the call that waits for it *)

Returning(fn) ==
    /\ control.op = "return"
    /\ stack # <<>>
    /\ Head(stack).fn = fn
    /\ stack' = Tail(stack)

\* mutant of ReturnToExec: the promise of an instruction without a job hangs
ReturnToExecJob ==
    /\ Returning("exec")
    /\ control.job # 0
    /\ control' = After(Head(stack).node, control.job, jobs[control.job].status)
    /\ UNCHANGED <<flow, jobs, execution, seen, stale>>

\* exec() gets the instruction's value: a job that is saved, or null
ReturnToExec ==
    /\ Returning("exec")
    /\ control' = IF control.job = 0 THEN Return(0)
                  ELSE After(Head(stack).node, control.job, jobs[control.job].status)
    /\ UNCHANGED <<flow, jobs, execution, seen, stale>>

\* end() returns the job it was given
ReturnToEnd ==
    /\ Returning("end")
    /\ control' = Return(Head(stack).job)
    /\ UNCHANGED <<flow, jobs, execution, seen, stale>>

\* mutant of GoesOn: "all" waits for a branch before it runs the next
GoesOnResolved(mode, previous) ==
    \/ mode = "all" /\ previous = "RESOLVED"
    \/ mode = "any" /\ previous \in {"PENDING", "FAILED"}
    \/ mode = "race" /\ previous = "PENDING"

\* Modes[mode].next(previous)
GoesOn(mode, previous) ==
    \/ previous = "PENDING"
    \/ mode = "all" /\ previous = "RESOLVED"
    \/ mode = "any" /\ previous = "FAILED"

\* the parallel node runs its next branch, or ends with its own job
ReturnToParallel ==
    /\ control.op = "return"
    /\ stack # <<>>
    /\ Head(stack).fn = "parallel"
    /\ LET frame == Head(stack)
           branches == Branches(frame.node)
           more == /\ frame.branch < Len(branches)
                   /\ GoesOn(flow[frame.node].mode, jobs[control.job].status)
       IN \/ /\ more
             /\ stack' = [stack EXCEPT ![1].branch = @ + 1]
             /\ control' = Call("run", branches[frame.branch + 1], frame.job)
          \/ /\ ~more
             /\ stack' = Tail(stack)
             /\ control' = Call("end", frame.node, frame.job)
    /\ UNCHANGED <<flow, jobs, execution, seen, stale>>

\* start() or resume() of the processor is done, and commits
Done ==
    /\ control.op = "return"
    /\ stack = <<>>
    /\ control' = Idle
    /\ UNCHANGED <<flow, jobs, execution, seen, stale, stack>>

-----------------------------------------------------------------------------
(* start() and resume() *)

\* the first node with no upstream runs; without a node the execution ends
Start ==
    /\ control.op = "start"
    /\ \/ /\ flow = <<>>
          /\ UpdateStatus("RESOLVED")
          /\ control' = Return(0)
       \/ /\ flow # <<>>
          /\ \E head \in Node :
                /\ flow[head].upstream = 0
                /\ \A n \in Node : flow[n].upstream = 0 => head <= n
                /\ control' = Call("run", head, 0)
          /\ UNCHANGED <<execution, seen>>
    /\ UNCHANGED <<flow, jobs, stale, stack>>

\* a timer, a response or a user resumes a pending job, when no processor
\* runs and the execution has not ended
Resumable(j) ==
    /\ execution = "STARTED"
    /\ jobs[j].status = "PENDING"
    /\ flow[jobs[j].node].type \in Asynchronous

\* resume() tests the status of the instance of the execution, that is STARTED
Recall(j) ==
    /\ control = Idle
    /\ seen' = "STARTED"
    /\ control' = Call("recall", jobs[j].node, j)
    /\ UNCHANGED <<flow, jobs, execution, stack>>

Resume(j) ==
    /\ Resumable(j)
    /\ Recall(j)
    /\ UNCHANGED stale

\* What was queued before a run of the processor is processed after it with the
\* instances it was queued with: of an execution that has ended since, or of the
\* job of a manual node that another answer has ended since.
ResumeStale(j) ==
    /\ Len(stale) < MaxStale
    /\ \/ jobs[j].status = "PENDING" /\ execution # "STARTED"
       \/ jobs[j].status # "PENDING" /\ flow[jobs[j].node].type = "manual"
    /\ flow[jobs[j].node].type \in Asynchronous
    /\ Recall(j)
    /\ stale' = Append(stale, j)

Init ==
    /\ flow \in Flows
    /\ jobs = <<>>
    /\ execution = "STARTED"
    /\ seen = "STARTED"
    /\ stale = <<>>
    /\ control = Call("start", 0, 0)
    /\ stack = <<>>

\* one step of the processor
Step ==
    \/ Start \/ RunSimple \/ RunCondition \/ RunParallel
    \/ RunDelay \/ RunManual \/ RunRequest
    \/ RecallAsynchronous \/ RecallCondition \/ RecallParallel
    \/ EndBranch \/ Exit
    \/ ReturnToExec \/ ReturnToEnd \/ ReturnToParallel \/ Done

Next == Step \/ \E j \in Job : Resume(j) \/ ResumeStale(j)

Spec == Init /\ [][Next]_vars

\* the awaits of the processor are answered; nobody has to resume a job
FairSpec == Spec /\ WF_vars(Step)

-----------------------------------------------------------------------------
(* Properties *)

TypeOK ==
    /\ flow \in Seq(Nodes(Len(flow)))
    /\ \A j \in Job :
          /\ jobs[j].node \in Node
          /\ jobs[j].status \in Status
          /\ jobs[j].upstream \in 0..(j - 1)
          /\ \A i \in DOMAIN jobs[j].result :
                jobs[j].result[i] \in Status \cup {"NONE", "TRUE", "FALSE", "OTHER"}
    /\ execution \in {"STARTED", "RESOLVED", "FAILED"}
    /\ seen \in {"STARTED", "RESOLVED", "FAILED"}
    /\ stale \in Seq(Job)
    /\ control \in [op : Ops, node : 0..Len(flow), job : 0..Last]
    /\ \A i \in DOMAIN stack :
          stack[i] \in [fn : {"exec", "end", "parallel"}, node : 0..Len(flow),
                        job : 0..Last, branch : 0..Len(flow)]

\* the parallel node that node n belongs to a branch of, over conditions
ParallelOf(n) ==
    LET up[k \in Node \cup {0}] ==
          IF k = 0 \/ flow[k].type = "parallel" THEN k ELSE up[BranchParent(k)]
    IN up[BranchParent(n)]

\* j is a job of the branch that starts at node b, run for the job p of the
\* parallel node, and not of a parallel node inside the branch
InBranch(j, b, p) ==
    LET n == flow[b].upstream
    IN /\ ParallelOf(jobs[j].node) = n
       /\ BranchParentJob(j, n) = p
       /\ BranchStart(jobs[j].node, n) = b

LastOf(js) == CHOOSE j \in js : \A k \in js : k <= j

\* The jobs in the branches of the parallel job p: no node ran twice, each job
\* leads up to p and none was resumed out of date.  A node after a condition runs
\* twice, and a job of a request leads to nothing: see OneJobPerNode and
\* BranchJobHasParent.
Orderly(p) ==
    LET inside == {j \in Job : ParallelOf(jobs[j].node) = jobs[p].node}
    IN /\ \A j, k \in inside : jobs[j].node = jobs[k].node => j = k
       /\ \A j \in inside : BranchParentJob(j, jobs[p].node) = p
       /\ \A i \in DOMAIN stale : stale[i] \notin inside

\* The statuses a parallel job keeps of its branches are the ones its branches
\* have: between two runs, the entry of a branch is the status of the last job
\* of the branch, and null when the branch has none.
ResultsAgree ==
    control = Idle => \A p \in Job :
        flow[jobs[p].node].type = "parallel" /\ jobs[p].status = "PENDING" /\ Orderly(p) =>
            LET branches == Branches(jobs[p].node)
            IN \A i \in DOMAIN jobs[p].result :
                  LET js == {j \in Job : InBranch(j, branches[i], p)}
                  IN jobs[p].result[i] =
                        IF js = {} THEN "NONE" ELSE jobs[LastOf(js)].status

\* A parallel node in a branch of the parallel job p is decided and still in its
\* run(): what comes after it has run, and its own job is passed on once more.
Overtaken(p) ==
    \E i \in DOMAIN stack, q \in Job :
        /\ stack[i].fn = "exec"
        /\ stack[i].node = jobs[q].node
        /\ flow[jobs[q].node].type = "parallel"
        /\ flow[jobs[q].node].downstream # 0
        /\ jobs[q].status # "PENDING"
        /\ ParallelOf(jobs[q].node) = jobs[p].node

\* A parallel node of mode "all" goes on to its downstream only when each branch
\* has a job and all the jobs of its branches are resolved.
JoinWaits ==
    LET p == control.job
    IN (/\ control.op = "run"
        /\ p # 0
        /\ flow[jobs[p].node].type = "parallel"
        /\ flow[jobs[p].node].mode = "all"
        /\ flow[jobs[p].node].downstream = control.node
        /\ Orderly(p)
        /\ ~ Overtaken(p)) =>
           \A i \in DOMAIN Branches(jobs[p].node) :
               LET js == {k \in Job : InBranch(k, Branches(jobs[p].node)[i], p)}
               IN js # {} /\ \A k \in js : jobs[k].status = "RESOLVED"

\* j is the job of a parallel node with no node in any branch: nothing recalls
\* it, so it stays pending
Branchless(j) ==
    /\ flow[jobs[j].node].type = "parallel"
    /\ jobs[j].status = "PENDING"
    /\ Branches(jobs[j].node) = <<>>

\* An execution that is suspended can go on: it has a job that something will
\* resume, except when it came to a parallel node without branches.
SuspendedCanResume ==
    control = Idle /\ execution = "STARTED" =>
        \E j \in Job : Resumable(j) \/ Branchless(j)

\* An answer to the manual job j is counted that was queued before j ended.
Recounted(j) ==
    /\ Recalled("manual")
    /\ control.job = j
    /\ \E i \in DOMAIN stale : stale[i] = j

\* A job that has ended keeps its status, but for a manual job that another answer
\* resumes once more.
EndedJobsStay ==
    [][\A j \in Job : jobs[j].status # "PENDING"
          => jobs'[j].status = jobs[j].status \/ Recounted(j)]_vars

\* Each start or resumption of the processor comes to an end.
Returns == []<>(control = Idle)

(* What the code means to keep and does not: the README says how each fails. *)

\* "really done for all nodes": an execution that is resolved has no job of the
\* main flow pending; not so when a parallel node goes on inside of its run().
ResolvedIsDone ==
    execution = "RESOLVED" /\ control = Idle => \A j \in Job :
        BranchParent(jobs[j].node) = 0 => jobs[j].status # "PENDING"

\* "return to continue node.downstream": the branch of a condition that ends
\* continues with the downstream once, and no node runs twice; not so when the
\* branch ends inside of the condition's run().
OneJobPerNode ==
    \A j, k \in Job : jobs[j].node = jobs[k].node => j = k

\* A parallel node that is resumed by a branch finds its own job upstream of the
\* branch's job: the code takes it "as JobModel"; not so behind a request.
BranchJobHasParent ==
    Recalled("parallel") => BranchParentJob(control.job, control.node) # 0

=============================================================================
