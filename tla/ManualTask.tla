----------------------------- MODULE ManualTask -----------------------------
(***************************************************************************)
(* A job of a manual node                                                  *)
(* (packages/plugins/workflow/src/server/instructions/manual): each        *)
(* assigned user has a task in users_jobs, submit() records an answer and  *)
(* asks the plugin to resume the job, and resume() of the instruction      *)
(* counts the answers and decides.                                         *)
(*                                                                         *)
(* Several users submit at once.  A request reads the task, the job and    *)
(* the execution in its transaction, is seen by the others when it         *)
(* commits, and hands to the plugin the instance of the job that it read;  *)
(* the plugin runs the resumptions one after the other                     *)
(* (WorkflowDispatcher), each on its own instance.                         *)
(***************************************************************************)
EXTENDS Naturals, Sequences, FiniteSets

CONSTANTS
    Requests,      \* the submissions that may be open at once
    Owner,         \* the user who sends each of them
    Assignees,     \* node.config.assignees, in which a user may occur twice
    MaxResumes     \* bound on the resumptions that are queued, ever

Assigned == {Assignees[i] : i \in DOMAIN Assignees}

ASSUME ConstantsAssumption ==
    /\ Owner \in [Requests -> Assigned]
    /\ Assignees \in Seq(Assigned)
    /\ MaxResumes \in Nat

\* JOB_STATUS, of users_jobs and of jobs, every failing one as "FAILED"
Status == {"PENDING", "RESOLVED", "FAILED"}

\* the modes that getMode() has a handler for
Mode == {"single", "all", "any"}

VARIABLES
    mode,       \* node.config.mode: null, 1 or -1
    task,       \* users_jobs.status, by user
    job,        \* jobs.status
    execution,  \* executions.status: STARTED, or ENDED
    enabled,    \* workflows.enabled
    request,    \* each submission: where it is, and the answer it brings
    queue,      \* WorkflowPlugin.pending: the status of the execution that each
                \* resumption read; the job they read was pending
    run,        \* the resumption in progress, and the status it gives the job
    resumes,    \* the resumptions queued so far
    continued,  \* how many times the job went on with status RESOLVED
    lost        \* a restart lost a resumption

vars == <<mode, task, job, execution, enabled, request, queue, run, resumes,
          continued, lost>>

Idle == [step |-> "idle", answer |-> "PENDING", seen |-> "STARTED"]
NoRun == [step |-> "idle", status |-> "PENDING"]
InFlight(r) == request[r].step # "idle"

-----------------------------------------------------------------------------
(* submit() *)

\* the transaction validates what it reads; s is one of node.config.actions
Submit(r, s) ==
    /\ ~InFlight(r)
    /\ task[Owner[r]] = "PENDING"
    /\ job = "PENDING"
    /\ execution = "STARTED"
    /\ enabled
    /\ resumes < MaxResumes
    /\ resumes' = resumes + 1
    /\ request' = [request EXCEPT ![r] = [Idle EXCEPT !.step = "checked", !.answer = s]]
    /\ UNCHANGED <<mode, task, job, execution, enabled, queue, run, continued, lost>>

\* it updates the task and commits
Commit(r) ==
    /\ request[r].step = "checked"
    /\ task' = [task EXCEPT ![Owner[r]] = request[r].answer]
    /\ request' = [request EXCEPT ![r].step = "committed"]
    /\ UNCHANGED <<mode, job, execution, enabled, queue, run, resumes, continued, lost>>

-----------------------------------------------------------------------------
(* resume() of the plugin *)

\* the execution of the job is read
Fetch(r) ==
    /\ request[r].step = "committed"
    /\ request' = [request EXCEPT ![r].step = "fetched", ![r].seen = execution]
    /\ UNCHANGED <<mode, task, job, execution, enabled, queue, run, resumes, continued, lost>>

\* mutant of Push: a resumption that comes while another one runs is dropped
PushWhenFree(r) ==
    /\ request[r].step = "fetched"
    /\ queue' = IF run = NoRun THEN Append(queue, request[r].seen) ELSE queue
    /\ request' = [request EXCEPT ![r] = Idle]
    /\ UNCHANGED <<mode, task, job, execution, enabled, run, resumes, continued, lost>>

\* and the job is queued with it
Push(r) ==
    /\ request[r].step = "fetched"
    /\ queue' = Append(queue, request[r].seen)
    /\ request' = [request EXCEPT ![r] = Idle]
    /\ UNCHANGED <<mode, task, job, execution, enabled, run, resumes, continued, lost>>

\* the plugin takes the next resumption; the processor refuses it when the
\* execution it holds was not STARTED
Begin ==
    /\ run = NoRun
    /\ queue # <<>>
    /\ queue' = Tail(queue)
    /\ run' = IF Head(queue) = "STARTED" THEN [NoRun EXCEPT !.step = "count"] ELSE NoRun
    /\ UNCHANGED <<mode, task, job, execution, enabled, request, resumes, continued, lost>>

-----------------------------------------------------------------------------
(* resume() of the instruction *)

Count(s) == Cardinality({u \in Assigned : task[u] = s})

\* mutant of Decisions: "all" does not look at the number of the assignees
DecisionsOfSome ==
    IF mode = "all" /\ Count("RESOLVED") > 0 THEN {"RESOLVED"}
    ELSE {task[u] : u \in Assigned}

\* mutant of Decisions: no decision is null, and not PENDING
DecisionsOrNull ==
    IF \E u \in Assigned : task[u] = "PENDING" THEN {"NULL"}
    ELSE {task[u] : u \in Assigned}

\* getMode(mode).getStatus(distribution, assignees): the statuses the answers
\* can give; "single" takes the first that the database lists
Decisions ==
    LET answered == {u \in Assigned : task[u] # "PENDING"}
        some(s) == Count(s) > 0
        every(s) == Count(s) = Len(Assignees)
    IN IF mode = "single"
       THEN IF answered = {} THEN {"PENDING"} ELSE {task[u] : u \in answered}
       ELSE {IF mode = "all"
             THEN IF every("RESOLVED") /\ some("RESOLVED") THEN "RESOLVED"
                  ELSE IF some("FAILED") THEN "FAILED" ELSE "PENDING"
             ELSE IF some("RESOLVED") THEN "RESOLVED"
                  ELSE IF every("FAILED") THEN "FAILED" ELSE "PENDING"}

\* the answers are counted, and decide since the job was read pending
Decide ==
    /\ run.step = "count"
    /\ \E s \in Decisions : run' = [step |-> "save", status |-> s]
    /\ UNCHANGED <<mode, task, job, execution, enabled, request, queue, resumes,
                   continued, lost>>

\* the job is saved.  A resolved one goes on with the downstream; then the
\* execution ends or waits for other jobs, and the plugin is free.
Save ==
    /\ run.step = "save"
    /\ job' = run.status
    /\ continued' = IF run.status = "RESOLVED" THEN continued + 1 ELSE continued
    /\ run' = NoRun
    /\ \/ UNCHANGED execution
       \/ run.status # "PENDING" /\ execution' = "ENDED"
    /\ UNCHANGED <<mode, task, enabled, request, queue, resumes, lost>>

-----------------------------------------------------------------------------
(* What happens around *)

\* another job of the execution ends it
EndElsewhere ==
    /\ run = NoRun
    /\ execution = "STARTED"
    /\ execution' = "ENDED"
    /\ UNCHANGED <<mode, task, job, enabled, request, queue, run, resumes, continued, lost>>

\* the workflow is disabled, or enabled again
Toggle ==
    /\ enabled' = ~enabled
    /\ UNCHANGED <<mode, task, job, execution, request, queue, run, resumes, continued, lost>>

\* the process stops and starts: what was committed stays
Restart ==
    /\ ~lost
    /\ request' = [r \in Requests |-> Idle]
    /\ queue' = <<>>
    /\ run' = NoRun
    /\ lost' = TRUE
    /\ UNCHANGED <<mode, task, job, execution, enabled, resumes, continued>>

\* run() of the instruction: a pending job, and a task for each user
Init ==
    /\ mode \in Mode
    /\ task = [u \in Assigned |-> "PENDING"]
    /\ job = "PENDING"
    /\ execution = "STARTED"
    /\ enabled = TRUE
    /\ request = [r \in Requests |-> Idle]
    /\ queue = <<>>
    /\ run = NoRun
    /\ resumes = 0
    /\ continued = 0
    /\ lost = FALSE

\* what the process does by itself
Step ==
    \/ \E r \in Requests : Commit(r) \/ Fetch(r) \/ Push(r)
    \/ Begin \/ Decide \/ Save

Next ==
    \/ \E r \in Requests, s \in Status : Submit(r, s)
    \/ Step
    \/ EndElsewhere
    \/ Toggle
    \/ Restart

Spec == Init /\ [][Next]_vars

\* the database answers and the event loop runs what is ready; nobody has to
\* submit
FairSpec ==
    /\ Spec
    /\ \A r \in Requests : WF_vars(Commit(r) \/ Fetch(r) \/ Push(r))
    /\ WF_vars(Begin \/ Decide \/ Save)

-----------------------------------------------------------------------------
(* Properties *)

TypeOK ==
    /\ mode \in Mode
    /\ task \in [Assigned -> Status]
    /\ job \in Status
    /\ execution \in {"STARTED", "ENDED"}
    /\ enabled \in BOOLEAN
    /\ request \in [Requests -> [step : {"idle", "checked", "committed", "fetched"},
                                 answer : Status, seen : {"STARTED", "ENDED"}]]
    /\ queue \in Seq({"STARTED", "ENDED"})
    /\ run \in [step : {"idle", "count", "save"}, status : Status]
    /\ resumes \in 0..MaxResumes
    /\ continued \in Nat
    /\ lost \in BOOLEAN

\* The answers that decide are never left uncounted: while the job is pending
\* and they ask for another status, a resumption that will count them is on its
\* way, although the one that runs may have counted too early.
DecisionIsComing ==
    (job = "PENDING" /\ execution = "STARTED" /\ "PENDING" \notin Decisions) =>
        \/ \E r \in Requests : request[r].step = "committed"
        \/ \E r \in Requests : request[r].step = "fetched" /\ request[r].seen = "STARTED"
        \/ \E i \in DOMAIN queue : queue[i] = "STARTED"
        \/ run.step = "count"
        \/ run.step = "save" /\ run.status # "PENDING"
        \/ lost

\* A job that waits for all of its users is not resolved while the answer of one
\* is missing or is a refusal, in any order of the submissions.
AllHaveResolved ==
    mode = "all" /\ job = "RESOLVED" => \A u \in Assigned : task[u] = "RESOLVED"

\* When the answers decide, and the execution is not ended by another job, the
\* job gets its status in the end.
DecisionComes ==
    (job = "PENDING" /\ "PENDING" \notin Decisions)
        ~> (job # "PENDING" \/ execution = "ENDED" \/ lost)

\* "check all users jobs related if all done then continue": the workflow goes
\* on after the job once; the code does not keep this when two answers are in
\* before the first of them is counted (README).
ContinuesOnce == continued <= 1

=============================================================================
