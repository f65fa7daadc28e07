------------------------- MODULE WorkflowDispatcher -------------------------
(***************************************************************************)
(* The execution queue of the workflow plugin                              *)
(* (packages/plugins/workflow/src/server/Plugin.ts): trigger, prepare,     *)
(* resume, dispatch and process.                                           *)
(*                                                                         *)
(* The plugin runs on one JavaScript thread.  What interleaves is the      *)
(* asynchronous calls: a "fiber" below is one chain of continuations       *)
(* (a timer callback, a request handler, an un-awaited call), and a step   *)
(* is the code that runs between two awaits.  Every await on the database  *)
(* is a point where other fibers run, so a value read before it may be     *)
(* stale after it.  The processor (Processor.ts) is abstracted to the      *)
(* outcome of one run: the execution ends, its run stops with some jobs    *)
(* pending, or with none, or an exception leaves it as it was;             *)
(* FlowProcessor models it in detail.                                      *)
(***************************************************************************)
EXTENDS Naturals, Sequences, FiniteSets

CONSTANTS
    Fibers,          \* bound on the asynchronous calls in flight at once
    MaxWorkflows,    \* the enabled workflows are 1..MaxWorkflows
    MaxExecutions,   \* bound on the rows of the executions table
    MaxTriggers,     \* bound on the number of trigger() calls
    Jobs,            \* the jobs that the runs may leave pending
    NoJob,           \* a task without a job: the execution is to be started
    MaxResumptions,  \* bound on the resumptions that are asked for
    MaxRestarts      \* bound on the number of process restarts

ASSUME ConstantsAssumption ==
    /\ MaxWorkflows \in Nat
    /\ MaxExecutions \in Nat
    /\ MaxTriggers \in Nat
    /\ NoJob \notin Jobs
    /\ MaxResumptions \in Nat
    /\ MaxRestarts \in Nat

\* workflows.id and executions.id, the latter in the order of createdAt;
\* 0 stands for null
Workflow == 1..MaxWorkflows
Execution == 1..MaxExecutions
Nothing == 0

\* EXECUTION_STATUS with every final status as "ENDED"; "ABSENT" is an
\* execution that has no row yet
Status == {"ABSENT", "QUEUEING", "STARTED", "ENDED"}

\* WorkflowPlugin.events: the workflow and options.context.executionId
Event == [workflow: 0..MaxWorkflows, parent: 0..MaxExecutions]
NoEvent == [workflow |-> Nothing, parent |-> Nothing]

\* Pending: an ExecutionModel instance (its id and the status it holds in
\* memory) and the job that is resumed, if any
Task == [exec: Execution, seen: Status, job: Jobs \cup {NoJob}]
NoTask == [exec |-> Nothing, seen |-> "ABSENT", job |-> NoJob]
\* mutant of Created: the row is created without a status
CreatedWithoutStatus(e) == [exec |-> e, seen |-> "NULL", job |-> NoJob]

\* the instance of an execution that was created, or found QUEUEING
Created(e) == [exec |-> e, seen |-> "QUEUEING", job |-> NoJob]

Steps == {"idle", "timer", "check", "create", "created",
          "fetched", "query", "found", "mark", "run"}

VARIABLES
    \* fields of the plugin, lost when the process stops
    events, pending, executing,
    \* the asynchronous calls in flight: where each one is, the event it
    \* prepares and the execution it holds
    step, event, task,
    \* the executions table
    status, workflow, parent,
    \* the jobs table: the execution of each job (Nothing when there is no
    \* row) and the jobs that are PENDING; and the jobs that a timer, a
    \* response or a user is still to resume
    owner, open, waiting,
    \* executions known to have lost what would resume them (README)
    abandoned,
    \* counters of the bounds
    triggers, resumptions, restarts

memory == <<events, pending, executing>>
calls == <<step, event, task>>
rows == <<status, workflow, parent>>
jobs == <<owner, open, waiting>>
counters == <<triggers, resumptions, restarts>>
vars == <<memory, calls, rows, jobs, abandoned, counters>>

Queued == {e \in Execution : status[e] = "QUEUEING"}
Idle(f) == step[f] = "idle"
Preparing(f) == step[f] \in {"check", "create", "created"}
Processing(f) == step[f] \in {"mark", "run"}
Holding(f) == step[f] \in {"created", "fetched", "found", "mark", "run"}

\* the fiber f is at step s, preparing event v or holding task t
Goto(f, s, v, t) ==
    /\ step' = [step EXCEPT ![f] = s]
    /\ event' = [event EXCEPT ![f] = v]
    /\ task' = [task EXCEPT ![f] = t]

-----------------------------------------------------------------------------
(* The code between two awaits *)

\* process(): this.executing is set, and the update to STARTED awaited when
\* the instance still says QUEUEING
Process(f, t) ==
    /\ executing' = t.exec
    /\ Goto(f, IF t.seen = "QUEUEING" THEN "mark" ELSE "run", NoEvent, t)

\* mutant of Dispatch: the table is looked up, and this.pending not
DispatchFromTable(f, running, queue) ==
    /\ Goto(f, IF running # Nothing THEN "idle" ELSE "query", NoEvent, NoTask)
    /\ executing' = running
    /\ pending' = queue

\* dispatch(), called when this.executing is running and this.pending queue
Dispatch(f, running, queue) ==
    \/ /\ running # Nothing
       /\ Goto(f, "idle", NoEvent, NoTask)
       /\ executing' = running
       /\ pending' = queue
    \/ /\ running = Nothing
       /\ queue # <<>>
       /\ Process(f, Head(queue))
       /\ pending' = Tail(queue)
    \/ /\ running = Nothing
       /\ queue = <<>>
       /\ Goto(f, "query", NoEvent, NoTask)
       /\ executing' = Nothing
       /\ pending' = <<>>

\* prepare() up to its first await: the count of the workflow's executions
\* when the event comes from an execution, else the transaction
TakeEvent(f) ==
    /\ events' = Tail(events)
    /\ Goto(f, IF Head(events).parent # Nothing THEN "check" ELSE "create",
            Head(events), NoTask)

\* mutant of AfterPrepare: the events that came meanwhile are not looked at
AfterPrepareOnce(f, queue) ==
    /\ Dispatch(f, executing, queue)
    /\ UNCHANGED events

\* the end of prepare(): the next event, else dispatch()
AfterPrepare(f, queue) ==
    \/ /\ events # <<>>
       /\ TakeEvent(f)
       /\ pending' = queue
       /\ UNCHANGED executing
    \/ /\ events = <<>>
       /\ Dispatch(f, executing, queue)
       /\ UNCHANGED events

-----------------------------------------------------------------------------
(* trigger() and prepare() *)

\* a trigger fires for workflow w: from a request or a schedule (p is
\* Nothing), or from a node of the running execution p
Trigger(w, p) ==
    /\ triggers < MaxTriggers
    /\ p # Nothing => \E f \in Fibers : step[f] = "run" /\ task[f].exec = p
    /\ triggers' = triggers + 1
    /\ events' = Append(events, [workflow |-> w, parent |-> p])
    /\ \/ /\ events = <<>>
          /\ \E f \in Fibers : Idle(f) /\ Goto(f, "timer", NoEvent, NoTask)
       \/ /\ events # <<>>
          /\ UNCHANGED calls
    /\ UNCHANGED <<pending, executing, rows, jobs, abandoned,
                   resumptions, restarts>>

\* the setTimeout callback
Timer(f) ==
    /\ step[f] = "timer"
    /\ \/ /\ events # <<>>
          /\ TakeEvent(f)
       \/ /\ events = <<>>
          /\ Goto(f, "idle", NoEvent, NoTask)
          /\ UNCHANGED events
    /\ UNCHANGED <<pending, executing, rows, jobs, abandoned, counters>>

\* countExecutions answers: an event raised by an execution of the same
\* workflow is skipped
Check(f) ==
    /\ step[f] = "check"
    /\ \/ /\ workflow[event[f].parent] = event[f].workflow
          /\ AfterPrepare(f, pending)
       \/ /\ workflow[event[f].parent] # event[f].workflow
          /\ Goto(f, "create", event[f], NoTask)
          /\ UNCHANGED memory
    /\ UNCHANGED <<rows, jobs, abandoned, counters>>

\* the transaction that creates the execution commits
Create(f) ==
    /\ step[f] = "create"
    /\ \E e \in Execution :
          /\ status[e] = "ABSENT"
          /\ \A d \in Execution : d < e => status[d] # "ABSENT"
          /\ status' = [status EXCEPT ![e] = "QUEUEING"]
          /\ workflow' = [workflow EXCEPT ![e] = event[f].workflow]
          /\ parent' = [parent EXCEPT ![e] = event[f].parent]
          /\ Goto(f, "created", NoEvent, Created(e))
    /\ UNCHANGED <<memory, jobs, abandoned, counters>>

\* and prepare() goes on: the instance is cached when nothing else is to run
Cache(f) ==
    /\ step[f] = "created"
    /\ AfterPrepare(f, IF executing = Nothing /\ pending = <<>>
                       THEN <<task[f]>> ELSE pending)
    /\ UNCHANGED <<rows, jobs, abandoned, counters>>

-----------------------------------------------------------------------------
(* dispatch() and process() *)

\* the findOne of dispatch() reads the oldest QUEUEING execution
Lookup(f) ==
    /\ step[f] = "query"
    /\ \/ /\ Queued = {}
          /\ Goto(f, "idle", NoEvent, NoTask)
       \/ \E e \in Queued :
             /\ \A d \in Queued : e <= d
             /\ Goto(f, "found", NoEvent, Created(e))
    /\ UNCHANGED <<memory, rows, jobs, abandoned, counters>>

\* and dispatch() goes on: this.executing is not looked at again
Found(f) ==
    /\ step[f] = "found"
    /\ Process(f, task[f])
    /\ UNCHANGED <<events, pending, rows, jobs, abandoned, counters>>

\* execution.update({ status: STARTED })
Mark(f) ==
    /\ step[f] = "mark"
    /\ status' = [status EXCEPT ![task[f].exec] = "STARTED"]
    /\ Goto(f, "run", NoEvent, [task[f] EXCEPT !.seen = "STARTED"])
    /\ UNCHANGED <<memory, workflow, parent, jobs, abandoned, counters>>

\* mutant of EndProcess: the plugin waits for the next trigger
EndProcessSilently(f) ==
    /\ step[f] = "run"
    /\ Goto(f, "idle", NoEvent, NoTask)
    /\ executing' = Nothing
    /\ UNCHANGED <<pending, events, workflow, parent, counters>>

\* mutant of EndProcess: this.executing is not reset
EndProcessKeepsExecuting(f) ==
    /\ step[f] = "run"
    /\ Dispatch(f, executing, pending)
    /\ UNCHANGED <<events, workflow, parent, counters>>

\* the end of process(), whatever the processor did
EndProcess(f) ==
    /\ step[f] = "run"
    /\ Dispatch(f, Nothing, pending)
    /\ UNCHANGED <<events, workflow, parent, counters>>

\* start() and resume() throw when the instance is not STARTED
Refuse(f) ==
    /\ task[f].seen # "STARTED"
    /\ EndProcess(f)
    /\ UNCHANGED <<status, jobs, abandoned>>

\* the processor exits with a final status
Finish(f) ==
    /\ task[f].seen = "STARTED"
    /\ EndProcess(f)
    /\ status' = [status EXCEPT ![task[f].exec] = "ENDED"]
    /\ open' = open \ {task[f].job}
    /\ waiting' = waiting \ {task[f].job}
    /\ UNCHANGED <<owner, abandoned>>

\* the processor returns and the execution is still STARTED.  The run leaves
\* the jobs made, of which somebody will resume those in asked (not a task that is
\* assigned to nobody); the job it resumed is kept PENDING when more answers
\* are needed.  A parallel node without branches makes no job to resume.
Suspend(f) ==
    LET t == task[f]
    IN  /\ t.seen = "STARTED"
        /\ EndProcess(f)
        /\ \E made \in SUBSET {j \in Jobs : owner[j] = Nothing},
              kept \in SUBSET ({t.job} \cap Jobs) :
           \E asked \in SUBSET made :
              /\ owner' = [j \in Jobs |-> IF j \in made THEN t.exec ELSE owner[j]]
              /\ open' = (open \ {t.job}) \cup made \cup kept
              /\ waiting' = (waiting \ {t.job}) \cup asked \cup kept
              /\ abandoned' =
                    IF \/ made # asked
                       \/ t.job = NoJob /\ made = {}
                       \/ ~\E j \in open' : owner'[j] = t.exec
                    THEN abandoned \cup {t.exec} ELSE abandoned
        /\ UNCHANGED status

\* the processor throws: logged, and the execution stays as it was
Throw(f) ==
    /\ task[f].seen = "STARTED"
    /\ EndProcess(f)
    /\ abandoned' = abandoned \cup {task[f].exec}
    /\ UNCHANGED <<status, jobs>>

-----------------------------------------------------------------------------
(* resume(), and the process that stops and starts again *)

\* a timer, a response or a user resumes the job j: its execution is read by
\* resume(), or by its caller.  A task may have more users, who are still to
\* answer.  The processor will refuse an execution that was not STARTED then.
Fetch(j) ==
    LET e == owner[j]
    IN  /\ j \in waiting /\ e # Nothing
        /\ resumptions < MaxResumptions
        /\ resumptions' = resumptions + 1
        /\ waiting' \in {waiting, waiting \ {j}}
        /\ \E f \in Fibers :
              Idle(f) /\ Goto(f, "fetched", NoEvent,
                              [exec |-> e, seen |-> status[e], job |-> j])
        /\ abandoned' = IF status[e] = "STARTED" THEN abandoned
                        ELSE abandoned \cup {e}
        /\ UNCHANGED <<memory, rows, owner, open, triggers, restarts>>

\* mutant of Resume: a resumption that comes while something executes is lost
ResumeWhenFree(f) ==
    /\ step[f] = "fetched"
    /\ Dispatch(f, executing,
                IF executing = Nothing THEN Append(pending, task[f]) ELSE pending)
    /\ UNCHANGED <<events, rows, jobs, abandoned, counters>>

\* and resume() goes on with the execution it read
Resume(f) ==
    /\ step[f] = "fetched"
    /\ Dispatch(f, executing, Append(pending, task[f]))
    /\ UNCHANGED <<events, rows, jobs, abandoned, counters>>

\* a resumption of j is in the plugin's memory, which the processor will accept
InMemory(j) ==
    \/ \E i \in DOMAIN pending : pending[i].job = j /\ pending[i].seen = "STARTED"
    \/ \E f \in Fibers : task[f].job = j /\ task[f].seen = "STARTED"

\* the start of execution e is in progress
Starting(f, e) == Processing(f) /\ task[f].exec = e /\ task[f].job = NoJob

\* mutant of Restart: beforeStart does not dispatch
RestartSilently ==
    /\ restarts < MaxRestarts
    /\ restarts' = restarts + 1
    /\ events' = <<>>
    /\ pending' = <<>>
    /\ executing' = Nothing
    /\ step' = [f \in Fibers |-> "idle"]
    /\ event' = [f \in Fibers |-> NoEvent]
    /\ task' = [f \in Fibers |-> NoTask]
    /\ UNCHANGED <<rows, jobs, abandoned, triggers, resumptions>>

\* the process dies at any point, and starts: what was in memory is gone,
\* with the responses some jobs waited for; timers are loaded again from the
\* jobs that are still pending; beforeStart dispatches.  Of the jobs whose
\* resumption was being processed, those in done were saved already.
Restart ==
    /\ restarts < MaxRestarts
    /\ restarts' = restarts + 1
    /\ events' = <<>>
    /\ pending' = <<>>
    /\ executing' = Nothing
    /\ \E f \in Fibers : step' = [g \in Fibers |-> IF g = f THEN "query" ELSE "idle"]
    /\ event' = [f \in Fibers |-> NoEvent]
    /\ task' = [f \in Fibers |-> NoTask]
    /\ \E done \in SUBSET {j \in open : \E f \in Fibers : Processing(f) /\ task[f].job = j} :
          /\ open' = open \ done
          /\ waiting' \in SUBSET {j \in open' : j \in waiting \/ InMemory(j)}
          /\ abandoned' = abandoned \cup
                {e \in Execution : \/ \E j \in done \cup (open' \ waiting') : owner[j] = e
                                   \/ \E f \in Fibers : Starting(f, e)}
    /\ UNCHANGED <<rows, owner, triggers, resumptions>>

-----------------------------------------------------------------------------

Init ==
    /\ events = <<>>
    /\ pending = <<>>
    /\ executing = Nothing
    /\ \E f \in Fibers : step = [g \in Fibers |-> IF g = f THEN "query" ELSE "idle"]
    /\ event = [f \in Fibers |-> NoEvent]
    /\ task = [f \in Fibers |-> NoTask]
    /\ status = [e \in Execution |-> "ABSENT"]
    /\ workflow = [e \in Execution |-> Nothing]
    /\ parent = [e \in Execution |-> Nothing]
    /\ owner = [j \in Jobs |-> Nothing]
    /\ open = {}
    /\ waiting = {}
    /\ abandoned = {}
    /\ triggers = 0
    /\ resumptions = 0
    /\ restarts = 0

\* one continuation of a call in flight
Step(f) ==
    \/ Timer(f) \/ Check(f) \/ Create(f) \/ Cache(f)
    \/ Lookup(f) \/ Found(f) \/ Mark(f)
    \/ Refuse(f) \/ Finish(f) \/ Suspend(f) \/ Throw(f)
    \/ Resume(f)

Next ==
    \/ \E w \in Workflow, p \in 0..MaxExecutions : Trigger(w, p)
    \/ \E f \in Fibers : Step(f)
    \/ \E j \in Jobs : Fetch(j)
    \/ Restart

Spec == Init /\ [][Next]_vars

\* the event loop runs every continuation that is ready, and the database
\* answers; nothing makes a timer fire, a user act or a server respond
FairSpec == Spec /\ \A f \in Fibers : WF_vars(Step(f))

-----------------------------------------------------------------------------
(* Properties *)

TypeOK ==
    /\ events \in Seq(Event)
    /\ pending \in Seq(Task)
    /\ executing \in 0..MaxExecutions
    /\ step \in [Fibers -> Steps]
    /\ event \in [Fibers -> Event]
    /\ task \in [Fibers -> Task \cup {NoTask}]
    /\ \A f \in Fibers : Holding(f) => task[f] \in Task
    /\ status \in [Execution -> Status]
    /\ workflow \in [Execution -> 0..MaxWorkflows]
    /\ parent \in [Execution -> 0..MaxExecutions]
    /\ owner \in [Jobs -> 0..MaxExecutions]
    /\ open \in SUBSET Jobs
    /\ waiting \in SUBSET Jobs
    /\ abandoned \in SUBSET Execution
    /\ triggers \in 0..MaxTriggers
    /\ resumptions \in 0..MaxResumptions
    /\ restarts \in 0..MaxRestarts

\* An event is never left in the queue with no prepare() to take it, although
\* only the trigger() that finds the queue empty schedules one.
NoStrandedEvent ==
    events # <<>> => \E f \in Fibers : step[f] = "timer" \/ Preparing(f)

\* A QUEUEING execution is never left in the table with nobody to look it up:
\* a call that will reach dispatch() is in flight, although most dispatch()
\* calls return at once because something is executing.
NoStrandedExecution ==
    Queued # {} => \E f \in Fibers :
                      Preparing(f) \/ Processing(f) \/ step[f] \in {"query", "found"}

\* A pending resumption is never left behind: something executes, whose end
\* dispatches, or prepare() is about to dispatch.
NoStrandedResumption ==
    pending # <<>> => \E f \in Fibers : Preparing(f) \/ Processing(f)

\* this.executing blocks every dispatch(), so it must name an execution that
\* some process() call is still working on, even when two calls overlap.
ExecutingIsProcessed ==
    executing # Nothing =>
        \E f \in Fibers : Processing(f) /\ task[f].exec = executing

\* Somebody is still to resume j, or a resumption of it is on its way through
\* resume(), this.pending and dispatch().
Owed(j) == j \in waiting \/ InMemory(j)

\* A STARTED execution is not forgotten: its start is in progress or it has
\* pending jobs, and for every one of them a resumption is owed or on its way,
\* whatever calls overlap.  Not so for what is known to be lost: see README.
StartedIsOwned ==
    \A e \in Execution : status[e] = "STARTED" /\ e \notin abandoned =>
        /\ \/ \E f \in Fibers : Starting(f, e)
           \/ \E j \in open : owner[j] = e
        /\ \A j \in open : owner[j] = e => Owed(j)

\* An execution does not trigger its own workflow again, however long the
\* event waited between the node that raised it and its preparation.
NoSelfTrigger ==
    \A e \in Execution : parent[e] # Nothing => workflow[parent[e]] # workflow[e]

\* Every execution that is created is started in the end.
QueuedStarts ==
    \A e \in Execution : (status[e] = "QUEUEING") ~> (status[e] # "QUEUEING")

\* The resumptions and the events that are queued are all handled in the end.
QueuesDrain == ([]<>(pending = <<>>)) /\ ([]<>(events = <<>>))

\* dispatch() checks for executions that were not started: the update to
\* STARTED never hits one that another process() call started, or ended.
StartedOnce ==
    [][\A f \in Fibers : step[f] = "mark" /\ step'[f] = "run"
          => status[task[f].exec] = "QUEUEING"]_vars

=============================================================================
