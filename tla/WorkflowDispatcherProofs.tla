---------------------- MODULE WorkflowDispatcherProofs ----------------------
(***************************************************************************)
(* Proofs about WorkflowDispatcher, for any set of calls in flight and any *)
(* bounds: the state is well-typed, and nothing that waits in a queue or   *)
(* in the table is left without a call that will come to it.               *)
(***************************************************************************)
EXTENDS WorkflowDispatcher, FiniteSetTheorems, TLAPS

\* The part of TypeOK that the calls in flight and the queues make up.
CallsOK ==
    /\ step \in [Fibers -> Steps]
    /\ event \in [Fibers -> Event]
    /\ task \in [Fibers -> Task \cup {NoTask}]
    /\ \A f \in Fibers : Holding(f) => task[f] \in Task

\* the steps at which a call holds an execution
HoldingSteps == {"created", "fetched", "found", "mark", "run"}

\* Constants are of their types.
LEMMA ConstantTypes ==
    /\ NoEvent \in Event
    /\ \A e \in Execution : Created(e) \in Task
    /\ Execution \subseteq 0..MaxExecutions
BY ConstantsAssumption
DEF NoEvent, Created, Event, Task, Execution, Status, Nothing

\* A call that goes to a step leaves every other call where it is.
LEMMA GotoEffect ==
    ASSUME CallsOK,
           NEW f \in Fibers, NEW s \in Steps, NEW v \in Event,
           NEW t \in Task \cup {NoTask}, s \in HoldingSteps => t \in Task,
           Goto(f, s, v, t)
    PROVE  /\ CallsOK'
           /\ step'[f] = s /\ event'[f] = v /\ task'[f] = t
           /\ \A g \in Fibers \ {f} :
                 step'[g] = step[g] /\ event'[g] = event[g] /\ task'[g] = task[g]
BY DEF Goto, CallsOK, Holding, HoldingSteps

\* dispatch() leaves an executing call alone, processes the head of the queue,
\* or looks the table up.
LEMMA DispatchEffect ==
    ASSUME CallsOK,
           NEW f \in Fibers, NEW running \in 0..MaxExecutions,
           NEW queue \in Seq(Task), Dispatch(f, running, queue)
    PROVE  /\ CallsOK'
           /\ executing' \in 0..MaxExecutions
           /\ pending' \in Seq(Task)
           /\ \A g \in Fibers \ {f} :
                 step'[g] = step[g] /\ event'[g] = event[g] /\ task'[g] = task[g]
           /\ \/ /\ running # Nothing
                 /\ executing' = running
                 /\ step'[f] = "idle"
              \/ step'[f] \in {"mark", "run"} /\ executing' = task'[f].exec
              \/ /\ step'[f] = "query"
                 /\ executing' = Nothing
                 /\ pending' = <<>>
<1>1. CASE running # Nothing
  <2>1. /\ Goto(f, "idle", NoEvent, NoTask)
        /\ executing' = running
        /\ pending' = queue
    BY <1>1 DEF Dispatch
  <2>. QED BY <1>1, <2>1, GotoEffect, ConstantTypes DEF Steps, HoldingSteps
<1>2. CASE running = Nothing /\ queue # <<>>
  <2>1. Process(f, Head(queue)) /\ pending' = Tail(queue)
    BY <1>2 DEF Dispatch
  <2>2. Head(queue) \in Task /\ Tail(queue) \in Seq(Task)
    BY <1>2
  <2>3. PICK s \in {"mark", "run"} : Goto(f, s, NoEvent, Head(queue))
    BY <2>1 DEF Process
  <2>4. executing' = Head(queue).exec /\ Head(queue).exec \in 0..MaxExecutions
    BY <2>1, <2>2, ConstantTypes DEF Process, Task
  <2>. QED BY <2>1, <2>2, <2>3, <2>4, GotoEffect, ConstantTypes DEF Steps, HoldingSteps
<1>3. CASE running = Nothing /\ queue = <<>>
  <2>1. /\ Goto(f, "query", NoEvent, NoTask)
        /\ executing' = Nothing
        /\ pending' = <<>>
    BY <1>3 DEF Dispatch
  <2>. QED BY <1>3, <2>1, GotoEffect, ConstantTypes DEF Steps, HoldingSteps
<1>. QED BY <1>1, <1>2, <1>3

\* prepare() takes the head of the events.
LEMMA TakeEventEffect ==
    ASSUME CallsOK, events \in Seq(Event), events # <<>>,
           NEW f \in Fibers, TakeEvent(f)
    PROVE  /\ CallsOK'
           /\ events' \in Seq(Event)
           /\ step'[f] \in {"check", "create"}
           /\ \A g \in Fibers \ {f} :
                 step'[g] = step[g] /\ event'[g] = event[g] /\ task'[g] = task[g]
<1>1. Head(events) \in Event /\ Tail(events) \in Seq(Event)
  OBVIOUS
<1>2. PICK s \in {"check", "create"} : Goto(f, s, Head(events), NoTask)
  BY DEF TakeEvent
<1>. QED BY <1>1, <1>2, GotoEffect, ConstantTypes DEF TakeEvent, Steps, HoldingSteps

\* The end of prepare() prepares the next event or dispatches.
LEMMA AfterPrepareEffect ==
    ASSUME TypeOK, NEW f \in Fibers, NEW queue \in Seq(Task),
           AfterPrepare(f, queue)
    PROVE  /\ CallsOK'
           /\ events' \in Seq(Event)
           /\ executing' \in 0..MaxExecutions
           /\ pending' \in Seq(Task)
           /\ \A g \in Fibers \ {f} :
                 step'[g] = step[g] /\ event'[g] = event[g] /\ task'[g] = task[g]
           /\ \/ step'[f] \in {"check", "create"} /\ executing' = executing
              \/ /\ events' = <<>>
                 /\ executing # Nothing
                 /\ executing' = executing
                 /\ step'[f] = "idle"
              \/ /\ events' = <<>>
                 /\ step'[f] \in {"mark", "run"}
                 /\ executing' = task'[f].exec
              \/ /\ events' = <<>>
                 /\ step'[f] = "query"
                 /\ executing' = Nothing
                 /\ pending' = <<>>
<1>. CallsOK /\ events \in Seq(Event) /\ executing \in 0..MaxExecutions
  BY DEF TypeOK, CallsOK
<1>1. CASE events # <<>>
  <2>1. TakeEvent(f) /\ pending' = queue /\ executing' = executing
    BY <1>1 DEF AfterPrepare
  <2>. QED BY <1>1, <2>1, TakeEventEffect
<1>2. CASE events = <<>>
  <2>1. Dispatch(f, executing, queue) /\ events' = events
    BY <1>2 DEF AfterPrepare
  <2>. QED BY <1>2, <2>1, DispatchEffect
<1>. QED BY <1>1, <1>2

-----------------------------------------------------------------------------
(* Type correctness *)

\* The tables and the counters are well-typed.
RowsOK ==
    /\ status \in [Execution -> Status]
    /\ workflow \in [Execution -> 0..MaxWorkflows]
    /\ parent \in [Execution -> 0..MaxExecutions]
    /\ owner \in [Jobs -> 0..MaxExecutions]
    /\ open \in SUBSET Jobs
    /\ waiting \in SUBSET Jobs
    /\ abandoned \in SUBSET Execution
CountersOK ==
    /\ triggers \in 0..MaxTriggers
    /\ resumptions \in 0..MaxResumptions
    /\ restarts \in 0..MaxRestarts
QueuesOK ==
    /\ events \in Seq(Event)
    /\ pending \in Seq(Task)
    /\ executing \in 0..MaxExecutions

\* The type invariant by the parts of the state that an action changes together.
LEMMA TypeParts ==
    /\ TypeOK <=> QueuesOK /\ CallsOK /\ RowsOK /\ CountersOK
    /\ TypeOK' <=> QueuesOK' /\ CallsOK' /\ RowsOK' /\ CountersOK'
BY DEF TypeOK, QueuesOK, CallsOK, RowsOK, CountersOK

\* A process that has just started is well-typed.
LEMMA TypeInit == Init => TypeOK
<1>. SUFFICES ASSUME Init PROVE TypeOK
  OBVIOUS
<1>1. QueuesOK
  BY ConstantsAssumption DEF Init, QueuesOK, Nothing
<1>2. CallsOK
  <2>1. PICK f \in Fibers : step = [g \in Fibers |-> IF g = f THEN "query" ELSE "idle"]
    BY DEF Init
  <2>. QED BY <2>1, ConstantTypes DEF Init, CallsOK, Steps, Holding
<1>3. RowsOK
  BY ConstantsAssumption DEF Init, RowsOK, Nothing, Status
<1>4. CountersOK
  BY ConstantsAssumption DEF Init, CountersOK
<1>. QED BY <1>1, <1>2, <1>3, <1>4, TypeParts

\* What a call in flight holds is typed.
LEMMA HeldTypes ==
    ASSUME TypeOK, NEW f \in Fibers
    PROVE  /\ event[f] \in Event
           /\ Holding(f) => task[f] \in Task
           /\ Holding(f) => task[f].exec \in Execution
           /\ event[f].workflow \in 0..MaxWorkflows
           /\ event[f].parent \in 0..MaxExecutions
BY DEF TypeOK, Task, Event

\* The end of process() keeps the queues and the calls typed.
LEMMA EndProcessTypes ==
    ASSUME TypeOK, NEW f \in Fibers, EndProcess(f)
    PROVE  QueuesOK' /\ CallsOK' /\ UNCHANGED <<workflow, parent, counters>>
<1>1. /\ Dispatch(f, Nothing, pending)
      /\ UNCHANGED <<events, workflow, parent, counters>>
  BY DEF EndProcess
<1>2. CallsOK /\ Nothing \in 0..MaxExecutions /\ pending \in Seq(Task)
  BY ConstantsAssumption DEF TypeOK, CallsOK, Nothing
<1>3. CallsOK' /\ executing' \in 0..MaxExecutions /\ pending' \in Seq(Task)
  BY <1>1, <1>2, DispatchEffect
<1>. QED BY <1>1, <1>3 DEF TypeOK, QueuesOK

\* trigger() queues a typed event and at most schedules prepare().
LEMMA TypeTrigger ==
    ASSUME TypeOK, NEW w \in Workflow, NEW p \in 0..MaxExecutions, Trigger(w, p)
    PROVE  TypeOK'
<1>1. events' = Append(events, [workflow |-> w, parent |-> p])
      /\ triggers' = triggers + 1 /\ triggers < MaxTriggers
      /\ UNCHANGED <<pending, executing, rows, jobs, abandoned, resumptions, restarts>>
  BY DEF Trigger
<1>2. [workflow |-> w, parent |-> p] \in Event
  BY ConstantsAssumption DEF Event, Workflow
<1>3. QueuesOK'
  BY <1>1, <1>2 DEF TypeOK, QueuesOK
<1>4. CallsOK'
  <2>1. CASE events = <<>>
    <3>1. PICK f \in Fibers : Goto(f, "timer", NoEvent, NoTask)
      BY <2>1 DEF Trigger
    <3>. QED BY <3>1, GotoEffect, ConstantTypes DEF TypeOK, CallsOK, Steps, HoldingSteps
  <2>2. CASE events # <<>>
    BY <2>2 DEF Trigger, calls, TypeOK, CallsOK, Holding
  <2>. QED BY <2>1, <2>2
<1>5. RowsOK' /\ CountersOK'
  BY <1>1, ConstantsAssumption DEF TypeOK, RowsOK, CountersOK, rows, jobs
<1>. QED BY <1>3, <1>4, <1>5, TypeParts

\* prepare() takes an event of the queue, or finds none and dispatches.
LEMMA TypeTimer ==
    ASSUME TypeOK, NEW f \in Fibers, Timer(f) PROVE TypeOK'
<1>1. UNCHANGED <<pending, executing, rows, jobs, abandoned, counters>>
  BY DEF Timer
<1>2. events' \in Seq(Event) /\ CallsOK'
  <2>1. CASE events # <<>>
    BY <2>1, TakeEventEffect DEF Timer, TypeOK, CallsOK
  <2>2. CASE events = <<>>
    BY <2>2, GotoEffect, ConstantTypes DEF Timer, TypeOK, CallsOK, Steps, HoldingSteps
  <2>. QED BY <2>1, <2>2
<1>3. QueuesOK' /\ RowsOK' /\ CountersOK'
  BY <1>1, <1>2 DEF TypeOK, QueuesOK, RowsOK, CountersOK, rows, jobs, counters
<1>. QED BY <1>2, <1>3, TypeParts

\* The trigger's check only lets the event go on or ends prepare().
LEMMA TypeCheck ==
    ASSUME TypeOK, NEW f \in Fibers, Check(f) PROVE TypeOK'
<1>1. UNCHANGED <<rows, jobs, abandoned, counters>>
  BY DEF Check
<1>2. QueuesOK' /\ CallsOK'
  <2>1. CASE workflow[event[f].parent] = event[f].workflow
    <3>1. AfterPrepare(f, pending) /\ pending \in Seq(Task)
      BY <2>1 DEF Check, TypeOK
    <3>. QED BY <3>1, AfterPrepareEffect DEF QueuesOK
  <2>2. CASE workflow[event[f].parent] # event[f].workflow
    <3>1. Goto(f, "create", event[f], NoTask) /\ UNCHANGED memory
      BY <2>2 DEF Check
    <3>2. CallsOK'
      BY <3>1, GotoEffect, HeldTypes, ConstantTypes DEF TypeOK, CallsOK, Steps, HoldingSteps
    <3>. QED BY <3>1, <3>2 DEF TypeOK, QueuesOK, memory
  <2>. QED BY <2>1, <2>2
<1>3. RowsOK' /\ CountersOK'
  BY <1>1 DEF TypeOK, RowsOK, CountersOK, rows, jobs, counters
<1>. QED BY <1>2, <1>3, TypeParts

\* The execution that prepare() creates is a typed row.
LEMMA TypeCreate ==
    ASSUME TypeOK, NEW f \in Fibers, Create(f) PROVE TypeOK'
<1>1. PICK e \in Execution :
        /\ status' = [status EXCEPT ![e] = "QUEUEING"]
        /\ workflow' = [workflow EXCEPT ![e] = event[f].workflow]
        /\ parent' = [parent EXCEPT ![e] = event[f].parent]
        /\ Goto(f, "created", NoEvent, Created(e))
  BY DEF Create
<1>2. UNCHANGED <<memory, jobs, abandoned, counters>>
  BY DEF Create
<1>3. CallsOK'
  BY <1>1, GotoEffect, ConstantTypes DEF TypeOK, CallsOK, Steps, HoldingSteps
<1>4. RowsOK'
  BY <1>1, <1>2, HeldTypes DEF TypeOK, RowsOK, Status, jobs
<1>5. QueuesOK' /\ CountersOK'
  BY <1>2 DEF TypeOK, QueuesOK, CountersOK, memory, counters
<1>. QED BY <1>3, <1>4, <1>5, TypeParts

\* What prepare() caches for dispatch() is a typed task.
LEMMA TypeCache ==
    ASSUME TypeOK, NEW f \in Fibers, Cache(f) PROVE TypeOK'
<1>. DEFINE queue == IF executing = Nothing /\ pending = <<>> THEN <<task[f]>> ELSE pending
<1>1. AfterPrepare(f, queue) /\ UNCHANGED <<rows, jobs, abandoned, counters>>
  BY DEF Cache
<1>2. queue \in Seq(Task)
  BY HeldTypes DEF TypeOK, Holding, Cache
<1>3. QueuesOK' /\ CallsOK'
  BY <1>1, <1>2, AfterPrepareEffect DEF QueuesOK
<1>4. RowsOK' /\ CountersOK'
  BY <1>1 DEF TypeOK, RowsOK, CountersOK, rows, jobs, counters
<1>. QED BY <1>3, <1>4, TypeParts

\* The query of dispatch() finds a typed row, or none.
LEMMA TypeLookup ==
    ASSUME TypeOK, NEW f \in Fibers, Lookup(f) PROVE TypeOK'
<1>1. UNCHANGED <<memory, rows, jobs, abandoned, counters>>
  BY DEF Lookup
<1>2. \/ Goto(f, "idle", NoEvent, NoTask)
      \/ \E e \in Execution : Goto(f, "found", NoEvent, Created(e))
  BY DEF Lookup, Queued
<1>3. CallsOK'
  BY <1>2, GotoEffect, ConstantTypes DEF TypeOK, CallsOK, Steps, HoldingSteps
<1>4. QueuesOK' /\ RowsOK' /\ CountersOK'
  BY <1>1 DEF TypeOK, QueuesOK, RowsOK, CountersOK, memory, rows, jobs, counters
<1>. QED BY <1>3, <1>4, TypeParts

\* What the query found is queued to be processed as a typed task.
LEMMA TypeFound ==
    ASSUME TypeOK, NEW f \in Fibers, Found(f) PROVE TypeOK'
<1>1. UNCHANGED <<events, pending, rows, jobs, abandoned, counters>>
  BY DEF Found
<1>2. PICK s \in {"mark", "run"} : Goto(f, s, NoEvent, task[f])
  BY DEF Found, Process
<1>6. Holding(f) /\ task[f] \in Task
  BY HeldTypes DEF Found, Holding
<1>3. CallsOK'
  BY <1>2, <1>6, GotoEffect, ConstantTypes DEF TypeOK, CallsOK, Steps, HoldingSteps
<1>4. executing' \in 0..MaxExecutions
  BY <1>6, HeldTypes, ConstantTypes DEF Found, Process
<1>5. QueuesOK' /\ RowsOK' /\ CountersOK'
  BY <1>1, <1>4 DEF TypeOK, QueuesOK, RowsOK, CountersOK, rows, jobs, counters
<1>. QED BY <1>3, <1>5, TypeParts

\* process() marks a typed row STARTED.
LEMMA TypeMark ==
    ASSUME TypeOK, NEW f \in Fibers, Mark(f) PROVE TypeOK'
<1>1. UNCHANGED <<memory, workflow, parent, jobs, abandoned, counters>>
  BY DEF Mark
<1>2. [task[f] EXCEPT !.seen = "STARTED"] \in Task
  BY HeldTypes DEF Mark, Holding, Task, Status
<1>3. CallsOK'
  BY <1>2, GotoEffect, ConstantTypes DEF Mark, TypeOK, CallsOK, Steps, HoldingSteps
<1>4. RowsOK'
  BY <1>1 DEF Mark, TypeOK, RowsOK, Status, jobs
<1>5. QueuesOK' /\ CountersOK'
  BY <1>1 DEF TypeOK, QueuesOK, CountersOK, memory, counters
<1>. QED BY <1>3, <1>4, <1>5, TypeParts

\* What a run that stops makes of the jobs.
LEMMA SuspendEffect ==
    ASSUME NEW f \in Fibers, Suspend(f)
    PROVE  \E made, kept, asked \in SUBSET Jobs :
              /\ asked \subseteq made /\ kept \subseteq {task[f].job}
              /\ \A j \in made : owner[j] = Nothing
              /\ owner' = [j \in Jobs |-> IF j \in made THEN task[f].exec ELSE owner[j]]
              /\ open' = (open \ {task[f].job}) \cup made \cup kept
              /\ waiting' = (waiting \ {task[f].job}) \cup asked \cup kept
              /\ abandoned' \in {abandoned, abandoned \cup {task[f].exec}}
              /\ \/ task[f].exec \in abandoned'
                 \/ /\ made = asked
                    /\ \E j \in open' : owner'[j] = task[f].exec
              /\ UNCHANGED status
<1>1. PICK made \in SUBSET {j \in Jobs : owner[j] = Nothing},
           kept \in SUBSET ({task[f].job} \cap Jobs) :
        \E asked \in SUBSET made :
           /\ owner' = [j \in Jobs |-> IF j \in made THEN task[f].exec ELSE owner[j]]
           /\ open' = (open \ {task[f].job}) \cup made \cup kept
           /\ waiting' = (waiting \ {task[f].job}) \cup asked \cup kept
           /\ abandoned' \in {abandoned, abandoned \cup {task[f].exec}}
           /\ \/ task[f].exec \in abandoned'
              \/ /\ made = asked
                 /\ \E j \in open' : owner'[j] = task[f].exec
           /\ UNCHANGED status
  BY DEF Suspend
<1>2. made \in SUBSET Jobs /\ kept \in SUBSET Jobs
  OBVIOUS
<1>3. \A asked \in SUBSET made : asked \in SUBSET Jobs
  OBVIOUS
<1>. QED BY <1>1, <1>2, <1>3

\* The four ways a run of the processor comes back.
LEMMA TypeRun ==
    ASSUME TypeOK, NEW f \in Fibers, Refuse(f) \/ Finish(f) \/ Suspend(f) \/ Throw(f)
    PROVE  TypeOK'
<1>1. EndProcess(f)
  BY DEF Refuse, Finish, Suspend, Throw
<1>2. QueuesOK' /\ CallsOK' /\ UNCHANGED <<workflow, parent, counters>>
  BY <1>1, EndProcessTypes
<1>3. Holding(f) /\ task[f].exec \in Execution
  BY <1>1, HeldTypes DEF EndProcess, Holding
<1>4. RowsOK' /\ CountersOK'
  <2>1. CASE Refuse(f)
    BY <1>2, <2>1 DEF Refuse, TypeOK, RowsOK, CountersOK, jobs, counters
  <2>2. CASE Finish(f)
    BY <1>2, <2>2 DEF Finish, TypeOK, RowsOK, CountersOK, Status, counters
  <2>3. CASE Suspend(f)
    <3>1. PICK made, kept, asked \in SUBSET Jobs :
             /\ asked \subseteq made /\ kept \subseteq {task[f].job}
             /\ owner' = [j \in Jobs |-> IF j \in made THEN task[f].exec ELSE owner[j]]
             /\ open' = (open \ {task[f].job}) \cup made \cup kept
             /\ waiting' = (waiting \ {task[f].job}) \cup asked \cup kept
             /\ abandoned' \in {abandoned, abandoned \cup {task[f].exec}}
             /\ UNCHANGED status
      BY <2>3, SuspendEffect
    <3>3. /\ owner' \in [Jobs -> 0..MaxExecutions]
          /\ open' \in SUBSET Jobs /\ waiting' \in SUBSET Jobs
      BY <1>3, <3>1, ConstantTypes DEF TypeOK
    <3>. QED BY <1>2, <1>3, <3>1, <3>3 DEF TypeOK, RowsOK, CountersOK, counters
  <2>4. CASE Throw(f)
    BY <1>2, <1>3, <2>4 DEF Throw, TypeOK, RowsOK, CountersOK, jobs, counters
  <2>. QED BY <1>1, <2>1, <2>2, <2>3, <2>4
<1>. QED BY <1>2, <1>4, TypeParts

\* resume() reads the execution of a job into a typed task.
LEMMA TypeFetch ==
    ASSUME TypeOK, NEW j \in Jobs, Fetch(j) PROVE TypeOK'
<1>1. /\ UNCHANGED <<memory, rows, owner, open, triggers, restarts>>
      /\ waiting' \in SUBSET waiting
      /\ resumptions < MaxResumptions /\ resumptions' = resumptions + 1
      /\ abandoned' \in {abandoned, abandoned \cup {owner[j]}}
  BY DEF Fetch
<1>2. PICK f \in Fibers :
         Goto(f, "fetched", NoEvent,
              [exec |-> owner[j], seen |-> status[owner[j]], job |-> j])
  BY DEF Fetch
<1>3. /\ owner[j] \in Execution
      /\ [exec |-> owner[j], seen |-> status[owner[j]], job |-> j] \in Task
  BY ConstantTypes DEF Fetch, TypeOK, Task, Execution, Nothing
<1>4. CallsOK'
  BY <1>2, <1>3, GotoEffect, ConstantTypes DEF TypeOK, CallsOK, Steps, HoldingSteps
<1>6. QueuesOK' /\ RowsOK' /\ CountersOK'
  BY <1>1, <1>3, ConstantsAssumption DEF TypeOK, QueuesOK, RowsOK, CountersOK, memory, rows
<1>. QED BY <1>4, <1>6, TypeParts

\* resume() queues the typed task it holds and dispatches.
LEMMA TypeResume ==
    ASSUME TypeOK, NEW f \in Fibers, Resume(f) PROVE TypeOK'
<1>. DEFINE queue == Append(pending, task[f])
<1>1. /\ Dispatch(f, executing, queue)
      /\ UNCHANGED <<events, rows, jobs, abandoned, counters>>
  BY DEF Resume
<1>2. CallsOK /\ executing \in 0..MaxExecutions /\ queue \in Seq(Task)
  BY HeldTypes DEF Resume, Holding, TypeOK, CallsOK
<1>3. CallsOK' /\ executing' \in 0..MaxExecutions /\ pending' \in Seq(Task)
  BY <1>1, <1>2, DispatchEffect
<1>4. QueuesOK' /\ RowsOK' /\ CountersOK'
  BY <1>1, <1>3 DEF TypeOK, QueuesOK, RowsOK, CountersOK, rows, jobs, counters
<1>. QED BY <1>3, <1>4, TypeParts

\* A restart leaves empty queues and the typed rows.
LEMMA TypeRestart ==
    ASSUME TypeOK, Restart PROVE TypeOK'
<1>1. CallsOK'
  <2>1. PICK f \in Fibers : step' = [g \in Fibers |-> IF g = f THEN "query" ELSE "idle"]
    BY DEF Restart
  <2>. QED BY <2>1, ConstantTypes DEF Restart, CallsOK, Steps, Holding
<1>2. QueuesOK'
  BY ConstantsAssumption DEF Restart, QueuesOK, Nothing
<1>3. RowsOK'
  <2>1. PICK done \in SUBSET open :
           /\ open' = open \ done
           /\ waiting' \in SUBSET open'
           /\ abandoned' = abandoned \cup
                 {e \in Execution : \/ \E j \in done \cup (open' \ waiting') : owner[j] = e
                                    \/ \E f \in Fibers : Starting(f, e)}
    BY DEF Restart
  <2>2. UNCHANGED <<status, workflow, parent, owner>>
    BY DEF Restart, rows
  <2>. QED BY <2>1, <2>2 DEF TypeOK, RowsOK
<1>4. CountersOK'
  BY ConstantsAssumption DEF Restart, TypeOK, CountersOK
<1>. QED BY <1>1, <1>2, <1>3, <1>4, TypeParts

\* Every step keeps the state well-typed.
LEMMA TypeNext == TypeOK /\ [Next]_vars => TypeOK'
<1>. SUFFICES ASSUME TypeOK, [Next]_vars PROVE TypeOK'
  OBVIOUS
<1>1. ASSUME NEW w \in Workflow, NEW p \in 0..MaxExecutions, Trigger(w, p)
      PROVE  TypeOK'
  BY <1>1, TypeTrigger
<1>2. ASSUME NEW f \in Fibers, Step(f) PROVE TypeOK'
  BY <1>2, TypeTimer, TypeCheck, TypeCreate, TypeCache, TypeLookup, TypeFound,
     TypeMark, TypeRun, TypeResume
  DEF Step
<1>3. ASSUME NEW j \in Jobs, Fetch(j) PROVE TypeOK'
  BY <1>3, TypeFetch
<1>4. CASE Restart
  BY <1>4, TypeRestart
<1>5. CASE UNCHANGED vars
  BY <1>5 DEF vars, memory, calls, rows, jobs, counters, TypeOK, Holding
<1>. QED BY <1>1, <1>2, <1>3, <1>4, <1>5 DEF Next

\* The state of the plugin and of its tables is well-typed, whatever the calls
\* in flight and their order.
THEOREM TypeCorrect == Spec => []TypeOK
BY TypeInit, TypeNext, PTL DEF Spec

-----------------------------------------------------------------------------
(* Nothing is left behind *)

\* The four invariants need one another: dispatch() returns at once when
\* something is executing, and then the call that executes is the one that will
\* dispatch again.
NothingStranded ==
    /\ NoStrandedEvent
    /\ NoStrandedExecution
    /\ NoStrandedResumption
    /\ ExecutingIsProcessed

\* At the start nothing is queued or executing but what beforeStart looks up.
LEMMA StrandedInit == Init => NothingStranded
<1>. SUFFICES ASSUME Init PROVE NothingStranded
  OBVIOUS
<1>1. events = <<>> /\ pending = <<>> /\ executing = Nothing /\ Queued = {}
  BY DEF Init, Queued
<1>. QED BY <1>1 DEF NothingStranded, NoStrandedEvent, NoStrandedExecution,
                     NoStrandedResumption, ExecutingIsProcessed

\* The event that trigger() queues has the prepare() scheduled by the first one.
LEMMA StrandedTrigger ==
    ASSUME TypeOK, NothingStranded,
           NEW w \in Workflow, NEW p \in 0..MaxExecutions, Trigger(w, p)
    PROVE  NothingStranded'
<1>1. UNCHANGED <<pending, executing, status>>
  BY DEF Trigger, rows
<1>2. CASE events = <<>>
  <2>1. PICK f \in Fibers : Idle(f) /\ Goto(f, "timer", NoEvent, NoTask)
    BY <1>2 DEF Trigger
  <2>2. /\ step'[f] = "timer"
        /\ \A g \in Fibers \ {f} : step'[g] = step[g] /\ task'[g] = task[g]
    BY <2>1, GotoEffect, ConstantTypes DEF TypeOK, CallsOK, Steps, HoldingSteps
  <2>3. NoStrandedEvent'
    BY <2>2 DEF NoStrandedEvent
  <2>4. NoStrandedExecution' /\ NoStrandedResumption' /\ ExecutingIsProcessed'
    BY <1>1, <2>1, <2>2 DEF NothingStranded, NoStrandedExecution,
       NoStrandedResumption, ExecutingIsProcessed, Idle, Preparing, Processing, Queued
  <2>. QED BY <2>3, <2>4 DEF NothingStranded
<1>3. CASE events # <<>>
  <2>1. UNCHANGED <<step, task>>
    BY <1>3 DEF Trigger, calls
  <2>. QED BY <1>1, <1>3, <2>1 DEF NothingStranded, NoStrandedEvent,
              NoStrandedExecution, NoStrandedResumption, ExecutingIsProcessed,
              Preparing, Processing, Queued
<1>. QED BY <1>2, <1>3

\* prepare() takes the event, or dispatches when there is none.
LEMMA StrandedTimer ==
    ASSUME TypeOK, NothingStranded, NEW f \in Fibers, Timer(f)
    PROVE  NothingStranded'
<1>1. UNCHANGED <<pending, executing, status>>
  BY DEF Timer, rows
<1>2. /\ events # <<>> => step'[f] \in {"check", "create"}
      /\ events = <<>> => events' = <<>>
      /\ \A g \in Fibers \ {f} : step'[g] = step[g] /\ task'[g] = task[g]
  <2>1. CASE events # <<>>
    BY <2>1, TakeEventEffect DEF Timer, TypeOK, CallsOK
  <2>2. CASE events = <<>>
    BY <2>2, GotoEffect, ConstantTypes DEF Timer, TypeOK, CallsOK, Steps, HoldingSteps
  <2>. QED BY <2>1, <2>2
<1>3. NoStrandedEvent'
  BY <1>2 DEF NoStrandedEvent, Preparing
<1>4. NoStrandedExecution' /\ NoStrandedResumption' /\ ExecutingIsProcessed'
  BY <1>1, <1>2 DEF Timer, NothingStranded, NoStrandedExecution,
     NoStrandedResumption, ExecutingIsProcessed, Preparing, Processing, Queued
<1>. QED BY <1>3, <1>4 DEF NothingStranded

\* A prepare() that ends, at step "check" or "created".
LEMMA StrandedAfterPrepare ==
    ASSUME TypeOK, NothingStranded, NEW f \in Fibers, NEW queue \in Seq(Task),
           Preparing(f), AfterPrepare(f, queue), UNCHANGED status
    PROVE  NothingStranded'
<1>1. /\ \A g \in Fibers \ {f} : step'[g] = step[g] /\ task'[g] = task[g]
      /\ \/ step'[f] \in {"check", "create"} /\ executing' = executing
         \/ /\ events' = <<>>
            /\ executing # Nothing
            /\ executing' = executing
            /\ step'[f] = "idle"
         \/ /\ events' = <<>>
            /\ step'[f] \in {"mark", "run"}
            /\ executing' = task'[f].exec
         \/ /\ events' = <<>>
            /\ step'[f] = "query"
            /\ executing' = Nothing
            /\ pending' = <<>>
  BY AfterPrepareEffect
<1>2. ExecutingIsProcessed'
  BY <1>1 DEF NothingStranded, ExecutingIsProcessed, Preparing, Processing
<1>3. NoStrandedEvent'
  BY <1>1 DEF NoStrandedEvent, Preparing
<1>4. NoStrandedExecution' /\ NoStrandedResumption'
  BY <1>1, <1>2 DEF NoStrandedExecution, NoStrandedResumption,
     ExecutingIsProcessed, Preparing, Processing, Queued
<1>. QED BY <1>2, <1>3, <1>4 DEF NothingStranded

\* The steps of prepare() before its end keep the call that will dispatch.
LEMMA StrandedPrepare ==
    ASSUME TypeOK, NothingStranded, NEW f \in Fibers,
           Check(f) \/ Create(f) \/ Cache(f)
    PROVE  NothingStranded'
<1>1. ASSUME Preparing(f), Preparing(f)',
             \A g \in Fibers \ {f} : step'[g] = step[g] /\ task'[g] = task[g],
             UNCHANGED memory
      PROVE  NothingStranded'
  BY <1>1 DEF NothingStranded, NoStrandedEvent, NoStrandedExecution,
     NoStrandedResumption, ExecutingIsProcessed, Preparing, Processing, memory
<1>2. CASE Check(f)
  <2>1. CASE AfterPrepare(f, pending)
    BY <1>2, <2>1, StrandedAfterPrepare DEF Check, Preparing, TypeOK, rows
  <2>2. CASE Goto(f, "create", event[f], NoTask) /\ UNCHANGED memory
    <3>1. /\ step'[f] = "create"
          /\ \A g \in Fibers \ {f} : step'[g] = step[g] /\ task'[g] = task[g]
      BY <2>2, HeldTypes, GotoEffect, ConstantTypes DEF TypeOK, CallsOK, Steps, HoldingSteps
    <3>. QED BY <1>1, <1>2, <2>2, <3>1 DEF Check, Preparing
  <2>. QED BY <1>2, <2>1, <2>2 DEF Check
<1>3. CASE Create(f)
  <2>1. PICK e \in Execution : Goto(f, "created", NoEvent, Created(e))
    BY <1>3 DEF Create
  <2>2. /\ step'[f] = "created"
        /\ \A g \in Fibers \ {f} : step'[g] = step[g] /\ task'[g] = task[g]
    BY <2>1, GotoEffect, ConstantTypes DEF TypeOK, CallsOK, Steps, HoldingSteps
  <2>. QED BY <1>1, <1>3, <2>2 DEF Create, Preparing
<1>4. CASE Cache(f)
  <2>. DEFINE queue == IF executing = Nothing /\ pending = <<>>
                       THEN <<task[f]>> ELSE pending
  <2>1. AfterPrepare(f, queue) /\ Preparing(f) /\ UNCHANGED status
    BY <1>4 DEF Cache, Preparing, rows
  <2>2. queue \in Seq(Task)
    BY <1>4, HeldTypes DEF TypeOK, Holding, Cache
  <2>. QED BY <2>1, <2>2, StrandedAfterPrepare
<1>. QED BY <1>2, <1>3, <1>4

\* A lookup that finds nothing leaves no QUEUEING execution behind.
LEMMA StrandedLookup ==
    ASSUME TypeOK, NothingStranded, NEW f \in Fibers, Lookup(f)
    PROVE  NothingStranded'
<1>1. UNCHANGED <<events, pending, executing, status>> /\ step[f] = "query"
  BY DEF Lookup, memory, rows
<1>2. \/ Queued = {} /\ Goto(f, "idle", NoEvent, NoTask)
      \/ \E e \in Execution : Goto(f, "found", NoEvent, Created(e))
  BY DEF Lookup, Queued
<1>3. /\ Queued # {} => step'[f] = "found"
      /\ \A g \in Fibers \ {f} : step'[g] = step[g] /\ task'[g] = task[g]
  BY <1>2, GotoEffect, ConstantTypes DEF TypeOK, CallsOK, Steps, HoldingSteps
<1>4. NoStrandedExecution'
  BY <1>1, <1>3 DEF NoStrandedExecution, Queued
<1>5. NoStrandedEvent' /\ NoStrandedResumption' /\ ExecutingIsProcessed'
  BY <1>1, <1>3 DEF NothingStranded, NoStrandedEvent, NoStrandedResumption,
     ExecutingIsProcessed, Preparing, Processing
<1>. QED BY <1>4, <1>5 DEF NothingStranded

\* What was found is processed at once, or a process() call is in progress.
LEMMA StrandedFound ==
    ASSUME TypeOK, NothingStranded, NEW f \in Fibers, Found(f)
    PROVE  NothingStranded'
<1>1. UNCHANGED <<events, pending, status>> /\ step[f] = "found"
  BY DEF Found, rows
<1>2. PICK s \in {"mark", "run"} : Goto(f, s, NoEvent, task[f])
  BY DEF Found, Process
<1>3. task[f] \in Task
  BY HeldTypes DEF Found, Holding
<1>4. /\ step'[f] \in {"mark", "run"} /\ executing' = task'[f].exec
      /\ \A g \in Fibers \ {f} : step'[g] = step[g] /\ task'[g] = task[g]
  BY <1>2, <1>3, GotoEffect, ConstantTypes
  DEF Found, Process, TypeOK, CallsOK, Steps, HoldingSteps
<1>5. NoStrandedEvent'
  BY <1>1, <1>4 DEF NothingStranded, NoStrandedEvent, Preparing
<1>6. NoStrandedExecution' /\ NoStrandedResumption' /\ ExecutingIsProcessed'
  BY <1>4 DEF NoStrandedExecution, NoStrandedResumption, ExecutingIsProcessed, Processing
<1>. QED BY <1>5, <1>6 DEF NothingStranded

\* process() goes on with the execution that it marks.
LEMMA StrandedMark ==
    ASSUME TypeOK, NothingStranded, NEW f \in Fibers, Mark(f)
    PROVE  NothingStranded'
<1>1. UNCHANGED <<events, pending, executing>> /\ step[f] = "mark"
  BY DEF Mark, memory
<1>2. task[f] \in Task /\ [task[f] EXCEPT !.seen = "STARTED"] \in Task
  BY HeldTypes DEF Mark, Holding, Task, Status
<1>3. /\ step'[f] = "run" /\ task'[f].exec = task[f].exec
      /\ \A g \in Fibers \ {f} : step'[g] = step[g] /\ task'[g] = task[g]
  BY <1>2, GotoEffect, ConstantTypes DEF Mark, TypeOK, CallsOK, Steps, HoldingSteps, Task
<1>4. NoStrandedEvent'
  BY <1>1, <1>3 DEF NothingStranded, NoStrandedEvent, Preparing
<1>5. NoStrandedExecution' /\ NoStrandedResumption'
  BY <1>3 DEF NoStrandedExecution, NoStrandedResumption, Processing
<1>6. ExecutingIsProcessed'
  BY <1>1, <1>3 DEF NothingStranded, ExecutingIsProcessed, Processing
<1>. QED BY <1>4, <1>5, <1>6 DEF NothingStranded

\* The end of process() dispatches with nothing executing: it processes the
\* next resumption or looks the table up.
LEMMA StrandedRun ==
    ASSUME TypeOK, NothingStranded, NEW f \in Fibers, EndProcess(f)
    PROVE  NothingStranded'
<1>1. Dispatch(f, Nothing, pending) /\ events' = events /\ step[f] = "run"
  BY DEF EndProcess
<1>2. CallsOK /\ Nothing \in 0..MaxExecutions /\ pending \in Seq(Task)
  BY ConstantsAssumption DEF TypeOK, CallsOK, Nothing
<1>3. /\ \A g \in Fibers \ {f} : step'[g] = step[g] /\ task'[g] = task[g]
      /\ \/ step'[f] \in {"mark", "run"} /\ executing' = task'[f].exec
         \/ /\ step'[f] = "query"
            /\ executing' = Nothing
            /\ pending' = <<>>
  BY <1>1, <1>2, DispatchEffect
<1>4. NoStrandedEvent'
  BY <1>1, <1>3 DEF NothingStranded, NoStrandedEvent, Preparing
<1>5. NoStrandedExecution' /\ NoStrandedResumption' /\ ExecutingIsProcessed'
  BY <1>3 DEF NoStrandedExecution, NoStrandedResumption, ExecutingIsProcessed, Processing
<1>. QED BY <1>4, <1>5 DEF NothingStranded

\* A resumption that is only read is not pending yet.
LEMMA StrandedFetch ==
    ASSUME TypeOK, NothingStranded, NEW j \in Jobs, Fetch(j)
    PROVE  NothingStranded'
<1>. DEFINE t == [exec |-> owner[j], seen |-> status[owner[j]], job |-> j]
<1>1. UNCHANGED <<events, pending, executing, status>>
  BY DEF Fetch, memory, rows
<1>2. PICK f \in Fibers : Idle(f) /\ Goto(f, "fetched", NoEvent, t)
  BY DEF Fetch
<1>3. t \in Task
  BY DEF Fetch, TypeOK, Task, Execution, Nothing
<1>4. \A g \in Fibers \ {f} : step'[g] = step[g] /\ task'[g] = task[g]
  BY <1>2, <1>3, GotoEffect, ConstantTypes DEF TypeOK, CallsOK, Steps, HoldingSteps
<1>. QED BY <1>1, <1>2, <1>4 DEF NothingStranded, NoStrandedEvent,
            NoStrandedExecution, NoStrandedResumption, ExecutingIsProcessed,
            Idle, Preparing, Processing, Queued

\* A resumption is queued for the call that executes, or is processed at once.
LEMMA StrandedResume ==
    ASSUME TypeOK, NothingStranded, NEW f \in Fibers, Resume(f)
    PROVE  NothingStranded'
<1>. DEFINE queue == Append(pending, task[f])
<1>1. /\ Dispatch(f, executing, queue) /\ step[f] = "fetched"
      /\ UNCHANGED <<events, status>>
  BY DEF Resume, rows
<1>2. CallsOK /\ executing \in 0..MaxExecutions /\ queue \in Seq(Task)
  BY HeldTypes DEF Resume, Holding, TypeOK, CallsOK
<1>3. /\ \A g \in Fibers \ {f} : step'[g] = step[g] /\ task'[g] = task[g]
      /\ \/ /\ executing # Nothing
            /\ executing' = executing
            /\ step'[f] = "idle"
         \/ step'[f] \in {"mark", "run"} /\ executing' = task'[f].exec
         \/ /\ step'[f] = "query"
            /\ executing' = Nothing
            /\ pending' = <<>>
  BY <1>1, <1>2, DispatchEffect
<1>4. NoStrandedEvent'
  BY <1>1, <1>3 DEF NothingStranded, NoStrandedEvent, Preparing
<1>5. ExecutingIsProcessed'
  BY <1>1, <1>3 DEF NothingStranded, ExecutingIsProcessed, Processing
<1>6. NoStrandedExecution' /\ NoStrandedResumption'
  BY <1>3, <1>5 DEF NoStrandedExecution, NoStrandedResumption,
     ExecutingIsProcessed, Processing
<1>. QED BY <1>4, <1>5, <1>6 DEF NothingStranded

\* A restart empties the queues and looks the table up.
LEMMA StrandedRestart ==
    ASSUME TypeOK, Restart PROVE NothingStranded'
<1>1. events' = <<>> /\ pending' = <<>> /\ executing' = Nothing
  BY DEF Restart
<1>2. PICK f \in Fibers : step' = [g \in Fibers |-> IF g = f THEN "query" ELSE "idle"]
  BY DEF Restart
<1>. QED BY <1>1, <1>2 DEF NothingStranded, NoStrandedEvent,
            NoStrandedExecution, NoStrandedResumption, ExecutingIsProcessed

\* Every step leaves nothing stranded.
LEMMA StrandedNext == TypeOK /\ NothingStranded /\ [Next]_vars => NothingStranded'
<1>. SUFFICES ASSUME TypeOK, NothingStranded, [Next]_vars PROVE NothingStranded'
  OBVIOUS
<1>1. ASSUME NEW w \in Workflow, NEW p \in 0..MaxExecutions, Trigger(w, p)
      PROVE  NothingStranded'
  BY <1>1, StrandedTrigger
<1>2. ASSUME NEW f \in Fibers, Step(f) PROVE NothingStranded'
  <2>1. CASE Timer(f)
    BY <2>1, StrandedTimer
  <2>2. CASE Check(f) \/ Create(f) \/ Cache(f)
    BY <2>2, StrandedPrepare
  <2>3. CASE Lookup(f)
    BY <2>3, StrandedLookup
  <2>4. CASE Found(f)
    BY <2>4, StrandedFound
  <2>5. CASE Mark(f)
    BY <2>5, StrandedMark
  <2>6. CASE Refuse(f) \/ Finish(f) \/ Suspend(f) \/ Throw(f)
    BY <2>6, StrandedRun DEF Refuse, Finish, Suspend, Throw
  <2>7. CASE Resume(f)
    BY <2>7, StrandedResume
  <2>. QED BY <1>2, <2>1, <2>2, <2>3, <2>4, <2>5, <2>6, <2>7 DEF Step
<1>3. ASSUME NEW j \in Jobs, Fetch(j) PROVE NothingStranded'
  BY <1>3, StrandedFetch
<1>4. CASE Restart
  BY <1>4, StrandedRestart
<1>5. CASE UNCHANGED vars
  BY <1>5 DEF vars, memory, calls, rows, NothingStranded, NoStrandedEvent,
     NoStrandedExecution, NoStrandedResumption, ExecutingIsProcessed,
     Preparing, Processing, Queued
<1>. QED BY <1>1, <1>2, <1>3, <1>4, <1>5 DEF Next

\* Nothing is ever stranded: the events, executions and resumptions that are
\* queued, and this.executing, always have a call in flight that handles them.
THEOREM StrandedInvariant == Spec => []NothingStranded
BY TypeInit, TypeNext, StrandedInit, StrandedNext, PTL DEF Spec

\* An event that trigger() queued always has a prepare() that will take it.
THEOREM EventsAreTaken == Spec => []NoStrandedEvent
BY StrandedInvariant, PTL DEF NothingStranded

\* A QUEUEING execution always has a call that will look the table up.
THEOREM ExecutionsAreLookedUp == Spec => []NoStrandedExecution
BY StrandedInvariant, PTL DEF NothingStranded

\* A pending resumption always has a call whose end dispatches.
THEOREM ResumptionsAreDispatched == Spec => []NoStrandedResumption
BY StrandedInvariant, PTL DEF NothingStranded

\* this.executing is never left set by a process() call that has returned.
THEOREM ExecutingIsReset == Spec => []ExecutingIsProcessed
BY StrandedInvariant, PTL DEF NothingStranded

-----------------------------------------------------------------------------
(* What the plugin's memory refers to *)

\* the executions that have a row, and null
Known == {Nothing} \cup {e \in Execution : status[e] # "ABSENT"}
KnownEvent == [workflow : 0..MaxWorkflows, parent : Known]
KnownTask == {t \in Task : t.exec \in Known /\ t.seen # "ABSENT"}

\* Whatever is queued or held refers to rows that exist: rows are not deleted.
Existing ==
    /\ events \in Seq(KnownEvent)
    /\ pending \in Seq(KnownTask)
    /\ event \in [Fibers -> KnownEvent]
    /\ task \in [Fibers -> KnownTask \cup {NoTask}]
    /\ \A j \in Jobs : owner[j] \in Known
    /\ \A e \in Execution : parent[e] \in Known
    /\ \A e \in Execution : parent[e] # Nothing => e \in Known

\* dispatch() takes its execution from the queue, and loses none of the queue.
LEMMA DispatchAmong ==
    ASSUME NoEvent \in KnownEvent,
           event \in [Fibers -> KnownEvent], task \in [Fibers -> KnownTask \cup {NoTask}],
           step \in [Fibers -> Steps],
           NEW f \in Fibers, NEW running, NEW queue \in Seq(KnownTask),
           Dispatch(f, running, queue)
    PROVE  /\ pending' \in Seq(KnownTask)
           /\ event' \in [Fibers -> KnownEvent]
           /\ task' \in [Fibers -> KnownTask \cup {NoTask}]
           /\ step'[f] \in {"idle", "mark", "run", "query"}
           /\ step'[f] = "run" => task'[f] \in KnownTask /\ task'[f].seen # "QUEUEING"
           /\ \A i \in DOMAIN queue :
                 \/ \E j \in DOMAIN pending' : pending'[j] = queue[i]
                 \/ step'[f] \in {"mark", "run"} /\ task'[f] = queue[i]
           /\ \A g \in Fibers \ {f} :
                 step'[g] = step[g] /\ event'[g] = event[g] /\ task'[g] = task[g]
<1>1. CASE running # Nothing
  <2>1. Goto(f, "idle", NoEvent, NoTask) /\ pending' = queue
    BY <1>1 DEF Dispatch
  <2>2. /\ event' \in [Fibers -> KnownEvent]
        /\ task' \in [Fibers -> KnownTask \cup {NoTask}]
        /\ step'[f] = "idle"
        /\ \A g \in Fibers \ {f} :
              step'[g] = step[g] /\ event'[g] = event[g] /\ task'[g] = task[g]
    BY <2>1 DEF Goto
  <2>. QED BY <2>1, <2>2
<1>2. CASE running = Nothing /\ queue # <<>>
  <2>1. Process(f, Head(queue)) /\ pending' = Tail(queue)
    BY <1>2 DEF Dispatch
  <2>2. Head(queue) \in KnownTask /\ Tail(queue) \in Seq(KnownTask)
    BY <1>2
  <2>3. PICK s \in {"mark", "run"} : /\ Goto(f, s, NoEvent, Head(queue))
                                     /\ s = "run" => Head(queue).seen # "QUEUEING"
    BY <2>1 DEF Process
  <2>4. /\ event' \in [Fibers -> KnownEvent]
        /\ task' \in [Fibers -> KnownTask \cup {NoTask}]
        /\ step'[f] = s /\ task'[f] = Head(queue)
        /\ \A g \in Fibers \ {f} :
              step'[g] = step[g] /\ event'[g] = event[g] /\ task'[g] = task[g]
    BY <2>2, <2>3 DEF Goto
  <2>5. ASSUME NEW i \in DOMAIN queue, i # 1
        PROVE  i - 1 \in DOMAIN Tail(queue) /\ Tail(queue)[i - 1] = queue[i]
    BY <1>2, <2>5
  <2>6. \A i \in DOMAIN queue :
           \/ \E j \in DOMAIN pending' : pending'[j] = queue[i]
           \/ step'[f] \in {"mark", "run"} /\ task'[f] = queue[i]
    <3>1. \A i \in DOMAIN queue : i # 1 => \E j \in DOMAIN pending' : pending'[j] = queue[i]
      BY <2>1, <2>5
    <3>2. Head(queue) = queue[1]
      BY <1>2
    <3>. QED BY <2>4, <3>1, <3>2
  <2>. QED BY <2>1, <2>2, <2>3, <2>4, <2>6
<1>3. CASE running = Nothing /\ queue = <<>>
  <2>1. Goto(f, "query", NoEvent, NoTask) /\ pending' = <<>>
    BY <1>3 DEF Dispatch
  <2>2. /\ event' \in [Fibers -> KnownEvent]
        /\ task' \in [Fibers -> KnownTask \cup {NoTask}]
        /\ step'[f] = "query"
        /\ \A g \in Fibers \ {f} :
              step'[g] = step[g] /\ event'[g] = event[g] /\ task'[g] = task[g]
    BY <2>1 DEF Goto
  <2>. QED BY <1>3, <2>1, <2>2
<1>. QED BY <1>1, <1>2, <1>3

\* prepare() takes its event from the queue.
LEMMA TakeEventAmong ==
    ASSUME event \in [Fibers -> KnownEvent], task \in [Fibers -> KnownTask \cup {NoTask}],
           step \in [Fibers -> Steps], events \in Seq(KnownEvent), events # <<>>,
           NEW f \in Fibers, TakeEvent(f)
    PROVE  /\ events' \in Seq(KnownEvent)
           /\ event' \in [Fibers -> KnownEvent]
           /\ task' \in [Fibers -> KnownTask \cup {NoTask}]
           /\ step'[f] \in {"check", "create"}
           /\ step'[f] = "create" => event'[f].parent = Nothing
           /\ \A g \in Fibers \ {f} :
                 step'[g] = step[g] /\ event'[g] = event[g] /\ task'[g] = task[g]
<1>1. Head(events) \in KnownEvent /\ Tail(events) \in Seq(KnownEvent)
  OBVIOUS
<1>2. PICK s \in {"check", "create"} :
         /\ Goto(f, s, Head(events), NoTask)
         /\ s = "create" => Head(events).parent = Nothing
  BY DEF TakeEvent
<1>3. /\ event' \in [Fibers -> KnownEvent]
      /\ task' \in [Fibers -> KnownTask \cup {NoTask}]
      /\ step'[f] = s /\ event'[f] = Head(events)
      /\ \A g \in Fibers \ {f} :
            step'[g] = step[g] /\ event'[g] = event[g] /\ task'[g] = task[g]
  BY <1>1, <1>2 DEF Goto
<1>. QED BY <1>1, <1>2, <1>3 DEF TakeEvent

\* The end of prepare() does one or the other.
LEMMA AfterPrepareAmong ==
    ASSUME NoEvent \in KnownEvent,
           event \in [Fibers -> KnownEvent], task \in [Fibers -> KnownTask \cup {NoTask}],
           step \in [Fibers -> Steps], events \in Seq(KnownEvent),
           NEW f \in Fibers, NEW queue \in Seq(KnownTask), AfterPrepare(f, queue)
    PROVE  /\ events' \in Seq(KnownEvent)
           /\ pending' \in Seq(KnownTask)
           /\ event' \in [Fibers -> KnownEvent]
           /\ task' \in [Fibers -> KnownTask \cup {NoTask}]
           /\ step'[f] \in {"idle", "mark", "run", "query", "check", "create"}
           /\ step'[f] = "run" => task'[f] \in KnownTask /\ task'[f].seen # "QUEUEING"
           /\ step'[f] = "create" => event'[f].parent = Nothing
           /\ \A i \in DOMAIN queue :
                 \/ \E j \in DOMAIN pending' : pending'[j] = queue[i]
                 \/ step'[f] \in {"mark", "run"} /\ task'[f] = queue[i]
           /\ \A g \in Fibers \ {f} :
                 step'[g] = step[g] /\ event'[g] = event[g] /\ task'[g] = task[g]
<1>1. CASE events # <<>>
  <2>1. TakeEvent(f) /\ pending' = queue
    BY <1>1 DEF AfterPrepare
  <2>. QED BY <1>1, <2>1, TakeEventAmong
<1>2. CASE events = <<>>
  <2>1. Dispatch(f, executing, queue) /\ events' = events
    BY <1>2 DEF AfterPrepare
  <2>. QED BY <1>2, <2>1, DispatchAmong
<1>. QED BY <1>1, <1>2

\* What refers to a row still does when no row goes.
LEMMA KnownGrows ==
    ASSUME \A e \in Execution : status[e] # "ABSENT" => status'[e] # "ABSENT"
    PROVE  /\ Known \subseteq Known'
           /\ KnownEvent \subseteq KnownEvent'
           /\ KnownTask \subseteq KnownTask'
<1>1. Known \subseteq Known'
  BY DEF Known
<1>. QED BY <1>1 DEF KnownEvent, KnownTask

\* Constants are known.
LEMMA KnownConstants ==
    /\ NoEvent \in KnownEvent
    /\ Nothing \in Known
BY ConstantsAssumption DEF NoEvent, KnownEvent, Known, Nothing

\* What an action leaves in memory, over the rows as they were.
MemoryOfKnown ==
    /\ events' \in Seq(KnownEvent)
    /\ pending' \in Seq(KnownTask)
    /\ event' \in [Fibers -> KnownEvent]
    /\ task' \in [Fibers -> KnownTask \cup {NoTask}]

LEMMA ExistingKept ==
    ASSUME MemoryOfKnown,
           \A e \in Execution : status[e] # "ABSENT" => status'[e] # "ABSENT",
           \A j \in Jobs : owner'[j] \in Known',
           \A e \in Execution : parent'[e] \in Known',
           \A e \in Execution : parent'[e] # Nothing => e \in Known'
    PROVE  Existing'
<1>1. KnownEvent \subseteq KnownEvent' /\ KnownTask \subseteq KnownTask'
  BY KnownGrows
<1>2. events' \in Seq(KnownEvent')
  BY <1>1 DEF MemoryOfKnown
<1>3. pending' \in Seq(KnownTask')
  BY <1>1 DEF MemoryOfKnown
<1>4. event' \in [Fibers -> KnownEvent']
  BY <1>1 DEF MemoryOfKnown
<1>5. task' \in [Fibers -> KnownTask' \cup {NoTask}]
  BY <1>1 DEF MemoryOfKnown
<1>. QED BY <1>2, <1>3, <1>4, <1>5 DEF Existing

LEMMA ExistingInit == Init => Existing
<1>. SUFFICES ASSUME Init PROVE Existing
  OBVIOUS
<1>1. events \in Seq(KnownEvent) /\ pending \in Seq(KnownTask)
  BY DEF Init
<1>2. event \in [Fibers -> KnownEvent] /\ task \in [Fibers -> KnownTask \cup {NoTask}]
  BY KnownConstants DEF Init
<1>3. /\ \A j \in Jobs : owner[j] = Nothing
      /\ \A e \in Execution : parent[e] = Nothing
  BY DEF Init
<1>. QED BY <1>1, <1>2, <1>3, KnownConstants DEF Existing

\* The types that the steps below start from.
LEMMA ExistingTypes ==
    ASSUME TypeOK, Existing, NEW f \in Fibers
    PROVE  /\ events \in Seq(KnownEvent)
           /\ pending \in Seq(KnownTask)
           /\ event \in [Fibers -> KnownEvent]
           /\ task \in [Fibers -> KnownTask \cup {NoTask}]
           /\ step \in [Fibers -> Steps]
           /\ NoEvent \in KnownEvent
           /\ Holding(f) => task[f] \in KnownTask
<1>1. NoTask \notin Task
  BY DEF NoTask, Task, Execution, Nothing
<1>. QED BY <1>1, KnownConstants DEF TypeOK, Existing

\* An action that leaves the executions, and whose jobs are of known ones.
LEMMA ExistingSameRows ==
    ASSUME Existing, MemoryOfKnown, UNCHANGED <<status, parent>>,
           \A j \in Jobs : owner'[j] \in Known
    PROVE  Existing'
<1>1. Known' = Known
  BY DEF Known
<1>2. /\ \A e \in Execution : parent[e] \in Known
      /\ \A e \in Execution : parent[e] # Nothing => e \in Known
  BY DEF Existing
<1>. QED BY <1>1, <1>2, ExistingKept

\* An event comes from a running execution, that has a row.
LEMMA ExistingTrigger ==
    ASSUME TypeOK, Existing,
           NEW w \in Workflow, NEW p \in 0..MaxExecutions, Trigger(w, p)
    PROVE  Existing'
<1>1. p \in Known
  <2>1. CASE p = Nothing
    BY <2>1, KnownConstants
  <2>2. CASE p # Nothing
    <3>1. PICK f \in Fibers : step[f] = "run" /\ task[f].exec = p
      BY <2>2 DEF Trigger
    <3>2. task[f] \in KnownTask
      BY <3>1, ExistingTypes DEF Holding
    <3>. QED BY <3>1, <3>2 DEF KnownTask
  <2>. QED BY <2>1, <2>2
<1>2. [workflow |-> w, parent |-> p] \in KnownEvent
  BY <1>1, ConstantsAssumption DEF KnownEvent, Workflow
<1>3. events' \in Seq(KnownEvent) /\ pending' \in Seq(KnownTask)
  BY <1>2 DEF Trigger, Existing
<1>4. event' \in [Fibers -> KnownEvent] /\ task' \in [Fibers -> KnownTask \cup {NoTask}]
  BY KnownConstants DEF Trigger, Existing, Goto, calls
<1>. QED BY <1>3, <1>4, ExistingSameRows DEF MemoryOfKnown, Trigger, Existing, rows, jobs

\* The steps of prepare() that leave the rows.
LEMMA ExistingPrepare ==
    ASSUME TypeOK, Existing, NEW f \in Fibers, Timer(f) \/ Check(f) \/ Cache(f)
    PROVE  Existing'
<1>1. MemoryOfKnown
  <2>1. CASE Timer(f)
    <3>1. CASE events # <<>>
      <4>1. TakeEvent(f) /\ pending' = pending
        BY <2>1, <3>1 DEF Timer
      <4>. QED BY <3>1, <4>1, TakeEventAmong, ExistingTypes DEF MemoryOfKnown
    <3>2. CASE events = <<>>
      BY <2>1, <3>2, ExistingTypes DEF Timer, Goto, MemoryOfKnown
    <3>. QED BY <3>1, <3>2
  <2>2. CASE Check(f)
    <3>1. CASE AfterPrepare(f, pending)
      BY <3>1, AfterPrepareAmong, ExistingTypes DEF MemoryOfKnown
    <3>2. CASE Goto(f, "create", event[f], NoTask) /\ UNCHANGED memory
      BY <3>2, ExistingTypes DEF Goto, MemoryOfKnown, memory
    <3>. QED BY <2>2, <3>1, <3>2 DEF Check
  <2>3. CASE Cache(f)
    <3>. DEFINE queue == IF executing = Nothing /\ pending = <<>>
                         THEN <<task[f]>> ELSE pending
    <3>1. AfterPrepare(f, queue) /\ Holding(f)
      BY <2>3 DEF Cache, Holding
    <3>2. queue \in Seq(KnownTask)
      BY <3>1, ExistingTypes
    <3>. QED BY <3>1, <3>2, AfterPrepareAmong, ExistingTypes DEF MemoryOfKnown
  <2>. QED BY <2>1, <2>2, <2>3
<1>2. UNCHANGED <<status, parent, owner>>
  BY DEF Timer, Check, Cache, rows, jobs
<1>. QED BY <1>1, <1>2, ExistingSameRows DEF Existing

\* The row that prepare() creates.
LEMMA ExistingCreate ==
    ASSUME TypeOK, Existing, NEW f \in Fibers, Create(f)
    PROVE  Existing'
<1>1. PICK e \in Execution :
        /\ status[e] = "ABSENT"
        /\ status' = [status EXCEPT ![e] = "QUEUEING"]
        /\ parent' = [parent EXCEPT ![e] = event[f].parent]
        /\ Goto(f, "created", NoEvent, Created(e))
  BY DEF Create
<1>2. UNCHANGED <<events, pending, owner>>
  BY DEF Create, memory, jobs
<1>3. /\ status \in [Execution -> Status] /\ parent \in [Execution -> 0..MaxExecutions]
      /\ \A g \in Execution : status[g] # "ABSENT" => status'[g] # "ABSENT"
      /\ status'[e] # "ABSENT"
  BY <1>1 DEF TypeOK
<1>4. Known \subseteq Known' /\ KnownTask \subseteq KnownTask' /\ KnownEvent \subseteq KnownEvent'
  BY <1>3, KnownGrows
<1>5. e \in Known' /\ Created(e) \in KnownTask'
  BY <1>3, ConstantTypes DEF Known, KnownTask, Created
<1>6. event[f].parent \in Known
  BY DEF Existing, KnownEvent
<1>7. events' \in Seq(KnownEvent') /\ pending' \in Seq(KnownTask')
  BY <1>2, <1>4 DEF Existing
<1>8. /\ event' \in [Fibers -> KnownEvent']
      /\ task' \in [Fibers -> KnownTask' \cup {NoTask}]
  BY <1>1, <1>4, <1>5, KnownConstants DEF Existing, Goto
<1>9. /\ \A j \in Jobs : owner'[j] \in Known'
      /\ \A g \in Execution : /\ parent'[g] \in Known'
                              /\ parent'[g] # Nothing => g \in Known'
  BY <1>1, <1>2, <1>3, <1>4, <1>5, <1>6 DEF Existing
<1>. QED BY <1>7, <1>8, <1>9 DEF Existing

\* What dispatch() finds in the table, and processes.
LEMMA ExistingFound ==
    ASSUME TypeOK, Existing, NEW f \in Fibers, Lookup(f) \/ Found(f)
    PROVE  Existing'
<1>1. MemoryOfKnown
  <2>1. CASE Lookup(f)
    <3>1. \/ Goto(f, "idle", NoEvent, NoTask)
          \/ \E e \in Queued : Goto(f, "found", NoEvent, Created(e))
      BY <2>1 DEF Lookup
    <3>2. \A e \in Queued : Created(e) \in KnownTask
      BY ConstantTypes DEF Queued, Known, KnownTask, Created
    <3>3. UNCHANGED <<events, pending>>
      BY <2>1 DEF Lookup, memory
    <3>. QED BY <3>1, <3>2, <3>3, ExistingTypes DEF Goto, MemoryOfKnown
  <2>2. CASE Found(f)
    <3>1. task[f] \in KnownTask
      BY <2>2, ExistingTypes DEF Found, Holding
    <3>2. PICK s \in {"mark", "run"} : Goto(f, s, NoEvent, task[f])
      BY <2>2 DEF Found, Process
    <3>3. UNCHANGED <<events, pending>>
      BY <2>2 DEF Found
    <3>. QED BY <3>1, <3>2, <3>3, ExistingTypes DEF Goto, MemoryOfKnown
  <2>. QED BY <2>1, <2>2
<1>2. UNCHANGED <<status, parent, owner>>
  BY DEF Lookup, Found, rows, jobs
<1>. QED BY <1>1, <1>2, ExistingSameRows DEF Existing

\* process() starts an execution that has a row.
LEMMA ExistingMark ==
    ASSUME TypeOK, Existing, NEW f \in Fibers, Mark(f)
    PROVE  Existing'
<1>1. task[f] \in KnownTask
  BY ExistingTypes DEF Mark, Holding
<1>2. [task[f] EXCEPT !.seen = "STARTED"] \in KnownTask
  BY <1>1 DEF KnownTask, Task, Status
<1>3. MemoryOfKnown
  BY <1>2, ExistingTypes DEF Mark, memory, Goto, MemoryOfKnown
<1>4. \A e \in Execution : status[e] # "ABSENT" => status'[e] # "ABSENT"
  BY DEF Mark, TypeOK
<1>5. Known \subseteq Known'
  BY <1>4, KnownGrows
<1>. QED BY <1>3, <1>4, <1>5, ExistingKept DEF Existing, Mark, jobs

\* The ends of process(): the jobs it makes are of its execution.
LEMMA ExistingRun ==
    ASSUME TypeOK, Existing, NEW f \in Fibers,
           Refuse(f) \/ Finish(f) \/ Suspend(f) \/ Throw(f)
    PROVE  Existing'
<1>1. EndProcess(f)
  BY DEF Refuse, Finish, Suspend, Throw
<1>2. MemoryOfKnown
  <2>1. Dispatch(f, Nothing, pending) /\ events' = events
    BY <1>1 DEF EndProcess
  <2>. QED BY <2>1, DispatchAmong, ExistingTypes DEF MemoryOfKnown
<1>3. task[f] \in KnownTask /\ task[f].exec \in Execution /\ task[f].exec \in Known
  BY <1>1, ExistingTypes DEF EndProcess, Holding, KnownTask, Task
<1>4. /\ \A e \in Execution : status[e] # "ABSENT" => status'[e] # "ABSENT"
      /\ parent' = parent
  BY <1>1 DEF EndProcess, Refuse, Finish, Suspend, Throw, TypeOK
<1>5. \A j \in Jobs : owner'[j] \in Known
  <2>1. CASE UNCHANGED owner
    BY <2>1 DEF Existing
  <2>2. CASE Suspend(f)
    BY <2>2, <1>3, SuspendEffect DEF Existing
  <2>. QED BY <2>1, <2>2 DEF Refuse, Finish, Throw, jobs
<1>6. Known \subseteq Known'
  BY <1>4, KnownGrows
<1>. QED BY <1>2, <1>4, <1>5, <1>6, ExistingKept DEF Existing

\* A resumption is of an execution that was suspended.
LEMMA ExistingResume ==
    ASSUME TypeOK, Existing
    PROVE  /\ \A j \in Jobs : Fetch(j) => Existing'
           /\ \A f \in Fibers : Resume(f) => Existing'
<1>1. ASSUME NEW j \in Jobs, Fetch(j) PROVE Existing'
  <2>. DEFINE e == owner[j]
              t == [exec |-> e, seen |-> status[e], job |-> j]
  <2>1. PICK f \in Fibers : Goto(f, "fetched", NoEvent, t)
    BY <1>1 DEF Fetch
  <2>2. e \in Execution /\ e \in Known /\ status[e] # "ABSENT"
    BY <1>1 DEF Fetch, TypeOK, Existing, Known, Execution, Nothing
  <2>3. t \in KnownTask
    BY <2>2 DEF KnownTask, Task, TypeOK
  <2>4. MemoryOfKnown
    BY <1>1, <2>1, <2>3, ExistingTypes DEF Fetch, memory, Goto, MemoryOfKnown
  <2>5. UNCHANGED <<status, parent, owner>>
    BY <1>1 DEF Fetch, rows
  <2>. QED BY <2>4, <2>5, ExistingSameRows DEF Existing
<1>2. ASSUME NEW f \in Fibers, Resume(f) PROVE Existing'
  <2>. DEFINE queue == Append(pending, task[f])
  <2>1. Dispatch(f, executing, queue) /\ Holding(f) /\ UNCHANGED <<events, rows, jobs>>
    BY <1>2 DEF Resume, Holding
  <2>2. queue \in Seq(KnownTask)
    BY <2>1, ExistingTypes
  <2>3. MemoryOfKnown
    BY <2>1, <2>2, DispatchAmong, ExistingTypes DEF MemoryOfKnown
  <2>. QED BY <2>1, <2>3, ExistingSameRows DEF Existing, rows, jobs
<1>. QED BY <1>1, <1>2

\* A restart leaves the tables.
LEMMA ExistingRestart ==
    ASSUME TypeOK, Existing, Restart PROVE Existing'
<1>1. MemoryOfKnown
  BY KnownConstants DEF Restart, MemoryOfKnown
<1>. QED BY <1>1, ExistingSameRows DEF Restart, rows, Existing

LEMMA ExistingNext == TypeOK /\ Existing /\ [Next]_vars => Existing'
<1>. SUFFICES ASSUME TypeOK, Existing, [Next]_vars PROVE Existing'
  OBVIOUS
<1>1. ASSUME NEW f \in Fibers, Step(f) PROVE Existing'
  <2>1. CASE Timer(f) \/ Check(f) \/ Cache(f)
    BY <2>1, ExistingPrepare
  <2>2. CASE Create(f)
    BY <2>2, ExistingCreate
  <2>3. CASE Lookup(f) \/ Found(f)
    BY <2>3, ExistingFound
  <2>4. CASE Mark(f)
    BY <2>4, ExistingMark
  <2>5. CASE Refuse(f) \/ Finish(f) \/ Suspend(f) \/ Throw(f)
    BY <2>5, ExistingRun
  <2>6. CASE Resume(f)
    BY <2>6, ExistingResume
  <2>. QED BY <1>1, <2>1, <2>2, <2>3, <2>4, <2>5, <2>6 DEF Step
<1>2. CASE UNCHANGED vars
  <2>1. MemoryOfKnown
    BY <1>2 DEF vars, memory, calls, MemoryOfKnown, Existing
  <2>. QED BY <1>2, <2>1, ExistingSameRows DEF vars, rows, jobs, Existing
<1>. QED BY <1>1, <1>2, ExistingTrigger, ExistingResume, ExistingRestart DEF Next

-----------------------------------------------------------------------------
(* A workflow does not trigger itself *)

\* what prepare() is about to create is of another workflow than its parent
Checked(f) ==
    step[f] = "create" /\ event[f].parent # Nothing =>
        workflow[event[f].parent] # event[f].workflow

Apart == (\A f \in Fibers : Checked(f)) /\ NoSelfTrigger

\* A step of one call that leaves the rows.
LEMMA ApartSameRows ==
    ASSUME Apart, UNCHANGED <<workflow, parent>>,
           NEW f \in Fibers, Checked(f)',
           \A g \in Fibers \ {f} : step'[g] = step[g] /\ event'[g] = event[g]
    PROVE  Apart'
BY DEF Apart, Checked, NoSelfTrigger

\* The executions an event comes from keep their workflows when a row is made.
LEMMA ApartCreate ==
    ASSUME TypeOK, Existing, Apart, NEW f \in Fibers, Create(f)
    PROVE  Apart'
<1>1. PICK e \in Execution :
        /\ status[e] = "ABSENT"
        /\ workflow' = [workflow EXCEPT ![e] = event[f].workflow]
        /\ parent' = [parent EXCEPT ![e] = event[f].parent]
        /\ Goto(f, "created", NoEvent, Created(e))
  BY DEF Create
<1>2. e \notin Known
  BY <1>1 DEF Known, Execution, Nothing
<1>3. \A p \in Known \ {Nothing} : p \in Execution /\ workflow'[p] = workflow[p]
  BY <1>1, <1>2 DEF Known, TypeOK
<1>4. \A g \in Fibers : event[g].parent \in Known
  BY DEF Existing, KnownEvent
<1>5. ASSUME NEW g \in Fibers PROVE Checked(g)'
  <2>1. CASE g = f
    BY <1>1, <2>1 DEF Checked, Goto, TypeOK
  <2>2. CASE g # f
    BY <1>1, <1>3, <1>4, <2>2 DEF Checked, Apart, Goto, TypeOK
  <2>. QED BY <2>1, <2>2
<1>6. ASSUME NEW d \in Execution, parent'[d] # Nothing
      PROVE  workflow'[parent'[d]] # workflow'[d]
  <2>1. CASE d = e
    <3>1. parent'[e] = event[f].parent /\ workflow'[e] = event[f].workflow
      BY <1>1 DEF TypeOK
    <3>2. Checked(f) /\ step[f] = "create"
      BY DEF Apart, Create
    <3>. QED BY <1>3, <1>4, <1>6, <2>1, <3>1, <3>2 DEF Checked
  <2>2. CASE d # e
    <3>1. parent'[d] = parent[d] /\ workflow'[d] = workflow[d]
      BY <1>1, <2>2 DEF TypeOK
    <3>2. parent[d] \in Known
      BY DEF Existing
    <3>. QED BY <1>3, <1>6, <3>1, <3>2 DEF Apart, NoSelfTrigger
  <2>. QED BY <2>1, <2>2
<1>. QED BY <1>5, <1>6 DEF Apart, NoSelfTrigger

\* Only the count lets an event of an execution go on to be created.
LEMMA ApartStep ==
    ASSUME TypeOK, Existing, Apart, NEW f \in Fibers, Step(f)
    PROVE  Apart'
<1>t. /\ step \in [Fibers -> Steps] /\ event \in [Fibers -> KnownEvent]
      /\ pending \in Seq(KnownTask)
  BY DEF TypeOK, Existing
<1>1. CASE Timer(f)
  <2>1. CASE events # <<>>
    <3>1. TakeEvent(f) /\ UNCHANGED <<workflow, parent>>
      BY <1>1, <2>1 DEF Timer, rows
    <3>. QED BY <2>1, <3>1, TakeEventAmong, ExistingTypes, ApartSameRows DEF Checked
  <2>2. CASE events = <<>>
    BY <1>1, <2>2, <1>t, ApartSameRows DEF Timer, Goto, rows, Checked
  <2>. QED BY <2>1, <2>2
<1>2. CASE Check(f)
  <2>1. UNCHANGED <<workflow, parent>>
    BY <1>2 DEF Check, rows
  <2>2. CASE AfterPrepare(f, pending)
    BY <2>1, <2>2, AfterPrepareAmong, ExistingTypes, ApartSameRows DEF Checked
  <2>3. CASE /\ workflow[event[f].parent] # event[f].workflow
             /\ Goto(f, "create", event[f], NoTask)
    BY <2>1, <2>3, <1>t, ApartSameRows DEF Goto, Checked
  <2>. QED BY <1>2, <2>2, <2>3 DEF Check
<1>3. CASE Cache(f)
  <2>. DEFINE queue == IF executing = Nothing /\ pending = <<>>
                       THEN <<task[f]>> ELSE pending
  <2>1. AfterPrepare(f, queue) /\ Holding(f) /\ UNCHANGED <<workflow, parent>>
    BY <1>3 DEF Cache, Holding, rows
  <2>2. queue \in Seq(KnownTask)
    BY <2>1, ExistingTypes
  <2>. QED BY <2>1, <2>2, AfterPrepareAmong, ExistingTypes, ApartSameRows DEF Checked
<1>4. CASE Create(f)
  BY <1>4, ApartCreate
<1>5. CASE Lookup(f) \/ Found(f) \/ Mark(f)
  <2>1. UNCHANGED <<workflow, parent>>
    BY <1>5 DEF Lookup, Found, Mark, rows
  <2>2. \E s \in {"idle", "found", "mark", "run"}, t \in {NoTask, task[f], [task[f] EXCEPT !.seen = "STARTED"]}
               \cup {Created(e) : e \in Execution} : Goto(f, s, NoEvent, t)
    BY <1>5 DEF Lookup, Found, Mark, Process, Queued
  <2>. QED BY <2>1, <2>2, <1>t, ApartSameRows DEF Goto, Checked
<1>6. CASE Refuse(f) \/ Finish(f) \/ Suspend(f) \/ Throw(f)
  <2>1. Dispatch(f, Nothing, pending) /\ UNCHANGED <<workflow, parent>>
    BY <1>6 DEF Refuse, Finish, Suspend, Throw, EndProcess
  <2>. QED BY <2>1, DispatchAmong, ExistingTypes, ApartSameRows DEF Checked
<1>7. CASE Resume(f)
  <2>. DEFINE queue == Append(pending, task[f])
  <2>1. Dispatch(f, executing, queue) /\ Holding(f) /\ UNCHANGED <<workflow, parent>>
    BY <1>7 DEF Resume, Holding, rows
  <2>2. queue \in Seq(KnownTask)
    BY <2>1, ExistingTypes
  <2>. QED BY <2>1, <2>2, DispatchAmong, ExistingTypes, ApartSameRows DEF Checked
<1>. QED BY <1>1, <1>2, <1>3, <1>4, <1>5, <1>6, <1>7 DEF Step

LEMMA ApartNext == TypeOK /\ Existing /\ Apart /\ [Next]_vars => Apart'
<1>. SUFFICES ASSUME TypeOK, Existing, Apart, [Next]_vars PROVE Apart'
  OBVIOUS
<1>t. step \in [Fibers -> Steps] /\ event \in [Fibers -> KnownEvent]
  BY DEF TypeOK, Existing
<1>1. ASSUME NEW w \in Workflow, NEW p \in 0..MaxExecutions, Trigger(w, p) PROVE Apart'
  <2>1. UNCHANGED <<workflow, parent>>
    BY <1>1 DEF Trigger, rows
  <2>2. \/ UNCHANGED <<step, event>>
        \/ \E f \in Fibers : Goto(f, "timer", NoEvent, NoTask)
    BY <1>1 DEF Trigger, calls
  <2>3. CASE UNCHANGED <<step, event>>
    BY <2>1, <2>3 DEF Apart, Checked, NoSelfTrigger
  <2>4. ASSUME NEW f \in Fibers, Goto(f, "timer", NoEvent, NoTask) PROVE Apart'
    BY <2>1, <2>4, <1>t, ApartSameRows DEF Goto, Checked
  <2>. QED BY <2>2, <2>3, <2>4
<1>2. ASSUME NEW j \in Jobs, Fetch(j) PROVE Apart'
  <2>1. UNCHANGED <<workflow, parent>>
    BY <1>2 DEF Fetch, rows
  <2>2. PICK f \in Fibers : Goto(f, "fetched", NoEvent,
           [exec |-> owner[j], seen |-> status[owner[j]], job |-> j])
    BY <1>2 DEF Fetch
  <2>. QED BY <2>1, <2>2, <1>t, ApartSameRows DEF Goto, Checked
<1>3. CASE Restart
  <2>1. UNCHANGED <<workflow, parent>> /\ \A f \in Fibers : step'[f] # "create"
    BY <1>3 DEF Restart, rows
  <2>. QED BY <2>1 DEF Apart, Checked, NoSelfTrigger
<1>4. CASE UNCHANGED vars
  BY <1>4 DEF vars, calls, rows, Apart, Checked, NoSelfTrigger
<1>. QED BY <1>1, <1>2, <1>3, <1>4, ApartStep DEF Next

LEMMA ApartInit == Init => Apart
<1>. SUFFICES ASSUME Init PROVE Apart
  OBVIOUS
<1>1. \A f \in Fibers : step[f] # "create"
  BY DEF Init
<1>. QED BY <1>1 DEF Init, Apart, Checked, NoSelfTrigger

\* What is queued, held or owed is of an execution that has a row.
THEOREM MemoryRefersToRows == Spec => []Existing
BY TypeInit, TypeNext, ExistingInit, ExistingNext, PTL DEF Spec

\* No execution is created by one of its own workflow, for any number of
\* workflows, events and calls in flight.
THEOREM NeverItself == Spec => []NoSelfTrigger
<1>1. Apart => NoSelfTrigger
  BY DEF Apart
<1>. QED BY <1>1, TypeInit, TypeNext, ExistingInit, ExistingNext, ApartInit, ApartNext, PTL DEF Spec

-----------------------------------------------------------------------------
(* A started execution is not forgotten *)

\* A task is of the execution of its job, and its processor will accept it
\* unless the execution is known to be lost.
Fit(t) ==
    /\ t.job = NoJob => t.seen \in {"QUEUEING", "STARTED"}
    /\ t.job # NoJob => /\ owner[t.job] = t.exec
                        /\ t.seen = "STARTED" \/ t.exec \in abandoned
FitTask == {t \in Task : Fit(t)}

\* What a call holds where it is: process() updates when the instance says
\* QUEUEING, and only then.
Updated(f) ==
    /\ step[f] \in {"idle", "timer", "check", "create", "query"} => task[f] = NoTask
    /\ step[f] \in {"created", "found", "mark"} => task[f].seen = "QUEUEING"
    /\ step[f] = "run" => task[f].seen # "QUEUEING"

TasksFit ==
    /\ pending \in Seq(FitTask)
    /\ task \in [Fibers -> FitTask \cup {NoTask}]
    /\ \A f \in Fibers : Updated(f)

\* somebody is still to resume j, or its execution is known to be lost
Covered(j) == Owed(j) \/ owner[j] \in abandoned
JobsCovered == \A j \in open : owner[j] # Nothing /\ Covered(j)

\* the execution e is being started or has a pending job, or is known to be lost
Alive(e) ==
    \/ e \in abandoned
    \/ \E f \in Fibers : Starting(f, e)
    \/ \E j \in open : owner[j] = e
StartedAlive == \A e \in Execution : status[e] = "STARTED" => Alive(e)

\* The strengthening that makes StartedIsOwned inductive.
Accounted == TasksFit /\ JobsCovered /\ StartedAlive

LEMMA AccountedIsOwned == Accounted => StartedIsOwned
BY DEF Accounted, StartedAlive, JobsCovered, Alive, Covered, StartedIsOwned

OthersStay(f) ==
    \A g \in Fibers \ {f} : step'[g] = step[g] /\ task'[g] = task[g]

\* A task stays fit as long as its job keeps its row.
LEMMA FitStays ==
    ASSUME abandoned \subseteq abandoned',
           \A j \in Jobs : owner[j] # Nothing => owner'[j] = owner[j]
    PROVE  FitTask \subseteq FitTask'
BY DEF FitTask, Fit, Task, Execution, Nothing

\* A task of the queue is still there, or the call f takes it.
Handed(f, queue) ==
    \A i \in DOMAIN queue :
        \/ \E k \in DOMAIN pending' : pending'[k] = queue[i]
        \/ step'[f] \in {"mark", "run"} /\ task'[f] = queue[i]

\* What the call f and the queue hold after a step.
Fits(f) ==
    /\ Updated(f)' /\ OthersStay(f)
    /\ pending' \in Seq(FitTask)
    /\ task' \in [Fibers -> FitTask \cup {NoTask}]

LEMMA GotoFit ==
    ASSUME task \in [Fibers -> FitTask \cup {NoTask}], step \in [Fibers -> Steps],
           NEW f \in Fibers, NEW s, NEW v, NEW t \in FitTask \cup {NoTask}, Goto(f, s, v, t),
           /\ s \in {"idle", "timer", "check", "create", "query"} => t = NoTask
           /\ s \in {"created", "found", "mark"} => t.seen = "QUEUEING"
           /\ s = "run" => t.seen # "QUEUEING",
           pending' \in Seq(FitTask)
    PROVE  Fits(f) /\ step'[f] = s /\ task'[f] = t
BY DEF Goto, Fits, Updated, OthersStay

\* dispatch() takes its task from the queue, and leaves the others.
LEMMA DispatchFit ==
    ASSUME task \in [Fibers -> FitTask \cup {NoTask}], step \in [Fibers -> Steps],
           NEW f \in Fibers, NEW running, NEW queue \in Seq(FitTask),
           Dispatch(f, running, queue)
    PROVE  Fits(f) /\ Handed(f, queue)
<1>1. CASE running # Nothing
  <2>1. Goto(f, "idle", NoEvent, NoTask) /\ pending' = queue
    BY <1>1 DEF Dispatch
  <2>. QED BY <2>1, GotoFit DEF Handed
<1>2. CASE running = Nothing /\ queue # <<>>
  <2>1. Process(f, Head(queue)) /\ pending' = Tail(queue)
    BY <1>2 DEF Dispatch
  <2>2. Head(queue) \in FitTask /\ Tail(queue) \in Seq(FitTask) /\ Head(queue) = queue[1]
    BY <1>2
  <2>3. PICK s \in {"mark", "run"} : /\ Goto(f, s, NoEvent, Head(queue))
                                     /\ s = "run" => Head(queue).seen # "QUEUEING"
                                     /\ s = "mark" => Head(queue).seen = "QUEUEING"
    BY <2>1 DEF Process
  <2>4. Fits(f) /\ step'[f] = s /\ task'[f] = Head(queue)
    BY <2>1, <2>2, <2>3, GotoFit
  <2>5. ASSUME NEW i \in DOMAIN queue, i # 1
        PROVE  i - 1 \in DOMAIN Tail(queue) /\ Tail(queue)[i - 1] = queue[i]
    BY <1>2, <2>5
  <2>6. \A i \in DOMAIN queue : i # 1 => \E k \in DOMAIN pending' : pending'[k] = queue[i]
    BY <2>1, <2>5
  <2>. QED BY <2>2, <2>4, <2>6 DEF Handed
<1>3. CASE running = Nothing /\ queue = <<>>
  <2>1. Goto(f, "query", NoEvent, NoTask) /\ pending' = queue
    BY <1>3 DEF Dispatch
  <2>. QED BY <2>1, GotoFit DEF Handed
<1>. QED BY <1>1, <1>2, <1>3

\* and so does the end of prepare().
LEMMA AfterPrepareFit ==
    ASSUME task \in [Fibers -> FitTask \cup {NoTask}], step \in [Fibers -> Steps],
           NEW f \in Fibers, NEW queue \in Seq(FitTask), AfterPrepare(f, queue)
    PROVE  Fits(f) /\ Handed(f, queue)
<1>1. CASE events # <<>>
  <2>1. PICK s \in {"check", "create"}, v \in {Head(events)} :
           Goto(f, s, v, NoTask) /\ pending' = queue
    BY <1>1 DEF AfterPrepare, TakeEvent
  <2>. QED BY <2>1, GotoFit DEF Handed
<1>2. CASE events = <<>>
  BY <1>2, DispatchFit DEF AfterPrepare
<1>. QED BY <1>1, <1>2

LEMMA TasksFitKept ==
    ASSUME TasksFit, NEW f \in Fibers, Fits(f),
           abandoned \subseteq abandoned',
           \A j \in Jobs : owner[j] # Nothing => owner'[j] = owner[j]
    PROVE  TasksFit'
<1>1. FitTask \subseteq FitTask'
  BY FitStays
<1>2. pending' \in Seq(FitTask')
  BY <1>1 DEF Fits
<1>3. task' \in [Fibers -> FitTask' \cup {NoTask}]
  BY <1>1 DEF Fits
<1>4. \A g \in Fibers : Updated(g)'
  BY DEF TasksFit, Updated, OthersStay, Fits
<1>. QED BY <1>2, <1>3, <1>4 DEF TasksFit

\* A resumption in memory stays there unless it is the one that f holds.
LEMMA MemoryKept ==
    ASSUME NEW f \in Fibers, Handed(f, pending), OthersStay(f),
           NEW j \in Jobs, InMemory(j),
           task[f].job = j /\ task[f].seen = "STARTED" => InMemory(j)'
    PROVE  InMemory(j)'
<1>1. CASE \E i \in DOMAIN pending : pending[i].job = j /\ pending[i].seen = "STARTED"
  BY <1>1 DEF Handed, InMemory
<1>2. CASE \E g \in Fibers : task[g].job = j /\ task[g].seen = "STARTED"
  BY <1>2 DEF OthersStay, InMemory
<1>. QED BY <1>1, <1>2 DEF InMemory

\* A step of one call that leaves the jobs and keeps what it holds.
LEMMA AccountedStep ==
    ASSUME TypeOK, Accounted, NEW f \in Fibers, Fits(f), Handed(f, pending),
           UNCHANGED jobs, UNCHANGED abandoned,
           \A j \in Jobs : task[f].job = j /\ task[f].seen = "STARTED" => InMemory(j)',
           \A e \in Execution : Starting(f, e) => Starting(f, e)',
           \A e \in Execution : status'[e] = "STARTED" => status[e] = "STARTED" \/ Alive(e)'
    PROVE  Accounted'
<1>1. TasksFit'
  BY TasksFitKept DEF Accounted, jobs
<1>2. \A j \in Jobs : InMemory(j) => InMemory(j)'
  BY MemoryKept DEF Fits
<1>3. JobsCovered'
  BY <1>2 DEF Accounted, JobsCovered, Covered, Owed, jobs, TypeOK
<1>4. \A g \in Fibers, e \in Execution : Starting(g, e) => Starting(g, e)'
  BY DEF OthersStay, Starting, Processing, Fits
<1>5. StartedAlive'
  BY <1>4 DEF Accounted, StartedAlive, Alive, jobs
<1>. QED BY <1>1, <1>3, <1>5 DEF Accounted

\* What the calls hold, where they are.
LEMMA AccountedTypes ==
    ASSUME TypeOK, Accounted
    PROVE  /\ task \in [Fibers -> FitTask \cup {NoTask}]
           /\ step \in [Fibers -> Steps]
           /\ pending \in Seq(FitTask)
           /\ NoTask \notin Task
           /\ \A f \in Fibers : Updated(f) /\ (Holding(f) => task[f] \in FitTask)
<1>1. NoTask \notin Task
  BY DEF NoTask, Task, Execution, Nothing
<1>. QED BY <1>1 DEF TypeOK, Accounted, TasksFit

\* The instance of an execution that is to be started is fit.
LEMMA CreatedFit == \A e \in Execution : Created(e) \in FitTask /\ Created(e).seen = "QUEUEING"
BY ConstantTypes DEF Created, FitTask, Fit

\* The steps before process().
LEMMA AccountedPrepare ==
    ASSUME TypeOK, Accounted, NEW f \in Fibers,
           Timer(f) \/ Check(f) \/ Create(f) \/ Cache(f) \/ Lookup(f) \/ Found(f)
    PROVE  Accounted'
<1>1. /\ UNCHANGED <<jobs, abandoned>> /\ ~ Processing(f)
      /\ task[f].seen # "STARTED"
      /\ \A e \in Execution : status'[e] = "STARTED" => status[e] = "STARTED"
  BY AccountedTypes
  DEF Timer, Check, Create, Cache, Lookup, Found, Processing, rows, TypeOK, Updated, NoTask
<1>2. Fits(f) /\ Handed(f, pending)
  <2>1. ASSUME NEW s \in Steps, NEW v, NEW t \in FitTask \cup {NoTask}, Goto(f, s, v, t),
               /\ s \in {"idle", "timer", "check", "create", "query"} => t = NoTask
               /\ s \in {"created", "found", "mark"} => t.seen = "QUEUEING"
               /\ s = "run" => t.seen # "QUEUEING",
               UNCHANGED pending
        PROVE  Fits(f) /\ Handed(f, pending)
    BY <2>1, GotoFit, AccountedTypes DEF Handed
  <2>2. CASE Timer(f)
    <3>1. PICK s \in {"check", "create", "idle"}, v \in {Head(events), NoEvent} :
             Goto(f, s, v, NoTask)
      BY <2>2 DEF Timer, TakeEvent
    <3>. QED BY <2>2, <3>1, <2>1 DEF Timer, Steps
  <2>3. CASE Check(f)
    <3>1. CASE AfterPrepare(f, pending)
      BY <3>1, AfterPrepareFit, AccountedTypes
    <3>2. CASE Goto(f, "create", event[f], NoTask) /\ UNCHANGED memory
      BY <3>2, <2>1 DEF memory, Steps
    <3>. QED BY <2>3, <3>1, <3>2 DEF Check
  <2>4. CASE Create(f)
    <3>1. PICK e \in Execution : Goto(f, "created", NoEvent, Created(e))
      BY <2>4 DEF Create
    <3>. QED BY <2>4, <3>1, <2>1, CreatedFit DEF Create, memory, Steps
  <2>5. CASE Cache(f)
    <3>. DEFINE queue == IF executing = Nothing /\ pending = <<>>
                         THEN <<task[f]>> ELSE pending
    <3>1. AfterPrepare(f, queue) /\ Holding(f)
      BY <2>5 DEF Cache, Holding
    <3>2. queue \in Seq(FitTask) /\ \A i \in DOMAIN pending : i \in DOMAIN queue /\ queue[i] = pending[i]
      BY <3>1, AccountedTypes
    <3>. HIDE DEF queue
    <3>. QED BY <3>1, <3>2, AfterPrepareFit, AccountedTypes DEF Handed
  <2>6. CASE Lookup(f)
    <3>1. \/ Goto(f, "idle", NoEvent, NoTask)
          \/ \E e \in Execution : Goto(f, "found", NoEvent, Created(e))
      BY <2>6 DEF Lookup, Queued
    <3>. QED BY <2>6, <3>1, <2>1, CreatedFit DEF Lookup, memory, Steps
  <2>7. CASE Found(f)
    <3>1. PICK s \in {"mark", "run"} : /\ Goto(f, s, NoEvent, task[f])
                                       /\ s = "run" => task[f].seen # "QUEUEING"
                                       /\ s = "mark" => task[f].seen = "QUEUEING"
      BY <2>7 DEF Found, Process
    <3>2. task[f] \in FitTask /\ UNCHANGED pending
      BY <2>7, AccountedTypes DEF Found, Holding
    <3>. QED BY <3>1, <3>2, <2>1 DEF Steps
  <2>. QED BY <2>2, <2>3, <2>4, <2>5, <2>6, <2>7
<1>. QED BY <1>1, <1>2, AccountedStep DEF Starting

\* process() keeps the execution that it starts alive.
LEMMA AccountedMark ==
    ASSUME TypeOK, Accounted, NEW f \in Fibers, Mark(f)
    PROVE  Accounted'
<1>. DEFINE t == [task[f] EXCEPT !.seen = "STARTED"]
<1>1. task[f] \in FitTask /\ task[f].seen = "QUEUEING" /\ step[f] = "mark"
  BY AccountedTypes DEF Mark, Holding, Updated
<1>2. /\ t \in FitTask /\ t.exec = task[f].exec /\ t.job = task[f].job /\ t.seen = "STARTED"
      /\ t.job # NoJob => t.exec \in abandoned
  BY <1>1 DEF FitTask, Fit, Task, Status
<1>. HIDE DEF t
<1>3. Goto(f, "run", NoEvent, t) /\ UNCHANGED <<pending, jobs, abandoned>>
  BY DEF Mark, memory, t
<1>4. Fits(f) /\ Handed(f, pending) /\ step'[f] = "run" /\ task'[f] = t
  BY <1>2, <1>3, GotoFit, AccountedTypes DEF Handed
<1>5. ASSUME NEW e \in Execution, status'[e] = "STARTED"
      PROVE  status[e] = "STARTED" \/ Alive(e)'
  <2>1. CASE e = task[f].exec
    BY <1>2, <1>3, <1>4, <2>1 DEF Alive, Starting, Processing
  <2>2. CASE e # task[f].exec
    BY <1>5, <2>2 DEF Mark, TypeOK
  <2>. QED BY <2>1, <2>2
<1>. QED BY <1>1, <1>2, <1>3, <1>4, <1>5, AccountedStep DEF Starting, Processing

\* What the ends of process() leave as it was: the other calls, the queue, and
\* what they owe to other jobs and executions.
LEMMA AccountedEnd ==
    ASSUME TypeOK, Accounted, NEW f \in Fibers, step[f] = "run",
           Dispatch(f, Nothing, pending),
           abandoned \subseteq abandoned',
           \A j \in Jobs : owner[j] # Nothing => owner'[j] = owner[j]
    PROVE  /\ TasksFit'
           /\ task[f] \in FitTask /\ task[f].exec \in Execution
           /\ task[f].job # NoJob => owner[task[f].job] = task[f].exec
           /\ \A j \in Jobs \ {task[f].job} : InMemory(j) => InMemory(j)'
           /\ \A g \in Fibers, e \in Execution \ {task[f].exec} :
                 Starting(g, e) => Starting(g, e)'
<1>1. Fits(f) /\ Handed(f, pending) /\ OthersStay(f)
  BY DispatchFit, AccountedTypes DEF Fits
<1>2. TasksFit'
  BY <1>1, TasksFitKept DEF Accounted
<1>3. task[f] \in FitTask
  BY AccountedTypes DEF Holding
<1>4. \A j \in Jobs \ {task[f].job} : InMemory(j) => InMemory(j)'
  BY <1>1, MemoryKept
<1>5. \A g \in Fibers, e \in Execution \ {task[f].exec} :
         Starting(g, e) => Starting(g, e)'
  BY <1>1 DEF OthersStay, Starting, Processing
<1>. QED BY <1>2, <1>3, <1>4, <1>5 DEF FitTask, Fit, Task

\* The processor ends its execution.
LEMMA AccountedFinish ==
    ASSUME TypeOK, Accounted, NEW f \in Fibers, Finish(f)
    PROVE  Accounted'
<1>. DEFINE e0 == task[f].exec
            j0 == task[f].job
<1>1. /\ step[f] = "run" /\ Dispatch(f, Nothing, pending)
      /\ status' = [status EXCEPT ![e0] = "ENDED"]
      /\ open' = open \ {j0} /\ waiting' = waiting \ {j0}
      /\ UNCHANGED <<owner, abandoned>>
  BY DEF Finish, EndProcess
<1>2. /\ TasksFit'
      /\ e0 \in Execution /\ (j0 # NoJob => owner[j0] = e0)
      /\ \A j \in Jobs \ {j0} : InMemory(j) => InMemory(j)'
      /\ \A g \in Fibers, e \in Execution \ {e0} : Starting(g, e) => Starting(g, e)'
  BY <1>1, AccountedEnd
<1>3. JobsCovered'
  BY <1>1, <1>2 DEF Accounted, JobsCovered, Covered, Owed, TypeOK
<1>4. ASSUME NEW e \in Execution, status'[e] = "STARTED" PROVE Alive(e)'
  <2>1. e # e0 /\ status[e] = "STARTED"
    BY <1>1, <1>2, <1>4 DEF TypeOK
  <2>2. Alive(e)
    BY <2>1 DEF Accounted, StartedAlive
  <2>3. \A j \in open : owner[j] = e => j # j0
    BY <1>2, <2>1, ConstantsAssumption DEF TypeOK
  <2>. QED BY <1>1, <1>2, <2>1, <2>2, <2>3 DEF Alive
<1>. QED BY <1>2, <1>3, <1>4 DEF Accounted, StartedAlive

\* The processor stops: the jobs it leaves are waited for, or its execution is
\* known to be lost.
LEMMA AccountedSuspend ==
    ASSUME TypeOK, Accounted, NEW f \in Fibers, Suspend(f)
    PROVE  Accounted'
<1>. DEFINE e0 == task[f].exec
            j0 == task[f].job
<1>1. step[f] = "run" /\ Dispatch(f, Nothing, pending)
  BY DEF Suspend, EndProcess
<1>2. PICK made, kept, asked \in SUBSET Jobs :
         /\ asked \subseteq made /\ kept \subseteq {j0}
         /\ \A j \in made : owner[j] = Nothing
         /\ owner' = [j \in Jobs |-> IF j \in made THEN e0 ELSE owner[j]]
         /\ open' = (open \ {j0}) \cup made \cup kept
         /\ waiting' = (waiting \ {j0}) \cup asked \cup kept
         /\ abandoned' \in {abandoned, abandoned \cup {e0}}
         /\ \/ e0 \in abandoned'
            \/ made = asked /\ \E j \in open' : owner'[j] = e0
         /\ UNCHANGED status
  BY SuspendEffect
<1>3. abandoned \subseteq abandoned' /\ \A j \in Jobs : owner[j] # Nothing => owner'[j] = owner[j]
  BY <1>2
<1>4. /\ TasksFit'
      /\ e0 \in Execution /\ (j0 # NoJob => owner[j0] = e0)
      /\ \A j \in Jobs \ {j0} : InMemory(j) => InMemory(j)'
      /\ \A g \in Fibers, e \in Execution \ {e0} : Starting(g, e) => Starting(g, e)'
  BY <1>1, <1>3, AccountedEnd
<1>5. ASSUME NEW j \in open' PROVE (owner[j] # Nothing /\ Covered(j))'
  <2>1. CASE j \in made
    <3>1. owner'[j] = e0
      BY <1>2, <2>1
    <3>2. j \in waiting' \/ e0 \in abandoned'
      BY <1>2, <2>1
    <3>. QED BY <1>4, <3>1, <3>2 DEF Covered, Owed, Execution, Nothing
  <2>2. CASE j \in kept /\ j \notin made
    <3>1. owner'[j] = e0 /\ j \in waiting'
      BY <1>2, <1>4, <2>2, ConstantsAssumption
    <3>. QED BY <1>4, <3>1 DEF Covered, Owed, Execution, Nothing
  <2>3. CASE j \in open \ {j0}
    <3>1. owner[j] # Nothing /\ Covered(j) /\ j \in Jobs
      BY <2>3 DEF Accounted, JobsCovered, TypeOK
    <3>2. owner'[j] = owner[j] /\ (j \in waiting => j \in waiting')
      BY <1>2, <1>3, <2>3, <3>1
    <3>. QED BY <1>3, <1>4, <2>3, <3>1, <3>2 DEF Covered, Owed
  <2>. QED BY <1>2, <1>5, <2>1, <2>2, <2>3
<1>6. ASSUME NEW e \in Execution, status'[e] = "STARTED" PROVE Alive(e)'
  <2>1. CASE e = e0
    BY <1>2, <2>1 DEF Alive
  <2>2. CASE e # e0
    <3>1. Alive(e)
      BY <1>2, <1>6 DEF Accounted, StartedAlive
    <3>2. \A j \in open : owner[j] = e => j \in open' /\ owner'[j] = e
      BY <1>2, <1>3, <1>4, <2>2, ConstantsAssumption DEF TypeOK, Execution, Nothing
    <3>. QED BY <1>3, <1>4, <2>2, <3>1, <3>2 DEF Alive
  <2>. QED BY <2>1, <2>2
<1>. QED BY <1>4, <1>5, <1>6 DEF Accounted, StartedAlive, JobsCovered

\* The processor throws: its execution is known to be lost.
LEMMA AccountedThrow ==
    ASSUME TypeOK, Accounted, NEW f \in Fibers, Throw(f)
    PROVE  Accounted'
<1>. DEFINE e0 == task[f].exec
            j0 == task[f].job
<1>1. /\ step[f] = "run" /\ Dispatch(f, Nothing, pending)
      /\ abandoned' = abandoned \cup {e0}
      /\ UNCHANGED <<status, owner, open, waiting>>
  BY DEF Throw, EndProcess, jobs
<1>2. /\ TasksFit'
      /\ e0 \in Execution /\ (j0 # NoJob => owner[j0] = e0)
      /\ \A j \in Jobs \ {j0} : InMemory(j) => InMemory(j)'
      /\ \A g \in Fibers, e \in Execution \ {e0} : Starting(g, e) => Starting(g, e)'
  BY <1>1, AccountedEnd
<1>3. JobsCovered'
  BY <1>1, <1>2, ConstantsAssumption DEF Accounted, JobsCovered, Covered, Owed, TypeOK
<1>4. ASSUME NEW e \in Execution, status'[e] = "STARTED" PROVE Alive(e)'
  BY <1>1, <1>2, <1>4 DEF Accounted, StartedAlive, Alive
<1>. QED BY <1>2, <1>3, <1>4 DEF Accounted, StartedAlive

\* Only resumptions are refused, of executions that are known to be lost.
LEMMA AccountedRefuse ==
    ASSUME TypeOK, Accounted, NEW f \in Fibers, Refuse(f)
    PROVE  Accounted'
<1>1. /\ step[f] = "run" /\ Dispatch(f, Nothing, pending)
      /\ task[f].seen # "STARTED"
      /\ UNCHANGED <<status, jobs, abandoned>>
  BY DEF Refuse, EndProcess
<1>2. Fits(f) /\ Handed(f, pending)
  BY <1>1, DispatchFit, AccountedTypes
<1>3. task[f].job # NoJob
  BY <1>1, AccountedTypes DEF Holding, Updated, FitTask, Fit
<1>. QED BY <1>1, <1>2, <1>3, AccountedStep DEF Starting

\* A resumption goes from who owes it to the call that reads the execution.
LEMMA AccountedFetch ==
    ASSUME TypeOK, Accounted, NEW j \in Jobs, Fetch(j)
    PROVE  Accounted'
<1>. DEFINE e == owner[j]
            t == [exec |-> e, seen |-> status[e], job |-> j]
<1>1. PICK f \in Fibers : Idle(f) /\ Goto(f, "fetched", NoEvent, t)
  BY DEF Fetch
<1>2. /\ UNCHANGED <<pending, status, owner, open>>
      /\ waiting' \in {waiting, waiting \ {j}}
      /\ abandoned' = IF status[e] = "STARTED" THEN abandoned ELSE abandoned \cup {e}
      /\ e \in Execution
  BY DEF Fetch, memory, rows, TypeOK, Execution, Nothing
<1>3. step' = [step EXCEPT ![f] = "fetched"] /\ task' = [task EXCEPT ![f] = t]
  BY <1>1 DEF Goto
<1>4. FitTask \subseteq FitTask' /\ abandoned \subseteq abandoned'
  BY <1>2, FitStays
<1>5. t \in FitTask'
  BY <1>2, ConstantsAssumption DEF FitTask, Fit, Task, TypeOK
<1>6. TasksFit'
  <2>1. pending' \in Seq(FitTask')
    BY <1>2, <1>4 DEF Accounted, TasksFit
  <2>2. task' \in [Fibers -> FitTask' \cup {NoTask}]
    BY <1>3, <1>4, <1>5 DEF Accounted, TasksFit
  <2>3. \A g \in Fibers : Updated(g)'
    BY <1>3, AccountedTypes DEF Updated
  <2>. QED BY <2>1, <2>2, <2>3 DEF TasksFit
<1>7. \A k \in Jobs : InMemory(k) => InMemory(k)'
  <2>1. task[f] = NoTask
    BY <1>1, AccountedTypes DEF Idle, Updated
  <2>2. \A g \in Fibers : task[g].seen = "STARTED" => task'[g] = task[g]
    BY <1>3, <2>1, AccountedTypes DEF NoTask
  <2>. QED BY <1>2, <2>2 DEF InMemory
<1>8. Covered(j)'
  BY <1>2, <1>3, AccountedTypes DEF Covered, Owed, InMemory
<1>9. JobsCovered'
  <2>1. ASSUME NEW k \in open PROVE (owner[k] # Nothing /\ Covered(k))'
    <3>1. owner[k] # Nothing /\ Covered(k) /\ k \in Jobs
      BY <2>1 DEF Accounted, JobsCovered, TypeOK
    <3>. QED BY <1>2, <1>4, <1>7, <1>8, <3>1 DEF Covered, Owed
  <2>. QED BY <1>2, <2>1 DEF JobsCovered
<1>10. \A g \in Fibers, d \in Execution : Starting(g, d) => Starting(g, d)'
  BY <1>1, <1>3, AccountedTypes DEF Starting, Processing, Idle
<1>11. StartedAlive'
  BY <1>2, <1>4, <1>10 DEF Accounted, StartedAlive, Alive
<1>. QED BY <1>6, <1>9, <1>11 DEF Accounted

\* and from it to the queue, or to process() at once.
LEMMA AccountedResume ==
    ASSUME TypeOK, Accounted, NEW f \in Fibers, Resume(f)
    PROVE  Accounted'
<1>. DEFINE queue == Append(pending, task[f])
<1>1. /\ Dispatch(f, executing, queue) /\ step[f] = "fetched"
      /\ UNCHANGED <<status, abandoned, jobs>>
  BY DEF Resume, rows
<1>2. /\ queue \in Seq(FitTask)
      /\ \A i \in DOMAIN pending : i \in DOMAIN queue /\ queue[i] = pending[i]
      /\ Len(queue) \in DOMAIN queue /\ queue[Len(queue)] = task[f]
  BY <1>1, AccountedTypes DEF Holding
<1>. HIDE DEF queue
<1>3. Fits(f) /\ Handed(f, queue)
  BY <1>1, <1>2, DispatchFit, AccountedTypes
<1>4. Handed(f, pending)
  BY <1>2, <1>3 DEF Handed
<1>5. ASSUME NEW j \in Jobs, task[f].job = j, task[f].seen = "STARTED"
      PROVE  InMemory(j)'
  BY <1>2, <1>3, <1>5 DEF Handed, InMemory
<1>. QED BY <1>1, <1>3, <1>4, <1>5, AccountedStep DEF Starting, Processing

\* A restart loses what is in memory; the jobs that are not asked for again and
\* the starts that it interrupts are of executions known to be lost.
LEMMA AccountedRestart ==
    ASSUME TypeOK, Accounted, Restart
    PROVE  Accounted'
<1>1. PICK done \in SUBSET open :
         /\ open' = open \ done
         /\ waiting' \in SUBSET open'
         /\ abandoned' = abandoned \cup
               {e \in Execution : \/ \E j \in done \cup (open' \ waiting') : owner[j] = e
                                  \/ \E f \in Fibers : Starting(f, e)}
  BY DEF Restart
<1>2. /\ pending' = <<>> /\ task' = [f \in Fibers |-> NoTask]
      /\ UNCHANGED <<status, owner>>
      /\ \A f \in Fibers : step'[f] \in {"query", "idle"}
  BY DEF Restart, rows
<1>3. TasksFit'
  BY <1>2 DEF TasksFit, Updated
<1>4. JobsCovered'
  BY <1>1, <1>2 DEF Accounted, JobsCovered, Covered, Owed, TypeOK, Execution, Nothing
<1>5. StartedAlive'
  BY <1>1, <1>2 DEF Accounted, StartedAlive, Alive
<1>. QED BY <1>3, <1>4, <1>5 DEF Accounted

LEMMA AccountedNext == TypeOK /\ Accounted /\ [Next]_vars => Accounted'
<1>. SUFFICES ASSUME TypeOK, Accounted, [Next]_vars PROVE Accounted'
  OBVIOUS
<1>1. ASSUME NEW w \in Workflow, NEW p \in 0..MaxExecutions, Trigger(w, p)
      PROVE  Accounted'
  <2>1. UNCHANGED <<pending, status, jobs, abandoned>>
    BY <1>1 DEF Trigger, rows
  <2>2. CASE UNCHANGED calls
    BY <2>1, <2>2 DEF calls, jobs, Accounted, TasksFit, FitTask, Fit, Updated, JobsCovered,
       Covered, Owed, InMemory, StartedAlive, Alive, Starting, Processing
  <2>3. ASSUME NEW f \in Fibers, Idle(f), Goto(f, "timer", NoEvent, NoTask)
        PROVE  Accounted'
    <3>1. Fits(f) /\ Handed(f, pending)
      BY <2>1, <2>3, GotoFit, AccountedTypes DEF Handed
    <3>2. task[f].seen # "STARTED" /\ ~ Processing(f)
      BY <2>3, AccountedTypes DEF Idle, Updated, NoTask, Processing
    <3>. QED BY <2>1, <3>1, <3>2, AccountedStep DEF Starting
  <2>. QED BY <1>1, <2>2, <2>3 DEF Trigger
<1>2. ASSUME NEW f \in Fibers, Step(f) PROVE Accounted'
  BY <1>2, AccountedPrepare, AccountedMark, AccountedRefuse, AccountedFinish,
     AccountedSuspend, AccountedThrow, AccountedResume DEF Step
<1>3. ASSUME NEW j \in Jobs, Fetch(j) PROVE Accounted'
  BY <1>3, AccountedFetch
<1>4. CASE Restart
  BY <1>4, AccountedRestart
<1>5. CASE UNCHANGED vars
  BY <1>5 DEF vars, memory, calls, rows, jobs, Accounted, TasksFit, FitTask, Fit, Updated,
     JobsCovered, Covered, Owed, InMemory, StartedAlive, Alive, Starting, Processing
<1>. QED BY <1>1, <1>2, <1>3, <1>4, <1>5 DEF Next

LEMMA AccountedInit == Init => Accounted
<1>. SUFFICES ASSUME Init PROVE Accounted
  OBVIOUS
<1>1. \A f \in Fibers : step[f] \in {"query", "idle"}
  BY DEF Init
<1>2. \A e \in Execution : status[e] # "STARTED"
  BY DEF Init
<1>3. TasksFit
  BY <1>1 DEF Init, TasksFit, Updated
<1>. QED BY <1>2, <1>3 DEF Init, Accounted, JobsCovered, StartedAlive

\* A STARTED execution is never forgotten, for any number of calls in flight: it
\* is being started or has pending jobs, a resumption of each of which is owed
\* or on its way, unless it is one of those known to be lost.
THEOREM StartedAreOwned == Spec => []StartedIsOwned
BY AccountedIsOwned, TypeInit, TypeNext, AccountedInit, AccountedNext, PTL DEF Spec

=============================================================================
