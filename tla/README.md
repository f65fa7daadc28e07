# NocoBase in TLA+

NocoBase is a no-code platform: a Koa server built of plugins around a database
layer, and a React client. Most of its 3300 files are interface, configuration
and thin handlers over single rows. What is hard to get right by testing is
where several asynchronous calls share state, or where memory and redundant
columns have to follow rows through every operation. The specifications here
cover the five places where that is most so: the **workflow engine**
(`packages/plugins/workflow/src/server`) with the **revisions** of workflows and
the **schedule trigger**, the **storage of UI schemas**
(`packages/plugins/ui-schema-storage`), and the **grants of roles**
(`packages/plugins/acl`, `packages/core/acl`).

All code runs on one JavaScript thread. Code between two `await`s is atomic;
every `await` on the database, on a timer or on a request lets other calls run.
What was read before an `await` may be stale after it, and what was written in a
transaction is seen by others when it commits, whereas what its hooks wrote to
memory is seen at once and stays after a rollback. Those are the interleavings
that the models explore.

## The system

| Component | State it keeps | Operations | Talks to |
|---|---|---|---|
| Workflow dispatcher (`workflow/.../Plugin.ts`) | `events`, `pending`, `executing` in memory; table `executions` | `trigger`, `prepare`, `resume`, `dispatch`, `process` | triggers call `trigger`; timers, responses and users call `resume`; runs the processor |
| Workflow processor (`Processor.ts`, `instructions/`) | tables `jobs`, `executions.status`; the call stack of async functions | `start`, `resume`, `exec`, `run`, `recall`, `end`, `exit`; `run`/`resume` of each instruction | reads `flow_nodes`; writes `jobs`; its nodes may fire triggers |
| Flow node editing (`actions/nodes.ts`) | table `flow_nodes`: two redundant links and a branch index | `create`, `destroy`, `update` | guarded by `workflows.executed`, which the dispatcher writes |
| Manual tasks (`instructions/manual`) | table `users_jobs`, the job's status | `submit`, `resume` of the instruction | `plugin.resume` |
| Delay timers (`instructions/delay.ts`) | map of timers, pending jobs | `schedule`, `trigger`, `load`, `unload` | `plugin.resume` |
| Workflow revisions (`Plugin.ts` 26-154, `actions/workflows.ts`) | `workflows.enabled`, `current`, `key`, `config` | `onBeforeSave`, `toggle`, `update`, `revision`, `destroy` | the triggers' `on`, `off`, as hooks of a transaction |
| Collection trigger (`triggers/collection.ts`) | `events`: the listeners of each workflow in memory | `on`, `off`, the handler | the database's events; `plugin.trigger` |
| Schedule trigger (`triggers/schedule.ts`) | a cache of the workflows of the next minute, a timer | `init`, `run`, `onTick`, `reload`, `inspect`, `trigger`, `on`, `off` | reads `workflows`; `plugin.trigger` |
| Execution counters | `workflows.executed`, `allExecuted` | part of `prepare` | node editing, schedule limits |
| UI schema storage (`ui-schema-storage/src/repository.ts`) | tables `uiSchemas`, `uiSchemaTreePath` (closure table with depth, type and sort); a cache of schemas | `insert`, `insertNewSchema`, `insertAdjacent` (with wrap and removal of parents), `remove`, `clearAncestor`, `patch`, `getJsonSchema`, `getProperties` | menus and roles by hooks; the cache |
| ACL (`plugins/acl/src/server.ts`, its models, `core/acl`) | tables `roles`, `rolesResources`, `rolesResourcesActions`, scopes; the ACL in the memory of each process | save and destroy of each, hooks of collections and fields, `writeRolesToACL` | answers every request |
| Sort fields, `move` action | sort column by scope, a mutex | `beforeCreate`, `move`, `changeScope` | the database |
| Sub-applications | `AppManager.applications` | `getApplication`, `createApplication`, `removeApplication` | a hook of multi-app-manager |
| Application and plugins | plugin instances, table `applicationPlugins` | `load`, `start`, `stop`, `reload`, `enable`, `disable`, `remove` | everything |

The others (database core, resourcer, collection manager, users, files, field
types, client, tools) are listed in `PROJECT.json` with the reason why each is
left out: mostly that it keeps no state between requests, that its logic is SQL
text, or that it is I/O.

What makes each component correct, and the hazard behind it:

* **dispatcher**: whatever is queued is handled by some call in flight; an
  execution is started once; it is not resumed after its end; `executing` is not
  left set. Several dispatch calls overlap, and a stop loses the memory.
* **processor**: a run comes to an end and leaves something to resume; a join
  waits for the branches it should, in whatever order they end; a node runs once.
* **node editing**: the links agree in both directions, with one head, one start
  of each branch, no cycle, through any series of edits; nodes that are not
  edited keep their place. Two editors and the dispatcher race.
* **manual tasks**: every answer is counted, the job is decided neither early nor
  twice. Answers race one another and the resumptions.
* **revisions**: one current version of a workflow, whose listeners are on exactly
  when it is enabled, with the configuration it has now. The hooks of a
  transaction write memory, `prepare()` runs them on rows it read before.
* **schedule trigger**: a run is neither missed nor repeated beyond the limit,
  although each tick looks only at the cache of the last full minute.
* **UI schemas**: the closure table stays that of a forest, each node is where
  the request put it, the others keep their order, and the cache is not older
  than the tables. One operation is a series of SQL statements on ranges of rows.
* **ACL**: the memory says what the tables say, and at no moment of a request
  more than the tables before or after it.
* **sort fields**: values in a scope are distinct, and a move keeps the order of
  the others.
* **sub-applications, plugins**: one instance per name; a reload ends with the
  plugins of the table loaded.

## The modules

| Module | What it is |
|---|---|
| `WorkflowDispatcher` | the queue of executions, one action per piece of code between two awaits |
| `FlowProcessor` | the processor and its instructions on one execution |
| `FlowNodes` | the edits of the nodes of one workflow |
| `ManualTask` | one job of a manual node with its users |
| `WorkflowRevision` | the versions of workflows and the listeners of the collection trigger |
| `ScheduleTrigger` | the tick, the minute's cache and the limit |
| `UiSchemaTree` | the storage of UI schemas: closure table and places |
| `UiSchemaCache` | the cache of UI schemas, around the operations of `UiSchemaTree` |
| `SchemaForest` | the abstract forest that `UiSchemaTree` implements |
| `RoleGrants` | the configuration of roles and the ACL in memory |
| `...Proofs` | the theorems about the module they are named for |
| `MC...` | instances for TLC |

`UiSchemaTree` instantiates `SchemaForest` with a refinement mapping, and
`UiSchemaCache` extends it with a cache and with transactions of several steps; each
`...Proofs` extends its module. The mutants that each property is tried against are
operators of the modules, right before the definition they replace
(`\* mutant of ...`).

### WorkflowDispatcher

A *fiber* is one chain of continuations: the timer callback that runs
`prepare()`, an un-awaited `dispatch()`, a request that calls `resume()`.
`step[f]` is the await it stands at:

| step | the fiber waits for | code |
|---|---|---|
| `timer` | `setTimeout(this.prepare)` | 171 |
| `check` | `countExecutions` of an event raised by an execution | 184 |
| `create` | the transaction that creates the execution | 199 |
| `created` | the rest of `prepare()` | 239 |
| `fetched` | the rest of `resume()`, after `job.getExecution()` | 256 |
| `query` | `findOne` of a QUEUEING execution | 270 |
| `found` | the rest of `dispatch()` | 276 |
| `mark` | `execution.update({ status: STARTED })` | 289 |
| `run` | the processor | 297 |

`Dispatch` and `AfterPrepare` are the synchronous parts that several actions end
with. A fiber that dispatches goes on as the process call it makes, since
`dispatch()` does nothing after it. `task[f]` holds the execution instance, with
the status that *the instance* says (`seen`), which `start()` and `resume()` test;
`status` is the table. The processor is four outcomes: `Refuse`, `Finish`,
`Suspend`, `Throw`. `Restart` is a stop at any point: a failing query in an
un-awaited call also ends the Node process, and is the same. A queueing
execution is one whose row has committed: `Create` is the transaction.

`owner` and `open` are the jobs that runs leave PENDING, with the execution of each;
`waiting` are those that a timer, a response or a user is still to resume. `Suspend`
leaves any jobs, or none, and asks anybody or nobody for them: nothing in it says that
the execution can go on. Instead, the executions that are known to have lost what
would resume them are listed in `abandoned`, which no action tests. There are five
ways to get there:

* the processor threw, and the execution stays as it was (Plugin.ts:298);
* its first run left no job pending, or a later one left none of its jobs
  pending, and the execution is STARTED nevertheless: a parallel node without
  branches (parallel.ts:66-84), whose own job nobody resumes;
* a task is assigned to nobody (manual/index.ts:121);
* the process stopped while it was started, or while a response or a decision for
  one of its jobs was in memory only;
* a resumption read the execution when it was not STARTED (`Fetch`), so that
  the processor refuses it.

`StartedIsOwned` is about all others: their start is in progress or they have pending
jobs, and each of those is in `waiting` or on its way through `resume()`, `pending` and
`dispatch()`.

### FlowProcessor

The code is async functions that call one another. `control` is the call being
made or the value being returned; `stack` the calls that do something with the
value when it comes back: `exec` (saves the job and goes on), `end` (returns its
own job), and the loop of a parallel node's `run`. One workflow execution is
sequential, so the nondeterminism is what the instructions answer, and which
pending job is resumed next. A resumption may be processed long after it was asked for
(`ResumeStale`): `resume()` tests the status of the instance of the execution that the
request read (`seen`), and a manual node decides on the instance of the job. So an
execution that ended goes on, and a manual job that ended is decided once more
(`Recounted`); `stale` lists such resumptions. Every failing status is one; `simple` stands for
calculation, query, create, update and destroy, which end at once with a result
or an exception. A job keeps its node, status, upstream job and the statuses of
the branches (or the truth value of a condition).

A workflow is any sequence of nodes that is `WellFormed`, which is what its editors
leave (`FlowNodesProofs!OneEditorKeepsTree`) and the canvas offers: walking up ends,
the downstream of a node hangs below it and in no branch of it, branches start below
conditions and parallel nodes only, and once for each `branchIndex`. The walks up the nodes and the jobs (`findBranchParentNode`,
`findBranchStartNode`, `findBranchParentJob`) are recursive functions.

### FlowNodes

`upstream`, `downstream` and `branch` are the columns, for ids that exist
(`live`). A request is two steps: `Open...` reads what its transaction reads
first, `Commit...` applies what it writes. The database shows neither to others
in between, which is what MySQL and PostgreSQL do by default; reads that a
transaction makes after its first writes are taken with the first ones. SQLite
allows one writer at a time, and one editor covers it. `BranchNodes` is the
recursion of `searchBranchNodes` as the least set closed under it. `OpenCreate` takes
the requests that the canvas sends (`client/AddButton.tsx:37-47`): a node before the
first one has no branch, and the links are not given. The handler itself checks neither
(nodes.ts:26), so that a request made by hand can leave other links. The rows are
deleted with `SET NULL` on what refers to them
(`core/database/src/features/referential-integrity-check.ts`); there is no
constraint in the database.

### ManualTask

`submit()` is `Submit` (the reads and the validation), `Commit`, `Fetch` and
`Push` (`plugin.resume`); the dispatcher is reduced to a queue that is served one
at a time, and the processor to `Decide` (the count, outside of its transaction)
and `Save`. Each resumption carries the job instance of its own request, which
said PENDING, so that a resumption decides whatever others decided before it.
The single mode takes the first status the database lists: `Decisions` is a set.

### WorkflowRevision

`workflow` is the table; `listeners` the `events` map of the collection trigger,
as pairs of a version and an event of a collection (`Hook`); `On` removes the
events of the same collections first, as `bindHook()` does, `Off` removes those of
the configuration it is given. A request is one step with its hooks: what
`onBeforeSave` does to the previous current version and what `toggle` does to the
listeners happen inside of the transaction, and `Commit` lets it commit or roll
back, after which the rows are as they were and the listeners are not (`failed`).
`update()` with a configuration is checked outside of its transaction, so `Check`
and `Configure`, which picks the configuration, are two steps; it may enable or disable the workflow in the same save
(`Enabling`), and `Switch` is one that does only this. `Saved` is `toggle()` after the
save: the previous configuration is taken away only when the version is enabled
now, so that one which is disabled with a new configuration keeps the old
listeners (`leftover`). `prepare()` is two: `Prepare` counts and reads the
versions of the key, `Count` runs the hooks of the update on *what was read*
(`toggle` of each) and commits. `Concurrent` says whether other requests may run
between the two; SQLite has one connection, so they wait there. The other requests are one step
each: `destroy()` and `revision()` read before they write, and what two of them do
to one another when they overlap is not modelled.
`Restart` is `beforeStop` and `beforeStart`: what is enabled is toggled on.

### ScheduleTrigger

Time is counted in seconds. `Tick` is `run()`: it triggers what is in `cache` and
matches (`onTick`), and at a full minute sends the query of `reload()`, whose
answer is `Reload`. `Upcoming`, `Matches` and `MatchNext` are `shouldCache` and
`trigger` of the constant mode and of the rules for cron expressions and limits,
with the arithmetic of the code (the remainder of JavaScript included).
`events[w]` are executions that were triggered and not created; `Execute` is
`prepare()`, whose update of the counter runs `toggle` and so `on()`, which
inspects the workflow again. `LateTick` is a timer that is up to `Late` seconds behind:
the seconds in between are skipped, and with a full minute its reload (`behind`). A
restart takes up to `Late` seconds, which covers the comment that "jobs in 2 seconds
will be missed at first start" (schedule.ts:432). `Slow` lets a query or an execution take longer than
a second. `raced` remembers what was toggled while the query that filled the cache
was on its way.

### UiSchemaTree and SchemaForest

`path` is the table `uiSchemaTreePath` as rows of ancestor, descendant and depth;
`type` and `sort` the columns of the row `(u, u)` and of the row of depth 1.
`Cut`, `Hung`, `Pruned` and `WithNew` are the SQL statements that delete and insert
rows, `MadeRoom` the update of the siblings' sort values, `Placed` the whole of
`insertSingleNode()` for a node that exists, `Grown` that of `insertNewSchema()`.
One operation is one transaction and one step: `InsertAdjacent` and
`InsertWrapped` put those together in the order of the code, with the removal of
the parents that are left empty (`Emptied`: `recursivelyRemoveIfNoChildren` and
`breakRemoveOn`) between the moves. New schemas (`NewSchemas`) are all trees of up
to `MaxNew` nodes with keys and places, as `schemaToSingleNodes` yields them; the
content of a schema is not told from another's.

`SchemaForest` knows only the parent of each node: a step is `Place` (one node
gets a parent, others stay, a line of nodes may go) or `Remove` (one subtree
goes). `Forest == INSTANCE SchemaForest WITH parent <- ...` reads the parents from
the rows of depth 1.

### UiSchemaCache

The tables of `UiSchemaTree` are what the transaction sees that runs; `transaction.shown`
are the nodes that readers see until it commits. An operation is then three steps:
`Run` (what it clears first, and what it writes), `ClearPlaced` (what `insertAdjacent()`
and `insertNewSchema()` clear at their end, still before the commit) and
`CommitTransaction`. `Cleared` are the uids that the first part deletes: the path of
the node, but not of one that the request names by its uid alone and that has nothing
under it, for which repository.ts:665 clears `undefined` and lines 925-935 nothing. A
read is two steps, `Query` and `Fill`, of what is committed. What `cache` holds of a
uid is said by `entry`: `fresh` is what is committed, and every other kind names how
it came to be out of date:

* `early` and `late`: it was read while a transaction ran, after that had cleared
  it, or filled after the commit;
* `below`: its node was patched through a node above;
* `moved`: a leaf under it was moved by its uid;
* `stale`: anything else, which `CacheIsFresh` excludes.

### RoleGrants

`resources` are the rows of `rolesResources` with their actions, by role and
collection; `acl` is the memory: of each role the resources (a collection, or an
association of it) and the parameters of each action. A request is a
transaction of several steps, since hooks are awaited one by one and other
requests are answered in between: `Begin` changes the rows and says which
resources its hooks write (`todo`); `Write` is `writeToACL()` of a resource, which
revokes it, `Place` puts it in the ACL again without an action, and `Grant` grants
its actions one by one (with the associations that an action brings); `Commit` ends it, `Rollback` puts the rows back and not the ACL.
`before` are the rows that others see. `Revoked` deletes by name as the code does
(`key.includes`), so that a collection whose name ends with another's loses its
associations (`Exposed`). `EditScope` has no hook; the filter stays as it was until
the resource is written again (`outdated`). `Reload` is `writeRolesToACL()`.

What a request may do is `Allowed`, which is `can()`: for a resource that the ACL has,
the actions it has, and for another one what the `Strategy` of the role says. `Decides`
is the same of the rows. So a resource that is revoked is not closed: until `Place` the
strategy answers for it, and may allow what neither configuration does. `NothingExtra`
says that this is all (`Unwritten`). A field's row and its presence in memory are
one step: `writeToACL()` of an action skips fields that are not loaded
(RoleResourceActionModel.ts:46-50).

## What is checked

| Run | Shows |
|---|---|
| `dispatcher` | nothing queued is stranded, `executing` is always some call's, a STARTED execution is being started or has pending jobs that somebody is to resume (but for `abandoned`) |
| `dispatcher_live` | also after a stop at any point, STARTED executions are still owed what they wait for; every QUEUEING one is started in the end; both queues drain again and again |
| `processor` | for every shape of workflow: each run ends, leaves something to resume, and changes no job that ended but a manual one that is answered again, also with instances out of date; a parallel job's entries are the last statuses of its branches; mode all waits for all |
| `nodes` | one request at a time, the nodes stay a tree linked both ways in which each has one place, and what stays keeps its order |
| `manual` | the answers that decide are counted and decide in the end; mode all needs all |
| `revisions` | exactly one version is current and no other enabled; the listeners are those of the enabled versions with their present configurations (but for `leftover`) |
| `schedule` | no run is missed in a second that has a tick, none exceeds the limit, what is disabled is not cached |
| `ui_schema` | the closure table is that of a forest, siblings have different places, a node is put where the request said, the others keep their order, and the tables implement `SchemaForest` |
| `ui_cache` | no operation leaves an entry out of date that was read while no transaction ran, but for `below` and `moved` |
| `role_grants` | after each request the ACL decides what the tables and the strategy decide; during it, nothing that neither the rows before nor after decide, but for what the strategy answers while a resource is written |

Two runs are expected to fail. Each shows a disagreement of the code with its own
words (quoted in `PROJECT.json`, `findings`):

| Run | Property | What happens |
|---|---|---|
| `dispatcher_twice` | `StartedOnce` | the execution that `prepare()` caches is also found by a query in flight |
| `revisions_overlap` | `ListenersAgree` | the hooks of `prepare()` turn on again a version that was disabled after `prepare()` read it |

### Smaller disagreements

The models contain them (their actions do what the code does) and no run states
them; each was seen in a counterexample of a stronger property, or is a case that
a property names as its exception.

Workflows:

* two resumptions of an execution are queued, the first ends it, and the second is
  processed with the instance that says STARTED (Plugin.ts:251-257): the "execution was
  ended with status" of Processor.ts:120 is not thrown (`ResumeStale`; in
  `WorkflowDispatcher` the `seen` of a resumption);
* a workflow is disabled in the save that changes its configuration; `toggle()` takes
  away the listeners of the new one, and those of the old one stay (`leftover`, the
  exception of `ListenersAgree`);
* a manual job that ended is decided once more by an answer that was queued before
  (`Recounted`, the exception of `EndedJobsStay`), and what comes after it runs again;
* two calls of `dispatch()` that await their query together process two executions
  at a time (Plugin.ts:261-281), where the release notes speak of "queue
  execution"; `ExecutingIsProcessed` says what stays true of `executing` then;
* the downstream of a condition runs for `run()` and again for `resume()`
  (`OneJobPerNode`); `Boolean(null) === false`, so a condition that is false runs
  its downstream in place of the branch when the downstream was created first
  (condition.ts:153);
* the downstream of a parallel node is pending, `run()` comes back and resolves
  the execution (`ResolvedIsDone`); in a branch of another parallel node, it passes
  the branch on as resolved, so that the outer one may go on while what comes after
  the inner one is pending, where the tooltip of its mode says "Continue after all
  branches succeeded" (client/nodes/parallel.tsx:30): `Overtaken`, the exception of
  `JoinWaits`; a parallel node with no node in its branches
  stays pending for ever (parallel.ts:66-84), the exception `Branchless` of
  `SuspendedCanResume`;
* a request's job has no upstream job (`BranchJobHasParent`);
* two requests that insert at one place break the links (`LinksAgree` with two
  editors), and a node can be changed after the first execution when the execution
  is created between the check and the commit (nodes.ts:13);
* two answers of one job may be in before the first is counted, and both resolve
  it (`ContinuesOnce`); two submissions of one user that are open at once both
  pass the validation (manual/actions.ts:36); a user who is assigned twice has one
  task and counts as two (manual/index.ts:46, 121): modes all and any may stay
  pending;
* the configuration of a version can be updated after its first execution: the
  check is outside of the transaction (workflows.ts:12);
* a rollback leaves the listeners that its hooks wrote (`failed`);
* `off()` returns without removing anything when its collection is gone
  (collection.ts:112), and a trigger inside a transaction that rolls back is not
  taken back (collection.ts:73).

Schedule:

* when a query or an execution takes longer than a second (`Slow`), two ticks use
  the same counter and the limit is exceeded;
* the first run of a repetition given as a number is not cached before its start
  (schedule.ts:55), so it is missed; `Due` leaves it out;
* a timer that is late skips the seconds in between, and with a full minute the
  reload: the cache then lasts a minute longer than it was made for (`behind`);
* the timer is cleared and not set to null (schedule.ts:413), so that an
  application that is started again in the same process does not tick.

UI schemas:

* `insertAdjacent()` of a node that exists takes its uid as a string, of which
  `schema['x-uid']` is undefined: a leaf is moved, and the cached schemas of the nodes it
  was in keep it (`moved`), where the comment says "if schema is existed then clear
  origin path schema cache" (repository.ts:664);
* a read that began before an operation fills the cache after it, and one that falls
  between the clearing and the commit gets the old rows (`late`); a patch of a
  node above leaves the entries of the nodes below (`below`);
* the cache keeps what a node had when its row is destroyed by the generic repository,
  which a test asserts (ui-schema-repository-with-cache.test.ts:97-106, 130-139);
* when the target of a wrapped insert is removed with the empty parents, the wrap
  becomes a root (`Placed` without a parent);
* `updateNode()` reads outside of its transaction (repository.ts:376).

ACL:

* `can()` returns null for an action that is not granted when the role has the
  resource, and does not ask the strategy, where the documentation says that it does
  (docs/en-US/api/acl/acl.md:143);
* while a resource is revoked and written again, the strategy of the role answers for
  it (`Unwritten`, the exception of `NothingExtra`);
* an edit of a scope writes nothing to the memory: grants keep the old filter
  until they are written again (`outdated`);
* a rollback leaves the ACL that its hooks wrote (`failed`);
* `revokeResource()` deletes by a part of the name: the associations of a
  collection whose name ends with another's are lost with it (`Exposed`).

### Bounds

* `dispatcher`: 3 calls in flight, 2 workflows, 2 executions, 2 triggers, 2 jobs, 2
  resumptions. Three fibers let one process while two others overlap in `prepare()`
  and `dispatch()`; two workflows let an execution trigger the other one; two jobs and two
  resumptions let two resumptions of one execution queue, of one job or of two. Fibers
  and jobs are symmetric. The safety properties are also proved without bounds.
  `dispatcher_live` has 2 fibers, 1 job that is resumed twice, a restart at any point
  and no symmetry.
* `processor`: the workflows are sequences, conditions (with and without
  branches, and created after their downstream), parallel nodes of each mode, and
  each of both inside the other, with every kind of node as the leaves (up to 6
  nodes and two levels of branches). One level more repeats what
  `findBranchParentNode` does at each level. The number of jobs is bounded by the
  flow and by the resumptions with instances out of date, of which there is one
  (`MaxStale`): it can fall at any point between two runs, and with two the properties
  held as well, in twice the time. `SuspendedCanResume` is checked with them and proved
  as long as there is none. `ResultsAgree` and `JoinWaits` are about parallel jobs whose branches are
  `Orderly`: no node in them ran twice and each job leads up to the parallel job.
  `JoinWaits` is about the moment at which the downstream is run, and leaves out the
  one at which a parallel node in a branch is `Overtaken`, which a flow of six nodes
  reaches.
* `nodes`: 5 nodes ever, two branch indexes: a node with a branch that has a
  branch and a node after it. The proofs have no bounds.
* `manual`: 3 users, one submission each at a time, 3 resumptions ever: all three
  answers can be in flight, and an answer that is only a draft (PENDING is a
  status the interface offers) is submitted again.
* `revisions`: 3 versions, 2 keys, one collection with one event, two configurations,
  one queued event, transactions one at a time: a current version, a revision and
  another workflow. Versions and keys are symmetric. Configurations that share some of
  their events are left to the theorem `ListenersOfEnabled`, which is about all.
  `revisions_overlap` has 2 versions and `Concurrent`.
* `schedule`: one workflow (workflows share only the clock and the query), minutes
  of 3 seconds over 3 minutes, 3 toggles or restarts, and configurations with
  starts, ends, limits, repetitions below, at and above a minute and cron
  expressions. A tick or a restart is up to 2 seconds late (`Late`), so that a full minute can be
  skipped together with the seconds around it. `Slow` is FALSE there.
* `ui_schema`: 4 uids, schemas of up to 2 nodes, two types. Four is the
  least with which a node is wrapped while its empty parent is removed. The uids
  are symmetric. `ui_cache`: 3 uids, one type and one entry at a time: entries do not
  influence one another, and their keys do not matter to what is cleared.
* `role_grants`: one role (roles share nothing but the collections), two
  collections whose names end alike, two fields of which one is an association,
  three actions of which two bring associations, one scope edited once, five
  configurations, of which some have less and some have more than the strategy, which
  allows two of the actions.
* Runs without deadlock checking may stop: the bounds are used up, or an
  execution ended.

### Fairness

* `WorkflowDispatcher!FairSpec`: weak fairness of each fiber's `Step`. The event
  loop runs a continuation when its promise is settled, and the database answers.
  Nothing makes a trigger, a timer, a user or a response come (`Trigger`,
  `Fetch`), nor a restart.
* `FlowProcessor!FairSpec`: weak fairness of the processor's `Step`, for the same
  reason; nobody has to resume a job.
* `ManualTask!FairSpec`: weak fairness of each request from its commit on and of
  the dispatcher; nobody has to submit.

The other modules state no liveness: nothing in them has to happen.

## What is proved

From the assumptions on the constants alone, for any number of fibers, workflows,
executions, editors, nodes, versions, collections and schemas:

* `WorkflowDispatcherProofs!TypeCorrect`: `Spec => []TypeOK`, by one lemma for
  each action.
* `WorkflowDispatcherProofs!StrandedInvariant`: the four guarantees
  `NoStrandedEvent`, `NoStrandedExecution`, `NoStrandedResumption` and
  `ExecutingIsProcessed` together are inductive (with `TypeOK`). None is alone:
  that the queue is handed on rests on the fiber that `executing` names still
  being there, and that fiber's end rests on the queue being looked at. The
  argument: a `dispatch()` that returns early leaves its work to the fiber that
  processes `executing`; the end of that fiber takes the head of `pending` or
  looks the table up; and an overlapping `process()` that resets `executing` makes
  itself the one that dispatches. The four follow as theorems of their own.
* `WorkflowDispatcherProofs!NeverItself` (`NoSelfTrigger`, which no run checks) and `StartedAreOwned`
  (`StartedIsOwned`). Both rest on `MemoryRefersToRows`: what the queue, a call or a
  suspended node refers to has a row. `NoSelfTrigger` then follows from what the
  call that creates an execution has checked (`Apart`). `StartedIsOwned` follows from
  `Accounted`: what waits in `pending` or in a call says of a job that it resumes whose it
  is (`TasksFit`); every pending job of an execution that is not in `abandoned` is waiting
  or on its way (`JobsCovered`), since `resume()`, `dispatch()` and `process()` hand a
  resumption on and lose none, however they overlap; and such an execution is being
  started or has a pending job (`StartedAlive`). The call that processes it never has an
  instance that still says QUEUEING, so that the processor does not refuse it.
* `FlowNodesProofs!TypeCorrect`, for any editors.
* `FlowNodesProofs!OneEditorKeepsTree` and `OneEditorOneTree`: **if at most one
  request is open at a time** (`\A e, f \in Editors : e = f`), `LinksAgree`,
  `OneStart` and `NoCycle` always hold; with two editors they do not. The
  inductive invariant `Inv` adds that what an open request read is still so when
  it commits (`UpToDate`). `DestroyTree` rests on three facts of the set that
  `destroy` deletes, none of which needs induction: it is closed under what is
  below a node (`BranchNodesClosed`), each of its nodes hangs below another one
  of it or starts a branch (`BranchNodesAbove`, since the set without the node
  would be closed as well), and it contains neither the node nor its neighbours
  (`BranchNodesApart`, by `NoCycle`). `OneEditorKeepsOrder` (`OrderKept`), under the
  same hypothesis: the place of a node is a recursive function, which exists because
  what a node comes after can be said without recursion (`PlacesExist`); a node whose
  place changed would have an upstream whose place changed (`CreateOrder`,
  `DestroyOrder`), and by `NoCycle` there is none.
* `WorkflowRevisionProofs!TypeCorrect`, and `CurrentIsOne`: `OneCurrent` for requests
  that run one after another, between which `prepare()` may read and write, from the
  invariant `EachHasCurrent` (every key with versions has one that is current). `ListenersOfEnabled`: **if one transaction runs at a time**
  (`~ Concurrent`), `ListenersAgree` always holds, for saves that change the configuration,
  `enabled`, or both; the invariant `ReadIsNow` adds
  that the rows `prepare()` read are the rows when its hooks run, and a lemma on
  `On` and `Off` that toggling again what is on or off changes nothing (`Hears`).
* `ScheduleTriggerProofs!TypeCorrect`, and `DisabledIsNotCached`: `CachedIsEnabled`
  for any configurations, with `Slow` too. The invariant `QueryIsTracked` adds that
  what the query on its way read and is not enabled any more was toggled since.
  `LimitHolds` (`LimitKept`) and `NoRunMissed` (`NoneMissed`): **where a second is
  enough for a query and the executions** (`~ Slow`), for any configurations and any
  length of the cached minute. With `Slow` neither is true: two ticks may trigger
  before the first execution is counted, and a row read before it changed is run by.
  The invariant `QuickInv` says that the counters in the cache and in a query on its
  way are those of the table (`CountersAgree`), that the query has all that is enabled
  (`QueryIsComplete`), and that what is due before the next full minute is cached
  (`AllDueCached`); a step of the clock inside the minute keeps this, however many seconds it
  takes, one to the full minute asks for the cache anew, and one over it is `behind`. That a repetition falls due in the minute is
  arithmetic of remainders (`Division` and the lemmas after it).
* `UiSchemaTreeProofs`: everything the runs check of the storage, for schemas of any
  size, from one inductive invariant, `PlacesInv`. `Spread` says of the tables that
  the paths are the closure of a finite forest (`Tree`, the conjuncts of `Closed` row
  by row), that what has a parent has a place, and that places under one key differ.
  * `ForestIsClosed` (`ClosureTable`): one lemma for each SQL statement says which rows
    are there afterwards (`CutRows`, `HungRows`, `WithNewRows`) and that the table is
    again a closure (`CutTree`, `HungTree`, `PrunedTree`, `WithNewTree`). What has to be
    shown of an operation is then that its statements are used as they must be: the
    node that is hung has nothing above it and is not above its place; what is removed
    takes along what is under it (`EmptiedDown`, `SingleDown`); and the wrap is still
    there when it is placed, since only what was above the node before can be removed.
  * `PlacesDifferHolds`, `PutInPlaceHolds` and `OrderKept` (`OthersKeepOrder`): a node
    that is placed gets a sort that no other has after room is made (`SortAtIs`,
    `PlacedSpread`), in any number of siblings. This needs that no sort under a parent
    is 0, the value of a node that was never placed. `Kept` says of each statement that
    nodes which stay keep their order, and `Inserted` sums up what a whole insertion
    with a wrap and removed parents leaves.
  * `CacheStaysFresh` (`CachedSpec => []CacheIsFresh`), from a second invariant,
    `CacheInv`: while a transaction runs, every entry that it changes and that was read
    before it is among those it has still to clear (`WillBeCleared`), or among those it
    is known to leave (`LeftForReason`). What an operation does not clear has nothing of
    what it changed under it (`Stays`, `ContentIs`).
  * `ImplementsForest`: `Spec => ForestSpec`, the refinement of `SchemaForest`. Since
    the schemas are finitely many, every set of nodes has a topmost one (`Topmost`):
    then the parents are a forest (`MapIsForest`), what is below a node in it is what
    is under it in the table (`BelowIsUnder`), and `remove` takes the subtree of one
    node (`RemovedSubtree`). Each statement leaves the parents of other nodes
    (`CutParents`, `PlacedParents`, `GrownParents`), and what is left empty is in one
    line (`InLine`).
* `FlowProcessorProofs!TypeCorrect` and `EndedJobsAreKept` (`EndedJobsStay`), for
  well-formed workflows of any size, branches nested to any depth and any number of
  resumptions with instances out of date. The walks up are
  recursive functions; that they exist and have values in the nodes is not taken for
  granted: `WalkExists` and `WalkTyped` show it of any walk that ends, from the least
  set of pairs that the recursion relates, and `WellFormed` and `upstream < j` give the
  end (`BranchParentIs`, `BranchParentJobIs`). So a call is never of a node or
  with a job that is not there. `IInv` adds to the types that a delay, a manual node
  or a request is resumed only while its job is pending (`RecalledIsPending`), and a manual
  node else only by an answer that was queued before; a job
  of a condition or of a parallel node changes only from pending because `recall`
  looks at it first (`Decided`).
* `FlowProcessorProofs!SuspendedExecutionsResume` (`SuspendedCanResume`), for the same
  workflows, **as long as no resumption was processed with instances out of date**
  (`stale = <<>>`; with them it is only model-checked): a suspended execution has a pending job that a timer, a response or a user
  resumes, or one of a parallel node without branches. Neither "something is pending"
  nor anything else about the jobs alone is inductive, so the argument has four layers.
  * Actions become relations between two states, `Steps(f, js, e, c, st, ks, g, d, q)`
    (`NextIs`), and the walks of the code become `FirstUp`, of which `PlaceIn` (the
    branch of a parallel node that a node is in), `HomeIn` and `UpIn` (the closest job
    of a node up the jobs) are cases (`HomeIs`, `BranchStartIs`, `UpIs`). From there
    on the lemmas are about any states, none of them temporal.
  * `Placed`: each call and each waiting call is where the flow says, in the same
    branch as the job it has (`AtPlace`, `WaitingIn`, `AtTop`); nothing waits below a
    job that a user, a timer or a response resumes (`Disciplined`); only
    asynchronous and undecided parallel jobs are pending (`PendingIn`); and a job
    that leads up to no job of its own parallel node leads up to none of those
    around it (`LostIn`).
  * A request in a branch is where a branch loses its parallel job, since the job of
    a request has no upstream. While it is pending the claim holds by it
    (`Requested`). After its answer everything the processor does comes from that
    job: a parallel node that is resumed by it throws, and the execution fails
    (`DoomedBy`): `Adrift` is the walk up to the first node that throws.
  * Else (`GoingIn`), each branch of each pending parallel job is decided, or the
    call in progress is in it, or a job of it is pending, or a `run()` that waits is
    yet to start it (`BranchesWait`), and likewise the main flow (`MainWaits`). That a
    `run()` which starts no further branch leaves none undecided needs the
    order of the calls that wait (`Standing`): the one right below an open `run()`
    of a parallel node comes from its own branch, and `GoesOn` of the status it
    brings is what the count before it left undecided (`VerdictGoesOn`,
    `CountedStack`).

  Between two runs of the processor (`WaitsResume`) take the pending job with the
  largest id: were it the job of a parallel node with branches, one of them is
  undecided (`VerdictUndecided`), so a job in it is pending, and it is a later one.
  `HopeHolds` (`Placed /\ Hopeful`) is the invariant, which TLC also found to hold
  outside of the runs on random workflows of up to 9 nodes.
* `ManualTaskProofs!TypeCorrect`; `AnswersAreCounted` (`DecisionIsComing`) **if there
  are assignees**: with none, mode "any" counts 0 of 0 answers and no submission can
  come; and `AllResolve` (`AllHaveResolved`) **if a user sends one submission at a
  time** (`OneAtATime`): two of one user, checked together, may resolve and then
  reject after the count. Its invariant `Unanimous` says that a checked
  submission still finds its task PENDING, and that all have resolved from the count
  on; the count is compared with `Len(Assignees)`, which
  `AssignedFinite` and `ResolvedByAll` turn into "each of them".
* `RoleGrantsProofs!TypeCorrect`, `AclAgrees` (`GrantsAgree`) and
  `NothingExtraGranted` (`NothingExtra`), for any roles, collections, fields,
  associations, settings and strategies, from one invariant, `GrantInv`. `Sound` says what may be
  in the ACL: of a resource that is still to write what the rows before say, of any
  other what the rows now say. `Complete` says what must be: of the resources
  written, each action or one that is still to grant (`Left`). And `RowsOK` adds what
  makes associations whole: an action has only fields that its collection has. The
  requests are alike in one lemma, `BeginKeeps`: what a request does not list to be
  written it has not changed, or has taken away with its grants.

Only model-checked:

* `SuspendedCanResume` after resumptions with instances out of date: `Placed` says where
  the calls and the jobs of one run are, and a job that is answered twice has what comes
  after it in two places;
* everything about liveness (`QueuedStarts`, `QueuesDrain`, `Returns`,
  `DecisionComes`), which is out of the prover's reach;
* `ResultsAgree` and `JoinWaits` of `FlowProcessor`: they relate the entries of a
  parallel job to the last job of each branch, while a decided inner parallel node may
  still be in its `run()` and pass on its own job a second time. `Standing` orders the
  calls that wait but does not say which job each of them brings back.

## What is not modelled

* The results of nodes, the values of variables and the context of an execution.
* Transactions of the processor as such: its writes are seen at once by the
  models, as nothing in them reads an execution while it is processed except
  `resume()`, for which either value is covered by its order with the last step.
* A resumption with instances out of date whose answer is still not the last one: a
  manual job that was ended by an exception of its `resume()` can become PENDING again.
* Requests on workflows that overlap (`destroy()`, `revision()`, `update()`), beside
  `prepare()`.
* `insert()` of a schema in which nodes that exist are nested: it moves those
  nodes as well (repository.ts:742, 875).
* The order of `createdAt` among executions created in the same millisecond: the
  ids are taken for it.
* `executed` and `allExecuted` as counts that overlapping transactions write: the
  models know "executed at all", and the limit of the schedule.
* The percentage modes of a manual node (no handler exists) and the lists of
  tasks.
* The table of delay timers: their loss and reload over a restart is in
  `WorkflowDispatcher`.
* The schedule mode of a date field of a collection: conditions in SQL over the
  records, and a listener that checks one record.
* The tests of changed fields and of the condition in the handler of the
  collection trigger: functions of one record.
* Changes of strategies and their predicates ("own"), snippets, menus and the users of
  roles.
* Server hooks of UI schemas: handlers of other plugins.
* Two transactions on the UI schemas or on the roles at once: whether they see each
  other's rows is up to the isolation level of the database.
* Sort fields, sub-applications, the lifecycle of plugins, the collection manager,
  sequence fields, verification, and the other components with status
  `not_modelled` in `PROJECT.json`; the client, which is most of the repository,
  is a user interface.

## Plan

The order in which the modules were written is the order of importance:
dispatcher, processor, node editing and manual tasks first, then revisions, the
storage of UI schemas with its abstract forest, the schedule trigger and the
grants of roles. What would come next:

1. `ExecutionCounters`: the two counts of `prepare()` in concurrent transactions,
   against an abstract counter; node editing reads `executed`.
2. `DelayTimer`: the timers over restarts, workflows that are deleted, jobs of a
   transaction that has not committed.
3. An abstract `ExecutionLifecycle` (queued, started, suspended, ended), which
   `WorkflowDispatcher` and `FlowProcessor` are shown to implement; and
   `ManualTask` composed with the dispatcher instead of its queue.
4. `SortField`, `AppManager`, `PluginLifecycle`.

Theorems to come, all of `FlowProcessor`:

* `ResultsAgree` and `JoinWaits`, from `Placed` and `Standing` with the last job of a
  branch in place of a pending one: what a waiting `exec()` brings back is the last job
  of its place, or what comes after it has run. Outside of the runs both held on some
  ten thousand random workflows of up to 9 nodes, a few of which show that `JoinWaits`
  needs `Overtaken`.
