-------------------------- MODULE WorkflowRevision --------------------------
(***************************************************************************)
(* The versions of workflows and the listeners of their collection         *)
(* triggers (workflow/src/server: Plugin.ts, actions/workflows.ts and      *)
(* triggers/collection.ts).                                                *)
(*                                                                         *)
(* The workflows are rows, and the listeners are memory: the hooks of a    *)
(* save or of a deletion turn them on and off inside of its transaction,   *)
(* which may still roll back.  Requests run one after another: each is one *)
(* transaction and one step here, also where a request reads before it     *)
(* writes.  The transaction of prepare() is two steps, the reading of the  *)
(* versions and the hooks of their update, and an update with a            *)
(* configuration is checked in a step of its own.                          *)
(***************************************************************************)
EXTENDS Naturals, FiniteSets

CONSTANTS
    Version,    \* the ids of workflows
    Key,        \* what the versions of one workflow have in common
    Collection, \* the collections that triggers listen to
    Mode,       \* the bits of their mode: created, updated, destroyed
    Configs,    \* the configurations: what one collection and mode select
    Concurrent, \* prepare() overlaps with requests; not with SQLite
    MaxEvents   \* bound on the versions with a queued event

\* the events of collections
Hook == Collection \X Mode

ASSUME ConstantsAssumption ==
    /\ Concurrent \in BOOLEAN
    /\ {} \in Configs
    /\ \A c \in Configs : \E p \in Collection, M \in SUBSET Mode : c = {p} \X M

\* a row of workflows; executed is whether the counter is above 0
Workflow == [key : Key, enabled : BOOLEAN, current : {"true", "false", "null"},
             config : Configs, executed : BOOLEAN]

\* what an update says about enabled; "kept" when it does not say
Enabling == {"kept", "on", "off"}

\* no update is checked, no event is prepared
NoRequest == <<>>

VARIABLES
    workflow,   \* the rows, by id
    listeners,  \* the events map of the trigger: version and hook
    events,     \* the versions with a queued event
    request,    \* the version whose update with a configuration was checked
    preparing,  \* the version that prepare() executes and the rows it read
    failed,     \* a transaction rolled back after its hooks, since the start
    leftover    \* the versions that were disabled in the save of another
                \* configuration, since the start

vars == <<workflow, listeners, events, request, preparing, failed, leftover>>

-----------------------------------------------------------------------------

Rows == DOMAIN workflow

\* mutant of Inserted: current is not one of the values that the index knows
InsertedNull(v, row) ==
    [x \in Rows \cup {v} |-> IF x = v THEN [row EXCEPT !.current = "none"] ELSE workflow[x]]

Inserted(v, row) == [x \in Rows \cup {v} |-> IF x = v THEN row ELSE workflow[x]]
Versions(k) == {v \in Rows : workflow[v].key = k}
Current(k) == {v \in Versions(k) : workflow[v].current = "true"}

\* trigger.on() and trigger.off() of the version v with the configuration c
On(L, v, c) ==
    LET same == {h \in Hook : \E g \in c : g[1] = h[1]}
    IN (L \ ({v} \X same)) \cup ({v} \X c)
Off(L, v, c) == L \ ({v} \X c)

\* toggle(workflow, enable), without a previous configuration
Toggle(L, v, row, enable) ==
    IF enable THEN On(L, v, row.config) ELSE Off(L, v, row.config)

\* mutant of Saved: the listeners of the previous configuration are kept
SavedOnly(L, v, old, c, e) == IF e THEN On(L, v, c) ELSE Off(L, v, c)

\* toggle(workflow) after a save made the configuration c of old: the listeners
\* of the previous one are removed, but not when the version is disabled now
Saved(L, v, old, c, e) ==
    IF e THEN On(Off(L, v, IF c # old THEN old ELSE {}), v, c) ELSE Off(L, v, c)

\* the writing of a row waits for the transaction of prepare(), which updated
\* the row of the version it executes; with SQLite everything waits
Free(S) == preparing # NoRequest => Concurrent /\ preparing[1] \notin S

\* the transaction commits the rows W, or rolls back after its hooks made L;
\* after a rollback only the restart is looked at
Commit(W, L) ==
    /\ ~ failed
    /\ listeners' = L
    /\ \/ workflow' = W /\ UNCHANGED failed
       \/ workflow' = workflow /\ failed' = TRUE
    /\ UNCHANGED <<events, preparing>>

-----------------------------------------------------------------------------
(* The requests *)

\* a new workflow: the first of its key, so that onBeforeSave makes it current
Create(v, k) ==
    /\ v \notin Rows
    /\ Versions(k) = {}
    /\ Free({})
    /\ Commit(Inserted(v, [key |-> k, enabled |-> FALSE, current |-> "true",
                           config |-> {}, executed |-> FALSE]),
              listeners)
    /\ UNCHANGED <<request, leftover>>

\* the current version that onBeforeSave replaces by v
Previous(v) == Current(workflow[v].key) \ {v}

\* the listeners without those of the versions S, which are toggled off
Replaced(L, S) == {x \in L : ~ (x[1] \in S /\ x[2] \in workflow[x[1]].config)}

\* the versions that saving v with enabled = e turns off
TurnedOff(v, e) == IF e /\ ~ workflow[v].enabled THEN Previous(v) ELSE {}

\* the rows after v is saved: onBeforeSave makes it the current version when it
\* is enabled
SavedRows(v, c, e) ==
    [x \in Rows |->
       IF x = v
       THEN [workflow[v] EXCEPT !.config = c, !.enabled = e, !.current = IF e THEN "true" ELSE @]
       ELSE IF x \in TurnedOff(v, e)
            THEN [workflow[x] EXCEPT !.enabled = FALSE, !.current = "null"]
            ELSE workflow[x]]

\* the update of v with its hooks
Save(v, c, e) ==
    /\ Free(TurnedOff(v, e) \cup {v})
    /\ Commit(SavedRows(v, c, e),
              Saved(Replaced(listeners, TurnedOff(v, e)), v, workflow[v].config, c, e))
    /\ leftover' = IF workflow[v].enabled /\ ~ e /\ c # workflow[v].config
                   THEN leftover \cup {v} ELSE leftover

\* update() with a configuration, and perhaps enabled: the check of executed,
\* without a transaction
Check(v) ==
    /\ ~ failed
    /\ request = NoRequest
    /\ v \in Rows
    /\ ~ workflow[v].executed
    /\ request' = <<v>>
    /\ UNCHANGED <<workflow, listeners, events, preparing, failed, leftover>>

\* ... and the update, to the configuration c
Configure(c, s) ==
    /\ ~ failed
    /\ request # NoRequest
    /\ LET v == request[1]
       IN IF v \in Rows
          THEN Save(v, c, s = "on" \/ (s = "kept" /\ workflow[v].enabled))
          ELSE UNCHANGED <<workflow, listeners, events, preparing, failed, leftover>>
    /\ request' = NoRequest

\* update() of enabled only
Switch(v, e) ==
    /\ v \in Rows
    /\ workflow[v].enabled # e
    /\ Save(v, workflow[v].config, e)
    /\ UNCHANGED request

\* revision() of o: a version v that is not current, unless there is one
\* already, or another workflow
Revision(o, v, k) ==
    /\ o \in Rows
    /\ v \notin Rows
    /\ Free({})
    /\ \/ /\ k = workflow[o].key
          /\ \A x \in Versions(k) : workflow[x].current # "false"
       \/ Versions(k) = {}
    /\ Commit(Inserted(v, [key |-> k, enabled |-> FALSE,
                           current |-> IF Versions(k) = {} THEN "true" ELSE "false",
                           config |-> workflow[o].config, executed |-> FALSE]),
              listeners)
    /\ UNCHANGED <<request, leftover>>

\* mutant of Destroyed: the revisions of a current version stay
DestroyedOnly(D) == D

\* destroy(): with a current version go the others of its key
Destroyed(D) ==
    D \cup {v \in Rows : /\ workflow[v].current # "true"
                         /\ \E d \in D : /\ workflow[d].current = "true"
                                         /\ workflow[d].key = workflow[v].key}

Destroy(D) ==
    /\ D # {} /\ D \subseteq Rows
    /\ Free(Destroyed(D))
    /\ Commit([v \in Rows \ Destroyed(D) |-> workflow[v]],
              Replaced(listeners, Destroyed(D)))
    /\ UNCHANGED <<request, leftover>>

-----------------------------------------------------------------------------
(* The events *)

Trigger(v) ==
    /\ ~ failed
    /\ \E h \in Hook : <<v, h>> \in listeners
    /\ events' = events \cup {v}
    /\ Cardinality(events') <= MaxEvents
    /\ UNCHANGED <<workflow, listeners, request, preparing, failed, leftover>>

\* prepare(): executed is updated, and the versions are read for their hooks;
\* the event of a workflow that was deleted creates no execution
Prepare(v) ==
    /\ ~ failed
    /\ v \in events
    /\ preparing = NoRequest
    /\ events' = events \ {v}
    /\ preparing' = IF v \in Rows
                    THEN <<v, [x \in Versions(workflow[v].key) |-> workflow[x]]>>
                    ELSE NoRequest
    /\ UNCHANGED <<workflow, listeners, request, failed, leftover>>

\* each version as it was read is toggled on or off
ToggledAll(L, read) ==
    {x \in L : x[1] \notin DOMAIN read} \cup
    UNION {Toggle({x \in L : x[1] = v}, v, read[v], read[v].enabled) : v \in DOMAIN read}

\* the update of allExecuted with the hooks of each version that was read, and
\* the commit
Count ==
    /\ ~ failed
    /\ preparing # NoRequest
    /\ LET v == preparing[1]
           read == preparing[2]
       IN /\ workflow' = [workflow EXCEPT ![v].executed = TRUE]
          /\ listeners' = ToggledAll(listeners, read)
    /\ preparing' = NoRequest
    /\ UNCHANGED <<events, request, failed, leftover>>

\* what beforeStart toggles on
Started == {x \in Rows \X Hook : workflow[x[1]].enabled /\ x[2] \in workflow[x[1]].config}

\* the process stops, and starts again
Restart ==
    /\ listeners' = Started
    /\ events' = {}
    /\ request' = NoRequest
    /\ preparing' = NoRequest
    /\ failed' = FALSE
    /\ leftover' = {}
    /\ UNCHANGED workflow

-----------------------------------------------------------------------------

Init ==
    /\ workflow = [v \in {} |-> {}]
    /\ listeners = {}
    /\ events = {}
    /\ request = NoRequest
    /\ preparing = NoRequest
    /\ failed = FALSE
    /\ leftover = {}

Next ==
    \/ \E v \in Version, k \in Key : Create(v, k)
    \/ \E v \in Version : Check(v)
    \/ \E c \in Configs, s \in Enabling : Configure(c, s)
    \/ \E v \in Version, e \in BOOLEAN : Switch(v, e)
    \/ \E o, v \in Version, k \in Key : Revision(o, v, k)
    \/ \E D \in SUBSET Version : Destroy(D)
    \/ \E v \in Version : Trigger(v)
    \/ \E v \in Version : Prepare(v)
    \/ Count
    \/ Restart

Spec == Init /\ [][Next]_vars

-----------------------------------------------------------------------------
(* Properties *)

TypeOK ==
    /\ Rows \subseteq Version
    /\ \A v \in Rows : workflow[v] \in Workflow
    /\ listeners \subseteq Version \X Hook
    /\ events \subseteq Version
    /\ request = NoRequest \/ \E v \in Version : request = <<v>>
    /\ preparing = NoRequest \/ preparing[1] \in Version
    /\ failed \in BOOLEAN
    /\ leftover \subseteq Version

\* Of the versions of a workflow exactly one is current, and no other one is
\* enabled, whatever is revised, enabled, disabled and deleted by requests that
\* run one after another.
OneCurrent ==
    \A k \in Key : Versions(k) # {} =>
        \E c \in Versions(k) :
            /\ Current(k) = {c}
            /\ \A v \in Versions(k) : workflow[v].enabled => v = c

\* Every enabled workflow has the listeners of the configuration it has now,
\* and there are no others, but for the workflows that one save disabled and
\* gave another configuration (toggle() in Plugin.ts takes away the listeners
\* of the new one then), and unless a transaction rolled back after its hooks.
ListenersAgree ==
    ~ failed => /\ Started \subseteq listeners
                /\ \A x \in listeners \ Started : x[1] \in leftover

=============================================================================
