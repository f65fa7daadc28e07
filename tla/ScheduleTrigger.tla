--------------------------- MODULE ScheduleTrigger ---------------------------
(***************************************************************************)
(* The schedule trigger of workflows                                       *)
(* (workflow/src/server/triggers/schedule.ts) with its constant mode: a    *)
(* tick on each second looks only at a cache of the workflows that may be  *)
(* due in the next minute.  The cache is replaced from the table at each   *)
(* minute, and corrected when a workflow is enabled, disabled or executed. *)
(*                                                                         *)
(* Time is counted in seconds.  A tick is one step; the query that follows *)
(* the tick of a full minute and its answer are two more.                  *)
(***************************************************************************)
EXTENDS Integers, FiniteSets

CONSTANTS
    Workflow,
    Configs,    \* the configurations that a workflow may have
    Cycle,      \* the seconds that the cache is for (cacheCycle)
    MaxTime,    \* bound on the clock
    MaxToggles, \* bound on what users enable and disable
    Late,       \* the seconds by which a timer or a restart may be late
    Slow        \* answers and executions may take longer than a second

Time == 0..MaxTime

\* repeat is 0 for none and for a cron expression, which is the set of the
\* seconds it matches; no end and no limit are 0
ASSUME ConstantsAssumption ==
    /\ Cycle \in Nat \ {0}
    /\ MaxTime \in Nat
    /\ MaxToggles \in Nat
    /\ Late \in Nat
    /\ Slow \in BOOLEAN
    /\ \A c \in Configs : /\ {c.start, c.end, c.limit, c.repeat} \subseteq Nat
                          /\ c.cron \subseteq Nat
                          /\ c.repeat = 0 \/ c.cron = {}

\* not in the cache; and no query on its way
NotCached == -1
NoQuery == [sent |-> FALSE]

VARIABLES
    config,      \* of each workflow
    now,         \* the second of the last tick
    enabled,     \* the workflows that are enabled
    allExecuted, \* the counter of each in the table
    cache,       \* the counter of the cached instance of each
    events,      \* how often each was triggered and not executed yet
    query,       \* the query of reload(): not answered, what it read, what was toggled since
    raced,       \* what was toggled while the query was answered that filled the cache
    behind,      \* a full minute was skipped, and the cache not replaced since
    toggles      \* how often users enabled or disabled, or the process stopped

vars == <<config, now, enabled, allExecuted, cache, events, query, raced, behind, toggles>>

-----------------------------------------------------------------------------
(* The rules *)

Periodic(c) == c.repeat > 0 \/ c.cron # {}
Within(c, executed) == c.limit > 0 => executed < c.limit

\* matchNext(): the next match of the cron expression is in range
MatchNext(c, t, range) == c.cron # {} => \E n \in c.cron : n \in t..(t + range)

\* the remainder of JavaScript has the sign of the dividend
Remainder(a, n) == IF a < 0 THEN - ((- a) % n) ELSE a % n

\* mutant of Upcoming: the minute does not include its end
UpcomingBefore(c, t) ==
    /\ c.start < t + Cycle
    /\ IF Periodic(c)
       THEN /\ c.repeat > 0 => t - Remainder(t - c.start, c.repeat) + c.repeat < t + Cycle
            /\ c.end > 0 => c.end > t
       ELSE c.start > t

\* shouldCache() of the constant mode
Upcoming(c, t) ==
    /\ c.start <= t + Cycle
    /\ IF Periodic(c)
       THEN /\ c.repeat > 0 => t - Remainder(t - c.start, c.repeat) + c.repeat <= t + Cycle
            /\ c.end > 0 => c.end > t
       ELSE c.start > t

\* trigger() of the constant mode
Matches(c, t) ==
    /\ c.start <= t
    /\ IF Periodic(c)
       THEN /\ c.repeat > 0 => (t - c.start) % c.repeat = 0
            /\ c.end > 0 => t <= c.end
       ELSE c.start = t

\* CacheRules and TriggerRules
ShouldCache(c, executed, t) ==
    Within(c, executed) /\ MatchNext(c, t, Cycle) /\ Upcoming(c, t)
ShouldTrigger(c, executed, t) ==
    Within(c, executed) /\ MatchNext(c, t, 0) /\ Matches(c, t)

\* what inspect() leaves in the cache for the workflow w
Inspected(w, executed, t) == IF ShouldCache(config[w], executed, t) THEN executed ELSE NotCached

Cached == {w \in Workflow : cache[w] # NotCached}

-----------------------------------------------------------------------------
(* The steps *)

\* without Slow, a second is enough for the query and the executions
Settled == Slow \/ (query = NoQuery /\ \A w \in Workflow : events[w] = 0)

Triggered(t) == {w \in Cached : ShouldTrigger(config[w], cache[w], t)}

\* a query that read those rows; and the one on its way when w is toggled
Query(rows, toggled) == [sent |-> TRUE, rows |-> rows, raced |-> toggled]
Toggled(w) == IF query = NoQuery THEN query ELSE Query(query.rows, query.raced \cup {w})

\* run() in the second t: onTick(), and at a full minute the query of reload();
\* the seconds before t are not made up for
TickAt(t) ==
    /\ t <= MaxTime
    /\ Settled
    /\ now' = t
    /\ events' = [w \in Workflow |-> events[w] + (IF w \in Triggered(t) THEN 1 ELSE 0)]
    /\ IF t % Cycle = 0
       THEN /\ query = NoQuery
            /\ query' = Query([w \in enabled |-> allExecuted[w]], {})
       ELSE UNCHANGED query
    /\ behind' = (behind \/ \E m \in (now + 1)..(t - 1) : m % Cycle = 0)
    /\ UNCHANGED <<config, enabled, allExecuted, cache, raced, toggles>>

Tick == TickAt(now + 1)

\* the event loop was busy when the timer was due
LateTick == \E late \in 1..Late : TickAt(now + 1 + late)

\* the answer: a new cache, and inspect() for the second it is now
Reload ==
    /\ query # NoQuery
    /\ cache' = [w \in Workflow |-> IF w \in DOMAIN query.rows
                                    THEN Inspected(w, query.rows[w], now) ELSE NotCached]
    /\ raced' = query.raced
    /\ behind' = FALSE
    /\ query' = NoQuery
    /\ UNCHANGED <<config, now, enabled, allExecuted, events, toggles>>

\* mutant of Execute: the update of the counter runs no hooks
ExecuteQuietly(w) ==
    /\ events[w] > 0
    /\ Slow \/ query = NoQuery
    /\ events' = [events EXCEPT ![w] = @ - 1]
    /\ allExecuted' = [allExecuted EXCEPT ![w] = @ + 1]
    /\ UNCHANGED <<config, now, enabled, query, raced, behind, toggles, cache>>

\* mutant of Execute: an event is executed although it was already
ExecuteAgain(w) ==
    /\ Slow \/ query = NoQuery
    /\ events' = [events EXCEPT ![w] = @ - 1]
    /\ allExecuted' = [allExecuted EXCEPT ![w] = @ + 1]
    /\ cache' = [cache EXCEPT ![w] =
                   IF w \in enabled THEN Inspected(w, allExecuted'[w], now) ELSE NotCached]
    /\ UNCHANGED <<config, now, enabled, query, raced, behind, toggles>>

\* prepare() of an event: the hook of the update of allExecuted toggles the
\* workflow, and on() inspects it again
Execute(w) ==
    /\ events[w] > 0
    /\ Slow \/ query = NoQuery
    /\ events' = [events EXCEPT ![w] = @ - 1]
    /\ allExecuted' = [allExecuted EXCEPT ![w] = @ + 1]
    /\ cache' = [cache EXCEPT ![w] =
                   IF w \in enabled THEN Inspected(w, allExecuted'[w], now) ELSE NotCached]
    /\ UNCHANGED <<config, now, enabled, query, raced, behind, toggles>>

\* mutant of Disable: off() leaves the cache to the next reload
DisableOnly(w) ==
    /\ toggles < MaxToggles
    /\ w \in enabled
    /\ enabled' = enabled \ {w}
    /\ query' = Toggled(w)
    /\ toggles' = toggles + 1
    /\ UNCHANGED <<config, now, allExecuted, events, raced, behind, cache>>

\* on() and off() of a user
Enable(w) ==
    /\ toggles < MaxToggles
    /\ w \notin enabled
    /\ enabled' = enabled \cup {w}
    /\ cache' = [cache EXCEPT ![w] = Inspected(w, allExecuted[w], now)]
    /\ query' = Toggled(w)
    /\ toggles' = toggles + 1
    /\ UNCHANGED <<config, now, allExecuted, events, raced, behind>>

Disable(w) ==
    /\ toggles < MaxToggles
    /\ w \in enabled
    /\ enabled' = enabled \ {w}
    /\ cache' = [cache EXCEPT ![w] = NotCached]
    /\ query' = Toggled(w)
    /\ toggles' = toggles + 1
    /\ UNCHANGED <<config, now, allExecuted, events, raced, behind>>

\* the process stops and starts: what is enabled is inspected
Restart ==
    /\ toggles < MaxToggles
    /\ \E t \in now..(now + Late) :
          /\ t <= MaxTime
          /\ now' = t
          /\ cache' = [w \in Workflow |-> IF w \in enabled
                                          THEN Inspected(w, allExecuted[w], t) ELSE NotCached]
    /\ events' = [w \in Workflow |-> 0]
    /\ query' = NoQuery
    /\ raced' = {}
    /\ behind' = FALSE
    /\ toggles' = toggles + 1
    /\ UNCHANGED <<config, enabled, allExecuted>>

-----------------------------------------------------------------------------

Init ==
    /\ config \in [Workflow -> Configs]
    /\ now = 0
    /\ enabled = {}
    /\ allExecuted = [w \in Workflow |-> 0]
    /\ cache = [w \in Workflow |-> NotCached]
    /\ events = [w \in Workflow |-> 0]
    /\ query = NoQuery
    /\ raced = {}
    /\ behind = FALSE
    /\ toggles = 0

Next ==
    \/ Tick
    \/ LateTick
    \/ Reload
    \/ \E w \in Workflow : Execute(w)
    \/ \E w \in Workflow : Enable(w)
    \/ \E w \in Workflow : Disable(w)
    \/ Restart

Spec == Init /\ [][Next]_vars

-----------------------------------------------------------------------------
(* Properties *)

TypeOK ==
    /\ config \in [Workflow -> Configs]
    /\ now \in Time
    /\ enabled \subseteq Workflow
    /\ allExecuted \in [Workflow -> Nat]
    /\ cache \in [Workflow -> Nat \cup {NotCached}]
    /\ events \in [Workflow -> Nat]
    /\ raced \subseteq Workflow
    /\ behind \in BOOLEAN
    /\ toggles \in 0..MaxToggles
    /\ query # NoQuery =>
         /\ DOMAIN query.rows \subseteq Workflow
         /\ \A w \in DOMAIN query.rows : query.rows[w] \in Nat
         /\ query.raced \subseteq Workflow

\* The seconds at which a workflow should run.  The first run of a number of
\* seconds that is not a cached one before is left out: the code looks for the
\* second one.
Due(c, t) ==
    /\ c.start <= t
    /\ c.cron # {} => t \in c.cron
    /\ c.repeat > 0 => t # c.start /\ (t - c.start) % c.repeat = 0
    /\ Periodic(c) /\ c.end > 0 => t <= c.end
    /\ ~ Periodic(c) => t = c.start

\* No run is missed: in each second that has a tick and in which an enabled
\* workflow is due and within its limit, the tick triggers it, although the cache
\* only has what the last minute, the last execution or the last change left
\* there.  A late tick skips no second but those before it, unless it skips a
\* full minute: the cache then lasts to the next one.
NoneMissed ==
    [][now' # now /\ toggles' = toggles /\ ~ behind' =>
         \A w \in enabled \ raced :
            Due(config[w], now') /\ Within(config[w], allExecuted[w])
               => events'[w] = events[w] + 1]_vars

\* A workflow is not executed more often than its limit.
LimitKept ==
    \A w \in Workflow : config[w].limit > 0 => allExecuted[w] + events[w] <= config[w].limit

\* What is disabled is not in the cache, unless it was disabled while the query
\* that filled the cache was on its way.
CachedIsEnabled == Cached \subseteq enabled \cup raced

=============================================================================
