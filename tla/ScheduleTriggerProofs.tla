------------------------ MODULE ScheduleTriggerProofs ------------------------
(***************************************************************************)
(* Proofs about ScheduleTrigger: its type invariant, that what is disabled *)
(* leaves the cache unless it raced with a reload and, where a second is   *)
(* enough for the query and the executions, that no run is missed by a     *)
(* tick and no limit is exceeded, however late ticks and restarts are.     *)
(***************************************************************************)
EXTENDS ScheduleTrigger, TLAPS

\* A query on its way read workflows that are enabled, or toggled since.
QueryIsTracked ==
    query # NoQuery => DOMAIN query.rows \subseteq enabled \cup query.raced

IInv == TypeOK /\ QueryIsTracked /\ CachedIsEnabled

\* inspect() caches the counter it was given, or nothing.
LEMMA InspectedValue ==
    ASSUME NEW w, NEW n, NEW t
    PROVE  Inspected(w, n, t) \in {n, NotCached}
  BY DEF Inspected

LEMMA InitHolds == Init => IInv
<1> SUFFICES ASSUME Init
             PROVE  IInv
  OBVIOUS
<1>1. now \in Time /\ toggles \in 0..MaxToggles
  <2>1. now = 0 /\ toggles = 0 /\ MaxTime \in Nat /\ MaxToggles \in Nat
    BY ConstantsAssumption DEF Init, ConstantsAssumption
  <2> QED
    BY <2>1 DEF Time
<1>2. behind \in BOOLEAN
  BY Zenon DEF Init
<1>3. TypeOK
  BY <1>1, <1>2 DEF Init, TypeOK, NoQuery, NotCached
<1>4. QueryIsTracked /\ CachedIsEnabled
  BY DEF Init, QueryIsTracked, CachedIsEnabled, Cached, NoQuery, NotCached
<1> QED
  BY <1>3, <1>4 DEF IInv

\* A tick is in a later second.
LEMMA LaterTick ==
    ASSUME TypeOK, Tick \/ LateTick
    PROVE  \E t \in Nat : t > now /\ TickAt(t)
<1>1. now \in Nat /\ Late \in Nat
  BY ConstantsAssumption DEF TypeOK, Time, ConstantsAssumption
<1>2. CASE Tick
  BY <1>1, <1>2, now + 1 \in Nat DEF Tick
<1>3. CASE LateTick
  <2>1. PICK late \in 1..Late : TickAt(now + 1 + late)
    BY <1>3 DEF LateTick
  <2>2. now + 1 + late \in Nat /\ now + 1 + late > now
    BY <1>1
  <2> QED
    BY <2>1, <2>2
<1> QED
  BY <1>2, <1>3

LEMMA StepHolds == IInv /\ [Next]_vars => IInv'
<1> SUFFICES ASSUME IInv, [Next]_vars
             PROVE  IInv'
  OBVIOUS
<1> USE DEF IInv, NotCached
<1>0. toggles' \in 0..MaxToggles
  BY ConstantsAssumption
     DEF Next, vars, Tick, LateTick, TickAt, Reload, Execute, Enable, Disable, Restart, TypeOK,
         ConstantsAssumption
<1>1. CASE Tick \/ LateTick
  <2>0. PICK t \in Nat : TickAt(t)
    BY <1>1, LaterTick
  <2>1. now' \in Time /\ behind' \in BOOLEAN
    BY <2>0, ConstantsAssumption DEF TickAt, TypeOK, Time, ConstantsAssumption
  <2>2. events' \in [Workflow -> Nat]
    BY <2>0 DEF TickAt, TypeOK
  <2>3. query' # NoQuery =>
          \/ query' = query
          \/ /\ DOMAIN query'.rows = enabled
             /\ \A w \in enabled : query'.rows[w] = allExecuted[w]
             /\ query'.raced = {}
    BY <2>0 DEF TickAt, Query
  <2> QED
    BY <2>0, <1>0, <2>1, <2>2, <2>3 DEF TickAt, TypeOK, QueryIsTracked, CachedIsEnabled, Cached
<1>2. CASE Reload
  <2>1. \A w \in Workflow : cache'[w] # NotCached => w \in DOMAIN query.rows
    BY <1>2 DEF Reload
  <2>2. cache' \in [Workflow -> Nat \cup {NotCached}]
    BY <1>2, InspectedValue DEF Reload, TypeOK
  <2> QED
    BY <1>2, <1>0, <2>1, <2>2 DEF Reload, TypeOK, QueryIsTracked, CachedIsEnabled, Cached
<1>3. CASE \E w \in Workflow : Execute(w)
  <2> PICK w \in Workflow : Execute(w)
    BY <1>3
  <2>1. /\ events' \in [Workflow -> Nat]
        /\ allExecuted' \in [Workflow -> Nat]
    BY DEF Execute, TypeOK
  <2>2. cache' \in [Workflow -> Nat \cup {NotCached}]
    BY <2>1, InspectedValue DEF Execute, TypeOK
  <2>3. \A v \in Workflow : cache'[v] # NotCached => (v = w /\ w \in enabled) \/ v \in Cached
    BY DEF Execute, TypeOK, Cached
  <2> QED
    BY <1>0, <2>1, <2>2, <2>3 DEF Execute, TypeOK, QueryIsTracked, CachedIsEnabled, Cached
<1>4. CASE \E w \in Workflow : Enable(w)
  <2> PICK w \in Workflow : Enable(w)
    BY <1>4
  <2>1. cache' \in [Workflow -> Nat \cup {NotCached}]
    BY InspectedValue DEF Enable, TypeOK
  <2>2. query' # NoQuery => /\ query # NoQuery
                              /\ query'.rows = query.rows
                              /\ query'.raced = query.raced \cup {w}
    BY DEF Enable, Toggled, Query
  <2>3. Cached' \subseteq Cached \cup {w}
    BY DEF Enable, TypeOK, Cached
  <2> QED
    BY <1>0, <2>1, <2>2, <2>3 DEF Enable, TypeOK, QueryIsTracked, CachedIsEnabled
<1>5. CASE \E w \in Workflow : Disable(w)
  <2> PICK w \in Workflow : Disable(w)
    BY <1>5
  <2>1. cache' \in [Workflow -> Nat \cup {NotCached}]
    BY DEF Disable, TypeOK
  <2>2. query' # NoQuery => /\ query # NoQuery
                              /\ query'.rows = query.rows
                              /\ query'.raced = query.raced \cup {w}
    BY DEF Disable, Toggled, Query
  <2>3. Cached' \subseteq Cached \ {w}
    BY DEF Disable, TypeOK, Cached
  <2> QED
    BY <1>0, <2>1, <2>2, <2>3 DEF Disable, TypeOK, QueryIsTracked, CachedIsEnabled
<1>6. CASE Restart
  <2>0. PICK t \in now..(now + Late) :
           /\ t <= MaxTime /\ now' = t
           /\ cache' = [w \in Workflow |-> IF w \in enabled
                                           THEN Inspected(w, allExecuted[w], t) ELSE NotCached]
    BY <1>6 DEF Restart
  <2>1. cache' \in [Workflow -> Nat \cup {NotCached}]
    BY <2>0, InspectedValue DEF TypeOK
  <2>2. Cached' \subseteq enabled
    BY <2>0 DEF Cached
  <2>3. now' \in Time
    BY <2>0, ConstantsAssumption DEF TypeOK, Time, ConstantsAssumption
  <2> QED
    BY <1>6, <1>0, <2>1, <2>2, <2>3 DEF Restart, TypeOK, QueryIsTracked, CachedIsEnabled
<1>7. CASE UNCHANGED vars
  BY <1>7 DEF vars, TypeOK, QueryIsTracked, CachedIsEnabled, Cached
<1> QED
  BY <1>1, <1>2, <1>3, <1>4, <1>5, <1>6, <1>7 DEF Next

-----------------------------------------------------------------------------
(* A second that is enough: what the cache and a query on its way hold are the
   counters of the table. *)

CountersAgree ==
    /\ \A w \in Workflow : cache[w] \in {NotCached, allExecuted[w]}
    /\ query # NoQuery => \A w \in DOMAIN query.rows : query.rows[w] = allExecuted[w]

\* The answer of a query has all that is enabled and was not toggled since.
QueryIsComplete == query # NoQuery => enabled \subseteq DOMAIN query.rows \cup query.raced

\* after n, t comes before the cache is replaced after the next full minute
AheadOf(n, t) == t > n /\ \A m \in (n + 1)..(t - 1) : m % Cycle # 0
Ahead(t) == AheadOf(now, t)

\* The cache has what is due before it is replaced again, unless a full minute
\* was skipped.
DueIsCached(w) ==
    \A t \in Nat : Ahead(t) /\ Due(config[w], t) /\ Within(config[w], allExecuted[w])
                    => cache[w] # NotCached
AllDueCached == query = NoQuery /\ ~ behind => \A w \in enabled \ raced : DueIsCached(w)

QuickInv == CountersAgree /\ QueryIsComplete /\ AllDueCached /\ LimitKept

\* a divided by r
LEMMA Division ==
    ASSUME NEW a \in Nat, NEW r \in Nat \ {0}
    PROVE  \E q \in Nat : a = r * q + (a % r) /\ a % r \in 0..(r - 1)
<1>1. a \div r \in Nat /\ a = r * (a \div r) + (a % r) /\ a % r \in 0..(r - 1)
  BY Z3
<1> QED
  BY <1>1

\* Two multiples of r are r or more apart.
LEMMA MultiplesApart ==
    ASSUME NEW r \in Nat \ {0}, NEW k \in Nat, NEW q \in Nat, r * q < r * k
    PROVE  r * q + r <= r * k
<1>1. q < k
  <2> SUFFICES ASSUME k <= q PROVE FALSE
    OBVIOUS
  <2>1. PICK d \in Nat : q = k + d
    BY q - k \in Nat
  <2>2. r * q = r * k + r * d
    BY <2>1
  <2>3. r * d \in Nat /\ r * k \in Nat
    OBVIOUS
  <2> QED
    BY <2>2, <2>3
<1>2. PICK d \in Nat : k = q + 1 + d
  BY <1>1, k - q - 1 \in Nat
<1>3. r * k = r * q + r + r * d
  BY <1>2
<1> QED
  BY <1>3

\* The multiple of r after a is not after a multiple of r that is.
LEMMA NextMultiple ==
    ASSUME NEW r \in Nat \ {0}, NEW a \in Nat, NEW b \in Nat, a < b, b % r = 0
    PROVE  a - (a % r) + r <= b
<1>1. PICK q \in Nat : a = r * q + (a % r) /\ a % r \in 0..(r - 1)
  BY Division
<1>2. PICK k \in Nat : b = r * k + (b % r)
  BY Division
<1>3. r * q < r * k
  BY <1>1, <1>2
<1> QED
  BY <1>1, <1>2, <1>3, MultiplesApart

\* A multiple of r comes in the r numbers after a.
LEMMA MultipleComes ==
    ASSUME NEW r \in Nat \ {0}, NEW a \in Nat
    PROVE  \E m \in (a + 1)..(a + r) : m % r = 0
<1>1. PICK q \in Nat : a = r * q + (a % r) /\ a % r \in 0..(r - 1)
  BY Division
<1> DEFINE m == r * (q + 1)
<1>2. m = r * q + r /\ m \in Nat
  OBVIOUS
<1>3. m \in (a + 1)..(a + r)
  BY <1>1, <1>2
<1>4. PICK k \in Nat : m = r * k + (m % r) /\ m % r \in 0..(r - 1)
  BY <1>2, Division
<1>5. r * k = r * (q + 1)
  <2>1. ~ r * k < r * (q + 1)
    BY <1>4, MultiplesApart, q + 1 \in Nat
  <2>2. ~ r * (q + 1) < r * k
    BY <1>4, <1>2
  <2> QED
    BY <2>1, <2>2
<1> QED
  BY <1>3, <1>4, <1>5

\* What comes before the cache is replaced comes in the minute it is for.
LEMMA AheadIsSoon ==
    ASSUME NEW n \in Nat, NEW t \in Nat, AheadOf(n, t)
    PROVE  t > n /\ t <= n + Cycle
<1>1. Cycle \in Nat \ {0}
  BY ConstantsAssumption DEF ConstantsAssumption
<1>2. PICK m \in (n + 1)..(n + Cycle) : m % Cycle = 0
  BY <1>1, MultipleComes
<1> QED
  BY <1>1, <1>2 DEF AheadOf

\* shouldCache() at a second says yes to what is due in the minute after it:
\* the run that it looks for is not later.
LEMMA DueIsUpcoming ==
    ASSUME NEW c \in Configs, NEW e, NEW t0 \in Nat, NEW t \in Nat,
           t > t0, t <= t0 + Cycle, Due(c, t), Within(c, e)
    PROVE  ShouldCache(c, e, t0)
<1>1. /\ Cycle \in Nat \ {0}
      /\ c.start \in Nat /\ c.end \in Nat /\ c.repeat \in Nat
      /\ c.cron \subseteq Nat
  BY ConstantsAssumption DEF ConstantsAssumption
<1>2. MatchNext(c, t0, Cycle)
  BY <1>1 DEF Due, MatchNext
<1>3. c.start <= t0 + Cycle
  BY <1>1 DEF Due
<1>4. ~ Periodic(c) => c.start > t0
  BY <1>1 DEF Due
<1>5. Periodic(c) /\ c.end > 0 => c.end > t0
  BY <1>1 DEF Due
<1>6. ASSUME c.repeat > 0
      PROVE  t0 - Remainder(t0 - c.start, c.repeat) + c.repeat <= t0 + Cycle
  <2>1. /\ c.repeat \in Nat \ {0}
        /\ t - c.start \in Nat /\ t - c.start # 0 /\ (t - c.start) % c.repeat = 0
    BY <1>1, <1>6 DEF Due
  <2>2. CASE t0 >= c.start
    <3>1. t0 - c.start \in Nat /\ t0 - c.start < t - c.start
      BY <1>1, <2>2
    <3>2. (t0 - c.start) - ((t0 - c.start) % c.repeat) + c.repeat <= t - c.start
      BY <2>1, <3>1, NextMultiple
    <3>3. Remainder(t0 - c.start, c.repeat) = (t0 - c.start) % c.repeat
      BY <3>1 DEF Remainder
    <3>4. (t0 - c.start) % c.repeat \in 0..(c.repeat - 1)
      BY <2>1, <3>1, Division
    <3> QED
      BY <1>1, <3>2, <3>3, <3>4
  <2>3. CASE t0 < c.start
    <3>1. c.start - t0 \in Nat \ {0} /\ - (t0 - c.start) = c.start - t0
      BY <1>1, <2>3
    <3>2. Remainder(t0 - c.start, c.repeat) = - ((c.start - t0) % c.repeat)
      BY <1>1, <2>3, <3>1 DEF Remainder
    <3>3. (c.start - t0) % c.repeat \in 0..(c.start - t0)
      <4>1. PICK q \in Nat : /\ c.start - t0 = c.repeat * q + ((c.start - t0) % c.repeat)
                             /\ (c.start - t0) % c.repeat \in 0..(c.repeat - 1)
        BY <2>1, <3>1, Division
      <4>2. c.repeat * q \in Nat
        BY <2>1
      <4> QED
        BY <2>1, <3>1, <4>1, <4>2
    <3>4. c.repeat <= t - c.start
      <4>1. 0 - (0 % c.repeat) + c.repeat <= t - c.start
        BY <2>1, NextMultiple
      <4>2. 0 % c.repeat = 0
        BY <2>1, Z3
      <4> QED
        BY <2>1, <4>1, <4>2
    <3> QED
      BY <1>1, <3>2, <3>3, <3>4
  <2> QED
    BY <1>1, <2>2, <2>3
<1> QED
  BY <1>2, <1>3, <1>4, <1>5, <1>6 DEF ShouldCache, Upcoming

\* So inspect() caches it.
LEMMA InspectedIsCached ==
    ASSUME TypeOK, NEW w \in Workflow, NEW e \in Nat, NEW n \in Nat, NEW t \in Nat,
           AheadOf(n, t), Due(config[w], t), Within(config[w], e)
    PROVE  Inspected(w, e, n) # NotCached
<1>1. config[w] \in Configs
  BY DEF TypeOK
<1>2. ShouldCache(config[w], e, n)
  BY <1>1, AheadIsSoon, DueIsUpcoming
<1> QED
  BY <1>2 DEF Inspected, NotCached

\* An operation on one workflow that keeps the time and the answers: what it
\* left of the query is complete.
LEMMA ToggledQuery ==
    ASSUME NEW w \in Workflow, query' = Toggled(w)
    PROVE  /\ query = NoQuery => query' = NoQuery
           /\ query' # NoQuery => /\ query # NoQuery
                                  /\ query'.rows = query.rows
                                  /\ query'.raced = query.raced \cup {w}
  BY DEF Toggled, Query

LEMMA QuickInit == Init => QuickInv
  BY ConstantsAssumption
     DEF Init, QuickInv, CountersAgree, QueryIsComplete, AllDueCached, LimitKept,
         NoQuery, NotCached, ConstantsAssumption

LEMMA TickIsQuick ==
    ASSUME ~ Slow, TypeOK, TypeOK', QuickInv, NEW t0 \in Nat, t0 > now, TickAt(t0)
    PROVE  QuickInv'
<1>1. query = NoQuery /\ \A w \in Workflow : events[w] = 0
  BY DEF TickAt, Settled
<1>2. query' # NoQuery => /\ DOMAIN query'.rows = enabled
                          /\ \A w \in enabled : query'.rows[w] = allExecuted[w]
  BY <1>1 DEF TickAt, Query
<1>3. CountersAgree'
  BY <1>2 DEF TickAt, QuickInv, CountersAgree, TypeOK
<1>4. QueryIsComplete'
  BY <1>2 DEF TickAt, QueryIsComplete
<1>5. AllDueCached'
  <2>0. /\ now' = t0 /\ config' = config /\ allExecuted' = allExecuted
        /\ enabled' = enabled /\ raced' = raced /\ cache' = cache
    BY DEF TickAt
  <2> SUFFICES ASSUME query' = NoQuery, ~ behind', NEW w \in enabled \ raced, NEW t \in Nat,
                      AheadOf(t0, t), Due(config[w], t), Within(config[w], allExecuted[w])
               PROVE  cache[w] # NotCached
    BY <2>0 DEF AllDueCached, DueIsCached, Ahead
  <2>1. t0 % Cycle # 0
    BY DEF TickAt, Query, NoQuery
  <2>2. /\ now \in Nat /\ ~ behind
        /\ \A m \in (now + 1)..(t0 - 1) : m % Cycle # 0
    <3>1. now \in Nat
      BY ConstantsAssumption DEF TypeOK, Time, ConstantsAssumption
    <3>2. ~ behind /\ ~ (\E m \in (now + 1)..(t0 - 1) : m % Cycle = 0)
      BY Zenon DEF TickAt
    <3> QED
      BY <3>1, <3>2
  <2>3. Ahead(t)
    BY <2>1, <2>2 DEF Ahead, AheadOf
  <2> QED
    BY <1>1, <2>2, <2>3 DEF QuickInv, AllDueCached, DueIsCached
<1>6. LimitKept'
  <2> SUFFICES ASSUME NEW w \in Workflow, config[w].limit > 0
               PROVE  allExecuted[w] + events'[w] <= config[w].limit
    BY DEF LimitKept, TickAt
  <2>1. allExecuted[w] + events[w] <= config[w].limit /\ events[w] = 0
    BY <1>1 DEF QuickInv, LimitKept
  <2>2. CASE w \in Triggered(t0)
    <3>1. cache[w] = allExecuted[w] /\ Within(config[w], cache[w])
      BY <2>2 DEF Triggered, Cached, ShouldTrigger, QuickInv, CountersAgree
    <3>2. events'[w] = 1
      BY <2>1, <2>2 DEF TickAt
    <3> QED
      BY <3>1, <3>2, ConstantsAssumption DEF Within, TypeOK, ConstantsAssumption
  <2>3. CASE w \notin Triggered(t0)
    BY <2>1, <2>3 DEF TickAt
  <2> QED
    BY <2>2, <2>3
<1> QED
  BY <1>3, <1>4, <1>5, <1>6 DEF QuickInv

\* The workflows that a step inspects for the second it is, with the counters
\* of the table, are those that the cache must have.
LEMMA InspectionCaches ==
    ASSUME TypeOK, TypeOK', config' = config, NEW w \in Workflow,
           cache'[w] = Inspected(w, allExecuted'[w], now')
    PROVE  DueIsCached(w)'
<1> SUFFICES ASSUME NEW t \in Nat, AheadOf(now', t), Due(config[w], t),
                    Within(config[w], allExecuted'[w])
             PROVE  cache'[w] # NotCached
  BY DEF DueIsCached, Ahead
<1>1. allExecuted'[w] \in Nat /\ now' \in Nat
  BY ConstantsAssumption DEF TypeOK, Time, ConstantsAssumption
<1> QED
  BY <1>1, InspectedIsCached

LEMMA OthersStayCached ==
    ASSUME now' = now, config' = config, NEW w \in Workflow, DueIsCached(w),
           cache'[w] = cache[w], allExecuted'[w] = allExecuted[w]
    PROVE  DueIsCached(w)'
  BY DEF DueIsCached, Ahead

LEMMA ReloadIsQuick ==
    ASSUME ~ Slow, TypeOK, TypeOK', QuickInv, Reload
    PROVE  QuickInv'
<1>1. \A w \in Workflow :
         cache'[w] = IF w \in DOMAIN query.rows
                     THEN Inspected(w, allExecuted[w], now) ELSE NotCached
  BY DEF Reload, QuickInv, CountersAgree, TypeOK
<1>2. CountersAgree'
  BY <1>1, InspectedValue DEF CountersAgree, Reload
<1>3. QueryIsComplete'
  BY DEF Reload, QueryIsComplete
<1>4. AllDueCached'
  <2> SUFFICES ASSUME NEW w \in enabled \ query.raced
               PROVE  DueIsCached(w)'
    BY DEF AllDueCached, Reload
  <2>1. w \in Workflow /\ w \in DOMAIN query.rows
    BY DEF TypeOK, QuickInv, QueryIsComplete, Reload
  <2>2. cache'[w] = Inspected(w, allExecuted'[w], now)
    BY <1>1, <2>1 DEF Reload
  <2> QED
    BY <2>1, <2>2, InspectionCaches DEF Reload
<1>5. LimitKept'
  BY DEF LimitKept, Reload, QuickInv
<1> QED
  BY <1>2, <1>3, <1>4, <1>5 DEF QuickInv

LEMMA ExecuteIsQuick ==
    ASSUME ~ Slow, TypeOK, TypeOK', QuickInv, NEW w \in Workflow, Execute(w)
    PROVE  QuickInv'
<1>1. query = NoQuery /\ query' = NoQuery
  BY DEF Execute
<1>2. /\ allExecuted'[w] = allExecuted[w] + 1 /\ events'[w] = events[w] - 1
      /\ cache'[w] = IF w \in enabled THEN Inspected(w, allExecuted'[w], now) ELSE NotCached
      /\ \A v \in Workflow \ {w} : /\ allExecuted'[v] = allExecuted[v]
                                   /\ events'[v] = events[v]
                                   /\ cache'[v] = cache[v]
  BY DEF Execute, TypeOK
<1>3. CountersAgree'
  <2>1. \A v \in Workflow : cache'[v] \in {NotCached, allExecuted'[v]}
    BY <1>2, InspectedValue DEF QuickInv, CountersAgree
  <2> QED
    BY <1>1, <2>1 DEF CountersAgree
<1>4. QueryIsComplete'
  BY <1>1 DEF QueryIsComplete
<1>5. AllDueCached'
  <2> SUFFICES ASSUME ~ behind, NEW v \in enabled \ raced
               PROVE  DueIsCached(v)'
    BY DEF AllDueCached, Execute
  <2>1. v \in Workflow /\ DueIsCached(v)
    BY <1>1 DEF TypeOK, QuickInv, AllDueCached
  <2>2. CASE v = w
    BY <1>2, <2>1, <2>2, InspectionCaches DEF Execute
  <2>3. CASE v # w
    BY <1>2, <2>1, <2>3, OthersStayCached DEF Execute
  <2> QED
    BY <2>2, <2>3
<1>6. LimitKept'
  <2> SUFFICES ASSUME NEW v \in Workflow, config[v].limit > 0
               PROVE  allExecuted'[v] + events'[v] <= config[v].limit
    BY DEF LimitKept, Execute
  <2>1. allExecuted[v] + events[v] <= config[v].limit
    BY DEF QuickInv, LimitKept
  <2>2. allExecuted[v] \in Nat /\ events[v] \in Nat
    BY DEF TypeOK
  <2> QED
    BY <1>2, <2>1, <2>2
<1> QED
  BY <1>3, <1>4, <1>5, <1>6 DEF QuickInv

LEMMA EnableIsQuick ==
    ASSUME ~ Slow, TypeOK, TypeOK', QuickInv, NEW w \in Workflow, Enable(w)
    PROVE  QuickInv'
<1>1. /\ query = NoQuery => query' = NoQuery
      /\ query' # NoQuery => /\ query # NoQuery
                             /\ query'.rows = query.rows
                             /\ query'.raced = query.raced \cup {w}
  BY ToggledQuery DEF Enable
<1>2. /\ cache'[w] = Inspected(w, allExecuted'[w], now)
      /\ \A v \in Workflow \ {w} : cache'[v] = cache[v]
      /\ allExecuted' = allExecuted
  BY DEF Enable, TypeOK
<1>3. CountersAgree'
  <2>1. \A v \in Workflow : cache'[v] \in {NotCached, allExecuted'[v]}
    BY <1>2, InspectedValue DEF QuickInv, CountersAgree
  <2> QED
    BY <1>1, <1>2, <2>1 DEF CountersAgree, QuickInv
<1>4. QueryIsComplete'
  BY <1>1 DEF Enable, QuickInv, QueryIsComplete
<1>5. AllDueCached'
  <2> SUFFICES ASSUME query' = NoQuery, ~ behind, NEW v \in enabled' \ raced
               PROVE  DueIsCached(v)'
    BY DEF AllDueCached, Enable
  <2>1. v \in Workflow /\ query = NoQuery
    BY DEF TypeOK, Enable, Toggled, Query, NoQuery
  <2>2. CASE v = w
    BY <1>2, <2>1, <2>2, InspectionCaches DEF Enable
  <2>3. CASE v # w
    <3>1. DueIsCached(v)
      BY <2>1, <2>3 DEF QuickInv, AllDueCached, Enable
    <3> QED
      BY <1>2, <2>1, <2>3, <3>1, OthersStayCached DEF Enable
  <2> QED
    BY <2>2, <2>3
<1>6. LimitKept'
  BY DEF LimitKept, Enable, QuickInv
<1> QED
  BY <1>3, <1>4, <1>5, <1>6 DEF QuickInv

LEMMA DisableIsQuick ==
    ASSUME ~ Slow, TypeOK, TypeOK', QuickInv, NEW w \in Workflow, Disable(w)
    PROVE  QuickInv'
<1>1. /\ query = NoQuery => query' = NoQuery
      /\ query' # NoQuery => /\ query # NoQuery
                             /\ query'.rows = query.rows
                             /\ query'.raced = query.raced \cup {w}
  BY ToggledQuery DEF Disable
<1>2. /\ cache'[w] = NotCached
      /\ \A v \in Workflow \ {w} : cache'[v] = cache[v]
      /\ allExecuted' = allExecuted
  BY DEF Disable, TypeOK
<1>3. CountersAgree'
  <2>1. \A v \in Workflow : cache'[v] \in {NotCached, allExecuted'[v]}
    BY <1>2 DEF QuickInv, CountersAgree
  <2> QED
    BY <1>1, <1>2, <2>1 DEF CountersAgree, QuickInv
<1>4. QueryIsComplete'
  BY <1>1 DEF Disable, QuickInv, QueryIsComplete
<1>5. AllDueCached'
  <2> SUFFICES ASSUME query' = NoQuery, ~ behind, NEW v \in enabled' \ raced
               PROVE  DueIsCached(v)'
    BY DEF AllDueCached, Disable
  <2>1. v \in Workflow /\ v # w /\ query = NoQuery
    BY DEF TypeOK, Disable, Toggled, Query, NoQuery
  <2>2. DueIsCached(v)
    BY <2>1 DEF QuickInv, AllDueCached, Disable
  <2> QED
    BY <1>2, <2>1, <2>2, OthersStayCached DEF Disable
<1>6. LimitKept'
  BY DEF LimitKept, Disable, QuickInv
<1> QED
  BY <1>3, <1>4, <1>5, <1>6 DEF QuickInv

LEMMA RestartIsQuick ==
    ASSUME ~ Slow, TypeOK, TypeOK', QuickInv, Restart
    PROVE  QuickInv'
<1>1. \A w \in Workflow :
         cache'[w] = IF w \in enabled THEN Inspected(w, allExecuted'[w], now') ELSE NotCached
  BY DEF Restart
<1>2. CountersAgree'
  BY <1>1, InspectedValue DEF CountersAgree, Restart
<1>3. QueryIsComplete'
  BY DEF Restart, QueryIsComplete
<1>4. AllDueCached'
  <2> SUFFICES ASSUME NEW w \in enabled
               PROVE  DueIsCached(w)'
    BY DEF AllDueCached, Restart
  <2>1. w \in Workflow
    BY DEF TypeOK
  <2> QED
    BY <1>1, <2>1, InspectionCaches DEF Restart
<1>5. LimitKept'
  <2> SUFFICES ASSUME NEW w \in Workflow, config[w].limit > 0
               PROVE  allExecuted[w] + 0 <= config[w].limit
    BY DEF LimitKept, Restart
  <2>1. allExecuted[w] + events[w] <= config[w].limit
    BY DEF QuickInv, LimitKept
  <2>2. allExecuted[w] \in Nat /\ events[w] \in Nat /\ config[w].limit \in Nat
    BY ConstantsAssumption DEF TypeOK, ConstantsAssumption
  <2> QED
    BY <2>1, <2>2
<1> QED
  BY <1>2, <1>3, <1>4, <1>5 DEF QuickInv

LEMMA QuickStep == ~ Slow /\ IInv /\ QuickInv /\ [Next]_vars => QuickInv'
<1> SUFFICES ASSUME ~ Slow, IInv, QuickInv, [Next]_vars
             PROVE  QuickInv'
  OBVIOUS
<1>1. TypeOK /\ TypeOK'
  BY StepHolds DEF IInv
<1>2. CASE Tick \/ LateTick
  BY <1>1, <1>2, LaterTick, TickIsQuick
<1>3. CASE Reload
  BY <1>1, <1>3, ReloadIsQuick
<1>4. CASE \E w \in Workflow : Execute(w)
  BY <1>1, <1>4, ExecuteIsQuick
<1>5. CASE \E w \in Workflow : Enable(w)
  BY <1>1, <1>5, EnableIsQuick
<1>6. CASE \E w \in Workflow : Disable(w)
  BY <1>1, <1>6, DisableIsQuick
<1>7. CASE Restart
  BY <1>1, <1>7, RestartIsQuick
<1>8. CASE UNCHANGED vars
  BY <1>8 DEF vars, QuickInv, CountersAgree, QueryIsComplete, AllDueCached, DueIsCached,
              Ahead, AheadOf, LimitKept
<1> QED
  BY <1>2, <1>3, <1>4, <1>5, <1>6, <1>7, <1>8 DEF Next

\* What the cache has when the second comes at which a workflow is due.
LEMMA DueIsTriggered ==
    ~ Slow /\ TypeOK /\ TypeOK' /\ QuickInv /\ [Next]_vars =>
      (now' # now /\ toggles' = toggles /\ ~ behind' =>
         \A w \in enabled \ raced :
            Due(config[w], now') /\ Within(config[w], allExecuted[w])
               => events'[w] = events[w] + 1)
<1> SUFFICES ASSUME ~ Slow, TypeOK, TypeOK', QuickInv, [Next]_vars,
                    now' # now, toggles' = toggles, ~ behind',
                    NEW w \in enabled \ raced,
                    Due(config[w], now'), Within(config[w], allExecuted[w])
             PROVE  events'[w] = events[w] + 1
  OBVIOUS
<1>1. Tick \/ LateTick
  BY DEF Next, vars, Reload, Execute, Enable, Disable, Restart, TypeOK
<1>2. PICK t \in Nat : t > now /\ TickAt(t)
  BY <1>1, LaterTick
<1>3. /\ w \in Workflow /\ now \in Nat /\ now' = t
      /\ query = NoQuery /\ ~ behind
      /\ config[w] \in Configs
  BY <1>2, ConstantsAssumption DEF TickAt, Settled, TypeOK, Time, ConstantsAssumption
<1>4. Ahead(t)
  BY <1>2, <1>3 DEF Ahead, AheadOf, TickAt
<1>5. cache[w] = allExecuted[w] /\ w \in Cached
  BY <1>3, <1>4 DEF QuickInv, AllDueCached, DueIsCached, CountersAgree, Cached
<1>6. /\ config[w].start \in Nat /\ config[w].cron \subseteq Nat
      /\ config[w].repeat \in Nat /\ config[w].end \in Nat
  BY <1>3, ConstantsAssumption DEF ConstantsAssumption
<1>7. MatchNext(config[w], t, 0) /\ Matches(config[w], t)
  BY <1>3, <1>6 DEF Due, MatchNext, Matches
<1>8. w \in Triggered(t)
  BY <1>3, <1>5, <1>7 DEF Triggered, ShouldTrigger
<1> QED
  BY <1>2, <1>3, <1>8 DEF TickAt

-----------------------------------------------------------------------------
(* Theorems *)

LEMMA Invariance == Spec => []IInv
  BY InitHolds, StepHolds, PTL DEF Spec

\* The variables of ScheduleTrigger keep their types, for every set of
\* workflows and configurations and however slow the database is.
THEOREM TypeCorrect == Spec => []TypeOK
  BY Invariance, PTL DEF IInv

\* What a user disabled is no more in the cache of the schedule trigger, but
\* for what was disabled while the query that filled the cache was answered.
THEOREM DisabledIsNotCached == Spec => []CachedIsEnabled
  BY Invariance, PTL DEF IInv

LEMMA QuickInvariance == ~ Slow /\ Spec => []QuickInv
<1>1. Init /\ ~ Slow => QuickInv
  BY QuickInit
<1>2. ASSUME ~ Slow
      PROVE  Spec => []QuickInv
  <2>1. IInv /\ QuickInv /\ [Next]_vars => QuickInv'
    BY <1>2, QuickStep
  <2> QED
    BY QuickInit, <2>1, Invariance, PTL DEF Spec
<1> QED
  BY <1>2

\* No workflow runs more often than its limit, for every set of workflows and
\* configurations, where a second is enough for the query and the executions.
THEOREM LimitHolds == ~ Slow /\ Spec => []LimitKept
<1>1. QuickInv => LimitKept
  BY DEF QuickInv
<1> QED
  BY <1>1, QuickInvariance, PTL

\* No run of an enabled workflow is missed in a second that has a tick, for every
\* length of the cached minute, every configuration and ticks as late as you
\* please that skip no full minute, where a second is enough.
THEOREM NoRunMissed == ~ Slow /\ Spec => NoneMissed
<1>1. ASSUME ~ Slow
      PROVE  Spec => NoneMissed
  <2>1. TypeOK /\ TypeOK' /\ QuickInv /\ [Next]_vars =>
          [now' # now /\ toggles' = toggles /\ ~ behind' =>
             \A w \in enabled \ raced :
                Due(config[w], now') /\ Within(config[w], allExecuted[w])
                   => events'[w] = events[w] + 1]_vars
    BY <1>1, DueIsTriggered
  <2>2. Spec => []QuickInv
    BY <1>1, QuickInvariance
  <2> QED
    BY <2>1, <2>2, TypeCorrect, PTL DEF Spec, NoneMissed
<1> QED
  BY <1>1

=============================================================================
