----------------------- MODULE WorkflowRevisionProofs -----------------------
(***************************************************************************)
(* Proofs about WorkflowRevision, for every set of versions, keys,         *)
(* collections and configurations: when requests run one after another, a  *)
(* workflow has one current version, and, when prepare() does not overlap  *)
(* with them, the listeners are those of the enabled versions and of those *)
(* that were disabled in the save of another configuration.                *)
(***************************************************************************)
EXTENDS WorkflowRevision, TLAPS

\* of the versions of k, c is the current one and only it may be enabled
IsCurrent(c, k) ==
    /\ c \in Rows /\ workflow[c].key = k /\ workflow[c].current = "true"
    /\ \A v \in Rows : workflow[v].key = k =>
          /\ workflow[v].current = "true" => v = c
          /\ workflow[v].enabled => v = c

\* OneCurrent, version by version
EachHasCurrent == \A v \in Rows : \E c \in Rows : IsCurrent(c, workflow[v].key)

LEMMA OneCurrentByVersion == EachHasCurrent => OneCurrent
<1> SUFFICES ASSUME EachHasCurrent, NEW k \in Key, Versions(k) # {}
             PROVE  \E c \in Versions(k) : /\ Current(k) = {c}
                                           /\ \A v \in Versions(k) : workflow[v].enabled => v = c
  BY DEF OneCurrent
<1> PICK v \in Rows : workflow[v].key = k
  BY DEF Versions
<1> PICK c \in Rows : IsCurrent(c, k)
  BY DEF EachHasCurrent
<1> QED
  BY DEF IsCurrent, Versions, Current

-----------------------------------------------------------------------------
(* Types *)

\* what a commit writes
Rowed(W) == DOMAIN W \subseteq Version /\ \A v \in DOMAIN W : W[v] \in Workflow

LEMMA CommitTyped ==
    ASSUME TypeOK, NEW W, NEW L, Commit(W, L), Rowed(W), L \subseteq Version \X Hook,
           request' = NoRequest \/ request' = request, leftover' \subseteq Version
    PROVE  TypeOK'
  BY DEF Commit, TypeOK, Rowed, Rows

LEMMA InsertedTyped ==
    ASSUME TypeOK, NEW v \in Version, NEW row \in Workflow
    PROVE  Rowed(Inserted(v, row))
  BY DEF Inserted, Rowed, TypeOK, Rows

LEMMA ConfigIsOfHooks == \A c \in Configs : c \subseteq Hook
  BY ConstantsAssumption DEF ConstantsAssumption, Hook

\* on() and off() add no other listeners
LEMMA ToggleTyped ==
    ASSUME NEW L \in SUBSET (Version \X Hook), NEW v \in Version, NEW row, row.config \in Configs,
           NEW enable
    PROVE  Toggle(L, v, row, enable) \subseteq Version \X Hook
  BY ConfigIsOfHooks DEF Toggle, On, Off

LEMMA SavedTyped ==
    ASSUME NEW L \in SUBSET (Version \X Hook), NEW v \in Version, NEW old,
           NEW c \in Configs, NEW e
    PROVE  Saved(L, v, old, c, e) \subseteq Version \X Hook
  BY ConfigIsOfHooks DEF Saved, On, Off

LEMMA ReplacedTyped ==
    ASSUME NEW L \in SUBSET (Version \X Hook), NEW S
    PROVE  Replaced(L, S) \subseteq Version \X Hook
  BY DEF Replaced

\* prepare() has rows of the versions that it read
ReadOK ==
    preparing # NoRequest =>
        /\ preparing[1] \in Version
        /\ DOMAIN preparing[2] \subseteq Version
        /\ \A v \in DOMAIN preparing[2] : preparing[2][v] \in Workflow

LEMMA ToggledAllTyped ==
    ASSUME NEW L \in SUBSET (Version \X Hook), NEW read, DOMAIN read \subseteq Version,
           \A v \in DOMAIN read : read[v] \in Workflow
    PROVE  ToggledAll(L, read) \subseteq Version \X Hook
<1>1. \A v \in DOMAIN read :
        Toggle({x \in L : x[1] = v}, v, read[v], read[v].enabled) \subseteq Version \X Hook
  BY ToggleTyped DEF Workflow
<1> QED
  BY <1>1 DEF ToggledAll

\* saving a version, its configuration and whether it is enabled
LEMMA SaveTyped ==
    ASSUME TypeOK, ReadOK, NEW v \in Rows, NEW c \in Configs, NEW e \in BOOLEAN, Save(v, c, e),
           request' = NoRequest \/ request' = request
    PROVE  TypeOK' /\ ReadOK'
<1> DEFINE W == SavedRows(v, c, e)
           M == Replaced(listeners, TurnedOff(v, e))
           L == Saved(M, v, workflow[v].config, c, e)
<1>1. Rowed(W)
  BY DEF Rowed, TypeOK, Rows, Workflow, SavedRows
<1>2. v \in Version
  BY DEF TypeOK
<1>3. M \subseteq Version \X Hook
  BY ReplacedTyped DEF TypeOK
<1> HIDE DEF M
<1>4. L \subseteq Version \X Hook
  BY <1>2, <1>3, SavedTyped
<1>5. Commit(W, L) /\ leftover' \subseteq Version
  BY <1>2 DEF Save, M, TypeOK
<1> HIDE DEF W, L
<1> QED
  BY <1>1, <1>4, <1>5, CommitTyped DEF Commit, ReadOK

LEMMA StepTyped == TypeOK /\ ReadOK /\ [Next]_vars => TypeOK' /\ ReadOK'
<1> SUFFICES ASSUME TypeOK, ReadOK, [Next]_vars
             PROVE  TypeOK' /\ ReadOK'
  OBVIOUS
<1>1. ASSUME NEW v \in Version, NEW k \in Key, Create(v, k)
      PROVE  TypeOK' /\ ReadOK'
  <2>1. [key |-> k, enabled |-> FALSE, current |-> "true", config |-> {}, executed |-> FALSE]
          \in Workflow
    BY ConstantsAssumption DEF Workflow, ConstantsAssumption
  <2> QED
    BY <1>1, <2>1, InsertedTyped, CommitTyped DEF Create, Commit, TypeOK, ReadOK
<1>2. ASSUME NEW v \in Version, Check(v)
      PROVE  TypeOK' /\ ReadOK'
  BY <1>2 DEF Check, TypeOK, ReadOK, Rows
<1>3. ASSUME NEW c \in Configs, NEW s \in Enabling, Configure(c, s)
      PROVE  TypeOK' /\ ReadOK'
  <2>1. CASE request[1] \in Rows
    <3> DEFINE v == request[1]
               e == s = "on" \/ (s = "kept" /\ workflow[v].enabled)
    <3>1. v \in Rows /\ c \in Configs /\ e \in BOOLEAN
      BY <1>3, <2>1 DEF Configure, TypeOK
    <3>2. Save(v, c, e) /\ request' = NoRequest
      BY <1>3, <2>1 DEF Configure
    <3> HIDE DEF v, e
    <3> QED
      BY <3>1, <3>2, SaveTyped
  <2>2. CASE request[1] \notin Rows
    BY <1>3, <2>2 DEF Configure, TypeOK, ReadOK, Rows
  <2> QED
    BY <2>1, <2>2
<1>4. ASSUME NEW v \in Version, NEW e \in BOOLEAN, Switch(v, e)
      PROVE  TypeOK' /\ ReadOK'
  <2>1. v \in Rows /\ workflow[v].config \in Configs /\ request' = request
    BY <1>4 DEF Switch, TypeOK, Workflow
  <2>2. Save(v, workflow[v].config, e)
    BY <1>4 DEF Switch
  <2> QED
    BY <2>1, <2>2, SaveTyped
<1>6. ASSUME NEW o \in Version, NEW v \in Version, NEW k \in Key, Revision(o, v, k)
      PROVE  TypeOK' /\ ReadOK'
  <2>1. [key |-> k, enabled |-> FALSE,
         current |-> IF Versions(k) = {} THEN "true" ELSE "false",
         config |-> workflow[o].config, executed |-> FALSE] \in Workflow
    BY <1>6 DEF Revision, Workflow, TypeOK
  <2> QED
    BY <1>6, <2>1, InsertedTyped, CommitTyped DEF Revision, Commit, TypeOK, ReadOK
<1>7. ASSUME NEW D \in SUBSET Version, Destroy(D)
      PROVE  TypeOK' /\ ReadOK'
  <2> DEFINE W == [v \in Rows \ Destroyed(D) |-> workflow[v]]
             L == Replaced(listeners, Destroyed(D))
  <2>1. Rowed(W)
    BY DEF Rowed, TypeOK, Rows
  <2>2. L \subseteq Version \X Hook
    BY ReplacedTyped DEF TypeOK
  <2>3. Commit(W, L) /\ request' = request /\ leftover' \subseteq Version
    BY <1>7 DEF Destroy, TypeOK
  <2> HIDE DEF W, L
  <2> QED
    BY <2>1, <2>2, <2>3, CommitTyped DEF Commit, ReadOK
<1>8. ASSUME NEW v \in Version, Trigger(v)
      PROVE  TypeOK' /\ ReadOK'
  BY <1>8 DEF Trigger, TypeOK, ReadOK, Rows
<1>9. ASSUME NEW v \in Version, Prepare(v)
      PROVE  TypeOK' /\ ReadOK'
  <2>1. \A k : Versions(k) \subseteq Rows
    BY DEF Versions
  <2> QED
    BY <1>9, <2>1 DEF Prepare, TypeOK, ReadOK, Rows, NoRequest
<1>10. CASE Count
  <2>1. ToggledAll(listeners, preparing[2]) \subseteq Version \X Hook
    BY <1>10, ToggledAllTyped DEF Count, TypeOK, ReadOK
  <2>2. \A v \in Rows' : workflow'[v] \in Workflow
    BY <1>10 DEF Count, TypeOK, Rows, Workflow
  <2> QED
    BY <1>10, <2>1, <2>2 DEF Count, TypeOK, ReadOK, Rows
<1>11. CASE Restart
  BY <1>11, ConfigIsOfHooks DEF Restart, Started, TypeOK, ReadOK, Rows, Workflow
<1>12. CASE UNCHANGED vars
  BY <1>12 DEF vars, TypeOK, ReadOK, Rows
<1> QED
  BY <1>1, <1>2, <1>3, <1>4, <1>6, <1>7, <1>8, <1>9, <1>10, <1>11, <1>12 DEF Next

LEMMA InitTyped == Init => TypeOK /\ ReadOK
  BY DEF Init, TypeOK, ReadOK, Rows, NoRequest

\* The versions, listeners, events and requests keep their types.
THEOREM TypeCorrect == Spec => []TypeOK
<1>1. Spec => [](TypeOK /\ ReadOK)
  BY InitTyped, StepTyped, PTL DEF Spec
<1> QED
  BY <1>1, PTL

-----------------------------------------------------------------------------
(* One version is current *)

\* A commit keeps it that every workflow has a current version when what it
\* writes does.
WritesCurrent(W) ==
    \A v \in DOMAIN W : \E c \in DOMAIN W :
        /\ W[c].key = W[v].key /\ W[c].current = "true"
        /\ \A x \in DOMAIN W : W[x].key = W[v].key =>
              /\ W[x].current = "true" => x = c
              /\ W[x].enabled => x = c

LEMMA WrittenIsCurrent == WritesCurrent(workflow) <=> EachHasCurrent
  BY DEF WritesCurrent, EachHasCurrent, IsCurrent, Rows

LEMMA CommitKeepsCurrent ==
    ASSUME EachHasCurrent, NEW W, NEW L, Commit(W, L), WritesCurrent(W)
    PROVE  EachHasCurrent'
<1>1. WritesCurrent(workflow')
  BY WrittenIsCurrent DEF Commit
<1> QED
  BY <1>1 DEF WritesCurrent, EachHasCurrent, IsCurrent, Rows

\* a save makes the version current that it enables, and turns the other one off
LEMMA SaveKeepsCurrent ==
    ASSUME TypeOK, EachHasCurrent, NEW v \in Rows, NEW c \in Configs, NEW e \in BOOLEAN,
           Save(v, c, e)
    PROVE  EachHasCurrent'
<1> DEFINE W == SavedRows(v, c, e)
           T == TurnedOff(v, e)
<1>1. DOMAIN W = Rows /\ \A x \in Rows : W[x].key = workflow[x].key
  BY DEF TypeOK, Workflow, SavedRows
<1>2. W[v].enabled = e /\ W[v].current = IF e THEN "true" ELSE workflow[v].current
  BY DEF TypeOK, Workflow, SavedRows
<1>3. \A x \in Rows : x \notin T /\ x # v => W[x] = workflow[x]
  BY DEF SavedRows
<1>4. \A x \in Rows : x \in T /\ x # v => W[x].current = "null" /\ ~ W[x].enabled
  BY DEF TypeOK, Workflow, SavedRows
<1>5. T \subseteq {x \in Rows : workflow[x].key = workflow[v].key} \ {v}
  BY DEF TurnedOff, Previous, Current, Versions
<1>6. Commit(W, Saved(Replaced(listeners, T), v, workflow[v].config, c, e))
  BY DEF Save
<1>7. ~ (e /\ ~ workflow[v].enabled) => T = {}
  BY DEF TurnedOff
<1>8. e /\ ~ workflow[v].enabled => T = Previous(v)
  BY DEF TurnedOff
<1> HIDE DEF W, T
<1>9. e => \A x \in Rows : workflow[x].key = workflow[v].key /\ x # v =>
              W[x].current # "true" /\ ~ W[x].enabled
  <2> SUFFICES ASSUME e, NEW x \in Rows, workflow[x].key = workflow[v].key, x # v
               PROVE  W[x].current # "true" /\ ~ W[x].enabled
    OBVIOUS
  <2>1. PICK y \in Rows : IsCurrent(y, workflow[v].key)
    BY DEF EachHasCurrent
  <2>2. CASE workflow[v].enabled
    BY <2>1, <2>2, <1>3, <1>7 DEF IsCurrent
  <2>3. CASE ~ workflow[v].enabled /\ x \in T
    BY <2>3, <1>4
  <2>4. CASE ~ workflow[v].enabled /\ x \notin T
    <3>1. workflow[x].current # "true"
      BY <2>4, <1>8 DEF Previous, Current, Versions
    <3>2. ~ workflow[x].enabled
      BY <2>1, <3>1 DEF IsCurrent
    <3> QED
      BY <2>4, <3>1, <3>2, <1>3
  <2> QED
    BY <2>2, <2>3, <2>4
<1>10. WritesCurrent(W)
  <2> SUFFICES ASSUME NEW y \in Rows
               PROVE  \E z \in Rows :
                        /\ W[z].key = W[y].key /\ W[z].current = "true"
                        /\ \A x \in Rows : W[x].key = W[y].key =>
                              /\ W[x].current = "true" => x = z
                              /\ W[x].enabled => x = z
    BY <1>1 DEF WritesCurrent
  <2>1. CASE e /\ workflow[y].key = workflow[v].key
    BY <2>1, <1>1, <1>2, <1>9
  <2>2. CASE e /\ workflow[y].key # workflow[v].key
    <3>1. \A x \in Rows : workflow[x].key = workflow[y].key => W[x] = workflow[x]
      BY <2>2, <1>3, <1>5
    <3> QED
      BY <3>1, <1>1 DEF EachHasCurrent, IsCurrent
  <2>3. CASE ~ e
    <3>1. \A x \in Rows : /\ W[x].current = workflow[x].current
                          /\ W[x].enabled => workflow[x].enabled
      BY <2>3, <1>2, <1>3, <1>7
    <3> QED
      BY <3>1, <1>1 DEF EachHasCurrent, IsCurrent
  <2> QED
    BY <2>1, <2>2, <2>3
<1> QED
  BY <1>6, <1>10, CommitKeepsCurrent

LEMMA StepKeepsCurrent == TypeOK /\ EachHasCurrent /\ [Next]_vars => EachHasCurrent'
<1> SUFFICES ASSUME TypeOK, EachHasCurrent, [Next]_vars
             PROVE  EachHasCurrent'
  OBVIOUS
<1>0. WritesCurrent(workflow)
  BY WrittenIsCurrent
<1>s. UNCHANGED workflow => EachHasCurrent'
  BY DEF EachHasCurrent, IsCurrent, Rows
<1>1. ASSUME NEW v \in Version, NEW k \in Key, Create(v, k)
      PROVE  EachHasCurrent'
  <2> DEFINE W == Inserted(v, [key |-> k, enabled |-> FALSE, current |-> "true",
                               config |-> {}, executed |-> FALSE])
  <2>1. WritesCurrent(W)
    BY <1>1, <1>0 DEF Create, Inserted, WritesCurrent, Rows, Versions
  <2>2. Commit(W, listeners)
    BY <1>1 DEF Create
  <2> HIDE DEF W
  <2> QED
    BY <2>1, <2>2, CommitKeepsCurrent
<1>2. ASSUME NEW c \in Configs, NEW s \in Enabling, Configure(c, s)
      PROVE  EachHasCurrent'
  <2>1. CASE request[1] \in Rows
    <3> DEFINE v == request[1]
               e == s = "on" \/ (s = "kept" /\ workflow[v].enabled)
    <3>1. v \in Rows /\ c \in Configs /\ e \in BOOLEAN
      BY <1>2, <2>1 DEF Configure, TypeOK
    <3>2. Save(v, c, e)
      BY <1>2, <2>1 DEF Configure
    <3> HIDE DEF v, e
    <3> QED
      BY <3>1, <3>2, SaveKeepsCurrent
  <2>2. CASE request[1] \notin Rows
    BY <1>2, <1>s, <2>2 DEF Configure
  <2> QED
    BY <2>1, <2>2
<1>3. ASSUME NEW v \in Version, NEW e \in BOOLEAN, Switch(v, e)
      PROVE  EachHasCurrent'
  <2>1. v \in Rows /\ workflow[v].config \in Configs /\ Save(v, workflow[v].config, e)
    BY <1>3 DEF Switch, TypeOK, Workflow
  <2> QED
    BY <2>1, SaveKeepsCurrent
<1>5. ASSUME NEW o \in Version, NEW v \in Version, NEW k \in Key, Revision(o, v, k)
      PROVE  EachHasCurrent'
  <2> DEFINE row == [key |-> k, enabled |-> FALSE,
                     current |-> IF Versions(k) = {} THEN "true" ELSE "false",
                     config |-> workflow[o].config, executed |-> FALSE]
             W == Inserted(v, row)
  <2>1. /\ v \notin Rows /\ row.key = k /\ ~ row.enabled
        /\ row.current = IF Versions(k) = {} THEN "true" ELSE "false"
    BY <1>5 DEF Revision
  <2>2. Commit(W, listeners)
    BY <1>5 DEF Revision
  <2> HIDE DEF row
  <2>3. CASE Versions(k) = {}
    <3>1. WritesCurrent(W)
      BY <2>1, <2>3, <1>0 DEF Inserted, WritesCurrent, Rows, Versions
    <3> HIDE DEF W
    <3> QED
      BY <2>2, <3>1, CommitKeepsCurrent
  <2>4. CASE Versions(k) # {}
    <3>1. \E x \in Rows : workflow[x].key = k
      BY <2>4 DEF Versions
    <3>2. row.current = "false"
      BY <2>1, <2>4
    <3>3. WritesCurrent(W)
      BY <2>1, <3>1, <3>2, <1>0 DEF Inserted, WritesCurrent, Rows
    <3> HIDE DEF W
    <3> QED
      BY <2>2, <3>3, CommitKeepsCurrent
  <2> QED
    BY <2>3, <2>4
<1>6. ASSUME NEW D \in SUBSET Version, Destroy(D)
      PROVE  EachHasCurrent'
  <2> DEFINE W == [v \in Rows \ Destroyed(D) |-> workflow[v]]
  <2>1. D \subseteq Rows
    BY <1>6 DEF Destroy
  <2>2. \A c, v \in Rows : /\ workflow[c].current = "true"
                           /\ workflow[c].key = workflow[v].key
                           /\ c \in Destroyed(D)
                           /\ workflow[v].current # "true" \/ v = c
                           => v \in Destroyed(D)
    BY DEF Destroyed
  <2>3. WritesCurrent(W)
    BY <2>2 DEF WritesCurrent, EachHasCurrent, IsCurrent
  <2>4. Commit(W, Replaced(listeners, Destroyed(D)))
    BY <1>6 DEF Destroy
  <2> HIDE DEF W
  <2> QED
    BY <2>3, <2>4, CommitKeepsCurrent
<1>7. CASE Count
  <2> DEFINE W == [workflow EXCEPT ![preparing[1]].executed = TRUE]
  <2>1. WritesCurrent(W)
    BY <1>0 DEF WritesCurrent, TypeOK, Rows, Workflow
  <2>2. workflow' = W
    BY <1>7 DEF Count
  <2> HIDE DEF W
  <2> QED
    BY <2>1, <2>2 DEF WritesCurrent, EachHasCurrent, IsCurrent, Rows
<1>8. ASSUME NEW v \in Version, Check(v)
      PROVE  EachHasCurrent'
  BY <1>8, <1>s DEF Check
<1>9. ASSUME NEW v \in Version, Trigger(v) \/ Prepare(v)
      PROVE  EachHasCurrent'
  BY <1>9, <1>s DEF Trigger, Prepare
<1>10. CASE Restart
  BY <1>10, <1>s DEF Restart
<1>11. CASE UNCHANGED vars
  BY <1>11, <1>s DEF vars
<1> QED
  BY <1>1, <1>2, <1>3, <1>5, <1>6, <1>7, <1>8, <1>9, <1>10, <1>11 DEF Next

\* Of the versions of a workflow exactly one is current, and no other one is
\* enabled, however many versions there are and whatever requests revise,
\* enable, disable, configure and delete them, one request after another; the
\* transaction of prepare() may fall between them, and any may roll back.
THEOREM CurrentIsOne == Spec => []OneCurrent
<1>1. Init => EachHasCurrent
  BY DEF Init, EachHasCurrent, Rows
<1>2. Spec => [](TypeOK /\ EachHasCurrent)
  BY <1>1, TypeCorrect, StepKeepsCurrent, PTL DEF Spec
<1> QED
  BY <1>2, OneCurrentByVersion, PTL

-----------------------------------------------------------------------------
(* The listeners, when prepare() does not overlap with requests *)

\* The listeners L have those of the rows W; others are of versions in X.
Hears(L, W, X) ==
    \A v \in Version, h \in Hook :
        /\ v \in DOMAIN W /\ W[v].enabled /\ h \in W[v].config => <<v, h>> \in L
        /\ <<v, h>> \in L /\ v \notin X => v \in DOMAIN W /\ W[v].enabled /\ h \in W[v].config

LEMMA HearsStarted ==
    TypeOK /\ Hears(listeners, workflow, leftover) =>
        /\ Started \subseteq listeners
        /\ \A x \in listeners \ Started : x[1] \in leftover
<1> SUFFICES ASSUME TypeOK, Hears(listeners, workflow, leftover)
             PROVE  /\ Started \subseteq listeners
                    /\ \A x \in listeners \ Started : x[1] \in leftover
  OBVIOUS
<1>1. \A x \in Version \X Hook : /\ x \in Started => x \in listeners
                                 /\ x \in listeners /\ x[1] \notin leftover => x \in Started
  BY DEF Hears, Started, Rows, TypeOK
<1>2. Started \subseteq Version \X Hook
  BY DEF Started, TypeOK
<1> QED
  BY <1>1, <1>2 DEF TypeOK

\* the rows that prepare() read are as they were
ReadIsNow ==
    preparing # NoRequest =>
        \A v \in DOMAIN preparing[2] : v \in Rows /\ workflow[v] = preparing[2][v]

Agree == (~ failed => Hears(listeners, workflow, leftover)) /\ ReadIsNow

\* a commit keeps the listeners in agreement when what it writes is
LEMMA CommitHears ==
    ASSUME NEW W, NEW L, Commit(W, L), Hears(L, W, leftover'), preparing = NoRequest
    PROVE  Agree'
  BY DEF Commit, Agree, ReadIsNow

\* on() and off() leave the listeners of other versions as they are
LEMMA OnHears ==
    ASSUME NEW L, NEW v, NEW c, NEW x \in Version, NEW h \in Hook
    PROVE  /\ x # v => (<<x, h>> \in On(L, v, c) <=> <<x, h>> \in L)
           /\ h \in c => <<v, h>> \in On(L, v, c)
           /\ <<v, h>> \in On(L, v, c) => h \in c \/ <<v, h>> \in L
  BY DEF On

LEMMA OffHears ==
    ASSUME NEW L, NEW v, NEW c, NEW x \in Version, NEW h \in Hook
    PROVE  /\ x # v => (<<x, h>> \in Off(L, v, c) <=> <<x, h>> \in L)
           /\ <<v, h>> \in Off(L, v, c) <=> <<v, h>> \in L /\ h \notin c
  BY DEF Off

LEMMA ToggleHears ==
    ASSUME NEW v, NEW row, NEW enable, NEW x \in Version, NEW h \in Hook
    PROVE  LET L == Toggle({y \in listeners : y[1] = v}, v, row, enable)
           IN /\ <<x, h>> \in L =>
                    x = v /\ (<<x, h>> \in listeners \/ (enable /\ h \in row.config))
              /\ x = v /\ enable /\ h \in row.config => <<x, h>> \in L
<1> DEFINE M == {y \in listeners : y[1] = v}
           L == Toggle(M, v, row, enable)
           Goal == /\ <<x, h>> \in L =>
                         x = v /\ (<<x, h>> \in listeners \/ (enable /\ h \in row.config))
                   /\ x = v /\ enable /\ h \in row.config => <<x, h>> \in L
<1>1. <<x, h>> \in M <=> x = v /\ <<x, h>> \in listeners
  OBVIOUS
<1> HIDE DEF M
<1>2. ASSUME enable PROVE Goal
  <2>1. L = On(M, v, row.config)
    BY <1>2 DEF Toggle
  <2> HIDE DEF L
  <2> QED
    BY <1>1, <1>2, <2>1, OnHears
<1>3. ASSUME ~ enable PROVE Goal
  <2>1. L = Off(M, v, row.config)
    BY <1>3 DEF Toggle
  <2> HIDE DEF L
  <2>2. /\ x # v => (<<x, h>> \in L <=> <<x, h>> \in M)
        /\ <<v, h>> \in L => <<v, h>> \in M
    BY <2>1, OffHears
  <2> QED
    BY <1>1, <1>3, <2>2
<1>4. Goal
  BY <1>2, <1>3
<1> HIDE DEF Goal
<1> QED
  BY <1>4 DEF Goal, M

LEMMA ReplacedHears ==
    ASSUME NEW S, NEW x \in Version, NEW h \in Hook
    PROVE  <<x, h>> \in Replaced(listeners, S) <=>
              <<x, h>> \in listeners /\ ~ (x \in S /\ h \in workflow[x].config)
  BY DEF Replaced

\* the listeners of a version that is saved: those of its configuration, when
\* it is enabled, and those left over
LEMMA SavedHears ==
    ASSUME NEW L, NEW v \in Version, NEW old, NEW c, NEW e \in BOOLEAN,
           NEW x \in Version, NEW h \in Hook
    PROVE  /\ x # v => (<<x, h>> \in Saved(L, v, old, c, e) <=> <<x, h>> \in L)
           /\ e /\ h \in c => <<v, h>> \in Saved(L, v, old, c, e)
           /\ <<v, h>> \in Saved(L, v, old, c, e) =>
                 \/ e /\ h \in c
                 \/ e /\ <<v, h>> \in L /\ (c # old => h \notin old)
                 \/ ~ e /\ <<v, h>> \in L /\ h \notin c
<1> DEFINE former == IF c # old THEN old ELSE {}
           M == Off(L, v, former)
<1>1. CASE e
  <2>1. Saved(L, v, old, c, e) = On(M, v, c)
    BY <1>1 DEF Saved
  <2>2. /\ x # v => (<<x, h>> \in M <=> <<x, h>> \in L)
        /\ <<v, h>> \in M <=> <<v, h>> \in L /\ h \notin former
    BY OffHears
  <2> HIDE DEF M
  <2>3. /\ x # v => (<<x, h>> \in On(M, v, c) <=> <<x, h>> \in M)
        /\ h \in c => <<v, h>> \in On(M, v, c)
        /\ <<v, h>> \in On(M, v, c) => h \in c \/ <<v, h>> \in M
    BY OnHears
  <2> QED
    BY <1>1, <2>1, <2>2, <2>3
<1>2. CASE ~ e
  BY <1>2, OffHears DEF Saved
<1> QED
  BY <1>1, <1>2

\* a save keeps the agreement, or leaves the listeners of its version over
LEMMA SaveAgrees ==
    ASSUME TypeOK, Agree, preparing = NoRequest,
           NEW v \in Rows, NEW c \in Configs, NEW e \in BOOLEAN, Save(v, c, e)
    PROVE  Agree'
<1> DEFINE W == SavedRows(v, c, e)
           T == TurnedOff(v, e)
           M == Replaced(listeners, T)
           old == workflow[v].config
           L == Saved(M, v, old, c, e)
<1>1. Commit(W, L)
  BY DEF Save
<1>2. Hears(listeners, workflow, leftover)
  BY <1>1 DEF Commit, Agree
<1>3. v \in Version /\ T \subseteq Rows \ {v}
  BY DEF TypeOK, TurnedOff, Previous, Current, Versions
<1>4. /\ DOMAIN W = Rows /\ W[v].enabled = e /\ W[v].config = c
      /\ \A x \in T : ~ W[x].enabled
      /\ \A x \in Rows : x # v /\ x \notin T => W[x] = workflow[x]
  <2>1. DOMAIN W = Rows /\ W[v].enabled = e /\ W[v].config = c
    BY DEF TypeOK, Workflow, SavedRows
  <2>2. \A x \in T : ~ W[x].enabled
    BY <1>3 DEF TypeOK, Workflow, SavedRows
  <2>3. \A x \in Rows : x # v /\ x \notin T => W[x] = workflow[x]
    BY DEF SavedRows
  <2> QED
    BY <2>1, <2>2, <2>3
<1>5. /\ leftover \subseteq leftover'
      /\ workflow[v].enabled /\ ~ e /\ c # old => v \in leftover'
  BY DEF Save
<1>6. \A x \in Version, h \in Hook :
         <<x, h>> \in M <=> <<x, h>> \in listeners /\ ~ (x \in T /\ h \in workflow[x].config)
  BY ReplacedHears
<1> HIDE DEF M
<1>7. \A x \in Version, h \in Hook :
         /\ x # v => (<<x, h>> \in L <=> <<x, h>> \in M)
         /\ e /\ h \in c => <<v, h>> \in L
         /\ <<v, h>> \in L => \/ e /\ h \in c
                              \/ e /\ <<v, h>> \in M /\ (c # old => h \notin old)
                              \/ ~ e /\ <<v, h>> \in M /\ h \notin c
  <2> SUFFICES ASSUME NEW x \in Version, NEW h \in Hook
               PROVE  /\ x # v => (<<x, h>> \in L <=> <<x, h>> \in M)
                      /\ e /\ h \in c => <<v, h>> \in L
                      /\ <<v, h>> \in L => \/ e /\ h \in c
                                           \/ e /\ <<v, h>> \in M /\ (c # old => h \notin old)
                                           \/ ~ e /\ <<v, h>> \in M /\ h \notin c
    OBVIOUS
  <2> HIDE DEF old
  <2> QED
    BY <1>3, SavedHears
<1> HIDE DEF W, T, L
<1>8. Hears(L, W, leftover')
  <2> SUFFICES ASSUME NEW x \in Version, NEW h \in Hook
               PROVE  /\ x \in Rows /\ W[x].enabled /\ h \in W[x].config => <<x, h>> \in L
                      /\ <<x, h>> \in L /\ x \notin leftover' =>
                            x \in Rows /\ W[x].enabled /\ h \in W[x].config
    BY <1>4 DEF Hears
  <2>1. /\ x \in Rows /\ workflow[x].enabled /\ h \in workflow[x].config => <<x, h>> \in listeners
        /\ <<x, h>> \in listeners /\ x \notin leftover =>
              x \in Rows /\ workflow[x].enabled /\ h \in workflow[x].config
    BY <1>2 DEF Hears, Rows
  <2>2. CASE x = v
    BY <2>1, <2>2, <1>4, <1>5, <1>6, <1>7
  <2>3. CASE x # v
    BY <2>1, <2>3, <1>4, <1>5, <1>6, <1>7
  <2> QED
    BY <2>2, <2>3
<1> QED
  BY <1>1, <1>8, CommitHears

\* what is toggled with the state that it has keeps the agreement
LEMMA ToggledAllHears ==
    ASSUME TypeOK, Hears(listeners, workflow, leftover), NEW read,
           \A v \in DOMAIN read : v \in Rows /\ workflow[v] = read[v]
    PROVE  Hears(ToggledAll(listeners, read), workflow, leftover)
<1> SUFFICES ASSUME NEW x \in Version, NEW h \in Hook
             PROVE  /\ x \in Rows /\ workflow[x].enabled /\ h \in workflow[x].config =>
                          <<x, h>> \in ToggledAll(listeners, read)
                    /\ <<x, h>> \in ToggledAll(listeners, read) /\ x \notin leftover =>
                          x \in Rows /\ workflow[x].enabled /\ h \in workflow[x].config
  BY DEF Hears, Rows
<1>0. /\ x \in Rows /\ workflow[x].enabled /\ h \in workflow[x].config => <<x, h>> \in listeners
      /\ <<x, h>> \in listeners /\ x \notin leftover =>
            x \in Rows /\ workflow[x].enabled /\ h \in workflow[x].config
  BY DEF Hears, Rows
<1> DEFINE T(v) == Toggle({y \in listeners : y[1] = v}, v, read[v], read[v].enabled)
<1>1. \A v \in DOMAIN read :
        /\ <<x, h>> \in T(v) => x = v /\ (<<x, h>> \in listeners \/ (read[v].enabled /\ h \in read[v].config))
        /\ x = v /\ read[v].enabled /\ h \in read[v].config => <<x, h>> \in T(v)
  BY ToggleHears
<1>2. <<x, h>> \in ToggledAll(listeners, read) <=>
        \/ <<x, h>> \in listeners /\ x \notin DOMAIN read
        \/ \E v \in DOMAIN read : <<x, h>> \in T(v)
  BY DEF ToggledAll
<1> HIDE DEF T
<1> QED
  BY <1>0, <1>1, <1>2

LEMMA StepAgrees ==
    ASSUME ~ Concurrent
    PROVE  TypeOK /\ ReadOK /\ Agree /\ [Next]_vars => Agree'
<1> SUFFICES ASSUME TypeOK, ReadOK, Agree, [Next]_vars
             PROVE  Agree'
  OBVIOUS
<1>f. \A S : Free(S) => preparing = NoRequest
  BY DEF Free
<1>s. UNCHANGED <<workflow, listeners, preparing, failed, leftover>> => Agree'
  BY DEF Agree, ReadIsNow, Hears, Rows
<1>1. ASSUME NEW v \in Version, NEW k \in Key, Create(v, k)
      PROVE  Agree'
  <2> DEFINE row == [key |-> k, enabled |-> FALSE, current |-> "true",
                     config |-> {}, executed |-> FALSE]
  <2>1. Hears(listeners, Inserted(v, row), leftover')
    BY <1>1 DEF Create, Commit, Agree, Hears, Inserted, Rows
  <2> QED
    BY <1>1, <1>f, <2>1, CommitHears DEF Create
<1>2. ASSUME NEW c \in Configs, NEW s \in Enabling, Configure(c, s)
      PROVE  Agree'
  <2>1. CASE request[1] \in Rows
    <3> DEFINE v == request[1]
               e == s = "on" \/ (s = "kept" /\ workflow[v].enabled)
    <3>1. v \in Rows /\ c \in Configs /\ e \in BOOLEAN
      BY <1>2, <2>1 DEF Configure, TypeOK
    <3>2. Save(v, c, e)
      BY <1>2, <2>1 DEF Configure
    <3>3. preparing = NoRequest
      BY <3>2, <1>f DEF Save
    <3> HIDE DEF v, e
    <3> QED
      BY <3>1, <3>2, <3>3, SaveAgrees
  <2>2. CASE request[1] \notin Rows
    BY <1>2, <1>s, <2>2 DEF Configure
  <2> QED
    BY <2>1, <2>2
<1>3. ASSUME NEW v \in Version, NEW e \in BOOLEAN, Switch(v, e)
      PROVE  Agree'
  <2>1. v \in Rows /\ workflow[v].config \in Configs /\ Save(v, workflow[v].config, e)
    BY <1>3 DEF Switch, TypeOK, Workflow
  <2>2. preparing = NoRequest
    BY <2>1, <1>f DEF Save
  <2> QED
    BY <2>1, <2>2, SaveAgrees
<1>5. ASSUME NEW o \in Version, NEW v \in Version, NEW k \in Key, Revision(o, v, k)
      PROVE  Agree'
  <2> DEFINE row == [key |-> k, enabled |-> FALSE,
                     current |-> IF Versions(k) = {} THEN "true" ELSE "false",
                     config |-> workflow[o].config, executed |-> FALSE]
  <2>1. Hears(listeners, Inserted(v, row), leftover')
    BY <1>5 DEF Revision, Commit, Agree, Hears, Inserted, Rows
  <2> QED
    BY <1>5, <1>f, <2>1, CommitHears DEF Revision
<1>6. ASSUME NEW D \in SUBSET Version, Destroy(D)
      PROVE  Agree'
  <2> DEFINE W == [v \in Rows \ Destroyed(D) |-> workflow[v]]
             L == Replaced(listeners, Destroyed(D))
  <2>1. Commit(W, L) /\ preparing = NoRequest /\ leftover' = leftover
    BY <1>6, <1>f DEF Destroy
  <2>2. Hears(listeners, workflow, leftover)
    BY <2>1 DEF Commit, Agree
  <2>3. \A x \in Version, h \in Hook :
           <<x, h>> \in L <=> <<x, h>> \in listeners /\ ~ (x \in Destroyed(D) /\ h \in workflow[x].config)
    BY ReplacedHears
  <2> HIDE DEF L
  <2>4. Hears(L, W, leftover)
    BY <2>2, <2>3 DEF Hears, Rows
  <2> HIDE DEF W
  <2> QED
    BY <2>1, <2>4, CommitHears
<1>7. ASSUME NEW v \in Version, Prepare(v)
      PROVE  Agree'
  <2>1. \A k : Versions(k) \subseteq Rows
    BY DEF Versions
  <2> QED
    BY <1>7, <2>1 DEF Prepare, Agree, ReadIsNow, Hears, Rows, NoRequest
<1>8. CASE Count
  <2> DEFINE W == [workflow EXCEPT ![preparing[1]].executed = TRUE]
             L == ToggledAll(listeners, preparing[2])
  <2>1. /\ workflow' = W /\ listeners' = L /\ failed' = failed /\ preparing' = NoRequest
        /\ leftover' = leftover
    BY <1>8 DEF Count
  <2>2. /\ DOMAIN W = Rows
        /\ \A x \in Rows : W[x].enabled = workflow[x].enabled /\ W[x].config = workflow[x].config
    BY DEF Rows, TypeOK, Workflow
  <2>3. ~ failed => Hears(L, workflow, leftover)
    BY <1>8, ToggledAllHears DEF Count, Agree, ReadIsNow
  <2> HIDE DEF W, L
  <2>4. ~ failed => Hears(L, W, leftover)
    BY <2>2, <2>3 DEF Hears, Rows
  <2> QED
    BY <2>1, <2>4 DEF Agree, ReadIsNow
<1>9. CASE Restart
  <2>1. Hears(Started, workflow, {})
    BY DEF Hears, Started, Rows
  <2> QED
    BY <1>9, <2>1 DEF Restart, Agree, ReadIsNow
<1>10. ASSUME NEW v \in Version, Check(v)
       PROVE  Agree'
  BY <1>10, <1>s DEF Check
<1>11. ASSUME NEW v \in Version, Trigger(v)
       PROVE  Agree'
  BY <1>11, <1>s DEF Trigger
<1>12. CASE UNCHANGED vars
  BY <1>12, <1>s DEF vars
<1> QED
  BY <1>1, <1>2, <1>3, <1>5, <1>6, <1>7, <1>8, <1>9, <1>10, <1>11, <1>12 DEF Next

\* When prepare() does not overlap with requests, every enabled workflow has
\* the listeners of the configuration it has, and there are no others but for
\* the workflows that one save disabled and gave another configuration, until
\* a transaction rolls back after its hooks.
THEOREM ListenersOfEnabled ==
    ASSUME ~ Concurrent
    PROVE  Spec => []ListenersAgree
<1>1. Init => TypeOK /\ ReadOK /\ Agree
  BY InitTyped DEF Init, Agree, Hears, ReadIsNow
<1>2. TypeOK /\ ReadOK /\ Agree /\ [Next]_vars => (TypeOK /\ ReadOK /\ Agree)'
  BY StepTyped, StepAgrees
<1>3. TypeOK /\ ReadOK /\ Agree => ListenersAgree
  BY HearsStarted DEF Agree, ListenersAgree
<1> QED
  BY <1>1, <1>2, <1>3, PTL DEF Spec

=============================================================================
