-------------------------- MODULE ManualTaskProofs --------------------------
(***************************************************************************)
(* Proofs about ManualTask, for any users, assignees and submissions: the  *)
(* answers that decide are never left uncounted, and, when a user sends    *)
(* one submission at a time, a job for all of them is not resolved before  *)
(* each has.                                                               *)
(***************************************************************************)
EXTENDS ManualTask, FiniteSetTheorems, TLAPS

-----------------------------------------------------------------------------
(* The decisions *)

LEMMA DecisionsType == TypeOK => Decisions \subseteq Status
<1> SUFFICES ASSUME TypeOK  PROVE  Decisions \subseteq Status
  OBVIOUS
<1>1. CASE mode = "single"
  BY <1>1 DEF Decisions, TypeOK, Status
<1>2. CASE mode # "single"
  BY <1>2 DEF Decisions, TypeOK, Status
<1> QED
  BY <1>1, <1>2

\* they depend on the tasks and the mode only
LEMMA DecisionsStay ==
    ASSUME UNCHANGED <<mode, task>>
    PROVE  Decisions' = Decisions
BY DEF Decisions, Count

-----------------------------------------------------------------------------
(* Types *)

LEMMA TypeInit == Init => TypeOK
<1> SUFFICES ASSUME Init  PROVE  TypeOK
  OBVIOUS
<1>1. task \in [Assigned -> Status]
  BY DEF Init, Status
<1>2. request \in [Requests -> [step : {"idle", "checked", "committed", "fetched"},
                                answer : Status, seen : {"STARTED", "ENDED"}]]
  BY DEF Init, Idle, Status
<1>3. queue \in Seq({"STARTED", "ENDED"})
  BY DEF Init
<1>4. run \in [step : {"idle", "count", "save"}, status : Status]
  BY DEF Init, NoRun, Status
<1>5. resumes \in 0..MaxResumes
  BY ConstantsAssumption DEF Init, ConstantsAssumption
<1> QED
  BY <1>1, <1>2, <1>3, <1>4, <1>5 DEF Init, TypeOK, Status

LEMMA TypeNext == TypeOK /\ [Next]_vars => TypeOK'
<1> SUFFICES ASSUME TypeOK, [Next]_vars  PROVE  TypeOK'
  OBVIOUS
<1> USE ConstantsAssumption DEF ConstantsAssumption, TypeOK
<1>1. ASSUME NEW r \in Requests, NEW s \in Status, Submit(r, s)  PROVE TypeOK'
  <2>1. [Idle EXCEPT !.step = "checked", !.answer = s]
            \in [step : {"idle", "checked", "committed", "fetched"},
                answer : Status, seen : {"STARTED", "ENDED"}]
    BY DEF Idle
  <2>2. resumes' \in 0..MaxResumes
    BY <1>1 DEF Submit
  <2> QED
    BY <1>1, <2>1, <2>2 DEF Submit
<1>2. ASSUME NEW r \in Requests, Commit(r)  PROVE TypeOK'
  BY <1>2 DEF Commit
<1>3. ASSUME NEW r \in Requests, Fetch(r)  PROVE TypeOK'
  BY <1>3 DEF Fetch
<1>4. ASSUME NEW r \in Requests, Push(r)  PROVE TypeOK'
  BY <1>4 DEF Push, Idle, Status
<1>5. CASE Begin
  BY <1>5 DEF Begin, NoRun, Status
<1>6. CASE Decide
  BY <1>6, DecisionsType DEF Decide
<1>7. CASE Save
  BY <1>7 DEF Save, NoRun, Status
<1>8. CASE EndElsewhere
  BY <1>8 DEF EndElsewhere
<1>9. CASE Toggle
  BY <1>9 DEF Toggle
<1>10. CASE Restart
  BY <1>10 DEF Restart, Idle, NoRun, Status
<1>11. CASE UNCHANGED vars
  BY <1>11 DEF vars
<1> QED
  BY <1>1, <1>2, <1>3, <1>4, <1>5, <1>6, <1>7, <1>8, <1>9, <1>10, <1>11 DEF Next, Step

\* The tables, the submissions and the queue of resumptions are well-typed.
THEOREM TypeCorrect == Spec => []TypeOK
<1>1. Init => TypeOK
  BY TypeInit
<1>2. TypeOK /\ [Next]_vars => TypeOK'
  BY TypeNext
<1> QED
  BY <1>1, <1>2, PTL DEF Spec

-----------------------------------------------------------------------------
(* The answers are counted *)

\* a resumption that has still to count them
Coming ==
    \/ \E r \in Requests : request[r].step = "committed"
    \/ \E r \in Requests : request[r].step = "fetched" /\ request[r].seen = "STARTED"
    \/ \E i \in DOMAIN queue : queue[i] = "STARTED"
    \/ run.step = "count"

\* a resumption that counted too early, and is about to save the job as
\* pending, has another one behind it
EarlyHasNext ==
    (/\ execution = "STARTED"
     /\ "PENDING" \notin Decisions
     /\ run.step = "save"
     /\ run.status = "PENDING") => Coming

CountInv == TypeOK /\ EarlyHasNext /\ DecisionIsComing

\* nobody decides a job before its users answer
LEMMA FirstPending == Init /\ Assignees # <<>> => Decisions = {"PENDING"}
<1> SUFFICES ASSUME Init, Assignees # <<>>  PROVE  Decisions = {"PENDING"}
  OBVIOUS
<1>1. ASSUME NEW s \in {"RESOLVED", "FAILED"}  PROVE  Count(s) = 0
  <2>1. {u \in Assigned : task[u] = s} = {}
    BY DEF Init
  <2> QED
    BY <2>1, FS_EmptySet DEF Count
<1>2. Len(Assignees) # 0
  BY ConstantsAssumption
<1>3. {u \in Assigned : task[u] # "PENDING"} = {}
  BY DEF Init
<1> QED
  BY <1>1, <1>2, <1>3 DEF Decisions, Init, Mode

LEMMA CountInit == Init /\ Assignees # <<>> => CountInv
BY TypeInit, FirstPending DEF Init, NoRun, CountInv, EarlyHasNext, DecisionIsComing

\* what is coming stays, until it is counted
LEMMA ComingStays ==
    ASSUME CountInv, Coming, execution = "STARTED", Next, execution' = "STARTED"
    PROVE  Coming' \/ Restart \/ Decide
<1> USE DEF CountInv, TypeOK, Coming
<1>1. ASSUME NEW r \in Requests, NEW s \in Status, Submit(r, s)  PROVE Coming'
  BY <1>1 DEF Submit, InFlight, Idle
<1>2. ASSUME NEW r \in Requests, Commit(r)  PROVE Coming'
  BY <1>2 DEF Commit
<1>3. ASSUME NEW r \in Requests, Fetch(r)  PROVE Coming'
  BY <1>3 DEF Fetch
<1>4. ASSUME NEW r \in Requests, Push(r)  PROVE Coming'
  <2>1. ASSUME NEW q \in Requests, q # r  PROVE request'[q] = request[q]
    BY <1>4, <2>1 DEF Push
  <2>2. /\ request[r].step = "fetched"
        /\ run' = run
        /\ queue' = Append(queue, request[r].seen)
    BY <1>4 DEF Push
  <2>3. request[r].seen = "STARTED" => queue'[Len(queue')] = "STARTED" /\ Len(queue') \in DOMAIN queue'
    BY <2>2
  <2>4. \A i \in DOMAIN queue : i \in DOMAIN queue' /\ queue'[i] = queue[i]
    BY <2>2
  <2> QED
    BY <2>1, <2>2, <2>3, <2>4
<1>5. ASSUME Begin  PROVE Coming'
  <2>1. /\ queue # <<>>
        /\ queue' = Tail(queue)
        /\ run' = IF Head(queue) = "STARTED" THEN [NoRun EXCEPT !.step = "count"] ELSE NoRun
        /\ UNCHANGED request
        /\ run = NoRun
    BY <1>5 DEF Begin
  <2>2. CASE Head(queue) = "STARTED"
    BY <2>1, <2>2 DEF NoRun
  <2>3. CASE Head(queue) # "STARTED"
    <3>1. ASSUME NEW i \in DOMAIN queue, queue[i] = "STARTED"
          PROVE  i - 1 \in DOMAIN queue' /\ queue'[i - 1] = "STARTED"
      BY <2>1, <2>3, <3>1
    <3> QED
      BY <2>1, <3>1 DEF NoRun
  <2> QED
    BY <2>2, <2>3
<1>7. ASSUME Save  PROVE Coming'
  BY <1>7 DEF Save
<1>9. ASSUME Toggle  PROVE Coming'
  BY <1>9 DEF Toggle
<1>11. ASSUME EndElsewhere  PROVE FALSE
  BY <1>11 DEF EndElsewhere
<1> QED
  BY <1>1, <1>2, <1>3, <1>4, <1>5, <1>7, <1>9, <1>11 DEF Next, Step

LEMMA CountNext == CountInv /\ [Next]_vars => CountInv'
<1> SUFFICES ASSUME CountInv, [Next]_vars,
                    execution' = "STARTED", "PENDING" \notin Decisions'
             PROVE  EarlyHasNext' /\ DecisionIsComing'
  BY TypeNext DEF CountInv, EarlyHasNext, DecisionIsComing
<1> USE DEF CountInv
<1>s. execution = "STARTED"
  BY DEF Next, Step, vars, Submit, Commit, Fetch, Push, Begin, Decide, Save,
         EndElsewhere, Toggle, Restart
<1>1. ASSUME NEW r \in Requests, Commit(r)  PROVE Coming'
  BY <1>1 DEF Commit, TypeOK, Coming
<1>2. ASSUME Decide  PROVE EarlyHasNext' /\ DecisionIsComing'
  <2>1. Decisions' = Decisions
    BY <1>2, DecisionsStay DEF Decide
  <2>2. run' = [step |-> "save", status |-> run'.status] /\ run'.status # "PENDING"
    BY <1>2, <2>1 DEF Decide
  <2> QED
    BY <2>2 DEF EarlyHasNext, DecisionIsComing
<1>3. ASSUME Save  PROVE EarlyHasNext' /\ DecisionIsComing'
  <2>1. Decisions' = Decisions
    BY <1>3, DecisionsStay DEF Save
  <2>2. run' = NoRun /\ job' = run.status /\ run.step = "save"
    BY <1>3 DEF Save
  <2>3. run.status = "PENDING" => Coming
    BY <1>s, <2>1, <2>2 DEF EarlyHasNext
  <2>4. run.status = "PENDING" => Coming'
    BY <1>3, <2>2, <2>3 DEF Coming, Save
  <2> QED
    BY <2>2, <2>4 DEF EarlyHasNext, DecisionIsComing, Coming, NoRun
<1>4. ASSUME Next, ~ Decide, ~ Save, \A r \in Requests : ~ Commit(r)
      PROVE  EarlyHasNext' /\ DecisionIsComing'
  <2> DEFINE Calm == /\ UNCHANGED <<mode, task, job>>
                     /\ lost => lost'
                     /\ run.step = "save" => run' = run \/ lost'
                     /\ run'.step = "save" => run' = run
  <2>a. ASSUME NEW r \in Requests, NEW s \in Status, Submit(r, s)  PROVE Calm
    BY <2>a DEF Submit
  <2>b. ASSUME NEW r \in Requests, Fetch(r) \/ Push(r)  PROVE Calm
    BY <2>b DEF Fetch, Push
  <2>c. ASSUME Begin \/ Toggle \/ Restart \/ EndElsewhere  PROVE Calm
    BY <2>c DEF Begin, Toggle, Restart, EndElsewhere, NoRun
  <2>d. Calm
    <3> HIDE DEF Calm
    <3> QED
      BY <1>4, <2>a, <2>b, <2>c DEF Next, Step
  <2>1. Decisions' = Decisions
    BY <2>d, DecisionsStay
  <2>2. Coming => Coming' \/ lost'
    BY <1>4, <1>s, ComingStays DEF Restart
  <2>3. EarlyHasNext'
    <3> SUFFICES ASSUME run'.step = "save", run'.status = "PENDING"  PROVE Coming'
      BY DEF EarlyHasNext
    <3>1. Coming
      BY <1>s, <2>d, <2>1 DEF EarlyHasNext
    <3>2. ~ Restart
      BY DEF Restart, NoRun
    <3> QED
      BY <1>4, <1>s, <3>1, <3>2, ComingStays
  <2>4. DecisionIsComing'
    BY <1>s, <2>d, <2>1, <2>2 DEF DecisionIsComing, Coming
  <2> QED
    BY <2>3, <2>4
<1>5. ASSUME UNCHANGED vars  PROVE EarlyHasNext' /\ DecisionIsComing'
  <2>1. Decisions' = Decisions
    BY <1>5, DecisionsStay DEF vars
  <2> QED
    BY <1>5, <2>1 DEF vars, EarlyHasNext, DecisionIsComing, Coming
<1> QED
  BY <1>1, <1>2, <1>3, <1>4, <1>5 DEF EarlyHasNext, DecisionIsComing, Coming

\* The answers that decide are never left uncounted, for any number of users
\* and of submissions of each; a job without assignees waits for nobody.
THEOREM AnswersAreCounted ==
    ASSUME Assignees # <<>>
    PROVE  Spec => []DecisionIsComing
<1>1. Init => CountInv
  BY CountInit
<1>2. CountInv /\ [Next]_vars => CountInv'
  BY CountNext
<1>3. CountInv => DecisionIsComing
  BY DEF CountInv
<1> QED
  BY <1>1, <1>2, <1>3, PTL DEF Spec

-----------------------------------------------------------------------------
(* A job for all *)

AllResolved == \A u \in Assigned : task[u] = "RESOLVED"

\* a user sends one submission at a time
OneAtATime == \A r, q \in Requests : Owner[r] = Owner[q] => r = q

LEMMA AssignedFinite == IsFiniteSet(Assigned) /\ Cardinality(Assigned) <= Len(Assignees)
<1>1. /\ Len(Assignees) \in Nat
      /\ DOMAIN Assignees = 1..Len(Assignees)
      /\ Assignees \in [1..Len(Assignees) -> Assigned]
  BY ConstantsAssumption DEF ConstantsAssumption
<1>2. Assignees \in Surjection(1..Len(Assignees), Assigned)
  BY <1>1 DEF Surjection, Assigned
<1>3. IsFiniteSet(1..Len(Assignees)) /\ Cardinality(1..Len(Assignees)) = Len(Assignees)
  BY <1>1, FS_Interval
<1> QED
  BY <1>2, <1>3, FS_Surjection

\* it resolves when the answers that resolve are as many as the assignees
LEMMA ResolvedByAll ==
    TypeOK /\ mode = "all" /\ "RESOLVED" \in Decisions => AllResolved
<1> SUFFICES ASSUME TypeOK, mode = "all", "RESOLVED" \in Decisions  PROVE AllResolved
  OBVIOUS
<1> DEFINE S == {u \in Assigned : task[u] = "RESOLVED"}
<1>1. Cardinality(S) = Len(Assignees)
  BY DEF Decisions, Count
<1>2. S \in SUBSET Assigned
  OBVIOUS
<1>3. /\ Cardinality(S) <= Cardinality(Assigned)
      /\ Cardinality(S) = Cardinality(Assigned) => S = Assigned
  BY <1>2, AssignedFinite, FS_Subset
<1>4. Cardinality(Assigned) \in Nat /\ Len(Assignees) \in Nat
  BY AssignedFinite, FS_CardinalityType, ConstantsAssumption DEF ConstantsAssumption
<1>5. S = Assigned
  BY <1>1, <1>3, <1>4, AssignedFinite
<1> QED
  BY <1>5 DEF AllResolved

\* who still submits has no answer, and a job for all is saved as resolved
\* when none is missing
Unanimous ==
    /\ \A r \in Requests : request[r].step = "checked" => task[Owner[r]] = "PENDING"
    /\ mode = "all" /\ run.step = "save" /\ run.status = "RESOLVED" => AllResolved
    /\ AllHaveResolved

AllInv == TypeOK /\ Unanimous

LEMMA AllInit == Init => AllInv
<1> SUFFICES ASSUME Init  PROVE Unanimous
  BY TypeInit DEF AllInv
<1>1. \A r \in Requests : request[r].step # "checked"
  BY DEF Init, Idle
<1>2. run.step # "save" /\ job # "RESOLVED"
  BY DEF Init, NoRun
<1> QED
  BY <1>1, <1>2 DEF Unanimous, AllHaveResolved

LEMMA AllNext == OneAtATime /\ AllInv /\ [Next]_vars => AllInv'
<1> SUFFICES ASSUME OneAtATime, AllInv, [Next]_vars  PROVE Unanimous'
  BY TypeNext DEF AllInv
<1> USE DEF AllInv, Unanimous, AllHaveResolved, AllResolved
<1>t. /\ Owner \in [Requests -> Assigned]
      /\ task \in [Assigned -> Status]
  BY ConstantsAssumption DEF ConstantsAssumption, TypeOK
<1>q. DOMAIN request = Requests
  BY DEF TypeOK
<1>1. ASSUME NEW r \in Requests, NEW s \in Status, Submit(r, s)  PROVE Unanimous'
  BY <1>1, <1>q DEF Submit
<1>2. ASSUME NEW r \in Requests, Commit(r)  PROVE Unanimous'
  <2>1. /\ request[r].step = "checked"
        /\ task' = [task EXCEPT ![Owner[r]] = request[r].answer]
        /\ request' = [request EXCEPT ![r].step = "committed"]
        /\ UNCHANGED <<mode, job, run>>
    BY <1>2 DEF Commit
  <2>2. ~ AllResolved
    BY <2>1, <1>t
  <2>3. ASSUME NEW q \in Requests, request'[q].step = "checked"
        PROVE  task'[Owner[q]] = "PENDING"
    <3>1. q # r /\ request'[q] = request[q]
      BY <2>1, <2>3, <1>q DEF TypeOK
    <3>2. Owner[q] # Owner[r]
      BY <3>1 DEF OneAtATime
    <3> QED
      BY <2>1, <2>3, <3>1, <3>2, <1>t
  <2> QED
    BY <2>1, <2>2, <2>3
<1>3. ASSUME NEW r \in Requests, Fetch(r)  PROVE Unanimous'
  BY <1>3, <1>q DEF Fetch, TypeOK
<1>4. ASSUME NEW r \in Requests, Push(r)  PROVE Unanimous'
  BY <1>4, <1>q DEF Push, Idle
<1>5. CASE Begin
  BY <1>5 DEF Begin, NoRun
<1>6. CASE Decide
  BY <1>6, ResolvedByAll DEF Decide
<1>7. CASE Save
  BY <1>7 DEF Save, NoRun
<1>8. CASE EndElsewhere
  BY <1>8 DEF EndElsewhere
<1>9. CASE Toggle
  BY <1>9 DEF Toggle
<1>10. CASE Restart
  BY <1>10 DEF Restart, Idle, NoRun
<1>11. CASE UNCHANGED vars
  BY <1>11 DEF vars
<1> QED
  BY <1>1, <1>2, <1>3, <1>4, <1>5, <1>6, <1>7, <1>8, <1>9, <1>10, <1>11 DEF Next, Step

\* A job for any number of users is not resolved while the answer of one is
\* missing or a refusal, when each sends one submission at a time: two of one
\* user, checked together, may give two answers.
THEOREM AllResolve == OneAtATime /\ Spec => []AllHaveResolved
<1>1. Init => AllInv
  BY AllInit
<1>2. OneAtATime /\ AllInv /\ [Next]_vars => AllInv'
  BY AllNext
<1>3. AllInv => AllHaveResolved
  BY DEF AllInv, Unanimous
<1>4. CASE OneAtATime
  BY <1>1, <1>2, <1>3, <1>4, PTL DEF Spec
<1> QED
  BY <1>4

=============================================================================
