------------------------- MODULE MCScheduleTrigger -------------------------
(* ScheduleTrigger on small instances: minutes of 3 seconds. *)
EXTENDS ScheduleTrigger, TLC

\* no repetition, numbers below, at and above a minute, and cron expressions;
\* with and without an end and a limit
MCConfigs ==
    {[start |-> s, end |-> e, limit |-> l, repeat |-> r, cron |-> {}] :
        s \in {1, 2, 3, 5}, e \in {0, 6, 7}, l \in {0, 1, 2}, r \in {0, 1, 2, 3, 4}}
    \cup
    {[start |-> s, end |-> e, limit |-> l, repeat |-> 0, cron |-> k] :
        s \in {1, 4}, e \in {0, 6}, l \in {0, 1}, k \in {{2, 4, 6, 8}, {3, 7}, {1, 6}}}

=============================================================================
