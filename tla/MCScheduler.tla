---------------------------- MODULE MCScheduler ----------------------------
(* Small instances of Scheduler for TLC. *)
EXTENDS Scheduler

\* The wall clock of the timezone: it jumps over 3, and shows 4 and 5 twice.
TwoChanges ==
    [t \in 0..9 |-> IF t < 3 THEN t ELSE IF t < 5 THEN t + 1 ELSE t - 1]

Interval == [kind |-> "INTERVAL", at |-> 0, walls |-> {}, start |-> 2, every |-> 2, end |-> 7]
Sparse   == [kind |-> "INTERVAL", at |-> 0, walls |-> {}, start |-> 1, every |-> 3, end |-> 7]
Once     == [kind |-> "ONCE", at |-> 4, walls |-> {}, start |-> 0, every |-> 1, end |-> 9]
Closed   == [Once EXCEPT !.end = 4]
Cron     == [kind |-> "CRON", at |-> 0, walls |-> {2, 3, 4, 5, 6}, start |-> 1, every |-> 1,
             end |-> 9]
LateCron == [Cron EXCEPT !.start = 5, !.end = 8]
AllRules == {Interval, Sparse, Once, Closed, Cron, LateCron}
Intervals == {Interval}
ThreePolicies ==
    {[overlap |-> "QUEUE", misfire |-> "CATCH_UP_LIMITED"],
     [overlap |-> "REPLACE", misfire |-> "RUN_ONCE"],
     [overlap |-> "SKIP", misfire |-> "SKIP"]}
=============================================================================
