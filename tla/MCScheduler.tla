----------------------------- MODULE MCScheduler -----------------------------
(* Small instances of Scheduler for TLC. *)
EXTENDS Scheduler

CONSTANTS once, every, cron

MCKind == [j \in JobIds |-> CASE j = once  -> "oneshot"
                              [] j = every -> "interval"
                              [] OTHER     -> "cron"]
MCPeriod == [j \in JobIds |-> IF j = every THEN 2 ELSE 1]
One == [j \in JobIds |-> 1]
Two == [j \in JobIds |-> 2]
Mixed == [j \in JobIds |-> IF j = once THEN 1 ELSE 2]
=============================================================================
