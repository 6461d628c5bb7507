---------------------------- MODULE GoalLifecycle ----------------------------
(***************************************************************************)
(* What one call of run() promises its caller, with neither store, jobs,   *)
(* threads nor timeouts: the plan is fixed once, its subtasks are taken    *)
(* one at a time in order, each is settled once, and the verdict is given  *)
(* when all are settled.                                                   *)
(***************************************************************************)
EXTENDS Integers, Sequences

CONSTANT MaxSubs

VARIABLES
  phase,   \* "new", "working", "done", "failed" or "abandoned"
  results  \* the status of each subtask of the plan

lvars == <<phase, results>>

Settled(k) == results[k] \in {"done", "failed"}

Init == phase = "new" /\ results = << >>

MakePlan ==
  /\ phase = "new" /\ results = << >>
  /\ \E n \in 1 .. MaxSubs : results' = [k \in 1 .. n |-> "pending"]
  /\ phase' = "working"

Take(k) ==
  /\ phase = "working"
  /\ results[k] = "pending"
  /\ \A m \in 1 .. k - 1 : Settled(m)
  /\ results' = [results EXCEPT ![k] = "running"]
  /\ UNCHANGED phase

Settle(k) ==
  /\ phase = "working"
  /\ results[k] = "running"
  /\ \E v \in {"done", "failed"} : results' = [results EXCEPT ![k] = v]
  /\ UNCHANGED phase

Judge ==
  /\ phase = "working"
  /\ \A k \in DOMAIN results : Settled(k)
  /\ phase' = IF \A k \in DOMAIN results : results[k] = "done"
              THEN "done" ELSE "failed"
  /\ UNCHANGED results

\* The planner raises, or the process dies.
Abandon == phase \in {"new", "working"} /\ phase' = "abandoned" /\ UNCHANGED results

Next == MakePlan \/ Judge \/ Abandon
        \/ \E k \in DOMAIN results : Take(k) \/ Settle(k)

Spec == Init /\ [][Next]_lvars
=============================================================================
