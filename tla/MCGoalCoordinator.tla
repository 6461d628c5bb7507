-------------------------- MODULE MCGoalCoordinator --------------------------
(* Small instances of GoalCoordinator for TLC.                             *)
EXTENDS GoalCoordinator

CONSTANTS run, run2, resume, retry, cancel, g1, g2

MCKindOf == [d \in Drivers |-> CASE d = resume -> "resume"
                                 [] d = retry  -> "retry"
                                 [] d = cancel -> "cancel"
                                 [] OTHER      -> "run"]
MCGoalOf == [d \in Drivers |-> IF d = run2 THEN g2 ELSE g1]

=============================================================================
