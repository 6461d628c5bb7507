----------------------------- MODULE MCEvolution -----------------------------
(* Small instances of Evolution for TLC.                                    *)
EXTENDS Evolution

CONSTANTS q1, q2, q3, x, t

MCSeed == <<q1>>
MCSeeds == <<q1, q2>>
MCMinOpen == [m \in Modes |-> IF m = "life" THEN 1 ELSE 2]
MCMaxRuns == [m \in Modes |-> 2]
=============================================================================
