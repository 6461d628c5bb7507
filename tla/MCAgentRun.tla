----------------------------- MODULE MCAgentRun -----------------------------
(* Small instances of AgentRun for TLC.                                    *)
EXTENDS AgentRun, TLC

CONSTANTS a, b, c, t, u

MCActions == {b, c}
MCOne == {b}
MCMore == {a, b, c}
\* b and c call one tool with different arguments.
MCToolOf == [x \in Actions |-> IF x = a THEN "A" ELSE "B"]
OneModel == {<<TRUE>>}
ModelOrTwo == {<<TRUE>>, <<TRUE, FALSE>>}
\* Only is the standard SelectSeq.
ASSUME OnlyIsSelectSeq ==
  \A n \in 0 .. 4 : \A s \in [1 .. n -> 1 .. 3] : \A S \in SUBSET (1 .. 3) :
    Only(s, S) = SelectSeq(s, LAMBDA x : x \in S)

TaskSymmetry == Permutations({t, u})
=============================================================================
