----------------------------- MODULE MCStorage ------------------------------
(* Small instances of Storage for TLC: v is the thread of a count, m that of *)
(* a memory, p and q append.                                               *)
EXTENDS Storage

CONSTANTS p, q, v, m, w1, w2, key, violations, memory

MCKeyOf == [t \in Threads |-> CASE t = v -> violations [] t = m -> memory [] OTHER -> key]
OneKey == [t \in Threads |-> key]
MCUse == [t \in Threads |-> CASE t = v -> "count" [] t = m -> "memory" [] OTHER -> "append"]
Counting == [t \in Threads |-> "count"]
Same == [t \in Threads |-> "one"]
Own == [t \in Threads |-> IF t = p THEN "one" ELSE "two"]
OneLock == [w \in Writers |-> "one"]
OwnLock == [w \in Writers |-> IF w = w1 THEN "one" ELSE "two"]
=============================================================================
