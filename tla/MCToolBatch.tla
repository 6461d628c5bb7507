---------------------------- MODULE MCToolBatch -----------------------------
(* Small instances of ToolBatch for TLC: e1, e2, e3 edit the file f, two of *)
(* them the same place; w writes it; r reads it; x and y run alone; i has    *)
(* bad arguments, u no tool.                                                 *)
EXTENDS ToolBatch

CONSTANTS a, b, e1, e2, e3, w, r, x, y, i, u, f, m1, m2

MCBatches == [z \in Agents |->
  IF z = a THEN {<<e1, r, i, x>>, <<e1, x, e2>>, <<e1, e2, u>>, <<u>>}
  ELSE {<<e3, w>>, <<w, y>>, <<y, e3>>}]
MCKind == [c \in Calls |-> CASE c \in {e1, e2, e3} -> "edit" [] c = w -> "write" [] c = r -> "read"
                             [] c \in {x, y} -> "alone" [] c = i -> "invalid" [] OTHER -> "unknown"]
MCPathOf == [c \in Calls |-> f]
MCNeeds == [c \in Calls |-> IF c = e1 THEN m1 ELSE m2]
=============================================================================
