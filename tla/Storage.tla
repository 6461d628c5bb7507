------------------------------ MODULE Storage -------------------------------
(***************************************************************************)
(* A directory of files and the process that uses it, through a JSON       *)
(* backend or through a JSON-lines backend: the two share nothing, so a    *)
(* behaviour has one of them.                                              *)
(***************************************************************************)
EXTENDS JsonFiles, LineFiles

CONSTANT MaxCrashes   \* bound

VARIABLES kind, crashes

Init == JsonInit /\ LineInit /\ kind \in {"json", "jsonl"} /\ crashes = 0

Crash ==
  /\ crashes < MaxCrashes /\ crashes' = crashes + 1
  /\ JsonCrash /\ LineCrash
  /\ UNCHANGED kind

Next ==
  \/ kind = "json" /\ JsonStep /\ UNCHANGED <<lvars, kind, crashes>>
  \/ kind = "jsonl" /\ LineStep /\ UNCHANGED <<jvars, kind, crashes>>
  \/ Crash

Spec == Init /\ [][Next]_<<jvars, lvars, kind, crashes>>
=============================================================================
