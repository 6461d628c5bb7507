----------------------------- MODULE JobExecutor -----------------------------
(***************************************************************************)
(* What the scheduler promises of the jobs it is given, with neither clock *)
(* nor loop: a registered object has at most Limit live runs, and a job    *)
(* that is to run once starts no run after one of its runs has ended.      *)
(***************************************************************************)
EXTENDS Integers

CONSTANTS
  Objects,  \* everything that may ever be registered
  Limit,    \* [Objects -> Nat \ {0}]: live runs allowed at a time
  Once      \* the objects that run once

VARIABLES
  open,     \* the objects that may start runs
  live,     \* [Objects -> Nat]: runs started and not yet ended
  spent     \* the objects of Once that have had a run end

evars == <<open, live, spent>>

Init == open = {} /\ live = [o \in Objects |-> 0] /\ spent = {}

\* An object that is open now, or that is registered afresh, may start.
Register(o) ==
  /\ live[o] = 0 /\ o \notin spent
  /\ open' = (open \ {p \in open : p[1] = o[1]}) \cup {o}
  /\ UNCHANGED <<live, spent>>

\* Some of the open objects start one run each.
Admit(S) ==
  /\ S \subseteq open \ spent
  /\ \A o \in S : live[o] < Limit[o]
  /\ live' = [o \in Objects |-> IF o \in S THEN live[o] + 1 ELSE live[o]]
  /\ UNCHANGED <<open, spent>>

End(o) ==
  /\ live[o] > 0
  /\ live' = [live EXCEPT ![o] = @ - 1]
  /\ spent' = spent \cup ({o} \cap Once)
  /\ UNCHANGED open

\* Runs are withdrawn before they have begun, with or without the objects.
Shed ==
  /\ open' \in SUBSET open
  /\ live' \in [Objects -> Nat]
  /\ \A o \in Objects : live'[o] <= live[o]
  /\ UNCHANGED spent

Next == \/ \E o \in Objects : Register(o) \/ End(o)
        \/ \E S \in SUBSET Objects : Admit(S)
        \/ Shed

Spec == Init /\ [][Next]_evars
=============================================================================
