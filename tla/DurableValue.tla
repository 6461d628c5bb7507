---------------------------- MODULE DurableValue ----------------------------
(***************************************************************************)
(* What swaybot/storage.py promises of a key of a JSON backend: a value    *)
(* that calls change one at a time.  A call replaces the value or adds to  *)
(* it, whole and at one moment before it returns; one that raises, or that *)
(* the end of the process cuts short before that moment, leaves the value  *)
(* as it was.                                                              *)
(***************************************************************************)
EXTENDS Sequences

CONSTANTS Threads, Keys, Recs, KeyOf

VARIABLES
  value,   \* [Keys -> sequences of records]
  call     \* [Threads -> the call of each: where it is, what it does and with what]

Idle == [at |-> "none", op |-> "save", arg |-> << >>]
Done == [at |-> "done", op |-> "save", arg |-> << >>]
Calls == [at : {"asked"}, op : {"append", "save"}, arg : Seq(Recs)]

Applied(v, c) == IF c.op = "append" THEN v \o c.arg ELSE c.arg

Init == value = [k \in Keys |-> << >>] /\ call = [t \in Threads |-> Idle]

Ask(t) ==
  /\ call[t] = Idle /\ call'[t] \in Calls
  /\ call' = [call EXCEPT ![t] = call'[t]]
  /\ UNCHANGED value

TakeEffect(t) ==
  /\ call[t].at = "asked"
  /\ value' = [value EXCEPT ![KeyOf[t]] = Applied(@, call[t])]
  /\ call' = [call EXCEPT ![t] = Done]

Finish(t) ==
  /\ call[t] = Done
  /\ call' = [call EXCEPT ![t] = Idle] /\ UNCHANGED value

Fail(t) ==
  /\ call[t].at = "asked"
  /\ call' = [call EXCEPT ![t] = Idle] /\ UNCHANGED value

Crash == call' = [t \in Threads |-> Idle] /\ UNCHANGED value

Next == Crash \/ \E t \in Threads : Ask(t) \/ TakeEffect(t) \/ Finish(t) \/ Fail(t)

Spec == Init /\ [][Next]_<<value, call>>
=============================================================================
