----------------------------- MODULE ToolBatch ------------------------------
(***************************************************************************)
(* ToolRegistry.execute and execute_batch (swaybot/tools/__init__.py) for  *)
(* agents that work in one process and one workspace, with the file tools  *)
(* (tools/fs.py), their locks (tools/file_locks.py) and the hooks that run *)
(* after a write (tools/code_quality.py).                                  *)
(*                                                                         *)
(* A batch is cut into groups: a tool that is exclusive or not safe for    *)
(* concurrency alone, a run of others in a pool of threads.  The content   *)
(* of a file is a set of marks: an edit replaces the mark it needs by its  *)
(* own, a write leaves its own, and a formatter may rewrite those that     *)
(* were there at the start.  An agent's step executes one call.            *)
(***************************************************************************)
EXTENDS Naturals, Sequences, FiniteSets, SequencesExt

CONSTANTS
  Agents, Calls, Paths,
  Batches,   \* [Agents -> sets of sequences of calls]
  Kind,      \* [Calls -> {"read", "write", "edit", "alone", "unknown", "invalid"}]
  PathOf,    \* [Calls -> Paths]
  Needs,     \* [Calls -> marks]: the old_string of an edit
  Base,      \* the marks that files begin with
  Workers,   \* threads of a pool
  MayFail,   \* may reading, writing or a tool fail
  Nobody

Marks == Calls \cup Base
FileTools == {"write", "edit"}

ASSUME ToolBatchAssumption ==
  /\ Kind \in [Calls -> FileTools \cup {"read", "alone", "unknown", "invalid"}]
  /\ PathOf \in [Calls -> Paths] /\ Needs \in [Calls -> Marks]
  /\ Workers \in Nat \ {0} /\ MayFail \in BOOLEAN
  /\ Base \cap Calls = {} /\ Nobody \notin Calls
  /\ Batches \in [Agents -> SUBSET Seq(Calls)]
  \* a call is one entry of one batch
  /\ \A a, b \in Agents : \A s \in Batches[a], t \in Batches[b] :
       \A i \in DOMAIN s, j \in DOMAIN t : s[i] = t[j] => a = b /\ (s = t => i = j)

VARIABLES
  batch,    \* [Agents -> the sequence of calls it executes]
  phase,    \* [Agents -> {"next", "group", "over", "raised"}]
  next,     \* [Agents -> index of the first call not yet in a group]
  group,    \* [Agents -> the calls of the group in progress]
  at,       \* [Calls -> where its thread is]
  result,   \* [Calls -> what it returned]
  results,  \* [Agents -> the results list]
  seen,     \* [Calls -> what an edit read]
  disk,     \* [Paths -> sets of marks]
  holder,   \* [Paths -> the call that holds the lock, or Nobody]
  ideal,    \* history: [Paths -> the content if the writes that succeeded had happened one by one]
  spoilt    \* history: the paths where a write has failed since the last that was of the whole file

files == <<disk, holder, ideal, spoilt>>
vars == <<batch, phase, next, group, at, result, results, seen, files>>

Running == {"waits", "holds", "read", "open", "written"}
Ended == {"ended", "raised"}

-----------------------------------------------------------------------------
(* The batch.                                                              *)

Alone(c) == Kind[c] = "alone"
Unknown(c) == Kind[c] = "unknown"

\* Mutant of GroupEnd: a call that is alone ends the run it follows.
GroupEndWithAlone(s, i) ==
  CHOOSE j \in i .. Len(s) :
    /\ \A x \in i .. j : (Alone(s[x]) \/ Unknown(s[x])) => x = j
    /\ j = Len(s) \/ Alone(s[j]) \/ Unknown(s[j])

\* The last index of the group that begins at i: the run ends before a call that is
\* alone; a call without a name or a tool ends it as well, and the batch.
GroupEnd(s, i) ==
  IF Alone(s[i]) THEN i
  ELSE CHOOSE j \in i .. Len(s) :
         /\ \A x \in i .. j : ~Alone(s[x]) /\ (Unknown(s[x]) => x = j)
         /\ j = Len(s) \/ Alone(s[j + 1]) \/ Unknown(s[j])

\* A group is formed and its calls are submitted, unless forming it raises.
FormGroup(a) ==
  /\ phase[a] = "next" /\ next[a] <= Len(batch[a])
  /\ LET j == GroupEnd(batch[a], next[a])
         g == {batch[a][x] : x \in next[a] .. j}
     IN IF \E c \in g : Unknown(c)
        THEN /\ phase' = [phase EXCEPT ![a] = "raised"]
             /\ UNCHANGED <<next, group, at>>
        ELSE /\ phase' = [phase EXCEPT ![a] = "group"]
             /\ next' = [next EXCEPT ![a] = j + 1]
             /\ group' = [group EXCEPT ![a] = g]
             /\ at' = [c \in Calls |-> IF c \in g THEN "queued" ELSE at[c]]
  /\ UNCHANGED <<batch, result, results, seen, files>>

\* Mutant of GroupDone: results are taken once a call has raised.
GroupSettled(a) ==
  \/ \A c \in group[a] : at[c] \in Ended
  \/ \E c \in group[a] : at[c] = "raised"

\* The pool is left when all its threads have ended.
GroupDone(a) == \A c \in group[a] : at[c] \in Ended

\* The results are taken in the order of the batch; the first that raised, raises.
CollectGroup(a) ==
  /\ phase[a] = "group" /\ GroupDone(a)
  /\ LET first == Len(results[a]) + 1
         raised == {x \in first .. next[a] - 1 : at[batch[a][x]] = "raised"}
         last == IF raised = {} THEN next[a] - 1
                 ELSE (CHOOSE x \in raised : \A y \in raised : x <= y) - 1
     IN /\ results' = [results EXCEPT ![a] =
                         @ \o [x \in 1 .. last - first + 1 |-> result[batch[a][first + x - 1]]]]
        /\ phase' = [phase EXCEPT ![a] = IF raised = {} THEN "next" ELSE "raised"]
  /\ group' = [group EXCEPT ![a] = {}]
  /\ UNCHANGED <<batch, next, at, result, seen, files>>

Finish(a) ==
  /\ phase[a] = "next" /\ next[a] > Len(batch[a])
  /\ phase' = [phase EXCEPT ![a] = "over"]
  /\ UNCHANGED <<batch, next, group, at, result, results, seen, files>>

-----------------------------------------------------------------------------
(* The calls.                                                              *)

Moves(c, x) == at' = [at EXCEPT ![c] = x]
Returns(c, said) == Moves(c, "ended") /\ result' = [result EXCEPT ![c].said = said]

\* read_file takes no lock: beside a write it may find the file empty.
ReadFile(c) ==
  \/ result' = [result EXCEPT ![c] = [said |-> "ok", text |-> disk[PathOf[c]]]]
  \/ MayFail /\ result' = [result EXCEPT ![c].said = "error"]

\* A worker takes the call: arguments that do not fit raise, a file tool goes for the
\* lock of its path, others are one step.
Start(a, c) ==
  /\ c \in group[a] /\ at[c] = "queued"
  /\ Cardinality({d \in group[a] : at[d] \in Running}) < Workers
  /\ \/ Kind[c] = "invalid" /\ Moves(c, "raised") /\ UNCHANGED result
     \/ Kind[c] \in FileTools /\ Moves(c, "waits") /\ UNCHANGED result
     \/ Kind[c] = "read" /\ Moves(c, "ended") /\ ReadFile(c)
     \/ Kind[c] = "alone" /\ Moves(c, "waits") /\ UNCHANGED result
  /\ UNCHANGED <<batch, phase, next, group, results, seen, files>>

\* done or final_answer: a tool that runs alone.
AloneEnds(c) ==
  /\ Kind[c] = "alone" /\ at[c] = "waits"
  /\ Returns(c, "ok") \/ (MayFail /\ Moves(c, "raised") /\ UNCHANGED result)
  /\ UNCHANGED <<batch, phase, next, group, results, seen, files>>

\* Mutant of Acquire: an edit reads before it has the lock.
AcquireLate(c) ==
  /\ Kind[c] \in FileTools /\ at[c] = "waits"
  /\ IF Kind[c] = "edit" THEN Moves(c, "holds") /\ UNCHANGED holder
     ELSE /\ holder[PathOf[c]] = Nobody /\ holder' = [holder EXCEPT ![PathOf[c]] = c]
          /\ Moves(c, "read")
  /\ UNCHANGED <<batch, phase, next, group, result, results, seen, disk, ideal, spoilt>>

\* PathLockManager.lock
Acquire(c) ==
  /\ Kind[c] \in FileTools /\ at[c] = "waits" /\ holder[PathOf[c]] = Nobody
  /\ holder' = [holder EXCEPT ![PathOf[c]] = c]
  /\ Moves(c, IF Kind[c] = "edit" THEN "holds" ELSE "read")
  /\ UNCHANGED <<batch, phase, next, group, result, results, seen, disk, ideal, spoilt>>

\* Mutant of Release: a call that returns an error keeps the lock.
ReleaseIfWritten(c) ==
  holder' = IF at[c] = "written" THEN [holder EXCEPT ![PathOf[c]] = Nobody] ELSE holder

Release(c) == holder' = [holder EXCEPT ![PathOf[c]] = Nobody]

\* edit_file reads; it gives up when its old_string is not there, or reading fails.
ReadCurrent(c) ==
  /\ at[c] = "holds"
  /\ \/ /\ Needs[c] \in disk[PathOf[c]]
        /\ seen' = [seen EXCEPT ![c] = disk[PathOf[c]]]
        /\ Moves(c, "read") /\ UNCHANGED <<result, holder>>
     \/ /\ Needs[c] \notin disk[PathOf[c]] \/ MayFail
        /\ Returns(c, "error") /\ Release(c) /\ UNCHANGED seen
  /\ UNCHANGED <<batch, phase, next, group, results, disk, ideal, spoilt>>

\* write_text opens the file, which empties it, or fails to.
OpenFile(c) ==
  /\ at[c] = "read"
  /\ \/ disk' = [disk EXCEPT ![PathOf[c]] = {}] /\ Moves(c, "open") /\ UNCHANGED <<result, holder>>
     \/ MayFail /\ Returns(c, "error") /\ Release(c) /\ UNCHANGED disk
  /\ UNCHANGED <<batch, phase, next, group, results, seen, ideal, spoilt>>

Effect(c, content) ==
  IF Kind[c] = "write" THEN {c} ELSE (content \ {Needs[c]}) \cup {c}

\* ... and writes what it has made of what it read, or fails half way: what was in the
\* file is gone, and the call reports an error.
WriteText(c) ==
  /\ at[c] = "open"
  /\ \/ /\ disk' = [disk EXCEPT ![PathOf[c]] = Effect(c, seen[c])]
        /\ ideal' = [ideal EXCEPT ![PathOf[c]] = Effect(c, @)]
        /\ spoilt' = IF Kind[c] = "write" THEN spoilt \ {PathOf[c]} ELSE spoilt
        /\ Moves(c, "written") /\ UNCHANGED <<result, holder>>
     \/ /\ MayFail /\ Returns(c, "error") /\ Release(c)
        /\ \E part \in SUBSET Effect(c, seen[c]) : disk' = [disk EXCEPT ![PathOf[c]] = part]
        /\ spoilt' = spoilt \cup {PathOf[c]} /\ UNCHANGED ideal
  /\ UNCHANGED <<batch, phase, next, group, results, seen>>

\* The hooks work on the file while the lock is held: the formatter may rewrite what was
\* there, and what they find does not change what the tool returns about the write.
RunHooks(c) ==
  /\ at[c] = "written" /\ Returns(c, "ok") /\ Release(c)
  /\ \E rewritten \in SUBSET (disk[PathOf[c]] \cap Base) :
       /\ disk' = [disk EXCEPT ![PathOf[c]] = @ \ rewritten]
       /\ ideal' = [ideal EXCEPT ![PathOf[c]] = @ \ rewritten]
  /\ UNCHANGED <<batch, phase, next, group, results, seen, spoilt>>

-----------------------------------------------------------------------------
Init ==
  /\ batch \in {b \in [Agents -> UNION {Batches[a] : a \in Agents}] :
                  \A a \in Agents : b[a] \in Batches[a]}
  /\ phase = [a \in Agents |-> "next"] /\ next = [a \in Agents |-> 1]
  /\ group = [a \in Agents |-> {}] /\ at = [c \in Calls |-> "not"]
  /\ result = [c \in Calls |-> [said |-> "none", text |-> {}]] /\ results = [a \in Agents |-> << >>]
  /\ seen = [c \in Calls |-> {}]
  /\ disk = [p \in Paths |-> Base] /\ ideal = disk /\ spoilt = {}
  /\ holder = [p \in Paths |-> Nobody]

AgentStep(a) == FormGroup(a) \/ CollectGroup(a) \/ Finish(a)
CallStep(c) ==
  \/ \E a \in Agents : Start(a, c)
  \/ AloneEnds(c) \/ Acquire(c) \/ ReadCurrent(c) \/ OpenFile(c) \/ WriteText(c) \/ RunHooks(c)

Next == (\E a \in Agents : AgentStep(a)) \/ \E c \in Calls : CallStep(c)

Spec == Init /\ [][Next]_vars

\* Threads run, and tools and hooks end (a hook's command has a time limit).
FairSpec ==
  /\ Spec
  /\ \A a \in Agents : WF_vars(AgentStep(a))
  /\ \A c \in Calls : WF_vars(CallStep(c))

-----------------------------------------------------------------------------
(* Properties.                                                             *)

CallsOf(a) == ToSet(batch[a])

\* The variables have their types, and a path is locked by a call that works on it.
TypeOK ==
  /\ batch \in [Agents -> Seq(Calls)] /\ next \in [Agents -> Nat]
  /\ group \in [Agents -> SUBSET Calls] /\ holder \in [Paths -> Calls \cup {Nobody}]
  /\ \A a \in Agents : batch[a] \in Batches[a] /\ next[a] \in 1 .. Len(batch[a]) + 1
                       /\ group[a] \subseteq CallsOf(a)
  /\ phase \in [Agents -> {"next", "group", "over", "raised"}]
  /\ at \in [Calls -> Running \cup Ended \cup {"not", "queued"}]
  /\ result \in [Calls -> [said : {"none", "ok", "error"}, text : SUBSET Marks]]
  /\ results \in [Agents -> Seq([said : {"ok", "error"}, text : SUBSET Marks])]
  /\ seen \in [Calls -> SUBSET Marks]
  /\ disk \in [Paths -> SUBSET Marks] /\ ideal \in [Paths -> SUBSET Marks]
  /\ spoilt \subseteq Paths
  /\ \A p \in Paths : holder[p] # Nobody =>
       PathOf[holder[p]] = p /\ at[holder[p]] \in Running \ {"waits"}

\* A call that must run alone has no call of its batch beside it, and a batch that is
\* over or has raised has left no call running or waiting (execute_batch).
AloneIsAlone ==
  \A a \in Agents :
    /\ \A c, d \in CallsOf(a) : c # d /\ Alone(c) /\ at[c] \in Running => at[d] \notin Running
    /\ phase[a] \in {"over", "raised"} => \A c \in CallsOf(a) : at[c] \notin Running \cup {"queued"}

\* Each result is that of its call, and a batch that raises has run a prefix of its
\* groups: the results it drops are those of the last one (execute_batch).
ResultsInPlace ==
  \A a \in Agents :
    /\ Len(results[a]) < next[a]
    /\ \A i \in 1 .. Len(results[a]) :
         at[batch[a][i]] = "ended" /\ results[a][i] = result[batch[a][i]]
    /\ \A i \in 1 .. Len(batch[a]) : at[batch[a][i]] # "not" <=> i < next[a]
    /\ phase[a] = "over" => Len(results[a]) = Len(batch[a])

\* No edit is lost: a file that nobody is writing holds what the calls that reported a
\* write make of it one after the other, whatever threads and agents they ran in, unless
\* a write has failed half way, which reports an error and may take the edits before it
\* (edit_file, write_file, PathLockManager).
NoLostEdit ==
  \A p \in Paths \ spoilt : disk[p] = ideal[p] \/ \E c \in Calls : PathOf[c] = p /\ at[c] = "open"

\* A batch ends: no call waits for ever for a lock or a worker.
BatchEnds == \A a \in Agents : <>(phase[a] \in {"over", "raised"})

\* tools/fs.py:143: `return f"Error: {exc}"` after write_text: an error leaves the file as it was.
ErrorChangesNothing ==
  [][\A c \in Calls : at[c] = "open" /\ result'[c].said = "error" => disk'[PathOf[c]] # {}]_vars

=============================================================================
