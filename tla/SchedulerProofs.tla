--------------------------- MODULE SchedulerProofs ---------------------------
(***************************************************************************)
(* Proofs about Scheduler, for any jobs, schedules and limits.             *)
(***************************************************************************)
EXTENDS Scheduler, TLAPS

LEMMA NextRunsAreInstants ==
  ASSUME NEW j \in JobIds
  PROVE  NextRuns(j) \subseteq Nat
<1>1. CASE Kind[j] = "oneshot"
  BY <1>1 DEF NextRuns
<1>2. CASE Kind[j] = "interval"
  BY <1>2, SchedulerAssumption DEF NextRuns
<1>3. CASE Kind[j] = "cron"
  BY <1>3, SchedulerAssumption DEF NextRuns
<1>4. QED
  BY <1>1, <1>2, <1>3, SchedulerAssumption

LEMMA SnapshotTyped ==
  ASSUME NEW cur \in [JobIds -> 0 .. MaxGen], NEW next \in [JobIds -> Nat]
  PROVE  Snapshot(cur, next) \in [JobIds -> Nat \cup {NotSaved}]
  BY DEF Snapshot

LEMMA CancelTasksTyped ==
  ASSUME TypeOK, NEW S, CancelTasks(S)
  PROVE  /\ created' \in [Objects -> Nat] /\ active' \in [Objects -> Nat]
         /\ cancelled' \in [Objects -> Nat] /\ orphans' \in [Objects -> Nat]
         /\ \A o \in Objects \cap S :
              /\ created'[o] = 0 /\ active'[o] = 0
              /\ cancelled'[o] = cancelled[o] + active[o]
         /\ \A o \in Objects \ S :
              /\ created'[o] = created[o] /\ active'[o] = active[o]
              /\ cancelled'[o] = cancelled[o]
  BY DEF TypeOK, CancelTasks

LEMMA FinallyTyped ==
  ASSUME TypeOK, NEW o \in Objects, Finally(o)
  PROVE  /\ count' = [count EXCEPT ![o] = @ - 1]
         /\ count' \in [Objects -> Int]
         /\ enabled' \in [Objects -> BOOLEAN]
         /\ saved' \in [JobIds -> Nat \cup {NotSaved}]
         /\ wake' \in BOOLEAN
<1>1. saved' \in [JobIds -> Nat \cup {NotSaved}]
  <2>1. Snapshot(current, nextRun) \in [JobIds -> Nat \cup {NotSaved}]
    BY SnapshotTyped DEF TypeOK
  <2>2. QED
    BY <2>1 DEF TypeOK, Finally
<1>2. enabled' \in [Objects -> BOOLEAN]
  <2>1. enabled' = [enabled EXCEPT ![o] = enabled[o] /\ Kind[o[1]] # "oneshot"]
    BY DEF Finally
  <2>2. (enabled[o] /\ Kind[o[1]] # "oneshot") \in BOOLEAN
    OBVIOUS
  <2>3. enabled \in [Objects -> BOOLEAN]
    BY DEF TypeOK
  <2> HIDE DEF TypeOK
  <2>4. QED
    BY <2>1, <2>2, <2>3, Zenon
<1>3. /\ count' = [count EXCEPT ![o] = @ - 1]
      /\ count' \in [Objects -> Int]
  BY DEF TypeOK, Finally
<1>4. wake' \in BOOLEAN
  BY DEF TypeOK, Finally
<1>5. QED
  BY <1>1, <1>2, <1>3, <1>4

LEMMA CallsTyped ==
  ASSUME TypeOK, Calls
  PROVE  TypeOK'
<1>1. ASSUME NEW j \in JobIds, AddJob(j)
      PROVE  TypeOK'
  <2> DEFINE o == <<j, made[j] + 1>>
  <2>1. made[j] + 1 \in 1 .. MaxGen /\ o \in Objects
    BY <1>1, SchedulerAssumption DEF AddJob, TypeOK, Objects
  <2>2. PICK next \in NextRuns(j) : nextRun' = [nextRun EXCEPT ![j] = next]
    BY <1>1 DEF AddJob
  <2>3. nextRun' \in [JobIds -> Nat]
    BY <2>2, NextRunsAreInstants DEF TypeOK
  <2>4. QED
    BY <1>1, <2>1, <2>3 DEF AddJob, TypeOK, tasks, control
<1>2. ASSUME NEW j \in JobIds, RemoveJob(j)
      PROVE  TypeOK'
  <2>1. current' \in [JobIds -> 0 .. MaxGen]
    BY <1>2, SchedulerAssumption DEF RemoveJob, TypeOK
  <2>2. saved' \in [JobIds -> Nat \cup {NotSaved}]
    <3>1. Snapshot(current', nextRun) \in [JobIds -> Nat \cup {NotSaved}]
      BY <2>1, SnapshotTyped DEF TypeOK
    <3>2. QED
      BY <1>2, <3>1 DEF RemoveJob, TypeOK
  <2>3. CancelTasks({o \in Objects : o[1] = j})
    BY <1>2 DEF RemoveJob
  <2>4. QED
    BY <1>2, <2>1, <2>2, <2>3, CancelTasksTyped
    DEF RemoveJob, TypeOK, fields, control
<1>3. ASSUME NEW j \in JobIds, RunJobNow(j)
      PROVE  TypeOK'
  <2>1. <<j, current[j]>> \in Objects
    BY <1>3, SchedulerAssumption DEF RunJobNow, TypeOK, Objects
  <2>2. count' \in [Objects -> Int] /\ created' \in [Objects -> Nat]
    BY <1>3, <2>1 DEF RunJobNow, TypeOK
  <2>3. QED
    BY <1>3, <2>2 DEF RunJobNow, TypeOK, table, control
<1>4. CASE Start
  <2>1. nextRun' \in [JobIds -> Nat]
    BY <1>4 DEF Start, LoadState, TypeOK
  <2>2. QED
    BY <1>4, <2>1 DEF Start, LoadState, TypeOK, table, tasks
<1>5. CASE StopBegin
  <2>1. CancelTasks(Objects)
    BY <1>5 DEF StopBegin
  <2>2. QED
    BY <1>5, <2>1, CancelTasksTyped DEF StopBegin, TypeOK, table, fields
<1>6. CASE StopEnd
  <2>1. Snapshot(current, nextRun) \in [JobIds -> Nat \cup {NotSaved}]
    BY SnapshotTyped DEF TypeOK
  <2>2. saved' \in [JobIds -> Nat \cup {NotSaved}]
    BY <1>6, <2>1 DEF StopEnd, TypeOK
  <2>3. count' \in [Objects -> Int]
    BY <1>6 DEF StopEnd, TypeOK
  <2>4. QED
    BY <1>6, <2>2, <2>3 DEF StopEnd, TypeOK, table, tasks
<1>7. QED
  BY <1>1, <1>2, <1>3, <1>4, <1>5, <1>6 DEF Calls

LEMMA StepsTyped ==
  ASSUME TypeOK, Steps
  PROVE  TypeOK'
<1>1. CASE LoopEvaluate
  <2> DEFINE due == {o \in Objects : Due(o)}
             ids == {o[1] : o \in due}
  <2>1. PICK next \in [ids -> UNION {NextRuns(j) : j \in ids}] :
          /\ \A j \in ids : next[j] \in NextRuns(j)
          /\ nextRun' = [j \in JobIds |-> IF j \in ids THEN next[j] ELSE nextRun[j]]
    BY <1>1 DEF LoopEvaluate
  <2>2. ids \subseteq JobIds
    BY DEF Objects
  <2>3. \A j \in ids : next[j] \in Nat
    BY <2>1, <2>2, NextRunsAreInstants
  <2> HIDE DEF ids
  <2>4. nextRun' \in [JobIds -> Nat]
    BY <2>1, <2>3 DEF TypeOK
  <2>5. Waits(count', nextRun') \subseteq Nat
    BY <2>4, SchedulerAssumption DEF Waits, Registered, Objects
  <2>6. sleep' \in Nat
    BY <1>1, <2>5 DEF LoopEvaluate, Least
  <2>7. count' \in [Objects -> Int] /\ created' \in [Objects -> Nat]
    BY <1>1 DEF LoopEvaluate, TypeOK
  <2>8. QED
    BY <1>1, <2>4, <2>6, <2>7 DEF LoopEvaluate, TypeOK, table
<1>2. ASSUME NEW o \in Objects, TaskBegins(o)
      PROVE  TypeOK'
  <2>1. created' \in [Objects -> Nat] /\ active' \in [Objects -> Nat]
    BY <1>2 DEF TaskBegins, TypeOK
  <2>2. starts' \in [Objects -> 0 .. 2]
    BY <1>2 DEF TaskBegins, TypeOK
  <2>3. QED
    BY <1>2, <2>1, <2>2 DEF TaskBegins, TypeOK, table, fields, control
<1>3. ASSUME NEW o \in Objects, TaskEnds(o)
      PROVE  TypeOK'
  <2>1. active' \in [Objects -> Nat]
    BY <1>3 DEF TaskEnds, TypeOK
  <2>2. QED
    BY <1>3, <2>1, FinallyTyped DEF TaskEnds, Finally, TypeOK, table
<1>4. ASSUME NEW o \in Objects, CancelledTaskEnds(o)
      PROVE  TypeOK'
  <2>1. cancelled' \in [Objects -> Nat]
    BY <1>4 DEF CancelledTaskEnds, TypeOK
  <2>2. QED
    BY <1>4, <2>1, FinallyTyped DEF CancelledTaskEnds, Finally, TypeOK, table
<1>5. ASSUME NEW o \in Objects, OrphanReturns(o)
      PROVE  TypeOK'
  BY <1>5 DEF OrphanReturns, TypeOK, table, fields, control
<1>6. CASE Tick
  BY <1>6 DEF Tick, TypeOK, Minus1, NotSaved, table, tasks
<1>7. QED
  BY <1>1, <1>2, <1>3, <1>4, <1>5, <1>6 DEF Steps

LEMMA InitTyped == Init => TypeOK
<1> SUFFICES ASSUME Init PROVE TypeOK
  OBVIOUS
<1>1. 0 \in 0 .. MaxGen
  BY SchedulerAssumption
<1>2. /\ made \in [JobIds -> 0 .. MaxGen] /\ current \in [JobIds -> 0 .. MaxGen]
      /\ starts \in [Objects -> 0 .. 2]
  BY <1>1 DEF Init
<1>3. /\ count \in [Objects -> Int] /\ nextRun \in [JobIds -> Nat]
      /\ created \in [Objects -> Nat] /\ active \in [Objects -> Nat]
      /\ cancelled \in [Objects -> Nat] /\ orphans \in [Objects -> Nat]
      /\ saved \in [JobIds -> Nat \cup {NotSaved}]
  BY DEF Init
<1>4. enabled \in [Objects -> BOOLEAN]
  BY Zenon DEF Init
<1>5. QED
  BY <1>2, <1>3, <1>4 DEF Init, TypeOK

LEMMA NextTyped == TypeOK /\ [Next]_vars => TypeOK'
<1> SUFFICES ASSUME TypeOK, [Next]_vars PROVE TypeOK'
  OBVIOUS
<1>1. CASE UNCHANGED vars
  BY <1>1 DEF vars, table, fields, tasks, control, TypeOK
<1>2. CASE Next
  BY <1>2, CallsTyped, StepsTyped DEF Next
<1>3. QED
  BY <1>1, <1>2

\* Every variable of the scheduler keeps its type, for any jobs and limits.
THEOREM TypeCorrect == Spec => []TypeOK
  BY InitTyped, NextTyped, PTL DEF Spec
-----------------------------------------------------------------------------
(* The admission test of the loop reads running_count, so it is only as good  *)
(* as the count.  CountIsLive is inductive once it is known that a stopped    *)
(* scheduler has no task that can still begin or end by itself.               *)

\* An object that was not made yet has no task.
FreshIsIdle ==
  \A o \in Objects : o[2] > made[o[1]] =>
    created[o] = 0 /\ active[o] = 0 /\ cancelled[o] = 0

StoppedIsIdle ==
  ~running => \A o \in Objects : created[o] = 0 /\ active[o] = 0

CleanedUp ==
  ~running /\ ~stopping => \A o \in Objects : Plain(o) => cancelled[o] = 0

CountsMatch ==
  ~stopping => \A o \in Registered : Plain(o) => count[o] = Live(o)

CInv ==
  /\ running => ~stopping
  /\ \A j \in JobIds : current[j] <= made[j]
  /\ FreshIsIdle
  /\ Trigger # "always" => StoppedIsIdle /\ CleanedUp /\ CountsMatch

LEMMA InitCounts == Init => CInv
  BY SchedulerAssumption
  DEF Init, CInv, FreshIsIdle, StoppedIsIdle, CleanedUp, CountsMatch, Registered,
      Live, Objects

LEMMA CallsCount ==
  ASSUME TypeOK, CInv, Calls
  PROVE  CInv'
<1>1. ASSUME NEW j \in JobIds, AddJob(j)
      PROVE  CInv'
  <2> DEFINE new == <<j, made[j] + 1>>
  <2>1. new \in Objects /\ made[j] \in Nat /\ current[j] \in Nat
    BY <1>1, SchedulerAssumption DEF AddJob, TypeOK, Objects
  <2>2. /\ made' \in [JobIds -> Nat] /\ current' \in [JobIds -> Nat]
        /\ made'[j] = made[j] + 1 /\ current'[j] = made[j] + 1
        /\ \A i \in JobIds \ {j} : made'[i] = made[i] /\ current'[i] = current[i]
    BY <1>1, <2>1 DEF AddJob, TypeOK
  <2>3. /\ count'[new] = 0 /\ \A o \in Objects \ {new} : count'[o] = count[o]
        /\ UNCHANGED <<created, active, cancelled, running, stopping>>
    BY <1>1, <2>1 DEF AddJob, TypeOK, tasks, control
  <2>4. \A i \in JobIds : current'[i] <= made'[i]
    BY <2>1, <2>2 DEF CInv, TypeOK
  <2>5. \A o \in Objects : o[1] \in JobIds /\ o[2] \in Nat /\ o = <<o[1], o[2]>>
    BY DEF Objects
  <2>6. FreshIsIdle'
    BY <2>1, <2>2, <2>3, <2>5 DEF CInv, FreshIsIdle, TypeOK
  <2>7. created[new] = 0 /\ active[new] = 0 /\ cancelled[new] = 0
    BY <2>1, <2>5 DEF CInv, FreshIsIdle
  <2>8. \A o \in Registered' : o = new \/ (o # new /\ o \in Registered)
    BY <2>2, <2>5 DEF Registered
  <2>9. CountsMatch \/ ~(Trigger # "always")
    BY DEF CInv
  <2>10. Trigger # "always" => CountsMatch'
    BY <2>3, <2>7, <2>8, <2>9 DEF CountsMatch, Live, Plain, Registered
  <2>11. Trigger # "always" => StoppedIsIdle' /\ CleanedUp'
    BY <2>3 DEF CInv, StoppedIsIdle, CleanedUp
  <2>12. QED
    BY <2>3, <2>4, <2>6, <2>10, <2>11 DEF CInv
<1>2. ASSUME NEW j \in JobIds, RemoveJob(j)
      PROVE  CInv'
  <2> DEFINE named == {o \in Objects : o[1] = j}
  <2>1. CancelTasks(named)
    BY <1>2 DEF RemoveJob
  <2>2. /\ \A o \in named : /\ created'[o] = 0 /\ active'[o] = 0
                            /\ cancelled'[o] = cancelled[o] + active[o]
        /\ \A o \in Objects \ named :
             created'[o] = created[o] /\ active'[o] = active[o]
             /\ cancelled'[o] = cancelled[o]
    BY <2>1, CancelTasksTyped
  <2>3. /\ current' = [current EXCEPT ![j] = 0]
        /\ UNCHANGED <<made, count, running, stopping>>
    BY <1>2 DEF RemoveJob, fields, control
  <2>4. \A i \in JobIds : current'[i] <= made'[i]
    BY <2>3, SchedulerAssumption DEF CInv, TypeOK
  <2>5. FreshIsIdle'
    BY <2>2, <2>3 DEF CInv, FreshIsIdle, TypeOK
  <2>6. \A o \in Registered' : o \in Registered /\ o \in Objects \ named
    BY <2>3, SchedulerAssumption DEF Registered, TypeOK, Objects
  <2>7. Trigger # "always" => CountsMatch'
    BY <2>2, <2>3, <2>6 DEF CInv, CountsMatch, Live, Plain
  <2>8. Trigger # "always" => StoppedIsIdle' /\ CleanedUp'
    BY <2>2, <2>3 DEF CInv, StoppedIsIdle, CleanedUp, TypeOK
  <2>9. QED
    BY <2>3, <2>4, <2>5, <2>7, <2>8 DEF CInv
<1>3. ASSUME NEW j \in JobIds, RunJobNow(j)
      PROVE  CInv'
  <2> DEFINE o == <<j, current[j]>>
  <2>1. o \in Objects /\ current[j] <= made[j]
    BY <1>3, SchedulerAssumption DEF RunJobNow, TypeOK, Objects, CInv
  <2>2. /\ count'[o] = count[o] + 1 /\ created'[o] = created[o] + 1
        /\ \A p \in Objects \ {o} : count'[p] = count[p] /\ created'[p] = created[p]
        /\ UNCHANGED <<made, current, active, cancelled, running, stopping>>
    BY <1>3, <2>1 DEF RunJobNow, TypeOK, table, control
  <2>3. FreshIsIdle'
    BY <2>1, <2>2, SchedulerAssumption DEF CInv, FreshIsIdle, TypeOK
  <2>4. Trigger # "always" => running
    BY <1>3 DEF RunJobNow
  <2>5. Trigger # "always" => CountsMatch'
    BY <2>1, <2>2 DEF CInv, CountsMatch, Live, Plain, Registered, TypeOK
  <2>6. Trigger # "always" => StoppedIsIdle' /\ CleanedUp'
    BY <2>2, <2>4 DEF StoppedIsIdle, CleanedUp
  <2>7. QED
    BY <2>2, <2>3, <2>5, <2>6 DEF CInv
<1>4. CASE Start
  <2>1. /\ ~running /\ ~stopping /\ running'
        /\ UNCHANGED <<made, current, created, active, cancelled, stopping>>
        /\ \A o \in Objects : count'[o] = 0 \/ count'[o] = count[o]
    BY <1>4 DEF Start, LoadState, TypeOK, table, tasks
  <2>2. Trigger # "always" => \A o \in Objects : Plain(o) => Live(o) = 0
    BY <2>1 DEF CInv, StoppedIsIdle, CleanedUp, Live
  <2>3. Trigger # "always" => CountsMatch'
    BY <2>1, <2>2 DEF CInv, CountsMatch, Live, Plain, Registered
  <2>4. QED
    BY <2>1, <2>3 DEF CInv, FreshIsIdle, StoppedIsIdle, CleanedUp
<1>5. CASE StopBegin
  <2>1. /\ \A o \in Objects : /\ created'[o] = 0 /\ active'[o] = 0
                              /\ cancelled'[o] = cancelled[o] + active[o]
        /\ ~running' /\ stopping' /\ UNCHANGED <<made, current>>
    BY <1>5, CancelTasksTyped DEF StopBegin, table
  <2>2. FreshIsIdle'
    BY <2>1 DEF CInv, FreshIsIdle, TypeOK
  <2>3. QED
    BY <2>1, <2>2 DEF CInv, StoppedIsIdle, CleanedUp, CountsMatch
<1>6. CASE StopEnd
  <2>1. /\ stopping /\ ~stopping'
        /\ \A o \in Objects : Plain(o) => cancelled[o] = 0
        /\ \A o \in Registered : count'[o] = 0
        /\ UNCHANGED <<made, current, created, active, cancelled, running>>
    BY <1>6 DEF StopEnd, table, tasks, Plain, Registered
  <2>2. Trigger # "always" =>
          /\ StoppedIsIdle' /\ CleanedUp'
          /\ \A o \in Objects : Plain(o) => Live(o) = 0
    BY <2>1 DEF CInv, StoppedIsIdle, CleanedUp, Live, Plain
  <2>3. Trigger # "always" => CountsMatch'
    BY <2>1, <2>2 DEF CountsMatch, Live, Plain, Registered
  <2>4. QED
    BY <2>1, <2>2, <2>3 DEF CInv, FreshIsIdle
<1>7. QED
  BY <1>1, <1>2, <1>3, <1>4, <1>5, <1>6 DEF Calls

LEMMA StepsCount ==
  ASSUME TypeOK, CInv, Steps
  PROVE  CInv'
<1>1. CASE LoopEvaluate
  <2> DEFINE due == {o \in Objects : Due(o)}
  <2>1. /\ running
        /\ \A o \in Objects :
             IF o \in due
             THEN count'[o] = count[o] + 1 /\ created'[o] = created[o] + 1
             ELSE count'[o] = count[o] /\ created'[o] = created[o]
        /\ UNCHANGED <<made, current, active, cancelled, running, stopping>>
    BY <1>1 DEF LoopEvaluate, table
  <2>2. \A o \in due : o[2] = current[o[1]] /\ o[2] <= made[o[1]]
    BY DEF Due, Registered, CInv, Objects
  <2> HIDE DEF due
  <2>3. FreshIsIdle'
    BY <2>1, <2>2, SchedulerAssumption DEF CInv, FreshIsIdle, TypeOK, Objects
  <2>4. Trigger # "always" => CountsMatch'
    BY <2>1 DEF CInv, CountsMatch, Live, Plain, Registered, TypeOK
  <2>5. QED
    BY <2>1, <2>3, <2>4 DEF CInv, StoppedIsIdle, CleanedUp
<1>2. ASSUME NEW o \in Objects, TaskBegins(o)
      PROVE  CInv'
  <2>1. /\ created[o] > 0
        /\ created'[o] = created[o] - 1 /\ active'[o] = active[o] + 1
        /\ \A p \in Objects \ {o} :
             created'[p] = created[p] /\ active'[p] = active[p]
        /\ UNCHANGED <<made, current, count, cancelled, running, stopping>>
    BY <1>2 DEF TaskBegins, TypeOK, table, fields, control
  <2>2. FreshIsIdle'
    BY <2>1 DEF CInv, FreshIsIdle
  <2>3. Trigger # "always" => running
    BY <2>1 DEF CInv, StoppedIsIdle
  <2>4. Trigger # "always" => CountsMatch'
    <3>1. Live(o)' = Live(o)
      BY <2>1 DEF Live, TypeOK
    <3>2. \A p \in Objects \ {o} : Live(p)' = Live(p)
      BY <2>1 DEF Live
    <3> HIDE DEF Live
    <3>3. QED
      BY <2>1, <3>1, <3>2 DEF CInv, CountsMatch, Plain, Registered
  <2>5. QED
    BY <2>1, <2>2, <2>3, <2>4 DEF CInv, StoppedIsIdle, CleanedUp
<1>3. ASSUME NEW o \in Objects, TaskEnds(o)
      PROVE  CInv'
  <2>1. /\ active[o] > 0 /\ active'[o] = active[o] - 1 /\ count'[o] = count[o] - 1
        /\ \A p \in Objects \ {o} :
             count'[p] = count[p] /\ active'[p] = active[p]
        /\ UNCHANGED <<made, current, created, cancelled, running, stopping>>
    BY <1>3 DEF TaskEnds, Finally, TypeOK, table
  <2>2. FreshIsIdle'
    BY <2>1 DEF CInv, FreshIsIdle
  <2>3. Trigger # "always" => running
    BY <2>1 DEF CInv, StoppedIsIdle
  <2>4. Trigger # "always" => CountsMatch'
    BY <2>1 DEF CInv, CountsMatch, Live, Plain, Registered, TypeOK
  <2>5. QED
    BY <2>1, <2>2, <2>3, <2>4 DEF CInv, StoppedIsIdle, CleanedUp
<1>4. ASSUME NEW o \in Objects, CancelledTaskEnds(o)
      PROVE  CInv'
  <2>1. /\ cancelled[o] > 0 /\ cancelled'[o] = cancelled[o] - 1
        /\ count'[o] = count[o] - 1
        /\ \A p \in Objects \ {o} :
             count'[p] = count[p] /\ cancelled'[p] = cancelled[p]
        /\ UNCHANGED <<made, current, created, active, running, stopping>>
    BY <1>4 DEF CancelledTaskEnds, Finally, TypeOK, table
  <2>2. FreshIsIdle'
    BY <2>1 DEF CInv, FreshIsIdle
  <2>3. Trigger # "always" => CountsMatch'
    <3>1. Live(o)' = Live(o) - 1
      BY <2>1 DEF Live, TypeOK
    <3>2. \A p \in Objects \ {o} : Live(p)' = Live(p)
      BY <2>1 DEF Live
    <3> HIDE DEF Live
    <3>3. QED
      BY <2>1, <3>1, <3>2 DEF CInv, CountsMatch, Plain, Registered
  <2>4. Trigger # "always" => StoppedIsIdle' /\ CleanedUp'
    BY <2>1 DEF CInv, StoppedIsIdle, CleanedUp, Plain
  <2>5. QED
    BY <2>1, <2>2, <2>3, <2>4 DEF CInv
<1>5. CASE Tick \/ \E o \in Objects : OrphanReturns(o)
  BY <1>5 DEF Tick, OrphanReturns, table, tasks, fields, control, CInv,
    FreshIsIdle, StoppedIsIdle, CleanedUp, CountsMatch, Registered, Live, Plain
<1>6. QED
  BY <1>1, <1>2, <1>3, <1>4, <1>5 DEF Steps

LEMMA NextCounts == TypeOK /\ CInv /\ [Next]_vars => CInv'
<1> SUFFICES ASSUME TypeOK, CInv, [Next]_vars PROVE CInv'
  OBVIOUS
<1>1. CASE UNCHANGED vars
  BY <1>1 DEF vars, table, tasks, fields, control, CInv, FreshIsIdle,
    StoppedIsIdle, CleanedUp, CountsMatch, Registered, Live, Plain
<1>2. CASE Next
  BY <1>2, CallsCount, StepsCount DEF Next
<1>3. QED
  BY <1>1, <1>2

\* However jobs are added, replaced, removed, triggered, stopped and restarted,
\* running_count of a registered job is the number of its tasks alive.
THEOREM CountCorrect == Spec => []CountIsLive
<1>1. CInv => CountIsLive
  BY DEF CInv, CountsMatch, CountIsLive
<1>2. QED
  BY <1>1, InitTyped, NextTyped, InitCounts, NextCounts, PTL DEF Spec
-----------------------------------------------------------------------------
(* A one-shot job with the default limit runs once: a start uses up the one   *)
(* run that the count admits, and the end of that run disables the job.       *)

RunsLeft ==
  \A o \in Objects :
    IF Kind[o[1]] = "oneshot"
    THEN /\ starts[o] + created[o] <= 1
         /\ enabled[o] => starts[o] = active[o] + cancelled[o]
         /\ o[2] > made[o[1]] => starts[o] = 0
    ELSE starts[o] = 0

\* What run_job_now and a pass of the loop admit is within the limit of one.
LEMMA AdmittedOnce ==
  ASSUME TypeOK, CInv, RunsLeft, Trigger # "always", Coroutines = {}, running,
         NEW o \in Registered, Eligible(o), MaxRunning[o[1]] = 1,
         Kind[o[1]] = "oneshot"
  PROVE  starts[o] = 0 /\ created[o] = 0
<1>1. o \in Objects /\ count[o] = Live(o)
  BY DEF Registered, CInv, CountsMatch, Plain
<1>2. count[o] < 1 /\ enabled[o]
  BY DEF Eligible
<1>3. created[o] \in Nat /\ active[o] \in Nat /\ cancelled[o] \in Nat
  BY <1>1 DEF TypeOK
<1>4. created[o] = 0 /\ active[o] = 0 /\ cancelled[o] = 0
  BY <1>1, <1>2, <1>3 DEF Live
<1>5. QED
  BY <1>1, <1>2, <1>4 DEF RunsLeft

LEMMA NextOnce ==
  ASSUME Trigger # "always", Coroutines = {}, \A j \in JobIds : MaxRunning[j] = 1
  PROVE  TypeOK /\ CInv /\ RunsLeft /\ [Next]_vars => RunsLeft'
<1> SUFFICES ASSUME TypeOK, CInv, RunsLeft, [Next]_vars PROVE RunsLeft'
  OBVIOUS
<1>1. CASE UNCHANGED vars \/ Start \/ StopEnd \/ Tick
           \/ \E o \in Objects : OrphanReturns(o)
  BY <1>1 DEF vars, table, tasks, fields, Start, LoadState, StopEnd, Tick, OrphanReturns,
    RunsLeft
<1>2. ASSUME NEW j \in JobIds, AddJob(j)
      PROVE  RunsLeft'
  <2> DEFINE new == <<j, made[j] + 1>>
  <2>1. new \in Objects /\ made[j] \in Nat /\ new[1] = j /\ new[2] > made[j]
    BY <1>2, SchedulerAssumption DEF AddJob, TypeOK, Objects
  <2>2. /\ made'[j] = made[j] + 1
        /\ \A i \in JobIds \ {j} : made'[i] = made[i]
        /\ \A o \in Objects \ {new} : enabled'[o] = enabled[o]
        /\ UNCHANGED <<created, active, cancelled, starts>>
    BY <1>2, <2>1 DEF AddJob, TypeOK, tasks
  <2>3. created[new] = 0 /\ active[new] = 0 /\ cancelled[new] = 0
    BY <2>1 DEF CInv, FreshIsIdle
  <2>4. starts[new] = 0
    BY <2>1 DEF RunsLeft
  <2>5. \A o \in Objects : o[1] \in JobIds /\ o[2] \in Nat
    BY DEF Objects
  <2> HIDE DEF new
  <2>6. ASSUME NEW o \in Objects
        PROVE  o[2] > made'[o[1]] => o[2] > made[o[1]]
    BY <2>1, <2>2, <2>5
  <2>7. QED
    BY <2>2, <2>3, <2>4, <2>6 DEF RunsLeft
<1>3. ASSUME NEW j \in JobIds, RemoveJob(j)
      PROVE  RunsLeft'
  <2>1. /\ CancelTasks({o \in Objects : o[1] = j})
        /\ UNCHANGED <<made, enabled, starts>>
    BY <1>3 DEF RemoveJob, fields
  <2>2. QED
    BY <2>1, CancelTasksTyped DEF RunsLeft, TypeOK
<1>4. CASE StopBegin
  <2>1. CancelTasks(Objects) /\ UNCHANGED <<made, enabled, starts>>
    BY <1>4 DEF StopBegin, table, fields
  <2>2. QED
    BY <2>1, CancelTasksTyped DEF RunsLeft, TypeOK
<1>5. ASSUME NEW j \in JobIds, RunJobNow(j)
      PROVE  RunsLeft'
  <2> DEFINE o == <<j, current[j]>>
  <2>1. o \in Registered /\ o \in Objects /\ Eligible(o) /\ running
    BY <1>5, SchedulerAssumption DEF RunJobNow, TypeOK, Objects, Registered
  <2>2. /\ created'[o] = created[o] + 1
        /\ \A p \in Objects \ {o} : created'[p] = created[p]
        /\ UNCHANGED <<made, enabled, active, cancelled, starts>>
    BY <1>5, <2>1 DEF RunJobNow, TypeOK, table
  <2>3. Kind[o[1]] = "oneshot" => starts[o] = 0 /\ created[o] = 0
    BY <2>1, AdmittedOnce DEF Objects
  <2> HIDE DEF o
  <2>4. QED
    BY <2>1, <2>2, <2>3 DEF RunsLeft
<1>6. CASE LoopEvaluate
  <2> DEFINE due == {o \in Objects : Due(o)}
  <2>1. /\ running
        /\ \A o \in due : created'[o] = created[o] + 1
        /\ \A o \in Objects \ due : created'[o] = created[o]
        /\ UNCHANGED <<made, enabled, active, cancelled, starts>>
    BY <1>6 DEF LoopEvaluate, table
  <2>2. ASSUME NEW o \in due, Kind[o[1]] = "oneshot"
        PROVE  starts[o] = 0 /\ created[o] = 0
    BY <2>1, <2>2, AdmittedOnce DEF Due, Objects
  <2> HIDE DEF due
  <2>3. QED
    BY <2>1, <2>2 DEF RunsLeft
<1>7. ASSUME NEW o \in Objects, TaskBegins(o)
      PROVE  RunsLeft'
  <2>1. /\ created[o] > 0
        /\ created'[o] = created[o] - 1 /\ active'[o] = active[o] + 1
        /\ starts'[o] = IF Kind[o[1]] = "oneshot" /\ starts[o] < 2
                        THEN starts[o] + 1 ELSE starts[o]
        /\ \A p \in Objects \ {o} :
             /\ created'[p] = created[p] /\ active'[p] = active[p]
             /\ starts'[p] = starts[p]
        /\ UNCHANGED <<made, enabled, cancelled>>
    BY <1>7 DEF TaskBegins, TypeOK, table, fields
  <2>2. /\ created[o] \in Nat /\ active[o] \in Nat /\ cancelled[o] \in Nat
        /\ starts[o] \in 0 .. 2
    BY DEF TypeOK
  <2>3. ~(o[2] > made[o[1]])
    BY <2>1 DEF CInv, FreshIsIdle
  <2>4. CASE Kind[o[1]] = "oneshot"
    <3>1. starts[o] + created[o] <= 1 /\ (enabled[o] => starts[o] = active[o] + cancelled[o])
      BY <2>4 DEF RunsLeft
    <3>2. starts'[o] = starts[o] + 1 /\ starts'[o] + created'[o] <= 1
      BY <2>1, <2>2, <2>4, <3>1
    <3>3. enabled[o] => starts'[o] = active'[o] + cancelled[o]
      BY <2>1, <2>2, <3>1, <3>2
    <3>4. QED
      BY <2>1, <2>3, <2>4, <3>2, <3>3 DEF RunsLeft
  <2>5. CASE Kind[o[1]] # "oneshot"
    BY <2>1, <2>5 DEF RunsLeft
  <2>6. QED
    BY <2>4, <2>5
<1>8. ASSUME NEW o \in Objects, TaskEnds(o) \/ CancelledTaskEnds(o)
      PROVE  RunsLeft'
  <2>1. /\ Kind[o[1]] = "oneshot" => ~enabled'[o]
        /\ \A p \in Objects \ {o} :
             /\ enabled'[p] = enabled[p] /\ active'[p] = active[p]
             /\ cancelled'[p] = cancelled[p]
        /\ UNCHANGED <<made, created, starts>>
    BY <1>8 DEF TaskEnds, CancelledTaskEnds, Finally, TypeOK, table
  <2>2. QED
    BY <2>1 DEF RunsLeft
<1>9. QED
  BY <1>1, <1>2, <1>3, <1>4, <1>5, <1>6, <1>7, <1>8 DEF Next, Calls, Steps

\* A one-shot job with max_running 1 whose function is not a coroutine is never
\* run twice, whatever polls, triggers, stops, restarts and failed saves happen,
\* as long as nobody triggers jobs of a stopped scheduler.
THEOREM RunsOnce ==
  ASSUME Trigger # "always", Coroutines = {}, \A j \in JobIds : MaxRunning[j] = 1
  PROVE  Spec => []OneShotRunsOnce
<1>1. Init => RunsLeft
  BY DEF Init, RunsLeft
<1>2. TypeOK /\ RunsLeft => OneShotRunsOnce
  BY DEF TypeOK, RunsLeft, OneShotRunsOnce
<1>3. TypeOK /\ CInv /\ RunsLeft /\ [Next]_vars => RunsLeft'
  BY NextOnce
<1>4. QED
  BY <1>1, <1>2, <1>3, InitTyped, NextTyped, InitCounts, NextCounts, PTL DEF Spec
-----------------------------------------------------------------------------
(* The scheduler implements JobExecutor: what the loop admits by the count is *)
(* within the limit on live runs, and a disabled one-shot job is spent.       *)

Once == {o \in Objects : Kind[o[1]] = "oneshot"}
Limits == [o \in Objects |-> MaxRunning[o[1]]]
Lives == [o \in Objects |-> Live(o)]
Spent == {o \in Objects : /\ Kind[o[1]] = "oneshot"
                          /\ o[2] <= made[o[1]]
                          /\ ~enabled[o]}

LEMMA InitExecutes == Init => Executor!Init
  BY SchedulerAssumption
  DEF Init, Executor!Init, Registered, Live, Objects

\* A step that changes nothing the executor sees.
LEMMA Stutters ==
  ASSUME Registered' = Registered, Spent' = Spent,
         \A o \in Objects : Live(o)' = Live(o)
  PROVE  UNCHANGED Executor!evars
<1>1. Lives' = Lives
  BY DEF Lives
<1>2. QED
  BY <1>1 DEF Executor!evars, Lives, Spent

\* A step that starts a run of each object in S.
LEMMA Admits ==
  ASSUME TypeOK, CInv, Trigger # "always", Coroutines = {}, running,
         NEW S \in SUBSET Registered, \A o \in S : Eligible(o),
         Registered' = Registered, Spent' = Spent,
         \A o \in Objects : Live(o)' = IF o \in S THEN Live(o) + 1 ELSE Live(o)
  PROVE  Executor!Next
<1>1. \A o \in S : /\ o \in Objects /\ o \notin Spent
                   /\ Live(o) < MaxRunning[o[1]]
  BY DEF Eligible, Registered, Spent, CInv, CountsMatch, Plain
<1>2. Lives' = [o \in Objects |-> IF o \in S THEN Lives[o] + 1 ELSE Lives[o]]
  BY DEF Lives
<1>3. S \in SUBSET Objects /\ \A o \in S : Lives[o] < Limits[o]
  BY <1>1 DEF Lives, Limits
<1>4. Executor!Admit(S)
  BY <1>1, <1>2, <1>3 DEF Executor!Admit, Lives, Limits, Spent
<1>5. QED
  BY <1>3, <1>4 DEF Executor!Next

\* A step that only withdraws objects and runs.
LEMMA Sheds ==
  ASSUME Registered' \subseteq Registered, Spent' = Spent,
         \A o \in Objects : Live(o)' \in Nat /\ Live(o)' <= Live(o)
  PROVE  Executor!Next
<1>1. Lives' \in [Objects -> Nat] /\ \A o \in Objects : Lives'[o] <= Lives[o]
  BY DEF Lives
<1>2. Executor!Shed
  BY <1>1 DEF Executor!Shed, Lives, Spent
<1>3. QED
  BY <1>2 DEF Executor!Next

LEMMA NextExecutes ==
  ASSUME Trigger # "always", Coroutines = {}
  PROVE  TypeOK /\ CInv /\ [Next]_vars => [Executor!Next]_(Executor!evars)
<1> SUFFICES ASSUME TypeOK, CInv, [Next]_vars
             PROVE  Executor!Next \/ UNCHANGED Executor!evars
  OBVIOUS
<1>1. CASE UNCHANGED vars \/ Start \/ StopEnd \/ Tick
           \/ \E o \in Objects : OrphanReturns(o)
  <2>1. UNCHANGED <<made, current, enabled, created, active, cancelled>>
    BY <1>1 DEF vars, table, tasks, fields, Start, LoadState, StopEnd, Tick, OrphanReturns
  <2>2. QED
    BY <2>1, Stutters DEF Registered, Spent, Live
<1>2. ASSUME NEW j \in JobIds, AddJob(j)
      PROVE  Executor!Next
  <2> DEFINE new == <<j, made[j] + 1>>
  <2>1. /\ new \in Objects /\ made[j] \in Nat
        /\ made' = [made EXCEPT ![j] = @ + 1]
        /\ current' = [current EXCEPT ![j] = made[j] + 1]
        /\ enabled' = [enabled EXCEPT ![new] = TRUE]
        /\ UNCHANGED <<created, active, cancelled>>
    BY <1>2, SchedulerAssumption DEF AddJob, TypeOK, Objects, tasks
  <2>2. \A o \in Objects : o[1] \in JobIds /\ o[2] \in Nat /\ o = <<o[1], o[2]>>
    BY DEF Objects
  <2>3. Live(new) = 0 /\ new \notin Spent
    BY <2>1 DEF CInv, FreshIsIdle, Live, Spent, TypeOK
  <2>4. Registered' = (Registered \ {p \in Registered : p[1] = new[1]}) \cup {new}
    <3>1. \A o \in Objects : o \in Registered' <=> IF o[1] = j THEN o = new
                                                   ELSE o \in Registered
      BY <2>1, <2>2 DEF Registered, TypeOK
    <3>2. Registered' \subseteq Objects /\ Registered \subseteq Objects
      BY DEF Registered
    <3>3. QED
      BY <2>1, <3>1, <3>2
  <2>5. Spent' = Spent
    <3>1. ASSUME NEW o \in Objects
          PROVE  o[2] <= made'[o[1]] /\ ~enabled'[o]
                   <=> o[2] <= made[o[1]] /\ ~enabled[o]
      <4>1. CASE o = new
        BY <2>1, <4>1 DEF TypeOK
      <4>2. CASE o # new
        BY <2>1, <2>2, <4>2 DEF TypeOK
      <4>3. QED
        BY <4>1, <4>2
    <3>2. QED
      BY <3>1 DEF Spent
  <2>6. Lives' = Lives /\ Lives[new] = 0
    BY <2>1, <2>3 DEF Lives, Live
  <2> HIDE DEF new
  <2>7. Executor!Register(new)
    BY <2>3, <2>4, <2>5, <2>6 DEF Executor!Register, Lives, Spent
  <2>8. QED
    BY <2>1, <2>7 DEF Executor!Next
<1>3. ASSUME NEW j \in JobIds, RemoveJob(j)
      PROVE  Executor!Next
  <2>1. /\ CancelTasks({o \in Objects : o[1] = j})
        /\ current' = [current EXCEPT ![j] = 0]
        /\ UNCHANGED <<made, enabled>>
    BY <1>3 DEF RemoveJob, fields
  <2>2. \A o \in Objects : Live(o)' \in Nat /\ Live(o)' <= Live(o)
    BY <2>1, CancelTasksTyped DEF Live, TypeOK
  <2>3. Registered' \subseteq Registered
    BY <2>1 DEF Registered, TypeOK, Objects
  <2>4. QED
    BY <2>1, <2>2, <2>3, Sheds DEF Spent
<1>4. CASE StopBegin
  <2>1. CancelTasks(Objects) /\ UNCHANGED <<made, current, enabled>>
    BY <1>4 DEF StopBegin, table, fields
  <2>2. \A o \in Objects : Live(o)' \in Nat /\ Live(o)' <= Live(o)
    BY <2>1, CancelTasksTyped DEF Live, TypeOK
  <2>3. QED
    BY <2>1, <2>2, Sheds DEF Spent, Registered
<1>5. ASSUME NEW j \in JobIds, RunJobNow(j)
      PROVE  Executor!Next
  <2> DEFINE o == <<j, current[j]>>
  <2>1. o \in Registered /\ o \in Objects /\ Eligible(o) /\ running
    BY <1>5, SchedulerAssumption DEF RunJobNow, TypeOK, Objects, Registered
  <2>2. /\ created' = [created EXCEPT ![o] = @ + 1]
        /\ UNCHANGED <<made, current, enabled, active, cancelled>>
    BY <1>5 DEF RunJobNow, table
  <2> HIDE DEF o
  <2>3. \A p \in Objects :
          Live(p)' = IF p \in {o} THEN Live(p) + 1 ELSE Live(p)
    BY <2>1, <2>2 DEF Live, TypeOK
  <2>4. QED
    BY <2>1, <2>2, <2>3, Admits DEF Registered, Spent
<1>6. CASE LoopEvaluate
  <2> DEFINE due == {o \in Objects : Due(o)}
  <2>1. /\ running
        /\ \A o \in due : created'[o] = created[o] + 1
        /\ \A o \in Objects \ due : created'[o] = created[o]
        /\ UNCHANGED <<made, current, enabled, active, cancelled>>
    BY <1>6 DEF LoopEvaluate, table
  <2>2. due \in SUBSET Registered /\ \A o \in due : Eligible(o)
    BY DEF Due
  <2> HIDE DEF due
  <2>3. \A p \in Objects :
          Live(p)' = IF p \in due THEN Live(p) + 1 ELSE Live(p)
    BY <2>1 DEF Live, TypeOK
  <2>4. QED
    BY <2>1, <2>2, <2>3, Admits DEF Registered, Spent
<1>7. ASSUME NEW o \in Objects, TaskBegins(o)
      PROVE  UNCHANGED Executor!evars
  <2>1. /\ created' = [created EXCEPT ![o] = @ - 1]
        /\ active' = [active EXCEPT ![o] = @ + 1]
        /\ UNCHANGED <<made, current, enabled, cancelled>>
    BY <1>7 DEF TaskBegins, table, fields
  <2>2. \A p \in Objects : Live(p)' = Live(p)
    BY <2>1 DEF Live, TypeOK
  <2>3. QED
    BY <2>1, <2>2, Stutters DEF Registered, Spent
<1>8. ASSUME NEW o \in Objects, TaskEnds(o) \/ CancelledTaskEnds(o)
      PROVE  Executor!Next
  <2>1. /\ Finally(o)
        /\ enabled' = [enabled EXCEPT ![o] = @ /\ Kind[o[1]] # "oneshot"]
        /\ UNCHANGED <<made, current, created>>
    BY <1>8 DEF TaskEnds, CancelledTaskEnds, Finally, table
  <2>2. Live(o) > 0 /\ Live(o)' = Live(o) - 1
        /\ \A p \in Objects \ {o} : Live(p)' = Live(p)
    BY <1>8, <2>1 DEF TaskEnds, CancelledTaskEnds, Live, TypeOK
  <2>3. o[2] <= made[o[1]]
    BY <2>2, SchedulerAssumption DEF CInv, FreshIsIdle, Live, TypeOK, Objects
  <2>4. Spent' = Spent \cup ({o} \cap Once)
    <3>1. ASSUME NEW p \in Objects
          PROVE  p \in Spent' <=> p \in Spent \/ (p = o /\ p \in Once)
      BY <2>1, <2>3 DEF Spent, Once, TypeOK
    <3>2. Spent' \subseteq Objects /\ Spent \subseteq Objects /\ Once \subseteq Objects
      BY DEF Spent, Once
    <3>3. QED
      BY <3>1, <3>2
  <2>5. Lives' = [Lives EXCEPT ![o] = @ - 1] /\ Lives[o] > 0
    BY <2>2 DEF Lives
  <2>6. Registered' = Registered
    BY <2>1 DEF Registered
  <2>7. Executor!End(o)
    BY <2>4, <2>5, <2>6 DEF Executor!End, Lives, Spent, Once
  <2>8. QED
    BY <2>7 DEF Executor!Next
<1>9. QED
  BY <1>1, <1>2, <1>3, <1>4, <1>5, <1>6, <1>7, <1>8 DEF Next, Calls, Steps

\* Refinement: with plain functions the scheduler keeps the promise of
\* JobExecutor, never more live runs of a registered job than its limit and no
\* run of a one-shot job after one of its runs has ended.
THEOREM SchedulerImplementsExecutor ==
  ASSUME Trigger # "always", Coroutines = {}
  PROVE  Spec => ImplementsExecutor
<1>1. TypeOK /\ CInv /\ [Next]_vars => [Executor!Next]_(Executor!evars)
  BY NextExecutes
<1>2. QED
  BY <1>1, InitExecutes, InitTyped, NextTyped, InitCounts, NextCounts, PTL
  DEF Spec, ImplementsExecutor, Executor!Spec
-----------------------------------------------------------------------------
(* The wait of the loop.  What it holds back comes due no earlier: a pass of  *)
(* the loop leaves no registered job due that it could start, and whatever    *)
(* makes a job eligible later sets the wake event.                            *)

\* The loop waits in a running scheduler only, so stop() never resets a count under it.
LoopRuns == loop # "none" => running

\* A one-shot job has the default limit and a plain function, and jobs are triggered only
\* while the scheduler runs: otherwise a count below zero admits it again at once.
PlainOneShots ==
  /\ Trigger # "always"
  /\ \A j \in JobIds : Kind[j] = "oneshot" => MaxRunning[j] = 1 /\ j \notin Coroutines

\* A pass of the loop waits no longer than for the first job it may start.
LEMMA EvaluateWaits ==
  ASSUME TypeOK, CInv, TypeOK', LoopEvaluate, PlainOneShots,
         NEW o \in Registered, Registered' = Registered, Eligible(o)'
  PROVE  sleep' <= nextRun'[o[1]]
<1> DEFINE due == {p \in Objects : Due(p)}
           ids == {p[1] : p \in due}
<1>0. o \in Objects /\ o[1] \in JobIds /\ nextRun[o[1]] \in Nat /\ nextRun'[o[1]] \in Nat
      /\ count[o] \in Int
  BY DEF Registered, Objects, TypeOK
<1>1. PICK next \in [ids -> UNION {NextRuns(j) : j \in ids}] :
        /\ \A j \in ids : next[j] \in NextRuns(j)
        /\ nextRun' = [j \in JobIds |-> IF j \in ids THEN next[j] ELSE nextRun[j]]
  BY DEF LoopEvaluate
<1>2. count'[o] = IF o \in due THEN count[o] + 1 ELSE count[o]
  BY <1>0 DEF LoopEvaluate
<1>3. enabled'[o] = enabled[o] /\ Registered' = Registered
  BY DEF LoopEvaluate, Registered, table
<1>4. enabled[o] /\ count'[o] < MaxRunning[o[1]]
  BY <1>3 DEF Eligible
<1>5. nextRun'[o[1]] > 0
  <2>1. CASE o \in due
    <3>1. o[1] \in ids
      BY <2>1
    <3>2. nextRun'[o[1]] \in NextRuns(o[1])
      BY <1>0, <1>1, <3>1
    <3>3. Eligible(o)
      BY <2>1 DEF Due
    <3>4. Kind[o[1]] # "oneshot"
      <4>1. MaxRunning[o[1]] \in Nat
        BY <1>0, SchedulerAssumption
      <4>2. SUFFICES ASSUME Kind[o[1]] = "oneshot" PROVE FALSE
        OBVIOUS
      <4>3. MaxRunning[o[1]] = 1 /\ Plain(o)
        BY <1>0, <4>2 DEF PlainOneShots, Plain
      <4>4. count'[o] = count[o] + 1 /\ count[o] + 1 < 1
        BY <1>2, <1>4, <2>1, <4>3
      <4>5. count[o] = Live(o)
        BY <4>3 DEF LoopEvaluate, PlainOneShots, CInv, CountsMatch
      <4>6. Live(o) \in Nat
        BY <1>0 DEF Live, TypeOK
      <4>7. QED
        BY <4>4, <4>5, <4>6
    <3>5. QED
      BY <1>0, <3>2, <3>4, SchedulerAssumption DEF NextRuns
  <2>2. CASE o \notin due
    <3>1. Eligible(o)
      BY <1>2, <1>4, <2>2 DEF Eligible
    <3>2. nextRun[o[1]] # 0
      BY <1>0, <2>2, <3>1 DEF Due
    <3>3. o[1] \notin ids
      <4>1. SUFFICES ASSUME NEW p \in due, p[1] = o[1] PROVE FALSE
        OBVIOUS
      <4>2. p \in Registered /\ p \in Objects
        BY DEF Due
      <4>3. p = o
        BY <1>0, <4>1, <4>2 DEF Registered, Objects
      <4>4. QED
        BY <2>2, <4>3
    <3>4. QED
      BY <1>0, <1>1, <3>2, <3>3
  <2>3. QED
    BY <2>1, <2>2
<1>6. nextRun'[o[1]] \in Waits(count', nextRun')
  <2> DEFINE later == {p \in Registered : /\ enabled[p]
                                         /\ count'[p] < MaxRunning[p[1]]
                                         /\ nextRun'[p[1]] > 0}
  <2>1. o \in later
    BY <1>4, <1>5
  <2>2. Waits(count', nextRun') = {nextRun'[p[1]] : p \in later}
    BY <2>1 DEF Waits
  <2>3. QED
    BY <2>1, <2>2
<1>7. sleep' \in Least(Waits(count', nextRun'))
  BY DEF LoopEvaluate
<1>8. QED
  BY <1>6, <1>7 DEF Least

LEMMA OversleepNext ==
  ASSUME ~SaveMayFail, PlainOneShots
  PROVE  TypeOK /\ CInv /\ LoopRuns /\ NoOversleep /\ [Next]_vars => LoopRuns' /\ NoOversleep'
<1> SUFFICES ASSUME TypeOK, CInv, LoopRuns, NoOversleep, [Next]_vars
             PROVE  LoopRuns' /\ NoOversleep'
  OBVIOUS
<1>1. CASE UNCHANGED vars \/ \E o \in Objects : TaskBegins(o) \/ OrphanReturns(o)
  BY <1>1 DEF vars, table, fields, tasks, control, TaskBegins, OrphanReturns, LoopRuns,
    NoOversleep, Registered, Eligible
<1>2. ASSUME NEW j \in JobIds, AddJob(j)
      PROVE  LoopRuns' /\ NoOversleep'
  <2> DEFINE new == <<j, made[j] + 1>>
  <2>1. new \in Objects /\ made[j] \in Nat
    BY <1>2, SchedulerAssumption DEF AddJob, TypeOK, Objects
  <2>2. /\ UNCHANGED <<running, loop, wake, sleep>> /\ unseen' = unseen \cup {new}
        /\ current'[j] = made[j] + 1
        /\ \A i \in JobIds \ {j} : current'[i] = current[i] /\ nextRun'[i] = nextRun[i]
        /\ \A o \in Objects \ {new} : count'[o] = count[o] /\ enabled'[o] = enabled[o]
    BY <1>2, <2>1 DEF AddJob, TypeOK, control
  <2>3. \A o \in Registered' \ unseen' : /\ o \in Registered \ unseen
                                         /\ o[1] \in JobIds \ {j} /\ o # new
    BY <2>2 DEF Registered, Objects
  <2>4. QED
    BY <2>2, <2>3 DEF LoopRuns, NoOversleep, Eligible, Registered
<1>3. ASSUME NEW j \in JobIds, RemoveJob(j)
      PROVE  LoopRuns' /\ NoOversleep'
  <2>1. /\ current' = [current EXCEPT ![j] = 0]
        /\ UNCHANGED <<enabled, count, nextRun, running, loop, wake, sleep, unseen>>
    BY <1>3 DEF RemoveJob, fields, control
  <2>2. Registered' \subseteq Registered
    BY <2>1 DEF Registered, TypeOK, Objects
  <2>3. QED
    BY <2>1, <2>2 DEF LoopRuns, NoOversleep, Eligible
<1>4. ASSUME NEW j \in JobIds, RunJobNow(j)
      PROVE  LoopRuns' /\ NoOversleep'
  <2>1. /\ \A o \in Objects : count[o] <= count'[o]
        /\ UNCHANGED <<current, enabled, nextRun, running, loop, wake, sleep, unseen>>
    BY <1>4 DEF RunJobNow, TypeOK, table, control
  <2>2. \A o \in Objects : /\ count[o] \in Int /\ count'[o] \in Int
                          /\ MaxRunning[o[1]] \in Int
    BY <1>4, NextTyped, SchedulerAssumption DEF Objects, TypeOK, Next, Calls
  <2>3. \A o \in Registered' : o \in Registered /\ (Eligible(o)' => Eligible(o))
    BY <2>1, <2>2 DEF Registered, Eligible
  <2>4. QED
    BY <2>1, <2>3 DEF LoopRuns, NoOversleep
<1>5. CASE Start \/ StopBegin
  BY <1>5 DEF Start, StopBegin, LoopRuns, NoOversleep
<1>6. CASE StopEnd
  <2>1. loop = "none" /\ UNCHANGED <<loop, running>>
    BY <1>6 DEF StopEnd, LoopRuns, CInv
  <2>2. QED
    BY <2>1 DEF LoopRuns, NoOversleep
<1>7. CASE LoopEvaluate
  <2>1. running /\ UNCHANGED <<running, current>> /\ TypeOK'
    BY <1>7, NextTyped DEF LoopEvaluate, table, Next, Steps
  <2>2. Registered' = Registered
    BY <2>1 DEF Registered
  <2>3. \A o \in Registered : Eligible(o)' => sleep' <= nextRun'[o[1]]
    BY <1>7, <2>1, <2>2, EvaluateWaits
  <2>4. QED
    BY <2>1, <2>2, <2>3 DEF LoopRuns, NoOversleep
<1>8. ASSUME NEW o \in Objects, TaskEnds(o) \/ CancelledTaskEnds(o)
      PROVE  LoopRuns' /\ NoOversleep'
  BY <1>8 DEF TaskEnds, CancelledTaskEnds, Finally, LoopRuns, NoOversleep
<1>9. CASE Tick
  <2>1. /\ \A j \in JobIds : nextRun'[j] = Minus1(nextRun[j])
        /\ sleep' = Minus1(sleep)
        /\ UNCHANGED <<current, enabled, count, running, loop, wake, unseen>>
    BY <1>9 DEF Tick, table
  <2>2. \A m, n \in Nat : m <= n => Minus1(m) <= Minus1(n)
    BY DEF Minus1
  <2>3. \A o \in Registered' : o \in Registered /\ o[1] \in JobIds
                              /\ (Eligible(o)' <=> Eligible(o))
    BY <2>1 DEF Registered, Eligible, Objects
  <2>4. \A j \in JobIds : nextRun[j] \in Nat /\ sleep \in Nat
    BY DEF TypeOK
  <2>5. QED
    BY <2>1, <2>2, <2>3, <2>4 DEF LoopRuns, NoOversleep
<1>10. QED
  BY <1>1, <1>2, <1>3, <1>4, <1>5, <1>6, <1>7, <1>8, <1>9 DEF Next, Calls, Steps

\* No wake-up is lost: while the loop waits, no job it could see comes due before the wait
\* ends, whatever is added, removed, triggered or finished meanwhile, when the save before
\* the wake-up does not raise and one-shot jobs are plain functions that run once at a time.
THEOREM NothingOverslept ==
  ASSUME ~SaveMayFail, PlainOneShots
  PROVE  Spec => []NoOversleep
<1> DEFINE All == TypeOK /\ CInv /\ LoopRuns /\ NoOversleep
<1>1. Init => All
  <2>1. Init => LoopRuns /\ NoOversleep
    BY DEF Init, LoopRuns, NoOversleep
  <2>2. QED
    BY <2>1, InitTyped, InitCounts
<1>2. All /\ [Next]_vars => All'
  BY NextTyped, NextCounts, OversleepNext
<1>3. QED
  <2> HIDE DEF All
  <2>1. All => NoOversleep
    BY DEF All
  <2> QED
    BY <1>1, <1>2, <2>1, PTL DEF Spec
=============================================================================
