------------------------------ MODULE Scheduler ------------------------------
(***************************************************************************)
(* The async job scheduler of swaybot/goals/scheduler.py.                  *)
(*                                                                         *)
(* A registration (add_job) makes a Job object.  Registering an id again   *)
(* makes a second object under the same id while tasks of the first may    *)
(* still be alive, so objects are pairs <<id, generation>> and `current'   *)
(* says which of them the table _jobs holds.                               *)
(*                                                                         *)
(* Tasks of one object are interchangeable, so they are counted by phase:  *)
(*   created    create_task was called, the coroutine has not begun        *)
(*   active     _run_job awaits the job's function                         *)
(*   cancelled  task.cancel() was called after it had begun; its `finally' *)
(*              is still to run                                            *)
(* A cancelled task that runs a plain function leaves its worker thread    *)
(* behind: `orphans' counts those threads.                                 *)
(*                                                                         *)
(* Time is relative.  nextRun and saved hold the ticks left until the      *)
(* stored instant (0: reached), sleep those left of the loop's wait.       *)
(***************************************************************************)
EXTENDS Integers

CONSTANTS
  JobIds,          \* the ids jobs are registered under
  MaxGen,          \* bound: how often one id may be registered
  Kind,            \* [JobIds -> {"oneshot", "interval", "cron"}]
  Period,          \* [JobIds -> ticks]: the interval, or the longest cron gap
  MaxRunning,      \* [JobIds -> Nat \ {0}]: the max_running of the job
  Coroutines,      \* the ids whose fn is a coroutine function
  Poll,            \* ticks in the 1.0 s the loop waits when nothing is due
  MaxOrphans,      \* bound: threads of one object that cancellation may leave
  Trigger,         \* run_job_now is called "never", while "running", or "always"
  SaveMayFail      \* may backend.save raise

ASSUME SchedulerAssumption ==
  /\ MaxGen \in Nat \ {0}
  /\ Kind \in [JobIds -> {"oneshot", "interval", "cron"}]
  /\ Period \in [JobIds -> Nat \ {0}]
  /\ MaxRunning \in [JobIds -> Nat \ {0}]
  /\ Coroutines \subseteq JobIds
  /\ Poll \in Nat \ {0}
  /\ MaxOrphans \in Nat
  /\ Trigger \in {"never", "running", "always"}
  /\ SaveMayFail \in BOOLEAN

Objects == JobIds \X (1 .. MaxGen)
NotSaved == -1

VARIABLES
  made,       \* [JobIds -> Nat]: objects made so far for the id
  current,    \* [JobIds -> Nat]: generation in _jobs, 0 when there is none
  enabled,    \* [Objects -> BOOLEAN]: Job.enabled
  count,      \* [Objects -> Int]: Job.running_count
  nextRun,    \* [JobIds -> Nat]: next_run of the object in _jobs, in ticks left
  created, active, cancelled,   \* [Objects -> Nat]: tasks by phase
  orphans,    \* [Objects -> Nat]: threads whose task was cancelled
  running,    \* _running
  stopping,   \* stop() awaits the loop task it has cancelled
  loop,       \* "none", "ready" (about to evaluate) or "asleep"
  sleep,      \* ticks left of _wait_for_signal's timeout
  wake,       \* _wake_event
  saved,      \* [JobIds -> Int]: next_run in the backend, or NotSaved
  starts,     \* history: calls of fn for a one-shot object, up to 2
  unseen      \* history: objects registered since the loop last evaluated

table == <<made, current>>
fields == <<enabled, count, nextRun>>
tasks == <<created, active, cancelled, orphans>>
control == <<running, stopping, loop, sleep, wake>>
vars == <<table, fields, tasks, control, saved, starts, unseen>>

-----------------------------------------------------------------------------
(* What the handlers compute.                                              *)

Registered == {o \in Objects : current[o[1]] = o[2]}

\* Mutant of NextRuns: the interval is added to a last_run in the past.
NextRunsFromLast(j) ==
  CASE Kind[j] = "oneshot"  -> {0}
    [] Kind[j] = "interval" -> {Period[j] - 4, Period[j]}
    [] Kind[j] = "cron"     -> 1 .. Period[j]

\* _compute_next_run: the instants it may store, as ticks from now.
NextRuns(j) ==
  CASE Kind[j] = "oneshot"  -> {0}
    [] Kind[j] = "interval" -> {Period[j]}
    [] Kind[j] = "cron"     -> 1 .. Period[j]

\* The tasks of an object that _run_job still has to finish.
Live(o) == created[o] + active[o] + cancelled[o]

\* Threads and coroutines that execute the job's function right now.
Executing(o) == active[o] + orphans[o]

\* Mutant of Eligible: one run too many is admitted.
EligibleAtLimit(o) == enabled[o] /\ count[o] <= MaxRunning[o[1]]

Eligible(o) == enabled[o] /\ count[o] < MaxRunning[o[1]]
Due(o) == o \in Registered /\ Eligible(o) /\ nextRun[o[1]] = 0

\* Mutant of Waits: only jobs with no run at all are waited for.
WaitsForIdle(cnt, next) ==
  LET later == {o \in Registered : /\ enabled[o]
                                   /\ cnt[o] = 0
                                   /\ next[o[1]] > 0}
  IN  IF later = {} THEN {Poll} ELSE {next[o[1]] : o \in later}

\* The waits _next_due_time compares, for the given counts and instants.
Waits(cnt, next) ==
  LET later == {o \in Registered : /\ enabled[o]
                                   /\ cnt[o] < MaxRunning[o[1]]
                                   /\ next[o[1]] > 0}
  IN  IF later = {} THEN {Poll} ELSE {next[o[1]] : o \in later}

Least(S) == {w \in S : \A v \in S : w <= v}

Minus1(n) == IF n > 0 THEN n - 1 ELSE n

\* _persist_state over the table cur and the instants next; the whole
\* dictionary is replaced, so ids that are gone are forgotten.
Snapshot(cur, next) ==
  [j \in JobIds |-> IF cur[j] = 0 THEN NotSaved ELSE next[j]]

\* task.cancel() on every task of the objects in S.  A task that has not
\* begun disappears without running its `finally'; a plain function goes on
\* in its thread.
CancelTasks(S) ==
  /\ created' = [o \in Objects |-> IF o \in S THEN 0 ELSE created[o]]
  /\ active' = [o \in Objects |-> IF o \in S THEN 0 ELSE active[o]]
  /\ cancelled' = [o \in Objects |->
       IF o \in S THEN cancelled[o] + active[o] ELSE cancelled[o]]
  /\ orphans' = [o \in Objects |->
       IF o \in S /\ o[1] \notin Coroutines
       THEN orphans[o] + active[o] ELSE orphans[o]]

RoomForOrphans(S) == \A o \in S : orphans[o] + active[o] <= MaxOrphans

-----------------------------------------------------------------------------
(* Calls made on the scheduler.                                            *)

AddJob(j) ==
  /\ made[j] < MaxGen
  /\ LET o == <<j, made[j] + 1>> IN
     /\ made' = [made EXCEPT ![j] = @ + 1]
     /\ current' = [current EXCEPT ![j] = made[j] + 1]
     /\ enabled' = [enabled EXCEPT ![o] = TRUE]
     /\ count' = [count EXCEPT ![o] = 0]
     /\ \E next \in NextRuns(j) : nextRun' = [nextRun EXCEPT ![j] = next]
     /\ unseen' = unseen \cup {o}
  /\ UNCHANGED <<tasks, control, saved, starts>>

\* Tasks are matched by name, hence by id: those of older objects too.
RemoveJob(j) ==
  LET named == {o \in Objects : o[1] = j} IN
  /\ current[j] # 0
  /\ RoomForOrphans(named)
  /\ current' = [current EXCEPT ![j] = 0]
  /\ CancelTasks(named)
  /\ \/ saved' = Snapshot(current', nextRun)
     \/ SaveMayFail /\ UNCHANGED saved
  /\ UNCHANGED <<made, fields, control, starts, unseen>>

RunJobNow(j) ==
  LET o == <<j, current[j]>> IN
  /\ current[j] # 0
  /\ Eligible(o)
  /\ \/ running /\ Trigger # "never"
     \/ ~running /\ ~stopping /\ Trigger = "always"
  /\ count' = [count EXCEPT ![o] = @ + 1]
  /\ created' = [created EXCEPT ![o] = @ + 1]
  /\ UNCHANGED <<table, enabled, nextRun, active, cancelled, orphans, control,
                 saved, starts, unseen>>

\* _load_state: the registered ids the backend knows take its instant and lose
\* their count.
LoadState ==
  LET known == {o \in Registered : saved[o[1]] # NotSaved} IN
  /\ nextRun' = [j \in JobIds |->
                   IF current[j] # 0 /\ saved[j] # NotSaved
                   THEN saved[j] ELSE nextRun[j]]
  /\ count' = [o \in Objects |-> IF o \in known THEN 0 ELSE count[o]]

Start ==
  /\ ~running /\ ~stopping
  /\ LoadState
  /\ running' = TRUE
  /\ loop' = "ready"
  /\ UNCHANGED <<table, enabled, tasks, stopping, sleep, wake, saved, starts,
                 unseen>>

\* stop() up to its await.  The loop task is cancelled wherever it waits.
StopBegin ==
  /\ running
  /\ RoomForOrphans(Objects)
  /\ running' = FALSE
  /\ stopping' = TRUE
  /\ loop' = "none"
  /\ sleep' = 0
  /\ CancelTasks(Objects)
  /\ UNCHANGED <<table, fields, wake, saved, starts, unseen>>

\* The rest of stop().  A task that awaits a thread handles its cancellation
\* in the same pass of the event loop as the loop task does, before stop()
\* goes on; a coroutine may take longer to clean up.
StopEnd ==
  /\ stopping
  /\ \A o \in Objects : o[1] \notin Coroutines => cancelled[o] = 0
  /\ stopping' = FALSE
  /\ count' = [o \in Objects |-> IF o \in Registered THEN 0 ELSE count[o]]
  /\ \/ saved' = Snapshot(current, nextRun)
     \/ SaveMayFail /\ UNCHANGED saved
  /\ UNCHANGED <<table, enabled, nextRun, tasks, running, loop, sleep, wake,
                 starts, unseen>>

-----------------------------------------------------------------------------
(* The loop and the tasks.                                                 *)

\* Mutant of Signalled: the wait has no timeout.
SignalledByEvent == wake

Signalled == wake \/ sleep = 0

\* One pass of _loop: start what is due, compute what is due next, wait.
LoopEvaluate ==
  LET due == {o \in Objects : Due(o)}
      ids == {o[1] : o \in due}
  IN
  /\ running
  /\ \/ loop = "ready"
     \/ loop = "asleep" /\ Signalled
  /\ wake' = FALSE
  /\ count' = [o \in Objects |-> IF o \in due THEN count[o] + 1 ELSE count[o]]
  /\ created' = [o \in Objects |->
                   IF o \in due THEN created[o] + 1 ELSE created[o]]
  /\ \E next \in [ids -> UNION {NextRuns(j) : j \in ids}] :
       /\ \A j \in ids : next[j] \in NextRuns(j)
       /\ nextRun' = [j \in JobIds |->
                        IF j \in ids THEN next[j] ELSE nextRun[j]]
  /\ loop' = "asleep"
  /\ sleep' \in Least(Waits(count', nextRun'))
  /\ unseen' = {}
  /\ UNCHANGED <<table, enabled, active, cancelled, orphans, running, stopping,
                 saved, starts>>

TaskBegins(o) ==
  /\ created[o] > 0
  /\ created' = [created EXCEPT ![o] = @ - 1]
  /\ active' = [active EXCEPT ![o] = @ + 1]
  /\ starts' = [starts EXCEPT ![o] =
                 IF Kind[o[1]] = "oneshot" /\ @ < 2 THEN @ + 1 ELSE @]
  /\ UNCHANGED <<table, fields, cancelled, orphans, control, saved, unseen>>

\* Mutant of Finally: a one-shot job stays enabled.
FinallyKeepsEnabled(o) ==
  /\ count' = [count EXCEPT ![o] = @ - 1]
  /\ \/ saved' = Snapshot(current, nextRun) /\ wake' = TRUE
     \/ SaveMayFail /\ UNCHANGED <<saved, wake>>
  /\ UNCHANGED <<table, enabled, nextRun, created, orphans, running, stopping,
                 loop, sleep, starts, unseen>>

\* Mutant of Finally: the job is looked up by its id again, so the count of
\* an object that has replaced it goes down.
FinallyById(o) ==
  /\ count' = [count EXCEPT ![<<o[1], current[o[1]]>>] = @ - 1]
  /\ enabled' = [enabled EXCEPT ![o] = @ /\ Kind[o[1]] # "oneshot"]
  /\ \/ saved' = Snapshot(current, nextRun) /\ wake' = TRUE
     \/ SaveMayFail /\ UNCHANGED <<saved, wake>>
  /\ UNCHANGED <<table, nextRun, created, orphans, running, stopping, loop,
                 sleep, starts, unseen>>

\* The `finally' of _run_job.  When the save raises, the wake is skipped.
Finally(o) ==
  /\ count' = [count EXCEPT ![o] = @ - 1]
  /\ enabled' = [enabled EXCEPT ![o] = @ /\ Kind[o[1]] # "oneshot"]
  /\ \/ saved' = Snapshot(current, nextRun) /\ wake' = TRUE
     \/ SaveMayFail /\ UNCHANGED <<saved, wake>>
  /\ UNCHANGED <<table, nextRun, created, orphans, running, stopping, loop,
                 sleep, starts, unseen>>

\* The function returned or raised; both end the task the same way.
TaskEnds(o) ==
  /\ active[o] > 0
  /\ active' = [active EXCEPT ![o] = @ - 1]
  /\ UNCHANGED cancelled
  /\ Finally(o)

CancelledTaskEnds(o) ==
  /\ cancelled[o] > 0
  /\ cancelled' = [cancelled EXCEPT ![o] = @ - 1]
  /\ UNCHANGED active
  /\ Finally(o)

OrphanReturns(o) ==
  /\ orphans[o] > 0
  /\ orphans' = [orphans EXCEPT ![o] = @ - 1]
  /\ UNCHANGED <<table, fields, created, active, cancelled, control, saved,
                 starts, unseen>>

Tick ==
  /\ nextRun' = [j \in JobIds |-> Minus1(nextRun[j])]
  /\ saved' = [j \in JobIds |-> Minus1(saved[j])]
  /\ sleep' = Minus1(sleep)
  /\ UNCHANGED <<table, enabled, count, tasks, running, stopping, loop, wake,
                 starts, unseen>>

-----------------------------------------------------------------------------
Init ==
  /\ made = [j \in JobIds |-> 0]
  /\ current = [j \in JobIds |-> 0]
  /\ enabled = [o \in Objects |-> FALSE]
  /\ count = [o \in Objects |-> 0]
  /\ nextRun = [j \in JobIds |-> 0]
  /\ created = [o \in Objects |-> 0]
  /\ active = [o \in Objects |-> 0]
  /\ cancelled = [o \in Objects |-> 0]
  /\ orphans = [o \in Objects |-> 0]
  /\ running = FALSE /\ stopping = FALSE
  /\ loop = "none" /\ sleep = 0 /\ wake = FALSE
  /\ saved = [j \in JobIds |-> NotSaved]
  /\ starts = [o \in Objects |-> 0]
  /\ unseen = {}

Calls == \/ \E j \in JobIds : AddJob(j) \/ RemoveJob(j) \/ RunJobNow(j)
         \/ Start
         \/ StopBegin
         \/ StopEnd

Steps == \/ LoopEvaluate
         \/ \E o \in Objects : \/ TaskBegins(o)
                               \/ TaskEnds(o)
                               \/ CancelledTaskEnds(o)
                               \/ OrphanReturns(o)
         \/ Tick

Next == Calls \/ Steps

Spec == Init /\ [][Next]_vars

\* The event loop runs every ready coroutine, and time passes.  Nothing is
\* assumed of the jobs' functions: they may never return.
Fairness ==
  /\ WF_vars(LoopEvaluate)
  /\ WF_vars(Tick)
  /\ WF_vars(StopEnd)
  /\ \A o \in Objects : WF_vars(TaskBegins(o)) /\ WF_vars(CancelledTaskEnds(o))

FairSpec == Spec /\ Fairness

-----------------------------------------------------------------------------
TypeOK ==
  /\ made \in [JobIds -> 0 .. MaxGen]
  /\ current \in [JobIds -> 0 .. MaxGen]
  /\ enabled \in [Objects -> BOOLEAN]
  /\ count \in [Objects -> Int]
  /\ nextRun \in [JobIds -> Nat]
  /\ created \in [Objects -> Nat]
  /\ active \in [Objects -> Nat]
  /\ cancelled \in [Objects -> Nat]
  /\ orphans \in [Objects -> Nat]
  /\ running \in BOOLEAN /\ stopping \in BOOLEAN
  /\ loop \in {"none", "ready", "asleep"}
  /\ sleep \in Nat
  /\ wake \in BOOLEAN
  /\ saved \in [JobIds -> Nat \cup {NotSaved}]
  /\ starts \in [Objects -> 0 .. 2]
  /\ unseen \subseteq Objects
-----------------------------------------------------------------------------
(* Properties.  Those that need a plain function (a worker thread) say so:   *)
(* its task's `finally' precedes the reset of the counts in stop().          *)

Plain(o) == o[1] \notin Coroutines

\* _loop admits by running_count alone, so the count must be the number of
\* tasks alive, whatever start, stop, remove_job and re-registration did.
CountIsLive ==
  ~stopping /\ Trigger # "always" =>
    \A o \in Registered : Plain(o) => count[o] = Live(o)

\* "max-running constraints" (scheduler.py:54) for the tasks of an object.
TasksWithinMax == \A o \in Objects : Live(o) <= MaxRunning[o[1]]

\* The same for what really executes, the threads of cancelled tasks included.
ExecutionsWithinMax == \A o \in Objects : Executing(o) <= MaxRunning[o[1]]

\* "Run a job exactly once" (scheduler.py:17): a OneShotSchedule never calls
\* its function twice, across polls, run_job_now, stop, start and reload.
OneShotRunsOnce == \A o \in Objects : starts[o] <= 1

\* No lost wake-up: while the loop waits undisturbed, no job it could see
\* when it last evaluated comes due before the wait ends.
NoOversleep ==
  loop = "asleep" /\ ~wake =>
    \A o \in Registered \ unseen : Eligible(o) => sleep <= nextRun[o[1]]

\* A job that is due and within its limit is started, unless the scheduler is
\* stopped or the job withdrawn, even when jobs already running never return.
DueIsStarted ==
  \A o \in Objects :
    running /\ Due(o) ~> (Live(o) > 0 \/ ~running \/ o \notin Registered)

\* The scheduler implements the abstract job executor: open is the table,
\* live the tasks, spent the one-shot jobs that were disabled by their end.
Executor == INSTANCE JobExecutor WITH
  Limit <- [o \in Objects |-> MaxRunning[o[1]]],
  Once  <- {o \in Objects : Kind[o[1]] = "oneshot"},
  open  <- Registered,
  live  <- [o \in Objects |-> Live(o)],
  spent <- {o \in Objects : /\ Kind[o[1]] = "oneshot"
                            /\ o[2] <= made[o[1]]
                            /\ ~enabled[o]}

ImplementsExecutor == Executor!Spec
=============================================================================
