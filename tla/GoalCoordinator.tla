--------------------------- MODULE GoalCoordinator ---------------------------
(***************************************************************************)
(* The long-task coordinator of swaybot/goals/coordinator.py.              *)
(*                                                                         *)
(* A driver is one call of the coordinator: run, resume, retry or cancel.  *)
(* It works on its own copy of the goal and writes the WHOLE goal to the   *)
(* backend each time; so does the worker thread the scheduler runs for a   *)
(* subtask, from a copy of its own.  Every `await' of a store call is a    *)
(* step, so the writers interleave.                                        *)
(*                                                                         *)
(* Subtasks are numbered by their place in the plan.  A worker is named by *)
(* the driver that registered its job and the subtask, <<d, k>>: a driver  *)
(* submits a subtask once.  The scheduler is reduced to what Scheduler.tla *)
(* shows of one-shot jobs: a registered job is started at most once, and   *)
(* only while the scheduler runs.                                          *)
(***************************************************************************)
EXTENDS Integers, Sequences, FiniteSets

CONSTANTS
  Goals,       \* goal ids
  Drivers,     \* the calls made on the coordinator
  KindOf,      \* [Drivers -> Kinds]
  GoalOf,      \* [Drivers -> Goals]
  MaxSubs,     \* bound: subtasks in a plan
  PreStarted,  \* does the host start the scheduler before any call (api.py)
  MaxCrashes,  \* bound: restarts of the process
  Overlap,     \* may a call on a goal be made while another is in progress
  PoolSize,    \* threads of the executor that agents and store calls share
  Nobody       \* no driver

Kinds == {"run", "resume", "retry", "cancel"}

ASSUME GoalAssumption ==
  /\ KindOf \in [Drivers -> Kinds]
  /\ GoalOf \in [Drivers -> Goals]
  /\ MaxSubs \in Nat \ {0}
  /\ PreStarted \in BOOLEAN
  /\ MaxCrashes \in Nat
  /\ PoolSize \in Nat \ {0}
  /\ Overlap \in BOOLEAN
  /\ Nobody \notin Drivers
  \* run() makes a goal of its own, with a fresh id
  /\ \A d, e \in Drivers :
       KindOf[d] = "run" /\ KindOf[e] = "run" /\ GoalOf[d] = GoalOf[e] => d = e

Places == 1 .. MaxSubs
Workers == Drivers \X Places

Statuses == {"pending", "running", "done", "failed"}
States == {"pending", "planning", "running", "waiting", "done", "failed",
           "cancelled"}
GoalData == [state : States \cup {"none"},
             subs : UNION {[1 .. n -> Statuses] : n \in 0 .. MaxSubs}]
NoGoal == [state |-> "none", subs |-> << >>]

VARIABLES
  store,    \* [Goals -> GoalData]: the backend, under goal:{id}
  pc,       \* [Drivers -> ...]: where the driver is
  copy,     \* [Drivers -> GoalData]: the driver's goal object
  pos,      \* [Drivers -> Nat]: the place of its `for' loop
  own,      \* [Drivers -> BOOLEAN]: it started the scheduler
  payload,  \* [Drivers -> {"none", "done", "failed"}]: what on_complete got
  jobs,     \* [Goals \X Places -> driver whose job is registered, not started]
  sched,    \* scheduler.is_running
  worker,   \* [Workers -> ...]: the phase of _subtask_job
  wcopy,    \* [Workers -> GoalData]: the goal object of the worker thread
  outcome,  \* [Workers -> Statuses]: the status it will publish
  crashes,  \* restarts so far
  earned,   \* history: [Goals -> SUBSET Places], subtasks whose agent succeeded
  late      \* history: drivers that have timed out on a subtask

drive == <<pc, copy, pos, own, payload>>
work == <<worker, wcopy, outcome, earned>>
vars == <<store, drive, jobs, sched, work, crashes, late>>

Phases == {"idle", "created", "planning", "planned", "loaded", "retried",
           "next", "begun", "waiting", "finished", "returned", "raised",
           "crashed"}
Over == {"returned", "raised", "crashed"}

-----------------------------------------------------------------------------
(* What the code computes on a goal object.                                *)

G(d) == GoalOf[d]
With(goal, state) == [goal EXCEPT !.state = state]
WithSub(goal, k, status) == [goal EXCEPT !.subs[k] = status]
\* Mutant of Verdict: failed subtasks are overlooked.
VerdictAlwaysDone(goal) == "done"

Verdict(goal) ==
  IF \E k \in DOMAIN goal.subs : goal.subs[k] = "failed" THEN "failed" ELSE "done"

\* Mutant of ToRun: the loop starts one place too far.
ToRunSkips(d) ==
  {k \in DOMAIN copy[d].subs :
     /\ k > pos[d]
     /\ IF KindOf[d] = "run"
        THEN copy[d].state # "cancelled"
        ELSE copy[d].subs[k] \in {"pending", "failed"}}

\* The places the `for' loop of the driver will still execute.
ToRun(d) ==
  {k \in DOMAIN copy[d].subs :
     /\ k >= pos[d]
     /\ IF KindOf[d] = "run"
        THEN copy[d].state # "cancelled"
        ELSE copy[d].subs[k] \in {"pending", "failed"}}

\* transition() and save(): the driver's whole object becomes the stored one.
Write(d, goal) ==
  /\ copy' = [copy EXCEPT ![d] = goal]
  /\ store' = [store EXCEPT ![G(d)] = goal]

Go(d, from, to) == pc[d] = from /\ pc' = [pc EXCEPT ![d] = to]

\* Mutant of EnterContext: nobody starts the scheduler.
EnterContextOnly(d) ==
  /\ own' = [own EXCEPT ![d] = ~sched]
  /\ UNCHANGED sched

\* _scheduler_context: start the scheduler unless it runs.
EnterContext(d) ==
  /\ own' = [own EXCEPT ![d] = ~sched]
  /\ sched' = TRUE

-----------------------------------------------------------------------------
(* run()                                                                   *)

Create(d) ==
  /\ KindOf[d] = "run"
  /\ Go(d, "idle", "created")
  /\ Write(d, [state |-> "pending", subs |-> << >>])
  /\ UNCHANGED <<pos, own, payload, jobs, sched, work, crashes, late>>

BeginPlanning(d) ==
  /\ Go(d, "created", "planning")
  /\ Write(d, With(copy[d], "planning"))
  /\ UNCHANGED <<pos, own, payload, jobs, sched, work, crashes, late>>

\* _plan returns steps; when it returns none, the goal itself is the subtask.
Plan(d) ==
  /\ Go(d, "planning", "planned")
  /\ \E n \in Places :
       Write(d, [copy[d] EXCEPT !.subs = [k \in 1 .. n |-> "pending"]])
  /\ UNCHANGED <<pos, own, payload, jobs, sched, work, crashes, late>>

\* The brain or the agent factory raises; nothing handles it.
PlanRaises(d) ==
  /\ Go(d, "planning", "raised")
  /\ UNCHANGED <<store, copy, pos, own, payload, jobs, sched, work, crashes,
                 late>>

BeginRunning(d) ==
  /\ Go(d, "planned", "next")
  /\ Write(d, With(copy[d], "running"))
  /\ EnterContext(d)
  /\ UNCHANGED <<pos, payload, jobs, work, crashes, late>>

-----------------------------------------------------------------------------
(* resume(), retry(), cancel()                                             *)

Exists(d) == store[G(d)] # NoGoal

\* No other call on the goal of d is in progress.
Undisturbed(d) ==
  \A e \in Drivers : e # d /\ G(e) = G(d) => pc[e] \in {"idle"} \cup Over

ResumeLoads(d) ==
  /\ IF KindOf[d] = "resume" THEN Go(d, "idle", "next")
                            ELSE Go(d, "retried", "next")
  /\ Exists(d)
  /\ copy' = [copy EXCEPT ![d] = store[G(d)]]
  /\ EnterContext(d)
  /\ UNCHANGED <<store, pos, payload, jobs, work, crashes, late>>

\* retry() loads the goal and puts its failed subtasks back to pending ...
RetryLoads(d) ==
  LET goal == store[G(d)] IN
  /\ KindOf[d] = "retry"
  /\ Go(d, "idle", "loaded")
  /\ Exists(d)
  /\ copy' = [copy EXCEPT ![d] = [goal EXCEPT !.subs =
       [k \in DOMAIN goal.subs |->
          IF goal.subs[k] = "failed" THEN "pending" ELSE goal.subs[k]]]]
  /\ UNCHANGED <<store, pos, own, payload, jobs, sched, work, crashes, late>>

\* ... and saves it, then calls resume(), which loads it again.
RetrySaves(d) ==
  /\ KindOf[d] = "retry"
  /\ Go(d, "loaded", "retried")
  /\ Write(d, copy[d])
  /\ UNCHANGED <<pos, own, payload, jobs, sched, work, crashes, late>>

CancelLoads(d) ==
  /\ KindOf[d] = "cancel"
  /\ Go(d, "idle", "loaded")
  /\ Exists(d)
  /\ copy' = [copy EXCEPT ![d] = store[G(d)]]
  /\ UNCHANGED <<store, pos, own, payload, jobs, sched, work, crashes, late>>

CancelSaves(d) ==
  /\ KindOf[d] = "cancel"
  /\ Go(d, "loaded", "returned")
  /\ Write(d, With(copy[d], "cancelled"))
  /\ UNCHANGED <<pos, own, payload, jobs, sched, work, crashes, late>>

-----------------------------------------------------------------------------
(* _execute_subtask() and the end of a driver                              *)

BeginSubtask(d) ==
  /\ Go(d, "next", "begun")
  /\ \E k \in ToRun(d) :
       /\ \A m \in ToRun(d) : k <= m
       /\ pos' = [pos EXCEPT ![d] = k]
       /\ Write(d, WithSub(With(copy[d], "running"), k, "running"))
  /\ UNCHANGED <<own, payload, jobs, sched, work, crashes, late>>

\* Subscribe, then register the job; a job of the same id is replaced.
Submit(d) ==
  /\ Go(d, "begun", "waiting")
  /\ jobs' = [jobs EXCEPT ![<<G(d), pos[d]>>] = d]
  /\ UNCHANGED <<store, copy, pos, own, payload, sched, work, crashes, late>>

\* Mutant of Record: the goal is concluded after each subtask.
RecordConcludes(d, status) ==
  /\ Go(d, "waiting", "next")
  /\ pos' = [pos EXCEPT ![d] = @ + 1]
  /\ LET goal == WithSub(copy[d], pos[d], status) IN
     Write(d, With(goal, Verdict(goal)))
  /\ payload' = [payload EXCEPT ![d] = "none"]
  /\ UNCHANGED <<own, jobs, sched, work, crashes>>

\* Mutant of Record: the result is not saved.
RecordUnsaved(d, status) ==
  /\ Go(d, "waiting", "next")
  /\ pos' = [pos EXCEPT ![d] = @ + 1]
  /\ copy' = [copy EXCEPT ![d] = WithSub(With(@, "waiting"), pos[d], status)]
  /\ payload' = [payload EXCEPT ![d] = "none"]
  /\ UNCHANGED <<store, own, jobs, sched, work, crashes>>

\* Unsubscribe and store the result.  The next subtask has a payload of its own.
Record(d, status) ==
  /\ Go(d, "waiting", "next")
  /\ pos' = [pos EXCEPT ![d] = @ + 1]
  /\ Write(d, WithSub(With(copy[d], "waiting"), pos[d], status))
  /\ payload' = [payload EXCEPT ![d] = "none"]
  /\ UNCHANGED <<own, jobs, sched, work, crashes>>

\* Mutant of Completed: the driver does not wait for the event, and there is no
\* status to fall back on.
CompletedBlank(d) ==
  /\ Record(d, payload[d])
  /\ UNCHANGED late

\* Mutant of Completed: the driver does not wait for the event.
CompletedAtOnce(d) ==
  /\ Record(d, IF payload[d] = "none" THEN "failed" ELSE payload[d])
  /\ UNCHANGED late

Completed(d) ==
  /\ payload[d] # "none"
  /\ Record(d, payload[d])
  /\ UNCHANGED late

\* Mutant of TimesOut: the wait has no timeout of its own.
TimesOutWithEvent(d) ==
  /\ payload[d] # "none"
  /\ Record(d, "failed")
  /\ late' = late \cup {d}

\* wait_for gives up; its status replaces what may just have arrived.
TimesOut(d) ==
  /\ Record(d, "failed")
  /\ late' = late \cup {d}

\* Leaving the context stops a scheduler the driver had started ...
LeaveContext(d) ==
  /\ Go(d, "next", "finished")
  /\ ToRun(d) = {}
  /\ sched' = (sched /\ ~own[d])
  /\ UNCHANGED <<store, copy, pos, own, payload, jobs, work, crashes, late>>

\* ... and the verdict is stored after that.
Conclude(d) ==
  /\ Go(d, "finished", "returned")
  /\ Write(d, With(copy[d], Verdict(copy[d])))
  /\ UNCHANGED <<pos, own, payload, jobs, sched, work, crashes, late>>

-----------------------------------------------------------------------------
(* _subtask_job(), in a worker thread                                      *)

\* Mutant of WorkerLoads: a subtask that is gone counts as done.
WorkerLoadsLenient(g, k) ==
  LET d == jobs[<<g, k>>]
      w == <<d, k>>
      found == k \in DOMAIN store[g].subs
  IN
  /\ sched
  /\ d # Nobody
  /\ jobs' = [jobs EXCEPT ![<<g, k>>] = Nobody]
  /\ worker' = [worker EXCEPT ![w] = IF found THEN "running" ELSE "missing"]
  /\ wcopy' = [wcopy EXCEPT ![w] = IF found THEN store[g] ELSE NoGoal]
  /\ outcome' = [outcome EXCEPT ![w] = IF found THEN "failed" ELSE "done"]
  /\ UNCHANGED <<store, drive, sched, earned, crashes, late>>

\* The scheduler starts the job; the thread loads the goal.  A goal that was
\* overwritten with a shorter list no longer has the subtask.
WorkerLoads(g, k) ==
  LET d == jobs[<<g, k>>]
      w == <<d, k>>
      found == k \in DOMAIN store[g].subs
  IN
  /\ sched
  /\ d # Nobody
  /\ jobs' = [jobs EXCEPT ![<<g, k>>] = Nobody]
  /\ worker' = [worker EXCEPT ![w] = IF found THEN "running" ELSE "missing"]
  /\ wcopy' = [wcopy EXCEPT ![w] = IF found THEN store[g] ELSE NoGoal]
  /\ outcome' = [outcome EXCEPT ![w] = "failed"]
  /\ UNCHANGED <<store, drive, sched, earned, crashes, late>>

\* The agent ends; the thread writes its copy of the goal with the result.
WorkerSaves(w, status) ==
  LET g == G(w[1])
      goal == WithSub(wcopy[w], w[2], status)
  IN
  /\ worker[w] = "running"
  /\ worker' = [worker EXCEPT ![w] = "saved"]
  /\ wcopy' = [wcopy EXCEPT ![w] = NoGoal]
  /\ outcome' = [outcome EXCEPT ![w] = status]
  /\ store' = [store EXCEPT ![g] = goal]
  /\ earned' = [earned EXCEPT ![g] = IF status = "done" THEN @ \cup {w[2]} ELSE @]
  /\ UNCHANGED <<drive, jobs, sched, crashes, late>>

\* agent_factory raises outside the try: no result, no event.
WorkerDies(w) ==
  /\ worker[w] = "running"
  /\ worker' = [worker EXCEPT ![w] = "dead"]
  /\ wcopy' = [wcopy EXCEPT ![w] = NoGoal]
  /\ UNCHANGED <<store, drive, jobs, sched, outcome, earned, crashes, late>>

\* The event reaches every driver that waits for a subtask of that id.
WorkerPublishes(w) ==
  /\ worker[w] \in {"saved", "missing"}
  /\ worker' = [worker EXCEPT ![w] = "over"]
  /\ payload' = [d \in Drivers |->
       IF pc[d] = "waiting" /\ G(d) = G(w[1]) /\ pos[d] = w[2]
       THEN outcome[w] ELSE payload[d]]
  /\ outcome' = [outcome EXCEPT ![w] = "failed"]
  /\ UNCHANGED <<store, pc, copy, pos, own, jobs, sched, wcopy, earned, crashes,
                 late>>

-----------------------------------------------------------------------------
\* The process dies and restarts; only the backend is left.
Crash ==
  /\ crashes < MaxCrashes
  /\ crashes' = crashes + 1
  /\ pc' = [d \in Drivers |->
              IF pc[d] \in {"idle"} \cup Over THEN pc[d] ELSE "crashed"]
  /\ own' = [d \in Drivers |-> FALSE]
  /\ payload' = [d \in Drivers |-> "none"]
  /\ jobs' = [j \in Goals \X Places |-> Nobody]
  /\ sched' = PreStarted
  /\ worker' = [w \in Workers |->
                  IF worker[w] \in {"none", "over"} THEN worker[w] ELSE "dead"]
  /\ wcopy' = [w \in Workers |-> NoGoal]
  /\ outcome' = [w \in Workers |-> "failed"]
  /\ UNCHANGED <<store, copy, pos, earned, late>>

Init ==
  /\ store = [g \in Goals |-> NoGoal]
  /\ pc = [d \in Drivers |-> "idle"]
  /\ copy = [d \in Drivers |-> NoGoal]
  /\ pos = [d \in Drivers |-> 1]
  /\ own = [d \in Drivers |-> FALSE]
  /\ payload = [d \in Drivers |-> "none"]
  /\ jobs = [j \in Goals \X Places |-> Nobody]
  /\ sched = PreStarted
  /\ worker = [w \in Workers |-> "none"]
  /\ wcopy = [w \in Workers |-> NoGoal]
  /\ outcome = [w \in Workers |-> "failed"]
  /\ crashes = 0
  /\ earned = [g \in Goals |-> {}]
  /\ late = {}

\* The steps a call in progress takes by itself.
DriverStep(d) ==
  \/ BeginPlanning(d) \/ Plan(d) \/ PlanRaises(d) \/ BeginRunning(d)
  \/ RetrySaves(d) \/ CancelSaves(d)
  \/ KindOf[d] # "resume" /\ ResumeLoads(d)
  \/ BeginSubtask(d) \/ Submit(d) \/ Completed(d) \/ TimesOut(d)
  \/ LeaveContext(d) \/ Conclude(d)

\* The caller decides whether and when to call.
Call(d) ==
  /\ Overlap \/ Undisturbed(d)
  /\ \/ Create(d) \/ RetryLoads(d) \/ CancelLoads(d)
     \/ KindOf[d] = "resume" /\ ResumeLoads(d)

WorkerStep ==
  \/ \E g \in Goals, k \in Places : WorkerLoads(g, k)
  \/ \E w \in Workers : \/ \E status \in {"done", "failed"} : WorkerSaves(w, status)
                        \/ WorkerDies(w)
                        \/ WorkerPublishes(w)

Next == \/ \E d \in Drivers : Call(d) \/ DriverStep(d)
        \/ WorkerStep
        \/ Crash

Spec == Init /\ [][Next]_vars

\* The call of the model in _plan runs on the event loop itself and has no time limit;
\* store calls and agents share the threads of one executor.
LoopIsFree == \A d \in Drivers : pc[d] # "planning"
PoolIsFree == Cardinality({w \in Workers : worker[w] = "running"}) < PoolSize

\* The event loop runs what is ready and the 300 s timer fires, unless a planning call
\* holds the loop or agents hold all threads.  Nothing is assumed of either: a planning
\* call or an agent may hang for ever.
FairSpec ==
  Spec /\ \A d \in Drivers : WF_vars(LoopIsFree /\ PoolIsFree /\ DriverStep(d))
-----------------------------------------------------------------------------
(* Properties                                                              *)

TypeOK ==
  /\ store \in [Goals -> GoalData]
  /\ pc \in [Drivers -> Phases]
  /\ copy \in [Drivers -> GoalData]
  /\ pos \in [Drivers -> 1 .. MaxSubs + 1]
  /\ own \in [Drivers -> BOOLEAN]
  /\ payload \in [Drivers -> {"none", "done", "failed"}]
  /\ jobs \in [Goals \X Places -> Drivers \cup {Nobody}]
  /\ sched \in BOOLEAN
  /\ worker \in [Workers -> {"none", "running", "missing", "saved", "over", "dead"}]
  /\ wcopy \in [Workers -> GoalData]
  /\ outcome \in [Workers -> {"done", "failed"}]
  /\ crashes \in 0 .. MaxCrashes
  /\ earned \in [Goals -> SUBSET Places]
  /\ late \subseteq Drivers

\* The subtasks a goal object claims to be done.
Claimed(goal) == {k \in DOMAIN goal.subs : goal.subs[k] = "done"}

\* Whole-object writes from stale copies may lose progress but never invent
\* it: a subtask is "done" in the store, in a driver or in a worker only if
\* some agent run of it succeeded (_subtask_job, transition).
DoneIsEarned ==
  /\ \A g \in Goals : Claimed(store[g]) \subseteq earned[g]
  /\ \A d \in Drivers : Claimed(copy[d]) \subseteq earned[G(d)]
  /\ \A w \in Workers : Claimed(wcopy[w]) \subseteq earned[G(w[1])]

Says(d, verdict) == pc[d] = "returned" /\ copy[d].state = verdict

\* The verdict of run(): DONE only when every subtask was completed by its
\* agent, whatever other calls and late workers write meanwhile.
RunVerdictIsEarned ==
  \A d \in Drivers :
    KindOf[d] = "run" /\ Says(d, "done") =>
      DOMAIN copy[d].subs \subseteq earned[G(d)]

\* So does the verdict of resume() and retry(), when calls on a goal follow one
\* another and no crash or timeout has cut a subtask short.
FollowUpVerdictIsEarned ==
  \A d \in Drivers :
    /\ KindOf[d] \in {"resume", "retry"} /\ Says(d, "done")
    /\ ~Overlap /\ crashes = 0 /\ late = {}
    => DOMAIN copy[d].subs \subseteq earned[G(d)]

\* A worker whose driver has given it up.
Overtaken(w) == pos[w[1]] > w[2] \/ pc[w[1]] \in Over

\* d is the call that works on its goal, or the only one that did, and no
\* worker was given up.
Alone(d) ==
  /\ late = {}
  /\ \A e \in Drivers : e # d /\ G(e) = G(d) =>
       pc[e] = "idle" \/ (~Overlap /\ pc[d] \notin Over /\ pc[e] \in Over)

\* Driver and worker write the same goal from two copies; as long as the
\* driver is alone and has waited for each worker, the store holds what the
\* driver knows, but for the subtask in progress.
StoreInStep ==
  \A d \in Drivers :
    /\ Alone(d)
    /\ pc[d] \notin {"idle", "loaded", "raised", "crashed"}
    => /\ store[G(d)].state = copy[d].state
       /\ DOMAIN store[G(d)].subs = DOMAIN copy[d].subs
       /\ \A k \in DOMAIN copy[d].subs :
            store[G(d)].subs[k] # copy[d].subs[k] => k = pos[d] /\ pc[d] = "waiting"

Verdicts == {"done", "failed"}

\* A stored verdict is undone only by a worker that was given up on, or while
\* another call than run() works on the goal.
VerdictStands ==
  [][\A g \in Goals :
       store[g].state \in Verdicts /\ store'[g] # store[g] =>
         \/ \E w \in Workers : G(w[1]) = g /\ Overtaken(w) /\ worker[w] # worker'[w]
         \/ \E d \in Drivers : G(d) = g /\ KindOf[d] # "run" /\ pc[d] # "idle"]_vars

\* A driver that waits has an event to wait for: its job is registered with a
\* running scheduler, or a worker of its subtask has still to publish or died.
NeverStranded ==
  \A d \in Drivers :
    pc[d] = "waiting" /\ payload[d] = "none" =>
      \/ sched /\ jobs[<<G(d), pos[d]>>] # Nobody
      \/ \E e \in Drivers : /\ G(e) = G(d)
                            /\ worker[<<e, pos[d]>>] \in
                                 {"running", "missing", "saved", "dead"}

AtWork(g) == {w \in Workers : G(w[1]) = g /\ worker[w] = "running"}

\* "execute them sequentially" (coordinator.py:151): where calls on a goal follow one
\* another, no two agents of the goal work at the same time, be they of one call or of
\* two, as long as no call on it has timed out: a worker that was given up goes on beside
\* the next, and the event of its subtask ends the wait of whoever executes it again.
SequentialUnlessLate ==
  \A g \in Goals :
    ~Overlap /\ (\A d \in late : G(d) # g) => \A v, w \in AtWork(g) : v = w

\* "goals to resume after a restart" (coordinator.py:156): a resumed goal that
\* is reported done has no subtask that was left unfinished.
ResumedIsComplete ==
  \A d \in Drivers :
    /\ KindOf[d] = "resume" /\ Says(d, "done")
    /\ \A e \in Drivers : e # d /\ G(e) = G(d) => pc[e] = "crashed"
    => \A k \in DOMAIN copy[d].subs : copy[d].subs[k] = "done"

\* A goal always has a subtask to work on (coordinator.py:196): one that
\* resume() reports done was not left without a plan.
ResumedHasPlan ==
  \A d \in Drivers :
    KindOf[d] = "resume" /\ Says(d, "done") =>
      copy[d].subs # << >>

\* "Mark a goal as cancelled." (coordinator.py:237): once cancel() has
\* returned the goal stays cancelled, until it is resumed or retried.
CancelStays ==
  \A c \in Drivers :
    /\ KindOf[c] = "cancel" /\ pc[c] = "returned"
    /\ \A d \in Drivers :
         G(d) = G(c) /\ KindOf[d] \in {"resume", "retry"} => pc[d] = "idle"
    => store[G(c)].state = "cancelled"

\* Every call returns or raises, even if no agent ever ends: the timeout and the loop
\* over a fixed list bound it, unless a planning call holds the event loop for ever or
\* agents hold all threads for ever (a call that is over stays over, so where again and
\* again none is in progress, each one begun has ended).
CallsEnd ==
  \/ <>[](~LoopIsFree \/ ~PoolIsFree)
  \/ []<>(\A d \in Drivers : pc[d] \in Over \cup {"idle"})

\* Seen from its caller, each run() implements the abstract life of a goal.
Life(d) == INSTANCE GoalLifecycle WITH
  phase <- CASE pc[d] \in {"idle", "created", "planning"} -> "new"
             [] pc[d] \in {"raised", "crashed"} -> "abandoned"
             [] pc[d] = "returned" -> copy[d].state
             [] OTHER -> "working",
  results <- copy[d].subs

Runs == {d \in Drivers : KindOf[d] = "run"}

RunsKeepTheirPromise ==
  /\ \A d \in Runs : Life(d)!Init
  /\ [][\A d \in Runs : [Life(d)!Next]_(Life(d)!lvars)]_vars
=============================================================================
