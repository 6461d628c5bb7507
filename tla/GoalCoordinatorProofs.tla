------------------------ MODULE GoalCoordinatorProofs ------------------------
(***************************************************************************)
(* Proofs about GoalCoordinator, for any goals, calls, plans and restarts. *)
(*                                                                         *)
(* One inductive invariant serves most theorems, in layers that build on   *)
(* each other: TInv (types and the place of the loop), EInv (what is done  *)
(* was earned), RInv and AInv (the loop of run()), OInv (who works on a    *)
(* goal), Unjudged (no verdict before its time), Attended (a call waits    *)
(* for each of its workers), InStep (what the two copies of a goal agree   *)
(* on) and Quiet (nothing is left in progress between calls).              *)
(***************************************************************************)
EXTENDS GoalCoordinator, TLAPS

\* What the code does to a goal object keeps it a goal object.
LEMMA GoalDataClosed ==
  ASSUME NEW goal \in GoalData
  PROVE  /\ goal.state \in States \cup {"none"}
         /\ \E n \in 0 .. MaxSubs : goal.subs \in [1 .. n -> Statuses]
         /\ DOMAIN goal.subs \subseteq Places
         /\ \A state \in States : With(goal, state) \in GoalData
         /\ \A k \in Places, status \in Statuses :
              WithSub(goal, k, status) \in GoalData
<1>1. /\ goal.state \in States \cup {"none"}
      /\ goal.subs \in UNION {[1 .. n -> Statuses] : n \in 0 .. MaxSubs}
  BY DEF GoalData
<1>2. PICK n \in 0 .. MaxSubs : goal.subs \in [1 .. n -> Statuses]
  BY <1>1
<1>3. DOMAIN goal.subs \subseteq Places
  BY <1>2, GoalAssumption DEF Places
<1>4. ASSUME NEW state \in States
      PROVE  With(goal, state) \in GoalData
  BY <1>1 DEF With, GoalData
<1>5. ASSUME NEW k \in Places, NEW status \in Statuses
      PROVE  WithSub(goal, k, status) \in GoalData
  <2>1. [goal.subs EXCEPT ![k] = status] \in [1 .. n -> Statuses]
    BY <1>2
  <2>2. [goal.subs EXCEPT ![k] = status]
          \in UNION {[1 .. m -> Statuses] : m \in 0 .. MaxSubs}
    BY <2>1
  <2>3. QED
    BY <1>1, <2>2 DEF WithSub, GoalData
<1>6. QED
  BY <1>1, <1>2, <1>3, <1>4, <1>5

LEMMA NoGoalIsGoalData == NoGoal \in GoalData
<1>1. NoGoal.subs \in [1 .. 0 -> Statuses]
  BY DEF NoGoal
<1>2. 0 \in 0 .. MaxSubs
  BY GoalAssumption
<1>3. QED
  BY <1>1, <1>2 DEF NoGoal, GoalData

\* While a subtask is in progress, the loop stands at one of the plan.
PosInPlan ==
  \A d \in Drivers :
    pc[d] \in {"begun", "waiting"} => pos[d] \in DOMAIN copy[d].subs

TInv == TypeOK /\ PosInPlan

LEMMA WriteTyped ==
  ASSUME TypeOK, NEW d \in Drivers, NEW goal \in GoalData, Write(d, goal)
  PROVE  /\ copy' \in [Drivers -> GoalData]
         /\ store' \in [Goals -> GoalData]
         /\ copy'[d] = goal
         /\ store'[G(d)] = goal
         /\ \A e \in Drivers \ {d} : copy'[e] = copy[e]
         /\ \A g \in Goals \ {G(d)} : store'[g] = store[g]
  BY GoalAssumption DEF TypeOK, Write, G

LEMMA GoTyped ==
  ASSUME TypeOK, NEW d \in Drivers, NEW from, NEW to \in Phases, Go(d, from, to)
  PROVE  /\ pc' \in [Drivers -> Phases]
         /\ pc[d] = from /\ pc'[d] = to
         /\ \A e \in Drivers \ {d} : pc'[e] = pc[e]
  BY DEF TypeOK, Go

LEMMA InitTyped == Init => TInv
<1> SUFFICES ASSUME Init PROVE TInv
  OBVIOUS
<1>1. TypeOK
  BY NoGoalIsGoalData, GoalAssumption
  DEF Init, TypeOK, Phases, Places, Workers
<1>2. PosInPlan
  BY DEF Init, PosInPlan
<1>3. QED
  BY <1>1, <1>2 DEF TInv

\* The steps of run() before its loop, and those of the calls that only load
\* and save.
LEMMA CallTyped ==
  ASSUME TInv, NEW d \in Drivers,
         \/ Create(d) \/ BeginPlanning(d) \/ Plan(d) \/ PlanRaises(d)
         \/ BeginRunning(d) \/ ResumeLoads(d) \/ RetryLoads(d)
         \/ RetrySaves(d) \/ CancelLoads(d) \/ CancelSaves(d)
  PROVE  TInv'
<1> USE DEF TInv
<1>g. /\ copy[d] \in GoalData /\ store[G(d)] \in GoalData /\ G(d) \in Goals
  BY GoalAssumption DEF TypeOK, G
<1>1. CASE Create(d)
  <2> DEFINE goal == [state |-> "pending", subs |-> << >>]
  <2>1. goal \in GoalData
    BY NoGoalIsGoalData DEF NoGoal, GoalData, States
  <2>2. Write(d, goal) /\ Go(d, "idle", "created")
    BY <1>1 DEF Create
  <2> HIDE DEF goal
  <2>3. copy' \in [Drivers -> GoalData] /\ store' \in [Goals -> GoalData]
        /\ \A e \in Drivers \ {d} : copy'[e] = copy[e]
    BY <2>1, <2>2, WriteTyped
  <2>4. QED
    BY <1>1, <2>2, <2>3, GoTyped
    DEF Create, TypeOK, PosInPlan, Phases, work
<1>2. CASE BeginPlanning(d)
  <2>1. With(copy[d], "planning") \in GoalData
    BY <1>g, GoalDataClosed DEF States
  <2>2. QED
    BY <1>2, <2>1, WriteTyped, GoTyped
    DEF BeginPlanning, TypeOK, PosInPlan, Phases, work
<1>3. CASE Plan(d)
  <2>1. PICK n \in Places :
          Write(d, [copy[d] EXCEPT !.subs = [k \in 1 .. n |-> "pending"]])
    BY <1>3 DEF Plan
  <2>2. n \in 0 .. MaxSubs /\ [k \in 1 .. n |-> "pending"] \in [1 .. n -> Statuses]
    BY GoalAssumption DEF Places, Statuses
  <2>3. [k \in 1 .. n |-> "pending"]
        \in UNION {[1 .. m -> Statuses] : m \in 0 .. MaxSubs}
    BY <2>2
  <2>4. [copy[d] EXCEPT !.subs = [k \in 1 .. n |-> "pending"]] \in GoalData
    BY <1>g, <2>3 DEF GoalData
  <2>5. /\ Go(d, "planning", "planned")
        /\ UNCHANGED <<pos, own, payload, jobs, sched, work, crashes, late>>
    BY <1>3 DEF Plan
  <2>6. /\ pc' \in [Drivers -> Phases] /\ pc'[d] = "planned"
        /\ \A e \in Drivers \ {d} : pc'[e] = pc[e]
    BY <2>5, GoTyped DEF Phases
  <2>7. /\ copy' \in [Drivers -> GoalData] /\ store' \in [Goals -> GoalData]
        /\ \A e \in Drivers \ {d} : copy'[e] = copy[e]
    BY <2>1, <2>4, WriteTyped
  <2>8. QED
    BY <2>5, <2>6, <2>7 DEF TypeOK, PosInPlan, work
<1>4. CASE PlanRaises(d)
  BY <1>4, GoTyped DEF PlanRaises, TypeOK, PosInPlan, Phases, work
<1>5. CASE BeginRunning(d)
  <2>1. With(copy[d], "running") \in GoalData
    BY <1>g, GoalDataClosed DEF States
  <2>2. QED
    BY <1>5, <2>1, WriteTyped, GoTyped
    DEF BeginRunning, EnterContext, TypeOK, PosInPlan, Phases, work
<1>6. CASE ResumeLoads(d)
  BY <1>6, <1>g, GoTyped
  DEF ResumeLoads, EnterContext, TypeOK, PosInPlan, Phases, work, Go
<1>7. CASE RetryLoads(d)
  <2> DEFINE goal == store[G(d)]
             subs == [k \in DOMAIN goal.subs |->
                        IF goal.subs[k] = "failed" THEN "pending" ELSE goal.subs[k]]
  <2>1. PICK n \in 0 .. MaxSubs : goal.subs \in [1 .. n -> Statuses]
    BY <1>g, GoalDataClosed
  <2>2. subs \in [1 .. n -> Statuses]
    BY <2>1 DEF Statuses
  <2>3. subs \in UNION {[1 .. m -> Statuses] : m \in 0 .. MaxSubs}
    BY <2>2
  <2>4. [goal EXCEPT !.subs = subs] \in GoalData
    BY <1>g, <2>3 DEF GoalData
  <2>5. copy' = [copy EXCEPT ![d] = [goal EXCEPT !.subs = subs]]
    BY <1>7 DEF RetryLoads
  <2>6. QED
    BY <1>7, <2>4, <2>5, GoTyped
    DEF RetryLoads, TypeOK, PosInPlan, Phases, work
<1>8. CASE RetrySaves(d)
  BY <1>8, <1>g, WriteTyped, GoTyped
  DEF RetrySaves, TypeOK, PosInPlan, Phases, work
<1>9. CASE CancelLoads(d)
  BY <1>9, <1>g, GoTyped DEF CancelLoads, TypeOK, PosInPlan, Phases, work
<1>10. CASE CancelSaves(d)
  <2>1. With(copy[d], "cancelled") \in GoalData
    BY <1>g, GoalDataClosed DEF States
  <2>2. QED
    BY <1>10, <2>1, WriteTyped, GoTyped
    DEF CancelSaves, TypeOK, PosInPlan, Phases, work
<1>11. QED
  BY <1>1, <1>2, <1>3, <1>4, <1>5, <1>6, <1>7, <1>8, <1>9, <1>10

\* The steps of the loop over the subtasks.
LEMMA LoopTyped ==
  ASSUME TInv, NEW d \in Drivers,
         \/ BeginSubtask(d) \/ Submit(d) \/ Completed(d) \/ TimesOut(d)
         \/ LeaveContext(d) \/ Conclude(d)
  PROVE  TInv'
<1> USE DEF TInv
<1>g. copy[d] \in GoalData /\ G(d) \in Goals
  BY GoalAssumption DEF TypeOK, G
<1>1. CASE BeginSubtask(d)
  <2> DEFINE New(k) == WithSub(With(copy[d], "running"), k, "running")
  <2>1. PICK k \in ToRun(d) : pos' = [pos EXCEPT ![d] = k] /\ Write(d, New(k))
    BY <1>1 DEF BeginSubtask
  <2>2. k \in DOMAIN copy[d].subs /\ k \in Places
    BY <1>g, GoalDataClosed DEF ToRun
  <2>3. With(copy[d], "running") \in GoalData
    BY <1>g, GoalDataClosed DEF States
  <2>4. New(k) \in GoalData
    BY <2>2, <2>3, GoalDataClosed DEF Statuses
  <2>5. DOMAIN New(k).subs = DOMAIN copy[d].subs
    BY <1>g DEF With, WithSub, GoalData
  <2>6. pos' \in [Drivers -> 1 .. MaxSubs + 1] /\ pos'[d] = k
        /\ \A e \in Drivers \ {d} : pos'[e] = pos[e]
    BY <2>1, <2>2, GoalAssumption DEF TypeOK, Places
  <2>7. QED
    BY <1>1, <2>1, <2>2, <2>4, <2>5, <2>6, WriteTyped, GoTyped
    DEF BeginSubtask, TypeOK, PosInPlan, Phases, work
<1>2. CASE Submit(d)
  <2>1. pos[d] \in Places
    BY <1>2, <1>g, GoalDataClosed, GoTyped DEF Submit, Phases, PosInPlan
  <2>2. QED
    BY <1>2, <1>g, <2>1, GoTyped DEF Submit, TypeOK, PosInPlan, Phases, work
<1>3. ASSUME NEW status \in {"done", "failed"}, Record(d, status),
             late' = late \/ late' = late \cup {d}
      PROVE  TInv'
  <2> DEFINE new == WithSub(With(copy[d], "waiting"), pos[d], status)
  <2>1. pos[d] \in Places
    BY <1>3, <1>g, GoalDataClosed, GoTyped DEF Record, Phases, PosInPlan
  <2>2. With(copy[d], "waiting") \in GoalData
    BY <1>g, GoalDataClosed DEF States
  <2>3. new \in GoalData
    BY <2>1, <2>2, GoalDataClosed DEF Statuses
  <2>4. pos' \in [Drivers -> 1 .. MaxSubs + 1]
        /\ \A e \in Drivers \ {d} : pos'[e] = pos[e]
    BY <1>3, <2>1, GoalAssumption DEF Record, TypeOK, Places
  <2>5. QED
    BY <1>3, <2>3, <2>4, WriteTyped, GoTyped
    DEF Record, TypeOK, PosInPlan, Phases, work
<1>4. CASE Completed(d)
  BY <1>3, <1>4 DEF Completed, TypeOK
<1>5. CASE TimesOut(d)
  BY <1>3, <1>5 DEF TimesOut
<1>6. CASE Conclude(d)
  <2> DEFINE goal == With(copy[d], Verdict(copy[d]))
  <2>1. goal \in GoalData
    BY <1>g, GoalDataClosed DEF States, Verdict
  <2>3. /\ Write(d, goal)
        /\ Go(d, "finished", "returned")
        /\ UNCHANGED <<pos, own, payload, jobs, sched, work, crashes, late>>
    BY <1>6 DEF Conclude
  <2> HIDE DEF goal
  <2>4. /\ copy' \in [Drivers -> GoalData] /\ store' \in [Goals -> GoalData]
        /\ \A e \in Drivers \ {d} : copy'[e] = copy[e]
    BY <2>1, <2>3, WriteTyped
  <2>5. /\ pc' \in [Drivers -> Phases] /\ pc'[d] = "returned"
        /\ \A e \in Drivers \ {d} : pc'[e] = pc[e]
    BY <2>3, GoTyped DEF Phases
  <2>6. QED
    BY <2>3, <2>4, <2>5 DEF TypeOK, PosInPlan, work
<1>7. CASE LeaveContext(d)
  BY <1>7, GoTyped DEF LeaveContext, TypeOK, PosInPlan, Phases, work
<1>8. QED
  BY <1>1, <1>2, <1>4, <1>5, <1>6, <1>7

\* The worker threads and the crash.
LEMMA WorkerTyped ==
  ASSUME TInv, WorkerStep
  PROVE  TInv'
<1> USE DEF TInv
<1>1. ASSUME NEW g \in Goals, NEW k \in Places, WorkerLoads(g, k)
      PROVE  TInv'
  <2>1. jobs[<<g, k>>] \in Drivers /\ <<jobs[<<g, k>>], k>> \in Workers
    BY <1>1 DEF WorkerLoads, TypeOK, Workers
  <2>2. QED
    BY <1>1, <2>1, NoGoalIsGoalData
    DEF WorkerLoads, TypeOK, PosInPlan, drive
<1>2. ASSUME NEW w \in Workers, NEW status \in {"done", "failed"},
             WorkerSaves(w, status)
      PROVE  TInv'
  <2> DEFINE goal == WithSub(wcopy[w], w[2], status)
  <2>1. G(w[1]) \in Goals /\ w[2] \in Places /\ wcopy[w] \in GoalData
    BY GoalAssumption DEF Workers, G, TypeOK
  <2>2. goal \in GoalData
    BY <2>1, GoalDataClosed DEF Statuses
  <2>3. store' = [store EXCEPT ![G(w[1])] = goal]
    BY <1>2 DEF WorkerSaves
  <2>4. earned' \in [Goals -> SUBSET Places]
    BY <1>2, <2>1 DEF WorkerSaves, TypeOK
  <2>5. QED
    BY <1>2, <2>2, <2>3, <2>4, NoGoalIsGoalData
    DEF WorkerSaves, TypeOK, PosInPlan, drive
<1>3. ASSUME NEW w \in Workers, WorkerDies(w)
      PROVE  TInv'
  BY <1>3, NoGoalIsGoalData DEF WorkerDies, TypeOK, PosInPlan, drive
<1>4. ASSUME NEW w \in Workers, WorkerPublishes(w)
      PROVE  TInv'
  BY <1>4 DEF WorkerPublishes, TypeOK, PosInPlan
<1>5. QED
  BY <1>1, <1>2, <1>3, <1>4 DEF WorkerStep

LEMMA CrashTyped ==
  ASSUME TInv, Crash
  PROVE  TInv'
  BY NoGoalIsGoalData, GoalAssumption
  DEF Crash, TInv, TypeOK, PosInPlan, Phases, Over

LEMMA NextTyped == TInv /\ [Next]_vars => TInv'
<1> SUFFICES ASSUME TInv, [Next]_vars PROVE TInv'
  OBVIOUS
<1>1. CASE UNCHANGED vars
  BY <1>1 DEF vars, drive, work, TInv, TypeOK, PosInPlan
<1>2. CASE Next
  BY <1>2, CallTyped, LoopTyped, WorkerTyped, CrashTyped
  DEF Next, Call, DriverStep
<1>3. QED
  BY <1>1, <1>2

\* Every variable of the coordinator keeps its type, for any number of goals,
\* calls, subtasks and restarts.
THEOREM TypeCorrect == Spec => []TypeOK
<1>1. TInv => TypeOK
  BY DEF TInv
<1>2. QED
  BY <1>1, InitTyped, NextTyped, PTL DEF Spec

-----------------------------------------------------------------------------
(* No copy of a goal claims a subtask that no agent completed.  The claim    *)
(* travels from the worker to the driver in the event, so what is in flight  *)
(* must be earned as well.                                                   *)

PayloadEarned ==
  \A d \in Drivers : payload[d] # "none" =>
    /\ pc[d] = "waiting"
    /\ payload[d] = "done" => pos[d] \in earned[G(d)]

OutcomeEarned ==
  \A w \in Workers : outcome[w] = "done" => w[2] \in earned[G(w[1])]

\* A registered job belongs to a driver of its goal.
JobsMatch ==
  \A g \in Goals, k \in Places : jobs[<<g, k>>] # Nobody => G(jobs[<<g, k>>]) = g

EInv == DoneIsEarned /\ PayloadEarned /\ OutcomeEarned /\ JobsMatch

LEMMA ClaimedClosed ==
  ASSUME NEW goal \in GoalData
  PROVE  /\ \A state \in States : Claimed(With(goal, state)) = Claimed(goal)
         /\ \A k \in Places, status \in Statuses :
              /\ Claimed(WithSub(goal, k, status)) \subseteq Claimed(goal) \cup {k}
              /\ status # "done" =>
                   Claimed(WithSub(goal, k, status)) \subseteq Claimed(goal)
<1>1. PICK n \in 0 .. MaxSubs : goal.subs \in [1 .. n -> Statuses]
  BY GoalDataClosed
<1>2. ASSUME NEW state \in States
      PROVE  With(goal, state).subs = goal.subs
  BY DEF With, GoalData
<1>3. ASSUME NEW k \in Places, NEW status \in Statuses
      PROVE  WithSub(goal, k, status).subs = [goal.subs EXCEPT ![k] = status]
  BY DEF WithSub, GoalData
<1>4. \A state \in States : Claimed(With(goal, state)) = Claimed(goal)
  BY <1>2 DEF Claimed
<1>5. ASSUME NEW k \in Places, NEW status \in Statuses
      PROVE  /\ Claimed(WithSub(goal, k, status)) \subseteq Claimed(goal) \cup {k}
             /\ status # "done" =>
                  Claimed(WithSub(goal, k, status)) \subseteq Claimed(goal)
  <2> DEFINE new == WithSub(goal, k, status)
  <2>1. /\ DOMAIN new.subs = DOMAIN goal.subs
        /\ \A m \in DOMAIN goal.subs :
             new.subs[m] = IF m = k THEN status ELSE goal.subs[m]
    BY <1>1, <1>3
  <2> HIDE DEF new
  <2>2. QED
    BY <2>1 DEF Claimed, new
<1>6. QED
  BY <1>4, <1>5

LEMMA NoGoalClaims == Claimed(NoGoal) = {}
  BY DEF Claimed, NoGoal

LEMMA WriteEarned ==
  ASSUME TypeOK, DoneIsEarned, NEW d \in Drivers, NEW goal \in GoalData,
         Write(d, goal), Claimed(goal) \subseteq earned[G(d)],
         UNCHANGED <<wcopy, earned>>
  PROVE  DoneIsEarned'
<1>1. /\ copy'[d] = goal /\ store'[G(d)] = goal
      /\ \A e \in Drivers \ {d} : copy'[e] = copy[e]
      /\ \A g \in Goals \ {G(d)} : store'[g] = store[g]
  BY WriteTyped
<1>2. \A g \in Goals : Claimed(store'[g]) \subseteq earned'[g]
  BY <1>1 DEF DoneIsEarned
<1>3. \A e \in Drivers : Claimed(copy'[e]) \subseteq earned'[G(e)]
  BY <1>1 DEF DoneIsEarned
<1>4. \A w \in Workers : Claimed(wcopy'[w]) \subseteq earned'[G(w[1])]
  BY DEF DoneIsEarned
<1>5. QED
  BY <1>2, <1>3, <1>4 DEF DoneIsEarned, Claimed

LEMMA InitEarned == Init => EInv
<1> SUFFICES ASSUME Init PROVE EInv
  OBVIOUS
<1>1. DoneIsEarned
  BY NoGoalClaims, GoalAssumption DEF Init, DoneIsEarned, G, Workers
<1>2. PayloadEarned /\ OutcomeEarned /\ JobsMatch
  BY DEF Init, PayloadEarned, OutcomeEarned, JobsMatch
<1>3. QED
  BY <1>1, <1>2 DEF EInv

\* Steps that write a goal which claims nothing new, or only load one.
LEMMA CallEarned ==
  ASSUME TInv, EInv, NEW d \in Drivers,
         \/ Create(d) \/ BeginPlanning(d) \/ Plan(d) \/ PlanRaises(d)
         \/ BeginRunning(d) \/ ResumeLoads(d) \/ RetryLoads(d)
         \/ RetrySaves(d) \/ CancelLoads(d) \/ CancelSaves(d)
  PROVE  EInv'
<1> USE DEF TInv, EInv
<1>g. /\ copy[d] \in GoalData /\ store[G(d)] \in GoalData /\ G(d) \in Goals
      /\ Claimed(copy[d]) \subseteq earned[G(d)]
      /\ Claimed(store[G(d)]) \subseteq earned[G(d)]
  BY GoalAssumption DEF TypeOK, G, DoneIsEarned
<1>1. UNCHANGED <<pos, payload, jobs, work>>
  BY DEF Create, BeginPlanning, Plan, PlanRaises, BeginRunning, ResumeLoads,
         RetryLoads, RetrySaves, CancelLoads, CancelSaves
<1>2. UNCHANGED <<wcopy, outcome, earned>>
  BY <1>1 DEF work
<1>3. pc[d] # "waiting" /\ \A e \in Drivers \ {d} : pc'[e] = pc[e]
  BY DEF Create, BeginPlanning, Plan, PlanRaises, BeginRunning, ResumeLoads,
         RetryLoads, RetrySaves, CancelLoads, CancelSaves, Go, TypeOK
<1>4. PayloadEarned' /\ OutcomeEarned' /\ JobsMatch'
  BY <1>1, <1>2, <1>3 DEF PayloadEarned, OutcomeEarned, JobsMatch
<1>5. ASSUME NEW goal \in GoalData, Write(d, goal),
             Claimed(goal) \subseteq Claimed(copy[d])
      PROVE  DoneIsEarned'
  BY <1>g, <1>2, <1>5, WriteEarned
<1>6. ASSUME NEW goal \in GoalData, copy' = [copy EXCEPT ![d] = goal],
             UNCHANGED store, Claimed(goal) \subseteq Claimed(store[G(d)])
      PROVE  DoneIsEarned'
  <2>1. copy'[d] = goal /\ \A e \in Drivers \ {d} : copy'[e] = copy[e]
    BY <1>6 DEF TypeOK
  <2>2. \A e \in Drivers : Claimed(copy'[e]) \subseteq earned'[G(e)]
    BY <1>g, <1>2, <1>6, <2>1 DEF DoneIsEarned
  <2>3. QED
    BY <1>2, <1>6, <2>2 DEF DoneIsEarned, Claimed
<1>7. CASE Create(d)
  <2> DEFINE goal == [state |-> "pending", subs |-> << >>]
  <2>1. goal \in GoalData
    BY NoGoalIsGoalData DEF NoGoal, GoalData, States
  <2>2. Claimed(goal) = {}
    BY DEF Claimed
  <2>3. Write(d, goal)
    BY <1>7 DEF Create
  <2> HIDE DEF goal
  <2>4. QED
    BY <1>4, <1>5, <2>1, <2>2, <2>3
<1>8. CASE BeginPlanning(d) \/ BeginRunning(d) \/ CancelSaves(d)
  <2>1. PICK state \in States : Write(d, With(copy[d], state))
    BY <1>8 DEF BeginPlanning, BeginRunning, CancelSaves, States
  <2>2. With(copy[d], state) \in GoalData
        /\ Claimed(With(copy[d], state)) = Claimed(copy[d])
    BY <1>g, GoalDataClosed, ClaimedClosed
  <2>3. QED
    BY <1>4, <1>5, <2>1, <2>2
<1>9. CASE Plan(d)
  <2>1. PICK n \in Places :
          Write(d, [copy[d] EXCEPT !.subs = [k \in 1 .. n |-> "pending"]])
    BY <1>9 DEF Plan
  <2> DEFINE subs == [k \in 1 .. n |-> "pending"]
             goal == [copy[d] EXCEPT !.subs = subs]
  <2>2. n \in 0 .. MaxSubs /\ subs \in [1 .. n -> Statuses]
    BY GoalAssumption DEF Places, Statuses
  <2>3. subs \in UNION {[1 .. m -> Statuses] : m \in 0 .. MaxSubs}
    BY <2>2
  <2>4. goal \in GoalData /\ goal.subs = subs
    BY <1>g, <2>3 DEF GoalData
  <2>5. Claimed(goal) = {}
    BY <2>4 DEF Claimed
  <2> HIDE DEF goal
  <2>6. Write(d, goal)
    BY <2>1 DEF goal
  <2>7. QED
    BY <1>4, <1>5, <2>4, <2>5, <2>6
<1>10. CASE RetrySaves(d)
  BY <1>4, <1>5, <1>10, <1>g DEF RetrySaves
<1>11. CASE ResumeLoads(d) \/ CancelLoads(d)
  BY <1>4, <1>6, <1>11, <1>g DEF ResumeLoads, CancelLoads
<1>12. CASE RetryLoads(d)
  <2> DEFINE old == store[G(d)]
             subs == [k \in DOMAIN old.subs |->
                        IF old.subs[k] = "failed" THEN "pending" ELSE old.subs[k]]
             goal == [old EXCEPT !.subs = subs]
  <2>1. PICK n \in 0 .. MaxSubs : old.subs \in [1 .. n -> Statuses]
    BY <1>g, GoalDataClosed
  <2>2. subs \in [1 .. n -> Statuses]
    BY <2>1 DEF Statuses
  <2>3. subs \in UNION {[1 .. m -> Statuses] : m \in 0 .. MaxSubs}
    BY <2>2
  <2>4. goal \in GoalData /\ goal.subs = subs
    BY <1>g, <2>3 DEF GoalData
  <2>5. Claimed(goal) \subseteq Claimed(old)
    BY <2>1, <2>4 DEF Claimed
  <2>6. copy' = [copy EXCEPT ![d] = goal] /\ UNCHANGED store
    BY <1>12 DEF RetryLoads
  <2> HIDE DEF goal
  <2>7. QED
    BY <1>4, <1>6, <2>4, <2>5, <2>6
<1>13. CASE PlanRaises(d)
  BY <1>2, <1>4, <1>13 DEF PlanRaises, DoneIsEarned, Claimed
<1>14. QED
  BY <1>7, <1>8, <1>9, <1>10, <1>11, <1>12, <1>13

\* A driver takes a status from the event, and a new claim with it.
LEMMA LoopEarned ==
  ASSUME TInv, EInv, NEW d \in Drivers,
         \/ BeginSubtask(d) \/ Submit(d) \/ Completed(d) \/ TimesOut(d)
         \/ LeaveContext(d) \/ Conclude(d)
  PROVE  EInv'
<1> USE DEF TInv, EInv
<1>g. /\ copy[d] \in GoalData /\ G(d) \in Goals
      /\ Claimed(copy[d]) \subseteq earned[G(d)]
  BY GoalAssumption DEF TypeOK, G, DoneIsEarned
<1>1. UNCHANGED <<wcopy, outcome, earned>>
  BY DEF BeginSubtask, Submit, Completed, TimesOut, Record, LeaveContext,
    Conclude, work
<1>2. OutcomeEarned' /\ JobsMatch'
  <2>1. UNCHANGED jobs \/ jobs' = [jobs EXCEPT ![<<G(d), pos[d]>>] = d]
    BY DEF BeginSubtask, Submit, Completed, TimesOut, Record, LeaveContext,
      Conclude
  <2>2. JobsMatch'
    BY <2>1 DEF JobsMatch, TypeOK
  <2>3. QED
    BY <1>1, <2>2 DEF OutcomeEarned
<1>3. CASE BeginSubtask(d)
  <2> DEFINE New(k) == WithSub(With(copy[d], "running"), k, "running")
  <2>1. PICK k \in ToRun(d) : pos' = [pos EXCEPT ![d] = k] /\ Write(d, New(k))
    BY <1>3 DEF BeginSubtask
  <2>2. k \in Places
    BY <1>g, GoalDataClosed DEF ToRun
  <2>3. With(copy[d], "running") \in GoalData
        /\ Claimed(With(copy[d], "running")) = Claimed(copy[d])
    BY <1>g, GoalDataClosed, ClaimedClosed DEF States
  <2>4. New(k) \in GoalData /\ Claimed(New(k)) \subseteq Claimed(copy[d])
    BY <2>2, <2>3, GoalDataClosed, ClaimedClosed DEF Statuses
  <2> HIDE DEF New
  <2>5. DoneIsEarned'
    BY <1>g, <1>1, <2>1, <2>4, WriteEarned
  <2>6. PayloadEarned'
    BY <1>1, <1>3, <2>1 DEF BeginSubtask, Go, PayloadEarned, TypeOK
  <2>7. QED
    BY <1>2, <2>5, <2>6
<1>4. CASE Submit(d)
  <2>1. DoneIsEarned'
    BY <1>1, <1>4 DEF Submit, DoneIsEarned, Claimed
  <2>2. PayloadEarned'
    BY <1>1, <1>4 DEF Submit, Go, PayloadEarned, TypeOK
  <2>3. QED
    BY <1>2, <2>1, <2>2
<1>5. ASSUME NEW status \in {"done", "failed"}, Record(d, status),
             status = "done" => pos[d] \in earned[G(d)]
      PROVE  EInv'
  <2> DEFINE waiting == With(copy[d], "waiting")
             new == WithSub(waiting, pos[d], status)
  <2>1. pos[d] \in Places
    BY <1>5, <1>g, GoalDataClosed, GoTyped DEF Record, Phases, PosInPlan
  <2>2. waiting \in GoalData /\ Claimed(waiting) = Claimed(copy[d])
    BY <1>g, GoalDataClosed, ClaimedClosed DEF States
  <2>3. new \in GoalData
    BY <2>1, <2>2, GoalDataClosed DEF Statuses
  <2>4. Claimed(new) \subseteq earned[G(d)]
    BY <1>5, <1>g, <2>1, <2>2, ClaimedClosed DEF Statuses
  <2>5. Write(d, new)
    BY <1>5 DEF Record
  <2> HIDE DEF new
  <2>6. DoneIsEarned'
    BY <1>1, <2>3, <2>4, <2>5, WriteEarned
  <2>7. PayloadEarned'
    BY <1>1, <1>5 DEF Record, Go, PayloadEarned, TypeOK
  <2>8. QED
    BY <1>2, <2>6, <2>7
<1>6. CASE Completed(d)
  BY <1>5, <1>6 DEF Completed, PayloadEarned, TypeOK
<1>7. CASE TimesOut(d)
  BY <1>5, <1>7 DEF TimesOut
<1>8. CASE Conclude(d)
  <2> DEFINE goal == With(copy[d], Verdict(copy[d]))
  <2>1. goal \in GoalData /\ Claimed(goal) = Claimed(copy[d])
    BY <1>g, GoalDataClosed, ClaimedClosed DEF States, Verdict
  <2>2. Write(d, goal)
    BY <1>8 DEF Conclude
  <2> HIDE DEF goal
  <2>3. DoneIsEarned'
    BY <1>g, <1>1, <2>1, <2>2, WriteEarned
  <2>4. PayloadEarned'
    BY <1>1, <1>8 DEF Conclude, Go, PayloadEarned, TypeOK
  <2>5. QED
    BY <1>2, <2>3, <2>4
<1>9. CASE LeaveContext(d)
  <2>1. DoneIsEarned'
    BY <1>1, <1>9 DEF LeaveContext, DoneIsEarned, Claimed
  <2>2. PayloadEarned'
    BY <1>1, <1>9 DEF LeaveContext, Go, PayloadEarned, TypeOK
  <2>3. QED
    BY <1>2, <2>1, <2>2
<1>10. QED
  BY <1>3, <1>4, <1>6, <1>7, <1>8, <1>9

LEMMA WorkerEarned ==
  ASSUME TInv, EInv, WorkerStep
  PROVE  EInv'
<1> USE DEF TInv, EInv
<1>1. ASSUME NEW g \in Goals, NEW k \in Places, WorkerLoads(g, k)
      PROVE  EInv'
  <2>1. jobs[<<g, k>>] \in Drivers /\ <<jobs[<<g, k>>], k>> \in Workers
    BY <1>1 DEF WorkerLoads, TypeOK, Workers
  <2> DEFINE w == <<jobs[<<g, k>>], k>>
             goal == IF k \in DOMAIN store[g].subs THEN store[g] ELSE NoGoal
  <2>2. /\ wcopy' = [wcopy EXCEPT ![w] = goal]
        /\ outcome' = [outcome EXCEPT ![w] = "failed"]
        /\ UNCHANGED <<store, pc, copy, pos, payload, earned>>
    BY <1>1 DEF WorkerLoads, drive
  <2>3. DoneIsEarned'
    <3>1. G(w[1]) = g /\ w \in Workers
      BY <1>1, <2>1 DEF WorkerLoads, JobsMatch
    <3>2. Claimed(goal) \subseteq earned[g]
      BY NoGoalClaims DEF DoneIsEarned
    <3> HIDE DEF goal, w
    <3>3. \A x \in Workers : Claimed(wcopy'[x]) \subseteq earned'[G(x[1])]
      BY <2>2, <3>1, <3>2 DEF DoneIsEarned, TypeOK
    <3>4. QED
      BY <2>2, <3>3 DEF DoneIsEarned, Claimed
  <2>4. PayloadEarned' /\ OutcomeEarned'
    BY <2>1, <2>2 DEF PayloadEarned, OutcomeEarned, TypeOK
  <2>5. JobsMatch'
    BY <1>1 DEF WorkerLoads, JobsMatch, TypeOK
  <2>6. QED
    BY <2>3, <2>4, <2>5
<1>2. ASSUME NEW w \in Workers, NEW status \in {"done", "failed"},
             WorkerSaves(w, status)
      PROVE  EInv'
  <2> DEFINE g == G(w[1])
             goal == WithSub(wcopy[w], w[2], status)
  <2>1. g \in Goals /\ w[2] \in Places /\ wcopy[w] \in GoalData
    BY GoalAssumption DEF Workers, G, TypeOK
  <2>2. /\ earned'[g] = IF status = "done" THEN earned[g] \cup {w[2]} ELSE earned[g]
        /\ \A h \in Goals \ {g} : earned'[h] = earned[h]
    BY <1>2, <2>1 DEF WorkerSaves, TypeOK
  <2>3. \A h \in Goals : earned[h] \subseteq earned'[h]
    BY <2>2
  <2>4. Claimed(wcopy[w]) \subseteq earned[g]
    BY DEF DoneIsEarned
  <2>5. Claimed(goal) \subseteq earned'[g]
    BY <2>1, <2>2, <2>4, ClaimedClosed DEF Statuses
  <2>6. store' = [store EXCEPT ![g] = goal] /\ UNCHANGED drive
        /\ wcopy' = [wcopy EXCEPT ![w] = NoGoal]
        /\ outcome' = [outcome EXCEPT ![w] = status]
    BY <1>2 DEF WorkerSaves
  <2>7. \A d \in Drivers : G(d) \in Goals
    BY GoalAssumption DEF G
  <2>8. \A x \in Workers : x[1] \in Drivers
    BY DEF Workers
  <2> HIDE DEF goal, g
  <2>9. \A h \in Goals : Claimed(store'[h]) \subseteq earned'[h]
    BY <2>1, <2>3, <2>5, <2>6 DEF DoneIsEarned, TypeOK
  <2>10. \A d \in Drivers : Claimed(copy'[d]) \subseteq earned'[G(d)]
    BY <2>3, <2>6, <2>7 DEF DoneIsEarned, drive
  <2>11. \A x \in Workers : Claimed(wcopy'[x]) \subseteq earned'[G(x[1])]
    BY <2>3, <2>6, <2>7, <2>8, NoGoalClaims DEF DoneIsEarned, TypeOK
  <2>12. DoneIsEarned'
    BY <2>9, <2>10, <2>11 DEF DoneIsEarned, Claimed
  <2>13. PayloadEarned'
    BY <2>3, <2>6, <2>7 DEF PayloadEarned, drive
  <2>14. OutcomeEarned'
    BY <2>1, <2>2, <2>3, <2>6, <2>7, <2>8 DEF OutcomeEarned, TypeOK, g
  <2>15. JobsMatch'
    BY <1>2 DEF WorkerSaves, JobsMatch
  <2>16. QED
    BY <2>12, <2>13, <2>14, <2>15
<1>3. ASSUME NEW w \in Workers, WorkerDies(w)
      PROVE  EInv'
  BY <1>3, NoGoalClaims
  DEF WorkerDies, drive, DoneIsEarned, PayloadEarned, OutcomeEarned, JobsMatch,
      TypeOK
<1>4. ASSUME NEW w \in Workers, WorkerPublishes(w)
      PROVE  EInv'
  <2>1. DoneIsEarned'
    BY <1>4 DEF WorkerPublishes, DoneIsEarned, Claimed
  <2>2. OutcomeEarned'
    BY <1>4 DEF WorkerPublishes, OutcomeEarned, TypeOK
  <2>3. PayloadEarned'
    BY <1>4 DEF WorkerPublishes, PayloadEarned, OutcomeEarned, TypeOK
  <2>4. JobsMatch'
    BY <1>4 DEF WorkerPublishes, JobsMatch
  <2>5. QED
    BY <2>1, <2>2, <2>3, <2>4
<1>5. QED
  BY <1>1, <1>2, <1>3, <1>4 DEF WorkerStep

LEMMA CrashEarned ==
  ASSUME TInv, EInv, Crash
  PROVE  EInv'
<1>1. DoneIsEarned'
  BY NoGoalClaims DEF Crash, EInv, DoneIsEarned
<1>2. PayloadEarned' /\ OutcomeEarned' /\ JobsMatch'
  BY DEF Crash, PayloadEarned, OutcomeEarned, JobsMatch
<1>3. QED
  BY <1>1, <1>2 DEF EInv

LEMMA NextEarned == TInv /\ EInv /\ [Next]_vars => EInv'
<1> SUFFICES ASSUME TInv, EInv, [Next]_vars PROVE EInv'
  OBVIOUS
<1>1. CASE UNCHANGED vars
  BY <1>1 DEF vars, drive, work, EInv, DoneIsEarned, PayloadEarned,
              OutcomeEarned, JobsMatch, Claimed
<1>2. CASE Next
  BY <1>2, CallEarned, LoopEarned, WorkerEarned, CrashEarned
  DEF Next, Call, DriverStep
<1>3. QED
  BY <1>1, <1>2

\* Whatever calls, late workers and restarts overlap, a subtask is "done" in
\* the store, in a driver or in a worker only if an agent completed it.
THEOREM OnlyEarnedIsDone == Spec => []DoneIsEarned
<1>1. EInv => DoneIsEarned
  BY DEF EInv
<1>2. QED
  BY <1>1, InitTyped, NextTyped, InitEarned, NextEarned, PTL DEF Spec

-----------------------------------------------------------------------------
(* The verdict of run().  Its loop leaves a settled status behind it at every *)
(* place, so when nothing failed everything is done, hence earned.            *)

SettledBefore(goal, place) ==
  \A k \in DOMAIN goal.subs : k < place => goal.subs[k] \in {"done", "failed"}

RunInv(d) ==
  KindOf[d] = "run" =>
    /\ pc[d] \notin {"loaded", "retried"}
    /\ pc[d] \in {"idle", "created", "planning", "planned"} => pos[d] = 1
    /\ pc[d] \in {"next", "begun", "waiting"} =>
         /\ copy[d].state \in {"running", "waiting"}
         /\ SettledBefore(copy[d], pos[d])
    /\ pc[d] = "finished" =>
         \A k \in DOMAIN copy[d].subs : copy[d].subs[k] \in {"done", "failed"}
    /\ pc[d] = "returned" /\ copy[d].state = "done" =>
         DOMAIN copy[d].subs \subseteq earned[G(d)]

RInv == \A d \in Drivers : RunInv(d)

\* A step that leaves a driver alone keeps its part of the invariant.
LEMMA RunFrame ==
  ASSUME NEW d \in Drivers, RunInv(d),
         pc'[d] = pc[d], copy'[d] = copy[d], pos'[d] = pos[d],
         earned[G(d)] \subseteq earned'[G(d)]
  PROVE  RunInv(d)'
  BY DEF RunInv, SettledBefore, G

\* Changing the state of a goal, or a subtask, changes nothing else.
LEMMA GoalUpdates ==
  ASSUME NEW goal \in GoalData
  PROVE  /\ \A state \in States : /\ With(goal, state).subs = goal.subs
                                   /\ With(goal, state).state = state
         /\ \A k \in DOMAIN goal.subs, status \in Statuses :
              /\ WithSub(goal, k, status).state = goal.state
              /\ DOMAIN WithSub(goal, k, status).subs = DOMAIN goal.subs
              /\ \A m \in DOMAIN goal.subs :
                   WithSub(goal, k, status).subs[m]
                     = IF m = k THEN status ELSE goal.subs[m]
<1>1. PICK n \in 0 .. MaxSubs : goal.subs \in [1 .. n -> Statuses]
  BY GoalDataClosed
<1>2. ASSUME NEW k \in DOMAIN goal.subs, NEW status \in Statuses
      PROVE  /\ WithSub(goal, k, status).state = goal.state
             /\ WithSub(goal, k, status).subs = [goal.subs EXCEPT ![k] = status]
  BY DEF WithSub, GoalData
<1>3. ASSUME NEW state \in States
      PROVE  With(goal, state).subs = goal.subs /\ With(goal, state).state = state
  BY DEF With, GoalData
<1>4. ASSUME NEW k \in DOMAIN goal.subs, NEW status \in Statuses
      PROVE  /\ WithSub(goal, k, status).state = goal.state
             /\ DOMAIN WithSub(goal, k, status).subs = DOMAIN goal.subs
             /\ \A m \in DOMAIN goal.subs :
                  WithSub(goal, k, status).subs[m]
                    = IF m = k THEN status ELSE goal.subs[m]
  <2>1. /\ WithSub(goal, k, status).state = goal.state
        /\ WithSub(goal, k, status).subs = [goal.subs EXCEPT ![k] = status]
    BY <1>2
  <2>2. QED
    BY <1>1, <2>1
<1>5. QED
  BY <1>3, <1>4

LEMMA RunBegins ==
  ASSUME TInv, NEW d \in Drivers, RunInv(d), KindOf[d] = "run",
         \/ Create(d) \/ BeginPlanning(d) \/ Plan(d) \/ PlanRaises(d)
         \/ BeginRunning(d) \/ ResumeLoads(d) \/ RetryLoads(d)
         \/ RetrySaves(d) \/ CancelLoads(d) \/ CancelSaves(d)
  PROVE  RunInv(d)'
<1> USE DEF TInv
<1>1. CASE Create(d) \/ BeginPlanning(d) \/ Plan(d) \/ PlanRaises(d)
  BY <1>1 DEF Create, BeginPlanning, Plan, PlanRaises, Go, RunInv, TypeOK
<1>2. CASE BeginRunning(d)
  <2>1. copy[d] \in GoalData /\ DOMAIN copy[d].subs \subseteq Places
    BY GoalDataClosed DEF TypeOK
  <2>2. With(copy[d], "running") \in GoalData
        /\ With(copy[d], "running").state = "running"
        /\ With(copy[d], "running").subs = copy[d].subs
    BY <2>1, GoalDataClosed, GoalUpdates DEF States
  <2>3. copy'[d] = With(copy[d], "running")
    BY <1>2, <2>2, WriteTyped DEF BeginRunning
  <2>4. pc'[d] = "next" /\ pos'[d] = 1
    BY <1>2 DEF BeginRunning, Go, RunInv, TypeOK
  <2>5. \A k \in Places : ~(k < 1)
    BY GoalAssumption DEF Places
  <2>6. SettledBefore(copy'[d], pos'[d])
    BY <2>1, <2>2, <2>3, <2>4, <2>5 DEF SettledBefore
  <2>7. QED
    BY <2>2, <2>3, <2>4, <2>6 DEF RunInv, SettledBefore
<1>3. CASE ResumeLoads(d) \/ RetryLoads(d) \/ RetrySaves(d) \/ CancelLoads(d)
           \/ CancelSaves(d)
  BY <1>3 DEF ResumeLoads, RetryLoads, RetrySaves, CancelLoads, CancelSaves, Go,
              RunInv, Exists
<1>4. QED
  BY <1>1, <1>2, <1>3

LEMMA RunLoops ==
  ASSUME TInv, EInv, NEW d \in Drivers, RunInv(d), KindOf[d] = "run",
         \/ BeginSubtask(d) \/ Submit(d) \/ Completed(d) \/ TimesOut(d)
         \/ LeaveContext(d) \/ Conclude(d)
  PROVE  RunInv(d)'
<1> USE DEF TInv
<1>1. PICK n \in 0 .. MaxSubs : copy[d].subs \in [1 .. n -> Statuses]
  BY GoalDataClosed DEF TypeOK
<1>2. copy[d] \in GoalData /\ n \in Nat /\ DOMAIN copy[d].subs = 1 .. n
      /\ pos[d] \in Nat /\ DOMAIN copy[d].subs \subseteq Places
  BY <1>1, GoalAssumption, GoalDataClosed DEF TypeOK
<1>3. CASE BeginSubtask(d)
  <2> DEFINE New(k) == WithSub(With(copy[d], "running"), k, "running")
  <2>1. PICK k \in ToRun(d) : /\ \A m \in ToRun(d) : k <= m
                             /\ pos' = [pos EXCEPT ![d] = k]
                             /\ Write(d, New(k))
    BY <1>3 DEF BeginSubtask
  <2>2. /\ copy[d].state \in {"running", "waiting"}
        /\ SettledBefore(copy[d], pos[d])
        /\ pc'[d] = "begun"
    BY <1>3 DEF BeginSubtask, Go, RunInv, TypeOK
  <2>3. ToRun(d) = {m \in 1 .. n : m >= pos[d]}
    BY <1>2, <2>2 DEF ToRun
  <2>4. k \in 1 .. n /\ \A m \in 1 .. n : m < k => m < pos[d]
    <3>1. k \in 1 .. n
      BY <2>1, <2>3
    <3>2. ASSUME NEW m \in 1 .. n, m < k, ~(m < pos[d])
          PROVE  FALSE
      <4>1. m \in ToRun(d)
        BY <1>2, <2>3, <3>2
      <4>2. k <= m
        BY <2>1, <4>1
      <4>3. QED
        BY <1>2, <3>1, <3>2, <4>2
    <3>3. QED
      BY <3>1, <3>2
  <2>5. With(copy[d], "running") \in GoalData
        /\ With(copy[d], "running").subs = copy[d].subs
        /\ With(copy[d], "running").state = "running"
    BY <1>2, GoalDataClosed, GoalUpdates DEF States
  <2>6. /\ New(k) \in GoalData
        /\ New(k).state = "running"
        /\ DOMAIN New(k).subs = 1 .. n
        /\ \A m \in 1 .. n :
             New(k).subs[m] = IF m = k THEN "running" ELSE copy[d].subs[m]
    <3> DEFINE running == With(copy[d], "running")
    <3>1. running \in GoalData /\ running.subs = copy[d].subs
          /\ running.state = "running"
      BY <2>5
    <3>2. k \in Places /\ k \in DOMAIN running.subs /\ "running" \in Statuses
      BY <1>2, <2>4, <2>5 DEF Statuses
    <3> HIDE DEF running
    <3>3. WithSub(running, k, "running") \in GoalData
      BY <3>1, <3>2, GoalDataClosed
    <3>4. /\ WithSub(running, k, "running").state = running.state
          /\ DOMAIN WithSub(running, k, "running").subs = DOMAIN running.subs
          /\ \A m \in DOMAIN running.subs :
               WithSub(running, k, "running").subs[m]
                 = IF m = k THEN "running" ELSE running.subs[m]
      BY <3>1, <3>2, GoalUpdates
    <3>5. QED
      BY <1>2, <3>1, <3>3, <3>4 DEF running
  <2>7. copy'[d] = New(k) /\ pos'[d] = k
    BY <2>1, <2>6, WriteTyped DEF TypeOK
  <2> HIDE DEF New
  <2>8. SettledBefore(New(k), k)
    BY <1>2, <2>2, <2>4, <2>6 DEF SettledBefore
  <2>9. QED
    BY <2>2, <2>6, <2>7, <2>8 DEF RunInv, SettledBefore
<1>4. CASE Submit(d)
  BY <1>4 DEF Submit, Go, RunInv, SettledBefore, TypeOK
<1>5. ASSUME NEW status \in {"done", "failed"}, Record(d, status)
      PROVE  RunInv(d)'
  <2> DEFINE waiting == With(copy[d], "waiting")
             new == WithSub(waiting, pos[d], status)
  <2>1. /\ pos[d] \in DOMAIN copy[d].subs
        /\ SettledBefore(copy[d], pos[d])
        /\ pc'[d] = "next" /\ pos'[d] = pos[d] + 1
    BY <1>5 DEF Record, Go, RunInv, PosInPlan, TypeOK
  <2>2. waiting \in GoalData /\ waiting.subs = copy[d].subs
        /\ waiting.state = "waiting"
    BY <1>2, GoalDataClosed, GoalUpdates DEF States
  <2>3. /\ new \in GoalData
        /\ new.state = "waiting"
        /\ DOMAIN new.subs = 1 .. n
        /\ \A m \in 1 .. n :
             new.subs[m] = IF m = pos[d] THEN status ELSE copy[d].subs[m]
    <3>1. pos[d] \in Places /\ pos[d] \in DOMAIN waiting.subs /\ status \in Statuses
      BY <1>2, <2>1, <2>2 DEF Statuses
    <3> HIDE DEF waiting
    <3>2. new \in GoalData
      BY <2>2, <3>1, GoalDataClosed
    <3>3. /\ new.state = waiting.state
          /\ DOMAIN new.subs = DOMAIN waiting.subs
          /\ \A m \in DOMAIN waiting.subs :
               new.subs[m] = IF m = pos[d] THEN status ELSE waiting.subs[m]
      BY <2>2, <3>1, GoalUpdates
    <3>4. QED
      BY <1>2, <2>2, <3>2, <3>3
  <2>4. Write(d, new)
    BY <1>5 DEF Record
  <2> HIDE DEF new
  <2>5. copy'[d] = new
    BY <2>3, <2>4, WriteTyped
  <2>6. SettledBefore(new, pos[d] + 1)
    BY <1>2, <2>1, <2>3 DEF SettledBefore
  <2>7. QED
    BY <2>1, <2>3, <2>5, <2>6 DEF RunInv, SettledBefore
<1>6. CASE Completed(d)
  BY <1>5, <1>6 DEF Completed, TypeOK
<1>7. CASE TimesOut(d)
  BY <1>5, <1>7 DEF TimesOut
<1>8. CASE LeaveContext(d)
  <2>1. /\ copy[d].state \in {"running", "waiting"}
        /\ SettledBefore(copy[d], pos[d])
        /\ pc'[d] = "finished"
        /\ ToRun(d) = {}
        /\ UNCHANGED copy
    BY <1>8 DEF LeaveContext, Go, RunInv, TypeOK
  <2>2. \A k \in 1 .. n : copy[d].subs[k] \in {"done", "failed"}
    BY <1>2, <2>1 DEF ToRun, SettledBefore
  <2>3. QED
    BY <1>2, <2>1, <2>2 DEF RunInv
<1>9. CASE Conclude(d)
  <2> DEFINE goal == With(copy[d], Verdict(copy[d]))
  <2>1. pc[d] = "finished" /\ pc'[d] = "returned" /\ UNCHANGED earned
    BY <1>9 DEF Conclude, Go, TypeOK, work
  <2>2. \A k \in 1 .. n : copy[d].subs[k] \in {"done", "failed"}
    BY <1>2, <2>1 DEF RunInv
  <2>3. goal \in GoalData /\ goal.state = Verdict(copy[d])
        /\ goal.subs = copy[d].subs
    BY <1>2, GoalDataClosed, GoalUpdates DEF States, Verdict
  <2>4. Verdict(copy[d]) = "done" => 1 .. n \subseteq Claimed(copy[d])
    BY <1>2, <2>2 DEF Verdict, Claimed
  <2>5. Claimed(copy[d]) \subseteq earned[G(d)]
    BY DEF EInv, DoneIsEarned
  <2>6. Write(d, goal)
    BY <1>9 DEF Conclude
  <2> HIDE DEF goal
  <2>7. copy'[d] = goal
    BY <2>3, <2>6, WriteTyped
  <2>8. QED
    BY <1>2, <2>1, <2>3, <2>4, <2>5, <2>7 DEF RunInv, G
<1>10. QED
  BY <1>3, <1>4, <1>6, <1>7, <1>8, <1>9

LEMMA NextRun == TInv /\ EInv /\ RInv /\ [Next]_vars => RInv'
<1> SUFFICES ASSUME TInv, EInv, RInv, [Next]_vars, NEW e \in Drivers
             PROVE  RunInv(e)'
  BY DEF RInv
<1>1. RunInv(e) /\ G(e) \in Goals
  BY GoalAssumption DEF RInv, G
<1>2. CASE UNCHANGED vars
  BY <1>1, <1>2, RunFrame DEF vars, drive, work
<1>3. ASSUME NEW d \in Drivers, Call(d) \/ DriverStep(d)
      PROVE  RunInv(e)'
  <2>1. /\ UNCHANGED earned
        /\ d # e => pc'[e] = pc[e] /\ copy'[e] = copy[e] /\ pos'[e] = pos[e]
    BY <1>3 DEF Call, DriverStep, Create, BeginPlanning, Plan, PlanRaises,
      BeginRunning, ResumeLoads, RetryLoads, RetrySaves, CancelLoads,
      CancelSaves, BeginSubtask, Submit, Completed, TimesOut, Record, LeaveContext,
      Conclude, Write, Go, work, TInv, TypeOK
  <2>2. CASE d # e
    BY <1>1, <2>1, <2>2, RunFrame
  <2>3. CASE d = e /\ KindOf[e] = "run"
    BY <1>1, <1>3, <2>3, RunBegins, RunLoops DEF Call, DriverStep
  <2>4. QED
    BY <2>2, <2>3 DEF RunInv
<1>4. CASE WorkerStep
  <2>1. UNCHANGED <<pc, copy, pos>>
    BY <1>4 DEF WorkerStep, WorkerLoads, WorkerSaves, WorkerDies,
                WorkerPublishes, drive
  <2>2. earned[G(e)] \subseteq earned'[G(e)]
    <3>1. ASSUME NEW w \in Workers, NEW status \in {"done", "failed"},
                 WorkerSaves(w, status)
          PROVE  earned[G(e)] \subseteq earned'[G(e)]
      BY <1>1, <3>1 DEF WorkerSaves, TInv, TypeOK
    <3>2. QED
      BY <1>4, <3>1 DEF WorkerStep, WorkerLoads, WorkerDies, WorkerPublishes
  <2>3. QED
    BY <1>1, <2>1, <2>2, RunFrame
<1>5. CASE Crash
  BY <1>1, <1>5 DEF Crash, RunInv, SettledBefore, Over, TInv, TypeOK, G
<1>6. QED
  BY <1>2, <1>3, <1>4, <1>5 DEF Next

\* When run() reports a goal DONE, every subtask of its plan was completed by an
\* agent, whatever other calls, late workers and restarts of others did.
THEOREM RunVerdictHolds == Spec => []RunVerdictIsEarned
<1>1. Init => RInv
  BY DEF Init, RInv, RunInv
<1>2. RInv => RunVerdictIsEarned
  BY DEF RInv, RunInv, RunVerdictIsEarned, Says
<1>3. QED
  BY <1>1, <1>2, NextRun, InitTyped, NextTyped, InitEarned, NextEarned, PTL
  DEF Spec

-----------------------------------------------------------------------------
(* What one step of a call, of a worker or of a crash leaves alone.        *)

\* A step of one call changes its own variables and its own goal only.
LEMMA StepFrame ==
  ASSUME TInv, NEW d \in Drivers, Call(d) \/ DriverStep(d)
  PROVE  /\ \A e \in Drivers \ {d} :
              /\ pc'[e] = pc[e] /\ copy'[e] = copy[e] /\ pos'[e] = pos[e]
              /\ payload'[e] = payload[e] /\ own'[e] = own[e]
         /\ \A g \in Goals \ {G(d)} : store'[g] = store[g]
         /\ UNCHANGED <<worker, wcopy, outcome, earned, crashes>>
<1> USE DEF TInv
<1>1. CASE \/ Create(d) \/ BeginPlanning(d) \/ Plan(d) \/ PlanRaises(d) \/ BeginRunning(d)
           \/ ResumeLoads(d) \/ RetryLoads(d) \/ RetrySaves(d) \/ CancelLoads(d)
           \/ CancelSaves(d)
  BY <1>1, GoalAssumption
  DEF Create, BeginPlanning, Plan, PlanRaises, BeginRunning, ResumeLoads, RetryLoads,
      RetrySaves, CancelLoads, CancelSaves, EnterContext, Write, Go, G, TypeOK, work
<1>2. CASE BeginSubtask(d) \/ Submit(d) \/ Completed(d) \/ TimesOut(d)
           \/ LeaveContext(d) \/ Conclude(d)
  BY <1>2, GoalAssumption
  DEF BeginSubtask, Submit, Completed, TimesOut, Record, LeaveContext, Conclude, Write, Go, G,
      TypeOK, work
<1>3. QED
  BY <1>1, <1>2 DEF Call, DriverStep

\* A call that is over takes no step, and a step never leaves a call idle; only a call
\* that begins may need the others to be over.
LEMMA StepCounters ==
  ASSUME TInv, NEW d \in Drivers, Call(d) \/ DriverStep(d)
  PROVE  /\ pc[d] \notin Over /\ pc'[d] # "idle"
         /\ pc[d] = "idle" => /\ Overlap \/ Undisturbed(d)
                              /\ KindOf[d] = "run" \/ Exists(d)
                              /\ KindOf[d] = "run" => Create(d)
         /\ late' = late \/ late' = late \cup {d}
         /\ \/ jobs' = jobs
            \/ pc[d] = "begun" /\ jobs' = [jobs EXCEPT ![<<G(d), pos[d]>>] = d]
<1> USE DEF TInv
<1>1. CASE \/ Create(d) \/ BeginPlanning(d) \/ Plan(d) \/ PlanRaises(d) \/ BeginRunning(d)
           \/ ResumeLoads(d) \/ RetryLoads(d) \/ RetrySaves(d) \/ CancelLoads(d)
           \/ CancelSaves(d)
  <2>1. /\ pc[d] \notin Over /\ pc'[d] # "idle" /\ late' = late /\ jobs' = jobs
    BY <1>1 DEF Create, BeginPlanning, Plan, PlanRaises, BeginRunning, ResumeLoads, RetryLoads,
      RetrySaves, CancelLoads, CancelSaves, Go, TypeOK, Over
  <2>2. ASSUME pc[d] = "idle"
        PROVE  /\ Call(d)
               /\ KindOf[d] = "run" \/ Exists(d)
               /\ KindOf[d] = "run" => Create(d)
    <3>1. KindOf[d] \in Kinds
      BY GoalAssumption
    <3>2. \/ Create(d) \/ RetryLoads(d) \/ CancelLoads(d)
          \/ KindOf[d] = "resume" /\ ResumeLoads(d)
      BY <1>1, <2>2, <3>1 DEF Create, BeginPlanning, Plan, PlanRaises, BeginRunning, ResumeLoads,
        RetryLoads, RetrySaves, CancelLoads, CancelSaves, Go
    <3>3. Call(d)
      BY <1>1, <2>2 DEF Call, DriverStep, BeginPlanning, Plan, PlanRaises, BeginRunning,
        RetrySaves, CancelSaves, ResumeLoads, BeginSubtask, Submit, Completed, TimesOut, Record,
        LeaveContext, Conclude, Go
    <3>4. QED
      BY <3>2, <3>3 DEF Create, ResumeLoads, RetryLoads, CancelLoads
  <2>3. QED
    BY <2>1, <2>2 DEF Call
<1>2. CASE BeginSubtask(d) \/ Submit(d) \/ Completed(d) \/ TimesOut(d)
           \/ LeaveContext(d) \/ Conclude(d)
  BY <1>2 DEF BeginSubtask, Submit, Completed, TimesOut, Record, LeaveContext, Conclude, Go,
    TypeOK, Over
<1>3. QED
  BY <1>1, <1>2 DEF Call, DriverStep

\* A worker changes the copy and the phase of no call.
LEMMA WorkerFrame ==
  WorkerStep => UNCHANGED <<pc, copy, pos, own, sched, crashes, late>>
  BY DEF WorkerStep, WorkerLoads, WorkerSaves, WorkerDies, WorkerPublishes, drive

\* A crash ends the calls in progress and the workers.
LEMMA CrashFrame ==
  ASSUME TInv, Crash
  PROVE  /\ UNCHANGED <<store, copy, pos, earned, late>>
         /\ \A d \in Drivers : /\ pc[d] \in {"idle"} \cup Over => pc'[d] = pc[d]
                               /\ pc[d] \notin {"idle"} \cup Over => pc'[d] = "crashed"
         /\ \A w \in Workers : /\ worker'[w] \in {"none", "over", "dead"}
                               /\ worker[w] = "none" => worker'[w] = "none"
                               /\ wcopy'[w] = NoGoal
         /\ \A j \in Goals \X Places : jobs'[j] = Nobody
         /\ crashes' > 0
  BY DEF Crash, TInv, TypeOK

-----------------------------------------------------------------------------
(* Who works on a goal.                                                    *)

Active(d) == pc[d] \notin {"idle"} \cup Over

\* Without overlap, one call at a time works on a goal.
Exclusive ==
  \A d, e \in Drivers : d # e /\ G(d) = G(e) /\ Active(d) /\ Active(e) => Overlap

\* A goal is not in the backend, and no call has been made on it, before its run().
Born ==
  \A g \in Goals : (\A d \in Runs : G(d) = g => pc[d] = "idle") =>
    store[g] = NoGoal /\ \A d \in Drivers : G(d) = g => pc[d] = "idle"

\* Jobs and workers are those of calls that have been made.
Begun ==
  /\ \A w \in Workers : worker[w] # "none" => pc[w[1]] # "idle"
  /\ \A j \in Goals \X Places : jobs[j] # Nobody => pc[jobs[j]] # "idle"

OInv == Exclusive /\ Born /\ Begun

LEMMA ExclusiveNext == TInv /\ Exclusive /\ [Next]_vars => Exclusive'
<1> SUFFICES ASSUME TInv, Exclusive, [Next]_vars PROVE Exclusive'
  OBVIOUS
<1>1. ASSUME NEW d \in Drivers, Call(d) \/ DriverStep(d) PROVE Exclusive'
  <2>1. /\ \A e \in Drivers \ {d} : pc'[e] = pc[e]
        /\ pc[d] \notin Over
        /\ pc[d] = "idle" => Overlap \/ Undisturbed(d)
    BY <1>1, StepFrame, StepCounters
  <2>2. ASSUME NEW e \in Drivers, e # d, G(d) = G(e), Active(e) PROVE Overlap
    BY <2>1, <2>2 DEF Exclusive, Active, Undisturbed
  <2>3. QED
    BY <2>1, <2>2 DEF Exclusive, Active, G
<1>2. CASE UNCHANGED pc
  BY <1>2 DEF Exclusive, Active, G
<1>3. CASE Crash
  BY <1>3, CrashFrame DEF Exclusive, Active, Over
<1>4. QED
  BY <1>1, <1>2, <1>3, WorkerFrame DEF Next, vars, drive

LEMMA BegunNext == TInv /\ Begun /\ [Next]_vars => Begun'
<1> SUFFICES ASSUME TInv, Begun, [Next]_vars PROVE Begun'
  OBVIOUS
<1>0. \A w \in Workers : w[1] \in Drivers
  BY DEF Workers
<1>1. ASSUME NEW d \in Drivers, Call(d) \/ DriverStep(d) PROVE Begun'
  <2>1. /\ \A e \in Drivers \ {d} : pc'[e] = pc[e]
        /\ UNCHANGED worker /\ pc'[d] # "idle"
        /\ \/ jobs' = jobs
           \/ jobs' = [jobs EXCEPT ![<<G(d), pos[d]>>] = d]
    BY <1>1, StepFrame, StepCounters
  <2>2. \A j \in Goals \X Places : jobs'[j] = jobs[j] \/ jobs'[j] = d
    BY <2>1 DEF TInv, TypeOK
  <2>3. \A e \in Drivers : pc[e] # "idle" => pc'[e] # "idle"
    BY <2>1
  <2>4. \A w \in Workers : worker'[w] # "none" => pc'[w[1]] # "idle"
    BY <1>0, <2>1, <2>3 DEF Begun
  <2>5. \A j \in Goals \X Places : jobs'[j] # Nobody => pc'[jobs'[j]] # "idle"
    BY <2>1, <2>2, <2>3 DEF Begun, TInv, TypeOK
  <2>6. QED
    BY <2>4, <2>5 DEF Begun
<1>2. ASSUME NEW g \in Goals, NEW k \in Places, WorkerLoads(g, k) PROVE Begun'
  <2>1. /\ jobs[<<g, k>>] # Nobody /\ UNCHANGED pc
        /\ jobs' = [jobs EXCEPT ![<<g, k>>] = Nobody]
        /\ \A w \in Workers \ {<<jobs[<<g, k>>], k>>} : worker'[w] = worker[w]
    BY <1>2 DEF WorkerLoads, drive, TInv, TypeOK
  <2>2. pc[jobs[<<g, k>>]] # "idle"
    BY <2>1 DEF Begun
  <2>3. \A w \in Workers : worker'[w] # "none" => pc'[w[1]] # "idle"
    BY <2>1, <2>2 DEF Begun
  <2>4. \A j \in Goals \X Places : jobs'[j] = Nobody \/ jobs'[j] = jobs[j]
    BY <2>1 DEF TInv, TypeOK
  <2>5. QED
    BY <2>1, <2>3, <2>4 DEF Begun
<1>3. ASSUME NEW w \in Workers,
             \/ \E status \in {"done", "failed"} : WorkerSaves(w, status)
             \/ WorkerDies(w) \/ WorkerPublishes(w)
      PROVE  Begun'
  BY <1>3 DEF WorkerSaves, WorkerDies, WorkerPublishes, drive, Begun, TInv, TypeOK
<1>4. CASE Crash
  BY <1>0, <1>4, CrashFrame DEF Begun, Over
<1>5. CASE UNCHANGED vars
  BY <1>5 DEF vars, drive, work, Begun
<1>6. QED
  BY <1>1, <1>2, <1>3, <1>4, <1>5 DEF Next, WorkerStep

LEMMA BornNext == TInv /\ Begun /\ Born /\ [Next]_vars => Born'
<1> SUFFICES ASSUME TInv, Begun, Born, [Next]_vars, NEW g \in Goals,
                    \A d \in Runs : G(d) = g => pc'[d] = "idle"
             PROVE  store'[g] = NoGoal /\ \A d \in Drivers : G(d) = g => pc'[d] = "idle"
  BY DEF Born, Runs, G
<1>1. ASSUME NEW d \in Drivers, Call(d) \/ DriverStep(d), G(d) = g PROVE FALSE
  <2>1. \A e \in Drivers \ {d} : pc'[e] = pc[e]
    BY <1>1, StepFrame
  <2>2. pc'[d] # "idle" /\ (pc[d] = "idle" => KindOf[d] = "run" \/ Exists(d))
    BY <1>1, StepCounters
  <2>3. d \notin Runs
    BY <1>1, <2>2
  <2>4. \A e \in Runs : G(e) = g => pc[e] = "idle"
    BY <2>1, <2>3 DEF Runs
  <2>5. store[g] = NoGoal /\ pc[d] = "idle"
    BY <1>1, <2>4 DEF Born
  <2>6. QED
    BY <1>1, <2>2, <2>3, <2>5 DEF Exists, Runs
<1>2. ASSUME NEW d \in Drivers, Call(d) \/ DriverStep(d), G(d) # g
      PROVE  store'[g] = store[g] /\ \A e \in Drivers : G(e) = g => pc'[e] = pc[e]
  BY <1>2, StepFrame
<1>3. (\A d \in Drivers : G(d) = g => pc'[d] = pc[d]) /\ store'[g] = store[g]
      => store'[g] = NoGoal /\ \A d \in Drivers : G(d) = g => pc'[d] = "idle"
  BY DEF Born, Runs
<1>4. CASE WorkerStep
  <2>1. UNCHANGED pc
    BY <1>4, WorkerFrame
  <2>2. \A d \in Drivers : G(d) = g => pc[d] = "idle"
    BY <2>1 DEF Born
  <2>3. ASSUME NEW w \in Workers, NEW status, WorkerSaves(w, status)
        PROVE  store'[g] = store[g]
    <3>1. w[1] \in Drivers /\ pc[w[1]] # "idle"
      BY <2>3 DEF Begun, Workers, WorkerSaves
    <3>2. QED
      BY <2>2, <2>3, <3>1 DEF WorkerSaves, TInv, TypeOK
  <2>4. store'[g] = store[g]
    BY <1>4, <2>3 DEF WorkerStep, WorkerLoads, WorkerDies, WorkerPublishes
  <2>5. QED
    BY <1>3, <2>1, <2>4
<1>5. CASE Crash
  <2>1. \A d \in Drivers : pc'[d] = "idle" <=> pc[d] = "idle"
    BY <1>5, CrashFrame DEF Over
  <2>2. UNCHANGED store
    BY <1>5, CrashFrame
  <2>3. QED
    BY <2>1, <2>2 DEF Born, Runs
<1>6. CASE UNCHANGED vars
  BY <1>3, <1>6 DEF vars, drive
<1>7. QED
  BY <1>1, <1>2, <1>3, <1>4, <1>5, <1>6 DEF Next

LEMMA InitOnce == Init => OInv
<1> SUFFICES ASSUME Init PROVE OInv
  OBVIOUS
<1>1. Exclusive /\ Begun
  BY DEF Init, Exclusive, Begun, Active, Workers
<1>2. Born
  BY DEF Init, Born
<1>3. QED
  BY <1>1, <1>2 DEF OInv

LEMMA NextOnce == TInv /\ OInv /\ [Next]_vars => OInv'
  BY ExclusiveNext, BegunNext, BornNext DEF OInv

-----------------------------------------------------------------------------
(* The plan of run(): subtasks are taken in order, from the first one.     *)

Ahead(d) ==
  /\ pc[d] \in {"idle", "created", "planning"} => copy[d].subs = << >>
  /\ pc[d] = "planning" => copy[d].state = "planning"
  /\ pc[d] \in {"planned", "next", "begun", "waiting"} =>
       \A k \in DOMAIN copy[d].subs :
         /\ k > pos[d] => copy[d].subs[k] = "pending"
         /\ k = pos[d] =>
              copy[d].subs[k] = IF pc[d] \in {"begun", "waiting"} THEN "running" ELSE "pending"

AInv == \A d \in Runs : Ahead(d)

\* What a goal object is with another state, and with the result of a subtask.
LEMMA SubWritten ==
  ASSUME NEW goal \in GoalData, NEW state
  PROVE  /\ With(goal, state).state = state /\ With(goal, state).subs = goal.subs
         /\ \A k, status :
              /\ WithSub(goal, k, status).state = goal.state
              /\ WithSub(goal, k, status).subs = [goal.subs EXCEPT ![k] = status]
              /\ WithSub(With(goal, state), k, status).state = state
              /\ WithSub(With(goal, state), k, status).subs = [goal.subs EXCEPT ![k] = status]
  BY DEF With, WithSub, GoalData

\* The place at which the loop of run() goes on.
LEMMA RunTakes ==
  ASSUME TInv, RInv, NEW d \in Runs, BeginSubtask(d)
  PROVE  /\ pos[d] \in DOMAIN copy[d].subs /\ pos' = pos
         /\ pc[d] = "next" /\ pc'[d] = "begun"
         /\ copy'[d].subs = [copy[d].subs EXCEPT ![pos[d]] = "running"]
<1> USE DEF TInv
<1>0. d \in Drivers /\ KindOf[d] = "run" /\ RunInv(d) /\ copy[d] \in GoalData
  BY DEF Runs, RInv, TypeOK
<1>1. PICK n \in 0 .. MaxSubs : copy[d].subs \in [1 .. n -> Statuses]
  BY <1>0, GoalDataClosed
<1>2. DOMAIN copy[d].subs = 1 .. n /\ n \in Nat /\ pos[d] \in Nat \ {0}
  BY <1>0, <1>1, GoalAssumption DEF TypeOK
<1>3. PICK k \in ToRun(d) : /\ \A m \in ToRun(d) : k <= m
                            /\ pos' = [pos EXCEPT ![d] = k]
                            /\ Write(d, WithSub(With(copy[d], "running"), k, "running"))
  BY DEF BeginSubtask
<1>4. pc[d] = "next" /\ pc'[d] = "begun" /\ copy[d].state # "cancelled"
  BY <1>0 DEF BeginSubtask, Go, RunInv, TypeOK
<1>5. ToRun(d) = {m \in 1 .. n : m >= pos[d]}
  BY <1>0, <1>2, <1>4 DEF ToRun
<1>6. pos[d] \in ToRun(d) /\ k = pos[d]
  BY <1>2, <1>3, <1>5
<1>7. pos' = pos
  BY <1>0, <1>3, <1>6 DEF TypeOK
<1>8. copy'[d] = WithSub(With(copy[d], "running"), k, "running")
  BY <1>0, <1>3 DEF Write, TypeOK
<1>9. copy'[d].subs = [copy[d].subs EXCEPT ![k] = "running"]
  BY <1>0, <1>8 DEF With, WithSub, GoalData
<1>10. QED
  BY <1>2, <1>4, <1>5, <1>6, <1>7, <1>9

LEMMA RunRecords ==
  ASSUME TInv, NEW d \in Drivers, NEW status, Record(d, status)
  PROVE  /\ pos[d] \in DOMAIN copy[d].subs
         /\ pos'[d] = pos[d] + 1
         /\ pc[d] = "waiting" /\ pc'[d] = "next"
         /\ copy'[d].subs = [copy[d].subs EXCEPT ![pos[d]] = status]
<1> USE DEF TInv
<1>1. pc[d] = "waiting" /\ pc'[d] = "next" /\ pos'[d] = pos[d] + 1
  BY DEF Record, Go, TypeOK
<1>2. copy'[d] = WithSub(With(copy[d], "waiting"), pos[d], status) /\ copy[d] \in GoalData
  BY DEF Record, Write, TypeOK
<1>3. QED
  BY <1>1, <1>2, SubWritten DEF PosInPlan

\* A step of run() other than those of its loop.
LEMMA RunPlans ==
  ASSUME TInv, AInv, RInv, NEW d \in Runs,
         \/ Create(d) \/ BeginPlanning(d) \/ Plan(d) \/ PlanRaises(d) \/ BeginRunning(d)
         \/ ResumeLoads(d) \/ RetryLoads(d) \/ RetrySaves(d) \/ CancelLoads(d) \/ CancelSaves(d)
  PROVE  Ahead(d)'
<1> USE DEF TInv
<1>0. /\ d \in Drivers /\ KindOf[d] = "run" /\ RunInv(d) /\ Ahead(d) /\ copy[d] \in GoalData
      /\ DOMAIN copy[d].subs \subseteq Places
  BY GoalDataClosed DEF Runs, RInv, AInv, TypeOK
<1>1. CASE Create(d)
  BY <1>0, <1>1 DEF Create, Write, Go, Ahead, TypeOK
<1>2. CASE BeginPlanning(d)
  <2>1. copy'[d] = With(copy[d], "planning") /\ pc'[d] = "planning" /\ pc[d] = "created"
    BY <1>0, <1>2 DEF BeginPlanning, Write, Go, TypeOK
  <2>2. QED
    BY <1>0, <2>1, SubWritten DEF Ahead
<1>3. CASE Plan(d)
  <2>1. PICK n \in Places : Write(d, [copy[d] EXCEPT !.subs = [k \in 1 .. n |-> "pending"]])
    BY <1>3 DEF Plan
  <2>2. copy'[d].subs = [k \in 1 .. n |-> "pending"] /\ pc'[d] = "planned"
    BY <1>0, <1>3, <2>1 DEF Plan, Write, Go, TypeOK, GoalData
  <2>3. QED
    BY <2>2 DEF Ahead
<1>4. CASE PlanRaises(d)
  BY <1>0, <1>4 DEF PlanRaises, Go, Ahead, TypeOK
<1>5. CASE BeginRunning(d)
  <2>1. copy'[d] = With(copy[d], "running") /\ pc'[d] = "next" /\ pc[d] = "planned"
        /\ UNCHANGED pos
    BY <1>0, <1>5 DEF BeginRunning, Write, Go, TypeOK
  <2>2. QED
    BY <1>0, <2>1, SubWritten DEF Ahead
<1>6. CASE ResumeLoads(d) \/ RetryLoads(d) \/ RetrySaves(d) \/ CancelLoads(d) \/ CancelSaves(d)
  BY <1>0, <1>6 DEF ResumeLoads, RetryLoads, RetrySaves, CancelLoads, CancelSaves, Go, RunInv
<1>7. QED
  BY <1>1, <1>2, <1>3, <1>4, <1>5, <1>6

LEMMA AheadNext == TInv /\ RInv /\ AInv /\ [Next]_vars => AInv'
<1> SUFFICES ASSUME TInv, RInv, AInv, [Next]_vars, NEW d \in Runs PROVE Ahead(d)'
  BY DEF AInv, Runs
<1> USE DEF TInv
<1>0. /\ d \in Drivers /\ KindOf[d] = "run" /\ RunInv(d) /\ Ahead(d) /\ copy[d] \in GoalData
      /\ pos[d] \in Nat /\ DOMAIN copy[d].subs \subseteq Nat
  BY GoalDataClosed, GoalAssumption DEF Runs, RInv, AInv, TypeOK, Places
<1>1. CASE pc'[d] = pc[d] /\ copy'[d] = copy[d] /\ pos'[d] = pos[d]
  BY <1>0, <1>1 DEF Ahead
<1>2. ASSUME NEW c \in Drivers, Call(c) \/ DriverStep(c), c # d PROVE Ahead(d)'
  BY <1>0, <1>1, <1>2, StepFrame
<1>3. CASE BeginSubtask(d)
  <2>1. /\ pos[d] \in DOMAIN copy[d].subs /\ pos' = pos /\ pc[d] = "next" /\ pc'[d] = "begun"
        /\ copy'[d].subs = [copy[d].subs EXCEPT ![pos[d]] = "running"]
    BY <1>3, RunTakes
  <2>2. QED
    BY <1>0, <2>1 DEF Ahead
<1>4. CASE Submit(d)
  BY <1>0, <1>4 DEF Submit, Go, Ahead, TypeOK
<1>5. ASSUME NEW status, Record(d, status) PROVE Ahead(d)'
  <2>1. /\ pos[d] \in DOMAIN copy[d].subs /\ pos'[d] = pos[d] + 1
        /\ pc[d] = "waiting" /\ pc'[d] = "next"
        /\ copy'[d].subs = [copy[d].subs EXCEPT ![pos[d]] = status]
    BY <1>0, <1>5, RunRecords
  <2>2. \A k \in DOMAIN copy[d].subs : k >= pos[d] + 1 =>
          k > pos[d] /\ k # pos[d] /\ copy'[d].subs[k] = "pending"
    BY <1>0, <2>1 DEF Ahead
  <2>3. QED
    BY <1>0, <2>1, <2>2 DEF Ahead
<1>6. CASE LeaveContext(d) \/ Conclude(d)
  BY <1>0, <1>6 DEF LeaveContext, Conclude, Go, Ahead, TypeOK
<1>7. CASE Call(d) \/ DriverStep(d)
  BY <1>3, <1>4, <1>5, <1>6, <1>7, RunPlans DEF Call, DriverStep, Completed, TimesOut
<1>8. CASE WorkerStep \/ UNCHANGED vars
  BY <1>1, <1>8, WorkerFrame DEF vars, drive
<1>9. CASE Crash
  BY <1>0, <1>1, <1>9, CrashFrame DEF Ahead, Over
<1>10. QED
  BY <1>2, <1>7, <1>8, <1>9 DEF Next

-----------------------------------------------------------------------------
(* A stored verdict.                                                       *)

\* Until run() has returned, and unless another kind of call was made on its goal, no
\* verdict is stored, nor in a worker's copy.
Unjudged ==
  \A d \in Runs :
    /\ pc[d] # "returned"
    /\ \A e \in Drivers : G(e) = G(d) /\ KindOf[e] # "run" => pc[e] = "idle"
    => /\ store[G(d)].state \notin Verdicts
       /\ \A w \in Workers : G(w[1]) = G(d) => wcopy[w].state \notin Verdicts

\* Two calls of run() have different goals.
LEMMA RunsDiffer == \A d, e \in Runs : G(d) = G(e) => d = e
  BY GoalAssumption DEF Runs, G

\* The state that a step of run() leaves in the store.
LEMMA RunWrites ==
  ASSUME TInv, RInv, AInv, NEW d \in Runs, Call(d) \/ DriverStep(d)
  PROVE  \/ store'[G(d)] = store[G(d)]
         \/ store'[G(d)].state \notin Verdicts
         \/ pc'[d] = "returned"
<1> USE DEF TInv
<1>0. copy[d] \in GoalData /\ G(d) \in Goals /\ d \in Drivers /\ KindOf[d] = "run"
      /\ DOMAIN copy[d].subs \subseteq Places
  BY GoalAssumption, GoalDataClosed DEF TypeOK, G, Runs
<1>1. ASSUME NEW goal, Write(d, goal), goal.state \notin Verdicts
      PROVE  store'[G(d)].state \notin Verdicts
  BY <1>0, <1>1 DEF Write, TypeOK
<1>2. \A state \in States : With(copy[d], state).state = state
      /\ With(copy[d], state) \in GoalData
      /\ With(copy[d], state).subs = copy[d].subs
  BY <1>0, GoalUpdates, GoalDataClosed
<1>3. ASSUME NEW state \in States, NEW k \in DOMAIN copy[d].subs, NEW status \in Statuses
      PROVE  WithSub(With(copy[d], state), k, status).state = state
  <2> DEFINE goal == With(copy[d], state)
  <2>1. goal \in GoalData /\ goal.state = state /\ k \in DOMAIN goal.subs
    BY <1>2
  <2> HIDE DEF goal
  <2>2. WithSub(goal, k, status).state = state
    BY <2>1, GoalUpdates
  <2>3. QED
    BY <2>2 DEF goal
<1>4. CASE Create(d) \/ BeginPlanning(d) \/ BeginRunning(d)
  BY <1>1, <1>2, <1>4 DEF Create, BeginPlanning, BeginRunning, States, Verdicts
<1>5. CASE Plan(d)
  <2>1. copy[d].state \notin Verdicts
    BY <1>5, <1>0 DEF AInv, Ahead, Plan, Go, Verdicts
  <2>2. PICK n \in Places : Write(d, [copy[d] EXCEPT !.subs = [k \in 1 .. n |-> "pending"]])
    BY <1>5 DEF Plan
  <2>3. [copy[d] EXCEPT !.subs = [k \in 1 .. n |-> "pending"]].state = copy[d].state
    BY <1>0 DEF GoalData
  <2>4. QED
    BY <1>1, <2>1, <2>2, <2>3
<1>6. CASE BeginSubtask(d)
  <2>1. PICK k \in ToRun(d) : Write(d, WithSub(With(copy[d], "running"), k, "running"))
    BY <1>6 DEF BeginSubtask
  <2>2. QED
    BY <1>1, <1>3, <2>1 DEF ToRun, States, Statuses, Verdicts
<1>7. ASSUME NEW status \in {"done", "failed"}, Record(d, status)
      PROVE  store'[G(d)].state \notin Verdicts
  <2>1. pos[d] \in DOMAIN copy[d].subs
    BY <1>0, <1>7 DEF Record, Go, PosInPlan
  <2>2. QED
    BY <1>1, <1>3, <1>7, <2>1 DEF Record, States, Statuses, Verdicts
<1>8. CASE Completed(d) \/ TimesOut(d)
  BY <1>0, <1>7, <1>8 DEF Completed, TimesOut, TypeOK
<1>9. CASE Conclude(d) \/ CancelSaves(d)
  BY <1>0, <1>9 DEF Conclude, CancelSaves, Go, TypeOK
<1>10. CASE PlanRaises(d) \/ ResumeLoads(d) \/ RetryLoads(d) \/ CancelLoads(d)
            \/ Submit(d) \/ LeaveContext(d) \/ RetrySaves(d)
  BY <1>0, <1>10 DEF PlanRaises, ResumeLoads, RetryLoads, CancelLoads, Submit, LeaveContext,
    RetrySaves
<1>11. QED
  BY <1>4, <1>5, <1>6, <1>8, <1>9, <1>10 DEF Call, DriverStep

LEMMA UnjudgedNext == TInv /\ EInv /\ RInv /\ AInv /\ OInv /\ Unjudged /\ [Next]_vars => Unjudged'
<1> SUFFICES ASSUME TInv, EInv, RInv, AInv, OInv, Unjudged, [Next]_vars,
                    NEW d \in Runs, pc'[d] # "returned",
                    \A e \in Drivers : G(e) = G(d) /\ KindOf[e] # "run" => pc'[e] = "idle"
             PROVE  /\ store'[G(d)].state \notin Verdicts
                    /\ \A w \in Workers : G(w[1]) = G(d) => wcopy'[w].state \notin Verdicts
  BY DEF Unjudged, Runs, G
<1> USE DEF TInv
<1>0. d \in Drivers /\ G(d) \in Goals /\ KindOf[d] = "run"
  BY GoalAssumption DEF Runs, G
<1>1. ASSUME pc[d] # "returned",
             \A e \in Drivers : G(e) = G(d) /\ KindOf[e] # "run" => pc[e] = "idle"
      PROVE  /\ store[G(d)].state \notin Verdicts
             /\ \A w \in Workers : G(w[1]) = G(d) => wcopy[w].state \notin Verdicts
  BY <1>1 DEF Unjudged
<1>2. ASSUME NEW c \in Drivers, Call(c) \/ DriverStep(c)
      PROVE  /\ store'[G(d)].state \notin Verdicts
             /\ \A w \in Workers : G(w[1]) = G(d) => wcopy'[w].state \notin Verdicts
  <2>1. /\ \A e \in Drivers \ {c} : pc'[e] = pc[e]
        /\ \A g \in Goals \ {G(c)} : store'[g] = store[g]
        /\ UNCHANGED wcopy /\ pc[c] \notin Over /\ pc'[c] # "idle"
    BY <1>2, StepFrame, StepCounters
  <2>2. \A e \in Drivers : G(e) = G(d) /\ KindOf[e] # "run" => pc[e] = "idle" /\ e # c
    BY <2>1
  <2>3. pc[d] # "returned"
    BY <1>0, <2>1 DEF Over
  <2>4. CASE G(c) # G(d)
    BY <1>0, <1>1, <2>1, <2>2, <2>3, <2>4
  <2>5. CASE G(c) = G(d)
    <3>1. c = d
      BY <2>2, <2>5, RunsDiffer DEF Runs
    <3>2. store'[G(d)] = store[G(d)] \/ store'[G(d)].state \notin Verdicts
      BY <1>2, <3>1, RunWrites
    <3>3. QED
      BY <1>1, <2>1, <2>2, <2>3, <3>2
  <2>6. QED
    BY <2>4, <2>5
<1>3. CASE WorkerStep
  <2>1. UNCHANGED pc
    BY <1>3, WorkerFrame
  <2>2. /\ store[G(d)].state \notin Verdicts
        /\ \A w \in Workers : G(w[1]) = G(d) => wcopy[w].state \notin Verdicts
    BY <1>1, <2>1
  <2>3. NoGoal.state \notin Verdicts
    BY DEF NoGoal, Verdicts
  <2>4. ASSUME NEW g \in Goals, NEW k \in Places, WorkerLoads(g, k)
        PROVE  /\ store'[G(d)].state \notin Verdicts
               /\ \A w \in Workers : G(w[1]) = G(d) => wcopy'[w].state \notin Verdicts
    <3>1. UNCHANGED store
      BY <2>4 DEF WorkerLoads
    <3> DEFINE v == <<jobs[<<g, k>>], k>>
    <3>2. v \in Workers /\ v[1] = jobs[<<g, k>>]
      BY <2>4 DEF WorkerLoads, TypeOK, Workers
    <3>3. wcopy' = [wcopy EXCEPT ![v] = IF k \in DOMAIN store[g].subs THEN store[g] ELSE NoGoal]
      BY <2>4 DEF WorkerLoads
    <3> HIDE DEF v
    <3>4. \A w \in Workers : wcopy'[w] = wcopy[w] \/ (w = v /\ wcopy'[w] \in {store[g], NoGoal})
      BY <3>2, <3>3 DEF TypeOK
    <3>5. G(v[1]) = g
      BY <2>4, <3>2 DEF WorkerLoads, JobsMatch, EInv, v
    <3>6. QED
      BY <2>2, <2>3, <3>1, <3>4, <3>5
  <2>5. ASSUME NEW w \in Workers, NEW status \in {"done", "failed"}, WorkerSaves(w, status)
        PROVE  /\ store'[G(d)].state \notin Verdicts
               /\ \A x \in Workers : G(x[1]) = G(d) => wcopy'[x].state \notin Verdicts
    <3>1. /\ wcopy' = [wcopy EXCEPT ![w] = NoGoal]
          /\ store' = [store EXCEPT ![G(w[1])] = WithSub(wcopy[w], w[2], status)]
      BY <2>5 DEF WorkerSaves
    <3>2. WithSub(wcopy[w], w[2], status).state = wcopy[w].state
      BY DEF WithSub, TypeOK, GoalData
    <3>3. store'[G(d)] = store[G(d)] \/ (G(w[1]) = G(d) /\ store'[G(d)].state = wcopy[w].state)
      BY <1>0, <3>1, <3>2 DEF TypeOK
    <3>4. \A x \in Workers : wcopy'[x] \in {wcopy[x], NoGoal}
      BY <3>1 DEF TypeOK
    <3>5. QED
      BY <2>2, <2>3, <3>3, <3>4
  <2>6. ASSUME NEW w \in Workers, WorkerDies(w) \/ WorkerPublishes(w)
        PROVE  UNCHANGED store /\ \A x \in Workers : wcopy'[x] \in {wcopy[x], NoGoal}
    BY <2>6 DEF WorkerDies, WorkerPublishes, TypeOK
  <2>7. QED
    BY <1>3, <2>2, <2>3, <2>4, <2>5, <2>6 DEF WorkerStep
<1>4. CASE Crash
  <2>1. \A e \in Drivers : pc'[e] = "idle" => pc[e] = "idle"
    BY <1>4, CrashFrame DEF Over
  <2>2. pc[d] # "returned"
    BY <1>0, <1>4, CrashFrame DEF Over
  <2>3. NoGoal.state \notin Verdicts
    BY DEF NoGoal, Verdicts
  <2>4. QED
    BY <1>1, <1>4, <2>1, <2>2, <2>3, CrashFrame
<1>5. CASE UNCHANGED vars
  BY <1>1, <1>5 DEF vars, drive, work
<1>6. QED
  BY <1>2, <1>3, <1>4, <1>5 DEF Next

\* A stored verdict is undone only by a worker that was given up on, or while another
\* call than run() works on the goal, whatever overlaps (GoalCoordinator.transition).
THEOREM VerdictHolds == Spec => VerdictStands
<1> DEFINE All == TInv /\ EInv /\ RInv /\ AInv /\ OInv /\ Unjudged
           Stands == \A g \in Goals :
             store[g].state \in Verdicts /\ store'[g] # store[g] =>
               \/ \E w \in Workers : G(w[1]) = g /\ Overtaken(w) /\ worker[w] # worker'[w]
               \/ \E d \in Drivers : G(d) = g /\ KindOf[d] # "run" /\ pc[d] # "idle"
<1>1. Init => All
  <2>1. Init => RInv
    BY DEF Init, RInv, RunInv
  <2>2. Init => AInv
    BY DEF Init, AInv, Ahead, Runs, NoGoal
  <2>3. ASSUME Init PROVE Unjudged
    <3>1. NoGoal.state \notin Verdicts
      BY DEF NoGoal, Verdicts
    <3>2. \A d \in Drivers : G(d) \in Goals
      BY GoalAssumption DEF G
    <3>3. QED
      BY <2>3, <3>1, <3>2 DEF Init, Unjudged, Runs
  <2>4. QED
    BY <2>1, <2>2, <2>3, InitTyped, InitEarned, InitOnce
<1>2. All /\ [Next]_vars => All'
  BY NextTyped, NextEarned, NextRun, AheadNext, NextOnce, UnjudgedNext
<1>3. All /\ [Next]_vars => Stands
  <2> SUFFICES ASSUME All, [Next]_vars, NEW g \in Goals, store[g].state \in Verdicts,
                      store'[g] # store[g],
                      \A d \in Drivers : G(d) = g /\ KindOf[d] # "run" => pc[d] = "idle"
               PROVE  \E w \in Workers : G(w[1]) = g /\ Overtaken(w) /\ worker[w] # worker'[w]
    OBVIOUS
  <2>1. \A d \in Runs : G(d) = g => pc[d] = "returned"
    BY DEF Unjudged
  <2>2. ASSUME NEW d \in Drivers, Call(d) \/ DriverStep(d) PROVE FALSE
    <3>1. G(d) = g /\ pc[d] \notin Over
      BY <2>2, StepFrame, StepCounters
    <3>2. d \notin Runs
      BY <2>1, <3>1 DEF Over
    <3>3. pc[d] = "idle" /\ Exists(d)
      BY <2>2, <3>1, <3>2, StepCounters DEF Runs
    <3>4. \E e \in Runs : G(e) = g /\ pc[e] # "idle"
      BY <3>1, <3>3 DEF OInv, Born, Exists
    <3>5. CASE Call(d)
      BY <2>2, <3>2, <3>5 DEF Call, Create, RetryLoads, CancelLoads, ResumeLoads, Runs
    <3>6. CASE DriverStep(d)
      BY <3>2, <3>3, <3>6 DEF DriverStep, BeginPlanning, Plan, PlanRaises, BeginRunning,
        RetrySaves, CancelSaves, ResumeLoads, BeginSubtask, Submit, Completed, TimesOut, Record,
        LeaveContext, Conclude, Go
    <3>7. QED
      BY <2>2, <3>5, <3>6
  <2>3. CASE WorkerStep
    <3>1. PICK w \in Workers, status \in {"done", "failed"} : WorkerSaves(w, status)
      BY <2>3 DEF WorkerStep, WorkerLoads, WorkerDies, WorkerPublishes
    <3>2. worker[w] = "running" /\ worker'[w] # worker[w] /\ G(w[1]) = g /\ w[1] \in Drivers
      BY <3>1 DEF WorkerSaves, TInv, TypeOK, Workers
    <3>3. pc[w[1]] # "idle"
      BY <3>2 DEF OInv, Begun
    <3>4. pc[w[1]] = "returned"
      BY <2>1, <3>2, <3>3 DEF Runs
    <3>5. QED
      BY <3>2, <3>4 DEF Overtaken, Over
  <2>4. CASE Crash \/ UNCHANGED vars
    BY <2>4, CrashFrame DEF vars
  <2>5. QED
    BY <2>2, <2>3, <2>4 DEF Next
<1>4. [][Stands]_vars => VerdictStands
  BY PTL DEF VerdictStands
<1>5. QED
  <2> HIDE DEF All, Stands
  <2>1. Spec => [][Stands]_vars
    BY <1>1, <1>2, <1>3, PTL DEF Spec
  <2>2. QED
    BY <2>1, <1>4, PTL
-----------------------------------------------------------------------------
(* Seen from its caller, run() is GoalLifecycle: `phase' is Phase(d) and    *)
(* `results' the statuses of the call's own copy.                          *)

Phase(d) ==
  CASE pc[d] \in {"idle", "created", "planning"} -> "new"
    [] pc[d] \in {"raised", "crashed"} -> "abandoned"
    [] pc[d] = "returned" -> copy[d].state
    [] OTHER -> "working"

\* The actions of GoalLifecycle, in terms of the coordinator.
LEMMA LifeActions ==
  ASSUME NEW d \in Runs
  PROVE  /\ Phase(d) = "new" /\ copy[d].subs = << >> <=> Life(d)!Init
         /\ Phase(d)' = Phase(d) /\ copy'[d].subs = copy[d].subs => UNCHANGED Life(d)!lvars
         /\ /\ Phase(d) \in {"new", "working"} /\ Phase(d)' = "abandoned"
            /\ copy'[d].subs = copy[d].subs
            => Life(d)!Next
<1>1. Phase(d) = "new" /\ copy[d].subs = << >> <=> Life(d)!Init
  BY DEF Life!Init, Phase
<1>2. Phase(d)' = Phase(d) /\ copy'[d].subs = copy[d].subs => UNCHANGED Life(d)!lvars
  BY DEF Life!lvars, Phase
<1>3. /\ Phase(d) \in {"new", "working"} /\ Phase(d)' = "abandoned"
      /\ copy'[d].subs = copy[d].subs
      => Life(d)!Abandon
  BY DEF Life!Abandon, Phase
<1>4. QED
  BY <1>1, <1>2, <1>3 DEF Life!Next

LEMMA LifePlans ==
  ASSUME NEW d \in Runs, Phase(d) = "new", Phase(d)' = "working", copy[d].subs = << >>,
         NEW n \in Places, copy'[d].subs = [k \in 1 .. n |-> "pending"]
  PROVE  Life(d)!Next
<1>1. Life(d)!MakePlan
  BY DEF Life!MakePlan, Phase, Places
<1>2. QED
  BY <1>1 DEF Life!Next

LEMMA LifeTakes ==
  ASSUME NEW d \in Runs, Phase(d) = "working", Phase(d)' = "working",
         NEW k \in DOMAIN copy[d].subs, copy[d].subs[k] = "pending",
         \A m \in 1 .. k - 1 : copy[d].subs[m] \in {"done", "failed"},
         copy'[d].subs = [copy[d].subs EXCEPT ![k] = "running"]
  PROVE  Life(d)!Next
<1>1. Life(d)!Take(k)
  BY DEF Life!Take, Life!Settled, Phase
<1>2. QED
  BY <1>1 DEF Life!Next

LEMMA LifeSettles ==
  ASSUME NEW d \in Runs, Phase(d) = "working", Phase(d)' = "working",
         NEW k \in DOMAIN copy[d].subs, copy[d].subs[k] = "running",
         NEW v \in {"done", "failed"}, copy'[d].subs = [copy[d].subs EXCEPT ![k] = v]
  PROVE  Life(d)!Next
<1>1. Life(d)!Settle(k)
  BY DEF Life!Settle, Phase
<1>2. QED
  BY <1>1 DEF Life!Next

LEMMA LifeJudges ==
  ASSUME NEW d \in Runs, Phase(d) = "working", copy'[d].subs = copy[d].subs,
         \A k \in DOMAIN copy[d].subs : copy[d].subs[k] \in {"done", "failed"},
         Phase(d)' = IF \A k \in DOMAIN copy[d].subs : copy[d].subs[k] = "done"
                     THEN "done" ELSE "failed"
  PROVE  Life(d)!Next
<1>1. Life(d)!Judge
  BY DEF Life!Judge, Life!Settled, Phase
<1>2. QED
  BY <1>1 DEF Life!Next

\* A step of run() before its loop is MakePlan, Abandon or no step of its life.
LEMMA LifeBegins ==
  ASSUME TInv, RInv, AInv, NEW d \in Runs,
         \/ Create(d) \/ BeginPlanning(d) \/ Plan(d) \/ PlanRaises(d) \/ BeginRunning(d)
         \/ ResumeLoads(d) \/ RetryLoads(d) \/ RetrySaves(d) \/ CancelLoads(d) \/ CancelSaves(d)
  PROVE  [Life(d)!Next]_(Life(d)!lvars)
<1> USE DEF TInv
<1>0. /\ d \in Drivers /\ KindOf[d] = "run" /\ RunInv(d) /\ Ahead(d) /\ copy[d] \in GoalData
  BY DEF Runs, RInv, AInv, TypeOK
<1>1. CASE Create(d)
  <2>1. pc[d] = "idle" /\ pc'[d] = "created" /\ copy'[d].subs = << >>
    BY <1>0, <1>1 DEF Create, Write, Go, TypeOK
  <2>2. Phase(d)' = Phase(d) /\ copy'[d].subs = copy[d].subs
    BY <1>0, <2>1 DEF Phase, Ahead
  <2>3. QED
    BY <2>2, LifeActions
<1>2. CASE BeginPlanning(d)
  <2>1. pc[d] = "created" /\ pc'[d] = "planning" /\ copy'[d] = With(copy[d], "planning")
    BY <1>0, <1>2 DEF BeginPlanning, Write, Go, TypeOK
  <2>2. Phase(d)' = Phase(d) /\ copy'[d].subs = copy[d].subs
    BY <1>0, <2>1, SubWritten DEF Phase
  <2>3. QED
    BY <2>2, LifeActions
<1>3. CASE Plan(d)
  <2>1. PICK n \in Places : Write(d, [copy[d] EXCEPT !.subs = [k \in 1 .. n |-> "pending"]])
    BY <1>3 DEF Plan
  <2>2. /\ copy'[d].subs = [k \in 1 .. n |-> "pending"]
        /\ pc[d] = "planning" /\ pc'[d] = "planned"
    BY <1>0, <1>3, <2>1 DEF Plan, Write, Go, TypeOK, GoalData
  <2>3. Phase(d) = "new" /\ Phase(d)' = "working" /\ copy[d].subs = << >>
    BY <1>0, <2>2 DEF Phase, Ahead
  <2>4. QED
    BY <2>2, <2>3, LifePlans
<1>4. CASE PlanRaises(d)
  <2>1. pc[d] = "planning" /\ pc'[d] = "raised" /\ copy'[d].subs = copy[d].subs
    BY <1>0, <1>4 DEF PlanRaises, Go, TypeOK
  <2>2. Phase(d) = "new" /\ Phase(d)' = "abandoned"
    BY <2>1 DEF Phase
  <2>3. QED
    BY <2>1, <2>2, LifeActions
<1>5. CASE BeginRunning(d)
  <2>1. pc[d] = "planned" /\ pc'[d] = "next" /\ copy'[d] = With(copy[d], "running")
    BY <1>0, <1>5 DEF BeginRunning, Write, Go, TypeOK
  <2>2. Phase(d)' = Phase(d) /\ copy'[d].subs = copy[d].subs
    BY <1>0, <2>1, SubWritten DEF Phase
  <2>3. QED
    BY <2>2, LifeActions
<1>6. CASE ResumeLoads(d) \/ RetryLoads(d) \/ RetrySaves(d) \/ CancelLoads(d) \/ CancelSaves(d)
  BY <1>0, <1>6 DEF ResumeLoads, RetryLoads, RetrySaves, CancelLoads, CancelSaves, Go, RunInv
<1>7. QED
  BY <1>1, <1>2, <1>3, <1>4, <1>5, <1>6

\* A step of its loop is Take, Settle, Judge or no step of its life.
LEMMA LifeLoops ==
  ASSUME TInv, RInv, AInv, NEW d \in Runs,
         \/ BeginSubtask(d) \/ Submit(d) \/ Completed(d) \/ TimesOut(d)
         \/ LeaveContext(d) \/ Conclude(d)
  PROVE  [Life(d)!Next]_(Life(d)!lvars)
<1> USE DEF TInv
<1>0. /\ d \in Drivers /\ KindOf[d] = "run" /\ RunInv(d) /\ Ahead(d) /\ copy[d] \in GoalData
  BY DEF Runs, RInv, AInv, TypeOK
<1>1. PICK n \in 0 .. MaxSubs : copy[d].subs \in [1 .. n -> Statuses]
  BY <1>0, GoalDataClosed
<1>2. DOMAIN copy[d].subs = 1 .. n /\ n \in Nat
  BY <1>1, GoalAssumption
<1>3. CASE BeginSubtask(d)
  <2>1. /\ pos[d] \in DOMAIN copy[d].subs /\ pc[d] = "next" /\ pc'[d] = "begun"
        /\ copy'[d].subs = [copy[d].subs EXCEPT ![pos[d]] = "running"]
    BY <1>3, RunTakes
  <2>2. Phase(d) = "working" /\ Phase(d)' = "working"
    BY <2>1 DEF Phase
  <2>3. copy[d].subs[pos[d]] = "pending"
    BY <1>0, <2>1 DEF Ahead
  <2>4. \A m \in 1 .. pos[d] - 1 : m \in 1 .. n /\ m < pos[d]
    BY <1>2, <2>1
  <2>5. \A m \in 1 .. pos[d] - 1 : copy[d].subs[m] \in {"done", "failed"}
    BY <1>0, <1>2, <2>1, <2>4 DEF RunInv, SettledBefore
  <2>6. QED
    BY <2>1, <2>2, <2>3, <2>5, LifeTakes
<1>4. ASSUME NEW status \in {"done", "failed"}, Record(d, status) PROVE Life(d)!Next
  <2>1. /\ pos[d] \in DOMAIN copy[d].subs /\ pc[d] = "waiting" /\ pc'[d] = "next"
        /\ copy'[d].subs = [copy[d].subs EXCEPT ![pos[d]] = status]
    BY <1>0, <1>4, RunRecords
  <2>2. Phase(d) = "working" /\ Phase(d)' = "working" /\ copy[d].subs[pos[d]] = "running"
    BY <1>0, <2>1 DEF Phase, Ahead
  <2>3. QED
    BY <2>1, <2>2, LifeSettles
<1>5. CASE Completed(d) \/ TimesOut(d)
  BY <1>0, <1>4, <1>5 DEF Completed, TimesOut, TypeOK
<1>6. CASE Submit(d) \/ LeaveContext(d)
  <2>1. /\ pc[d] \in {"begun", "next"} /\ pc'[d] \in {"waiting", "finished"}
        /\ copy'[d].subs = copy[d].subs
    BY <1>0, <1>6 DEF Submit, LeaveContext, Go, TypeOK
  <2>2. Phase(d)' = Phase(d)
    BY <2>1 DEF Phase
  <2>3. QED
    BY <2>1, <2>2, LifeActions
<1>7. CASE Conclude(d)
  <2>1. /\ pc[d] = "finished" /\ pc'[d] = "returned"
        /\ copy'[d] = With(copy[d], Verdict(copy[d]))
    BY <1>0, <1>7 DEF Conclude, Write, Go, TypeOK
  <2>2. copy'[d].state = Verdict(copy[d]) /\ copy'[d].subs = copy[d].subs
    BY <1>0, <2>1, SubWritten
  <2>3. \A k \in DOMAIN copy[d].subs : copy[d].subs[k] \in {"done", "failed"}
    BY <1>0, <2>1 DEF RunInv
  <2>4. Verdict(copy[d]) = IF \A k \in DOMAIN copy[d].subs : copy[d].subs[k] = "done"
                           THEN "done" ELSE "failed"
    BY <2>3 DEF Verdict
  <2>5. Phase(d) = "working" /\ Phase(d)' = Verdict(copy[d])
    BY <2>1, <2>2 DEF Phase
  <2>6. QED
    BY <2>2, <2>3, <2>4, <2>5, LifeJudges
<1>8. QED
  BY <1>3, <1>5, <1>6, <1>7

\* Every step of the coordinator maps to a step of the life of each run(), or to none.
LEMMA LifeNext ==
  ASSUME TInv, RInv, AInv, [Next]_vars, NEW d \in Runs
  PROVE  [Life(d)!Next]_(Life(d)!lvars)
<1>0. d \in Drivers
  BY DEF Runs
<1>1. CASE pc'[d] = pc[d] /\ copy'[d] = copy[d]
  <2>1. Phase(d)' = Phase(d) /\ copy'[d].subs = copy[d].subs
    BY <1>1 DEF Phase
  <2>2. QED
    BY <2>1, LifeActions
<1>2. ASSUME NEW c \in Drivers, Call(c) \/ DriverStep(c), c # d
      PROVE  [Life(d)!Next]_(Life(d)!lvars)
  BY <1>0, <1>1, <1>2, StepFrame
<1>3. CASE Call(d) \/ DriverStep(d)
  BY <1>3, LifeBegins, LifeLoops DEF Call, DriverStep
<1>4. CASE WorkerStep \/ UNCHANGED vars
  BY <1>1, <1>4, WorkerFrame DEF vars, drive
<1>5. CASE Crash
  <2>1. CASE pc[d] \in {"idle"} \cup Over
    BY <1>0, <1>1, <1>5, <2>1, CrashFrame
  <2>2. CASE pc[d] \notin {"idle"} \cup Over
    <3>1. pc'[d] = "crashed" /\ copy'[d].subs = copy[d].subs
      BY <1>0, <1>5, <2>2, CrashFrame
    <3>2. Phase(d)' = "abandoned" /\ Phase(d) \in {"new", "working"}
      BY <2>2, <3>1 DEF Phase, Over
    <3>3. QED
      BY <3>1, <3>2, LifeActions
  <2>3. QED
    BY <2>1, <2>2
<1>6. QED
  BY <1>2, <1>3, <1>4, <1>5 DEF Next

\* Each run() implements the abstract life of a goal: the plan is fixed once, subtasks
\* are taken in order and settled once, and the verdict is given when all are settled,
\* whatever other calls, late workers and restarts do meanwhile.
THEOREM RunsImplement == Spec => RunsKeepTheirPromise
<1> DEFINE All == TInv /\ EInv /\ RInv /\ AInv
           Steps == \A d \in Runs : [Life(d)!Next]_(Life(d)!lvars)
           Begins == \A d \in Runs : Life(d)!Init
<1>1. Init => All /\ Begins
  <2>1. Init => RInv
    BY DEF Init, RInv, RunInv
  <2>2. Init => AInv
    BY DEF Init, AInv, Ahead, Runs, NoGoal
  <2>3. ASSUME Init, NEW d \in Runs PROVE Phase(d) = "new" /\ copy[d].subs = << >>
    BY <2>3 DEF Init, Runs, Phase, NoGoal
  <2>4. QED
    BY <2>1, <2>2, <2>3, InitTyped, InitEarned, LifeActions
<1>2. All /\ [Next]_vars => All'
  BY NextTyped, NextEarned, NextRun, AheadNext
<1>3. All /\ [Next]_vars => Steps
  BY LifeNext
<1>4. Begins /\ [][Steps]_vars => RunsKeepTheirPromise
  BY DEF RunsKeepTheirPromise
<1>5. QED
  <2> HIDE DEF All, Steps, Begins
  <2>1. Spec => Begins /\ [][Steps]_vars
    BY <1>1, <1>2, <1>3, PTL DEF Spec
  <2>2. QED
    BY <2>1, <1>4
-----------------------------------------------------------------------------
(* A call that waits.                                                      *)

\* The scheduler is not stopped under a call: the host has started it and it runs until
\* the process dies (api.py), or one goal is worked on by one call at a time (cli.py).
Hosted ==
  \/ PreStarted
  \/ ~Overlap /\ \A d, e \in Drivers : GoalOf[d] = GoalOf[e]

SchedulerUp ==
  /\ PreStarted => sched /\ \A d \in Drivers : ~own[d]
  /\ \A d \in Drivers : pc[d] \in {"next", "begun", "waiting"} => sched

\* Who waits without an answer has a job, or a worker that has it or has died with it.
Answerable ==
  \A d \in Drivers :
    pc[d] = "waiting" /\ payload[d] = "none" =>
      \/ jobs[<<G(d), pos[d]>>] # Nobody
      \/ \E e \in Drivers : /\ G(e) = G(d)
                            /\ worker[<<e, pos[d]>>] \in {"running", "missing", "saved", "dead"}

LEMMA SchedulerUpNext ==
  ASSUME Hosted, TInv, OInv, SchedulerUp, [Next]_vars
  PROVE  SchedulerUp'
<1> USE DEF TInv
<1>1. ASSUME NEW d \in Drivers, Call(d) \/ DriverStep(d) PROVE SchedulerUp'
  <2>1. \A e \in Drivers \ {d} : pc'[e] = pc[e] /\ own'[e] = own[e]
    BY <1>1, StepFrame
  <2>2. CASE EnterContext(d)
    BY <2>1, <2>2 DEF SchedulerUp, EnterContext, TypeOK
  <2>3. CASE LeaveContext(d)
    <3>1. pc'[d] = "finished" /\ sched' = (sched /\ ~own[d]) /\ own' = own /\ pc[d] = "next"
      BY <2>3 DEF LeaveContext, Go, TypeOK
    <3>2. CASE PreStarted
      BY <2>1, <3>1, <3>2 DEF SchedulerUp
    <3>3. CASE ~PreStarted
      <4>1. ~Overlap /\ \A e \in Drivers : G(e) = G(d)
        BY <3>3 DEF Hosted, G
      <4>2. \A e \in Drivers \ {d} : pc[e] \in {"idle"} \cup Over
        BY <3>1, <4>1 DEF OInv, Exclusive, Active, Over
      <4>3. \A e \in Drivers : pc'[e] \notin {"next", "begun", "waiting"}
        BY <2>1, <3>1, <4>2 DEF Over
      <4>4. QED
        BY <3>3, <4>3 DEF SchedulerUp
    <3>4. QED
      BY <3>2, <3>3
  <2>4. CASE \/ Create(d) \/ BeginPlanning(d) \/ Plan(d) \/ PlanRaises(d)
             \/ RetryLoads(d) \/ RetrySaves(d) \/ CancelLoads(d) \/ CancelSaves(d)
             \/ Conclude(d)
    <3>1. /\ pc'[d] \in {"created", "planning", "planned", "raised", "loaded", "retried",
                         "returned"}
          /\ UNCHANGED <<own, sched>>
      BY <2>4 DEF Create, BeginPlanning, Plan, PlanRaises, RetryLoads, RetrySaves, CancelLoads,
        CancelSaves, Conclude, Go, TypeOK
    <3>2. QED
      BY <2>1, <3>1 DEF SchedulerUp
  <2>5. CASE BeginSubtask(d) \/ Submit(d) \/ Completed(d) \/ TimesOut(d)
    <3>1. pc[d] \in {"next", "begun", "waiting"} /\ UNCHANGED <<own, sched>>
      BY <2>5 DEF BeginSubtask, Submit, Completed, TimesOut, Record, Go
    <3>2. QED
      BY <2>1, <3>1 DEF SchedulerUp
  <2>6. QED
    BY <1>1, <2>2, <2>3, <2>4, <2>5 DEF Call, DriverStep, BeginRunning, ResumeLoads
<1>2. CASE WorkerStep \/ UNCHANGED vars
  BY <1>2, WorkerFrame DEF SchedulerUp, vars, drive
<1>3. CASE Crash
  <2>1. \A d \in Drivers : pc'[d] \notin {"next", "begun", "waiting"}
    BY <1>3, CrashFrame DEF Over
  <2>2. sched' = PreStarted /\ \A d \in Drivers : ~own'[d]
    BY <1>3 DEF Crash
  <2>3. QED
    BY <2>1, <2>2 DEF SchedulerUp
<1>4. QED
  BY <1>1, <1>2, <1>3 DEF Next

LEMMA AnswerableNext ==
  ASSUME TInv, EInv, Answerable, [Next]_vars
  PROVE  Answerable'
<1> SUFFICES ASSUME NEW d \in Drivers, pc'[d] = "waiting", payload'[d] = "none"
             PROVE  \/ jobs'[<<G(d), pos'[d]>>] # Nobody
                    \/ \E e \in Drivers :
                         /\ G(e) = G(d)
                         /\ worker'[<<e, pos'[d]>>] \in {"running", "missing", "saved", "dead"}
  BY DEF Answerable, G
<1> USE DEF TInv
<1> DEFINE Has == {"running", "missing", "saved", "dead"}
           j == <<G(d), pos[d]>>
<1>0. G(d) \in Goals /\ \A k \in Places, e \in Drivers : <<e, k>> \in Workers
  BY GoalAssumption DEF G, Workers
<1>a. ASSUME pc[d] = "waiting", payload[d] = "none"
      PROVE  \/ jobs[j] # Nobody
             \/ \E e \in Drivers : G(e) = G(d) /\ worker[<<e, pos[d]>>] \in Has
  BY <1>a DEF Answerable
<1>b. pc[d] \in {"begun", "waiting"} => pos[d] \in Places /\ j \in Goals \X Places
  BY <1>0, GoalDataClosed DEF PosInPlan, TypeOK
<1>1. ASSUME NEW c \in Drivers, Call(c) \/ DriverStep(c), c # d
      PROVE  \/ jobs'[j] # Nobody
             \/ \E e \in Drivers : G(e) = G(d) /\ worker'[<<e, pos[d]>>] \in Has
  <2>1. pc'[d] = pc[d] /\ payload'[d] = payload[d] /\ UNCHANGED worker
    BY <1>1, StepFrame
  <2>2. jobs' = jobs \/ jobs' = [jobs EXCEPT ![<<G(c), pos[c]>>] = c]
    BY <1>1, StepCounters
  <2>3. jobs[j] # Nobody => jobs'[j] # Nobody
    BY <1>b, <2>1, <2>2, GoalAssumption DEF TypeOK
  <2>4. QED
    BY <1>a, <2>1, <2>3
<1>2. CASE Call(d) \/ DriverStep(d)
  <2>1. CASE Submit(d)
    <3>1. jobs' = [jobs EXCEPT ![j] = d] /\ pos' = pos /\ pc[d] = "begun"
      BY <2>1 DEF Submit, Go
    <3>2. QED
      BY <1>b, <3>1, GoalAssumption DEF TypeOK
  <2>2. ~Submit(d) => pc'[d] # "waiting"
    BY <1>2 DEF Call, DriverStep, Create, BeginPlanning, Plan, PlanRaises,
      BeginRunning, ResumeLoads, RetryLoads, RetrySaves, CancelLoads,
      CancelSaves, BeginSubtask, Completed, TimesOut, Record, LeaveContext,
      Conclude, Go, TypeOK
  <2>3. QED
    BY <2>1, <2>2
<1>3. ASSUME NEW g \in Goals, NEW k \in Places, WorkerLoads(g, k)
      PROVE  \/ jobs'[j] # Nobody
             \/ \E e \in Drivers : G(e) = G(d) /\ worker'[<<e, pos[d]>>] \in Has
  <2> DEFINE x == jobs[<<g, k>>]
  <2>1. /\ x \in Drivers /\ G(x) = g /\ UNCHANGED <<pc, payload>>
        /\ jobs' = [jobs EXCEPT ![<<g, k>>] = Nobody]
        /\ worker' = [worker EXCEPT ![<<x, k>>] =
                        IF k \in DOMAIN store[g].subs THEN "running" ELSE "missing"]
    BY <1>3 DEF WorkerLoads, drive, TypeOK, EInv, JobsMatch
  <2>2. worker'[<<x, k>>] \in Has
    BY <1>0, <2>1 DEF TypeOK
  <2>3. \A w \in Workers : worker[w] \in Has => worker'[w] \in Has
    BY <2>1 DEF TypeOK
  <2>4. pos[d] \in Places /\ j \in Goals \X Places
    BY <1>b, <2>1
  <2>5. CASE j = <<g, k>>
    BY <2>1, <2>2, <2>5
  <2>6. CASE j # <<g, k>>
    BY <1>0, <1>a, <2>1, <2>3, <2>4, <2>6 DEF TypeOK
  <2>7. QED
    BY <2>5, <2>6
<1>4. ASSUME NEW w \in Workers,
             WorkerDies(w) \/ \E status \in {"done", "failed"} : WorkerSaves(w, status)
      PROVE  \/ jobs'[j] # Nobody
             \/ \E e \in Drivers : G(e) = G(d) /\ worker'[<<e, pos[d]>>] \in Has
  <2>1. /\ UNCHANGED <<pc, payload, jobs>>
        /\ worker' = [worker EXCEPT ![w] = "dead"] \/ worker' = [worker EXCEPT ![w] = "saved"]
    BY <1>4 DEF WorkerDies, WorkerSaves, drive
  <2>2. \A v \in Workers : worker[v] \in Has => worker'[v] \in Has
    BY <2>1 DEF TypeOK
  <2>3. pos[d] \in Places
    BY <1>b, <2>1
  <2>4. QED
    BY <1>0, <1>a, <2>1, <2>2, <2>3
<1>5. ASSUME NEW w \in Workers, WorkerPublishes(w)
      PROVE  \/ jobs'[j] # Nobody
             \/ \E e \in Drivers : G(e) = G(d) /\ worker'[<<e, pos[d]>>] \in Has
  <2>1. /\ UNCHANGED <<pc, jobs>> /\ w[1] \in Drivers /\ w[2] \in Places /\ w = <<w[1], w[2]>>
        /\ worker' = [worker EXCEPT ![w] = "over"]
        /\ payload'[d] = IF pc[d] = "waiting" /\ G(d) = G(w[1]) /\ pos[d] = w[2]
                         THEN outcome[w] ELSE payload[d]
    BY <1>5 DEF WorkerPublishes, Workers
  <2>2. outcome[w] # "none"
    BY DEF TypeOK
  <2>3. payload[d] = "none" /\ ~(G(d) = G(w[1]) /\ pos[d] = w[2])
    BY <2>1, <2>2
  <2>4. pos[d] \in Places
    BY <1>b, <2>1
  <2>5. \A e \in Drivers : G(e) = G(d) => <<e, pos[d]>> # w
    BY <2>1, <2>3
  <2>6. \A e \in Drivers : G(e) = G(d) => worker'[<<e, pos[d]>>] = worker[<<e, pos[d]>>]
    BY <1>0, <2>1, <2>4, <2>5 DEF TypeOK
  <2>7. QED
    BY <1>a, <2>1, <2>3, <2>6
<1>6. CASE Crash
  BY <1>6, CrashFrame DEF Over
<1>7. CASE UNCHANGED vars
  BY <1>7, <1>a DEF vars, drive, work
<1>8. ASSUME NEW c \in Drivers, Call(c) \/ DriverStep(c), c # d PROVE pos'[d] = pos[d]
  BY <1>8, StepFrame
<1>9. WorkerStep => UNCHANGED pos
  BY WorkerFrame
<1>10. QED
  BY <1>1, <1>2, <1>3, <1>4, <1>5, <1>6, <1>7, <1>8, <1>9 DEF Next, WorkerStep

\* A call that waits has an event to wait for, or a worker that died with it, wherever
\* the host keeps the scheduler running or makes one call at a time on one goal.
THEOREM NoneStranded == Hosted => (Spec => []NeverStranded)
<1> DEFINE All == TInv /\ EInv /\ OInv /\ SchedulerUp /\ Answerable
<1> SUFFICES ASSUME Hosted PROVE Spec => []NeverStranded
  OBVIOUS
<1>1. Init => All
  <2>1. Init => SchedulerUp /\ Answerable
    BY DEF Init, SchedulerUp, Answerable
  <2>2. QED
    BY <2>1, InitTyped, InitEarned, InitOnce
<1>2. All /\ [Next]_vars => All'
  BY NextTyped, NextEarned, NextOnce, SchedulerUpNext, AnswerableNext
<1>3. All => NeverStranded
  BY DEF NeverStranded, SchedulerUp, Answerable
<1>4. QED
  <2> HIDE DEF All
  <2> QED
    BY <1>1, <1>2, <1>3, PTL DEF Spec
-----------------------------------------------------------------------------
(* The worker a call waits for.                                            *)

\* No call has timed out on the goal, and where calls may overlap only one was made.
Orderly(g) ==
  /\ \A d \in late : G(d) # g
  /\ \A d, e \in Drivers : G(d) = g /\ G(e) = g /\ d # e /\ Overlap =>
       pc[d] = "idle" \/ pc[e] = "idle"

Waits(d, k) == pc[d] = "waiting" /\ pos[d] = k /\ payload[d] = "none"
Busy == {"running", "missing", "saved"}

\* On an orderly goal a call waits for each of its workers and jobs: for one of them.
Attended ==
  \A d \in Drivers, k \in Places : Orderly(G(d)) =>
    /\ worker[<<d, k>>] \in Busy => Waits(d, k) /\ jobs[<<G(d), k>>] = Nobody
    /\ jobs[<<G(d), k>>] = d => Waits(d, k)

\* One call at a time works on an orderly goal.
LEMMA OrderlyOne ==
  ASSUME OInv, NEW g \in Goals, Orderly(g), NEW d \in Drivers, NEW e \in Drivers,
         G(d) = g, G(e) = g, Active(d), Active(e)
  PROVE  d = e
  BY DEF OInv, Exclusive, Orderly, Active

\* A goal that is orderly after a step was so before.
LEMMA OrderlyBefore ==
  ASSUME TInv, [Next]_vars, NEW g \in Goals, Orderly(g)'
  PROVE  Orderly(g)
<1>1. late \subseteq late'
  <2>1. ASSUME NEW d \in Drivers, Call(d) \/ DriverStep(d) PROVE late \subseteq late'
    BY <2>1, StepCounters
  <2>2. QED
    BY <2>1, WorkerFrame, CrashFrame DEF Next, vars
<1>2. \A d \in Drivers : pc'[d] = "idle" => pc[d] = "idle"
  <2>1. ASSUME NEW d \in Drivers, Call(d) \/ DriverStep(d)
        PROVE  \A e \in Drivers : pc'[e] = "idle" => pc[e] = "idle"
    BY <2>1, StepFrame, StepCounters
  <2>2. Crash => \A d \in Drivers : pc'[d] = "idle" => pc[d] = "idle"
    BY CrashFrame DEF Over
  <2>3. QED
    BY <2>1, <2>2, WorkerFrame DEF Next, vars, drive
<1>3. QED
  BY <1>1, <1>2 DEF Orderly, G

LEMMA AttendedNext == TInv /\ EInv /\ OInv /\ Attended /\ [Next]_vars => Attended'
<1> SUFFICES ASSUME TInv, EInv, OInv, Attended, [Next]_vars, NEW d \in Drivers, NEW k \in Places,
                    Orderly(G(d))'
             PROVE  /\ worker'[<<d, k>>] \in Busy => Waits(d, k)' /\ jobs'[<<G(d), k>>] = Nobody
                    /\ jobs'[<<G(d), k>>] = d => Waits(d, k)'
  BY DEF Attended, G, Busy
<1> USE DEF TInv
<1> DEFINE w == <<d, k>>
           j == <<G(d), k>>
<1>0. w \in Workers /\ j \in Goals \X Places /\ d # Nobody /\ G(d) \in Goals
  BY GoalAssumption DEF Workers, G
<1>a. Orderly(G(d))
  BY <1>0, OrderlyBefore DEF G
<1>b. /\ worker[w] \in Busy => Waits(d, k) /\ jobs[j] = Nobody
      /\ jobs[j] = d => Waits(d, k)
  BY <1>a DEF Attended
<1>1. CASE Call(d) \/ DriverStep(d)
  <2>1. UNCHANGED worker
    BY <1>1, StepFrame
  <2>2. CASE Waits(d, k)
    <3>1. pc[d] = "waiting" /\ payload[d] = "none"
      BY <2>2 DEF Waits
    <3>2. TimesOut(d)
      BY <1>1, <3>1 DEF Call, DriverStep, Create, BeginPlanning, Plan, PlanRaises,
        BeginRunning, ResumeLoads, RetryLoads, RetrySaves, CancelLoads, CancelSaves,
        BeginSubtask, Submit, Completed, LeaveContext, Conclude, Go
    <3>3. d \in late'
      BY <3>2 DEF TimesOut
    <3>4. QED
      BY <3>3 DEF Orderly, G
  <2>3. CASE ~Waits(d, k)
    <3>1. worker'[w] \notin Busy /\ jobs[j] # d
      BY <1>b, <2>1, <2>3
    <3>2. ASSUME jobs'[j] = d PROVE Waits(d, k)'
      <4>1. jobs' # jobs
        BY <3>1, <3>2
      <4>2. Submit(d)
        BY <1>1, <4>1 DEF Call, DriverStep, Create, BeginPlanning, Plan, PlanRaises,
          BeginRunning, ResumeLoads, RetryLoads, RetrySaves, CancelLoads,
          CancelSaves, BeginSubtask, Completed, TimesOut, Record, LeaveContext, Conclude
      <4>3. /\ pc[d] = "begun" /\ pc'[d] = "waiting" /\ UNCHANGED <<pos, payload>>
            /\ jobs' = [jobs EXCEPT ![<<G(d), pos[d]>>] = d]
        BY <4>2 DEF Submit, Go, TypeOK
      <4>4. payload[d] = "none"
        BY <4>3 DEF EInv, PayloadEarned
      <4>5. pos[d] = k
        BY <1>0, <3>1, <3>2, <4>3 DEF TypeOK
      <4>6. QED
        BY <4>3, <4>4, <4>5 DEF Waits
    <3>3. QED
      BY <3>1, <3>2
  <2>4. QED
    BY <2>2, <2>3
<1>2. ASSUME NEW c \in Drivers, Call(c) \/ DriverStep(c), c # d
      PROVE  /\ worker'[w] \in Busy => Waits(d, k)' /\ jobs'[j] = Nobody
             /\ jobs'[j] = d => Waits(d, k)'
  <2>1. UNCHANGED worker /\ pc'[d] = pc[d] /\ pos'[d] = pos[d] /\ payload'[d] = payload[d]
    BY <1>2, StepFrame
  <2>2. Waits(d, k) => Waits(d, k)'
    BY <2>1 DEF Waits
  <2>3. \/ jobs' = jobs
        \/ pc[c] = "begun" /\ jobs' = [jobs EXCEPT ![<<G(c), pos[c]>>] = c]
    BY <1>2, StepCounters
  <2>4. jobs'[j] = jobs[j] \/ (pc[c] = "begun" /\ G(c) = G(d) /\ jobs'[j] = c)
    BY <1>0, <2>3 DEF TypeOK
  <2>5. ASSUME pc[c] = "begun", G(c) = G(d), Waits(d, k) PROVE FALSE
    <3>1. Active(c) /\ Active(d)
      BY <2>5 DEF Waits, Active, Over
    <3>2. QED
      BY <1>0, <1>2, <1>a, <2>5, <3>1, OrderlyOne
  <2>6. QED
    BY <1>2, <1>b, <2>1, <2>2, <2>4, <2>5
<1>3. ASSUME NEW h \in Goals, NEW l \in Places, WorkerLoads(h, l)
      PROVE  /\ worker'[w] \in Busy => Waits(d, k)' /\ jobs'[j] = Nobody
             /\ jobs'[j] = d => Waits(d, k)'
  <2> DEFINE x == jobs[<<h, l>>]
  <2>1. /\ x \in Drivers /\ G(x) = h /\ UNCHANGED <<pc, pos, payload>>
        /\ jobs' = [jobs EXCEPT ![<<h, l>>] = Nobody]
        /\ worker'[w] = worker[w] \/ w = <<x, l>>
    BY <1>0, <1>3 DEF WorkerLoads, drive, TypeOK, EInv, JobsMatch
  <2>2. Waits(d, k)' <=> Waits(d, k)
    BY <2>1 DEF Waits
  <2>3. jobs'[j] \in {jobs[j], Nobody} /\ (j = <<h, l>> => jobs'[j] = Nobody)
    BY <1>0, <2>1 DEF TypeOK
  <2>4. w = <<x, l>> => j = <<h, l>> /\ jobs[j] = d
    BY <2>1
  <2>5. QED
    BY <1>0, <1>b, <2>1, <2>2, <2>3, <2>4
<1>4. ASSUME NEW v \in Workers,
             WorkerDies(v) \/ \E status \in {"done", "failed"} : WorkerSaves(v, status)
      PROVE  /\ worker'[w] \in Busy => Waits(d, k)' /\ jobs'[j] = Nobody
             /\ jobs'[j] = d => Waits(d, k)'
  <2>1. /\ UNCHANGED <<pc, pos, payload, jobs>> /\ worker[v] \in Busy
        /\ worker'[w] = worker[w] \/ w = v
    BY <1>0, <1>4 DEF WorkerDies, WorkerSaves, drive, TypeOK, Busy
  <2>2. Waits(d, k)' <=> Waits(d, k)
    BY <2>1 DEF Waits
  <2>3. QED
    BY <1>b, <2>1, <2>2
<1>5. ASSUME NEW v \in Workers, WorkerPublishes(v)
      PROVE  /\ worker'[w] \in Busy => Waits(d, k)' /\ jobs'[j] = Nobody
             /\ jobs'[j] = d => Waits(d, k)'
  <2>0. PICK x \in Drivers, l \in Places : v = <<x, l>>
    BY DEF Workers
  <2>1. /\ UNCHANGED <<pc, pos, jobs>> /\ worker[<<x, l>>] \in Busy
        /\ worker'[<<x, l>>] \notin Busy
        /\ w # <<x, l>> => worker'[w] = worker[w]
        /\ payload'[d] = IF pc[d] = "waiting" /\ G(d) = G(x) /\ pos[d] = l
                         THEN outcome[v] ELSE payload[d]
    BY <1>0, <1>5, <2>0 DEF WorkerPublishes, TypeOK, Busy
  <2>2. CASE payload'[d] = payload[d] \/ ~Waits(d, k)
    <3>1. Waits(d, k) => Waits(d, k)'
      BY <2>1, <2>2 DEF Waits
    <3>2. QED
      BY <1>b, <2>1, <3>1
  <2>3. CASE payload'[d] # payload[d] /\ Waits(d, k)
    <3>1. G(d) = G(x) /\ k = l
      BY <2>1, <2>3 DEF Waits
    <3>2. Waits(x, l) /\ jobs[<<G(x), l>>] = Nobody
      BY <1>a, <2>1, <3>1 DEF Attended
    <3>3. Active(d) /\ Active(x)
      BY <2>3, <3>2 DEF Waits, Active, Over
    <3>4. x = d
      BY <1>0, <1>a, <3>1, <3>3, OrderlyOne
    <3>5. QED
      BY <1>0, <2>1, <3>1, <3>2, <3>4
  <2>4. QED
    BY <2>2, <2>3
<1>6. CASE Crash
  BY <1>0, <1>6, CrashFrame DEF Busy
<1>7. CASE UNCHANGED vars
  <2>1. Waits(d, k)' <=> Waits(d, k)
    BY <1>7 DEF Waits, vars, drive
  <2>2. QED
    BY <1>7, <1>b, <2>1 DEF vars, work
<1>8. QED
  BY <1>1, <1>2, <1>3, <1>4, <1>5, <1>6, <1>7 DEF Next, WorkerStep

LEMMA InitAttended == Init => Attended
<1> SUFFICES ASSUME Init, NEW d \in Drivers, NEW k \in Places
             PROVE  worker[<<d, k>>] \notin Busy /\ jobs[<<G(d), k>>] # d
  BY DEF Attended
<1>1. <<d, k>> \in Workers /\ <<G(d), k>> \in Goals \X Places /\ d # Nobody
  BY GoalAssumption DEF Workers, G
<1>2. worker[<<d, k>>] = "none" /\ jobs[<<G(d), k>>] = Nobody
  BY <1>1 DEF Init
<1>3. QED
  BY <1>1, <1>2 DEF Busy

\* Where calls on a goal follow one another, no two of its agents work at the same time,
\* as long as no call on it has timed out: not those of two calls either, and through
\* restarts (_execute_subtask, _subtask_job).
THEOREM SequentialHolds == Spec => []SequentialUnlessLate
<1> DEFINE All == TInv /\ EInv /\ OInv /\ Attended
<1>1. Init => All
  BY InitTyped, InitEarned, InitOnce, InitAttended
<1>2. All /\ [Next]_vars => All'
  BY NextTyped, NextEarned, NextOnce, AttendedNext
<1>3. All => SequentialUnlessLate
  <2> SUFFICES ASSUME All, NEW g \in Goals, ~Overlap, \A d \in late : G(d) # g,
                      NEW v \in AtWork(g), NEW w \in AtWork(g)
               PROVE  v = w
    BY DEF SequentialUnlessLate
  <2>1. Orderly(g)
    BY DEF Orderly
  <2>2. ASSUME NEW x \in AtWork(g)
        PROVE  /\ x[1] \in Drivers /\ x = <<x[1], x[2]>> /\ G(x[1]) = g
               /\ Waits(x[1], x[2]) /\ Active(x[1])
    <3>1. /\ x[1] \in Drivers /\ x[2] \in Places /\ x = <<x[1], x[2]>>
          /\ G(x[1]) = g /\ worker[<<x[1], x[2]>>] \in Busy
      BY DEF AtWork, Workers, Busy
    <3>2. Waits(x[1], x[2])
      BY <2>1, <3>1 DEF Attended
    <3>3. QED
      BY <3>1, <3>2 DEF Waits, Active, Over
  <2>3. v[1] = w[1]
    BY <2>1, <2>2, OrderlyOne
  <2>4. v[2] = w[2]
    BY <2>2, <2>3 DEF Waits
  <2>5. QED
    BY <2>2, <2>3, <2>4
<1>4. QED
  <2> HIDE DEF All
  <2> QED
    BY <1>1, <1>2, <1>3, PTL DEF Spec

-----------------------------------------------------------------------------
(* Driver and worker write one goal from two copies.                       *)

\* Two goal objects differ in the subtasks of S at most.
Alike(a, b, S) ==
  /\ a.state = b.state
  /\ DOMAIN a.subs = DOMAIN b.subs
  /\ \A k \in DOMAIN a.subs : k \notin S => a.subs[k] = b.subs[k]

\* The subtask whose worker may have written more than the driver knows.
Held(d) == IF pc[d] = "waiting" THEN {pos[d]} ELSE {}

\* On an orderly goal the store and the worker hold what the driver knows, but for the
\* subtask it waits for.
InStep ==
  \A d \in Drivers : Orderly(G(d)) =>
    /\ Active(d) /\ pc[d] # "loaded" => Alike(store[G(d)], copy[d], Held(d))
    /\ \A k \in Places : worker[<<d, k>>] = "running" =>
         Alike(wcopy[<<d, k>>], copy[d], {k})
    /\ pc[d] = "returned" /\ (\A e \in Drivers : G(e) = G(d) /\ e # d => pc[e] = "idle") =>
         Alike(store[G(d)], copy[d], {})

\* A step of a call writes its whole copy, loads it, or leaves both alone.
LEMMA StepStores ==
  ASSUME TInv, NEW d \in Drivers, Call(d) \/ DriverStep(d)
  PROVE  \/ store'[G(d)] = copy'[d]
         \/ pc'[d] \in {"loaded", "raised"}
         \/ /\ UNCHANGED <<store, copy, pos>>
            /\ pc[d] \in {"begun", "next"} /\ pc'[d] \in {"waiting", "finished"}
<1> USE DEF TInv
<1>0. G(d) \in Goals
  BY GoalAssumption DEF G
<1>1. CASE Create(d) \/ BeginPlanning(d) \/ PlanRaises(d) \/ BeginRunning(d)
  BY <1>0, <1>1 DEF Create, BeginPlanning, PlanRaises, BeginRunning, Write, Go, TypeOK
<1>2. CASE Plan(d)
  <2>1. PICK goal : Write(d, goal)
    BY <1>2 DEF Plan
  <2>2. QED
    BY <1>0, <2>1 DEF Write, TypeOK
<1>3. CASE ResumeLoads(d) \/ RetryLoads(d) \/ RetrySaves(d) \/ CancelLoads(d) \/ CancelSaves(d)
  BY <1>0, <1>3
  DEF ResumeLoads, RetryLoads, RetrySaves, CancelLoads, CancelSaves, Write, Go, TypeOK
<1>4. CASE BeginSubtask(d) \/ Submit(d) \/ Completed(d) \/ TimesOut(d)
           \/ LeaveContext(d) \/ Conclude(d)
  BY <1>0, <1>4
  DEF BeginSubtask, Submit, Completed, TimesOut, Record, LeaveContext, Conclude, Write, Go,
      TypeOK
<1>5. QED
  BY <1>1, <1>2, <1>3, <1>4 DEF Call, DriverStep

\* A call that waits for a worker only takes a step by giving it up.
LEMMA WaitingTimesOut ==
  ASSUME NEW d \in Drivers, Call(d) \/ DriverStep(d), pc[d] = "waiting", payload[d] = "none"
  PROVE  d \in late'
<1>1. TimesOut(d)
  BY DEF Call, DriverStep, Create, BeginPlanning, Plan, PlanRaises, BeginRunning, ResumeLoads,
    RetryLoads, RetrySaves, CancelLoads, CancelSaves, BeginSubtask, Submit, Completed,
    LeaveContext, Conclude, Go
<1>2. QED
  BY <1>1 DEF TimesOut

\* No other call of an orderly goal takes a step while one works on it.
LEMMA OthersRest ==
  ASSUME TInv, OInv, NEW c \in Drivers, Call(c) \/ DriverStep(c), NEW d \in Drivers,
         c # d, G(c) = G(d), Active(d), Orderly(G(d))'
  PROVE  FALSE
<1>1. G(d) \in Goals
  BY GoalAssumption DEF G
<1>2. Orderly(G(d))
  BY <1>1, OrderlyBefore DEF Next, G
<1>3. /\ pc[c] \notin Over /\ pc'[c] # "idle" /\ pc'[d] = pc[d]
      /\ pc[c] = "idle" => Overlap \/ Undisturbed(c)
  BY StepFrame, StepCounters
<1>4. CASE pc[c] = "idle"
  BY <1>3, <1>4 DEF Undisturbed, Active, Orderly, G
<1>5. CASE pc[c] # "idle"
  BY <1>1, <1>2, <1>3, <1>5, OrderlyOne DEF Active
<1>6. QED
  BY <1>4, <1>5

LEMMA InStepNext ==
  TInv /\ EInv /\ OInv /\ Attended /\ InStep /\ [Next]_vars => InStep'
<1> SUFFICES ASSUME TInv, EInv, OInv, Attended, InStep, [Next]_vars, NEW d \in Drivers,
                    Orderly(G(d))'
             PROVE  /\ Active(d)' /\ pc'[d] # "loaded" => Alike(store'[G(d)], copy'[d], Held(d)')
                    /\ \A k \in Places : worker'[<<d, k>>] = "running" =>
                         Alike(wcopy'[<<d, k>>], copy'[d], {k})
                    /\ pc'[d] = "returned"
                       /\ (\A e \in Drivers : G(e) = G(d) /\ e # d => pc'[e] = "idle") =>
                         Alike(store'[G(d)], copy'[d], {})
  BY DEF InStep, Alike, G
<1> USE DEF TInv
<1> DEFINE Rest == \A e \in Drivers : G(e) = G(d) /\ e # d => pc[e] = "idle"
<1>0. d # Nobody /\ G(d) \in Goals /\ \A k \in Places : <<d, k>> \in Workers
  BY GoalAssumption DEF Workers, G
<1>a. Orderly(G(d))
  BY <1>0, OrderlyBefore DEF G
<1>b. /\ Active(d) /\ pc[d] # "loaded" => Alike(store[G(d)], copy[d], Held(d))
      /\ \A k \in Places : worker[<<d, k>>] = "running" => Alike(wcopy[<<d, k>>], copy[d], {k})
      /\ pc[d] = "returned" /\ Rest => Alike(store[G(d)], copy[d], {})
  BY <1>a DEF InStep
<1>c. \A k \in Places : worker[<<d, k>>] = "running" => Waits(d, k)
  BY <1>a DEF Attended, Busy
<1>1. CASE Call(d) \/ DriverStep(d)
  <2>1. \A k \in Places : worker'[<<d, k>>] # "running"
    <3>1. UNCHANGED worker
      BY <1>1, StepFrame
    <3>2. \A k \in Places : ~Waits(d, k)
      BY <1>1, WaitingTimesOut DEF Waits, Orderly, G
    <3>3. QED
      BY <1>c, <3>1, <3>2
  <2>2. CASE store'[G(d)] = copy'[d]
    BY <2>1, <2>2 DEF Alike
  <2>3. CASE pc'[d] \in {"loaded", "raised"}
    BY <2>1, <2>3 DEF Active, Over
  <2>4. CASE /\ UNCHANGED <<store, copy, pos>>
             /\ pc[d] \in {"begun", "next"} /\ pc'[d] \in {"waiting", "finished"}
    <3>1. Alike(store[G(d)], copy[d], {})
      BY <1>b, <2>4 DEF Active, Over, Held
    <3>2. QED
      BY <2>1, <2>4, <3>1 DEF Alike
  <2>5. QED
    BY <1>1, <2>2, <2>3, <2>4, StepStores
<1>2. ASSUME NEW c \in Drivers, Call(c) \/ DriverStep(c), c # d
      PROVE  /\ Active(d)' /\ pc'[d] # "loaded" => Alike(store'[G(d)], copy'[d], Held(d)')
             /\ \A k \in Places : worker'[<<d, k>>] = "running" =>
                  Alike(wcopy'[<<d, k>>], copy'[d], {k})
             /\ pc'[d] = "returned"
                /\ (\A e \in Drivers : G(e) = G(d) /\ e # d => pc'[e] = "idle") =>
                  Alike(store'[G(d)], copy'[d], {})
  <2>1. /\ UNCHANGED <<worker, wcopy>>
        /\ pc'[d] = pc[d] /\ pos'[d] = pos[d] /\ copy'[d] = copy[d]
        /\ G(c) # G(d) => store'[G(d)] = store[G(d)]
        /\ pc'[c] # "idle"
        /\ \A e \in Drivers : pc'[e] = "idle" => pc[e] = "idle"
    BY <1>0, <1>2, StepFrame, StepCounters
  <2>2. \A k \in Places : worker'[<<d, k>>] = "running" => Alike(wcopy'[<<d, k>>], copy'[d], {k})
    BY <1>b, <2>1
  <2>3. CASE G(c) = G(d)
    <3>1. ~Active(d)
      BY <1>2, <2>3, OthersRest
    <3>2. QED
      BY <1>2, <2>1, <2>2, <2>3, <3>1 DEF Active
  <2>4. CASE G(c) # G(d)
    <3>1. Held(d)' = Held(d) /\ (Active(d)' <=> Active(d))
      BY <2>1 DEF Held, Active
    <3>2. QED
      BY <1>b, <2>1, <2>2, <2>4, <3>1
  <2>5. QED
    BY <2>3, <2>4
<1>3. ASSUME WorkerStep, UNCHANGED store
      PROVE  /\ Active(d)' /\ pc'[d] # "loaded" => Alike(store'[G(d)], copy'[d], Held(d)')
             /\ pc'[d] = "returned"
                /\ (\A e \in Drivers : G(e) = G(d) /\ e # d => pc'[e] = "idle") =>
                  Alike(store'[G(d)], copy'[d], {})
  <2>1. UNCHANGED <<pc, copy, pos>>
    BY <1>3, WorkerFrame
  <2>2. Held(d)' = Held(d) /\ (Active(d)' <=> Active(d))
    BY <2>1 DEF Held, Active
  <2>3. QED
    BY <1>3, <1>b, <2>1, <2>2
<1>4. ASSUME NEW h \in Goals, NEW l \in Places, WorkerLoads(h, l)
      PROVE  \A k \in Places : worker'[<<d, k>>] = "running" => Alike(wcopy'[<<d, k>>], copy'[d], {k})
  <2> DEFINE x == jobs[<<h, l>>]
  <2>1. /\ x \in Drivers /\ G(x) = h /\ UNCHANGED <<store, pc, copy>>
        /\ \A k \in Places : <<d, k>> # <<x, l>> =>
             worker'[<<d, k>>] = worker[<<d, k>>] /\ wcopy'[<<d, k>>] = wcopy[<<d, k>>]
        /\ x = d => wcopy'[<<d, l>>] \in {store[h], NoGoal}
        /\ x = d /\ worker'[<<d, l>>] = "running" => wcopy'[<<d, l>>] = store[h]
    BY <1>0, <1>4 DEF WorkerLoads, drive, TypeOK, EInv, JobsMatch
  <2>2. ASSUME x = d, worker'[<<d, l>>] = "running"
        PROVE  Alike(wcopy'[<<d, l>>], copy'[d], {l})
    <3>1. Waits(d, l)
      BY <1>a, <2>1, <2>2 DEF Attended
    <3>2. Alike(store[G(d)], copy[d], {l})
      BY <1>b, <3>1 DEF Waits, Active, Over, Held
    <3>3. QED
      BY <2>1, <2>2, <3>2
  <2>3. QED
    BY <1>b, <2>1, <2>2
<1>5. ASSUME NEW v \in Workers, NEW status \in {"done", "failed"}, WorkerSaves(v, status)
      PROVE  /\ Active(d)' /\ pc'[d] # "loaded" => Alike(store'[G(d)], copy'[d], Held(d)')
             /\ \A k \in Places : worker'[<<d, k>>] = "running" =>
                  Alike(wcopy'[<<d, k>>], copy'[d], {k})
             /\ pc'[d] = "returned"
                /\ (\A e \in Drivers : G(e) = G(d) /\ e # d => pc'[e] = "idle") =>
                  Alike(store'[G(d)], copy'[d], {})
  <2>0. PICK x \in Drivers, l \in Places : v = <<x, l>>
    BY DEF Workers
  <2>1. /\ UNCHANGED <<pc, copy, pos>> /\ worker[<<x, l>>] = "running"
        /\ store' = [store EXCEPT ![G(x)] = WithSub(wcopy[<<x, l>>], l, status)]
        /\ \A k \in Places : worker'[<<d, k>>] = "running" =>
             worker[<<d, k>>] = "running" /\ wcopy'[<<d, k>>] = wcopy[<<d, k>>]
    BY <1>0, <1>5, <2>0 DEF WorkerSaves, drive, TypeOK
  <2>2. Held(d)' = Held(d) /\ (Active(d)' <=> Active(d))
    BY <2>1 DEF Held, Active
  <2>3. \A k \in Places : worker'[<<d, k>>] = "running" => Alike(wcopy'[<<d, k>>], copy'[d], {k})
    BY <1>b, <2>1
  <2>4. CASE G(x) # G(d)
    <3>1. store'[G(d)] = store[G(d)]
      BY <1>0, <2>1, <2>4 DEF TypeOK
    <3>2. QED
      BY <1>b, <2>1, <2>2, <2>3, <3>1
  <2>5. CASE G(x) = G(d)
    <3>1. Waits(x, l)
      BY <1>a, <2>1, <2>5 DEF Attended, Busy
    <3>2. Active(x) /\ pc[x] # "idle"
      BY <3>1 DEF Waits, Active, Over
    <3>3. CASE Active(d)
      <4>1. x = d
        BY <1>0, <1>a, <2>5, <3>2, <3>3, OrderlyOne
      <4>2. Held(d)' = {l} /\ pc[d] # "returned"
        BY <2>2, <3>1, <4>1 DEF Waits, Held
      <4>3. Alike(wcopy[<<d, l>>], copy[d], {l})
        BY <1>b, <2>1, <4>1
      <4>4. store'[G(d)] = WithSub(wcopy[<<d, l>>], l, status)
        BY <1>0, <2>1, <4>1 DEF TypeOK
      <4>5. wcopy[<<d, l>>] \in GoalData
        BY <1>0 DEF TypeOK
      <4>6. Alike(WithSub(wcopy[<<d, l>>], l, status), copy[d], {l})
        BY <4>3, <4>5 DEF Alike, WithSub, GoalData
      <4>7. QED
        BY <2>1, <2>3, <4>2, <4>4, <4>6
    <3>4. CASE ~Active(d)
      BY <2>1, <2>2, <2>3, <2>5, <3>2, <3>4
    <3>5. QED
      BY <3>3, <3>4
  <2>6. QED
    BY <2>4, <2>5
<1>6. ASSUME NEW v \in Workers, WorkerDies(v) \/ WorkerPublishes(v)
      PROVE  /\ UNCHANGED store
             /\ \A k \in Places : worker'[<<d, k>>] = "running" =>
                  Alike(wcopy'[<<d, k>>], copy'[d], {k})
  <2>1. /\ UNCHANGED <<store, copy>>
        /\ \A k \in Places : worker'[<<d, k>>] = "running" =>
             worker[<<d, k>>] = "running" /\ wcopy'[<<d, k>>] = wcopy[<<d, k>>]
    BY <1>0, <1>6 DEF WorkerDies, WorkerPublishes, drive, TypeOK
  <2>2. QED
    BY <1>b, <2>1
<1>7. CASE Crash
  <2>1. ~Active(d)' /\ \A k \in Places : worker'[<<d, k>>] # "running"
    BY <1>0, <1>7, CrashFrame DEF Active, Over
  <2>2. /\ UNCHANGED <<store, copy>>
        /\ \A e \in Drivers : pc'[e] = "idle" => pc[e] = "idle"
        /\ pc'[d] = "returned" => pc[d] = "returned"
    BY <1>7, CrashFrame DEF Over
  <2>3. QED
    BY <1>b, <2>1, <2>2
<1>8. CASE UNCHANGED vars
  <2>1. Held(d)' = Held(d) /\ (Active(d)' <=> Active(d)) /\ UNCHANGED <<store, pc, copy, worker, wcopy>>
    BY <1>8 DEF Held, Active, vars, drive, work
  <2>2. QED
    BY <1>b, <2>1
<1>9. ASSUME NEW h \in Goals, NEW l \in Places, WorkerLoads(h, l) PROVE UNCHANGED store
  BY <1>9 DEF WorkerLoads
<1>10. CASE WorkerStep
  <2>1. CASE \E h \in Goals, l \in Places : WorkerLoads(h, l)
    BY <1>3, <1>4, <1>9, <1>10, <2>1
  <2>2. CASE \E v \in Workers, status \in {"done", "failed"} : WorkerSaves(v, status)
    BY <1>5, <2>2
  <2>3. CASE \E v \in Workers : WorkerDies(v) \/ WorkerPublishes(v)
    BY <1>3, <1>6, <1>10, <2>3
  <2>4. QED
    BY <1>10, <2>1, <2>2, <2>3 DEF WorkerStep
<1>11. QED
  BY <1>1, <1>2, <1>7, <1>8, <1>10 DEF Next

LEMMA InitInStep == Init => InStep
<1> SUFFICES ASSUME Init, NEW d \in Drivers
             PROVE  pc[d] = "idle" /\ \A k \in Places : worker[<<d, k>>] # "running"
  BY DEF InStep, Active
<1>1. \A k \in Places : <<d, k>> \in Workers
  BY DEF Workers
<1>2. QED
  BY <1>1 DEF Init

\* Driver and worker write the same goal from two copies; as long as the driver is alone
\* and has waited for each worker, the store holds what the driver knows.
THEOREM StoreKept == Spec => []StoreInStep
<1> DEFINE All == TInv /\ EInv /\ OInv /\ Attended /\ InStep
<1>1. Init => All
  BY InitTyped, InitEarned, InitOnce, InitAttended, InitInStep
<1>2. All /\ [Next]_vars => All'
  BY NextTyped, NextEarned, NextOnce, AttendedNext, InStepNext
<1>3. All => StoreInStep
  <2> SUFFICES ASSUME All, NEW d \in Drivers, Alone(d),
                      pc[d] \notin {"idle", "loaded", "raised", "crashed"}
               PROVE  Alike(store[G(d)], copy[d], Held(d))
    BY DEF StoreInStep, Alike, Held
  <2>1. Orderly(G(d))
    BY DEF Alone, Orderly
  <2>2. CASE pc[d] = "returned"
    <3>1. Alike(store[G(d)], copy[d], {})
      BY <2>1, <2>2 DEF InStep, Alone, Over
    <3>2. QED
      BY <2>2, <3>1 DEF Held
  <2>3. CASE pc[d] # "returned"
    BY <2>1, <2>3 DEF InStep, Active, Over
  <2>4. QED
    BY <2>2, <2>3
<1>4. QED
  <2> HIDE DEF All
  <2> QED
    BY <1>1, <1>2, <1>3, PTL DEF Spec
-----------------------------------------------------------------------------
(* The verdict of resume() and retry().  As long as calls follow one another and nothing *)
(* cuts one short, no subtask is left "running" when a call ends; so the next one finds  *)
(* each subtask pending or with a result, and its loop passes over none but those done.  *)

Unbroken == ~Overlap /\ crashes = 0 /\ late = {}

Follows(d) == KindOf[d] \in {"resume", "retry"}

\* Between calls no subtask of a goal is in progress.
StoreQuiet ==
  \A g \in Goals : (\A d \in Drivers : G(d) = g => ~Active(d)) =>
    \A k \in DOMAIN store[g].subs : store[g].subs[k] # "running"

\* In a call only the subtask of its loop is in progress, and those before it have a
\* result.
CallQuiet(d) ==
  /\ pc[d] \in {"idle", "created", "planning", "planned", "loaded", "retried"} => pos[d] = 1
  /\ Active(d) => \A k \in DOMAIN copy[d].subs :
       copy[d].subs[k] = "running" => k = pos[d] /\ pc[d] \in {"begun", "waiting"}
  /\ Follows(d) =>
       /\ Active(d) => SettledBefore(copy[d], pos[d])
       /\ pc[d] = "finished" =>
            \A k \in DOMAIN copy[d].subs : copy[d].subs[k] \in {"done", "failed"}
       /\ Says(d, "done") => \A k \in DOMAIN copy[d].subs : copy[d].subs[k] = "done"

Quiet == Unbroken => StoreQuiet /\ \A d \in Drivers : CallQuiet(d)

LEMMA SettledBeforeFirst ==
  ASSUME NEW goal \in GoalData PROVE SettledBefore(goal, 1)
  BY GoalDataClosed, GoalAssumption DEF SettledBefore, Places

\* All goals are orderly then.
LEMMA UnbrokenOrderly == Unbroken => \A g \in Goals : Orderly(g)
  BY DEF Unbroken, Orderly

\* A call that loads its goal finds no subtask in progress.
LEMMA LoadsQuiet ==
  ASSUME TInv, OInv, InStep, Unbroken, Quiet, NEW d \in Drivers, Call(d) \/ DriverStep(d),
         pc[d] \in {"idle", "retried"}
  PROVE  \A k \in DOMAIN store[G(d)].subs : store[G(d)].subs[k] # "running"
<1>0. G(d) \in Goals
  BY GoalAssumption DEF G
<1>1. CASE pc[d] = "idle"
  <2>1. Undisturbed(d)
    BY <1>1, StepCounters DEF Unbroken
  <2>2. \A e \in Drivers : G(e) = G(d) => ~Active(e)
    BY <1>1, <2>1 DEF Undisturbed, Active
  <2>3. QED
    BY <1>0, <2>2 DEF Quiet, StoreQuiet
<1>2. CASE pc[d] = "retried"
  <2>1. Active(d) /\ Held(d) = {}
    BY <1>2 DEF Active, Over, Held
  <2>2. Alike(store[G(d)], copy[d], {})
    BY <1>0, <1>2, <2>1, UnbrokenOrderly DEF InStep
  <2>3. \A k \in DOMAIN copy[d].subs : copy[d].subs[k] # "running"
    BY <1>2, <2>1 DEF Quiet, CallQuiet
  <2>4. QED
    BY <2>2, <2>3 DEF Alike
<1>3. QED
  BY <1>1, <1>2

\* The step of a call before its loop.
LEMMA CallQuietBegins ==
  ASSUME TInv, OInv, InStep, Unbroken, Quiet, NEW d \in Drivers, Call(d) \/ DriverStep(d), TInv',
         \/ Create(d) \/ BeginPlanning(d) \/ Plan(d) \/ PlanRaises(d) \/ BeginRunning(d)
         \/ ResumeLoads(d) \/ RetryLoads(d) \/ RetrySaves(d) \/ CancelLoads(d) \/ CancelSaves(d)
  PROVE  CallQuiet(d)'
<1> USE DEF TInv
<1>0. CallQuiet(d) /\ copy[d] \in GoalData /\ copy'[d] \in GoalData /\ G(d) \in Goals
      /\ store[G(d)] \in GoalData
  BY GoalAssumption DEF Quiet, TypeOK, G
<1>1. /\ pc'[d] \in {"created", "planning", "planned", "loaded", "retried", "next"}
           => pc[d] \in {"idle", "created", "planning", "planned", "loaded", "retried"}
      /\ pc'[d] \in {"created", "planning", "planned", "loaded", "retried", "next", "raised",
                    "returned"}
      /\ pc'[d] = "returned" => KindOf[d] = "cancel"
      /\ UNCHANGED pos
  BY DEF Create, BeginPlanning, Plan, PlanRaises, BeginRunning, ResumeLoads, RetryLoads,
    RetrySaves, CancelLoads, CancelSaves, Go, TypeOK
<1>2. CASE pc'[d] \in {"raised", "returned"}
  BY <1>1, <1>2 DEF CallQuiet, Follows, Active, Over, Says
<1>3. CASE pc'[d] \notin {"raised", "returned"}
  <2>1. pos'[d] = 1 /\ pc'[d] # "finished" /\ SettledBefore(copy'[d], 1)
    BY <1>0, <1>1, <1>3, SettledBeforeFirst DEF CallQuiet
  <2> SUFFICES ASSUME NEW k \in DOMAIN copy'[d].subs PROVE copy'[d].subs[k] # "running"
    BY <1>3, <2>1 DEF CallQuiet, Says, SettledBefore
  <2>2. CASE Create(d)
    BY <1>0, <2>2 DEF Create, Write, TypeOK
  <2>3. CASE BeginPlanning(d) \/ BeginRunning(d)
    <3>1. \E state : copy'[d] = With(copy[d], state)
      BY <2>3 DEF BeginPlanning, BeginRunning, Write, TypeOK
    <3>2. copy'[d].subs = copy[d].subs
      BY <1>0, <3>1, SubWritten
    <3>3. Active(d) /\ pc[d] \notin {"begun", "waiting"}
      BY <2>3 DEF BeginPlanning, BeginRunning, Go, Active, Over
    <3>4. QED
      BY <1>0, <3>2, <3>3 DEF CallQuiet
  <2>4. CASE Plan(d)
    <3>1. PICK n \in Places : Write(d, [copy[d] EXCEPT !.subs = [m \in 1 .. n |-> "pending"]])
      BY <2>4 DEF Plan
    <3>2. copy'[d].subs = [m \in 1 .. n |-> "pending"]
      BY <1>0, <3>1 DEF Write, TypeOK, GoalData
    <3>3. QED
      BY <3>2
  <2>5. CASE ResumeLoads(d) \/ CancelLoads(d)
    <3>1. copy'[d] = store[G(d)] /\ pc[d] \in {"idle", "retried"}
      BY <2>5 DEF ResumeLoads, CancelLoads, Go, TypeOK
    <3>2. QED
      BY <3>1, LoadsQuiet
  <2>6. CASE RetryLoads(d)
    <3> DEFINE goal == store[G(d)]
    <3>1. /\ pc[d] = "idle"
          /\ copy'[d] = [goal EXCEPT !.subs = [m \in DOMAIN goal.subs |->
               IF goal.subs[m] = "failed" THEN "pending" ELSE goal.subs[m]]]
      BY <2>6 DEF RetryLoads, Go, TypeOK
    <3>2. copy'[d].subs = [m \in DOMAIN goal.subs |->
            IF goal.subs[m] = "failed" THEN "pending" ELSE goal.subs[m]]
      BY <1>0, <3>1 DEF GoalData
    <3>3. QED
      BY <3>1, <3>2, LoadsQuiet
  <2>7. CASE RetrySaves(d)
    <3>1. copy'[d] = copy[d] /\ pc[d] = "loaded"
      BY <2>7 DEF RetrySaves, Write, Go, TypeOK
    <3>2. QED
      BY <1>0, <3>1 DEF CallQuiet, Active, Over
  <2>8. QED
    BY <1>3, <2>2, <2>3, <2>4, <2>5, <2>6, <2>7 DEF PlanRaises, CancelSaves, Go, TypeOK
<1>4. QED
  BY <1>2, <1>3

\* The step of a call in its loop.
LEMMA CallQuietLoops ==
  ASSUME TInv, Unbroken, Quiet, NEW d \in Drivers,
         \/ BeginSubtask(d) \/ Submit(d) \/ Completed(d) \/ TimesOut(d)
         \/ LeaveContext(d) \/ Conclude(d)
  PROVE  CallQuiet(d)'
<1> USE DEF TInv
<1>0. CallQuiet(d) /\ copy[d] \in GoalData /\ pos[d] \in Nat
  BY GoalAssumption DEF Quiet, TypeOK
<1>1. PICK n \in 0 .. MaxSubs : copy[d].subs \in [1 .. n -> Statuses]
  BY <1>0, GoalDataClosed
<1>2. DOMAIN copy[d].subs = 1 .. n /\ n \in Nat
  BY <1>1, GoalAssumption
<1>3. CASE BeginSubtask(d)
  <2>1. PICK k \in ToRun(d) : /\ \A m \in ToRun(d) : k <= m
                             /\ pos' = [pos EXCEPT ![d] = k]
                             /\ Write(d, WithSub(With(copy[d], "running"), k, "running"))
    BY <1>3 DEF BeginSubtask
  <2>2. pc[d] = "next" /\ pc'[d] = "begun" /\ pos'[d] = k /\ Active(d)
    BY <1>3, <2>1 DEF BeginSubtask, Go, Active, Over, TypeOK
  <2>3. copy'[d].subs = [copy[d].subs EXCEPT ![k] = "running"]
    <3>1. copy'[d] = WithSub(With(copy[d], "running"), k, "running")
      BY <2>1 DEF Write, TypeOK
    <3>2. QED
      BY <1>0, <3>1 DEF With, WithSub, GoalData
  <2>4. k \in 1 .. n /\ k >= pos[d]
    BY <1>2, <2>1 DEF ToRun
  <2>5. \A m \in 1 .. n : copy[d].subs[m] # "running"
    BY <1>0, <1>2, <2>2 DEF CallQuiet
  <2>6. ASSUME Follows(d) PROVE SettledBefore(copy'[d], k)
    <3> SUFFICES ASSUME NEW m \in 1 .. n, m < k PROVE copy'[d].subs[m] \in {"done", "failed"}
      BY <1>2, <2>3 DEF SettledBefore
    <3>1. copy'[d].subs[m] = copy[d].subs[m] /\ copy[d].subs[m] \in Statuses
      BY <1>1, <2>3, <2>4
    <3>2. CASE m < pos[d]
      BY <1>0, <1>2, <2>2, <2>6, <3>1, <3>2 DEF CallQuiet, SettledBefore
    <3>3. CASE m >= pos[d]
      <4>1. m \notin ToRun(d)
        BY <2>1, <2>4
      <4>2. copy[d].subs[m] \notin {"pending", "failed"}
        BY <1>2, <2>6, <3>3, <4>1 DEF ToRun, Follows
      <4>3. QED
        BY <2>5, <3>1, <4>2 DEF Statuses
    <3>4. QED
      BY <1>0, <3>2, <3>3
  <2>7. QED
    BY <1>1, <2>2, <2>3, <2>5, <2>6 DEF CallQuiet, Active, Says
<1>4. CASE Submit(d)
  BY <1>0, <1>4 DEF Submit, Go, CallQuiet, Active, Over, Says, SettledBefore, TypeOK
<1>5. ASSUME NEW status \in {"done", "failed"}, Record(d, status)
      PROVE  CallQuiet(d)'
  <2>1. /\ pos[d] \in 1 .. n /\ pos'[d] = pos[d] + 1
        /\ pc[d] = "waiting" /\ pc'[d] = "next"
        /\ copy'[d].subs = [copy[d].subs EXCEPT ![pos[d]] = status]
    BY <1>2, <1>5, RunRecords
  <2>2. \A m \in 1 .. n : copy'[d].subs[m] = IF m = pos[d] THEN status ELSE copy[d].subs[m]
    BY <1>1, <2>1
  <2>3. DOMAIN copy'[d].subs = 1 .. n /\ Active(d)
    BY <1>2, <2>1 DEF Active, Over
  <2>4. \A m \in 1 .. n : copy'[d].subs[m] # "running"
    BY <1>0, <1>2, <2>2, <2>3 DEF CallQuiet
  <2>5. Follows(d) => SettledBefore(copy'[d], pos[d] + 1)
    BY <1>0, <1>2, <2>2, <2>3 DEF CallQuiet, SettledBefore
  <2>6. QED
    BY <2>1, <2>3, <2>4, <2>5 DEF CallQuiet, Says, SettledBefore
<1>6. CASE Completed(d) \/ TimesOut(d)
  BY <1>5, <1>6 DEF Completed, TimesOut, TypeOK
<1>7. CASE LeaveContext(d)
  <2>1. /\ pc[d] = "next" /\ pc'[d] = "finished" /\ UNCHANGED <<copy, pos>> /\ ToRun(d) = {}
        /\ Active(d)
    BY <1>7 DEF LeaveContext, Go, Active, Over, TypeOK
  <2>2. \A m \in 1 .. n : copy[d].subs[m] # "running"
    BY <1>0, <1>2, <2>1 DEF CallQuiet
  <2>3. ASSUME Follows(d), NEW m \in 1 .. n PROVE copy[d].subs[m] \in {"done", "failed"}
    <3>1. CASE m < pos[d]
      BY <1>0, <1>2, <2>1, <2>3, <3>1 DEF CallQuiet, SettledBefore
    <3>2. CASE m >= pos[d]
      <4>1. copy[d].subs[m] \notin {"pending", "failed"}
        BY <1>2, <2>1, <2>3, <3>2 DEF ToRun, Follows
      <4>2. QED
        BY <1>1, <2>2, <4>1 DEF Statuses
    <3>3. QED
      BY <1>0, <3>1, <3>2
  <2>4. QED
    BY <1>2, <2>1, <2>2, <2>3 DEF CallQuiet, Says, SettledBefore
<1>8. CASE Conclude(d)
  <2>1. /\ pc[d] = "finished" /\ pc'[d] = "returned"
        /\ copy'[d] = With(copy[d], Verdict(copy[d]))
    BY <1>8 DEF Conclude, Write, Go, TypeOK
  <2>2. copy'[d].state = Verdict(copy[d]) /\ copy'[d].subs = copy[d].subs
    BY <1>0, <2>1, SubWritten
  <2>3. Follows(d) => \A m \in 1 .. n : copy[d].subs[m] \in {"done", "failed"}
    BY <1>0, <1>2, <2>1 DEF CallQuiet
  <2>4. Verdict(copy[d]) = "done" => \A m \in 1 .. n : copy[d].subs[m] # "failed"
    BY <1>2 DEF Verdict
  <2>5. QED
    BY <1>2, <2>1, <2>2, <2>3, <2>4 DEF CallQuiet, Active, Over, Says
<1>9. QED
  BY <1>3, <1>4, <1>6, <1>7, <1>8

\* A call that ends leaves no subtask of its goal in progress.
LEMMA CallEndsQuiet ==
  ASSUME TInv, InStep, Unbroken, Quiet, NEW d \in Drivers, Call(d) \/ DriverStep(d),
         ~Active(d)'
  PROVE  \A k \in DOMAIN store'[G(d)].subs : store'[G(d)].subs[k] # "running"
<1> USE DEF TInv
<1>0. CallQuiet(d) /\ copy[d] \in GoalData /\ G(d) \in Goals
  BY GoalAssumption DEF Quiet, TypeOK, G
<1>1. PlanRaises(d) \/ CancelSaves(d) \/ Conclude(d)
  BY DEF Call, DriverStep, Create, BeginPlanning, Plan, BeginRunning, ResumeLoads, RetryLoads,
    RetrySaves, CancelLoads, BeginSubtask, Submit, Completed, TimesOut, Record, LeaveContext,
    Go, Active, Over, TypeOK
<1>2. pc[d] \in {"planning", "loaded", "finished"} /\ Active(d)
  BY <1>1 DEF PlanRaises, CancelSaves, Conclude, Go, Active, Over
<1>3. \A k \in DOMAIN copy[d].subs : copy[d].subs[k] # "running"
  BY <1>0, <1>2 DEF CallQuiet
<1>4. CASE PlanRaises(d)
  <2>1. pc[d] = "planning" /\ store'[G(d)] = store[G(d)]
    BY <1>4 DEF PlanRaises, Go
  <2>2. Alike(store[G(d)], copy[d], {})
    BY <1>0, <1>2, <2>1, UnbrokenOrderly DEF InStep, Held
  <2>3. QED
    BY <1>3, <2>1, <2>2 DEF Alike
<1>5. CASE CancelSaves(d) \/ Conclude(d)
  <2>1. \E state : store'[G(d)] = With(copy[d], state)
    BY <1>0, <1>5 DEF CancelSaves, Conclude, Write, TypeOK
  <2>2. store'[G(d)].subs = copy[d].subs
    BY <1>0, <2>1, SubWritten
  <2>3. QED
    BY <1>3, <2>2
<1>6. QED
  BY <1>1, <1>4, <1>5

LEMMA QuietNext ==
  TInv /\ OInv /\ Attended /\ InStep /\ Quiet /\ [Next]_vars => Quiet'
<1> SUFFICES ASSUME TInv, OInv, Attended, InStep, Quiet, [Next]_vars, Unbroken'
             PROVE  StoreQuiet' /\ \A d \in Drivers : CallQuiet(d)'
  BY DEF Quiet, Says, G
<1> USE DEF TInv
<1>1. CASE UNCHANGED vars
  BY <1>1 DEF vars, drive, work, Quiet, Unbroken, StoreQuiet, CallQuiet, Active, SettledBefore,
    Says, Follows, G
<1>2. ASSUME NEW c \in Drivers, Call(c) \/ DriverStep(c)
      PROVE  StoreQuiet' /\ \A d \in Drivers : CallQuiet(d)'
  <2>0. Unbroken
    BY <1>2, StepFrame, StepCounters DEF Unbroken
  <2>1. /\ \A d \in Drivers \ {c} : pc'[d] = pc[d] /\ copy'[d] = copy[d] /\ pos'[d] = pos[d]
        /\ \A g \in Goals \ {G(c)} : store'[g] = store[g]
    BY <1>2, StepFrame
  <2>2. CallQuiet(c)'
    BY <1>2, <2>0, NextTyped, CallQuietBegins, CallQuietLoops DEF Call, DriverStep, Next
  <2>3. ASSUME NEW d \in Drivers \ {c} PROVE CallQuiet(d)'
    BY <2>0, <2>1 DEF Quiet, CallQuiet, Active, SettledBefore, Says, Follows
  <2>4. StoreQuiet'
    <3> SUFFICES ASSUME NEW g \in Goals, \A d \in Drivers : G(d) = g => ~Active(d)'
                 PROVE  \A k \in DOMAIN store'[g].subs : store'[g].subs[k] # "running"
      BY DEF StoreQuiet, G
    <3>1. CASE g = G(c)
      BY <1>2, <2>0, <3>1, CallEndsQuiet
    <3>2. CASE g # G(c)
      <4>1. \A d \in Drivers : G(d) = g => ~Active(d)
        BY <2>1, <3>2 DEF Active
      <4>2. QED
        BY <2>0, <2>1, <3>2, <4>1 DEF Quiet, StoreQuiet
    <3>3. QED
      BY <3>1, <3>2
  <2>5. QED
    BY <2>2, <2>3, <2>4
<1>3. CASE WorkerStep
  <2>1. UNCHANGED <<pc, copy, pos, crashes, late>>
    BY <1>3, WorkerFrame
  <2>2. Unbroken
    BY <2>1 DEF Unbroken
  <2>3. \A d \in Drivers : CallQuiet(d)'
    BY <2>1, <2>2 DEF Quiet, CallQuiet, Active, SettledBefore, Says, Follows
  <2>4. StoreQuiet'
    <3> SUFFICES ASSUME NEW g \in Goals, \A d \in Drivers : G(d) = g => ~Active(d)'
                 PROVE  \A k \in DOMAIN store'[g].subs : store'[g].subs[k] # "running"
      BY DEF StoreQuiet, G
    <3>1. \A d \in Drivers : G(d) = g => ~Active(d)
      BY <2>1 DEF Active
    <3>2. store'[g] = store[g]
      <4>1. ASSUME NEW v \in Workers, NEW status \in {"done", "failed"}, WorkerSaves(v, status)
            PROVE  store'[g] = store[g]
        <5>1. PICK x \in Drivers, l \in Places : v = <<x, l>>
          BY DEF Workers
        <5>2. worker[<<x, l>>] = "running" /\ (G(x) # g => store'[g] = store[g])
          BY <4>1, <5>1 DEF WorkerSaves, TypeOK
        <5>3. Orderly(G(x))
          BY <2>2, GoalAssumption, UnbrokenOrderly DEF G
        <5>4. Active(x)
          BY <5>2, <5>3 DEF Attended, Busy, Waits, Active, Over
        <5>5. QED
          BY <3>1, <5>2, <5>4
      <4>2. QED
        BY <1>3, <4>1 DEF WorkerStep, WorkerLoads, WorkerDies, WorkerPublishes
    <3>3. QED
      BY <2>2, <3>1, <3>2 DEF Quiet, StoreQuiet
  <2>5. QED
    BY <2>3, <2>4
<1>4. CASE Crash
  BY <1>4, CrashFrame DEF Unbroken
<1>5. QED
  BY <1>1, <1>2, <1>3, <1>4 DEF Next

LEMMA InitQuiet == Init => Quiet
<1> SUFFICES ASSUME Init PROVE StoreQuiet /\ \A d \in Drivers : CallQuiet(d)
  BY DEF Quiet
<1>1. \A g \in Goals : DOMAIN store[g].subs = {}
  <2>1. \A g \in Goals : store[g].subs = << >>
    BY DEF Init, NoGoal
  <2>2. \A q : q = << >> => DOMAIN q = {}
    OBVIOUS
  <2>3. QED
    BY <2>1, <2>2
<1>2. \A d \in Drivers : pc[d] = "idle" /\ pos[d] = 1
  BY DEF Init
<1>3. QED
  BY <1>1, <1>2 DEF StoreQuiet, CallQuiet, Active, Says

\* When resume() or retry() reports a goal DONE, every subtask of its plan was completed
\* by an agent, where calls follow one another and nothing cut one short.
THEOREM FollowUpHolds == Spec => []FollowUpVerdictIsEarned
<1> DEFINE All == TInv /\ EInv /\ OInv /\ Attended /\ InStep /\ Quiet
<1>1. Init => All
  BY InitTyped, InitEarned, InitOnce, InitAttended, InitInStep, InitQuiet
<1>2. All /\ [Next]_vars => All'
  BY NextTyped, NextEarned, NextOnce, AttendedNext, InStepNext, QuietNext
<1>3. All => FollowUpVerdictIsEarned
  <2> SUFFICES ASSUME All, NEW d \in Drivers, Follows(d), Says(d, "done"), Unbroken
               PROVE  DOMAIN copy[d].subs \subseteq earned[G(d)]
    BY DEF FollowUpVerdictIsEarned, Follows, Unbroken
  <2>1. \A k \in DOMAIN copy[d].subs : copy[d].subs[k] = "done"
    BY DEF Quiet, CallQuiet
  <2>2. QED
    BY <2>1 DEF EInv, DoneIsEarned, Claimed
<1>4. QED
  <2> HIDE DEF All
  <2> QED
    BY <1>1, <1>2, <1>3, PTL DEF Spec
=============================================================================
