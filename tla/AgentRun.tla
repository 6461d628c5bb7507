------------------------------ MODULE AgentRun ------------------------------
(***************************************************************************)
(* Agent.run (swaybot/agent.py) with LLMBrain.think (llm_brain.py), its    *)
(* loop guards (loop_guards.py), the run log (run_log.py), the termination *)
(* of Environment (task_state.py) and the memory the run writes            *)
(* (memory.py: batch, add_steps, AutoCompact, prune).                      *)
(*                                                                         *)
(* A step of a run is a call of the model, the tool, and the records made  *)
(* of them.  With think_timeout the call runs in a thread of its own; one  *)
(* that is given up (late) goes on, streams, and in the end tells the      *)
(* guards of the brain about an action nobody executes.                    *)
(***************************************************************************)
EXTENDS ModelCalls, Sequences, FiniteSets, SequencesExt, Subsequences

CONSTANTS
  Tasks,        \* tasks given to run()
  MaxSteps,     \* max_steps of a run
  ToolOf,       \* [Actions -> names of tools]: the name without the arguments
  RepeatAt, NameAt, ConvergeAt,  \* thresholds of the guards
  Keep,         \* AutoCompact.max_steps
  Compacts,     \* auto_compact
  MayBeBulky,   \* can a few steps exceed max_context_chars
  ThinkTimeout, \* think_timeout is set
  Plans,        \* run(plan=True)
  Reflects,     \* run(reflect=True) with a reflector
  MaxRuns,      \* bound: runs started
  MaxLate,      \* bound: calls given up that still go on
  MaxStops,     \* bound: interrupts and kills
  None

Runs == 1 .. MaxRuns

ASSUME AgentRunAssumption ==
  /\ ToolOf \in [Actions -> STRING]
  /\ RepeatAt \cup NameAt \cup ConvergeAt \subseteq Nat \ {0, 1}
  /\ {MaxSteps, Keep} \subseteq Nat \ {0} /\ {MaxRuns, MaxLate, MaxStops} \subseteq Nat
  /\ {Compacts, MayBeBulky, ThinkTimeout, Plans, Reflects} \subseteq BOOLEAN
  /\ None \notin Nat

VARIABLES
  pc, run, task, step, history, chosen,   \* the run in progress
  repeats,   \* RepeatCallGuard: last action, its count, last tool, its count
  converge,  \* NonConvergenceGuard: count, last step observed, step set
  notice,    \* _repeat_notice: the run in which it was stashed, 0 when there is none
  lastTask,  \* Agent._last_task
  late,      \* [Runs -> Nat]: calls of the run given up and still going
  sinks,     \* the run whose sinks are attached, 0 when there are none
  buffer,    \* the steps RunLogRecorder holds
  mem, disk, \* the steps in the MemoryStore, and in its file
  runlog,    \* runs.jsonl
  stops,
  summarised,\* history: steps that went into a summary
  told,      \* the run whose notice this turn has seen, 0 when it saw none
  clean      \* history: only the turns of this run have been observed

loop == <<pc, run, task, step, history, chosen, lastTask>>
guards == <<repeats, converge, notice>>
stores == <<mem, disk, summarised>>
logs == <<sinks, buffer, runlog>>
past == <<told, clean>>
vars == <<chain, call, loop, guards, late, stores, logs, stops, past>>

-----------------------------------------------------------------------------
(* The guards.                                                             *)

NameOf(a) == IF a \in Actions THEN ToolOf[a] ELSE a

NoRepeats == [act |-> None, count |-> 0, tool |-> None, tools |-> 0]
NoConverge == [count |-> 0, last |-> None, step |-> None]

\* RepeatCallGuard.observe
Repeated(a) ==
  [act |-> a, count |-> IF repeats.act = a THEN repeats.count + 1 ELSE 1,
   tool |-> NameOf(a), tools |-> IF repeats.tool = NameOf(a) THEN repeats.tools + 1 ELSE 1]

\* Mutant of Converging: each step observed counts as one.
ConvergingByOne(a) ==
  IF a \in Terminal THEN [converge EXCEPT !.count = 0, !.last = converge.step]
  ELSE [converge EXCEPT !.count = @ + 1, !.last = converge.step]

\* NonConvergenceGuard.observe: a terminal action starts anew, another one adds the
\* steps since the last one observed, at least one.
Converging(a) ==
  LET s == converge.step
      delta == IF converge.last # None /\ s # None /\ s > converge.last
               THEN s - converge.last ELSE 1
  IN IF a \in Terminal
     THEN [converge EXCEPT !.count = 0, !.last = s]
     ELSE [converge EXCEPT !.count = @ + delta, !.last = IF s = None THEN @ ELSE s]

\* _observe_action: the second guard is asked only when the first says nothing.
Observe(a, r) ==
  LET rep == Repeated(a)
      said == rep.count \in RepeatAt \/ rep.tools \in NameAt
      con == IF said THEN converge ELSE Converging(a)
  IN /\ repeats' = rep
     /\ converge' = con
     /\ notice' = IF said \/ (a \notin Terminal /\ con.count \in ConvergeAt) THEN r ELSE notice

\* _with_repeat_notice: a pending notice is folded into this turn.
Folds == told' = notice /\ notice' = 0

\* think() up to the call of the model.
ThinkBegins(s) ==
  /\ Folds
  /\ converge' = [converge EXCEPT !.step = s]
  /\ UNCHANGED repeats

\* fallback_action
Fallback(s, max) == IF s + 1 >= max THEN "done" ELSE "echo"

\* parse_action: text that encodes no action falls back.
Parsed(r, s, max) == IF r \in Acts THEN r ELSE Fallback(s, max)

\* is_explicit_tool_call
IsExplicit(r) == r \in Acts

\* The end of think(): text that was made an echo becomes the final answer.
ActionOf(r, s, max) ==
  CASE r = "none" -> Fallback(s, max)
    [] r \notin {"none", "empty"} /\ ~IsExplicit(r) /\ Parsed(r, s, max) = "echo" -> "final_answer"
    [] OTHER -> Parsed(r, s, max)

\* parse_plan: whether there are steps in the text.
PlanIn(r) == IF r = "prose" THEN BOOLEAN ELSE {FALSE}

-----------------------------------------------------------------------------
(* The memory of a run.                                                    *)

Kinds == {"task", "plan", "action", "observation"}
StepsOf(tasks, kinds) == [run : Runs, of : tasks, kind : kinds, n : 0 .. MaxSteps]
Step(kind, n) == [run |-> run, of |-> task, kind |-> kind, n |-> n]

\* ContextBuilder.build: what a turn is shown of the task, its short-term steps.
Context == Only(mem, StepsOf({task}, Kinds))

\* Mutant of Candidates: the statement of the task can be compacted.
CandidatesWithTask == Context

Candidates == Only(mem, StepsOf({task}, Kinds \ {"task"}))

\* The steps that stay: the last Keep, or half of a few that are bulky.
Kept == IF Len(Candidates) > Keep THEN Keep ELSE Len(Candidates) \div 2

\* Mutant of Excess: one step too many is kept.
ExcessButOne == ToSet(SubSeq(Candidates, 1, Len(Candidates) - Kept - 1))

Excess == ToSet(SubSeq(Candidates, 1, Len(Candidates) - Kept))

\* prune(scope="short_term", tag=task)
Pruned == Only(mem, StepsOf(Tasks \ {task}, Kinds))

-----------------------------------------------------------------------------
(* The run log.                                                            *)

\* RunLogRecorder: a StepEnd is kept, and RunEnd makes a record of them.
Recorded(a) == buffer' = Append(buffer, a)
Record == [of |-> run, steps |-> buffer]

-----------------------------------------------------------------------------
(* The loop.                                                               *)

\* The locals of a run that is over, and its recorder.
Leave == pc' = "idle" /\ step' = 0 /\ history' = << >> /\ buffer' = << >> /\ chosen' = "done"

\* _run: sinks, the guards' reset when the task is another one, the task step.
Begin(t) ==
  /\ pc = "idle" /\ run < MaxRuns
  /\ run' = run + 1 /\ task' = t /\ step' = 0 /\ history' = << >>
  /\ lastTask' = t
  /\ IF t = lastTask THEN UNCHANGED <<repeats, converge>>
     ELSE repeats' = NoRepeats /\ converge' = NoConverge
  /\ sinks' = run' /\ buffer' = << >>
  /\ mem' = Append(mem, [run |-> run', of |-> t, kind |-> "task", n |-> 0])
  /\ pc' = IF Plans THEN "plan" ELSE "think"
  /\ told' = 0 /\ clean' = (t # lastTask)
  /\ UNCHANGED <<chain, call, chosen, notice, late, disk, summarised, runlog, stops>>

\* _create_plan waits for the model in the thread of the run; it passes the guards by.
Plan ==
  /\ pc = "plan" /\ pc' = "planning"
  /\ Generate(FALSE)
  /\ UNCHANGED <<chain, run, task, step, history, chosen, lastTask, guards, late, stores, logs,
                 stops, past>>

Planned ==
  /\ pc = "planning" /\ call.at = "returned"
  /\ pc' = "think" /\ call' = Idle
  /\ \E has \in PlanIn(call.got) : mem' = IF has THEN Append(mem, Step("plan", 0)) ELSE mem
  /\ UNCHANGED <<chain, run, task, step, history, chosen, lastTask, guards, late, disk,
                 summarised, logs, stops, past>>

Think ==
  /\ pc = "think" /\ pc' = "thinking"
  /\ ThinkBegins(step)
  /\ Generate(TRUE)
  /\ UNCHANGED <<chain, run, task, step, history, chosen, lastTask, late, stores, logs, stops,
                 clean>>

Thought ==
  /\ pc = "thinking" /\ call.at = "returned"
  /\ pc' = "act"
  /\ chosen' = ActionOf(call.got, step, MaxSteps)
  /\ Observe(chosen', run)
  /\ call' = Idle
  /\ UNCHANGED <<chain, run, task, step, history, lastTask, late, stores, logs, stops, past>>

\* The run leaves its call behind.  One that hangs never comes back.
GivesUp ==
  IF call.at = "hung" THEN UNCHANGED late
  ELSE /\ \A r \in Runs : late[r] < MaxLate
       /\ late' = [late EXCEPT ![run] = @ + 1]

\* Mutant of TimesOut: the thread is joined without a limit once the call hangs.
TimesOutIdle ==
  /\ ThinkTimeout /\ pc = "thinking" /\ call.at = "asking"
  /\ pc' = "act" /\ chosen' = Fallback(step, MaxSteps)
  /\ GivesUp /\ call' = Idle /\ clean' = FALSE
  /\ UNCHANGED <<chain, run, task, step, history, lastTask, guards, stores, logs, stops, told>>

\* thread.join(think_timeout) ends before the call does.
TimesOut ==
  /\ ThinkTimeout /\ pc = "thinking" /\ call.at # "returned"
  /\ pc' = "act"
  /\ chosen' = Fallback(step, MaxSteps)
  /\ GivesUp
  /\ call' = Idle
  /\ clean' = FALSE
  /\ UNCHANGED <<chain, run, task, step, history, lastTask, guards, stores, logs, stops, told>>

\* Mutant of Over: a terminal action does not end the run.
OverByCount == step + 1 >= MaxSteps

Over == chosen \in Terminal \/ step + 1 >= MaxSteps

Onward == IF Over THEN "reflect" ELSE "think"

\* _persist_step: the step goes into memory, which may have to be compacted.
Persist ==
  /\ mem' = mem \o <<Step("action", step + 1), Step("observation", step + 1)>>
  /\ \/ Compacts /\ (MayBeBulky \/ Len(Candidates) + 2 > Keep) /\ pc' = "compact"
     \/ (Compacts => Len(Candidates) + 2 <= Keep) /\ pc' = Onward

\* The tool runs, Environment.observe, StepEnd, _persist_step.
Act ==
  /\ pc = "act"
  /\ step' = step + 1
  /\ history' = Append(history, chosen)
  /\ Recorded(chosen)
  /\ Persist
  /\ UNCHANGED <<chain, call, run, task, chosen, lastTask, guards, late, disk, summarised, sinks,
                 runlog, stops, past>>

\* AutoCompact asks the same brain for a summary: a turn of step 0 of another task,
\* waited for in the thread of the run.
Compact ==
  /\ pc = "compact" /\ pc' = "summarizing"
  /\ ThinkBegins(0)
  /\ Generate(FALSE)
  /\ clean' = FALSE
  /\ UNCHANGED <<chain, run, task, step, history, chosen, lastTask, late, stores, logs,
                 stops>>

Compacted ==
  /\ pc = "summarizing" /\ call.at = "returned"
  /\ Observe(ActionOf(call.got, 0, 2), run)
  /\ call' = Idle
  /\ mem' = Only(mem, StepsOf(Tasks, Kinds) \ Excess)
  /\ summarised' = summarised \cup Excess
  /\ pc' = IF chosen \in Terminal \/ step >= MaxSteps THEN "reflect" ELSE "think"
  /\ UNCHANGED <<chain, run, task, step, history, chosen, lastTask, late, disk, logs, stops, past>>

\* RunEnd makes the recorder append its record; the sinks are detached.
RunEnd == runlog' = Append(runlog, Record) /\ sinks' = 0

\* _reflect prunes the short-term steps of the task.
Reflect ==
  /\ pc = "reflect" /\ pc' = "save"
  /\ mem' = IF Reflects THEN Pruned ELSE mem
  /\ RunEnd
  /\ UNCHANGED <<chain, call, run, task, step, history, chosen, lastTask, guards, late, disk,
                 summarised, buffer, stops, past>>

\* The batch ends.
Save ==
  /\ pc = "save" /\ Leave
  /\ disk' = mem
  /\ UNCHANGED <<chain, call, run, task, lastTask, guards, late, mem, summarised, sinks, runlog,
                 stops, past>>

-----------------------------------------------------------------------------
(* Calls that were given up, interrupts and crashes.                       *)

LateReturns(r, a) ==
  /\ late[r] > 0
  /\ late' = [late EXCEPT ![r] = @ - 1]
  /\ Observe(a, r)
  /\ clean' = FALSE
  /\ UNCHANGED <<chain, call, loop, stores, logs, stops, told>>

\* KeyboardInterrupt or an exception leaves _run_body: the batch saves, there is no
\* RunEnd, and the sinks stay attached.
Interrupt ==
  /\ pc # "idle" /\ stops < MaxStops
  /\ Leave /\ stops' = stops + 1
  /\ disk' = mem
  /\ IF ThinkTimeout /\ pc = "thinking" /\ call.at = "asking" THEN GivesUp ELSE UNCHANGED late
  /\ call' = Idle
  /\ UNCHANGED <<chain, run, task, lastTask, guards, mem, summarised, sinks, runlog, past>>

\* A new process has a new agent, a new brain, and memory as the file has it.
Kill ==
  /\ pc # "idle" /\ stops < MaxStops
  /\ Leave /\ stops' = stops + 1
  /\ mem' = disk
  /\ repeats' = NoRepeats /\ converge' = NoConverge /\ notice' = 0 /\ lastTask' = None
  /\ late' = [r \in Runs |-> 0] /\ sinks' = 0
  /\ call' = Idle
  /\ UNCHANGED <<chain, run, task, disk, summarised, runlog, past>>

-----------------------------------------------------------------------------
Init ==
  /\ CallInit
  /\ pc = "idle" /\ run = 0 /\ task = None /\ step = 0 /\ history = << >>
  /\ chosen = "done" /\ lastTask = None
  /\ repeats = NoRepeats /\ converge = NoConverge /\ notice = 0
  /\ late = [r \in Runs |-> 0]
  /\ mem = << >> /\ disk = << >> /\ summarised = {}
  /\ sinks = 0 /\ buffer = << >> /\ runlog = << >>
  /\ stops = 0 /\ told = 0 /\ clean = TRUE

LoopStep ==
  \/ Plan \/ Planned \/ Think \/ Thought \/ TimesOut \/ Act \/ Compact \/ Compacted
  \/ Reflect \/ Save

ModelStep == CallStep /\ UNCHANGED <<loop, guards, late, stores, logs, stops, past>>
ModelHangs == call.at = "asking" /\ Hangs /\ UNCHANGED <<chain, loop, guards, late, stores, logs,
                                                       stops, past>>

Next ==
  \/ \E t \in Tasks : Begin(t)
  \/ LoopStep
  \/ ModelStep \/ ModelHangs
  \/ \E r \in Runs : \E x \in Acts : LateReturns(r, x)
  \/ Interrupt \/ Kill

Spec == Init /\ [][Next]_vars

\* The thread of the run and an endpoint that answers at all go on.
FairSpec == Spec /\ WF_vars(LoopStep) /\ WF_vars(ModelStep)

-----------------------------------------------------------------------------
(* Properties.                                                             *)

RecordType == [of : Runs, steps : Seq(Acts)]

\* The variables have their types; memory differs from its file only in a run.
TypeOK ==
  /\ CallType
  /\ pc \in {"idle", "plan", "planning", "think", "thinking", "act", "compact", "summarizing",
             "reflect", "save"}
  /\ run \in 0 .. MaxRuns /\ {task, lastTask} \subseteq Tasks \cup {None}
  /\ step \in 0 .. MaxSteps /\ history \in Seq(Acts) /\ chosen \in Acts
  /\ repeats \in [act : Acts \cup {None}, count : Nat,
                 tool : {NameOf(a) : a \in Acts} \cup {None}, tools : Nat]
  /\ converge \in [count : Nat, last : Nat \cup {None}, step : Nat \cup {None}]
  /\ notice \in 0 .. MaxRuns /\ sinks \in 0 .. MaxRuns /\ late \in [Runs -> Nat]
  /\ {mem, disk} \subseteq Seq(StepsOf(Tasks, Kinds)) /\ summarised \subseteq StepsOf(Tasks, Kinds)
  /\ buffer \in Seq(Acts) /\ runlog \in Seq(RecordType)
  /\ stops \in 0 .. MaxStops /\ told \in 0 .. MaxRuns /\ clean \in BOOLEAN
  /\ mem # disk => pc # "idle"

\* runs.jsonl holds whole runs only, each once and in their order: what ends them is
\* a terminal action, the only one, or the last step.  Late calls, interrupted
\* runs and crashes leave no part of a run in it (Environment, RunLogRecorder).
LogHoldsWholeRuns ==
  /\ \A i \in DOMAIN runlog :
       LET s == runlog[i].steps IN
       /\ s # << >> /\ \A j \in 1 .. Len(s) - 1 : s[j] \notin Terminal
       /\ s[Len(s)] \in Terminal \/ Len(s) = MaxSteps
  /\ \A i, j \in DOMAIN runlog : i < j => runlog[i].of < runlog[j].of

\* Compaction forgets nothing of the run in progress: each step is in memory or went
\* into a summary, and the statement of the task stays (AutoCompact.compact).
NothingForgotten ==
  pc \notin {"idle", "save"} =>
    /\ Step("task", 0) \in ToSet(mem)
    /\ \A n \in 1 .. step : /\ Step("action", n) \in ToSet(mem) \cup summarised
                           /\ Step("observation", n) \in ToSet(mem) \cup summarised

\* From the second turn of a run on, the steps of the task that can be compacted are at
\* most max_steps, also those that earlier runs left; and what the turn is shown is that
\* and one statement of the task for each run begun.  Those of runs that were
\* interrupted, or not reflected on, stay: with Reflects FALSE what is shown grows
\* with every run of a task (AutoCompact.compact, ContextBuilder.build).
ContextIsBounded ==
  Compacts /\ pc \in {"think", "thinking"} /\ step > 0 =>
    /\ Len(Candidates) <= Keep
    /\ Len(Context) <= Keep + run

\* The actions the guards should have seen.
Seen == IF pc = "act" THEN Append(history, chosen) ELSE history
Trailing(s) == CHOOSE n \in 1 .. Len(s) :
                 /\ \A i \in Len(s) - n + 1 .. Len(s) : s[i] = s[Len(s)]
                 /\ n = Len(s) \/ s[Len(s) - n] # s[Len(s)]

\* In the first run of a task, before a compaction and a timeout, the guards count
\* right: identical actions in a row, and steps without a terminal action, also
\* those a notice of the other guard hid from it (loop_guards.py).
GuardsAreExact ==
  clean /\ Seen # << >> /\ run > 0 =>
    /\ repeats.act = Last(Seen) /\ repeats.count = Trailing(Seen)
    /\ converge.last # None /\ Last(Seen) \notin Terminal => converge.count = converge.last + 1

\* A run ends, though calls of the model hang, when think_timeout is set, unless it
\* waits for a plan or a summary: those calls have no time limit.
RunEnds ==
  (pc # "idle") ~> (pc = "idle" \/ (call.at = "hung" /\ pc \in {"planning", "summarizing"}))

\* loop_guards.py:209-211: "every tool call that is not a terminal action advances
\* the run [...] When the run length crosses a threshold the guard emits a [...]
\* notice".  The turn at a threshold has seen one.
NonConvergenceIsTold ==
  pc = "thinking" /\ step \in ConvergeAt => told # 0

\* loop_guards.py:29-30: "A new user/task turn resets both chains".
NoticesAreMine == pc = "thinking" => told \in {0, run}

\* agent.py:233-235: late emissions "no-op instead of hitting a stale recorder".
TokensAreMine == \A r \in Runs : late[r] > 0 /\ sinks # 0 => sinks = r

=============================================================================
