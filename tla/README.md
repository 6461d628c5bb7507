# Verification of swaybot

TLA+ models of [swaybot](../src/README.md), the TLC configurations that check
them on small instances, and theorems about them that TLAPS checks for every
value of the constants. `PROJECT.json` is the machine-readable index: the runs,
the mutants, the source lines each definition translates, the hazards and the
theorems.

1. [The system](#1-the-system)
2. [Modules](#2-modules)
3. [How the models correspond to the code](#3-how-the-models-correspond-to-the-code)
4. [Runs, bounds and what they show](#4-runs-bounds-and-what-they-show)
5. [Fairness](#5-fairness)
6. [Proofs](#6-proofs)
7. [What does not hold](#7-what-does-not-hold)
8. [What is not modelled](#8-what-is-not-modelled)
9. [Plan](#9-plan)

## 1. The system

swaybot is an agent that works on its own: a brain (a language model behind
`LLMBrain`) chooses actions, tools carry them out, and memory keeps what was
learned. Around this core are services that run many such agents: chat sessions,
long-running goals on a job scheduler, and a loop of self-evolution.

| component | state | operations | talks to | what is hard | what makes it correct |
|---|---|---|---|---|---|
| Job scheduler, `goals/scheduler.py` | table of jobs, running counts, next instants, asyncio tasks, loop task, wake event, saved state | add/remove/list job, run_job_now, start, stop, `_loop`, `_run_job` | storage; jobs run in threads or as coroutines | cancellation leaves threads behind; ids registered again while old tasks live; wake-ups; stop and restart | the count is the number of live tasks; limits hold; a one-shot job runs once; what is due is started |
| Goal coordinator, `goals/coordinator.py` | goals in storage, one copy per call and per worker thread, completion events | run, resume, retry, cancel, `_execute_subtask`, `_subtask_job` | scheduler, event bus, storage, agents | whole-object writes from stale copies; timeouts with late workers; process death; overlapping HTTP calls | a subtask or goal is "done" only if agents did it; a waiting call has something to wait for; every call ends |
| Message bus and async agent, `bus.py`, `async_agent.py` | a queue per session, consumer tasks, locks | post, ensure_session, run_session, start, stop | session history, event bus, agents in threads | tasks that end or are cancelled anywhere; stop while messages arrive | one consumer per session; messages are handled once and in order; messages are answered |
| Session history, `session.py` | one JSONL log per session | append, read, create, delete | storage | ids that are refused | what was received is in the log, in order |
| Event bus, `events.py` | handlers by event type | subscribe, unsubscribe, publish | everything | a handler runs in the publishing step or later | reaches the waiters it is for |
| HTTP API, `api.py` | one coordinator, agent and bus per app | chat completions, session messages, goal routes | all of the above | turns recognise their answer on a shared bus; timeouts | an answer belongs to its question |
| Storage, `storage.py` | files (JSON, JSONL) or dictionaries | load, save, append, delete, streams and queries | the file system | torn lines, a shared temporary file, locks that belong to a backend and not to a file | a reader sees whole values; a call takes effect whole and once; an append cut short costs a bounded number of lines or, inside a character, the reading of the log |
| Memory, `memory.py` | list of records, batch depth | remember, query, merge, update, prune, compact | storage | batches saved only at the outermost exit; merging of similar records | nothing of a run in progress is forgotten; what is shown of a task grows by its statements only; the file lags the memory only inside a batch |
| Agent loop, `agent.py`, `task_state.py`, `agent_events.py` | steps, task state, metadata | run, step, reflect | brain, tools, memory | a brain call that exceeds its time goes on in its thread | every run ends; the log has whole runs only |
| Loop guards, `loop_guards.py` | chains of repeats, step counts | observe an action, advise, abort | agent loop | thresholds that are jumped over | the chains are those of the current task, also when one guard hides a step from the other |
| Brain, `llm_brain.py`, `brain.py`, `parsing.py` | todo list, last error, thinking | think | models | state carried from step to step | errors do not leak into later steps |
| Self-evolution, `evolution.py`, `reflection.py`, `explorer.py` | questions in memory with a status, credibilities, rounds, two views and a digest on disk | explore, reflect, decompose, wonder, dream, live, propose | agent, memory | killed or interrupted between two steps; merging; queries that are cut at 50 | a question is explored once; the tree of sub-questions is bounded; the oldest of a kind and level goes first; what was explored is concluded; views and digest agree with the memory on disk |
| Models, `models.py` | endpoint chains | complete, stream | HTTP | retries and fall-backs share a budget | a call gives up only when every model was tried |
| Tools, `tools/`, `violations.py`, `permission.py`, `guards.py` | registry, path locks, violation counts | run a batch, edit files, run commands | file system | parallel tools on one file or count; one of a batch fails | no edit is lost but to a write that reports its failure; results belong to their actions; every batch ends |
| Run log, `run_log.py` | the steps of the run in progress, `runs.jsonl` | record, append, load | agent loop, storage | a backend, and so a lock, per record | whole runs, each once |
| Metrics, prompts, perception, skills, CLI | text and records | | | none | |

How they interact. `api.py` builds one `AsyncAgent` and one `LongTaskCoordinator`
in one asyncio event loop. A chat turn posts a message to the `MessageBus`, whose
per-session consumer gathers what is queued, runs an `Agent` in a worker thread
(`asyncio.to_thread`) and publishes the outcome on the `EventBus`; the turn waits
for it with a timeout. A goal call plans with an agent, then registers one
one-shot job per subtask with the `Scheduler`, which runs `_subtask_job` in a
worker thread; the thread stores the result and publishes an event in the main
loop, for which the call waits with a timeout. All of them save through a
`StorageBackend`.

`Agent.run` is the loop they have in common: it asks the brain for an action (with
`think_timeout` in a thread of its own), lets the `ToolRegistry` execute it, and writes
the step into `MemoryStore`, inside one batch per run, and into `runs.jsonl`. The brain
asks a model or a chain of models and observes its own actions with two loop guards.
Self-evolution calls `Agent.run` once per question, with a `Reflector` that changes the
status of the question inside that batch.

Two facts shape all the models. First, in one asyncio loop everything between two
`await`s is atomic, so an action of a module is the code from one suspension to
the next. Second, cancelling a task that awaits `to_thread` ends the task but not
its thread.

## 2. Modules

| module | what it is |
|---|---|
| `Scheduler` | `goals/scheduler.py`, all its operations |
| `JobExecutor` | abstract: what the scheduler promises of the jobs it is given |
| `SchedulerProofs` | its theorems |
| `MCScheduler` | instances for TLC |
| `GoalCoordinator` | `goals/coordinator.py`, all its operations, with the scheduler reduced to what `Scheduler` shows of one-shot jobs |
| `GoalLifecycle` | abstract: what one `run()` promises its caller |
| `GoalCoordinatorProofs` | its theorems |
| `MCGoalCoordinator` | instances for TLC |
| `Sessions` | `bus.py`, `async_agent.py`, the history of `session.py`, the event bus and the turns of `api.py`, composed |
| `SessionsProofs` | its theorems |
| `MCSessions` | instances for TLC |
| `Evolution` | `evolution.py` with what `reflection.py` and `memory.py` do for it, over several commands |
| `EvolutionProofs` | its theorems |
| `MCEvolution` | instances for TLC |
| `ModelCalls` | one call of the model: `models.py` behind `LLMBrain` |
| `AgentRun` | extends `ModelCalls` with `Agent.run`, `LLMBrain.think`, the loop guards, the run log and the memory of a run |
| `AgentRunProofs` | theorems about both |
| `MCAgentRun` | instances for TLC |
| `Subsequences` | the elements of a sequence that are in a set, by a recursive function instead of `SelectSeq` |
| `SubsequencesProofs` | lemmas about it |
| `JsonFiles` | `JSONBackend` and its callers: counts, memories, and `append` |
| `LineFiles` | `JSONLBackend`: session histories and `runs.jsonl` |
| `DurableValue` | abstract: what a JSON backend promises of a key |
| `Storage` | `JsonFiles` or `LineFiles` in a process that crashes |
| `StorageProofs` | theorems about the three |
| `MCStorage` | instances for TLC |
| `ToolBatch` | `ToolRegistry.execute_batch`, the file tools and their path locks, for several agents |
| `ToolBatchProofs` | its theorems |
| `MCToolBatch` | instances for TLC |

`Scheduler` implements `JobExecutor` under a refinement mapping (`Executor`,
property `ImplementsExecutor`), and the calls of `run()` in `GoalCoordinator`
implement `GoalLifecycle` (`Life(d)`, property `RunsKeepTheirPromise`), and
`JsonFiles` implements `DurableValue` (`Register`, property `ImplementsRegister`).

Definitions whose comment begins with "Mutant of" are altered forms of the
definition after them. They are used nowhere; `PROJECT.json` lists, for each
property, the one that must violate it, which shows that the property is
sensitive to the code it is about.

## 3. How the models correspond to the code

### Scheduler

A job object is `<<id, generation>>`, because `add_job` under a known id
(scheduler.py:102) makes a second object while tasks of the first still hold
references to it. Tasks of an object are interchangeable and are counted by phase:
`created` (the coroutine has not begun; cancelling it never runs its `finally`),
`active` and `cancelled` (its `finally` is still to come). `orphans` counts the
threads whose task was cancelled. The instants `next_run` and the loop's wait are
kept as ticks left, so time needs no bound.

| action | code |
|---|---|
| `AddJob`, `RemoveJob`, `RunJobNow` | `add_job`, `remove_job`, `run_job_now` |
| `Start` with `LoadState` | `start`, `_load_state`, which resets counts of jobs known to the backend |
| `StopBegin`, `StopEnd` | `stop` before and after its `await`; in between, tasks end |
| `LoopEvaluate` | one pass of `_loop`: start what is due, `_next_due_time`, `_wait_for_signal` |
| `TaskBegins`, `TaskEnds`, `CancelledTaskEnds` | `_run_job`, its `finally` (count, disabling, saving, waking) included |
| `OrphanReturns` | the thread of a cancelled task ends |
| `Tick` | time passes |

Assumptions: nobody calls `start`, `stop` or `run_job_now` while another `stop()`
awaits; jobs are registered enabled (nothing in the program registers a disabled
one); a backend's `save` may raise, its `load` does not; a cron schedule is due
after 1 to `Period` ticks, whatever its expression. `last_run` and the names of
jobs are left out because nothing but `list_jobs` and the next instant depends on
them.

### GoalCoordinator

A driver is one call: `run`, `resume`, `retry` or `cancel`. Each has its own
`Goal` object (`copy`), each worker thread another (`wcopy`), and each save writes
the whole object (`store`). Every store call is an `await`, hence a step.

| action | code |
|---|---|
| `Create`, `BeginPlanning`, `Plan`, `PlanRaises`, `BeginRunning` | `run` up to its loop |
| `ResumeLoads`; `RetryLoads`, `RetrySaves`; `CancelLoads`, `CancelSaves` | `resume`; `retry`, which calls it; `cancel` |
| `BeginSubtask`, `Submit`, `Completed` / `TimesOut` (with `Record`) | `_execute_subtask`: save, subscribe and register the job, wait, unsubscribe and save |
| `LeaveContext`, `Conclude` | the end of the loop: `_scheduler_context` stops the scheduler the call had started; then the verdict and the last save |
| `WorkerLoads`, `WorkerSaves`, `WorkerDies`, `WorkerPublishes` | `_subtask_job` in its thread: load, run the agent and save, a factory that raises, publish |
| `Crash` | the process dies and restarts; only the backend remains |

Assumptions: `run()` makes a fresh id (`uuid4`); the store is atomic per value
and its calls do not
raise (the backends' own hazards are in `JsonFiles`); a result or a
description never matters, only statuses do; a process that ends normally waits for the
threads of its executor (`asyncio.run`), so a worker is lost in a crash only; a scheduler starts a registered
one-shot job at most once and only while it runs, which is what `Scheduler`
checks and proves of `max_running = 1`.

### Sessions

A consumer is `<<session, n>>`, the n-th task made for a session, since a task may
outlive its entry in `_tasks`. The per-session lock is held exactly in the phases
`gathering` and `thinking`.

| action | code |
|---|---|
| `Put`, `Get`; `Store`, `Rejects`; `Publish`, `Subscribers` | operators the actions share: `MessageBus.post` and `get`; `SessionManager.append` and `_safe_id`; the event bus and its subscriptions |
| `Post` | `MessageBus.post` by way of `AsyncAgent.post` and `ensure_session`; a turn of `_run_one_turn` or `_stream_chat` also subscribes |
| `TurnTimesOut` | the `wait_for` of `_run_one_turn` and `_stream_chat`, which report it differently (`Ending`) |
| `Start`, `StopBegin`, `StopEnd` | `start`; `stop` before and after `gather` |
| `Begin`, `Idle`, `Take`, `TakeLock`, `Gather`, `GatherEnds`, `AgentEnds` | `run_session` from one suspension to the next |
| `OrphanReturns` | the agent thread of a cancelled consumer ends |

Assumptions: `start` is not called while `stop` awaits; `close_session` has no
caller and is left out; handlers of outbound messages are plain functions, so all
that a turn emits is logged and heard in one step and one `Reply` stands for it;
`chat_completions` gives each turn a session of its own (a fresh id per request);
`max_steps` is positive, so that an agent that returns has at least one record and its
last one is final; storing fails for unsafe ids only.
Up to Python 3.11, `asyncio.wait_for` swallows a cancellation that comes together
with a result; a later version does not. `StopBegin` allows both.

### Evolution

A command is a life (`--life`) or one cycle followed by a proposal (`--auto-evolve`);
`pc` names the statement it is at. `mem` is the `MemoryStore` of the process and `disk`
its file; they differ only while an exploration runs in its batch. What the brain
answers (conjectures, sub-questions, wonders, theories, verdicts) is arbitrary.

| action | code |
|---|---|
| `Begin`, `SeedNext`, `Seeded`, `StopCheck`, `CycleBegins` | `main` of the command line; `live` and `_seed_questions` up to a cycle |
| `GateOpens`, `GateCloses`, `Design`, `MarkTesting` | `cycle` up to the run: `open_candidates`, `_design_experiment`, `_record_conjecture`, `_set_status` |
| `Explore`, `AddContradiction`, `BatchEnds` | `Agent.run` with reflection: `reflect_on_run` inside the batch, then its one save |
| `Adjudicate`, `RecordExperiment`, `SplitsNot`, `Splits`, `AddSubQuestion`, `Decomposed` | the rest of an exploration: `_adjudicate`, `_update_conjecture`, `_record_experiment`, `_decompose` |
| `CycleEnds`, `Wonder`, `NoDream`, `Dream`, `AddIdea`, `WriteSediment` | the rest of a turn of `live`, `_wonder` and `_dream`; `write_sediment` |
| `ProposeSoul` | `SoulChannel.propose` and `apply` |
| `Interrupt`, `Kill`, `WeekPasses` | `KeyboardInterrupt` or an exception: the batch saves and a life goes to its `finally`; SIGTERM or a crash: neither; the age of memories between two commands |

`Remember` and `Restate` are `MemoryStore.add` with its merging, `Latest` a query, which
cuts before `open_candidates` (`OpenBelow`) filters and sorts. What was wondered or dreamt
is added one by one, each with its save, so a kill may fall between two; contradictions are
added one by one too, inside the batch. Credibilities are tenths; the 0.3, 0.6, 0.8 and 1.0 of the code
and its steps are kept. Assumptions: contents are equal or not similar, so that merging
is by equality, but for records of experiments, which may merge with any other; a day
and a week are one span (`Quiet`); a decay of credibility with age is not modelled; a save
succeeds, and nothing comes between `memories.append` and it (memory.py:225-226); the task
that `--auto-evolve` runs before its cycle (cli.py:296-301) is left out.

### ModelCalls and AgentRun

`call` is the call of the model in progress: the link of the chain, the attempt and
whether tools are offered. `Sent` is what an endpoint may send, `Completed` and
`Streamed` what the two ways of reading it make of it: streaming collects text only, so a
native tool call becomes no text. `pc` names the statement of `Agent._run_body`.

| action | code |
|---|---|
| `Generate`, `CallStep` (`Answers`, `Fails`, `FailsForGood`, `RejectsTools`), `Hangs` | `OpenAIModel.generate` and `FallbackModel.generate` |
| `Begin`, `Plan`, `Planned` | `_run`, `_create_plan`, `LLMBrain._plan` |
| `Think`, `Thought`, `TimesOut` | `_think` and `LLMBrain.think`: notices, guards, the mapping of a response to an action; the time limit |
| `Act`, `Compact`, `Compacted` | the tool, `Environment.observe`, `_persist_step`; `AutoCompact.compact` with its call of the brain |
| `Reflect`, `Save` | the reflection that prunes, `RunEnd`; the end of the batch |
| `LateReturns` | a call that was given up returns and tells the guards |
| `Interrupt`, `Kill` | an exception out of the loop; the end of the process |

Actions of the model are atoms: a tool with its arguments, of which the guards compare
either all or the name. Text that encodes no action is `prose`; whether a plan is found
in it is arbitrary. `Candidates` is what compaction
may drop, `Context` what a turn is shown of its task: the same and the statements of the
task, of which each run adds one. Assumptions: one agent runs one task at a time; a tool's own
behaviour is in `ToolBatch`; the relevance of long-term memories does not matter.

### JsonFiles, LineFiles and Storage

A JSON file is text written in two pieces that can be parsed when both are there. A
write opens the temporary file (which empties it), writes the pieces and renames it,
each a step; a crash or an error may come between any two. Callers are of three kinds: a
count that is read and then set or reset (`violations.py`); a memory that is read once and
saved from the process's copy, after it has added, pruned or compacted (`MemoryStore`);
and `append`, which loads and saves under the lock and which no part of the program calls.

A line of a JSON-lines file is two pieces as well. The first may end inside a character
(records in `Wide`, as `ensure_ascii` is off, storage.py:213), and then the file can be
decoded only if the second follows: `read_text` stands outside the `try` (223), so a stream
that cannot be decoded loads nothing. A line that cannot be parsed is skipped; one that
`splitlines()` takes apart, at U+2028, U+2029 or U+0085 (records in `Split`), is such a line
although it was finished.

| action | code |
|---|---|
| `Get`, `Begin` (`Appends`, `Counts`, `Remembers`), `Open`, `Write`, `Replace`, `Return`, `Raise` | `load`, `append` and `save` of `JSONBackend` with `_atomic_write`; what its callers save |
| `Change` | a memory changes inside `batch()`, without a save |
| `LineBegins`, `LineEnds`, `LineRaises`, `Clear` | `append` of `JSONLBackend`; `clear` and `delete` of a session |
| `Crash` | the process ends: locks and copies are gone, files stay |

The two backends share nothing, so a behaviour of `Storage` has one of them. The rename
is atomic and what has been written stays written (a crash of the process, not of the
machine). A value is its records: a change inside a record, of a status or a credibility,
is left out here and modelled in `Evolution`.

### ToolBatch

`batch` is the list of actions of an agent, `GroupEnd` the rule by which consecutive
calls form a group. The content of a file is a set of marks: an edit replaces the mark
it needs with its own, a write leaves only its own, and the formatter among the hooks
(code_quality.py:9) may rewrite marks that were there at the start. `ideal` is what the file
would be if the calls that reported success had happened one after the other. A call that
fails half way reports an error and does not change `ideal`; it makes its path `spoilt`,
until a write of the whole file succeeds. A formatter killed half way is left out.

| action | code |
|---|---|
| `FormGroup`, `CollectGroup`, `Finish` | `execute_batch` |
| `Start` with `ReadFile`, `AloneEnds` | `execute` in a worker of the pool, `validate_arguments`, `read_file`; `done` and `final_answer`, the tools that run alone |
| `Acquire`, `ReadCurrent`, `OpenFile`, `WriteText`, `RunHooks` | `PathLockManager.lock` and the bodies of `edit_file` and `write_file`, step by step |

An agent's own loop executes one action per step, a batch of one; `execute_batch` with
more is called by tests only. A call is one entry of one batch, so that its place in the list
identifies it. Concurrency between agents (threads of sessions and
goals) is in the model by the second agent.

## 4. Runs, bounds and what they show

State counts are those of TLC with two workers; the longest runs take less than three minutes.

| run | instance | distinct states | shows |
|---|---|---|---|
| `scheduler_safety` | one interval job registered twice, limit 2, triggers while running, saves that fail | 39,074 | `TypeOK`; `CountIsLive`: `running_count` is the number of live tasks of that object; `ImplementsExecutor` |
| `scheduler_live` | a one-shot job with limit 1, a cron job with limit 2, fair event loop | 18,987 | `OneShotRunsOnce`; `NoOversleep`: no lost wake-up; `DueIsStarted`, even when jobs never return |
| `goals_restart` | run of one or two subtasks, a crash anywhere, a resume after it, scheduler not started by the host | 1,331,023 | `SequentialUnlessLate`, `StoreInStep`, `FollowUpVerdictIsEarned`, `NeverStranded`, `VerdictStands`, `RunsKeepTheirPromise` |
| `goals_api` | run, retry and cancel of one goal overlap, as HTTP requests can, on one scheduler; planning may hold the event loop, and two hung agents the pool | 431,240 | `TypeOK`, `DoneIsEarned`, `RunVerdictIsEarned`; `CallsEnd`: every call returns or raises, unless planning or hung agents stop them all |
| `sessions_restart` | a session with three messages, one of them blank, a streamed turn in another, one stop, a factory that may raise | 257,697 | `OneConsumer`, `InOrder`, `AnswerIsMine`, `NothingTwice`, `MessagesAreServed` |
| `evolution_lives` | two commands, two questions, a contradiction, a theory, one interrupt or kill | 5,211,547 | `ExploredOnce`, `SedimentIsCurrent` |
| `evolution_live` | one command over three questions, depth 2, answers of two items, a window of two; no interrupt or kill, which would end it and with it what must happen | 355,673 | `TreeSound`, `OldestFirst`, `OpenIsExplored`, `PickedIsConcluded` |
| `agent_run` | two runs of up to three steps, two tasks, one tool, an interrupt or a kill, calls that hang and one that returns late, perhaps into the second run | 2,944,659 | `LogHoldsWholeRuns`, `ContextIsBounded`, `GuardsAreExact` |
| `agent_live` | one run with a plan, one model or a chain of two, streaming, a retry, a call that returns late | 205,443 | `NoneMeansAllTried`, `NothingForgotten`, `RunEnds` |
| `storage` | three keys with two appending threads, a count with resets and a memory that prunes and compacts; two writers of lines, of which one record has wide characters and one a separator; two crashes | 294,927 | `FileIsWhole`, `LossIsBounded`, `ImplementsRegister` |
| `tool_batch` | two agents, twelve pairs of batches of edits, writes, reads, tools that run alone, bad arguments, unknown tools, on one file, with a formatter | 54,192 | `AloneIsAlone`, `ResultsInPlace`, `NoLostEdit`, `BatchEnds` |
| `goals_resume` | run, crash, resume | | violates `ResumedIsComplete` (section 7) |

The type invariants that no run lists (`TypeOK` of `Sessions`, `Evolution`, `AgentRun` and
`ToolBatch`, `JsonTypeOK`) hold in the same instances.

Why the bounds are enough to be interesting. Two generations are
needed for tasks of a replaced job, two jobs of different kinds for one to be waited for while
the other is due; a limit of 1 and one of 2 cover admission at and below the
limit; `MaxOrphans = 1` is one thread left behind per object, which is what a stop
and a restart make, and stops the model from growing without end (a stop that
would leave more is not explored). Periods of 1 and 2 ticks and a poll of 1 or 2
make waits shorter, equal and longer than an interval. Two subtasks are needed for
"sequentially", for a failure before a success and for a crash between them; three
kinds of call on one goal for a lost update of a lost update and for a scheduler stopped
under a call that uses it. Three messages and three tasks per session allow a turn in
progress, a message that joins it and one that waits, across a stop.

Two commands are needed for what a killed one leaves to the next; with two questions and
a contradiction one may be an answer's sub-question, a restatement or new. Three
questions and depth 2 let a sub-question be merged with an ancestor or with a question
of another branch. Answers have at most one item in `evolution_lives` and two in
`evolution_live` (`MaxAnswers`, 3 in the code): more items are added one after the other.
The window that schedules is 2 of three questions in `evolution_live`, so that an open
question falls out of reach and back into it; in `evolution_lives` the windows (50, 500) cut
nothing, and section 7 says what happens when they do. `evolution_live` has no contradictions;
`OldestKept` (section 6) is about both kinds. Thresholds of the guards are 2 and 3 instead of
the code's larger ones, within runs of three steps, so that a chain reaches, passes and misses each;
`Keep` of 2 and 4 steps makes compaction happen in most runs. `MaxLate` is the calls that are given up
and still go on, one in `agent_run` and in `agent_live`; the others hang for good. `agent_run`
has one tool and one model, as it is about runs and not about the choice of an action. `TaskSymmetry`
exchanges the tasks, which are only compared with each other. Two crashes are needed to crash in the recovery from one; four
lines to have a good one after a torn one, with one that is wide and one that is split.
A pool of two threads (`PoolSize`, some 5 to 32 in CPython) is what hung agents can fill.

Deadlock checking is on for the scheduler, which always has a clock tick to take. It is
off elsewhere: a call, a command, a run or a batch may be over, and the bounds end the
rest.

Some properties in words that their names do not say:

* `NeverStranded`: a call that waits for a subtask has a registered job with a
  running scheduler, or a worker that has still to publish or died in the agent
  factory. The event reaches every call that waits for that subtask, which is why
  a retry that replaces the job of an earlier call does not strand it.
* `StoreInStep`: as long as no other call works on the goal and no worker was
  given up, the store and the driver's copy differ in the subtask in progress only.
* `VerdictStands`: a stored verdict changes only by a worker that was given up on
  or another call.
* `SequentialUnlessLate`: the agents of a goal, be they of one call or of two, work one
  after the other until some wait times out, where calls on a goal follow one another.
  Calls that overlap work beside each other. After a timeout this is false in two ways: the next subtask starts
  beside the old worker, and the event of the old worker ends the wait of a resume
  that executes the same subtask again.
* `OldestFirst`: no note is shut while an older one of its kind, as high in the tree and
  within reach of the window, is open. It says nothing of notes of the other kind, of
  higher ones or of those beyond the window, which do come first.
* `OpenIsExplored`: a life in which something is open comes to an exploration. That every
  question is explored is not so (section 7).
* `ContextIsBounded`: the steps of a task that can be compacted are bounded from the second
  turn of a run on; the statements of the task are one for each run begun at most.
* `NoLostEdit`: of a file that is not `spoilt`, and that nobody is writing.
* `ImplementsRegister`: a call takes effect once and whole, at the renaming, or not at all.
  What it writes may be shorter than what was there: a prune, a compaction, a reset.
* `InOrder`: the history, without replies, followed by the queue is what was
  posted, at every instant, as long as nothing is posted to an agent that stops.

## 5. Fairness

* Scheduler: weak fairness of the loop, of the clock, of the rest of `stop()` and of
  tasks that can begin or handle their cancellation. The asyncio event loop runs
  every ready callback and timers fire. Nothing is assumed of job functions.
* Coordinator: weak fairness of each call's own steps, its timeout included, while the event
  loop and a thread of the pool are free (`LoopIsFree`, `PoolIsFree`). The call of the model
  in `_plan` (coordinator.py:356) runs on the loop itself and has no time limit; nothing is
  assumed of it, nor of the workers: an agent may hang for ever. `CallsEnd` excepts both.
* Sessions: weak fairness of the consumer tasks and of agents that return. An agent
  that hangs does block its session for ever; the code has no timeout there, so
  `MessagesAreServed` cannot hold without this assumption. Nothing is assumed of
  `start` and `stop`.
* Evolution: weak fairness of the command that has begun, `stop_check` saying nothing, but for
  the run of an exploration. Every question of the director to the brain has a wall clock
  (`_ask_brain`, 240 s); a run may go on for ever, as `think_timeout` is None in auto mode
  (cli.py:279-281) and a summary has no limit in either. The liveness properties therefore
  end where a run begins (`OpenIsExplored`) or begin where it ends (`PickedIsConcluded`).
* Agent: weak fairness of the thread of the run and of an endpoint that answers at all. A
  call may hang for ever, which is why `RunEnds` excepts the calls without a time limit:
  those for a plan and for a summary.
* Tools: weak fairness of each agent and each call: threads of a pool run, a command has a
  time limit, hooks end.
* Storage: none; it has safety properties only.

## 6. Proofs

TLAPS proves the following for every value of the constants that satisfies the
modules' `ASSUME`s (which the runs evaluate) and, where one is named, the hypothesis of the
theorem. All safety properties of section 4 are among them. Before a proof was tried, TLC
checked its inductive invariant on the instance of a run.

`SchedulerProofs`
: * `TypeCorrect`: `TypeOK`.
  * `CountCorrect`: `CountIsLive`. The count is not inductive alone: a stop or a load
    resets it, which is right only if no task is then alive. `CInv` adds that objects
    not made yet have no tasks (`FreshIsIdle`), that a stopped scheduler has no task
    that could begin or return (`StoppedIsIdle`), and that one that has finished
    stopping has no plain-function task left to clean up (`CleanedUp`).
  * `RunsOnce`: `OneShotRunsOnce` when all limits are 1, functions are plain and jobs
    of a stopped scheduler are not triggered. `RunsLeft` says that starts so far and
    tasks that will start are at most one, and that an enabled job's starts are all
    alive. Section 7 shows that the assumption on the limit is needed.
  * `SchedulerImplementsExecutor`: `ImplementsExecutor` when functions are plain and
    jobs of a stopped scheduler are not triggered. Each action is a step of
    `JobExecutor` (`Register`, `Admit`, `End`, `Shed`) or leaves its variables alone.
  * `NothingOverslept`: `NoOversleep`, when saves do not raise (one that does skips the
    wake-up) and one-shot jobs are plain functions with a limit of 1 (`PlainOneShots`;
    otherwise the reset of a count admits one again without a wake-up).

`GoalCoordinatorProofs`
: * `TypeCorrect`: `TypeOK`, with `PosInPlan` (a subtask in progress is one of the
    plan), without which recording a result might leave the type.
  * `OnlyEarnedIsDone`: `DoneIsEarned`. The claim that a subtask is done travels from
    the worker to the event to the driver to the store and back into other copies,
    so `EInv` says of each carrier that what it claims is earned (`PayloadEarned`,
    `OutcomeEarned`), and that a registered job belongs to its goal (`JobsMatch`).
  * `RunVerdictHolds`: `RunVerdictIsEarned`. `RInv` says that the loop of `run()` leaves
    a settled status behind at each place and ends with all of them settled; with `EInv`, no
    failed subtask then means that all are earned.
  * `VerdictHolds`: `VerdictStands`. `Unjudged` says that before a run returns no copy that
    could still be written holds a verdict, unless another call has begun.
  * `RunsImplement`: `RunsKeepTheirPromise`, step by step: each action of a run is the action
    of `GoalLifecycle` with its name or a stutter. `AInv` says that the subtasks behind the
    one in progress are pending.
  * `NoneStranded`: `NeverStranded`, where the host keeps the scheduler running, or there is
    one goal and its calls follow one another (`Hosted`): a scheduler that one of two
    overlapping calls has started is stopped under the other, which then waits for its
    time limit. `Answerable` says who can still answer each wait.
  * `SequentialHolds`: `SequentialUnlessLate`, which is about calls that follow one another.
    `Attended` says that each worker at work and each registered job has its own waiting call,
    of which there is one.
  * `StoreKept`: `StoreInStep`, and `FollowUpHolds`: `FollowUpVerdictIsEarned`. `InStep` says
    that store, driver and worker agree but for the subtask that is waited for; `Quiet` that
    between calls none is in progress, without which `resume()` would skip it (section 7).

`SessionsProofs`
: One invariant for all: a task that is alive is the one in the table or awaited by `stop()`
  unless its session strayed (`TasksKnown`); the lock has one holder and what it holds is in
  the history (`Hands`); a message is in one place (`Places`).
  * `Typed`: `TypeOK`. `ConsumerKept`: `OneConsumer`. `AnswersKept`: `AnswerIsMine`.
    `PlacesKept`: `NothingTwice`.
  * `OrderKept`: `InOrder`, by `Ordered`, which relates queue, history and what was posted by
    indices, for any number of messages.

`AgentRunProofs`
: One invariant again; `Steps` ties history, recorder and step count together, and `Exact` says what
  the guards know of the actions seen.
  * `Typed`: `TypeOK`. `TriedKept`: `NoneMeansAllTried`, each model at least once. `LogKept`:
    `LogHoldsWholeRuns`. `MemoryKept`: `NothingForgotten`. `GuardsKept`: `GuardsAreExact`, of
    the first run of a task, before a compaction and a timeout.
  * `ContextKept`: `ContextIsBounded`. `FewCandidates` bounds what can be compacted after the
    first turn; `Stated` counts the statements of a task, in memory and in its file, by the
    runs that began. What is shown is one and the other, by `OnlyParts`.

`ToolBatchProofs`
: `Locks` says that a file tool past its wait holds the lock of its path, `Reads` that what an
  edit has read is what the writes so far have made of a file that is not spoilt, `Groups` and `Places` what a
  group and the list of results say of the calls.
  * `Typed`: `TypeOK`. `EditsKept`: `NoLostEdit`. `AloneKept`: `AloneIsAlone`. `ResultsKept`:
    `ResultsInPlace`.

`EvolutionProofs`
: `Memories` says that the notes of the process and of the file are trees without two notes
  of one content, and that the first grew from the second; `Busy` that what is worked on is
  a note of memory, and `Tried` that what was explored is shut in both memories and what is
  about to be explored was not. A step moves memory in one of five ways (`Moves`), each of
  which keeps what is shut shut.
  * `Typed`: `TypeOK`. `OnceKept`: `ExploredOnce`. `TreeKept`: `TreeSound`. `DigestKept`:
    `DigestIsRemembered`, which no run lists any more: every theory of the digest is credible
    in the file.
  * `OldestKept`: `OldestFirst`, for any windows and answers, contradictions included.
    `CandidatesHead` says what `open_candidates` puts first; `Ordered` that what is picked
    stays the first until it is shut, and is shut from then on; `NotesMove` that steps only
    add open notes or shut the one that is worked on.
  * `FileKept`: whatever is killed or interrupted, no step takes a note from the file of the
    memory, changes what it says or opens it again, or weakens a theory (`FileGrows`).
  * `ViewsKept`: a life that ends by itself leaves the views of its file, through the window
    of `write_sediment`. `SedimentKept`: they are those of the schedule (`SedimentIsCurrent`)
    as long as memory has no more notes than the smaller window, 50 in the code; beyond that
    curiosity.md lists questions that the schedule does not see, so the hypothesis is needed.
    `SedimentKeptOfFew`: so always when there are no more subjects than that, as in the run.

`StorageProofs`
: About `JsonSpec` and `LineSpec`; `BothBackends` shows that `Storage` implements both.
  * `JsonTypes`: `JsonTypeOK`, which says, too, that a caller is between taking and
    releasing the lock exactly when its backend's lock names it.
  * `FilesAreWhole`: `FileIsWhole`, where one backend serves the callers of a key
    (`OneBackend`). `TmpIsMine` says what the temporary file holds at each place of the one
    writer a key can have; `FilesAreTexts` that a file is the text of a value. Section 7
    shows that the assumption is needed.
  * `FilesAreRegisters`: `ImplementsRegister`, under the same assumption, whatever the
    callers do with a value. Each step is a step of `DurableValue` or a stutter: `Replace`
    takes effect, `Return` acknowledges; `Builds` says that what an `append` will write is
    the value that is there and one record.
  * `LossBounded`: `LossIsBounded`, where one backend, hence one lock, serves the file
    (`OneLineLock`; section 7 shows two whose lines mix). `Budget` counts the records
    that are missing and the one that a line without an end will cost; `Cuts` says that
    only a record that was cut short leaves a character without its end.

`SubsequencesProofs`
: `Only(s, S)` keeps the elements of `s` that are in `S`. It is a recursive function and not
  `SelectSeq`, of which the provers know nothing; that the function exists is `UptoIs`, by `Induct`
  over `LeastNumber`. `OnlyRange`, `OnlyAppend`, `OnlyTwice`, `OnlyAfter`, `OnlyParts` and `OnlyHead` are what the
  proofs about agents and about self-evolution need. The candidates of `Evolution` are proved
  about in the same way (`BelowIs`, `CandidatesAreOpen`, `NothingCut`).

Only model-checked: the liveness properties (`DueIsStarted`, `CallsEnd`, `MessagesAreServed`,
`OpenIsExplored`, `PickedIsConcluded`, `RunEnds`, `BatchEnds`), as fairness and `ENABLED` are
beyond the prover, and what section 7 refutes.

## 7. What does not hold

One listed run is a statement of the repository that the code does not keep:

* `goals_resume`: a goal whose process died during a subtask is reported `done` by
  `resume()` although that subtask never finished: a subtask stored as `running` is
  neither executed again (coordinator.py:217) nor counted as failed (219).

The following configurations are kept beside the listed runs. Each checks one
property in an instance where it fails; a property named in quotation marks is a
statement of the repository:

| configuration | property | what happens |
|---|---|---|
| `MCSchedulerOnceTwice` | `OneShotRunsOnce`, "Run a job exactly once" (scheduler.py:17) | the job is disabled when its run ends and its next instant is computed as now, so with `max_running` 2 the next pass of the loop starts it again |
| `MCSchedulerOrphans` | `ExecutionsWithinMax` | after stop and start, the thread of a cancelled job and a new run execute together |
| `MCSchedulerTrigger` | `TasksWithinMax` | `run_job_now` on a stopped scheduler, then `start()`, which resets the count |
| `MCGoalsCancel` | `CancelStays`, "Mark a goal as cancelled." (coordinator.py:237) | `cancel()` is undone by the next save of the run in progress, whose check (202) looks at its own copy |
| `MCGoalsPlanLost` | `ResumedHasPlan` | a goal that died while planning has no subtasks and is resumed to `done` |
| `MCSessionsOrphans` | `OneTurnAtATime` | after stop and start, the agent works on a turn while the cancelled one still runs |
| `MCSessionsKnown` | `QueuedIsConsumed` | `start()` makes no consumers for queues that were left |
| `MCSessionsStream` | `StopIsAnAnswer`, "a timed-out turn yields an empty answer rather than pretending a normal stop" (api.py:343-344) | the streamed turn ends with `stop` when it times out (293, 306) |
| `MCEvolutionInterrupted` | `NothingIsLost`, "an interrupted life loses nothing" (evolution.py:725-726) | a question marked `testing` when the command ends is never open again |
| `MCEvolutionUntested` | `ResolvedHasTrial`, "every exploration run lands in memory as a kind="experiment" record" (evolution.py:15) | the batch of the run has settled the question before its record is written; or the record merges with another's |
| `MCAgentConverge` | `NonConvergenceIsTold`, "When the run length crosses a threshold the guard emits" (loop_guards.py:206-211) | the count jumps over the threshold when a notice of the other guard hides a step |
| `MCAgentNotices` | `NoticesAreMine`, "A new user/task turn resets both chains" (loop_guards.py:29-30) | the pending notice is not reset and is shown to the next task |
| `MCAgentTokens` | `TokensAreMine`, late emissions "no-op" (agent.py:233-235) | a call that was given up streams into the sinks of the next run of the agent |
| `MCStorageTwoBackends` | `FileIsWhole`, "atomically replace" (storage.py:97) | two backends over one directory share the temporary file |
| `MCStorageCounts` | `CountsStay`, "Increment the violation count" (violations.py:156): what was counted stays, but for a reset | two threads read the same count |
| `MCStorageRunLog` | `FinishedLinesLoad` (run_log.py:97) | two processes' or threads' backends interleave the pieces of long lines |
| `MCToolErrors` | `ErrorChangesNothing` (tools/fs.py:143) | a write that fails after the file was opened leaves it empty, and with it goes what earlier edits had reported |

Observations made on the way, of which no configuration is kept:

* `add_job` does not wake the loop, so a new one-shot job may wait for another job's
  interval (scheduler.py:92-110). A subtask that timed out is still at work when the next
  one starts, so "sequentially" ends there (coordinator.py:264).
* The planning call holds the event loop while it lasts, with all other calls and their
  timeouts, and has no time limit itself (coordinator.py:352-377).
* A task made while `stop()` awaits lives on beside its successor; both take a message before
  they take the lock, and may handle them out of order (async_agent.py:48, 60-64). For a
  session id that is not a safe key, storing raises after the message was taken.
* Wonders that memory knows already reset the streak of dry rounds, so a life with nothing
  new goes on (evolution.py:777). Planning and summaries call the model without the time
  limit that keeps "the loop moving" (agent.py:243-245).
* `FallbackModel` has no attribute `supports_tools`, so a chain is never offered tools.
  An endpoint that rejects tools on the last attempt is not asked again without them
  (models.py:467, 486). Streaming (557-585) collects text only: a native tool call is
  lost and becomes an empty echo; a stream that fails midway is retried and its tokens
  are emitted twice.
* A conjecture is recorded again by the next command when one is killed between
  `_record_conjecture` and `_set_status` (evolution.py:267, 270). A dream that repeats
  itself four times makes a theory credible enough for the digest (583). With more open
  questions than a query returns (50), older ones are hidden from the schedule while
  curiosity.md, whose window is 500, lists them.
* A question may wait for ever although it is open: each run may note contradictions, which
  are sorted ahead of it (evolution.py:323-324), questions higher in the tree come
  first as well, and newer questions push it out of the window. No property denies it.
* An append that is torn inside a character makes the whole stream unreadable: `read_text`
  (storage.py:223) stands outside the `try` that skips bad lines. A record with U+2028, U+2029
  or U+0085 is never read again, as `splitlines()` takes its line apart.
* The statement of a task stays in memory when its run was interrupted or not reflected on
  (memory.py:464 leaves it out of compaction), and each later run of the same task is shown
  all of them (perception.py:92). What is shown has no bound over many such runs.
* The run log is written before the memory of the run is saved, so a crash between them
  leaves a run in the log of which memory knows nothing.
* A tool unknown to the registry makes a batch raise although earlier groups have run.
* `JSONBackend.create` makes an empty file, which `load` cannot parse.

## 8. What is not modelled

Text (parsing of model output, prompts, formatting), HTTP and
subprocess I/O, permission modes and guards (pure functions of a command or a path),
metrics and logging (nothing depends on them), the explorer (one call of `Agent.run`), the
command line but for the two commands of self-evolution, benchmarks and experiments.

Within modelled parts: relevance search and the decay of credibility in
`memory.py`; `_update_beliefs` of the reflector, which changes memories that neither
schedule nor end an exploration; `RecordingModel`, which writes a log of calls; the
in-memory backend; queries of a backend; `close_session`,
which has no caller. A save of memory that raises, or an
interrupt between adding a record and saving it; the task of `--auto-evolve` before its
cycle; a formatter that is killed while it writes.

## 9. Plan

Every safety property that a run checks is a theorem. What remains is the composition of
`GoalCoordinator` with `JobExecutor` in place of its reduced scheduler, so that the
assumption of section 3 on the scheduler is discharged by refinement and not only by what
`Scheduler` shows of one-shot jobs.
