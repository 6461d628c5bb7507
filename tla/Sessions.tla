------------------------------- MODULE Sessions -------------------------------
(***************************************************************************)
(* Chat sessions: MessageBus (swaybot/bus.py), AsyncAgent                  *)
(* (swaybot/async_agent.py), the history SessionManager keeps              *)
(* (swaybot/session.py) and the turns api.py waits for.                    *)
(*                                                                         *)
(* A session has a queue and at most one consumer task known to the agent. *)
(* Tasks have names of their own, <<session, n>>: the n-th task made for   *)
(* the session, because a task may outlive its place in the table.  The    *)
(* per-session lock is held exactly in the phases "gathering" and          *)
(* "thinking".                                                             *)
(*                                                                         *)
(* Handlers of outbound messages are plain functions, so publishing does   *)
(* not yield: everything a turn emits is logged and heard in one step, and *)
(* one Reply stands for it.                                                *)
(***************************************************************************)
EXTENDS Integers, Sequences, Functions

CONSTANTS
  SessionIds,       \* session ids
  Messages,         \* inbound messages
  SessionOf,        \* [Messages -> SessionIds]
  Turns,            \* the messages posted by _run_one_turn and _stream_chat,
                    \* which wait for the answer
  Streamed,         \* the turns of _stream_chat
  Blank,            \* the messages whose text strips to nothing
  Unsafe,           \* the ids SessionManager._safe_id rejects
  MaxConsumers,     \* bound: tasks made for one session
  MaxStops,         \* bound: calls of stop()
  FactoryMayRaise,  \* may agent_factory raise
  Reply             \* the mark of a turn's output in the log

\* chat_completions gives each turn a session of its own.
OwnSession(t) == \A m \in Messages : SessionOf[m] = SessionOf[t] => m = t

ASSUME SessionsAssumption ==
  /\ SessionOf \in [Messages -> SessionIds]
  /\ Turns \subseteq Messages
  /\ Streamed \subseteq Turns
  /\ Blank \subseteq Messages
  /\ Unsafe \subseteq SessionIds
  /\ MaxConsumers \in Nat \ {0}
  /\ MaxStops \in Nat
  /\ FactoryMayRaise \in BOOLEAN
  /\ Reply \notin Messages
  /\ \A t \in Turns : OwnSession(t)

Consumers == SessionIds \X (1 .. MaxConsumers)

VARIABLES
  running,   \* AsyncAgent._running
  stopping,  \* stop() awaits the tasks it has cancelled
  awaited,   \* the tasks it awaits
  stops,     \* calls of stop() so far
  queue,     \* [SessionIds -> Seq(Messages)]
  table,     \* [SessionIds -> Nat]: the task in _tasks, 0 when there is none
  made,      \* [SessionIds -> Nat]: tasks made so far
  phase,     \* [Consumers -> Phases]
  hand,      \* [Consumers -> Seq(Messages)]: messages taken, not yet answered
  orphans,   \* [SessionIds -> Nat]: agent threads whose task was cancelled
  log,       \* [SessionIds -> Seq(Messages \cup {Reply})]: the stored history
  turn,      \* [Turns -> {"none", "waiting", "answered", "timedout"}]
  heard,     \* history: [Turns -> SUBSET Messages], the batch of the answer
  posted,    \* history: [SessionIds -> Seq(Messages)]
  served,    \* history: messages of a batch whose final output was emitted
  strayed    \* history: sessions posted to while stop() awaited its tasks

control == <<running, stopping, awaited, stops>>
tasks == <<table, made>>
turns == <<turn, heard>>
past == <<posted, served, strayed>>
vars == <<control, queue, tasks, phase, hand, orphans, log, turns, past>>

Phases == {"none", "new", "waiting", "locking", "gathering", "thinking", "over"}

-----------------------------------------------------------------------------
(* The message bus and the history.                                        *)

\* MessageBus.post
Put(m) == queue' = [queue EXCEPT ![SessionOf[m]] = Append(@, m)]

\* MessageBus.get, when it returns a message.
Get(s) == queue[s] # << >> /\ queue' = [queue EXCEPT ![s] = Tail(@)]

Locked(s) ==
  \E c \in Consumers : c[1] = s /\ phase[c] \in {"gathering", "thinking"}

\* SessionManager.append, which raises for an id that is not safe.
Rejects(s) == s \in Unsafe
Store(s, m) == log' = [log EXCEPT ![s] = Append(@, m)]

\* emit: the event bus calls every subscriber in turn; one that waits for this session
\* takes the message for its answer.
Subscribers(s) == {t \in Turns : turn[t] = "waiting" /\ SessionOf[t] = s}
Publish(subscribers, batch) ==
  /\ turn' = [t \in Turns |-> IF t \in subscribers THEN "answered" ELSE turn[t]]
  /\ heard' = [t \in Turns |-> IF t \in subscribers THEN batch ELSE heard[t]]

-----------------------------------------------------------------------------
(* Parts of the consumers.                                                 *)

\* The `while self._running' of run_session.
LoopPhase == IF running THEN "waiting" ELSE "over"

\* The message opens a turn: it is appended to the history first, which raises
\* for an id that is not safe and ends the task.
OpenTurn(c, m) ==
  IF Rejects(c[1])
  THEN /\ phase' = [phase EXCEPT ![c] = "over"]
       /\ hand' = [hand EXCEPT ![c] = << >>]
       /\ UNCHANGED log
  ELSE /\ phase' = [phase EXCEPT ![c] = "gathering"]
       /\ hand' = [hand EXCEPT ![c] = <<m>>]
       /\ Store(c[1], m)

\* ensure_session: a task that is over is replaced.
EnsureSession(s) ==
  IF table[s] = 0 \/ phase[<<s, table[s]>>] = "over"
  THEN /\ made[s] < MaxConsumers
       /\ made' = [made EXCEPT ![s] = @ + 1]
       /\ table' = [table EXCEPT ![s] = made[s] + 1]
       /\ phase' = [phase EXCEPT ![<<s, made[s] + 1>>] = "new"]
  ELSE UNCHANGED <<made, table, phase>>

-----------------------------------------------------------------------------
(* Calls made on the agent.                                                *)

\* post(); a turn has subscribed before it and waits after it.
Post(m) ==
  LET s == SessionOf[m] IN
  /\ m \notin Range(posted[s])
  /\ EnsureSession(s)
  /\ Put(m)
  /\ posted' = [posted EXCEPT ![s] = Append(@, m)]
  /\ turn' = [t \in Turns |-> IF t = m THEN "waiting" ELSE turn[t]]
  /\ strayed' = IF stopping THEN strayed \cup {s} ELSE strayed
  /\ UNCHANGED <<control, hand, orphans, log, heard, served>>

\* 30 s pass without output: the turn unsubscribes.
TurnTimesOut(t) ==
  /\ turn[t] = "waiting"
  /\ turn' = [turn EXCEPT ![t] = "timedout"]
  /\ UNCHANGED <<control, queue, tasks, phase, hand, orphans, log, heard, past>>

\* start() sets the flag and starts nothing.
Start ==
  /\ ~running /\ ~stopping
  /\ running' = TRUE
  /\ UNCHANGED <<stopping, awaited, stops, queue, tasks, phase, hand, orphans,
                 log, turns, past>>

\* stop() up to its await.  A cancelled task ends and drops what it holds; the
\* thread of its agent goes on.  Up to Python 3.11 wait_for returns a result
\* that is there when the cancellation comes: such a task goes on.
StopBegin ==
  LET known == {c \in Consumers : table[c[1]] = c[2] /\ phase[c] # "over"}
      lucky == {c \in known : /\ phase[c] \in {"waiting", "gathering"}
                              /\ queue[c[1]] # << >>}
  IN
  /\ running
  /\ stops < MaxStops
  /\ stops' = stops + 1
  /\ running' = FALSE
  /\ stopping' = TRUE
  /\ awaited' = known
  /\ \E ended \in SUBSET known :
       /\ known \ ended \subseteq lucky
       /\ phase' = [c \in Consumers |-> IF c \in ended THEN "over" ELSE phase[c]]
       /\ hand' = [c \in Consumers |-> IF c \in ended THEN << >> ELSE hand[c]]
       /\ orphans' = [s \in SessionIds |->
            IF \E c \in ended : c[1] = s /\ phase[c] = "thinking"
            THEN orphans[s] + 1 ELSE orphans[s]]
  /\ UNCHANGED <<queue, tasks, log, turns, past>>

\* Mutant of StopEnd: the table is cleared without waiting for the tasks.
StopEndAtOnce ==
  /\ stopping
  /\ stopping' = FALSE
  /\ awaited' = {}
  /\ table' = [s \in SessionIds |-> 0]
  /\ UNCHANGED <<running, stops, queue, made, phase, hand, orphans, log, turns,
                 past>>

\* The rest of stop(): the whole table is cleared.
StopEnd ==
  /\ stopping
  /\ \A c \in awaited : phase[c] = "over"
  /\ stopping' = FALSE
  /\ awaited' = {}
  /\ table' = [s \in SessionIds |-> 0]
  /\ UNCHANGED <<running, stops, queue, made, phase, hand, orphans, log, turns,
                 past>>

-----------------------------------------------------------------------------
(* run_session()                                                           *)

Begin(c) ==
  /\ phase[c] = "new"
  /\ \/ phase' = [phase EXCEPT ![c] = LoopPhase]
     \/ FactoryMayRaise /\ phase' = [phase EXCEPT ![c] = "over"]
  /\ UNCHANGED <<control, queue, tasks, hand, orphans, log, turns, past>>

\* bus.get returns None; the flag is read again.
Idle(c) ==
  /\ phase[c] = "waiting"
  /\ ~running
  /\ phase' = [phase EXCEPT ![c] = "over"]
  /\ UNCHANGED <<control, queue, tasks, hand, orphans, log, turns, past>>

\* Mutant of Take: the message stays in the queue.
TakePeeks(c) ==
  LET s == c[1] IN
  /\ phase[c] = "waiting"
  /\ queue[s] # << >>
  /\ IF Locked(s)
     THEN /\ phase' = [phase EXCEPT ![c] = "locking"]
          /\ hand' = [hand EXCEPT ![c] = <<Head(queue[s])>>]
          /\ UNCHANGED log
     ELSE OpenTurn(c, Head(queue[s]))
  /\ UNCHANGED <<control, queue, tasks, orphans, turns, past>>

\* bus.get returns a message; the lock, when it is free, is taken at once.
Take(c) ==
  LET s == c[1] IN
  /\ phase[c] = "waiting"
  /\ Get(s)
  /\ IF Locked(s)
     THEN /\ phase' = [phase EXCEPT ![c] = "locking"]
          /\ hand' = [hand EXCEPT ![c] = <<Head(queue[s])>>]
          /\ UNCHANGED log
     ELSE OpenTurn(c, Head(queue[s]))
  /\ UNCHANGED <<control, tasks, orphans, turns, past>>

TakeLock(c) ==
  /\ phase[c] = "locking"
  /\ ~Locked(c[1])
  /\ OpenTurn(c, Head(hand[c]))
  /\ UNCHANGED <<control, queue, tasks, orphans, turns, past>>

\* Mutant of Gather: a message that joins a turn is not stored.
GatherUnlogged(c) ==
  LET s == c[1] IN
  /\ phase[c] = "gathering"
  /\ Get(s)
  /\ hand' = [hand EXCEPT ![c] = Append(@, Head(queue[s]))]
  /\ UNCHANGED <<control, tasks, phase, orphans, log, turns, past>>

\* Messages that arrive before the turn starts join it.
Gather(c) ==
  LET s == c[1] IN
  /\ phase[c] = "gathering"
  /\ Get(s)
  /\ hand' = [hand EXCEPT ![c] = Append(@, Head(queue[s]))]
  /\ Store(s, Head(queue[s]))
  /\ UNCHANGED <<control, tasks, phase, orphans, turns, past>>

\* Mutant of GatherEnds: a turn without text ends the task, not just the turn.
GatherEndsTask(c) ==
  /\ phase[c] = "gathering"
  /\ IF Range(hand[c]) \subseteq Blank
     THEN /\ phase' = [phase EXCEPT ![c] = "over"]
          /\ hand' = [hand EXCEPT ![c] = << >>]
     ELSE /\ phase' = [phase EXCEPT ![c] = "thinking"]
          /\ UNCHANGED hand
  /\ UNCHANGED <<control, queue, tasks, orphans, log, turns, past>>

\* Nothing came for 0.05 s: the agent gets the joined text in a thread, unless
\* there is none.
GatherEnds(c) ==
  /\ phase[c] = "gathering"
  /\ IF Range(hand[c]) \subseteq Blank
     THEN /\ phase' = [phase EXCEPT ![c] = LoopPhase]
          /\ hand' = [hand EXCEPT ![c] = << >>]
     ELSE /\ phase' = [phase EXCEPT ![c] = "thinking"]
          /\ UNCHANGED hand
  /\ UNCHANGED <<control, queue, tasks, orphans, log, turns, past>>

\* Mutant of AgentEnds: turns do not look at the session of what they hear.
AgentEndsForAll(c) ==
  LET s == c[1] IN
  /\ phase[c] = "thinking"
  /\ phase' = [phase EXCEPT ![c] = LoopPhase]
  /\ hand' = [hand EXCEPT ![c] = << >>]
  /\ Store(s, Reply)
  /\ Publish({t \in Turns : turn[t] = "waiting"}, Range(hand[c]))
  /\ served' = served \cup Range(hand[c])
  /\ UNCHANGED <<control, queue, tasks, orphans, posted, strayed>>

\* agent.run returned, or raised: either way the last output is final, and the
\* turns that wait on the session take it for their answer.
AgentEnds(c) ==
  LET s == c[1] IN
  /\ phase[c] = "thinking"
  /\ phase' = [phase EXCEPT ![c] = LoopPhase]
  /\ hand' = [hand EXCEPT ![c] = << >>]
  /\ Store(s, Reply)
  /\ Publish(Subscribers(s), Range(hand[c]))
  /\ served' = served \cup Range(hand[c])
  /\ UNCHANGED <<control, queue, tasks, orphans, posted, strayed>>

\* The thread of a cancelled task ends; nobody looks at its result.
OrphanReturns(s) ==
  /\ orphans[s] > 0
  /\ orphans' = [orphans EXCEPT ![s] = @ - 1]
  /\ UNCHANGED <<control, queue, tasks, phase, hand, log, turns, past>>

-----------------------------------------------------------------------------
Init ==
  /\ running = FALSE /\ stopping = FALSE /\ awaited = {} /\ stops = 0
  /\ queue = [s \in SessionIds |-> << >>]
  /\ table = [s \in SessionIds |-> 0]
  /\ made = [s \in SessionIds |-> 0]
  /\ phase = [c \in Consumers |-> "none"]
  /\ hand = [c \in Consumers |-> << >>]
  /\ orphans = [s \in SessionIds |-> 0]
  /\ log = [s \in SessionIds |-> << >>]
  /\ turn = [t \in Turns |-> "none"]
  /\ heard = [t \in Turns |-> {}]
  /\ posted = [s \in SessionIds |-> << >>]
  /\ served = {}
  /\ strayed = {}

Consumer(c) ==
  Begin(c) \/ Idle(c) \/ Take(c) \/ TakeLock(c) \/ Gather(c) \/ GatherEnds(c)

Next ==
  \/ \E m \in Messages : Post(m)
  \/ \E t \in Turns : TurnTimesOut(t)
  \/ Start \/ StopBegin \/ StopEnd
  \/ \E c \in Consumers : Consumer(c) \/ AgentEnds(c)
  \/ \E s \in SessionIds : OrphanReturns(s)

Spec == Init /\ [][Next]_vars

\* The event loop runs what is ready, and the gathering ends because only so
\* many messages are posted.  Agents are assumed to end: a brain that hangs
\* blocks its session for ever.
FairSpec ==
  /\ Spec
  /\ \A c \in Consumers : WF_vars(Consumer(c)) /\ WF_vars(AgentEnds(c))

-----------------------------------------------------------------------------
TypeOK ==
  /\ running \in BOOLEAN /\ stopping \in BOOLEAN
  /\ awaited \subseteq Consumers
  /\ stops \in 0 .. MaxStops
  /\ queue \in [SessionIds -> Seq(Messages)]
  /\ table \in [SessionIds -> 0 .. MaxConsumers]
  /\ made \in [SessionIds -> 0 .. MaxConsumers]
  /\ phase \in [Consumers -> Phases]
  /\ hand \in [Consumers -> Seq(Messages)]
  /\ orphans \in [SessionIds -> Nat]
  /\ log \in [SessionIds -> Seq(Messages \cup {Reply})]
  /\ turn \in [Turns -> {"none", "waiting", "answered", "timedout"}]
  /\ heard \in [Turns -> SUBSET Messages]
  /\ posted \in [SessionIds -> Seq(Messages)]
  /\ served \subseteq Messages
  /\ strayed \subseteq SessionIds

Alive(c) == phase[c] \notin {"none", "over"}

\* A session never has two consumer tasks, however often the agent is stopped
\* and started, as long as nothing is posted to it while stop() awaits its tasks
\* (ensure_session, stop): such a message makes a task that stop() forgets.
OneConsumer ==
  \A c, d \in Consumers :
    /\ c[1] = d[1] /\ c[1] \notin strayed
    /\ Alive(c) /\ Alive(d)
    => c = d

\* The messages of a session go through its queue into its history in the order
\* they were posted, none lost and none twice, across stops and starts, dead
\* tasks and messages that join a turn (post, run_session): the queue is the end of
\* what was posted, and the history has the rest in its order.
InOrder ==
  \A s \in SessionIds \ (Unsafe \cup strayed) :
    LET taken == Len(posted[s]) - Len(queue[s])
        At(j, i) == log[s][j] = posted[s][i]
    IN /\ taken >= 0 /\ \A i \in DOMAIN queue[s] : queue[s][i] = posted[s][taken + i]
       /\ \A i \in 1 .. taken : \E j \in DOMAIN log[s] : At(j, i)
       /\ \A j \in DOMAIN log[s] : log[s][j] # Reply => \E i \in 1 .. taken : At(j, i)
       /\ \A j, k \in DOMAIN log[s] : \A i, h \in 1 .. taken :
            At(j, i) /\ At(k, h) /\ j < k => i < h

\* Even when a session has two tasks, each message is handled by one of them:
\* it is never both queued and logged, nor logged twice, nor held twice.
NothingTwice ==
  /\ \A s \in SessionIds :
       /\ IsInjective(queue[s]) /\ Range(log[s]) \cap Range(queue[s]) = {}
       /\ \A i, j \in DOMAIN log[s] : log[s][i] = log[s][j] /\ log[s][i] # Reply => i = j
  /\ \A c, d \in Consumers : c # d => Range(hand[c]) \cap Range(hand[d]) = {}

\* "protected by a per-session lock" (async_agent.py:16): the agent of a session
\* works on one turn at a time, the threads of cancelled turns included.
OneTurnAtATime ==
  \A c \in Consumers : phase[c] = "thinking" => orphans[c[1]] = 0

\* A turn never takes the answer to something else for its own, however turns,
\* posts and timeouts of several sessions overlap on the shared event bus.
AnswerIsMine == \A t \in Turns : turn[t] = "answered" => t \in heard[t]

\* No message is forgotten: one with some text that lies in the queue of a task
\* at work is answered in the end, unless the agent is stopped (run_session).
MessagesAreServed ==
  \A m \in Messages \ Blank :
    LET s == SessionOf[m]
        Heard == \E c \in Consumers :
          c[1] = s /\ Alive(c) /\ phase[c] # "new" /\ c[2] = table[s]
    IN running /\ m \in Range(queue[s]) /\ Heard ~> m \in served \/ ~running

\* How _run_one_turn and _stream_chat report the end of a turn: only the former
\* tells a timeout.
Ending(t) ==
  CASE turn[t] \in {"none", "waiting"} -> "open"
    [] turn[t] = "timedout" /\ t \notin Streamed -> "timeout"
    [] OTHER -> "stop"

\* "a timed-out turn yields an empty answer rather than pretending a normal stop"
\* (api.py:343-344): what ends with "stop" has been answered.
StopIsAnAnswer == \A t \in Turns : Ending(t) = "stop" => t \in heard[t]

\* "Begin accepting messages for all known sessions." (async_agent.py:38): while
\* the agent runs, a session with messages has a task to consume them.
QueuedIsConsumed ==
  running => \A s \in SessionIds :
    queue[s] # << >> => \E c \in Consumers : c[1] = s /\ Alive(c)
=============================================================================
