---------------------------- MODULE SessionsProofs ----------------------------
(***************************************************************************)
(* Proofs about Sessions, for any sessions, messages, stops and tasks.     *)
(***************************************************************************)
EXTENDS Sessions, TLAPS

-----------------------------------------------------------------------------
(* The inductive invariant, in parts.                                      *)

Holding(c) == phase[c] \in {"gathering", "thinking"}

\* A task exists when it was made; unless its session strayed it is in the table, and
\* stop() waits for it.
TasksKnown ==
  /\ \A s \in SessionIds : table[s] <= made[s]
  /\ \A c \in Consumers : phase[c] = "none" <=> c[2] > made[c[1]]
  /\ \A c \in Consumers : Alive(c) /\ c[1] \notin strayed => c[2] = table[c[1]]
  /\ stopping => /\ ~running
                 /\ \A c \in Consumers : Alive(c) /\ c[1] \notin strayed => c \in awaited

\* A task has messages in its hand from the time it takes one.
HandsFull == \A c \in Consumers : hand[c] # << >> <=> Holding(c) \/ phase[c] = "locking"

\* The lock of a session has one holder; what the holder has is in the history, and
\* what a task that waits for the lock has is not.
Hands ==
  /\ \A c, d \in Consumers : c[1] = d[1] /\ Holding(c) /\ Holding(d) => c = d
  /\ \A c \in Consumers :
       /\ Range(hand[c]) \subseteq Range(posted[c[1]])
       /\ Holding(c) => Range(hand[c]) \subseteq Range(log[c[1]])
       /\ phase[c] = "locking" =>
            /\ Len(hand[c]) = 1 /\ c[1] \in strayed
            /\ hand[c][1] \notin Range(log[c[1]]) \cup Range(queue[c[1]])
  /\ \A c, d \in Consumers :
       phase[c] = "locking" /\ phase[d] = "locking" /\ hand[c][1] = hand[d][1] => c = d

\* The messages of session s, queued in q and logged in l, were posted there, in p,
\* and are in one place.
Placed(s, q, l, p) ==
  /\ Range(q) \cup (Range(l) \ {Reply}) \subseteq Range(p)
  /\ IsInjective(p) /\ \A m \in Range(p) : SessionOf[m] = s
  /\ IsInjective(q) /\ Range(l) \cap Range(q) = {}
  /\ \A i, j \in DOMAIN l : l[i] = l[j] /\ l[i] # Reply => i = j

Places == \A s \in SessionIds : Placed(s, queue[s], log[s], posted[s])

\* InOrder, for one session; taken is how many messages have left the queue.
OrderedFrom(taken, q, l, p) ==
  /\ taken >= 0 /\ \A i \in DOMAIN q : q[i] = p[taken + i]
  /\ \A i \in 1 .. taken : \E j \in DOMAIN l : l[j] = p[i]
  /\ \A j \in DOMAIN l : l[j] # Reply => \E i \in 1 .. taken : l[j] = p[i]
  /\ \A j, k \in DOMAIN l : \A i, h \in 1 .. taken :
       l[j] = p[i] /\ l[k] = p[h] /\ j < k => i < h
Ordered(q, l, p) == OrderedFrom(Len(p) - Len(q), q, l, p)

Inv ==
  TypeOK /\ HandsFull /\ TasksKnown /\ Hands /\ Places /\ InOrder /\ AnswerIsMine

-----------------------------------------------------------------------------
(* Lemmas about the operators.                                             *)

LEMMA ConsumerPair ==
  ASSUME NEW c \in Consumers
  PROVE  c[1] \in SessionIds /\ c[2] \in 1 .. MaxConsumers /\ c = <<c[1], c[2]>>
  BY DEF Consumers

\* What one more element, and one element less, do to a sequence.
LEMMA AppendRange ==
  ASSUME NEW S, NEW q \in Seq(S), NEW e \in S
  PROVE  /\ Append(q, e) \in Seq(S) /\ Append(q, e) # << >>
         /\ Range(Append(q, e)) = Range(q) \cup {e}
         /\ IsInjective(q) /\ e \notin Range(q) => IsInjective(Append(q, e))
<1>1. /\ Append(q, e) \in Seq(S) /\ Len(Append(q, e)) = Len(q) + 1 /\ Len(q) \in Nat
      /\ DOMAIN q = 1 .. Len(q) /\ DOMAIN Append(q, e) = 1 .. Len(q) + 1
      /\ \A i \in 1 .. Len(q) : Append(q, e)[i] = q[i]
      /\ Append(q, e)[Len(q) + 1] = e
  OBVIOUS
<1> DEFINE r == Append(q, e)
<1> HIDE DEF r
<1>2. Range(r) = Range(q) \cup {e}
  BY <1>1 DEF Range, r
<1>3. IsInjective(q) /\ e \notin Range(q) => IsInjective(r)
  BY <1>1 DEF IsInjective, Range, r
<1>4. r # << >>
  <2>1. Len(<< >>) = 0
    OBVIOUS
  <2>2. QED
    BY <1>1, <2>1 DEF r
<1>5. QED
  BY <1>1, <1>2, <1>3, <1>4 DEF r

LEMMA TailRange ==
  ASSUME NEW S, NEW q \in Seq(S), q # << >>
  PROVE  /\ Head(q) = q[1] /\ Head(q) \in S /\ Tail(q) \in Seq(S)
         /\ Len(q) \in Nat \ {0} /\ Len(Tail(q)) = Len(q) - 1
         /\ \A i \in 1 .. Len(q) - 1 : Tail(q)[i] = q[i + 1]
         /\ Range(q) = Range(Tail(q)) \cup {Head(q)}
         /\ IsInjective(q) => IsInjective(Tail(q)) /\ Head(q) \notin Range(Tail(q))
<1>1. /\ Head(q) = q[1] /\ Head(q) \in S /\ Tail(q) \in Seq(S)
      /\ Len(q) \in Nat \ {0} /\ Len(Tail(q)) = Len(q) - 1
      /\ DOMAIN q = 1 .. Len(q) /\ DOMAIN Tail(q) = 1 .. Len(q) - 1
      /\ \A i \in 1 .. Len(q) - 1 : Tail(q)[i] = q[i + 1]
  OBVIOUS
<1> DEFINE r == Tail(q)
<1> HIDE DEF r
<1>2. Range(q) = Range(r) \cup {q[1]}
  <2>1. \A i \in 1 .. Len(q) : i = 1 \/ (i - 1 \in 1 .. Len(q) - 1 /\ q[i] = r[i - 1])
    BY <1>1 DEF r
  <2>2. \A i \in 1 .. Len(q) - 1 : i + 1 \in 1 .. Len(q) /\ r[i] = q[i + 1]
    BY <1>1 DEF r
  <2>3. \A e \in Range(q) : e \in Range(r) \cup {q[1]}
    <3> SUFFICES ASSUME NEW i \in 1 .. Len(q) PROVE q[i] \in Range(r) \cup {q[1]}
      BY <1>1 DEF Range
    <3>1. QED
      BY <1>1, <2>1 DEF Range, r
  <2>4. \A e \in Range(r) : e \in Range(q)
    <3> SUFFICES ASSUME NEW i \in 1 .. Len(q) - 1 PROVE r[i] \in Range(q)
      BY <1>1 DEF Range, r
    <3>1. QED
      BY <1>1, <2>2 DEF Range
  <2>5. q[1] \in Range(q)
    BY <1>1 DEF Range
  <2>6. QED
    BY <2>3, <2>4, <2>5
<1>3. IsInjective(q) => IsInjective(r) /\ q[1] \notin Range(r)
  BY <1>1 DEF IsInjective, Range, r
<1>4. QED
  BY <1>1, <1>2, <1>3 DEF r

\* ensure_session leaves a task alone, or makes one.
LEMMA EnsureCases ==
  ASSUME TypeOK, NEW s \in SessionIds, EnsureSession(s)
  PROVE  \/ /\ UNCHANGED <<made, table, phase>>
            /\ table[s] # 0 /\ phase[<<s, table[s]>>] # "over"
         \/ \E n \in 1 .. MaxConsumers :
              /\ n = made[s] + 1 /\ (table[s] = 0 \/ phase[<<s, table[s]>>] = "over")
              /\ made' = [made EXCEPT ![s] = n] /\ table' = [table EXCEPT ![s] = n]
              /\ phase' = [phase EXCEPT ![<<s, n>>] = "new"]
<1>1. CASE table[s] = 0 \/ phase[<<s, table[s]>>] = "over"
  <2>1. made[s] \in Nat /\ made[s] < MaxConsumers /\ MaxConsumers \in Nat
        /\ made' = [made EXCEPT ![s] = made[s] + 1]
    BY <1>1, SessionsAssumption DEF TypeOK, EnsureSession
  <2>2. made[s] + 1 \in 1 .. MaxConsumers
    BY <2>1
  <2>3. QED
    BY <1>1, <2>1, <2>2 DEF EnsureSession
<1>2. CASE ~(table[s] = 0 \/ phase[<<s, table[s]>>] = "over")
  BY <1>2 DEF EnsureSession
<1>3. QED
  BY <1>1, <1>2

-----------------------------------------------------------------------------
(* Types.                                                                  *)

LEMMA InitTyped == Init => TypeOK
<1> SUFFICES ASSUME Init PROVE TypeOK
  OBVIOUS
<1>1. 0 \in 0 .. MaxConsumers /\ 0 \in 0 .. MaxStops
  BY SessionsAssumption
<1>2. /\ \A S : << >> \in Seq(S)
      /\ [c \in Consumers |-> "none"] \in [Consumers -> Phases]
  BY DEF Phases
<1>3. QED
  BY <1>1, <1>2 DEF Init, TypeOK

LEMMA OpenTurnTyped ==
  ASSUME TypeOK, NEW c \in Consumers, NEW m \in Messages, OpenTurn(c, m)
  PROVE  /\ phase' \in [Consumers -> Phases] /\ hand' \in [Consumers -> Seq(Messages)]
         /\ log' \in [SessionIds -> Seq(Messages \cup {Reply})]
<1>1. <<m>> \in Seq(Messages) /\ << >> \in Seq(Messages) /\ c[1] \in SessionIds
  BY ConsumerPair
<1>2. Append(log[c[1]], m) \in Seq(Messages \cup {Reply})
  BY <1>1 DEF TypeOK
<1>3. QED
  BY <1>1, <1>2 DEF TypeOK, OpenTurn, Store, Phases

LEMMA NextTyped == TypeOK /\ HandsFull /\ [Next]_vars => TypeOK'
<1> SUFFICES ASSUME TypeOK, HandsFull, [Next]_vars PROVE TypeOK'
  OBVIOUS
<1>0. /\ \A c \in Consumers : c[1] \in SessionIds
      /\ \A c \in Consumers : hand[c] \in Seq(Messages)
      /\ \A s \in SessionIds : queue[s] # << >> =>
           Head(queue[s]) \in Messages /\ Tail(queue[s]) \in Seq(Messages)
      /\ << >> \in Seq(Messages) /\ \A m \in Messages : <<m>> \in Seq(Messages)
  BY ConsumerPair DEF TypeOK
<1>1. ASSUME NEW m \in Messages, Post(m) PROVE TypeOK'
  <2> DEFINE s == SessionOf[m]
  <2>1. /\ s \in SessionIds /\ EnsureSession(s)
        /\ queue' = [queue EXCEPT ![s] = Append(@, m)]
        /\ posted' = [posted EXCEPT ![s] = Append(@, m)]
        /\ turn' = [t \in Turns |-> IF t = m THEN "waiting" ELSE turn[t]]
        /\ strayed' = IF stopping THEN strayed \cup {s} ELSE strayed
        /\ UNCHANGED <<control, hand, orphans, log, heard, served>>
    BY <1>1, SessionsAssumption DEF Post, Put
  <2> HIDE DEF s
  <2>2. /\ queue' \in [SessionIds -> Seq(Messages)] /\ posted' \in [SessionIds -> Seq(Messages)]
        /\ turn' \in [Turns -> {"none", "waiting", "answered", "timedout"}]
        /\ strayed' \subseteq SessionIds
    BY <2>1 DEF TypeOK
  <2>3. /\ table' \in [SessionIds -> 0 .. MaxConsumers] /\ made' \in [SessionIds -> 0 .. MaxConsumers]
        /\ phase' \in [Consumers -> Phases]
    <3>1. CASE UNCHANGED <<made, table, phase>>
      BY <3>1 DEF TypeOK
    <3>2. ASSUME NEW n \in 1 .. MaxConsumers,
                 made' = [made EXCEPT ![s] = n], table' = [table EXCEPT ![s] = n],
                 phase' = [phase EXCEPT ![<<s, n>>] = "new"]
          PROVE  /\ table' \in [SessionIds -> 0 .. MaxConsumers]
                 /\ made' \in [SessionIds -> 0 .. MaxConsumers]
                 /\ phase' \in [Consumers -> Phases]
      <4>1. n \in 0 .. MaxConsumers
        BY SessionsAssumption
      <4>2. QED
        BY <3>2, <4>1 DEF TypeOK, Phases
    <3>3. QED
      BY <2>1, <3>1, <3>2, EnsureCases
  <2>4. QED
    BY <2>1, <2>2, <2>3 DEF TypeOK, control
<1>2. ASSUME NEW t \in Turns, TurnTimesOut(t) PROVE TypeOK'
  BY <1>2 DEF TypeOK, TurnTimesOut, control, tasks, past
<1>3. CASE Start
  BY <1>3 DEF TypeOK, Start, tasks, turns, past
<1>4. CASE StopBegin
  <2>1. stops' \in 0 .. MaxStops /\ awaited' \subseteq Consumers /\ running' \in BOOLEAN
        /\ stopping' \in BOOLEAN
    <3>1. stops \in 0 .. MaxStops /\ stops < MaxStops /\ stops' = stops + 1 /\ MaxStops \in Nat
      BY <1>4, SessionsAssumption DEF TypeOK, StopBegin
    <3>2. stops' \in 0 .. MaxStops
      BY <3>1
    <3>3. QED
      BY <1>4, <3>2 DEF StopBegin
  <2>2. PICK ended \in SUBSET Consumers :
          /\ phase' = [c \in Consumers |-> IF c \in ended THEN "over" ELSE phase[c]]
          /\ hand' = [c \in Consumers |-> IF c \in ended THEN << >> ELSE hand[c]]
          /\ orphans' = [s \in SessionIds |->
               IF \E c \in ended : c[1] = s /\ phase[c] = "thinking"
               THEN orphans[s] + 1 ELSE orphans[s]]
    BY <1>4 DEF StopBegin
  <2>3. phase' \in [Consumers -> Phases] /\ hand' \in [Consumers -> Seq(Messages)]
    BY <1>0, <2>2 DEF TypeOK, Phases
  <2>4. orphans' \in [SessionIds -> Nat]
    BY <2>2 DEF TypeOK
  <2>5. UNCHANGED <<queue, tasks, log, turns, past>>
    BY <1>4 DEF StopBegin
  <2>6. QED
    BY <2>1, <2>3, <2>4, <2>5 DEF TypeOK, tasks, turns, past
<1>5. CASE StopEnd
  <2>1. 0 \in 0 .. MaxConsumers
    BY SessionsAssumption
  <2>2. table' \in [SessionIds -> 0 .. MaxConsumers]
    BY <1>5, <2>1 DEF StopEnd
  <2>3. QED
    BY <1>5, <2>2 DEF TypeOK, StopEnd, turns, past
<1>6. ASSUME NEW c \in Consumers, Consumer(c) PROVE TypeOK'
  <2>1. CASE Begin(c)
    BY <2>1 DEF TypeOK, Begin, LoopPhase, Phases, control, tasks, turns, past
  <2>2. CASE Idle(c)
    BY <2>2 DEF TypeOK, Idle, Phases, control, tasks, turns, past
  <2>3. CASE Take(c)
    <3>1. /\ queue' \in [SessionIds -> Seq(Messages)]
          /\ Head(queue[c[1]]) \in Messages
      BY <1>0, <2>3 DEF TypeOK, Take, Get
    <3>2. /\ phase' \in [Consumers -> Phases] /\ hand' \in [Consumers -> Seq(Messages)]
          /\ log' \in [SessionIds -> Seq(Messages \cup {Reply})]
      <4>1. CASE Locked(c[1])
        BY <1>0, <2>3, <3>1, <4>1 DEF TypeOK, Take, Phases
      <4>2. CASE ~Locked(c[1])
        BY <2>3, <3>1, <4>2, OpenTurnTyped DEF Take
      <4>3. QED
        BY <4>1, <4>2
    <3>3. QED
      BY <2>3, <3>1, <3>2 DEF TypeOK, Take, control, tasks, turns, past
  <2>4. CASE TakeLock(c)
    <3>1. Head(hand[c]) \in Messages
      BY <1>0, <2>4 DEF HandsFull, TakeLock
    <3>2. QED
      BY <2>4, <3>1, OpenTurnTyped DEF TypeOK, TakeLock, control, tasks, turns, past
  <2>5. CASE Gather(c)
    <3>1. /\ queue' \in [SessionIds -> Seq(Messages)]
          /\ Head(queue[c[1]]) \in Messages
      BY <1>0, <2>5 DEF TypeOK, Gather, Get
    <3>2. /\ Append(hand[c], Head(queue[c[1]])) \in Seq(Messages)
          /\ Append(log[c[1]], Head(queue[c[1]])) \in Seq(Messages \cup {Reply})
      BY <1>0, <3>1 DEF TypeOK
    <3>3. QED
      BY <1>0, <2>5, <3>1, <3>2 DEF TypeOK, Gather, Store, control, tasks, turns, past
  <2>6. CASE GatherEnds(c)
    BY <1>0, <2>6 DEF TypeOK, GatherEnds, LoopPhase, Phases, control, tasks, turns, past
  <2>7. QED
    BY <1>6, <2>1, <2>2, <2>3, <2>4, <2>5, <2>6 DEF Consumer
<1>7. ASSUME NEW c \in Consumers, AgentEnds(c) PROVE TypeOK'
  <2>1. Append(log[c[1]], Reply) \in Seq(Messages \cup {Reply})
    BY <1>0 DEF TypeOK
  <2>2. Range(hand[c]) \subseteq Messages
    BY <1>0 DEF Range
  <2>3. /\ turn' \in [Turns -> {"none", "waiting", "answered", "timedout"}]
        /\ heard' \in [Turns -> SUBSET Messages]
    BY <1>7, <2>2 DEF TypeOK, AgentEnds, Publish
  <2>4. QED
    BY <1>0, <1>7, <2>1, <2>2, <2>3
    DEF TypeOK, AgentEnds, Store, LoopPhase, Phases, control, tasks
<1>8. ASSUME NEW s \in SessionIds, OrphanReturns(s) PROVE TypeOK'
  BY <1>8 DEF TypeOK, OrphanReturns, control, tasks, turns, past
<1>9. CASE UNCHANGED vars
  BY <1>9 DEF TypeOK, vars, control, tasks, turns, past
<1>10. QED
  BY <1>1, <1>2, <1>3, <1>4, <1>5, <1>6, <1>7, <1>8, <1>9 DEF Next
-----------------------------------------------------------------------------
(* What the steps of one task do.                                          *)

Others(c) == \A d \in Consumers \ {c} : phase'[d] = phase[d] /\ hand'[d] = hand[d]
OtherLogs(s) == \A r \in SessionIds \ {s} : log'[r] = log[r]
OtherQueues(s) == \A r \in SessionIds \ {s} : queue'[r] = queue[r]

LEMMA OpenTurnCases ==
  ASSUME TypeOK, NEW c \in Consumers, NEW m \in Messages, OpenTurn(c, m)
  PROVE  /\ Others(c)
         /\ \/ c[1] \in Unsafe /\ phase'[c] = "over" /\ hand'[c] = << >> /\ UNCHANGED log
            \/ /\ c[1] \notin Unsafe /\ phase'[c] = "gathering" /\ hand'[c] = <<m>>
               /\ log'[c[1]] = Append(log[c[1]], m) /\ OtherLogs(c[1])
  BY ConsumerPair DEF TypeOK, OpenTurn, Rejects, Store, Others, OtherLogs

LEMMA GetCases ==
  ASSUME TypeOK, NEW s \in SessionIds, Get(s)
  PROVE  /\ queue[s] # << >> /\ Head(queue[s]) \in Messages
         /\ queue'[s] = Tail(queue[s]) /\ OtherQueues(s)
  BY DEF TypeOK, Get, OtherQueues

LEMMA TaskSteps ==
  ASSUME TypeOK, HandsFull, NEW c \in Consumers, Consumer(c) \/ AgentEnds(c)
  PROVE  /\ Alive(c) /\ phase'[c] # "none" /\ Others(c)
         /\ UNCHANGED <<control, tasks, posted, strayed>>
         /\ hand'[c] # << >> <=> Holding(c)' \/ phase'[c] = "locking"
<1>1. CASE Begin(c)
  BY <1>1 DEF TypeOK, HandsFull, Holding, Begin, LoopPhase, Alive, Others, past
<1>2. CASE Idle(c)
  BY <1>2 DEF TypeOK, HandsFull, Holding, Idle, Alive, Others, past
<1>3. CASE Take(c)
  <2>1. Head(queue[c[1]]) \in Messages
    BY <1>3, GetCases, ConsumerPair DEF Take
  <2>2. phase[c] = "waiting" /\ UNCHANGED <<control, tasks, posted, strayed>>
    BY <1>3 DEF Take, past
  <2>3. CASE Locked(c[1])
    <3>1. /\ phase' = [phase EXCEPT ![c] = "locking"]
          /\ hand' = [hand EXCEPT ![c] = <<Head(queue[c[1]])>>]
      BY <1>3, <2>3 DEF Take
    <3>2. QED
      BY <2>2, <3>1 DEF TypeOK, Holding, Alive, Others
  <2>4. CASE ~Locked(c[1])
    <3>1. OpenTurn(c, Head(queue[c[1]]))
      BY <1>3, <2>4 DEF Take
    <3>2. \/ phase'[c] = "over" /\ hand'[c] = << >>
          \/ phase'[c] = "gathering" /\ hand'[c] = <<Head(queue[c[1]])>>
      BY <2>1, <3>1, OpenTurnCases
    <3>3. Others(c)
      BY <2>1, <3>1, OpenTurnCases
    <3>4. <<Head(queue[c[1]])>> # << >>
      OBVIOUS
    <3>5. QED
      BY <2>2, <3>2, <3>3, <3>4 DEF Holding, Alive
  <2>5. QED
    BY <2>3, <2>4
<1>4. CASE TakeLock(c)
  <2>1. Head(hand[c]) \in Messages
    BY <1>4 DEF TypeOK, HandsFull, TakeLock
  <2>2. QED
    BY <1>4, <2>1, OpenTurnCases DEF TakeLock, Holding, Alive, past
<1>5. CASE Gather(c)
  <2>1. hand' = [hand EXCEPT ![c] = Append(@, Head(queue[c[1]]))]
        /\ UNCHANGED <<control, tasks, phase, posted, strayed>> /\ phase[c] = "gathering"
    BY <1>5 DEF Gather, past
  <2>2. Append(hand[c], Head(queue[c[1]])) # << >>
    <3>1. hand[c] \in Seq(Messages) /\ Head(queue[c[1]]) \in Messages
      BY <1>5, GetCases, ConsumerPair DEF Gather, TypeOK
    <3>2. QED
      BY <3>1, AppendRange
  <2>3. QED
    BY <2>1, <2>2 DEF TypeOK, Holding, Alive, Others
<1>6. CASE GatherEnds(c)
  BY <1>6 DEF TypeOK, HandsFull, GatherEnds, LoopPhase, Holding, Alive, Others, past
<1>7. CASE AgentEnds(c)
  BY <1>7 DEF TypeOK, AgentEnds, LoopPhase, Holding, Alive, Others
<1>8. QED
  BY <1>1, <1>2, <1>3, <1>4, <1>5, <1>6, <1>7 DEF Consumer

\* stop() up to its await: what happens to the tasks.
LEMMA StopBeginCases ==
  ASSUME TypeOK, StopBegin
  PROVE  \E ended \in SUBSET Consumers :
           /\ \A c \in Consumers :
                /\ c \in ended => Alive(c) \/ phase[c] = "none"
                /\ phase'[c] = IF c \in ended THEN "over" ELSE phase[c]
                /\ hand'[c] = IF c \in ended THEN << >> ELSE hand[c]
                /\ c \in ended => table[c[1]] = c[2]
           /\ awaited' = {c \in Consumers : table[c[1]] = c[2] /\ phase[c] # "over"}
           /\ running /\ ~running' /\ stopping' /\ UNCHANGED <<queue, tasks, log, turns, past>>
<1> DEFINE known == {c \in Consumers : table[c[1]] = c[2] /\ phase[c] # "over"}
<1>1. PICK ended \in SUBSET known :
        /\ phase' = [c \in Consumers |-> IF c \in ended THEN "over" ELSE phase[c]]
        /\ hand' = [c \in Consumers |-> IF c \in ended THEN << >> ELSE hand[c]]
  BY DEF StopBegin
<1>2. /\ awaited' = known
      /\ running /\ ~running' /\ stopping' /\ UNCHANGED <<queue, tasks, log, turns, past>>
  BY DEF StopBegin
<1>3. \A c \in known : Alive(c) \/ phase[c] = "none"
  BY DEF Alive
<1> WITNESS ended \in SUBSET Consumers
<1>4. QED
  BY <1>1, <1>2, <1>3

-----------------------------------------------------------------------------
(* Tasks.                                                                  *)

LEMMA HandsFullStep == TypeOK /\ TasksKnown /\ HandsFull /\ [Next]_vars => HandsFull'
<1> SUFFICES ASSUME TypeOK, TasksKnown, HandsFull, [Next]_vars PROVE HandsFull'
  OBVIOUS
<1>1. ASSUME NEW m \in Messages, Post(m) PROVE HandsFull'
  <2> DEFINE s == SessionOf[m]
  <2>1. s \in SessionIds /\ EnsureSession(s) /\ UNCHANGED hand
    BY <1>1, SessionsAssumption DEF Post
  <2> HIDE DEF s
  <2>2. CASE UNCHANGED phase
    BY <2>1, <2>2 DEF HandsFull, Holding
  <2>3. ASSUME NEW n \in 1 .. MaxConsumers, n = made[s] + 1,
               phase' = [phase EXCEPT ![<<s, n>>] = "new"]
        PROVE  HandsFull'
    <3>1. <<s, n>> \in Consumers /\ phase[<<s, n>>] = "none"
      <4>1. <<s, n>> \in Consumers /\ made[s] \in Nat
        BY <2>1, SessionsAssumption DEF Consumers, TypeOK
      <4>2. QED
        BY <2>3, <4>1 DEF TasksKnown
    <3>2. QED
      BY <2>1, <2>3, <3>1 DEF TypeOK, HandsFull, Holding
  <2>4. QED
    BY <2>1, <2>2, <2>3, EnsureCases
<1>2. CASE StopBegin
  BY <1>2, StopBeginCases DEF HandsFull, Holding
<1>3. ASSUME NEW c \in Consumers, Consumer(c) \/ AgentEnds(c) PROVE HandsFull'
  BY <1>3, TaskSteps DEF HandsFull, Holding, Others
<1>4. CASE UNCHANGED <<phase, hand>>
  BY <1>4 DEF HandsFull, Holding
<1>5. QED
  BY <1>1, <1>2, <1>3, <1>4
  DEF Next, vars, TurnTimesOut, Start, StopEnd, OrphanReturns

\* No task begins, and the table and stop() are as before.
LEMMA TasksQuiet ==
  ASSUME TasksKnown, UNCHANGED <<control, tasks, strayed>>,
         \A c \in Consumers : /\ phase'[c] = "none" <=> phase[c] = "none"
                              /\ Alive(c)' => Alive(c)
  PROVE  TasksKnown'
  BY DEF TasksKnown, control, tasks

LEMMA TasksStep == TypeOK /\ HandsFull /\ TasksKnown /\ [Next]_vars => TasksKnown'
<1> SUFFICES ASSUME TypeOK, HandsFull, TasksKnown, [Next]_vars PROVE TasksKnown'
  OBVIOUS
<1>1. ASSUME NEW m \in Messages, Post(m) PROVE TasksKnown'
  <2> DEFINE s == SessionOf[m]
  <2>1. /\ s \in SessionIds /\ EnsureSession(s) /\ UNCHANGED control
        /\ strayed' = IF stopping THEN strayed \cup {s} ELSE strayed
    BY <1>1, SessionsAssumption DEF Post
  <2> HIDE DEF s
  <2>2. CASE UNCHANGED <<made, table, phase>>
    BY <2>1, <2>2 DEF TasksKnown, Alive, control
  <2>3. ASSUME NEW n \in 1 .. MaxConsumers, n = made[s] + 1,
               table[s] = 0 \/ phase[<<s, table[s]>>] = "over",
               made' = [made EXCEPT ![s] = n], table' = [table EXCEPT ![s] = n],
               phase' = [phase EXCEPT ![<<s, n>>] = "new"]
        PROVE  TasksKnown'
    <3>1. /\ <<s, n>> \in Consumers /\ made[s] \in Nat /\ MaxConsumers \in Nat
          /\ phase'[<<s, n>>] = "new"
          /\ \A c \in Consumers : c # <<s, n>> => phase'[c] = phase[c]
      BY <2>1, <2>3, SessionsAssumption DEF Consumers, TypeOK
    <3>2. /\ made'[s] = n /\ table'[s] = n
          /\ \A r \in SessionIds \ {s} : made'[r] = made[r] /\ table'[r] = table[r]
      BY <2>1, <2>3 DEF TypeOK
    <3>3. \A c \in Consumers : phase'[c] = "none" <=> c[2] > made'[c[1]]
      <4> SUFFICES ASSUME NEW c \in Consumers
                   PROVE  phase'[c] = "none" <=> c[2] > made'[c[1]]
        OBVIOUS
      <4>1. c[1] \in SessionIds /\ c[2] \in Nat /\ c = <<c[1], c[2]>>
        BY <3>1, ConsumerPair
      <4>2. CASE c[1] # s
        BY <3>1, <3>2, <4>1, <4>2 DEF TasksKnown
      <4>3. CASE c[1] = s /\ c[2] = n
        BY <3>1, <3>2, <4>1, <4>3
      <4>4. CASE c[1] = s /\ c[2] # n
        <5>1. phase'[c] = phase[c] /\ (c[2] > made[s] <=> c[2] > n)
          BY <2>3, <3>1, <4>1, <4>4
        <5>2. QED
          BY <3>2, <4>4, <5>1 DEF TasksKnown
      <4>5. QED
        BY <4>2, <4>3, <4>4
    <3>4. \A c \in Consumers : c[1] = s /\ s \notin strayed => ~Alive(c)
      <4> SUFFICES ASSUME NEW c \in Consumers, c[1] = s, s \notin strayed, Alive(c) PROVE FALSE
        OBVIOUS
      <4>1. c[2] = table[s] /\ c[2] \in 1 .. MaxConsumers /\ c = <<s, table[s]>>
        BY ConsumerPair DEF TasksKnown
      <4>2. QED
        BY <2>3, <3>1, <4>1 DEF Alive
    <3>5. ASSUME NEW c \in Consumers, Alive(c)', c[1] \notin strayed'
          PROVE  c[2] = table'[c[1]] /\ (stopping => c \in awaited)
      <4>1. c[1] \in SessionIds /\ c = <<c[1], c[2]>> /\ c[1] \notin strayed
        BY <2>1, <3>5, ConsumerPair
      <4>2. CASE c[1] # s
        BY <3>1, <3>2, <3>5, <4>1, <4>2 DEF TasksKnown, Alive
      <4>3. CASE c[1] = s
        <5>1. ~stopping /\ ~Alive(c)
          BY <2>1, <3>4, <3>5, <4>1, <4>3
        <5>2. c = <<s, n>>
          BY <3>1, <3>5, <5>1 DEF Alive
        <5>3. QED
          BY <3>2, <4>1, <4>3, <5>1, <5>2
      <4>4. QED
        BY <4>2, <4>3
    <3>6. \A r \in SessionIds : table'[r] <= made'[r]
      BY <2>3, <3>1, <3>2 DEF TasksKnown
    <3>7. QED
      BY <2>1, <3>3, <3>5, <3>6 DEF TasksKnown, control
  <2>4. QED
    BY <2>1, <2>2, <2>3, EnsureCases
<1>2. CASE Start
  BY <1>2 DEF TasksKnown, Start, tasks, past, Alive
<1>3. CASE StopBegin
  <2>1. PICK ended \in SUBSET Consumers :
           /\ \A c \in Consumers :
                /\ phase'[c] = IF c \in ended THEN "over" ELSE phase[c]
                /\ c \in ended => table[c[1]] = c[2]
                /\ c \in ended => Alive(c) \/ phase[c] = "none"
           /\ awaited' = {c \in Consumers : table[c[1]] = c[2] /\ phase[c] # "over"}
           /\ ~running' /\ stopping' /\ UNCHANGED <<tasks, past>>
    BY <1>3, StopBeginCases
  <2>2. \A c \in Consumers : Alive(c)' => Alive(c) /\ c \notin ended
    BY <2>1 DEF Alive
  <2>3. ASSUME NEW c \in ended PROVE phase[c] # "none"
    <3>1. c[2] = table[c[1]] /\ c[1] \in SessionIds /\ c[2] \in Nat
      BY <2>1, ConsumerPair, SessionsAssumption
    <3>2. table[c[1]] <= made[c[1]] /\ made[c[1]] \in Nat
      BY <3>1, SessionsAssumption DEF TasksKnown, TypeOK
    <3>3. ~(c[2] > made[c[1]])
      BY <3>1, <3>2
    <3>4. QED
      BY <3>3 DEF TasksKnown
  <2>4. QED
    BY <2>1, <2>2, <2>3 DEF TasksKnown, tasks, past, Alive
<1>4. CASE StopEnd
  <2>1. \A c \in Consumers : c[1] \notin strayed => ~Alive(c)
    BY <1>4 DEF StopEnd, TasksKnown, Alive
  <2>2. \A s \in SessionIds : table'[s] <= made'[s]
    BY <1>4, SessionsAssumption DEF StopEnd, TypeOK
  <2>3. QED
    BY <1>4, <2>1, <2>2 DEF StopEnd, TasksKnown, Alive, past
<1>5. ASSUME NEW c \in Consumers, Consumer(c) \/ AgentEnds(c) PROVE TasksKnown'
  <2>1. /\ Alive(c) /\ phase'[c] # "none" /\ Others(c) /\ UNCHANGED <<control, tasks, strayed>>
    BY <1>5, TaskSteps
  <2>2. QED
    BY <2>1, TasksQuiet DEF Others, Alive
<1>6. CASE UNCHANGED <<control, tasks, strayed, phase>>
  BY <1>6, TasksQuiet DEF Alive
<1>7. QED
  BY <1>1, <1>2, <1>3, <1>4, <1>5, <1>6
  DEF Next, vars, TurnTimesOut, OrphanReturns, past

-----------------------------------------------------------------------------
(* What becomes of the queue, the history and the posted messages of a session. *)

\* post() adds to the queue.
LEMMA PostPlaced ==
  ASSUME NEW s, NEW m \in Messages, SessionOf[m] = s,
         NEW q \in Seq(Messages), NEW l \in Seq(Messages \cup {Reply}),
         NEW p \in Seq(Messages), Placed(s, q, l, p), m \notin Range(p)
  PROVE  /\ Placed(s, Append(q, m), l, Append(p, m))
         /\ Ordered(q, l, p) => Ordered(Append(q, m), l, Append(p, m))
<1>1. m # Reply /\ m \notin Range(q) /\ m \notin Range(l)
  BY SessionsAssumption DEF Placed
<1>2. Placed(s, Append(q, m), l, Append(p, m))
  BY <1>1, AppendRange DEF Placed
<1>3. ASSUME Ordered(q, l, p) PROVE Ordered(Append(q, m), l, Append(p, m))
  <2> DEFINE nq == Append(q, m)
             np == Append(p, m)
             taken == Len(p) - Len(q)
  <2>1. /\ Len(nq) = Len(q) + 1 /\ Len(np) = Len(p) + 1 /\ Len(q) \in Nat /\ Len(p) \in Nat
        /\ DOMAIN q = 1 .. Len(q) /\ DOMAIN nq = 1 .. Len(q) + 1
        /\ \A i \in 1 .. Len(q) : nq[i] = q[i]
        /\ \A i \in 1 .. Len(p) : np[i] = p[i]
        /\ nq[Len(q) + 1] = m /\ np[Len(p) + 1] = m
    OBVIOUS
  <2> HIDE DEF nq, np
  <2>2. Len(np) - Len(nq) = taken /\ taken \in Nat /\ taken <= Len(p)
    BY <1>3, <2>1 DEF Ordered, OrderedFrom
  <2>3. \A i \in 1 .. taken : np[i] = p[i]
    BY <2>1, <2>2
  <2>4. \A i \in DOMAIN nq : nq[i] = np[taken + i]
    <3> SUFFICES ASSUME NEW i \in 1 .. Len(q) + 1 PROVE nq[i] = np[taken + i]
      BY <2>1
    <3>1. CASE i = Len(q) + 1
      BY <2>1, <3>1
    <3>2. CASE i \in 1 .. Len(q)
      <4>1. q[i] = p[taken + i] /\ taken + i \in 1 .. Len(p)
        BY <1>3, <2>1, <2>2, <3>2 DEF Ordered, OrderedFrom
      <4>2. QED
        BY <2>1, <3>2, <4>1
    <3>3. QED
      BY <2>1, <3>1, <3>2
  <2> HIDE DEF taken
  <2>5. /\ taken >= 0
        /\ \A i \in 1 .. taken : \E j \in DOMAIN l : l[j] = p[i]
        /\ \A j \in DOMAIN l : l[j] # Reply => \E i \in 1 .. taken : l[j] = p[i]
        /\ \A j, k \in DOMAIN l : \A i, h \in 1 .. taken :
             l[j] = p[i] /\ l[k] = p[h] /\ j < k => i < h
    BY <1>3 DEF Ordered, OrderedFrom, taken
  <2>6. OrderedFrom(taken, nq, l, np)
    BY <2>3, <2>4, <2>5 DEF OrderedFrom
  <2>7. QED
    BY <2>2, <2>6 DEF nq, np, Ordered
<1>4. QED
  BY <1>2, <1>3

\* A message goes from the queue into the history.
LEMMA MovePlaced ==
  ASSUME NEW s, NEW q \in Seq(Messages), NEW l \in Seq(Messages \cup {Reply}),
         NEW p \in Seq(Messages), Placed(s, q, l, p), q # << >>
  PROVE  /\ Placed(s, Tail(q), Append(l, Head(q)), p)
         /\ Ordered(q, l, p) => Ordered(Tail(q), Append(l, Head(q)), p)
<1> DEFINE m == Head(q)
           nq == Tail(q)
           nl == Append(l, m)
<1>1. /\ m = q[1] /\ m \in Messages /\ nq \in Seq(Messages) /\ Len(q) \in Nat \ {0}
      /\ Len(nq) = Len(q) - 1 /\ \A i \in 1 .. Len(q) - 1 : nq[i] = q[i + 1]
      /\ Range(q) = Range(nq) \cup {m} /\ IsInjective(nq) /\ m \notin Range(nq)
  BY TailRange DEF Placed
<1> HIDE DEF m, nq
<1>2. /\ nl \in Seq(Messages \cup {Reply}) /\ Range(nl) = Range(l) \cup {m}
  BY <1>1, AppendRange
<1>3. /\ Len(l) \in Nat /\ DOMAIN l = 1 .. Len(l) /\ DOMAIN nl = 1 .. Len(l) + 1
      /\ \A i \in 1 .. Len(l) : nl[i] = l[i]
      /\ nl[Len(l) + 1] = m
  BY <1>1
<1> HIDE DEF nl
<1>4. m \in Range(p) /\ m # Reply /\ m \notin Range(l)
  BY <1>1, SessionsAssumption DEF Placed
<1>5. \A i, j \in DOMAIN nl : nl[i] = nl[j] /\ nl[i] # Reply => i = j
  <2>1. \A i \in 1 .. Len(l) : l[i] # m
    BY <1>3, <1>4 DEF Range
  <2>2. \A i \in 1 .. Len(l) + 1 : i \in 1 .. Len(l) \/ i = Len(l) + 1
    BY <1>3
  <2>3. QED
    BY <1>3, <2>1, <2>2 DEF Placed
<1>6. Placed(s, nq, nl, p)
  BY <1>1, <1>2, <1>4, <1>5 DEF Placed
<1>7. ASSUME Ordered(q, l, p) PROVE Ordered(nq, nl, p)
  <2> DEFINE taken == Len(p) - Len(q)
  <2>1. /\ Len(p) \in Nat /\ DOMAIN p = 1 .. Len(p) /\ DOMAIN q = 1 .. Len(q)
        /\ DOMAIN nq = 1 .. Len(q) - 1
    BY <1>1
  <2>0. taken >= 0 /\ \A i \in DOMAIN q : q[i] = p[taken + i]
    BY <1>7 DEF Ordered, OrderedFrom
  <2>2. /\ taken \in Nat /\ Len(p) - Len(nq) = taken + 1 /\ taken + 1 \in 1 .. Len(p)
        /\ \A i \in 1 .. taken + 1 : i \in 1 .. taken \/ i = taken + 1
        /\ \A i \in 1 .. taken : i \in 1 .. Len(p) /\ i \in 1 .. taken + 1 /\ i < taken + 1
    <3>1. ASSUME NEW a \in Nat, NEW b \in Nat \ {0}, a - b >= 0
          PROVE  /\ a - b \in Nat /\ a - (b - 1) = (a - b) + 1 /\ (a - b) + 1 \in 1 .. a
                 /\ \A i \in 1 .. (a - b) + 1 : i \in 1 .. a - b \/ i = (a - b) + 1
                 /\ \A i \in 1 .. a - b :
                      i \in 1 .. a /\ i \in 1 .. (a - b) + 1 /\ i < (a - b) + 1
      BY <3>1
    <3>2. Len(p) \in Nat /\ Len(q) \in Nat \ {0} /\ Len(p) - Len(q) >= 0
          /\ Len(nq) = Len(q) - 1
      BY <1>1, <2>0, <2>1
    <3>3. QED
      BY <3>1, <3>2
  <2>3. m = p[taken + 1]
    <3>1. 1 \in DOMAIN q
      BY <1>1, <2>1
    <3>2. QED
      BY <1>1, <2>0, <3>1
  <2>4. ASSUME NEW i \in 1 .. Len(q) - 1 PROVE nq[i] = p[(taken + 1) + i]
    <3>1. nq[i] = q[i + 1] /\ i + 1 \in 1 .. Len(q)
      BY <1>1
    <3>2. q[i + 1] = p[taken + (i + 1)]
      BY <2>0, <2>1, <3>1
    <3>3. taken + (i + 1) = (taken + 1) + i
      BY <2>2
    <3>4. QED
      BY <3>1, <3>2, <3>3
  <2>5. /\ \A i \in 1 .. taken : \E j \in DOMAIN l : l[j] = p[i]
        /\ \A j \in DOMAIN l : l[j] # Reply => \E i \in 1 .. taken : l[j] = p[i]
        /\ \A j, k \in DOMAIN l : \A i, h \in 1 .. taken :
             l[j] = p[i] /\ l[k] = p[h] /\ j < k => i < h
    BY <1>7 DEF Ordered, OrderedFrom
  <2>6. \A i, h \in 1 .. Len(p) : p[i] = p[h] => i = h
    BY <2>1 DEF Placed, IsInjective
  <2> HIDE DEF taken
  <2>7. \A j \in 1 .. Len(l) + 1 : j \in 1 .. Len(l) \/ j = Len(l) + 1
    BY <1>3
  <2>8. \A i \in 1 .. taken + 1 : \E j \in DOMAIN nl : nl[j] = p[i]
    <3> SUFFICES ASSUME NEW i \in 1 .. taken + 1 PROVE \E j \in DOMAIN nl : nl[j] = p[i]
      OBVIOUS
    <3>1. CASE i = taken + 1
      <4>1. Len(l) + 1 \in DOMAIN nl /\ nl[Len(l) + 1] = p[i]
        BY <1>3, <2>3, <3>1
      <4>2. QED
        BY <4>1
    <3>2. CASE i \in 1 .. taken
      <4>1. PICK j \in DOMAIN l : l[j] = p[i]
        BY <2>5, <3>2
      <4>2. j \in DOMAIN nl /\ nl[j] = p[i]
        BY <1>3, <4>1
      <4>3. QED
        BY <4>2
    <3>3. QED
      BY <2>2, <3>1, <3>2
  <2>9. ASSUME NEW j \in DOMAIN nl, nl[j] # Reply PROVE \E i \in 1 .. taken + 1 : nl[j] = p[i]
    <3>1. CASE j = Len(l) + 1
      BY <1>3, <2>2, <2>3, <3>1
    <3>2. CASE j \in 1 .. Len(l)
      BY <1>3, <2>2, <2>5, <2>9, <3>2
    <3>3. QED
      BY <1>3, <2>7, <3>1, <3>2
  <2>10. ASSUME NEW j \in DOMAIN nl, NEW k \in DOMAIN nl,
                NEW i \in 1 .. taken + 1, NEW h \in 1 .. taken + 1,
                nl[j] = p[i], nl[k] = p[h], j < k
         PROVE  i < h
    <3>1. ASSUME NEW e \in 1 .. Len(l), NEW f \in 1 .. taken + 1, nl[e] = p[f]
          PROVE  f \in 1 .. taken
      <4>1. l[e] = p[f] /\ p[f] # p[taken + 1]
        BY <1>3, <1>4, <2>3, <3>1 DEF Range
      <4>2. QED
        BY <2>2, <4>1
    <3>2. j \in 1 .. Len(l)
      BY <1>3, <2>10
    <3>3. i \in 1 .. taken
      BY <2>10, <3>1, <3>2
    <3>4. CASE k \in 1 .. Len(l)
      <4>1. h \in 1 .. taken
        BY <2>10, <3>1, <3>4
      <4>2. QED
        BY <1>3, <2>5, <2>10, <3>2, <3>3, <3>4, <4>1
    <3>5. CASE k = Len(l) + 1
      <4>1. p[h] = p[taken + 1]
        BY <1>3, <2>3, <2>10, <3>5
      <4>2. h = taken + 1
        BY <2>2, <2>6, <4>1
      <4>3. QED
        BY <2>2, <3>3, <4>2
    <3>6. QED
      BY <1>3, <2>7, <3>4, <3>5
  <2>11. OrderedFrom(taken + 1, nq, nl, p)
    <3>1. taken + 1 >= 0 /\ \A i \in DOMAIN nq : nq[i] = p[(taken + 1) + i]
      BY <2>1, <2>2, <2>4
    <3>2. \A j \in DOMAIN nl : nl[j] # Reply => \E i \in 1 .. taken + 1 : nl[j] = p[i]
      BY <2>9
    <3>3. \A j, k \in DOMAIN nl : \A i, h \in 1 .. taken + 1 :
            nl[j] = p[i] /\ nl[k] = p[h] /\ j < k => i < h
      BY <2>10
    <3>4. QED
      BY <2>8, <3>1, <3>2, <3>3 DEF OrderedFrom
  <2>12. QED
    BY <2>2, <2>11 DEF Ordered
<1>8. QED
  BY <1>6, <1>7 DEF m, nq, nl

\* A message leaves the queue.
LEMMA LeavePlaced ==
  ASSUME NEW s, NEW q \in Seq(Messages), NEW l, NEW p, Placed(s, q, l, p), q # << >>
  PROVE  Placed(s, Tail(q), l, p)
  BY TailRange DEF Placed

\* A message that is in no place goes into the history.
LEMMA LogPlaced ==
  ASSUME NEW s, NEW m \in Messages, NEW q, NEW l \in Seq(Messages \cup {Reply}), NEW p,
         Placed(s, q, l, p), m \in Range(p), m \notin Range(l) \cup Range(q)
  PROVE  Placed(s, q, Append(l, m), p)
<1> DEFINE nl == Append(l, m)
<1>1. Range(nl) = Range(l) \cup {m}
  BY AppendRange
<1>2. /\ Len(l) \in Nat /\ DOMAIN l = 1 .. Len(l) /\ DOMAIN nl = 1 .. Len(l) + 1
      /\ \A i \in 1 .. Len(l) : nl[i] = l[i]
      /\ nl[Len(l) + 1] = m
      /\ \A i \in 1 .. Len(l) + 1 : i \in 1 .. Len(l) \/ i = Len(l) + 1
  OBVIOUS
<1> HIDE DEF nl
<1>3. \A i \in 1 .. Len(l) : l[i] # m
  BY <1>2 DEF Range
<1>4. \A i, j \in DOMAIN nl : nl[i] = nl[j] /\ nl[i] # Reply => i = j
  BY <1>2, <1>3 DEF Placed
<1>5. Placed(s, q, nl, p)
  BY <1>1, <1>4 DEF Placed
<1>6. QED
  BY <1>5 DEF nl

\* A reply goes into the history.
LEMMA ReplyPlaced ==
  ASSUME NEW s, NEW q \in Seq(Messages), NEW l \in Seq(Messages \cup {Reply}),
         NEW p \in Seq(Messages), Placed(s, q, l, p)
  PROVE  /\ Placed(s, q, Append(l, Reply), p)
         /\ Ordered(q, l, p) => Ordered(q, Append(l, Reply), p)
<1> DEFINE nl == Append(l, Reply)
<1>1. Range(nl) = Range(l) \cup {Reply}
  BY AppendRange
<1>2. /\ Len(l) \in Nat /\ DOMAIN l = 1 .. Len(l) /\ DOMAIN nl = 1 .. Len(l) + 1
      /\ \A i \in 1 .. Len(l) : nl[i] = l[i]
      /\ nl[Len(l) + 1] = Reply
      /\ \A i \in 1 .. Len(l) + 1 : i \in 1 .. Len(l) \/ i = Len(l) + 1
  OBVIOUS
<1> HIDE DEF nl
<1>3. Reply \notin Range(q) /\ Reply \notin Range(p)
  BY SessionsAssumption DEF Range
<1>4. \A i, j \in DOMAIN nl : nl[i] = nl[j] /\ nl[i] # Reply => i = j
  BY <1>2 DEF Placed
<1>5. Placed(s, q, nl, p)
  BY <1>1, <1>3, <1>4 DEF Placed
<1>6. ASSUME Ordered(q, l, p) PROVE Ordered(q, nl, p)
  <2> DEFINE taken == Len(p) - Len(q)
  <2>1. /\ taken >= 0 /\ \A i \in DOMAIN q : q[i] = p[taken + i]
        /\ \A i \in 1 .. taken : \E j \in DOMAIN l : l[j] = p[i]
        /\ \A j \in DOMAIN l : l[j] # Reply => \E i \in 1 .. taken : l[j] = p[i]
        /\ \A j, k \in DOMAIN l : \A i, h \in 1 .. taken :
             l[j] = p[i] /\ l[k] = p[h] /\ j < k => i < h
    BY <1>6 DEF Ordered, OrderedFrom
  <2>2. \A i \in 1 .. taken : p[i] # Reply
    <3>1. DOMAIN p = 1 .. Len(p) /\ Len(p) \in Nat /\ Len(q) \in Nat
      OBVIOUS
    <3>2. QED
      BY <1>3, <3>1 DEF Range
  <2> HIDE DEF taken
  <2>3. \A j \in DOMAIN nl : nl[j] # Reply => j \in DOMAIN l /\ nl[j] = l[j]
    BY <1>2
  <2>4. \A j \in DOMAIN l : j \in DOMAIN nl /\ nl[j] = l[j]
    BY <1>2
  <2>5. \A j, k \in DOMAIN nl : \A i, h \in 1 .. taken :
           nl[j] = p[i] /\ nl[k] = p[h] /\ j < k => i < h
    <3> SUFFICES ASSUME NEW j \in DOMAIN nl, NEW k \in DOMAIN nl,
                        NEW i \in 1 .. taken, NEW h \in 1 .. taken,
                        nl[j] = p[i], nl[k] = p[h], j < k
                 PROVE  i < h
      OBVIOUS
    <3>1. j \in DOMAIN l /\ k \in DOMAIN l /\ nl[j] = l[j] /\ nl[k] = l[k]
      BY <2>2, <2>3
    <3>2. QED
      BY <2>1, <3>1
  <2>6. \A i \in 1 .. taken : \E j \in DOMAIN nl : nl[j] = p[i]
    BY <2>1, <2>4
  <2>7. \A j \in DOMAIN nl : nl[j] # Reply => \E i \in 1 .. taken : nl[j] = p[i]
    BY <2>1, <2>3
  <2>8. QED
    BY <2>1, <2>5, <2>6, <2>7 DEF Ordered, OrderedFrom, taken
<1>7. QED
  BY <1>5, <1>6 DEF nl

-----------------------------------------------------------------------------
(* What becomes of the messages in the tasks' hands.                       *)

Keeps(c) == /\ hand'[c] = hand[c] /\ (Holding(c)' <=> Holding(c))
            /\ phase'[c] = "locking" <=> phase[c] = "locking"
Drops(c) == hand'[c] = << >> /\ ~Holding(c)' /\ phase'[c] # "locking"

\* No task takes anything; what is in a hand is in the history and in the queue as
\* before.
LEMMA RestHands ==
  ASSUME TypeOK, Hands, strayed \subseteq strayed',
         \A c \in Consumers : Keeps(c) \/ Drops(c),
         \A s \in SessionIds :
           /\ Range(posted[s]) \subseteq Range(posted'[s])
           /\ Range(log[s]) \subseteq Range(log'[s])
           /\ \A m \in Range(posted[s]) : m \in Range(log'[s]) \cup Range(queue'[s])
                                            => m \in Range(log[s]) \cup Range(queue[s])
  PROVE  Hands'
<1>1. Range(<< >>) = {}
  BY DEF Range
<1>2. \A c \in Consumers : c[1] \in SessionIds
  BY ConsumerPair
<1>3. \A c \in Consumers : /\ Holding(c)' => Holding(c) /\ hand'[c] = hand[c]
                           /\ phase'[c] = "locking" => phase[c] = "locking" /\ hand'[c] = hand[c]
                           /\ hand'[c] = hand[c] \/ hand'[c] = << >>
  BY DEF Keeps, Drops
<1>4. ASSUME NEW c \in Consumers, phase[c] = "locking"
      PROVE  Len(hand[c]) = 1 /\ hand[c][1] \in Range(posted[c[1]])
  <2>1. Len(hand[c]) = 1 /\ DOMAIN hand[c] = 1 .. 1
    BY <1>4 DEF Hands, TypeOK
  <2>2. hand[c][1] \in Range(hand[c])
    BY <2>1 DEF Range
  <2>3. QED
    BY <2>1, <2>2 DEF Hands
<1>5. ASSUME NEW c \in Consumers PROVE Range(hand'[c]) \subseteq Range(posted'[c[1]])
  BY <1>1, <1>2, <1>3 DEF Hands
<1>6. ASSUME NEW c \in Consumers, Holding(c)' PROVE Range(hand'[c]) \subseteq Range(log'[c[1]])
  BY <1>2, <1>3, <1>6 DEF Hands
<1>7. ASSUME NEW c \in Consumers, phase'[c] = "locking"
      PROVE  /\ Len(hand'[c]) = 1 /\ c[1] \in strayed'
             /\ hand'[c][1] \notin Range(log'[c[1]]) \cup Range(queue'[c[1]])
  <2>1. phase[c] = "locking" /\ hand'[c] = hand[c]
    BY <1>3, <1>7
  <2>2. QED
    BY <1>2, <1>4, <2>1 DEF Hands
<1>8. \A c, d \in Consumers : c[1] = d[1] /\ Holding(c)' /\ Holding(d)' => c = d
  BY <1>3 DEF Hands
<1>9. \A c, d \in Consumers :
        phase'[c] = "locking" /\ phase'[d] = "locking" /\ hand'[c][1] = hand'[d][1] => c = d
  BY <1>3 DEF Hands
<1>10. QED
  BY <1>5, <1>6, <1>7, <1>8, <1>9 DEF Hands

\* A task that has the lock takes a message that nobody else has, and stores it.
LEMMA HoldHands ==
  ASSUME TypeOK, Hands, UNCHANGED <<posted, strayed>>,
         NEW c \in Consumers, NEW m, Others(c), OtherLogs(c[1]), Holding(c)',
         \A d \in Consumers \ {c} : d[1] = c[1] => ~Holding(d),
         \A d \in Consumers \ {c} : d[1] = c[1] /\ phase[d] = "locking" => hand[d][1] # m,
         \/ Range(hand'[c]) = {m}
         \/ Holding(c) /\ Range(hand'[c]) = Range(hand[c]) \cup {m},
         m \in Range(posted[c[1]]), Range(log'[c[1]]) = Range(log[c[1]]) \cup {m},
         \A s \in SessionIds : Range(queue'[s]) \subseteq Range(queue[s])
  PROVE  Hands'
<1>1. \A d \in Consumers : d[1] \in SessionIds
  BY ConsumerPair
<1>2. \A d \in Consumers \ {c} : /\ Holding(d)' <=> Holding(d)
                                 /\ phase'[d] = phase[d] /\ hand'[d] = hand[d]
  BY DEF Others, Holding
<1>3. \A s \in SessionIds : Range(log[s]) \subseteq Range(log'[s])
  BY DEF OtherLogs
<1>4. phase'[c] # "locking"
  BY DEF Holding
<1>5. \A d, e \in Consumers : d[1] = e[1] /\ Holding(d)' /\ Holding(e)' => d = e
  BY <1>2 DEF Hands
<1>6. ASSUME NEW d \in Consumers
      PROVE  /\ Range(hand'[d]) \subseteq Range(posted'[d[1]])
             /\ Holding(d)' => Range(hand'[d]) \subseteq Range(log'[d[1]])
  <2>1. CASE d = c
    BY <2>1 DEF Hands
  <2>2. CASE d # c
    BY <1>1, <1>2, <1>3, <2>2 DEF Hands
  <2>3. QED
    BY <2>1, <2>2
<1>7. ASSUME NEW d \in Consumers, phase'[d] = "locking"
      PROVE  /\ Len(hand'[d]) = 1 /\ d[1] \in strayed'
             /\ hand'[d][1] \notin Range(log'[d[1]]) \cup Range(queue'[d[1]])
  <2>1. d # c /\ phase[d] = "locking" /\ hand'[d] = hand[d]
    BY <1>2, <1>4, <1>7
  <2>2. /\ Len(hand[d]) = 1 /\ d[1] \in strayed
        /\ hand[d][1] \notin Range(log[d[1]]) \cup Range(queue[d[1]])
    BY <2>1 DEF Hands
  <2>3. hand[d][1] \notin Range(log'[d[1]])
    BY <1>1, <2>1, <2>2 DEF OtherLogs
  <2>4. QED
    BY <1>1, <2>1, <2>2, <2>3
<1>8. \A d, e \in Consumers :
        phase'[d] = "locking" /\ phase'[e] = "locking" /\ hand'[d][1] = hand'[e][1] => d = e
  BY <1>2, <1>4 DEF Hands
<1>9. QED
  BY <1>5, <1>6, <1>7, <1>8 DEF Hands

\* A task takes a message and waits for the lock.
LEMMA LockHands ==
  ASSUME TypeOK, Hands, Places, UNCHANGED <<posted, strayed, log>>,
         NEW c \in Consumers, NEW m, Others(c), c[1] \in strayed,
         phase'[c] = "locking", hand'[c] = <<m>>,
         m \in Range(queue[c[1]]), m \notin Range(queue'[c[1]]),
         \A s \in SessionIds : Range(queue'[s]) \subseteq Range(queue[s])
  PROVE  Hands'
<1>1. \A d \in Consumers : d[1] \in SessionIds
  BY ConsumerPair
<1>2. \A d \in Consumers \ {c} : /\ Holding(d)' <=> Holding(d)
                                 /\ phase'[d] = phase[d] /\ hand'[d] = hand[d]
  BY DEF Others, Holding
<1>3. ~Holding(c)' /\ Len(hand'[c]) = 1 /\ hand'[c][1] = m /\ Range(hand'[c]) = {m}
  BY DEF Holding, Range
<1>4. m \in Range(posted[c[1]]) /\ m \notin Range(log[c[1]]) /\ SessionOf[m] = c[1]
  BY <1>1 DEF Places, Placed
<1>5. \A d, e \in Consumers : d[1] = e[1] /\ Holding(d)' /\ Holding(e)' => d = e
  BY <1>2, <1>3 DEF Hands
<1>6. ASSUME NEW d \in Consumers
      PROVE  /\ Range(hand'[d]) \subseteq Range(posted'[d[1]])
             /\ Holding(d)' => Range(hand'[d]) \subseteq Range(log'[d[1]])
             /\ phase'[d] = "locking" =>
                  /\ Len(hand'[d]) = 1 /\ d[1] \in strayed'
                  /\ hand'[d][1] \notin Range(log'[d[1]]) \cup Range(queue'[d[1]])
  <2>1. CASE d = c
    BY <1>3, <1>4, <2>1
  <2>2. CASE d # c
    BY <1>1, <1>2, <2>2 DEF Hands
  <2>3. QED
    BY <2>1, <2>2
<1>7. ASSUME NEW d \in Consumers \ {c}, phase[d] = "locking" PROVE hand[d][1] # m
  <2>1. hand[d][1] \notin Range(queue[d[1]]) /\ Range(hand[d]) \subseteq Range(posted[d[1]])
    BY <1>7 DEF Hands
  <2>2. Len(hand[d]) = 1 /\ DOMAIN hand[d] = 1 .. 1
    BY <1>7 DEF Hands, TypeOK
  <2>3. hand[d][1] \in Range(posted[d[1]])
    BY <2>1, <2>2 DEF Range
  <2>4. SessionOf[hand[d][1]] = d[1]
    BY <1>1, <2>3 DEF Places, Placed
  <2>5. QED
    BY <1>4, <2>1, <2>4
<1>8. \A d, e \in Consumers :
        phase'[d] = "locking" /\ phase'[e] = "locking" /\ hand'[d][1] = hand'[e][1] => d = e
  BY <1>2, <1>3, <1>7 DEF Hands
<1>9. QED
  BY <1>5, <1>6, <1>8 DEF Hands

\* InOrder holds when every session but those it leaves out is in order.
LEMMA InOrderIs ==
  /\ InOrder <=> \A s \in SessionIds \ (Unsafe \cup strayed) :
                   Ordered(queue[s], log[s], posted[s])
  /\ InOrder' <=> \A s \in SessionIds \ (Unsafe \cup strayed') :
                   Ordered(queue'[s], log'[s], posted'[s])
  BY DEF InOrder, Ordered, OrderedFrom

-----------------------------------------------------------------------------
(* Messages: one lemma for each kind of step.                              *)

Data == Hands /\ Places /\ InOrder

\* Nothing is posted, taken or stored.
LEMMA DataQuiet ==
  ASSUME TypeOK, Data, UNCHANGED <<queue, log, posted>>, strayed \subseteq strayed',
         \A c \in Consumers : Keeps(c) \/ Drops(c)
  PROVE  Data'
<1>1. Hands'
  BY RestHands DEF Data
<1>2. Places'
  BY DEF Data, Places
<1>3. InOrder'
  BY InOrderIs DEF Data
<1>4. QED
  BY <1>1, <1>2, <1>3 DEF Data

LEMMA PostData ==
  ASSUME TypeOK, TasksKnown, Data, NEW m \in Messages, Post(m)
  PROVE  Data'
<1> DEFINE s == SessionOf[m]
<1>1. /\ s \in SessionIds /\ EnsureSession(s) /\ m \notin Range(posted[s])
      /\ queue' = [queue EXCEPT ![s] = Append(@, m)]
      /\ posted' = [posted EXCEPT ![s] = Append(@, m)]
      /\ strayed \subseteq strayed' /\ UNCHANGED <<hand, log>>
  BY SessionsAssumption DEF Post, Put
<1>2. \A c \in Consumers : Keeps(c)
  <2>1. CASE UNCHANGED phase
    BY <1>1, <2>1 DEF Keeps, Holding
  <2>2. ASSUME NEW n \in 1 .. MaxConsumers, n = made[s] + 1,
               phase' = [phase EXCEPT ![<<s, n>>] = "new"]
        PROVE  \A c \in Consumers : Keeps(c)
    <3>1. <<s, n>> \in Consumers /\ made[s] \in Nat
      BY <1>1, SessionsAssumption DEF Consumers, TypeOK
    <3>2. phase[<<s, n>>] = "none"
      BY <2>2, <3>1 DEF TasksKnown
    <3>3. QED
      BY <1>1, <2>2, <3>1, <3>2 DEF Keeps, Holding, TypeOK
  <2>3. QED
    BY <1>1, <2>1, <2>2, EnsureCases
<1> HIDE DEF s
<1>3. /\ queue[s] \in Seq(Messages) /\ posted[s] \in Seq(Messages)
      /\ log[s] \in Seq(Messages \cup {Reply})
      /\ queue'[s] = Append(queue[s], m) /\ posted'[s] = Append(posted[s], m)
      /\ \A r \in SessionIds \ {s} : queue'[r] = queue[r] /\ posted'[r] = posted[r]
  BY <1>1 DEF TypeOK
<1>4. Placed(s, queue[s], log[s], posted[s]) /\ SessionOf[m] = s
  BY <1>1 DEF Data, Places, s
<1>5. /\ Placed(s, queue'[s], log'[s], posted'[s])
      /\ Ordered(queue[s], log[s], posted[s]) => Ordered(queue'[s], log'[s], posted'[s])
  <2>1. /\ Placed(s, Append(queue[s], m), log[s], Append(posted[s], m))
        /\ Ordered(queue[s], log[s], posted[s])
             => Ordered(Append(queue[s], m), log[s], Append(posted[s], m))
    <3>1. m \notin Range(posted[s]) /\ queue[s] \in Seq(Messages) /\ posted[s] \in Seq(Messages)
          /\ log[s] \in Seq(Messages \cup {Reply})
      BY <1>1, <1>3
    <3>2. QED
      BY <1>4, <3>1, PostPlaced
  <2>2. QED
    BY <1>1, <1>3, <2>1
<1>6. Places'
  BY <1>1, <1>3, <1>5 DEF Data, Places
<1>7. InOrder'
  BY <1>1, <1>3, <1>5, InOrderIs DEF Data
<1>8. ASSUME NEW r \in SessionIds
      PROVE  /\ Range(posted[r]) \subseteq Range(posted'[r])
             /\ Range(log[r]) \subseteq Range(log'[r])
             /\ \A e \in Range(posted[r]) : e \in Range(log'[r]) \cup Range(queue'[r])
                                              => e \in Range(log[r]) \cup Range(queue[r])
  BY <1>1, <1>3, AppendRange
<1>9. Hands'
  BY <1>1, <1>2, <1>8, RestHands DEF Data
<1>10. QED
  BY <1>6, <1>7, <1>9 DEF Data

\* A turn is over: its reply is stored.
LEMMA AgentEndsData ==
  ASSUME TypeOK, Data, NEW c \in Consumers, AgentEnds(c)
  PROVE  Data'
<1> DEFINE s == c[1]
<1>1. /\ s \in SessionIds /\ UNCHANGED <<queue, posted, strayed>>
      /\ log' = [log EXCEPT ![s] = Append(@, Reply)]
  BY ConsumerPair DEF AgentEnds, Store
<1>2. \A d \in Consumers : Keeps(d) \/ Drops(d)
  BY DEF TypeOK, AgentEnds, LoopPhase, Keeps, Drops, Holding
<1> HIDE DEF s
<1>3. /\ queue[s] \in Seq(Messages) /\ posted[s] \in Seq(Messages)
      /\ log[s] \in Seq(Messages \cup {Reply})
      /\ log'[s] = Append(log[s], Reply)
      /\ \A r \in SessionIds \ {s} : log'[r] = log[r]
  BY <1>1 DEF TypeOK
<1>4. /\ Placed(s, queue'[s], log'[s], posted'[s])
      /\ Ordered(queue[s], log[s], posted[s]) => Ordered(queue'[s], log'[s], posted'[s])
  BY <1>1, <1>3, ReplyPlaced DEF Data, Places
<1>5. Places'
  BY <1>1, <1>3, <1>4 DEF Data, Places
<1>6. InOrder'
  BY <1>1, <1>3, <1>4, InOrderIs DEF Data
<1>7. ASSUME NEW r \in SessionIds
      PROVE  /\ Range(posted[r]) \subseteq Range(posted'[r])
             /\ Range(log[r]) \subseteq Range(log'[r])
             /\ \A e \in Range(posted[r]) : e \in Range(log'[r]) \cup Range(queue'[r])
                                              => e \in Range(log[r]) \cup Range(queue[r])
  <2>1. Reply \notin Range(posted[r])
    BY SessionsAssumption DEF TypeOK, Range
  <2>2. Range(Append(log[s], Reply)) = Range(log[s]) \cup {Reply}
    BY <1>3, AppendRange
  <2>3. QED
    BY <1>1, <1>3, <2>1, <2>2
<1>8. Hands'
  BY <1>1, <1>2, <1>7, RestHands DEF Data
<1>9. QED
  BY <1>5, <1>6, <1>8 DEF Data

\* A message leaves the queue for the history and the hand of a task that has the lock.
LEMMA MoveData ==
  ASSUME TypeOK, Data, NEW c \in Consumers, UNCHANGED <<posted, strayed>>,
         Get(c[1]), Others(c), OtherLogs(c[1]), Holding(c)',
         log'[c[1]] = Append(log[c[1]], Head(queue[c[1]])),
         \A d \in Consumers \ {c} : d[1] = c[1] => ~Holding(d),
         \/ Range(hand'[c]) = {Head(queue[c[1]])}
         \/ Holding(c) /\ Range(hand'[c]) = Range(hand[c]) \cup {Head(queue[c[1]])}
  PROVE  Data'
<1> DEFINE s == c[1]
           m == Head(queue[s])
<1>1. /\ s \in SessionIds /\ queue[s] # << >> /\ m \in Messages
      /\ queue'[s] = Tail(queue[s]) /\ \A r \in SessionIds \ {s} : queue'[r] = queue[r]
      /\ log'[s] = Append(log[s], m) /\ \A r \in SessionIds \ {s} : log'[r] = log[r]
      /\ queue[s] \in Seq(Messages) /\ posted[s] \in Seq(Messages)
      /\ log[s] \in Seq(Messages \cup {Reply})
  BY ConsumerPair, GetCases DEF OtherQueues, OtherLogs, TypeOK
<1>2. /\ Placed(s, queue'[s], log'[s], posted'[s])
      /\ Ordered(queue[s], log[s], posted[s]) => Ordered(queue'[s], log'[s], posted'[s])
  BY <1>1, MovePlaced DEF Data, Places
<1>3. Places'
  BY <1>1, <1>2 DEF Data, Places
<1>4. InOrder'
  BY <1>1, <1>2, InOrderIs DEF Data
<1>5. /\ m \in Range(queue[s]) /\ m \in Range(posted[s])
      /\ Range(queue'[s]) \subseteq Range(queue[s])
      /\ Range(log'[s]) = Range(log[s]) \cup {m}
  <2>1. Range(queue[s]) = Range(queue'[s]) \cup {m}
    BY <1>1, TailRange
  <2>2. Range(log'[s]) = Range(log[s]) \cup {m}
    BY <1>1, AppendRange
  <2>3. Range(queue[s]) \subseteq Range(posted[s])
    BY <1>1 DEF Data, Places, Placed
  <2>4. QED
    BY <2>1, <2>2, <2>3
<1>6. \A r \in SessionIds : Range(queue'[r]) \subseteq Range(queue[r])
  BY <1>1, <1>5
<1>7. \A d \in Consumers \ {c} : d[1] = s /\ phase[d] = "locking" => hand[d][1] # m
  BY <1>5 DEF Data, Hands
<1>8. Hands'
  BY <1>5, <1>6, <1>7, HoldHands DEF Data
<1>9. QED
  BY <1>3, <1>4, <1>8 DEF Data

LEMMA TakeData ==
  ASSUME TypeOK, TasksKnown, Data, NEW c \in Consumers, Take(c)
  PROVE  Data'
<1> DEFINE s == c[1]
           m == Head(queue[s])
<1>1. /\ s \in SessionIds /\ queue[s] # << >> /\ m \in Messages /\ Get(s)
      /\ queue'[s] = Tail(queue[s]) /\ \A r \in SessionIds \ {s} : queue'[r] = queue[r]
      /\ queue[s] \in Seq(Messages) /\ phase[c] = "waiting" /\ UNCHANGED <<posted, strayed>>
  BY ConsumerPair, GetCases DEF OtherQueues, TypeOK, Take, past
<1>2. /\ m \in Range(queue[s]) /\ m \notin Range(queue'[s])
      /\ \A r \in SessionIds : Range(queue'[r]) \subseteq Range(queue[r])
  <2>1. Range(queue[s]) = Range(queue'[s]) \cup {m} /\ m \notin Range(queue'[s])
    BY <1>1, TailRange DEF Data, Places, Placed
  <2>2. QED
    BY <1>1, <2>1
<1>3. UNCHANGED log => Places'
  <2>1. Placed(s, Tail(queue[s]), log[s], posted[s])
    BY <1>1, LeavePlaced DEF Data, Places
  <2>2. QED
    BY <1>1, <2>1 DEF Data, Places
<1>4. UNCHANGED log /\ s \in Unsafe \cup strayed => InOrder'
  BY <1>1, InOrderIs DEF Data
<1>5. CASE Locked(s)
  <2>1. phase' = [phase EXCEPT ![c] = "locking"] /\ hand' = [hand EXCEPT ![c] = <<m>>]
        /\ UNCHANGED log
    BY <1>5 DEF Take
  <2>2. phase'[c] = "locking" /\ hand'[c] = <<m>> /\ Others(c)
    BY <2>1 DEF TypeOK, Others
  <2>3. s \in strayed
    <3>1. PICK d \in Consumers : d[1] = s /\ phase[d] \in {"gathering", "thinking"}
      BY <1>5 DEF Locked
    <3>2. Alive(c) /\ Alive(d) /\ c # d
      BY <1>1, <3>1 DEF Alive
    <3>3. c[2] # d[2]
      BY <3>1, <3>2, ConsumerPair
    <3>4. QED
      BY <3>1, <3>2, <3>3 DEF TasksKnown
  <2>4. Hands'
    BY <1>1, <1>2, <2>1, <2>2, <2>3, LockHands DEF Data
  <2>5. QED
    BY <1>3, <1>4, <2>1, <2>3, <2>4 DEF Data
<1>6. CASE ~Locked(s)
  <2>1. OpenTurn(c, m)
    BY <1>6 DEF Take
  <2>2. CASE s \in Unsafe
    <3>1. Others(c) /\ phase'[c] = "over" /\ hand'[c] = << >> /\ UNCHANGED log
      BY <1>1, <2>1, <2>2, OpenTurnCases
    <3>2. \A d \in Consumers : Keeps(d) \/ Drops(d)
      BY <3>1 DEF Others, Keeps, Drops, Holding
    <3>3. Hands'
      BY <1>1, <1>2, <3>1, <3>2, RestHands DEF Data
    <3>4. QED
      BY <1>3, <1>4, <2>2, <3>1, <3>3 DEF Data
  <2>3. CASE s \notin Unsafe
    <3>1. /\ Others(c) /\ phase'[c] = "gathering" /\ hand'[c] = <<m>>
          /\ log'[s] = Append(log[s], m) /\ OtherLogs(s)
      BY <1>1, <2>1, <2>3, OpenTurnCases
    <3>2. Holding(c)' /\ Range(hand'[c]) = {m}
      BY <3>1 DEF Holding, Range
    <3>3. \A d \in Consumers \ {c} : d[1] = s => ~Holding(d)
      BY <1>6 DEF Locked, Holding
    <3>4. QED
      BY <1>1, <3>1, <3>2, <3>3, MoveData
  <2>4. QED
    BY <2>2, <2>3
<1>7. QED
  BY <1>5, <1>6

LEMMA TakeLockData ==
  ASSUME TypeOK, Data, NEW c \in Consumers, TakeLock(c)
  PROVE  Data'
<1> DEFINE s == c[1]
           m == hand[c][1]
<1>1. /\ s \in SessionIds /\ phase[c] = "locking" /\ ~Locked(s)
      /\ UNCHANGED <<queue, posted, strayed>>
  BY ConsumerPair DEF TakeLock, past
<1>2. /\ Len(hand[c]) = 1 /\ hand[c] \in Seq(Messages) /\ s \in strayed
      /\ m \notin Range(log[s]) \cup Range(queue[s]) /\ Range(hand[c]) \subseteq Range(posted[s])
  BY <1>1 DEF TypeOK, Data, Hands
<1>3. m \in Messages /\ Head(hand[c]) = m /\ m \in Range(hand[c]) /\ hand[c] = <<m>>
  BY <1>2 DEF Range
<1>4. m \in Range(posted[s])
  BY <1>2, <1>3
<1>5. OpenTurn(c, m)
  BY <1>3 DEF TakeLock
<1>6. CASE s \in Unsafe
  <2>1. Others(c) /\ phase'[c] = "over" /\ hand'[c] = << >> /\ UNCHANGED log
    BY <1>3, <1>5, <1>6, OpenTurnCases
  <2>2. \A d \in Consumers : Keeps(d) \/ Drops(d)
    BY <2>1 DEF Others, Keeps, Drops, Holding
  <2>3. QED
    BY <1>1, <2>1, <2>2, DataQuiet
<1>7. CASE s \notin Unsafe
  <2>1. /\ Others(c) /\ phase'[c] = "gathering" /\ hand'[c] = <<m>>
        /\ log'[s] = Append(log[s], m) /\ OtherLogs(s)
    BY <1>3, <1>5, <1>7, OpenTurnCases
  <2>2. Holding(c)' /\ Range(hand'[c]) = {m}
    BY <2>1 DEF Holding, Range
  <2>3. \A d \in Consumers \ {c} : d[1] = s => ~Holding(d)
    BY <1>1 DEF Locked, Holding
  <2>4. log[s] \in Seq(Messages \cup {Reply}) /\ Placed(s, queue[s], log[s], posted[s])
    BY <1>1 DEF TypeOK, Data, Places
  <2>5. Range(log'[s]) = Range(log[s]) \cup {m}
    BY <1>3, <2>1, <2>4, AppendRange
  <2>6. Placed(s, queue[s], Append(log[s], m), posted[s])
    BY <1>2, <1>3, <1>4, <2>4, LogPlaced
  <2>7. Places'
    BY <1>1, <2>1, <2>6 DEF Data, Places, OtherLogs
  <2>8. InOrder'
    BY <1>1, <1>2, <2>1, InOrderIs DEF Data, OtherLogs
  <2>9. \A d \in Consumers \ {c} : d[1] = s /\ phase[d] = "locking" => hand[d][1] # m
    BY <1>1 DEF Data, Hands
  <2>10. Hands'
    BY <1>1, <1>4, <2>1, <2>2, <2>3, <2>5, <2>9, HoldHands DEF Data
  <2>11. QED
    BY <2>7, <2>8, <2>10 DEF Data
<1>8. QED
  BY <1>6, <1>7

LEMMA GatherData ==
  ASSUME TypeOK, Data, NEW c \in Consumers, Gather(c)
  PROVE  Data'
<1> DEFINE s == c[1]
           m == Head(queue[s])
<1>1. /\ s \in SessionIds /\ Get(s) /\ m \in Messages
      /\ hand' = [hand EXCEPT ![c] = Append(@, m)] /\ log' = [log EXCEPT ![s] = Append(@, m)]
      /\ phase[c] = "gathering" /\ UNCHANGED <<phase, posted, strayed>>
  BY ConsumerPair, GetCases DEF Gather, Store, past
<1>2. hand[c] \in Seq(Messages) /\ hand'[c] = Append(hand[c], m)
      /\ log'[s] = Append(log[s], m) /\ Others(c) /\ OtherLogs(s)
  BY <1>1 DEF TypeOK, Others, OtherLogs
<1>3. Holding(c) /\ Holding(c)' /\ Range(hand'[c]) = Range(hand[c]) \cup {m}
  BY <1>1, <1>2, AppendRange DEF Holding
<1>4. \A d \in Consumers \ {c} : d[1] = s => ~Holding(d)
  BY <1>3 DEF Data, Hands
<1>5. QED
  BY <1>1, <1>2, <1>3, <1>4, MoveData

LEMMA DataStep == TypeOK /\ HandsFull /\ TasksKnown /\ Data /\ [Next]_vars => Data'
<1> SUFFICES ASSUME TypeOK, HandsFull, TasksKnown, Data, [Next]_vars PROVE Data'
  OBVIOUS
<1>1. ASSUME NEW m \in Messages, Post(m) PROVE Data'
  BY <1>1, PostData
<1>2. CASE StopBegin
  <2>1. \A c \in Consumers : Keeps(c) \/ Drops(c)
    BY <1>2, StopBeginCases DEF Keeps, Drops, Holding
  <2>2. UNCHANGED <<queue, log, posted, strayed>>
    BY <1>2 DEF StopBegin, past
  <2>3. QED
    BY <2>1, <2>2, DataQuiet
<1>3. ASSUME NEW c \in Consumers, Consumer(c) PROVE Data'
  <2>1. CASE Begin(c) \/ Idle(c) \/ GatherEnds(c)
    <3>1. \A d \in Consumers : Keeps(d) \/ Drops(d)
      BY <2>1 DEF TypeOK, HandsFull, Begin, Idle, GatherEnds, LoopPhase, Keeps, Drops, Holding
    <3>2. UNCHANGED <<queue, log, posted, strayed>>
      BY <2>1 DEF Begin, Idle, GatherEnds, past
    <3>3. QED
      BY <3>1, <3>2, DataQuiet
  <2>2. QED
    BY <1>3, <2>1, TakeData, TakeLockData, GatherData DEF Consumer
<1>4. ASSUME NEW c \in Consumers, AgentEnds(c) PROVE Data'
  BY <1>4, AgentEndsData
<1>5. CASE UNCHANGED <<queue, log, posted, strayed, hand, phase>>
  BY <1>5, DataQuiet DEF Keeps, Holding
<1>6. QED
  BY <1>1, <1>2, <1>3, <1>4, <1>5
  DEF Next, vars, past, TurnTimesOut, Start, StopEnd, OrphanReturns

-----------------------------------------------------------------------------
(* Answers.                                                                *)

LEMMA AnswerStep == TypeOK /\ HandsFull /\ Data /\ AnswerIsMine /\ [Next]_vars => AnswerIsMine'
<1> SUFFICES ASSUME TypeOK, HandsFull, Data, AnswerIsMine, [Next]_vars PROVE AnswerIsMine'
  OBVIOUS
<1>1. ASSUME NEW c \in Consumers, AgentEnds(c) PROVE AnswerIsMine'
  <2>1. c[1] \in SessionIds /\ Holding(c) /\ hand[c] \in Seq(Messages) /\ hand[c] # << >>
    BY <1>1, ConsumerPair DEF AgentEnds, Holding, HandsFull, TypeOK
  <2>2. PICK m : m \in Range(hand[c])
    BY <2>1, TailRange
  <2>3. ASSUME NEW t \in Subscribers(c[1]) PROVE t \in Range(hand[c])
    <3>1. m \in Messages /\ SessionOf[m] = c[1]
      <4>1. m \in Messages
        BY <2>1, <2>2 DEF Range
      <4>2. m \in Range(posted[c[1]])
        BY <2>2 DEF Data, Hands
      <4>3. QED
        BY <2>1, <4>1, <4>2 DEF Data, Places, Placed
    <3>2. t \in Turns /\ SessionOf[t] = c[1]
      BY <2>3 DEF Subscribers
    <3>3. m = t
      BY <3>1, <3>2, SessionsAssumption DEF OwnSession
    <3>4. QED
      BY <2>2, <3>3
  <2>4. /\ turn' = [t \in Turns |-> IF t \in Subscribers(c[1]) THEN "answered" ELSE turn[t]]
        /\ heard' = [t \in Turns |-> IF t \in Subscribers(c[1]) THEN Range(hand[c]) ELSE heard[t]]
    BY <1>1 DEF AgentEnds, Publish
  <2>5. QED
    BY <2>3, <2>4 DEF AnswerIsMine
<1>2. CASE \A t \in Turns : (turn'[t] = "answered" => turn[t] = "answered") /\ heard'[t] = heard[t]
  BY <1>2 DEF AnswerIsMine
<1>3. ASSUME NEW m \in Messages, Post(m) PROVE AnswerIsMine'
  BY <1>2, <1>3 DEF Post
<1>4. ASSUME NEW t \in Turns, TurnTimesOut(t) PROVE AnswerIsMine'
  BY <1>2, <1>4 DEF TurnTimesOut, TypeOK
<1>5. CASE UNCHANGED turns
  BY <1>2, <1>5 DEF turns
<1>6. QED
  BY <1>1, <1>3, <1>4, <1>5
  DEF Next, vars, Consumer, Start, StopBegin, StopEnd, OrphanReturns,
      Begin, Idle, Take, TakeLock, Gather, GatherEnds

-----------------------------------------------------------------------------
(* The theorems.                                                           *)

LEMMA InitInv == Init => Inv
<1> SUFFICES ASSUME Init PROVE Inv
  OBVIOUS
<1>1. TypeOK
  BY InitTyped
<1>2. Range(<< >>) = {} /\ IsInjective(<< >>) /\ Len(<< >>) = 0 /\ DOMAIN << >> = {}
  BY DEF Range, IsInjective
<1>3. HandsFull
  BY DEF Init, HandsFull, Holding
<1>4. TasksKnown
  BY ConsumerPair DEF Init, TasksKnown, Alive
<1>5. Hands
  BY <1>2, ConsumerPair DEF Init, Hands, Holding
<1>6. Places
  BY <1>2 DEF Init, Places, Placed
<1>7. InOrder
  <2>1. OrderedFrom(0, << >>, << >>, << >>)
    BY <1>2 DEF OrderedFrom
  <2>2. \A s \in SessionIds : Ordered(queue[s], log[s], posted[s])
    BY <1>2, <2>1 DEF Init, Ordered
  <2>3. QED
    BY <2>2, InOrderIs
<1>8. AnswerIsMine
  BY DEF Init, AnswerIsMine
<1>9. QED
  BY <1>1, <1>3, <1>4, <1>5, <1>6, <1>7, <1>8 DEF Inv

\* The inductive invariant of the chat sessions holds in every reachable state.
THEOREM InvHolds == Spec => []Inv
<1>1. Inv /\ [Next]_vars => Inv'
  <2> SUFFICES ASSUME Inv, [Next]_vars PROVE Inv'
    OBVIOUS
  <2>1. TypeOK' /\ HandsFull' /\ TasksKnown' /\ AnswerIsMine'
    BY NextTyped, HandsFullStep, TasksStep, AnswerStep DEF Inv, Data
  <2>2. Data'
    BY DataStep DEF Inv, Data
  <2>3. QED
    BY <2>1, <2>2 DEF Inv, Data
<1>2. QED
  BY <1>1, InitInv, PTL DEF Spec

\* Every variable of the sessions has its type in every reachable state.
THEOREM Typed == Spec => []TypeOK
<1>1. Inv => TypeOK
  BY DEF Inv
<1>2. QED
  BY <1>1, InvHolds, PTL

\* A session never has two consumer tasks (ensure_session, stop), unless something was
\* posted to it while stop() awaited its tasks.
THEOREM ConsumerKept == Spec => []OneConsumer
<1>1. Inv => OneConsumer
  <2> SUFFICES ASSUME Inv, NEW c \in Consumers, NEW d \in Consumers,
                      c[1] = d[1], c[1] \notin strayed, Alive(c), Alive(d)
               PROVE  c = d
    BY DEF OneConsumer
  <2>1. c[2] = table[c[1]] /\ d[2] = table[d[1]]
    BY DEF Inv, TasksKnown
  <2>2. QED
    BY <2>1, ConsumerPair
<1>2. QED
  BY <1>1, InvHolds, PTL

\* What is posted to a session goes through its queue into its history in order, with
\* no loss (post, run_session).
THEOREM OrderKept == Spec => []InOrder
<1>1. Inv => InOrder
  BY DEF Inv
<1>2. QED
  BY <1>1, InvHolds, PTL

\* A turn only takes the answer to its own message for its answer (_run_one_turn).
THEOREM AnswersKept == Spec => []AnswerIsMine
<1>1. Inv => AnswerIsMine
  BY DEF Inv
<1>2. QED
  BY <1>1, InvHolds, PTL

\* No message is in two places or in the hands of two tasks, even when a session has
\* two tasks (run_session).
THEOREM PlacesKept == Spec => []NothingTwice
<1>1. Inv => NothingTwice
  <2> SUFFICES ASSUME Inv PROVE NothingTwice
    OBVIOUS
  <2>1. ASSUME NEW c \in Consumers, NEW d \in Consumers, NEW m \in Range(hand[c]),
               m \in Range(hand[d])
        PROVE  c = d
    <3>1. c[1] \in SessionIds /\ d[1] \in SessionIds
      BY ConsumerPair
    <3>2. c[1] = d[1]
      BY <2>1, <3>1 DEF Inv, Hands, Places, Placed
    <3>3. hand[c] # << >> /\ hand[d] # << >>
      BY <2>1 DEF Range
    <3>4. /\ Holding(c) \/ phase[c] = "locking"
          /\ Holding(d) \/ phase[d] = "locking"
      BY <3>3 DEF Inv, HandsFull
    <3>5. ASSUME NEW e \in Consumers, phase[e] = "locking", m \in Range(hand[e])
          PROVE  hand[e][1] = m /\ m \notin Range(log[e[1]])
      <4>1. Len(hand[e]) = 1 /\ DOMAIN hand[e] = 1 .. 1
        BY <3>5 DEF Inv, Hands, TypeOK
      <4>2. hand[e][1] = m
        BY <3>5, <4>1 DEF Range
      <4>3. QED
        BY <3>5, <4>2 DEF Inv, Hands
    <3>6. ASSUME NEW e \in Consumers, Holding(e), m \in Range(hand[e])
          PROVE  m \in Range(log[e[1]])
      BY <3>6 DEF Inv, Hands
    <3>7. CASE Holding(c) /\ Holding(d)
      BY <3>2, <3>7 DEF Inv, Hands
    <3>8. CASE phase[c] = "locking" /\ phase[d] = "locking"
      <4>1. hand[c][1] = m /\ hand[d][1] = m
        BY <2>1, <3>5, <3>8
      <4>2. QED
        BY <3>8, <4>1 DEF Inv, Hands
    <3>9. QED
      BY <2>1, <3>2, <3>4, <3>5, <3>6, <3>7, <3>8
  <2>2. \A s \in SessionIds :
          /\ IsInjective(queue[s]) /\ Range(log[s]) \cap Range(queue[s]) = {}
          /\ \A i, j \in DOMAIN log[s] : log[s][i] = log[s][j] /\ log[s][i] # Reply => i = j
    BY DEF Inv, Places, Placed
  <2>3. QED
    BY <2>1, <2>2 DEF NothingTwice
<1>2. QED
  BY <1>1, InvHolds, PTL
=============================================================================
