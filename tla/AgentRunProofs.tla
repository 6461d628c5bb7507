---------------------------- MODULE AgentRunProofs ----------------------------
(***************************************************************************)
(* Proofs about AgentRun and the calls of ModelCalls, for any chain of     *)
(* models, tasks, tools, thresholds and limits.                            *)
(***************************************************************************)
EXTENDS AgentRun, SubsequencesProofs, TLAPS

-----------------------------------------------------------------------------
(* The inductive invariant, in parts.                                      *)

\* A call that is not over has tried the models before the one it asks.
Calls ==
  /\ call.at = "asking" => \A l \in 1 .. call.link - 1 : l \in call.tried
  /\ NoneMeansAllTried

\* A run has a number and a task.
Numbered == pc # "idle" => run \in Runs /\ task \in Tasks

\* The history, which is what the recorder has, is that of the steps made; only the
\* last action of a run is a terminal one, and it ends the run.
Steps ==
  /\ Len(history) = step /\ buffer = history
  /\ pc \in {"idle", "plan", "planning"} => step = 0
  /\ pc \in {"plan", "planning", "think", "thinking", "act"} =>
       step < MaxSteps /\ \A i \in 1 .. step : history[i] \notin Terminal
  /\ pc \in {"compact", "summarizing", "reflect"} =>
       /\ step > 0 /\ history[step] = chosen
       /\ \A i \in 1 .. step - 1 : history[i] \notin Terminal
  /\ pc = "reflect" => chosen \in Terminal \/ step = MaxSteps

\* The records are those of earlier runs, unless the run is saved or over.
Earlier ==
  \A i \in DOMAIN runlog :
    runlog[i].of <= run /\ (pc \notin {"idle", "save"} => runlog[i].of < run)

\* n is the number of equal elements that s ends with.
IsTrailing(s, n) ==
  /\ n \in 1 .. Len(s)
  /\ \A i \in Len(s) - n + 1 .. Len(s) : s[i] = s[Len(s)]
  /\ n = Len(s) \/ s[Len(s) - n] # s[Len(s)]

\* What the guards know of the actions seen: the first one is observed by both.
Exact ==
  /\ pc = "summarizing" => ~clean
  /\ clean /\ pc # "idle" =>
       /\ pc = "thinking" => converge.step = step
       /\ Seen = << >> => repeats = NoRepeats /\ converge.last = None /\ converge.count = 0
       /\ Seen # << >> =>
            /\ repeats.act = Last(Seen) /\ IsTrailing(Seen, repeats.count)
            /\ converge.last \in 0 .. Len(Seen) - 1
            /\ Last(Seen) \notin Terminal => converge.count = converge.last + 1

\* After the first turn of a run at most so many steps of the task can be compacted.
FewCandidates ==
  Compacts /\ pc \in {"think", "thinking"} /\ step > 0 => Len(Candidates) <= Keep

\* Neither memory nor its file states a task more often than there were runs.
Statements(s, t) == Len(Only(s, StepsOf({t}, {"task"})))
Stated == \A t \in Tasks : Statements(mem, t) <= run /\ Statements(disk, t) <= run

Inv ==
  /\ TypeOK /\ Numbered /\ Calls /\ Steps /\ Earlier /\ LogHoldsWholeRuns /\ Exact
  /\ NothingForgotten /\ FewCandidates /\ Stated

-----------------------------------------------------------------------------
(* Calls of the model.                                                     *)

LEMMA ChainOk ==
  ASSUME CallType
  PROVE  /\ Len(chain) \in Nat \ {0} /\ DOMAIN chain = 1 .. Len(chain)
         /\ 1 \in DOMAIN chain /\ Offered \in BOOLEAN
<1>1. chain \in Seq(BOOLEAN) /\ chain # << >>
  BY ModelCallsAssumption DEF CallType
<1>2. Len(chain) \in Nat \ {0} /\ DOMAIN chain = 1 .. Len(chain)
  BY <1>1
<1>3. QED
  BY <1>2 DEF Offered

LEMMA IdleOk == CallType => Idle \in [at : {"idle", "asking", "returned", "hung"},
     link : DOMAIN chain, attempt : 0 .. Retries, tools : BOOLEAN,
     tried : SUBSET DOMAIN chain, got : Responses]
<1> SUFFICES ASSUME CallType PROVE Idle \in [at : {"idle", "asking", "returned", "hung"},
     link : DOMAIN chain, attempt : 0 .. Retries, tools : BOOLEAN,
     tried : SUBSET DOMAIN chain, got : Responses]
  OBVIOUS
<1>1. 1 \in DOMAIN chain /\ 0 \in 0 .. Retries /\ "none" \in Responses
  BY ChainOk, ModelCallsAssumption DEF Responses
<1>2. QED
  BY <1>1 DEF Idle

LEMMA IdleCalls ==
  ASSUME CallType, UNCHANGED chain, call' = Idle
  PROVE  CallType' /\ Calls'
<1>1. CallType'
  BY IdleOk DEF CallType
<1>2. call'.at = "idle"
  BY DEF Idle
<1>3. QED
  BY <1>1, <1>2 DEF Calls, NoneMeansAllTried

LEMMA GenerateCalls ==
  ASSUME CallType, UNCHANGED chain, NEW d \in BOOLEAN, Generate(d)
  PROVE  CallType' /\ Calls'
<1>1. call' = [Idle EXCEPT !.at = "asking", !.tools = d /\ Offered] /\ (d /\ Offered) \in BOOLEAN
  BY ChainOk DEF Generate
<1>2. CallType'
  BY <1>1, IdleOk DEF CallType
<1>3. call'.at = "asking" /\ call'.link = 1
  BY <1>1 DEF Idle
<1>4. QED
  BY <1>2, <1>3 DEF Calls, NoneMeansAllTried

\* A link that gives up passes the call on, or ends it when all have been tried.
LEMMA NextLinkOk ==
  ASSUME CallType, NEW c \in [at : {"asking"}, link : DOMAIN chain, attempt : 0 .. Retries,
                              tools : BOOLEAN, tried : SUBSET DOMAIN chain, got : Responses],
         \A l \in 1 .. c.link : l \in c.tried, UNCHANGED chain, call' = NextLink(c)
  PROVE  CallType' /\ Calls'
<1>1. c.link \in 1 .. Len(chain) /\ Len(chain) \in Nat /\ DOMAIN chain = 1 .. Len(chain)
      /\ 0 \in 0 .. Retries
  BY ChainOk, ModelCallsAssumption
<1>2. CASE c.link < Len(chain)
  <2>1. call' = [c EXCEPT !.link = c.link + 1, !.attempt = 0, !.tools = FALSE]
    BY <1>2 DEF NextLink
  <2>2. c.link + 1 \in DOMAIN chain /\ (c.link + 1) - 1 = c.link
    BY <1>1, <1>2
  <2>3. CallType'
    BY <1>1, <2>1, <2>2 DEF CallType
  <2>4. call'.at = "asking" /\ call'.link - 1 = c.link /\ call'.tried = c.tried
    BY <2>1, <2>2
  <2>5. QED
    BY <2>3, <2>4 DEF Calls, NoneMeansAllTried
<1>3. CASE ~(c.link < Len(chain))
  <2>1. call' = [c EXCEPT !.at = "returned", !.got = "none"]
    BY <1>3 DEF NextLink, Returned
  <2>2. "none" \in Responses
    BY DEF Responses
  <2>3. CallType'
    BY <2>1, <2>2 DEF CallType
  <2>4. c.link = Len(chain)
    BY <1>1, <1>3
  <2>5. call'.at = "returned" /\ call'.tried = c.tried
    BY <2>1
  <2>6. QED
    BY <1>1, <2>3, <2>4, <2>5 DEF Calls, NoneMeansAllTried
<1>4. QED
  BY <1>2, <1>3

\* An attempt that fails is followed by another one, or by the next link.
LEMMA NextAttemptOk ==
  ASSUME CallType, NEW c \in [at : {"asking"}, link : DOMAIN chain, attempt : 0 .. Retries,
                              tools : BOOLEAN, tried : SUBSET DOMAIN chain, got : Responses],
         \A l \in 1 .. c.link : l \in c.tried, UNCHANGED chain, call' = NextAttempt(c)
  PROVE  CallType' /\ Calls'
<1>1. CASE c.attempt < Retries
  <2>1. call' = [c EXCEPT !.attempt = c.attempt + 1]
    BY <1>1 DEF NextAttempt
  <2>2. c.attempt + 1 \in 0 .. Retries
    BY <1>1, ModelCallsAssumption
  <2>3. CallType'
    BY <2>1, <2>2 DEF CallType
  <2>4. call'.at = "asking" /\ call'.link = c.link /\ call'.tried = c.tried
    BY <2>1
  <2>5. c.link \in Nat
    BY ChainOk
  <2>6. \A l \in 1 .. call'.link - 1 : l \in 1 .. c.link
    BY <2>4, <2>5
  <2>7. QED
    BY <2>3, <2>4, <2>6 DEF Calls, NoneMeansAllTried
<1>2. CASE ~(c.attempt < Retries)
  BY <1>2, NextLinkOk DEF NextAttempt
<1>3. QED
  BY <1>1, <1>2

LEMMA CallStepOk ==
  ASSUME CallType, Calls, CallStep
  PROVE  CallType' /\ Calls'
<1> DEFINE Asking == [at : {"asking"}, link : DOMAIN chain, attempt : 0 .. Retries,
                      tools : BOOLEAN, tried : SUBSET DOMAIN chain, got : Responses]
<1>1. call.at = "asking" /\ UNCHANGED chain /\ call.link \in DOMAIN chain
      /\ DOMAIN chain \subseteq Nat
  BY ChainOk DEF CallStep, CallType
<1>2. Tried \in Asking /\ \A l \in 1 .. Tried.link : l \in Tried.tried
  <2>1. Tried \in Asking
    BY <1>1 DEF CallType, Tried
  <2>2. Tried.link = call.link /\ Tried.tried = call.tried \cup {call.link}
    BY <1>1 DEF CallType, Tried
  <2>3. \A l \in 1 .. call.link : l \in 1 .. call.link - 1 \/ l = call.link
    BY <1>1
  <2>4. QED
    BY <1>1, <2>1, <2>2, <2>3 DEF Calls
<1>3. ASSUME NEW m \in Sent(call.tools), Answers(m) PROVE CallType' /\ Calls'
  <2> DEFINE r == IF Streams THEN Streamed(m) ELSE Completed(m)
  <2>1. r \in Responses /\ r # "none"
    <3>1. m.as \in {"text", "call", "cut"} /\ m.says \in Responses /\ m.says # "none"
      BY ModelCallsAssumption DEF Sent, Responses
    <3>2. QED
      BY <3>1 DEF Streamed, Completed, Responses
  <2>2. call' = [Tried EXCEPT !.at = "returned", !.got = r]
    BY <1>3 DEF Answers, Returned
  <2> HIDE DEF r
  <2>3. CallType'
    BY <1>1, <1>2, <2>1, <2>2 DEF CallType
  <2>4. call'.at = "returned" /\ call'.got = r
    BY <1>2, <2>2
  <2>5. QED
    BY <2>1, <2>3, <2>4 DEF Calls, NoneMeansAllTried
<1>4. CASE Fails
  BY <1>1, <1>2, <1>4, NextAttemptOk DEF Fails
<1>5. CASE FailsForGood
  BY <1>1, <1>2, <1>5, NextLinkOk DEF FailsForGood
<1>6. CASE RejectsTools
  <2> DEFINE c == [Tried EXCEPT !.tools = FALSE]
  <2>1. c \in Asking /\ c.link = Tried.link /\ c.tried = Tried.tried
    BY <1>2
  <2>2. call' = NextAttempt(c)
    BY <1>6 DEF RejectsTools
  <2> HIDE DEF c
  <2>3. QED
    BY <1>1, <1>2, <2>1, <2>2, NextAttemptOk
<1>7. QED
  BY <1>3, <1>4, <1>5, <1>6 DEF CallStep

LEMMA HangsOk ==
  ASSUME CallType, Hangs, UNCHANGED chain
  PROVE  CallType' /\ Calls'
<1>1. call' = [call EXCEPT !.at = "hung"]
  BY DEF Hangs
<1>2. CallType' /\ call'.at = "hung"
  BY <1>1 DEF CallType
<1>3. QED
  BY <1>2 DEF Calls, NoneMeansAllTried

-----------------------------------------------------------------------------
(* Types.                                                                  *)

LEMMA ActsOk == "done" \in Acts /\ "echo" \in Acts /\ "done" \in Terminal /\ "echo" \notin Terminal
  BY DEF Acts, Terminal

LEMMA FallbackOk == \A s, max : Fallback(s, max) \in Acts
  BY ActsOk DEF Fallback

\* think() returns an action.
LEMMA ActionOk ==
  ASSUME NEW r, NEW s, NEW max
  PROVE  ActionOf(r, s, max) \in Acts
<1>1. Parsed(r, s, max) \in Acts /\ "final_answer" \in Acts
  BY FallbackOk DEF Parsed, Acts, Terminal
<1>2. QED
  BY <1>1, FallbackOk DEF ActionOf

RepeatType == [act : Acts \cup {None}, count : Nat,
               tool : {NameOf(a) : a \in Acts} \cup {None}, tools : Nat]
ConvergeType == [count : Nat, last : Nat \cup {None}, step : Nat \cup {None}]
GuardTypes == repeats \in RepeatType /\ converge \in ConvergeType /\ notice \in 0 .. MaxRuns

LEMMA NewGuards == NoRepeats \in RepeatType /\ NoConverge \in ConvergeType
  BY DEF NoRepeats, NoConverge, RepeatType, ConvergeType

LEMMA ObserveTyped ==
  ASSUME GuardTypes, NEW a \in Acts, NEW r \in 0 .. MaxRuns, Observe(a, r)
  PROVE  GuardTypes'
<1>1. NameOf(a) \in {NameOf(x) : x \in Acts}
  OBVIOUS
<1>2. Repeated(a) \in RepeatType
  BY <1>1 DEF GuardTypes, RepeatType, Repeated
<1>3. Converging(a) \in ConvergeType
  <2> DEFINE s == converge.step
             delta == IF converge.last # None /\ s # None /\ s > converge.last
                      THEN s - converge.last ELSE 1
  <2>1. /\ s \in Nat \cup {None} /\ converge.last \in Nat \cup {None} /\ converge.count \in Nat
        /\ converge \in ConvergeType
    BY DEF GuardTypes, ConvergeType
  <2>2. delta \in Nat
    BY <2>1
  <2>3. converge.count + delta \in Nat
    BY <2>1, <2>2
  <2>4. CASE a \in Terminal
    <3>1. Converging(a) = [converge EXCEPT !.count = 0, !.last = s]
      BY <2>4 DEF Converging
    <3> HIDE DEF delta, s
    <3>2. 0 \in Nat
      OBVIOUS
    <3>3. QED
      BY <2>1, <3>1, <3>2 DEF ConvergeType
  <2>5. CASE a \notin Terminal
    <3>1. Converging(a) = [converge EXCEPT !.count = converge.count + delta,
                                           !.last = IF s = None THEN converge.last ELSE s]
      BY <2>5 DEF Converging
    <3> HIDE DEF delta
    <3>2. QED
      BY <2>1, <2>3, <3>1 DEF ConvergeType
  <2>6. QED
    BY <2>4, <2>5
<1>4. QED
  BY <1>2, <1>3 DEF Observe, GuardTypes

LEMMA ThinkTyped ==
  ASSUME GuardTypes, NEW s \in Nat, ThinkBegins(s)
  PROVE  GuardTypes' /\ told' \in 0 .. MaxRuns
<1>1. converge' = [converge EXCEPT !.step = s] /\ UNCHANGED repeats /\ notice' = 0 /\ told' = notice
  BY DEF ThinkBegins, Folds
<1>2. 0 \in 0 .. MaxRuns
  BY AgentRunAssumption
<1>3. QED
  BY <1>1, <1>2 DEF GuardTypes, ConvergeType

MemType == Seq(StepsOf(Tasks, Kinds))

\* What is left of the memory is of the type it was.
LEMMA MemOnly ==
  ASSUME NEW s \in MemType, NEW S
  PROVE  Only(s, S) \in MemType
  BY OnlyRange DEF MemType

LEMMA MemAppend ==
  ASSUME NEW s \in MemType, NEW e \in StepsOf(Tasks, Kinds)
  PROVE  Append(s, e) \in MemType
  BY DEF MemType

LEMMA StepOk ==
  ASSUME run \in Runs, task \in Tasks, NEW kind \in Kinds, NEW n \in 0 .. MaxSteps
  PROVE  Step(kind, n) \in StepsOf(Tasks, Kinds)
  BY DEF Step, StepsOf

\* The elements that a compaction takes out are steps of the task in memory.
LEMMA CandidatesOk ==
  ASSUME mem \in MemType
  PROVE  /\ Candidates \in MemType
         /\ ToSet(Candidates) = ToSet(mem) \cap StepsOf({task}, Kinds \ {"task"})
         /\ Kept \in 0 .. Len(Candidates) /\ Kept <= Keep
         /\ Len(Candidates) \in Nat
<1>1. /\ Candidates \in MemType
      /\ Range(Candidates) = Range(mem) \cap StepsOf({task}, Kinds \ {"task"})
  BY OnlyRange DEF Candidates, MemType
<1>2. ToSet(Candidates) = Range(Candidates) /\ ToSet(mem) = Range(mem)
  BY DEF ToSet, Range
<1>3. Len(Candidates) \in Nat
  BY <1>1 DEF MemType
<1>4. Kept \in 0 .. Len(Candidates) /\ Kept <= Keep
  <2>1. \A n, k \in Nat : LET h == IF n > k THEN k ELSE n \div 2 IN h \in 0 .. n /\ h <= k
    OBVIOUS
  <2>2. Keep \in Nat
    BY AgentRunAssumption
  <2>3. QED
    BY <1>3, <2>1, <2>2 DEF Kept
<1>5. QED
  BY <1>1, <1>2, <1>3, <1>4

LEMMA ExcessOk ==
  ASSUME mem \in MemType
  PROVE  /\ Excess \subseteq ToSet(Candidates)
         /\ \A i \in 1 .. Len(Candidates) - Kept : Candidates[i] \in Excess
<1> DEFINE c == Candidates
           k == Len(c) - Kept
<1>1. Len(c) \in Nat /\ Kept \in 0 .. Len(c) /\ c \in MemType /\ DOMAIN c = 1 .. Len(c)
  BY CandidatesOk DEF MemType
<1> HIDE DEF c
<1>2. k \in 0 .. Len(c)
  BY <1>1
<1> DEFINE q == SubSeq(c, 1, k)
<1> HIDE DEF k
<1>3. DOMAIN q = 1 .. k /\ \A i \in 1 .. k : q[i] = c[i] /\ i \in DOMAIN c
  BY <1>1, <1>2 DEF MemType
<1> HIDE DEF q
<1>4. ToSet(q) \subseteq ToSet(c) /\ \A i \in 1 .. k : c[i] \in ToSet(q)
  BY <1>3 DEF ToSet
<1>5. Excess = ToSet(q)
  BY DEF Excess, q, c, k
<1>6. QED
  BY <1>4, <1>5 DEF c, k

\* TypeOK, by groups of variables.
LoopTypes ==
  /\ pc \in {"idle", "plan", "planning", "think", "thinking", "act", "compact", "summarizing",
             "reflect", "save"}
  /\ run \in 0 .. MaxRuns /\ {task, lastTask} \subseteq Tasks \cup {None}
  /\ step \in 0 .. MaxSteps /\ history \in Seq(Acts) /\ chosen \in Acts
LogTypes == sinks \in 0 .. MaxRuns /\ buffer \in Seq(Acts) /\ runlog \in Seq(RecordType)
StoreTypes ==
  /\ mem \in MemType /\ disk \in MemType /\ summarised \subseteq StepsOf(Tasks, Kinds)
  /\ mem # disk => pc # "idle"
OtherTypes ==
  late \in [Runs -> Nat] /\ stops \in 0 .. MaxStops /\ told \in 0 .. MaxRuns /\ clean \in BOOLEAN

LEMMA TypeGroups ==
  /\ TypeOK <=> CallType /\ LoopTypes /\ GuardTypes /\ LogTypes /\ StoreTypes /\ OtherTypes
  /\ TypeOK' <=> CallType' /\ LoopTypes' /\ GuardTypes' /\ LogTypes' /\ StoreTypes' /\ OtherTypes'
  BY DEF TypeOK, LoopTypes, GuardTypes, RepeatType, ConvergeType, LogTypes, StoreTypes, OtherTypes,
         MemType

LEMMA CallsNext == CallType /\ Calls /\ [Next]_vars => CallType' /\ Calls'
<1> SUFFICES ASSUME CallType, Calls, [Next]_vars PROVE CallType' /\ Calls'
  OBVIOUS
<1>1. CASE UNCHANGED <<chain, call>>
  BY <1>1 DEF CallType, Calls, NoneMeansAllTried
<1>2. CASE UNCHANGED chain /\ call' = Idle
  BY <1>2, IdleCalls
<1>3. CASE UNCHANGED chain /\ \E d \in BOOLEAN : Generate(d)
  BY <1>3, GenerateCalls
<1>4. CASE ModelStep
  BY <1>4, CallStepOk DEF ModelStep
<1>5. CASE ModelHangs
  BY <1>5, HangsOk DEF ModelHangs
<1>6. CASE Planned \/ Thought \/ TimesOut \/ Compacted \/ Interrupt \/ Kill
  BY <1>2, <1>6 DEF Planned, Thought, TimesOut, Compacted, Interrupt, Kill
<1>7. CASE Plan \/ Think \/ Compact
  BY <1>3, <1>7 DEF Plan, Think, Compact
<1>8. CASE \/ \E t \in Tasks : Begin(t)
           \/ Act \/ Reflect \/ Save
           \/ \E r \in Runs : \E x \in Acts : LateReturns(r, x)
  BY <1>1, <1>8 DEF Begin, Act, Reflect, Save, LateReturns
<1>9. QED
  BY <1>1, <1>4, <1>5, <1>6, <1>7, <1>8 DEF Next, LoopStep, vars

\* The loop of a run.
LEMMA LoopNext == LoopTypes /\ Steps /\ [Next]_vars => LoopTypes'
<1> SUFFICES ASSUME LoopTypes, Steps, [Next]_vars PROVE LoopTypes'
  OBVIOUS
<1>0. /\ 0 \in 0 .. MaxSteps /\ MaxSteps \in Nat /\ "done" \in Acts
      /\ \A q : q = << >> => q \in Seq(Acts)
  <2>1. \A q : q = << >> => q \in Seq(Acts)
    OBVIOUS
  <2>2. 0 \in 0 .. MaxSteps /\ MaxSteps \in Nat
    BY AgentRunAssumption
  <2>3. QED
    BY <2>1, <2>2, ActsOk
<1>1. ASSUME NEW t \in Tasks, Begin(t) PROVE LoopTypes'
  <2>1. run + 1 \in 0 .. MaxRuns
    BY <1>1, AgentRunAssumption DEF LoopTypes, Begin
  <2>2. QED
    BY <1>0, <1>1, <2>1 DEF LoopTypes, Begin
<1>2. CASE Act
  <2>1. step + 1 \in 0 .. MaxSteps
    BY <1>0, <1>2 DEF LoopTypes, Steps, Act
  <2>2. Append(history, chosen) \in Seq(Acts)
    BY DEF LoopTypes
  <2>3. QED
    BY <1>2, <2>1, <2>2 DEF LoopTypes, Act, Persist, Onward
<1>3. CASE Save \/ Interrupt \/ Kill
  BY <1>0, <1>3 DEF LoopTypes, Save, Interrupt, Kill, Leave
<1>4. CASE Thought \/ TimesOut
  BY <1>4, ActionOk, FallbackOk DEF LoopTypes, Thought, TimesOut
<1>5. CASE Plan \/ Planned \/ Think \/ Compact \/ Compacted \/ Reflect
  BY <1>5 DEF LoopTypes, Plan, Planned, Think, Compact, Compacted, Reflect
<1>6. CASE UNCHANGED loop
  BY <1>6 DEF LoopTypes, loop
<1>7. CASE ModelStep \/ ModelHangs \/ \E r \in Runs : \E x \in Acts : LateReturns(r, x)
  BY <1>6, <1>7 DEF ModelStep, ModelHangs, LateReturns
<1>8. QED
  BY <1>1, <1>2, <1>3, <1>4, <1>5, <1>6, <1>7 DEF Next, LoopStep, vars

LEMMA NumberedNext == LoopTypes /\ Numbered /\ [Next]_vars => Numbered'
<1> SUFFICES ASSUME LoopTypes, Numbered, [Next]_vars PROVE Numbered'
  OBVIOUS
<1>1. ASSUME NEW t \in Tasks, Begin(t) PROVE Numbered'
  <2>1. run + 1 \in Runs
    BY <1>1, AgentRunAssumption DEF LoopTypes, Begin, Runs
  <2>2. QED
    BY <1>1, <2>1 DEF Begin, Numbered
<1>2. CASE UNCHANGED <<run, task>> /\ (pc' # "idle" => pc # "idle")
  BY <1>2 DEF Numbered
<1>3. CASE Act \/ Save \/ Interrupt \/ Kill \/ Thought \/ TimesOut
  BY <1>2, <1>3 DEF Act, Save, Interrupt, Kill, Leave, Thought, TimesOut
<1>4. CASE Plan \/ Planned \/ Think \/ Compact \/ Compacted \/ Reflect
  BY <1>2, <1>4 DEF Plan, Planned, Think, Compact, Compacted, Reflect
<1>5. CASE ModelStep \/ ModelHangs \/ (\E r \in Runs : \E x \in Acts : LateReturns(r, x))
           \/ UNCHANGED vars
  BY <1>2, <1>5 DEF ModelStep, ModelHangs, LateReturns, loop, vars
<1>6. QED
  BY <1>1, <1>3, <1>4, <1>5 DEF Next, LoopStep

LEMMA GuardsNext ==
  ASSUME CallType, LoopTypes, GuardTypes, OtherTypes, [Next]_vars
  PROVE  GuardTypes' /\ told' \in 0 .. MaxRuns
<1>0. 0 \in 0 .. MaxRuns /\ 0 \in Nat /\ step \in Nat /\ \A r \in Runs : r \in 0 .. MaxRuns
  BY AgentRunAssumption DEF LoopTypes, Runs
<1>1. ASSUME NEW t \in Tasks, Begin(t) PROVE GuardTypes' /\ told' \in 0 .. MaxRuns
  BY <1>0, <1>1, NewGuards DEF Begin, GuardTypes
<1>2. CASE Thought
  <2>1. Observe(chosen', run) /\ chosen' \in Acts /\ run \in 0 .. MaxRuns /\ UNCHANGED told
    BY <1>2, ActionOk DEF Thought, past, LoopTypes
  <2>2. QED
    BY <2>1, ObserveTyped DEF OtherTypes
<1>3. CASE Compacted
  <2>1. Observe(ActionOf(call.got, 0, 2), run) /\ ActionOf(call.got, 0, 2) \in Acts
        /\ run \in 0 .. MaxRuns /\ UNCHANGED told
    BY <1>3, ActionOk DEF Compacted, past, LoopTypes
  <2>2. QED
    BY <2>1, ObserveTyped DEF OtherTypes
<1>4. ASSUME NEW r \in Runs, NEW x \in Acts, LateReturns(r, x)
      PROVE  GuardTypes' /\ told' \in 0 .. MaxRuns
  BY <1>0, <1>4, ObserveTyped DEF LateReturns, OtherTypes
<1>5. CASE Think \/ Compact
  BY <1>0, <1>5, ThinkTyped DEF Think, Compact
<1>6. CASE Kill
  BY <1>0, <1>6, NewGuards DEF Kill, GuardTypes, past, OtherTypes
<1>7. CASE UNCHANGED <<guards, told>>
  BY <1>7 DEF guards, GuardTypes, OtherTypes
<1>8. CASE Act \/ Save \/ Interrupt \/ TimesOut \/ Plan \/ Planned \/ Reflect \/ ModelStep
           \/ ModelHangs \/ UNCHANGED vars
  BY <1>7, <1>8 DEF Act, Save, Interrupt, TimesOut, Plan, Planned, Reflect, ModelStep, ModelHangs,
                    past, vars
<1>9. QED
  BY <1>1, <1>2, <1>3, <1>4, <1>5, <1>6, <1>8 DEF Next, LoopStep

LEMMA OthersNext ==
  ASSUME LoopTypes, Numbered, GuardTypes, OtherTypes, [Next]_vars
  PROVE  late' \in [Runs -> Nat] /\ stops' \in 0 .. MaxStops /\ clean' \in BOOLEAN
<1>1. GivesUp => late' \in [Runs -> Nat]
  BY DEF GivesUp, OtherTypes
<1>2. stops < MaxStops => stops + 1 \in 0 .. MaxStops
  BY AgentRunAssumption DEF OtherTypes
<1>3. ASSUME NEW r \in Runs, NEW x \in Acts, LateReturns(r, x)
      PROVE  late' \in [Runs -> Nat] /\ stops' \in 0 .. MaxStops /\ clean' \in BOOLEAN
  <2>1. late[r] - 1 \in Nat
    BY <1>3 DEF LateReturns, OtherTypes
  <2>2. QED
    BY <1>3, <2>1 DEF LateReturns, OtherTypes
<1>4. CASE Interrupt \/ Kill
  BY <1>1, <1>2, <1>4 DEF Interrupt, Kill, OtherTypes, past
<1>5. CASE TimesOut \/ Compact \/ \E t \in Tasks : Begin(t)
  BY <1>1, <1>5 DEF TimesOut, Compact, Begin, OtherTypes
<1>6. CASE UNCHANGED <<late, stops, clean>>
  BY <1>6 DEF OtherTypes
<1>7. CASE Plan \/ Planned \/ Think \/ Thought \/ Act \/ Compacted \/ Reflect \/ Save
           \/ ModelStep \/ ModelHangs \/ UNCHANGED vars
  BY <1>6, <1>7 DEF Plan, Planned, Think, Thought, Act, Compacted, Reflect, Save, ModelStep,
                    ModelHangs, past, vars
<1>8. QED
  BY <1>3, <1>4, <1>5, <1>7 DEF Next, LoopStep

LEMMA LogsNext ==
  ASSUME LoopTypes, Numbered, LogTypes, [Next]_vars
  PROVE  LogTypes'
<1>0. /\ 0 \in 0 .. MaxRuns
      /\ \A q : q = << >> => q \in Seq(Acts)
  <2>1. \A q : q = << >> => q \in Seq(Acts)
    OBVIOUS
  <2>2. 0 \in 0 .. MaxRuns
    BY AgentRunAssumption
  <2>3. QED
    BY <2>1, <2>2
<1>1. ASSUME NEW t \in Tasks, Begin(t) PROVE LogTypes'
  <2>1. run + 1 \in 0 .. MaxRuns
    BY <1>1, AgentRunAssumption DEF LoopTypes, Begin
  <2>2. QED
    BY <1>0, <1>1, <2>1 DEF Begin, LogTypes
<1>2. CASE Act
  <2>1. Append(buffer, chosen) \in Seq(Acts)
    BY DEF LogTypes, LoopTypes
  <2>2. QED
    BY <1>2, <2>1 DEF Act, Recorded, LogTypes
<1>3. CASE Reflect
  <2>1. Record \in RecordType
    BY <1>3 DEF Record, RecordType, LogTypes, Numbered, Reflect
  <2>2. Append(runlog, Record) \in Seq(RecordType)
    BY <2>1 DEF LogTypes
  <2>3. 0 \in 0 .. MaxRuns
    BY AgentRunAssumption
  <2>4. QED
    BY <1>3, <2>2, <2>3 DEF Reflect, RunEnd, LogTypes
<1>4. CASE Save \/ Interrupt \/ Kill
  <2>1. 0 \in 0 .. MaxRuns
    BY AgentRunAssumption
  <2>2. QED
    BY <1>0, <1>4, <2>1 DEF Save, Interrupt, Kill, Leave, LogTypes
<1>5. CASE UNCHANGED logs
  BY <1>5 DEF logs, LogTypes
<1>6. CASE Plan \/ Planned \/ Think \/ Thought \/ TimesOut \/ Compact \/ Compacted
           \/ ModelStep \/ ModelHangs \/ (\E r \in Runs : \E x \in Acts : LateReturns(r, x))
           \/ UNCHANGED vars
  BY <1>5, <1>6 DEF Plan, Planned, Think, Thought, TimesOut, Compact, Compacted, ModelStep,
                    ModelHangs, LateReturns, vars
<1>7. QED
  BY <1>1, <1>2, <1>3, <1>4, <1>6 DEF Next, LoopStep

\* What the memory is after each step.
LEMMA StoresNext ==
  ASSUME LoopTypes, Numbered, Steps, StoreTypes, [Next]_vars
  PROVE  StoreTypes'
<1>0. /\ 0 \in 0 .. MaxSteps /\ MaxSteps \in Nat
      /\ "task" \in Kinds /\ "plan" \in Kinds /\ "action" \in Kinds /\ "observation" \in Kinds
  BY AgentRunAssumption DEF Kinds
<1>1. ASSUME NEW t \in Tasks, Begin(t) PROVE StoreTypes'
  <2>1. run' \in Runs
    BY <1>1, AgentRunAssumption DEF LoopTypes, Begin, Runs
  <2>2. [run |-> run', of |-> t, kind |-> "task", n |-> 0] \in StepsOf(Tasks, Kinds)
    BY <1>0, <2>1 DEF StepsOf
  <2>3. mem' \in MemType
    BY <1>1, <2>2, MemAppend DEF Begin, StoreTypes
  <2>4. UNCHANGED <<disk, summarised>> /\ pc' # "idle"
    BY <1>1 DEF Begin
  <2>5. QED
    BY <2>3, <2>4 DEF StoreTypes
<1>2. CASE Planned
  <2>1. Step("plan", 0) \in StepsOf(Tasks, Kinds)
    BY <1>0, <1>2, StepOk DEF Planned, Numbered
  <2>2. Append(mem, Step("plan", 0)) \in MemType
    BY <2>1, MemAppend DEF StoreTypes
  <2>3. mem' \in MemType
    BY <1>2, <2>2 DEF Planned, StoreTypes
  <2>4. UNCHANGED <<disk, summarised>> /\ pc' # "idle"
    BY <1>2 DEF Planned
  <2>5. QED
    BY <2>3, <2>4 DEF StoreTypes
<1>3. CASE Act
  <2>1. step + 1 \in 0 .. MaxSteps /\ run \in Runs /\ task \in Tasks
    BY <1>0, <1>3 DEF LoopTypes, Steps, Act, Numbered
  <2>2. Step("action", step + 1) \in StepsOf(Tasks, Kinds)
        /\ Step("observation", step + 1) \in StepsOf(Tasks, Kinds)
    BY <1>0, <2>1, StepOk
  <2>3. ASSUME NEW x \in StepsOf(Tasks, Kinds), NEW y \in StepsOf(Tasks, Kinds)
        PROVE  mem \o <<x, y>> \in MemType
    BY DEF StoreTypes, MemType
  <2>4. mem' \in MemType
    BY <1>3, <2>2, <2>3 DEF Act, Persist
  <2>5. UNCHANGED <<disk, summarised>> /\ pc' # "idle"
    BY <1>3 DEF Act, Persist, Onward
  <2>6. QED
    BY <2>4, <2>5 DEF StoreTypes
<1>4. CASE Compacted
  <2>1. mem' \in MemType
    BY <1>4, MemOnly DEF Compacted, StoreTypes
  <2>2. Excess \subseteq StepsOf(Tasks, Kinds)
    <3>1. Excess \subseteq ToSet(mem)
      BY ExcessOk, CandidatesOk DEF StoreTypes
    <3>2. ToSet(mem) \subseteq StepsOf(Tasks, Kinds)
      BY DEF StoreTypes, MemType, ToSet
    <3>3. QED
      BY <3>1, <3>2
  <2>3. UNCHANGED disk /\ pc' # "idle" /\ summarised' = summarised \cup Excess
    BY <1>4 DEF Compacted
  <2>4. QED
    BY <2>1, <2>2, <2>3 DEF StoreTypes
<1>5. CASE Reflect
  <2>1. mem' \in MemType
    BY <1>5, MemOnly DEF Reflect, Pruned, StoreTypes
  <2>2. UNCHANGED <<disk, summarised>> /\ pc' # "idle"
    BY <1>5 DEF Reflect
  <2>3. QED
    BY <2>1, <2>2 DEF StoreTypes
<1>6. CASE Save \/ Interrupt \/ Kill
  BY <1>6 DEF Save, Interrupt, Kill, StoreTypes
<1>7. CASE UNCHANGED stores /\ (pc' = "idle" => pc = "idle")
  BY <1>7 DEF stores, StoreTypes
<1>8. CASE Plan \/ Think \/ Thought \/ TimesOut \/ Compact
           \/ ModelStep \/ ModelHangs \/ (\E r \in Runs : \E x \in Acts : LateReturns(r, x))
           \/ UNCHANGED vars
  BY <1>7, <1>8 DEF Plan, Think, Thought, TimesOut, Compact, ModelStep, ModelHangs, LateReturns,
                    loop, vars
<1>9. QED
  BY <1>1, <1>2, <1>3, <1>4, <1>5, <1>6, <1>8 DEF Next, LoopStep

-----------------------------------------------------------------------------
(* The steps of a run and its record.                                      *)

LEMMA StepsNext == LoopTypes /\ Steps /\ [Next]_vars => Steps'
<1> SUFFICES ASSUME LoopTypes, Steps, [Next]_vars PROVE Steps'
  OBVIOUS
<1>0. MaxSteps \in Nat \ {0} /\ Len(<< >>) = 0
  BY AgentRunAssumption
<1>1. ASSUME NEW t \in Tasks, Begin(t) PROVE Steps'
  BY <1>0, <1>1 DEF Begin, Steps
<1>2. CASE Act
  <2>1. /\ history \in Seq(Acts) /\ chosen \in Acts /\ step \in Nat /\ Len(history) = step
        /\ step < MaxSteps /\ \A i \in 1 .. step : history[i] \notin Terminal
        /\ history' = Append(history, chosen) /\ buffer' = history' /\ step' = step + 1
        /\ UNCHANGED chosen
    BY <1>2 DEF LoopTypes, Steps, Act, Recorded
  <2>2. /\ Len(history') = step + 1 /\ history'[step + 1] = chosen
        /\ \A i \in 1 .. step : history'[i] = history[i]
    BY <2>1
  <2>3. \/ pc' = "compact"
        \/ pc' = "reflect" /\ (chosen \in Terminal \/ step + 1 >= MaxSteps)
        \/ pc' = "think" /\ chosen \notin Terminal /\ ~(step + 1 >= MaxSteps)
    BY <1>2 DEF Act, Persist, Onward, Over
  <2>4. /\ step + 1 > 0 /\ (step + 1) - 1 = step
        /\ step + 1 >= MaxSteps => step + 1 = MaxSteps
        /\ ~(step + 1 >= MaxSteps) => step + 1 < MaxSteps
        /\ \A i \in 1 .. step + 1 : i \in 1 .. step \/ i = step + 1
    BY <1>0, <2>1
  <2>5. CASE pc' = "think" /\ chosen \notin Terminal /\ step + 1 < MaxSteps
    BY <2>1, <2>2, <2>4, <2>5 DEF Steps
  <2>6. CASE pc' \in {"compact", "reflect"}
    BY <2>1, <2>2, <2>3, <2>4, <2>6 DEF Steps
  <2>7. QED
    BY <2>3, <2>4, <2>5, <2>6
<1>3. CASE Save \/ Interrupt \/ Kill
  BY <1>0, <1>3 DEF Save, Interrupt, Kill, Leave, Steps
<1>4. CASE Thought \/ TimesOut
  BY <1>4 DEF Thought, TimesOut, Steps, logs
<1>5. CASE Compacted
  <2>1. /\ step \in Nat /\ MaxSteps \in Nat /\ step <= MaxSteps
        /\ UNCHANGED <<step, history, chosen, buffer>>
        /\ pc' = IF chosen \in Terminal \/ step >= MaxSteps THEN "reflect" ELSE "think"
    BY <1>0, <1>5 DEF Compacted, LoopTypes, logs
  <2>2. /\ Len(history) = step /\ buffer = history /\ step > 0 /\ history[step] = chosen
        /\ \A i \in 1 .. step - 1 : history[i] \notin Terminal
    BY <1>5 DEF Steps, Compacted
  <2>3. \A i \in 1 .. step : i \in 1 .. step - 1 \/ i = step
    BY <2>1
  <2>4. CASE pc' = "reflect" /\ (chosen \in Terminal \/ step >= MaxSteps)
    BY <2>1, <2>2, <2>4 DEF Steps
  <2>5. CASE pc' = "think" /\ chosen \notin Terminal /\ ~(step >= MaxSteps)
    <3>1. step < MaxSteps
      BY <2>1, <2>5
    <3>2. QED
      BY <2>1, <2>2, <2>3, <2>5, <3>1 DEF Steps
  <2>6. QED
    BY <2>1, <2>4, <2>5
<1>6. CASE Plan \/ Planned \/ Think \/ Compact \/ Reflect
  BY <1>6 DEF Plan, Planned, Think, Compact, Reflect, Steps, logs
<1>7. CASE UNCHANGED <<loop, buffer>>
  BY <1>7 DEF loop, Steps
<1>8. CASE ModelStep \/ ModelHangs \/ \E r \in Runs : \E x \in Acts : LateReturns(r, x)
  BY <1>7, <1>8 DEF ModelStep, ModelHangs, LateReturns, logs
<1>9. QED
  BY <1>1, <1>2, <1>3, <1>4, <1>5, <1>6, <1>7, <1>8 DEF Next, LoopStep, vars, logs

LEMMA RecordsNext ==
  ASSUME LoopTypes, LogTypes, Numbered, Steps, Earlier, LogHoldsWholeRuns, [Next]_vars
  PROVE  Earlier' /\ LogHoldsWholeRuns'
<1>0. run \in Nat /\ \A i \in DOMAIN runlog : runlog[i].of \in Nat
  <2>1. run \in Nat
    BY AgentRunAssumption DEF LoopTypes
  <2>2. \A r \in RecordType : r.of \in Nat
    BY DEF RecordType, Runs
  <2>3. \A i \in DOMAIN runlog : runlog[i] \in RecordType
    BY DEF LogTypes
  <2>4. QED
    BY <2>1, <2>2, <2>3
<1>1. ASSUME NEW t \in Tasks, Begin(t) PROVE Earlier' /\ LogHoldsWholeRuns'
  <2>1. \A i \in DOMAIN runlog : runlog[i].of < run + 1 /\ runlog[i].of <= run + 1
    BY <1>0 DEF Earlier
  <2>2. UNCHANGED runlog /\ run' = run + 1
    BY <1>1 DEF Begin
  <2>3. QED
    BY <2>1, <2>2 DEF Earlier, LogHoldsWholeRuns
<1>2. CASE Reflect
  <2> DEFINE n == Len(runlog)
             r == Record
  <2>1. /\ r.of = run /\ r.steps = history /\ Len(history) = step /\ step > 0
        /\ history \in Seq(Acts) /\ history[step] = chosen
        /\ \A i \in 1 .. step - 1 : history[i] \notin Terminal
        /\ chosen \in Terminal \/ step = MaxSteps
        /\ runlog' = Append(runlog, r) /\ pc' = "save" /\ run' = run
    BY <1>2 DEF Reflect, RunEnd, Record, Steps, LoopTypes
  <2>2. r \in RecordType /\ runlog \in Seq(RecordType)
    BY <1>2 DEF Record, RecordType, LogTypes, Numbered, Reflect
  <2> HIDE DEF r
  <2>3. /\ n \in Nat /\ DOMAIN runlog = 1 .. n /\ DOMAIN runlog' = 1 .. n + 1
        /\ \A i \in 1 .. n : runlog'[i] = runlog[i]
        /\ runlog'[n + 1] = r
        /\ \A i \in 1 .. n + 1 : i \in 1 .. n \/ i = n + 1
    BY <2>1, <2>2
  <2> HIDE DEF n
  <2>4. \A i \in 1 .. n : runlog[i].of < run
    BY <1>2, <2>3 DEF Earlier, Reflect
  <2>5. history # << >>
    BY <2>1
  <2>6. ASSUME NEW i \in 1 .. n + 1
        PROVE  LET s == runlog'[i].steps IN
               /\ s # << >> /\ \A j \in 1 .. Len(s) - 1 : s[j] \notin Terminal
               /\ s[Len(s)] \in Terminal \/ Len(s) = MaxSteps
    BY <2>1, <2>3, <2>5 DEF LogHoldsWholeRuns
  <2>7. ASSUME NEW i \in 1 .. n + 1, NEW j \in 1 .. n + 1, i < j
        PROVE  runlog'[i].of < runlog'[j].of
    <3>1. i \in 1 .. n
      BY <2>3, <2>7
    <3>2. CASE j \in 1 .. n
      BY <2>3, <2>7, <3>1, <3>2 DEF LogHoldsWholeRuns
    <3>3. CASE j = n + 1
      BY <2>1, <2>3, <2>4, <3>1, <3>3
    <3>4. QED
      BY <2>3, <3>2, <3>3
  <2>8. LogHoldsWholeRuns'
    BY <2>3, <2>6, <2>7 DEF LogHoldsWholeRuns
  <2>9. Earlier'
    BY <1>0, <2>1, <2>3, <2>4 DEF Earlier
  <2>10. QED
    BY <2>8, <2>9
<1>3. CASE UNCHANGED <<runlog, run>> /\ (pc' \notin {"idle", "save"} => pc \notin {"idle", "save"})
  BY <1>3 DEF Earlier, LogHoldsWholeRuns
<1>4. CASE Plan \/ Planned \/ Think \/ Thought \/ TimesOut \/ Act \/ Compact \/ Compacted
  BY <1>3, <1>4 DEF Plan, Planned, Think, Thought, TimesOut, Act, Compact, Compacted, logs
<1>5. CASE Save \/ Interrupt \/ Kill
  BY <1>3, <1>5 DEF Save, Interrupt, Kill, Leave
<1>6. CASE ModelStep \/ ModelHangs \/ (\E r \in Runs : \E x \in Acts : LateReturns(r, x))
           \/ UNCHANGED vars
  BY <1>3, <1>6 DEF ModelStep, ModelHangs, LateReturns, loop, logs, vars
<1>7. QED
  BY <1>1, <1>2, <1>4, <1>5, <1>6 DEF Next, LoopStep

-----------------------------------------------------------------------------
(* The memory of a run.                                                    *)

\* What memory holds after one more step.
LEMMA OneMore ==
  ASSUME NEW T, NEW q \in Seq(T), NEW e \in T
  PROVE  ToSet(Append(q, e)) = ToSet(q) \cup {e}
<1>1. /\ Len(q) \in Nat /\ DOMAIN q = 1 .. Len(q) /\ DOMAIN Append(q, e) = 1 .. Len(q) + 1
      /\ \A i \in 1 .. Len(q) : Append(q, e)[i] = q[i]
      /\ Append(q, e)[Len(q) + 1] = e
      /\ 1 .. Len(q) + 1 = 1 .. Len(q) \cup {Len(q) + 1}
  OBVIOUS
<1> DEFINE r == Append(q, e)
<1> HIDE DEF r
<1>2. ToSet(r) = ToSet(q) \cup {e}
  BY <1>1 DEF ToSet, r
<1>3. QED
  BY <1>2 DEF r

\* What it holds after two.
LEMMA MoreMemory ==
  ASSUME NEW s \in MemType, NEW x \in StepsOf(Tasks, Kinds), NEW y \in StepsOf(Tasks, Kinds)
  PROVE  /\ s \o <<x, y>> = Append(Append(s, x), y)
         /\ s \o <<x, y>> \in MemType
         /\ ToSet(s \o <<x, y>>) = ToSet(s) \cup {x, y}
<1>1. ASSUME NEW T, NEW q \in Seq(T), NEW d \in T, NEW e \in T
      PROVE  q \o <<d, e>> = Append(Append(q, d), e)
  OBVIOUS
<1> DEFINE A == StepsOf(Tasks, Kinds)
           q == Append(s, x)
<1>2. s \in Seq(A) /\ x \in A /\ y \in A
  BY DEF MemType
<1> HIDE DEF A
<1>3. q \in Seq(A) /\ Append(q, y) \in Seq(A)
  BY <1>2
<1>4. ToSet(q) = ToSet(s) \cup {x}
  BY <1>2, OneMore
<1> HIDE DEF q
<1>5. ToSet(Append(q, y)) = ToSet(q) \cup {y}
  BY <1>2, <1>3, OneMore
<1>6. s \o <<x, y>> = Append(q, y)
  BY <1>1, <1>2 DEF q
<1>7. QED
  BY <1>3, <1>4, <1>5, <1>6 DEF q, A, MemType

LEMMA ForgottenNext ==
  ASSUME LoopTypes, StoreTypes, Numbered, Steps, NothingForgotten, [Next]_vars
  PROVE  NothingForgotten'
<1> DEFINE AllSteps == StepsOf(Tasks, Kinds)
<1>0. /\ 0 \in 0 .. MaxSteps /\ MaxSteps \in Nat
      /\ "task" \in Kinds /\ "plan" \in Kinds /\ "action" \in Kinds /\ "observation" \in Kinds
  BY AgentRunAssumption DEF Kinds
<1>1. ASSUME NEW t \in Tasks, Begin(t) PROVE NothingForgotten'
  <2> DEFINE x == [run |-> run', of |-> t, kind |-> "task", n |-> 0]
  <2>1. run' \in Runs /\ mem' = Append(mem, x) /\ step' = 0 /\ task' = t
    BY <1>1, AgentRunAssumption DEF LoopTypes, Begin, Runs
  <2>2. x \in AllSteps
    BY <1>0, <2>1 DEF StepsOf
  <2> HIDE DEF x
  <2>3. x \in ToSet(mem')
    <3>1. mem \in Seq(AllSteps)
      BY DEF StoreTypes, MemType
    <3> HIDE DEF AllSteps
    <3>2. ToSet(Append(mem, x)) = ToSet(mem) \cup {x}
      BY <2>2, <3>1, OneMore
    <3>3. QED
      BY <2>1, <3>2
  <2>4. Step("task", 0)' = x
    BY <2>1 DEF Step, x
  <2>5. QED
    BY <2>1, <2>3, <2>4 DEF NothingForgotten
<1>2. CASE UNCHANGED <<run, task, step, summarised>> /\ ToSet(mem) \subseteq ToSet(mem')
           /\ (pc' \notin {"idle", "save"} => pc \notin {"idle", "save"})
  BY <1>2 DEF NothingForgotten, Step
<1>3. CASE Planned
  <2>1. Step("plan", 0) \in AllSteps
    BY <1>0, <1>3, StepOk DEF Planned, Numbered
  <2>2. ToSet(mem) \subseteq ToSet(mem')
    <3>1. mem \in Seq(AllSteps)
      BY DEF StoreTypes, MemType
    <3> HIDE DEF AllSteps
    <3>2. ToSet(Append(mem, Step("plan", 0))) = ToSet(mem) \cup {Step("plan", 0)}
      BY <2>1, <3>1, OneMore
    <3>3. QED
      BY <1>3, <3>2 DEF Planned
  <2>3. QED
    BY <1>2, <1>3, <2>2 DEF Planned
<1>4. CASE Act
  <2> DEFINE x == Step("action", step + 1)
             y == Step("observation", step + 1)
  <2>1. step + 1 \in 0 .. MaxSteps /\ run \in Runs /\ task \in Tasks /\ step \in Nat
    BY <1>0, <1>4 DEF LoopTypes, Steps, Act, Numbered
  <2>2. x \in AllSteps /\ y \in AllSteps
    BY <1>0, <2>1, StepOk
  <2>3. mem' = mem \o <<x, y>> /\ step' = step + 1 /\ UNCHANGED <<run, task, summarised>>
        /\ pc = "act"
    BY <1>4 DEF Act, Persist
  <2>4. \A k, n : Step(k, n)' = Step(k, n)
    BY <2>3 DEF Step
  <2>5. x = Step("action", step + 1) /\ y = Step("observation", step + 1)
    OBVIOUS
  <2> HIDE DEF x, y
  <2>6. ToSet(mem') = ToSet(mem) \cup {x, y}
    BY <2>2, <2>3, MoreMemory DEF StoreTypes
  <2>7. /\ Step("task", 0) \in ToSet(mem)
        /\ \A n \in 1 .. step : /\ Step("action", n) \in ToSet(mem) \cup summarised
                                /\ Step("observation", n) \in ToSet(mem) \cup summarised
    BY <2>3 DEF NothingForgotten
  <2>8. \A n \in 1 .. step + 1 : n \in 1 .. step \/ n = step + 1
    BY <2>1
  <2>9. \A n \in 1 .. step + 1 : /\ Step("action", n) \in ToSet(mem') \cup summarised
                                 /\ Step("observation", n) \in ToSet(mem') \cup summarised
    BY <2>5, <2>6, <2>7, <2>8
  <2>10. /\ Step("task", 0)' \in ToSet(mem')
         /\ \A n \in 1 .. step' : /\ Step("action", n)' \in ToSet(mem') \cup summarised'
                                  /\ Step("observation", n)' \in ToSet(mem') \cup summarised'
    BY <2>3, <2>4, <2>6, <2>7, <2>9
  <2>11. QED
    BY <2>10 DEF NothingForgotten
<1>5. CASE Compacted
  <2>1. mem' = Only(mem, AllSteps \ Excess) /\ summarised' = summarised \cup Excess
        /\ UNCHANGED <<run, task, step>> /\ pc = "summarizing"
    BY <1>5 DEF Compacted
  <2>2. ToSet(mem') = ToSet(mem) \cap (AllSteps \ Excess)
    <3>1. Range(mem') = Range(mem) \cap (AllSteps \ Excess)
      BY <2>1, OnlyRange DEF StoreTypes, MemType
    <3>2. QED
      BY <3>1 DEF ToSet, Range
  <2>3. ToSet(mem) \subseteq AllSteps
    BY DEF StoreTypes, MemType, ToSet
  <2>4. Step("task", 0) \notin Excess
    <3>1. Excess \subseteq StepsOf({task}, Kinds \ {"task"})
      BY ExcessOk, CandidatesOk DEF StoreTypes
    <3>2. Step("task", 0).kind = "task"
      BY DEF Step
    <3>3. \A m \in StepsOf({task}, Kinds \ {"task"}) : m.kind # "task"
      BY DEF StepsOf
    <3>4. QED
      BY <3>1, <3>2, <3>3
  <2>5. ToSet(mem) \cup summarised \subseteq ToSet(mem') \cup summarised'
    BY <2>1, <2>2, <2>3
  <2>6. Step("task", 0) \in ToSet(mem')
    BY <2>1, <2>2, <2>3, <2>4 DEF NothingForgotten
  <2>7. QED
    BY <2>1, <2>5, <2>6 DEF NothingForgotten, Step
<1>6. CASE pc' \in {"idle", "save"}
  BY <1>6 DEF NothingForgotten
<1>7. CASE Reflect \/ Save \/ Interrupt \/ Kill
  BY <1>6, <1>7 DEF Reflect, Save, Interrupt, Kill, Leave
<1>8. CASE Plan \/ Think \/ Thought \/ TimesOut \/ Compact
           \/ ModelStep \/ ModelHangs \/ (\E r \in Runs : \E x \in Acts : LateReturns(r, x))
           \/ UNCHANGED vars
  BY <1>2, <1>8 DEF Plan, Think, Thought, TimesOut, Compact, ModelStep, ModelHangs, LateReturns,
                    loop, stores, vars
<1>9. QED
  BY <1>1, <1>3, <1>4, <1>5, <1>7, <1>8 DEF Next, LoopStep

\* Two more steps are at most two more candidates.
LEMMA TwoMore ==
  ASSUME NEW s \in MemType, NEW x \in StepsOf(Tasks, Kinds), NEW y \in StepsOf(Tasks, Kinds),
         NEW S
  PROVE  Len(Only(s \o <<x, y>>, S)) <= Len(Only(s, S)) + 2
<1>1. s \o <<x, y>> = Append(Append(s, x), y) /\ Append(s, x) \in MemType
  BY MoreMemory, MemAppend
<1>2. ASSUME NEW q \in MemType, NEW e \in StepsOf(Tasks, Kinds)
      PROVE  Len(Only(Append(q, e), S)) <= Len(Only(q, S)) + 1 /\ Len(Only(q, S)) \in Nat
  <2>1. Only(q, S) \in MemType
    BY MemOnly
  <2>2. Only(Append(q, e), S) = IF e \in S THEN Append(Only(q, S), e) ELSE Only(q, S)
    BY OnlyAppend DEF MemType
  <2>3. Len(Only(q, S)) \in Nat /\ Len(Append(Only(q, S), e)) = Len(Only(q, S)) + 1
    BY <2>1 DEF MemType
  <2>4. QED
    BY <2>2, <2>3
<1>3. Append(Append(s, x), y) \in MemType
  BY <1>1, MemAppend
<1>4. Len(Only(Append(Append(s, x), y), S)) \in Nat
  BY <1>2, <1>3
<1>5. /\ Len(Only(Append(s, x), S)) <= Len(Only(s, S)) + 1
      /\ Len(Only(Append(Append(s, x), y), S)) <= Len(Only(Append(s, x), S)) + 1
      /\ Len(Only(Append(s, x), S)) \in Nat /\ Len(Only(s, S)) \in Nat
  BY <1>1, <1>2
<1> DEFINE n == Len(Only(s, S))
           m == Len(Only(Append(s, x), S))
           k == Len(Only(Append(Append(s, x), y), S))
<1>6. n \in Nat /\ m \in Nat /\ k \in Nat /\ m <= n + 1 /\ k <= m + 1
  BY <1>4, <1>5
<1>7. Len(Only(s \o <<x, y>>, S)) = k
  BY <1>1
<1> HIDE DEF n, m, k
<1>8. k <= n + 2
  BY <1>6
<1>9. QED
  BY <1>7, <1>8 DEF n

\* A compaction leaves the candidates that are kept, at most.
LEMMA CompactionKeeps ==
  ASSUME mem \in MemType, mem' = Only(mem, StepsOf(Tasks, Kinds) \ Excess), UNCHANGED task
  PROVE  Len(Candidates') <= Keep
<1> DEFINE C == StepsOf({task}, Kinds \ {"task"})
           A == StepsOf(Tasks, Kinds) \ Excess
           k == Len(Candidates) - Kept
<1>1. Candidates' = Only(Only(mem, A), C)
  BY DEF Candidates
<1>2. Only(Only(mem, A), C) = Only(mem, A \cap C) /\ Only(Only(mem, C), A) = Only(mem, C \cap A)
  <2> HIDE DEF A, C
  <2> QED
    BY OnlyTwice DEF MemType
<1>3. A \cap C = C \cap A /\ Candidates = Only(mem, C)
  BY DEF Candidates
<1>4. Candidates' = Only(Candidates, A)
  <2> HIDE DEF A, C
  <2> QED
    BY <1>1, <1>2, <1>3
<1>5. /\ Candidates \in MemType /\ Kept \in 0 .. Len(Candidates) /\ Kept <= Keep
      /\ Len(Candidates) \in Nat
      /\ \A i \in 1 .. Len(Candidates) - Kept : Candidates[i] \in Excess
  BY CandidatesOk, ExcessOk
<1>6. k \in 0 .. Len(Candidates) /\ \A i \in 1 .. k : Candidates[i] \notin A
  BY <1>5
<1> HIDE DEF A
<1>7. Len(Only(Candidates, A)) \in 0 .. Len(Candidates) - k
  <2> HIDE DEF k
  <2> QED
    BY <1>5, <1>6, OnlyAfter DEF MemType
<1>8. Len(Candidates) - k = Kept
  BY <1>5
<1>9. Keep \in Nat
  BY AgentRunAssumption
<1>10. QED
  <2>1. \A n, m, h \in Nat : n \in 0 .. m /\ m <= h => n <= h
    OBVIOUS
  <2>2. Kept \in Nat /\ Len(Only(Candidates, A)) \in 0 .. Kept
    BY <1>5, <1>7, <1>8
  <2>3. QED
    BY <1>4, <1>5, <1>9, <2>1, <2>2

LEMMA BoundedNext ==
  ASSUME LoopTypes, StoreTypes, Numbered, Steps, FewCandidates, [Next]_vars
  PROVE  FewCandidates'
<1>1. CASE pc' \notin {"think", "thinking"} \/ step' = 0
  BY <1>1 DEF FewCandidates
<1>2. CASE UNCHANGED <<mem, task, step>> /\ pc \in {"think", "thinking"}
  BY <1>2 DEF FewCandidates, Candidates
<1>3. CASE Act
  <2>1. CASE Compacts /\ pc' # "compact"
    <3>1. Len(Candidates) + 2 <= Keep /\ UNCHANGED task
          /\ mem' = mem \o <<Step("action", step + 1), Step("observation", step + 1)>>
      BY <1>3, <2>1 DEF Act, Persist
    <3>2. step + 1 \in 0 .. MaxSteps /\ run \in Runs /\ task \in Tasks
      BY <1>3, AgentRunAssumption DEF LoopTypes, Steps, Act, Numbered
    <3>3. /\ Step("action", step + 1) \in StepsOf(Tasks, Kinds)
          /\ Step("observation", step + 1) \in StepsOf(Tasks, Kinds)
      BY <3>2, StepOk DEF Kinds
    <3>4. Len(Candidates') <= Len(Candidates) + 2
      BY <3>1, <3>3, TwoMore DEF Candidates, StoreTypes
    <3>5. Len(Candidates) \in Nat /\ Keep \in Nat
      BY CandidatesOk, AgentRunAssumption DEF StoreTypes
    <3>6. mem' \in MemType
      <4> DEFINE x == Step("action", step + 1)
                 y == Step("observation", step + 1)
      <4>1. mem' = mem \o <<x, y>> /\ x \in StepsOf(Tasks, Kinds) /\ y \in StepsOf(Tasks, Kinds)
            /\ mem \in MemType
        BY <3>1, <3>3 DEF StoreTypes
      <4> HIDE DEF x, y
      <4>2. QED
        BY <4>1, MoreMemory
    <3>7. Len(Candidates') \in Nat
      BY <3>6, MemOnly DEF Candidates, MemType
    <3>8. Len(Candidates') <= Keep
      BY <3>1, <3>4, <3>5, <3>7
    <3>9. QED
      BY <3>8 DEF FewCandidates
  <2>2. CASE ~Compacts \/ pc' = "compact"
    BY <2>2 DEF FewCandidates
  <2>3. QED
    BY <2>1, <2>2
<1>4. CASE Compacted
  BY <1>4, CompactionKeeps DEF Compacted, StoreTypes, FewCandidates
<1>5. CASE Planned \/ (\E t \in Tasks : Begin(t)) \/ Plan \/ Compact \/ Reflect \/ Save
           \/ Interrupt \/ Kill \/ Thought \/ TimesOut
  BY <1>1, <1>5 DEF Planned, Begin, Plan, Compact, Reflect, Save, Interrupt, Kill, Leave, Thought,
                    TimesOut, Steps
<1>6. CASE Think
  BY <1>2, <1>6 DEF Think, stores
<1>7. CASE UNCHANGED <<loop, mem>>
  BY <1>1, <1>2, <1>7 DEF loop
<1>8. CASE ModelStep \/ ModelHangs \/ (\E r \in Runs : \E x \in Acts : LateReturns(r, x))
           \/ UNCHANGED vars
  BY <1>7, <1>8 DEF ModelStep, ModelHangs, LateReturns, stores, vars
<1>9. QED
  BY <1>3, <1>4, <1>5, <1>6, <1>8 DEF Next, LoopStep

-----------------------------------------------------------------------------
(* The statements of the tasks.                                            *)

LEMMA StatementsOk ==
  ASSUME NEW s \in MemType, NEW t
  PROVE  Statements(s, t) \in Nat
  BY MemOnly DEF Statements, MemType

\* A step is one statement more, or none.
LEMMA StateOnce ==
  ASSUME NEW s \in MemType, NEW e \in StepsOf(Tasks, Kinds), NEW t
  PROVE  /\ Statements(Append(s, e), t) <= Statements(s, t) + 1
         /\ e.kind # "task" => Statements(Append(s, e), t) = Statements(s, t)
<1> DEFINE S == StepsOf({t}, {"task"})
           q == Only(s, S)
<1>1. q \in MemType
  BY MemOnly
<1>2. Only(Append(s, e), S) = IF e \in S THEN Append(q, e) ELSE q
  <2> HIDE DEF S
  <2> QED
    BY OnlyAppend DEF MemType
<1>3. e.kind # "task" => e \notin S
  BY DEF StepsOf
<1>4. Statements(s, t) = Len(q) /\ Statements(Append(s, e), t) = Len(Only(Append(s, e), S))
  BY DEF Statements
<1> HIDE DEF q, S
<1>5. Len(q) \in Nat /\ Len(Append(q, e)) = Len(q) + 1
  BY <1>1 DEF MemType
<1>6. QED
  BY <1>2, <1>3, <1>4, <1>5

\* What keeps or drops all statements of a task leaves no more of them.
LEMMA StateLess ==
  ASSUME NEW s \in MemType, NEW A, NEW t,
         \/ StepsOf({t}, {"task"}) \subseteq A
         \/ A \cap StepsOf({t}, {"task"}) = {}
  PROVE  Statements(Only(s, A), t) <= Statements(s, t)
<1> DEFINE S == StepsOf({t}, {"task"})
<1> HIDE DEF S
<1>1. Only(Only(s, A), S) = Only(s, A \cap S)
  BY OnlyTwice DEF MemType
<1>2. Statements(Only(s, A), t) = Len(Only(s, A \cap S)) /\ Statements(s, t) = Len(Only(s, S))
  BY <1>1 DEF Statements, S
<1>3. Statements(s, t) \in Nat
  BY StatementsOk
<1>4. CASE A \cap S = S
  <2>1. Statements(Only(s, A), t) = Statements(s, t)
    BY <1>2, <1>4
  <2>2. \A n \in Nat : n <= n
    OBVIOUS
  <2>3. QED
    BY <1>3, <2>1, <2>2
<1>5. CASE A \cap S = {}
  <2>1. s \in Seq(StepsOf(Tasks, Kinds)) /\ Len(s) \in Nat
    BY DEF MemType
  <2>2. Len(s) \in 0 .. Len(s) /\ \A i \in 1 .. Len(s) : s[i] \notin A \cap S
    BY <1>5, <2>1
  <2>3. Len(Only(s, A \cap S)) \in 0 .. Len(s) - Len(s)
    BY <2>1, <2>2, OnlyAfter
  <2>4. Len(Only(s, A \cap S)) = 0
    BY <2>1, <2>3
  <2>5. QED
    BY <1>2, <1>3, <2>4
<1>6. QED
  BY <1>4, <1>5 DEF S

LEMMA StatedNext ==
  ASSUME LoopTypes, StoreTypes, Numbered, Steps, Stated, [Next]_vars
  PROVE  Stated'
<1>0. /\ mem \in MemType /\ disk \in MemType /\ run \in Nat
      /\ 0 \in 0 .. MaxSteps /\ MaxSteps \in Nat
      /\ "task" \in Kinds /\ "plan" \in Kinds /\ "action" \in Kinds /\ "observation" \in Kinds
  BY AgentRunAssumption DEF StoreTypes, LoopTypes, Kinds
<1>1. ASSUME NEW t \in Tasks, Begin(t) PROVE Stated'
  <2> DEFINE x == [run |-> run', of |-> t, kind |-> "task", n |-> 0]
  <2>1. /\ run' = run + 1 /\ run' \in Runs /\ UNCHANGED disk /\ mem' = Append(mem, x)
    BY <1>1, AgentRunAssumption DEF LoopTypes, Begin, Runs
  <2>2. x \in StepsOf(Tasks, Kinds)
    BY <1>0, <2>1 DEF StepsOf
  <2> HIDE DEF x
  <2>3. ASSUME NEW u \in Tasks PROVE Statements(mem', u) <= run' /\ Statements(disk', u) <= run'
    <3>1. /\ Statements(mem', u) <= Statements(mem, u) + 1
          /\ Statements(mem, u) \in Nat /\ Statements(disk, u) \in Nat
          /\ Statements(mem', u) \in Nat
      BY <1>0, <2>1, <2>2, StateOnce, StatementsOk, MemAppend
    <3>2. Statements(mem, u) <= run /\ Statements(disk, u) <= run /\ disk' = disk
      BY <2>1 DEF Stated
    <3>3. QED
      BY <1>0, <2>1, <3>1, <3>2
  <2>4. QED
    BY <2>3 DEF Stated
<1>2. ASSUME UNCHANGED run, mem' \in MemType,
             \A u \in Tasks : /\ Statements(mem', u) <= Statements(mem, u)
                              /\ Statements(disk', u) <= run
      PROVE  Stated'
  <2>1. ASSUME NEW u \in Tasks PROVE Statements(mem', u) <= run
    <3>1. Statements(mem', u) \in Nat /\ Statements(mem, u) \in Nat
      BY <1>0, <1>2, StatementsOk
    <3>2. Statements(mem, u) <= run /\ Statements(mem', u) <= Statements(mem, u)
      BY <1>2 DEF Stated
    <3>3. QED
      BY <1>0, <3>1, <3>2
  <2>2. QED
    BY <1>2, <2>1 DEF Stated
<1>3. CASE Planned
  <2>1. /\ Step("plan", 0) \in StepsOf(Tasks, Kinds) /\ Step("plan", 0).kind # "task"
        /\ UNCHANGED <<run, disk>> /\ mem' \in {mem, Append(mem, Step("plan", 0))}
    BY <1>0, <1>3, StepOk DEF Planned, Numbered, Step
  <2>2. mem' \in MemType
    BY <1>0, <2>1, MemAppend
  <2>3. ASSUME NEW u \in Tasks PROVE Statements(mem', u) <= Statements(mem, u)
    <3>1. Statements(mem', u) = Statements(mem, u) /\ Statements(mem, u) \in Nat
      BY <1>0, <2>1, StateOnce, StatementsOk
    <3>2. QED
      BY <3>1
  <2>4. QED
    BY <1>2, <2>1, <2>2, <2>3 DEF Stated
<1>4. CASE Act
  <2> DEFINE x == Step("action", step + 1)
             y == Step("observation", step + 1)
  <2>1. step + 1 \in 0 .. MaxSteps /\ run \in Runs /\ task \in Tasks
    BY <1>0, <1>4 DEF LoopTypes, Steps, Act, Numbered
  <2>2. /\ x \in StepsOf(Tasks, Kinds) /\ y \in StepsOf(Tasks, Kinds)
        /\ x.kind # "task" /\ y.kind # "task"
    BY <1>0, <2>1, StepOk DEF Step
  <2>3. mem' = mem \o <<x, y>> /\ UNCHANGED <<run, disk>>
    BY <1>4 DEF Act, Persist
  <2> HIDE DEF x, y
  <2>4. mem' = Append(Append(mem, x), y) /\ mem' \in MemType /\ Append(mem, x) \in MemType
    BY <1>0, <2>2, <2>3, MoreMemory, MemAppend
  <2>5. ASSUME NEW u \in Tasks PROVE Statements(mem', u) <= Statements(mem, u)
    <3>1. /\ Statements(mem', u) = Statements(Append(mem, x), u)
          /\ Statements(Append(mem, x), u) = Statements(mem, u) /\ Statements(mem, u) \in Nat
      BY <1>0, <2>2, <2>4, StateOnce, StatementsOk
    <3>2. QED
      BY <3>1
  <2>6. QED
    BY <1>2, <2>3, <2>4, <2>5 DEF Stated
<1>5. CASE Compacted
  <2> DEFINE A == StepsOf(Tasks, Kinds) \ Excess
  <2>1. mem' = Only(mem, A) /\ UNCHANGED <<run, disk>>
    BY <1>5 DEF Compacted
  <2>2. Excess \subseteq StepsOf({task}, Kinds \ {"task"})
    BY <1>0, ExcessOk, CandidatesOk
  <2>3. ASSUME NEW u \in Tasks PROVE StepsOf({u}, {"task"}) \subseteq A
    <3>1. StepsOf({u}, {"task"}) \subseteq StepsOf(Tasks, Kinds)
      BY <1>0 DEF StepsOf
    <3>2. ASSUME NEW e \in StepsOf({u}, {"task"}) PROVE e \notin Excess
      BY <2>2 DEF StepsOf
    <3>3. QED
      BY <3>1, <3>2
  <2> HIDE DEF A
  <2>4. mem' \in MemType /\ \A u \in Tasks : Statements(mem', u) <= Statements(mem, u)
    BY <1>0, <2>1, <2>3, MemOnly, StateLess
  <2>5. QED
    BY <1>2, <2>1, <2>4 DEF Stated
<1>6. CASE Reflect
  <2> DEFINE A == StepsOf(Tasks \ {task}, Kinds)
  <2>1. mem' \in {mem, Only(mem, A)} /\ UNCHANGED <<run, disk>>
    BY <1>6 DEF Reflect, Pruned
  <2>2. ASSUME NEW u \in Tasks
        PROVE  StepsOf({u}, {"task"}) \subseteq A \/ A \cap StepsOf({u}, {"task"}) = {}
    <3>1. CASE u # task
      BY <1>0, <3>1 DEF StepsOf
    <3>2. CASE u = task
      <4>1. \A e \in A : e.of # task
        BY DEF StepsOf
      <4>2. \A e \in StepsOf({u}, {"task"}) : e.of = task
        BY <3>2 DEF StepsOf
      <4>3. QED
        BY <4>1, <4>2
    <3>3. QED
      BY <3>1, <3>2
  <2> HIDE DEF A
  <2>3. ASSUME NEW u \in Tasks PROVE Statements(mem', u) <= Statements(mem, u)
    <3>1. Statements(mem, u) \in Nat
      BY <1>0, StatementsOk
    <3>2. Statements(Only(mem, A), u) <= Statements(mem, u)
      BY <1>0, <2>2, StateLess
    <3>3. QED
      BY <2>1, <3>1, <3>2
  <2>4. mem' \in MemType
    BY <1>0, <2>1, MemOnly
  <2>5. QED
    BY <1>2, <2>1, <2>3, <2>4 DEF Stated
<1>7. CASE Save \/ Interrupt \/ Kill
  BY <1>7 DEF Save, Interrupt, Kill, Stated
<1>8. CASE UNCHANGED <<run, mem, disk>>
  BY <1>8 DEF Stated
<1>9. CASE Plan \/ Think \/ Thought \/ TimesOut \/ Compact \/ ModelStep \/ ModelHangs
           \/ (\E r \in Runs : \E x \in Acts : LateReturns(r, x)) \/ UNCHANGED vars
  BY <1>8, <1>9 DEF Plan, Think, Thought, TimesOut, Compact, ModelStep, ModelHangs, LateReturns,
                    loop, stores, vars
<1>10. QED
  BY <1>1, <1>3, <1>4, <1>5, <1>6, <1>7, <1>9 DEF Next, LoopStep

-----------------------------------------------------------------------------
(* What the guards have counted.                                           *)

\* There is one number of equal elements at the end of a sequence.
LEMMA TrailingIs ==
  ASSUME NEW T, NEW s \in Seq(T), NEW n, IsTrailing(s, n)
  PROVE  Trailing(s) = n
<1>1. Len(s) \in Nat
  OBVIOUS
<1>2. ASSUME NEW a \in 1 .. Len(s), NEW b \in 1 .. Len(s), IsTrailing(s, a), IsTrailing(s, b)
      PROVE  ~(a < b)
  <2> SUFFICES ASSUME a < b PROVE FALSE
    OBVIOUS
  <2>1. a # Len(s) /\ Len(s) - a \in Len(s) - b + 1 .. Len(s)
    BY <1>1
  <2>2. s[Len(s) - a] = s[Len(s)]
    BY <1>2, <2>1 DEF IsTrailing
  <2>3. QED
    BY <1>2, <2>1, <2>2 DEF IsTrailing
<1>3. n \in 1 .. Len(s)
  BY DEF IsTrailing
<1> DEFINE P(m) == /\ \A i \in Len(s) - m + 1 .. Len(s) : s[i] = s[Len(s)]
                   /\ m = Len(s) \/ s[Len(s) - m] # s[Len(s)]
           c == CHOOSE m \in 1 .. Len(s) : P(m)
<1>4. c \in 1 .. Len(s) /\ P(c)
  <2>1. \E m \in 1 .. Len(s) : P(m)
    BY <1>3 DEF IsTrailing
  <2> HIDE DEF P
  <2>2. QED
    BY <2>1
<1>5. Trailing(s) = c
  BY DEF Trailing
<1> HIDE DEF c
<1>6. IsTrailing(s, c)
  BY <1>4 DEF IsTrailing
<1>7. ~(c < n) /\ ~(n < c)
  BY <1>2, <1>3, <1>4, <1>6
<1>8. QED
  BY <1>1, <1>3, <1>4, <1>5, <1>7

\* One more element makes the number one more, or one.
LEMMA TrailingGrows ==
  ASSUME NEW T, NEW s \in Seq(T), NEW e \in T
  PROVE  /\ s = << >> => IsTrailing(Append(s, e), 1)
         /\ \A n : s # << >> /\ IsTrailing(s, n) =>
              IsTrailing(Append(s, e), IF s[Len(s)] = e THEN n + 1 ELSE 1)
<1> DEFINE r == Append(s, e)
           l == Len(s)
<1>1. /\ l \in Nat /\ Len(r) = l + 1 /\ r[l + 1] = e /\ \A i \in 1 .. l : r[i] = s[i]
      /\ s = << >> <=> l = 0
  OBVIOUS
<1> HIDE DEF r, l
<1>2. s = << >> => IsTrailing(r, 1)
  <2>1. ASSUME l = 0 PROVE 1 \in 1 .. Len(r) /\ 1 = Len(r) /\ \A i \in Len(r) - 1 + 1 .. Len(r) : i = 1
    BY <1>1, <2>1
  <2>2. QED
    BY <1>1, <2>1 DEF IsTrailing
<1>3. ASSUME l # 0, NEW n, IsTrailing(s, n) PROVE IsTrailing(r, IF s[l] = e THEN n + 1 ELSE 1)
  <2>1. n \in 1 .. l /\ (\A i \in l - n + 1 .. l : s[i] = s[l]) /\ (n = l \/ s[l - n] # s[l])
    BY <1>3 DEF IsTrailing, l
  <2>2. CASE s[l] = e
    <3>1. n + 1 \in 1 .. Len(r) /\ Len(r) - (n + 1) + 1 = l - n + 1 /\ Len(r) - (n + 1) = l - n
      BY <1>1, <2>1
    <3>2. \A i \in l - n + 1 .. Len(r) : r[i] = e
      <4> SUFFICES ASSUME NEW i \in l - n + 1 .. Len(r) PROVE r[i] = e
        OBVIOUS
      <4>1. i = l + 1 \/ (i \in 1 .. l /\ i \in l - n + 1 .. l)
        BY <1>1, <2>1
      <4>2. QED
        BY <1>1, <2>1, <2>2, <4>1
    <3>3. n + 1 = Len(r) \/ r[l - n] # e
      <4>1. n = l \/ l - n \in 1 .. l
        BY <1>1, <2>1
      <4>2. QED
        BY <1>1, <2>1, <2>2, <4>1
    <3>4. r[Len(r)] = e
      BY <1>1
    <3>5. QED
      BY <2>2, <3>1, <3>2, <3>3, <3>4 DEF IsTrailing
  <2>3. CASE s[l] # e
    <3>1. 1 \in 1 .. Len(r) /\ Len(r) - 1 = l /\ r[l] = s[l] /\ r[Len(r)] = e
      BY <1>1, <1>3
    <3>2. \A i \in Len(r) - 1 + 1 .. Len(r) : i = Len(r)
      BY <1>1
    <3>3. QED
      BY <2>3, <3>1, <3>2 DEF IsTrailing
  <2>4. QED
    BY <2>2, <2>3
<1>4. QED
  BY <1>1, <1>2, <1>3 DEF r, l

\* What was exact before an action is seen is exact after it.
LEMMA ObserveExact ==
  ASSUME GuardTypes, NEW a \in Acts, NEW r, Observe(a, r), NEW s \in Seq(Acts),
         converge.step = Len(s), \A i \in 1 .. Len(s) : s[i] \notin Terminal,
         s = << >> => repeats = NoRepeats /\ converge.last = None /\ converge.count = 0,
         s # << >> => /\ repeats.act = s[Len(s)] /\ IsTrailing(s, repeats.count)
                      /\ converge.last \in 0 .. Len(s) - 1
                      /\ converge.count = converge.last + 1
  PROVE  /\ repeats'.act = a /\ IsTrailing(Append(s, a), repeats'.count)
         /\ converge'.last \in 0 .. Len(s)
         /\ a \notin Terminal => converge'.count = converge'.last + 1
<1>1. Len(s) \in Nat /\ (s = << >> <=> Len(s) = 0) /\ Len(s) # None
  BY AgentRunAssumption
<1>2. repeats' = Repeated(a)
  BY DEF Observe
<1>3. repeats'.act = a /\ repeats'.count = IF repeats.act = a THEN repeats.count + 1 ELSE 1
  BY <1>2 DEF Repeated
<1>4. IsTrailing(Append(s, a), repeats'.count)
  <2>1. CASE s = << >>
    <3>1. repeats'.count = 1
      BY <1>3, <2>1 DEF NoRepeats
    <3>2. QED
      BY <2>1, <3>1, TrailingGrows
  <2>2. CASE s # << >>
    BY <1>3, <2>2, TrailingGrows
  <2>3. QED
    BY <2>1, <2>2
<1> DEFINE said == Repeated(a).count \in RepeatAt \/ Repeated(a).tools \in NameAt
<1>5. converge' = IF said THEN converge ELSE Converging(a)
  BY DEF Observe
<1>6. s = << >> => ~said
  <2> SUFFICES ASSUME s = << >> PROVE ~said
    OBVIOUS
  <2>1. Repeated(a).count = 1 /\ Repeated(a).tools = 1
    BY DEF Repeated, NoRepeats
  <2>2. QED
    BY <2>1, AgentRunAssumption
<1>7. converge \in ConvergeType /\ converge.count \in Nat
  BY DEF GuardTypes, ConvergeType
<1>8. CASE said
  BY <1>1, <1>3, <1>4, <1>5, <1>6, <1>8
<1>9. CASE ~said
  <2>1. converge' = Converging(a)
    BY <1>5, <1>9
  <2> HIDE DEF said
  <2> DEFINE delta == IF converge.last # None /\ converge.step # None
                         /\ converge.step > converge.last
                      THEN converge.step - converge.last ELSE 1
  <2>2. CASE a \in Terminal
    <3>1. converge' = [converge EXCEPT !.count = 0, !.last = converge.step]
      BY <2>1, <2>2 DEF Converging
    <3>2. converge'.last = Len(s)
      BY <1>7, <3>1 DEF ConvergeType
    <3>3. QED
      BY <1>1, <1>3, <1>4, <2>2, <3>2
  <2>3. CASE a \notin Terminal
    <3>1. converge' = [converge EXCEPT !.count = converge.count + delta,
                         !.last = IF converge.step = None THEN converge.last ELSE converge.step]
      BY <2>1, <2>3 DEF Converging
    <3>2. converge.count + delta = Len(s) + 1
      <4>1. CASE s = << >>
        BY <1>1, <4>1
      <4>2. CASE s # << >>
        <5>1. converge.last \in Nat /\ converge.last < Len(s) /\ converge.last # None
          BY <1>1, <4>2, AgentRunAssumption
        <5>2. delta = Len(s) - converge.last
          BY <1>1, <5>1
        <5> HIDE DEF delta
        <5>3. QED
          BY <1>1, <4>2, <5>1, <5>2
      <4>3. QED
        BY <4>1, <4>2
    <3> HIDE DEF delta
    <3>3. converge'.last = Len(s) /\ converge'.count = Len(s) + 1
      BY <1>1, <1>7, <3>1, <3>2 DEF ConvergeType
    <3>4. QED
      BY <1>1, <1>3, <1>4, <3>3
  <2>4. QED
    BY <2>2, <2>3
<1>10. QED
  BY <1>3, <1>4, <1>8, <1>9

LEMMA ExactNext ==
  ASSUME LoopTypes, GuardTypes, OtherTypes, Steps, Exact, [Next]_vars
  PROVE  Exact'
<1>1. CASE ~clean'
  BY <1>1 DEF Exact
<1>2. CASE pc' = "idle"
  BY <1>2 DEF Exact
<1>3. CASE /\ UNCHANGED <<clean, repeats, converge>> /\ pc # "idle" /\ Seen' = Seen
           /\ pc' \notin {"thinking", "summarizing"}
  BY <1>3 DEF Exact
<1>4. ASSUME NEW t \in Tasks, Begin(t) PROVE Exact'
  <2>1. CASE t = lastTask
    BY <1>1, <1>4, <2>1 DEF Begin
  <2>2. CASE t # lastTask
    <3>1. repeats' = NoRepeats /\ converge' = NoConverge /\ history' = << >>
          /\ pc' \in {"plan", "think"}
      BY <1>4, <2>2 DEF Begin
    <3>2. Seen' = << >>
      BY <3>1 DEF Seen
    <3>3. converge'.last = None /\ converge'.count = 0
      BY <3>1 DEF NoConverge
    <3>4. QED
      BY <3>1, <3>2, <3>3 DEF Exact
  <2>3. QED
    BY <2>1, <2>2
<1>5. CASE Think
  <2>1. /\ pc = "think" /\ pc' = "thinking" /\ converge' = [converge EXCEPT !.step = step]
        /\ UNCHANGED <<repeats, clean, step, history, chosen>>
    BY <1>5 DEF Think, ThinkBegins
  <2>2. Seen' = Seen
    BY <2>1 DEF Seen
  <2>3. converge'.step = step /\ converge'.last = converge.last /\ converge'.count = converge.count
    BY <2>1 DEF GuardTypes, ConvergeType
  <2>4. QED
    BY <2>1, <2>2, <2>3 DEF Exact
<1>6. CASE Thought
  <2> SUFFICES ASSUME clean PROVE Exact'
    BY <1>1, <1>6 DEF Thought, past
  <2>1. /\ pc = "thinking" /\ pc' = "act" /\ UNCHANGED <<clean, step, history>>
        /\ Observe(chosen', run)
    BY <1>6 DEF Thought, past
  <2>2. chosen' \in Acts
    BY <1>6, ActionOk DEF Thought
  <2>3. Seen = history /\ Seen' = Append(history, chosen')
    BY <2>1 DEF Seen
  <2>4. /\ history \in Seq(Acts) /\ Len(history) = step
        /\ \A i \in 1 .. Len(history) : history[i] \notin Terminal
    BY <2>1 DEF LoopTypes, Steps
  <2>5. /\ converge.step = Len(history)
        /\ history = << >> => repeats = NoRepeats /\ converge.last = None /\ converge.count = 0
        /\ history # << >> => /\ repeats.act = history[Len(history)]
                              /\ IsTrailing(history, repeats.count)
                              /\ converge.last \in 0 .. Len(history) - 1
                              /\ converge.count = converge.last + 1
    <3>1. history # << >> => Len(history) \in 1 .. Len(history)
      BY <2>4
    <3>2. QED
      BY <2>1, <2>3, <2>4, <3>1 DEF Exact, Last
  <2>6. /\ repeats'.act = chosen' /\ IsTrailing(Append(history, chosen'), repeats'.count)
        /\ converge'.last \in 0 .. Len(history)
        /\ chosen' \notin Terminal => converge'.count = converge'.last + 1
    BY <2>1, <2>2, <2>4, <2>5, ObserveExact
  <2>7. /\ Seen' # << >> /\ Last(Seen') = chosen' /\ Len(Seen') - 1 = Len(history)
    <3> DEFINE a == chosen'
    <3>1. a \in Acts /\ Seen' = Append(history, a)
      BY <2>2, <2>3
    <3> HIDE DEF a
    <3>2. Append(history, a) # << >> /\ Append(history, a)[Len(history) + 1] = a
          /\ Len(Append(history, a)) = Len(history) + 1 /\ Len(history) \in Nat
      BY <2>4, <3>1
    <3>3. QED
      BY <3>1, <3>2 DEF Last, a
  <2>8. QED
    BY <2>1, <2>3, <2>6, <2>7 DEF Exact
<1>7. CASE Act
  <2>1. /\ pc = "act" /\ history' = Append(history, chosen) /\ UNCHANGED <<clean, repeats, converge>>
        /\ pc' \in {"compact", "reflect", "think"}
    BY <1>7 DEF Act, Persist, Onward, past, guards
  <2>2. Seen' = Seen
    BY <2>1 DEF Seen
  <2>3. QED
    BY <1>3, <2>1, <2>2
<1>8. CASE TimesOut \/ Compact \/ Compacted
           \/ (\E r \in Runs : \E x \in Acts : LateReturns(r, x))
  BY <1>1, <1>8 DEF TimesOut, Compact, Compacted, LateReturns, past, Exact
<1>9. CASE Save \/ Interrupt \/ Kill
  BY <1>2, <1>9 DEF Save, Interrupt, Kill, Leave
<1>10. CASE Plan \/ Planned \/ Reflect
  BY <1>3, <1>10 DEF Plan, Planned, Reflect, Seen, guards, past
<1>11. CASE UNCHANGED <<loop, guards, past>>
  BY <1>11 DEF Exact, Seen, loop, guards, past
<1>12. CASE ModelStep \/ ModelHangs \/ UNCHANGED vars
  BY <1>11, <1>12 DEF ModelStep, ModelHangs, vars
<1>13. QED
  BY <1>4, <1>5, <1>6, <1>7, <1>8, <1>9, <1>10, <1>12 DEF Next, LoopStep

-----------------------------------------------------------------------------
(* The theorems.                                                           *)

LEMMA InitInv == Init => Inv
<1> SUFFICES ASSUME Init PROVE Inv
  OBVIOUS
<1>1. TypeOK /\ CallType
  <2>1. CallType
    <3>1. chain \in Seq(BOOLEAN) /\ chain # << >>
      BY ModelCallsAssumption DEF Init, CallInit
    <3>2. 1 \in DOMAIN chain
      BY <3>1
    <3>3. call = Idle /\ 0 \in 0 .. Retries /\ "none" \in Responses
      BY ModelCallsAssumption DEF Init, CallInit, Responses
    <3>4. call \in [at : {"idle", "asking", "returned", "hung"}, link : DOMAIN chain,
               attempt : 0 .. Retries, tools : BOOLEAN,
               tried : SUBSET DOMAIN chain, got : Responses]
      BY <3>2, <3>3 DEF Idle
    <3>5. QED
      BY <3>4 DEF CallType, Init, CallInit
  <2>2. \A q : q = << >> => q \in Seq(Acts) /\ q \in MemType /\ q \in Seq(RecordType)
    BY DEF MemType
  <2>3. 0 \in 0 .. MaxRuns /\ 0 \in 0 .. MaxSteps /\ 0 \in 0 .. MaxStops
    BY AgentRunAssumption
  <2>4. LoopTypes
    BY <2>2, <2>3, ActsOk DEF Init, LoopTypes
  <2>5. GuardTypes
    BY <2>3, NewGuards DEF Init, GuardTypes
  <2>6. LogTypes /\ StoreTypes
    BY <2>2, <2>3 DEF Init, LogTypes, StoreTypes
  <2>7. OtherTypes
    BY <2>3 DEF Init, OtherTypes
  <2>8. QED
    BY <2>1, <2>4, <2>5, <2>6, <2>7, TypeGroups
<1>2. Numbered /\ Exact /\ NothingForgotten /\ FewCandidates
  BY DEF Init, Numbered, Exact, NothingForgotten, FewCandidates
<1>3. call.at = "idle"
  BY DEF Init, CallInit, Idle
<1>4. Calls
  BY <1>3 DEF Calls, NoneMeansAllTried
<1>5. Steps
  <2>1. Len(history) = 0
    BY DEF Init
  <2>2. QED
    BY <2>1 DEF Init, Steps
<1>6. Earlier /\ LogHoldsWholeRuns
  <2>1. DOMAIN runlog = {}
    BY DEF Init
  <2>2. QED
    BY <2>1 DEF Earlier, LogHoldsWholeRuns
<1>7. Stated
  <2>1. ASSUME NEW q, q = << >>, NEW S PROVE Len(Only(q, S)) = 0
    <3>1. q \in Seq({}) /\ Len(q) = 0 /\ 0 \in 0 .. Len(q)
      BY <2>1
    <3>2. \A i \in 1 .. 0 : q[i] \notin S
      OBVIOUS
    <3>3. Len(Only(q, S)) \in 0 .. Len(q) - 0
      BY <3>1, <3>2, OnlyAfter
    <3>4. QED
      BY <3>1, <3>3
  <2>2. QED
    BY <2>1 DEF Init, Stated, Statements
<1>8. QED
  BY <1>1, <1>2, <1>4, <1>5, <1>6, <1>7 DEF Inv

LEMMA NextInv == Inv /\ [Next]_vars => Inv'
<1> SUFFICES ASSUME Inv, [Next]_vars PROVE Inv'
  OBVIOUS
<1>1. /\ CallType /\ LoopTypes /\ GuardTypes /\ LogTypes /\ StoreTypes /\ OtherTypes
      /\ Numbered /\ Calls /\ Steps /\ Earlier /\ LogHoldsWholeRuns /\ Exact
      /\ NothingForgotten /\ FewCandidates /\ Stated
  BY TypeGroups DEF Inv
<1>2. CallType' /\ Calls'
  BY <1>1, CallsNext
<1>3. LoopTypes' /\ Numbered' /\ Steps'
  BY <1>1, LoopNext, NumberedNext, StepsNext
<1>4. GuardTypes' /\ OtherTypes'
  BY <1>1, GuardsNext, OthersNext DEF OtherTypes
<1>5. LogTypes' /\ StoreTypes' /\ Earlier' /\ LogHoldsWholeRuns'
  BY <1>1, LogsNext, StoresNext, RecordsNext
<1>6. Exact'
  BY <1>1, ExactNext
<1>7. NothingForgotten' /\ FewCandidates' /\ Stated'
  BY <1>1, ForgottenNext, BoundedNext, StatedNext
<1>8. TypeOK'
  BY <1>2, <1>3, <1>4, <1>5, TypeGroups
<1>9. QED
  BY <1>2, <1>3, <1>5, <1>6, <1>7, <1>8 DEF Inv

\* The inductive invariant holds.
THEOREM InvHolds == Spec => []Inv
<1>1. QED
  BY InitInv, NextInv, PTL DEF Spec

\* Every variable keeps its type; outside a run, memory and its file agree.
THEOREM Typed == Spec => []TypeOK
<1>1. Inv => TypeOK
  BY DEF Inv
<1>2. QED
  BY <1>1, InvHolds, PTL

\* A call of the model returns nothing only after every model of the chain was tried,
\* however attempts fail and tools are rejected (FallbackModel.generate).
THEOREM TriedKept == Spec => []NoneMeansAllTried
<1>1. Inv => NoneMeansAllTried
  BY DEF Inv, Calls
<1>2. QED
  BY <1>1, InvHolds, PTL

\* runs.jsonl holds whole runs only, each once, in order, whatever is interrupted,
\* killed or late (Environment, RunLogRecorder).
THEOREM LogKept == Spec => []LogHoldsWholeRuns
<1>1. Inv => LogHoldsWholeRuns
  BY DEF Inv
<1>2. QED
  BY <1>1, InvHolds, PTL

\* Compaction forgets nothing of the run in progress (AutoCompact.compact).
THEOREM MemoryKept == Spec => []NothingForgotten
<1>1. Inv => NothingForgotten
  BY DEF Inv
<1>2. QED
  BY <1>1, InvHolds, PTL

\* From its second turn on, a run is shown at most max_steps steps of its task that can be
\* compacted, and a statement of the task for each run begun (AutoCompact,
\* ContextBuilder).
THEOREM ContextKept == Spec => []ContextIsBounded
<1>1. ASSUME Inv PROVE ContextIsBounded
  <2> SUFFICES ASSUME Compacts, pc \in {"think", "thinking"}, step > 0
               PROVE  Len(Candidates) <= Keep /\ Len(Context) <= Keep + run
    BY DEF ContextIsBounded
  <2> DEFINE A == StepsOf({task}, Kinds \ {"task"})
             B == StepsOf({task}, {"task"})
  <2>1. /\ LoopTypes /\ StoreTypes /\ task \in Tasks /\ Len(Candidates) <= Keep
        /\ Statements(mem, task) <= run
    BY <1>1, TypeGroups DEF Inv, Numbered, FewCandidates, Stated
  <2>2. mem \in MemType /\ run \in Nat /\ Keep \in Nat
    BY <2>1, AgentRunAssumption DEF LoopTypes, StoreTypes
  <2>3. StepsOf({task}, Kinds) = A \cup B /\ A \cap B = {}
    <3>1. Kinds = (Kinds \ {"task"}) \cup {"task"}
      BY DEF Kinds
    <3>2. \A e : e \in StepsOf({task}, Kinds) <=> e \in A \cup B
      BY <3>1 DEF StepsOf
    <3>3. (\A e \in A : e.kind # "task") /\ (\A e \in B : e.kind = "task")
      BY DEF StepsOf
    <3>4. A \cap B = {}
      <4> HIDE DEF A, B
      <4> QED
        BY <3>3
    <3>5. QED
      BY <3>2, <3>4
  <2>4. Candidates = Only(mem, A) /\ Statements(mem, task) = Len(Only(mem, B))
    BY DEF Candidates, Statements
  <2>5. Context = Only(mem, A \cup B)
    BY <2>3 DEF Context
  <2> HIDE DEF A, B
  <2>6. Len(Context) = Len(Candidates) + Statements(mem, task)
    BY <2>2, <2>3, <2>4, <2>5, OnlyParts DEF MemType
  <2>7. Len(Candidates) \in Nat /\ Statements(mem, task) \in Nat
    BY <2>2, CandidatesOk, StatementsOk
  <2>8. QED
    BY <2>1, <2>2, <2>6, <2>7
<1>2. QED
  BY <1>1, InvHolds, PTL

\* The guards count identical actions in a row, and steps without a terminal action,
\* exactly, as long as no turn but those of the run is observed (loop_guards.py).
THEOREM GuardsKept == Spec => []GuardsAreExact
<1>1. ASSUME Inv PROVE GuardsAreExact
  <2> SUFFICES ASSUME clean, Seen # << >>
               PROVE  /\ repeats.act = Last(Seen) /\ repeats.count = Trailing(Seen)
                      /\ Last(Seen) \notin Terminal => converge.count = converge.last + 1
    BY DEF GuardsAreExact
  <2>1. LoopTypes /\ Steps /\ Exact
    BY <1>1, TypeGroups DEF Inv
  <2>2. pc # "idle"
    <3> SUFFICES ASSUME pc = "idle" PROVE FALSE
      OBVIOUS
    <3>1. Len(history) = 0 /\ history \in Seq(Acts) /\ Seen = history
      BY <2>1 DEF Steps, LoopTypes, Seen
    <3>2. QED
      BY <3>1
  <2>3. /\ repeats.act = Last(Seen) /\ IsTrailing(Seen, repeats.count)
        /\ Last(Seen) \notin Terminal => converge.count = converge.last + 1
    BY <2>1, <2>2 DEF Exact
  <2>4. Seen \in Seq(Acts)
    <3>1. Append(history, chosen) \in Seq(Acts) /\ history \in Seq(Acts)
      BY <2>1 DEF LoopTypes
    <3>2. QED
      BY <3>1 DEF Seen
  <2>5. QED
    BY <2>3, <2>4, TrailingIs
<1>2. QED
  BY <1>1, InvHolds, PTL

=============================================================================
