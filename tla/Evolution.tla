------------------------------ MODULE Evolution ------------------------------
(***************************************************************************)
(* The self-evolution loop: SelfEvolutionDirector, LifeRunner, SoulChannel *)
(* (swaybot/evolution.py) with what Reflector (reflection.py) does at the  *)
(* end of an exploration and what MemoryStore (memory.py) does on add().   *)
(*                                                                         *)
(* A command is a life (--life) or one cycle followed by a soul proposal   *)
(* (--auto-evolve).  pc names the statement the command is at.  Memory is  *)
(* held twice: mem is the store of the process, disk the file.  They       *)
(* differ only while an exploration runs inside a batch.  What the brain   *)
(* answers (sub-questions, wonders, theories, verdicts) is arbitrary.      *)
(* A command can be interrupted (KeyboardInterrupt, or an exception that   *)
(* leaves the agent) or killed (SIGTERM, crash); a later one finds disk.   *)
(* A save succeeds and is one with the change before it.  The task that    *)
(* --auto-evolve runs before its cycle is left out.                        *)
(***************************************************************************)
EXTENDS Naturals, FiniteSets, Sequences, Functions, Subsequences

CONSTANTS
  Questions,           \* contents of kind "question"
  Contradictions,      \* contents of kind "contradiction"
  Claims,              \* contents of the theories dreamt
  Seed,                \* the parts of the seed prompt
  MinOpen,             \* [Modes -> Nat]: min_open
  MaxRuns,             \* [Modes -> Nat]: explorations per cycle
  MaxDepth,            \* max_depth
  RoundsBetweenDreams,
  Window,              \* the limit (50) of the queries that schedule
  SedimentWindow,      \* the limit (500) of the queries of write_sediment
  MinTheories,         \* theories a digest needs
  HasReflector,        \* the agent has a Reflector (both commands give it one)
  MaxAnswers,          \* bound: items of an answer of the brain (3 in the code) or a reflection
  MaxStops,            \* bound: interrupts and kills
  MaxCommands,         \* bound: commands started
  None

Modes == {"life", "auto"}
Subjects == Questions \cup Contradictions

ASSUME EvolutionAssumption ==
  /\ Questions \cap Contradictions = {}
  /\ Claims \cap Subjects = {}
  /\ None \notin Subjects
  /\ Seed \in Seq(Questions)
  /\ MinOpen \in [Modes -> Nat \ {0}] /\ MaxRuns \in [Modes -> Nat]
  /\ RoundsBetweenDreams \in Nat \ {0}
  /\ {MaxDepth, Window, SedimentWindow, MinTheories, MaxAnswers, MaxStops,
      MaxCommands} \subseteq Nat
  /\ HasReflector \in BOOLEAN

VARIABLES
  mem,        \* the MemoryStore of the process
  disk,       \* its file
  pc, mode,   \* where the command is, and which one it is
  picked,     \* the note being explored
  verdict,    \* what _adjudicate said of it
  todo,       \* contents about to be added, one memory.add each
  left,       \* explorations left in the cycle
  emitted,    \* len(explored): events of the cycle
  rounds,     \* LifeRunner's count
  dry,        \* dry_streak
  curiosity,  \* the lines of curiosity.md
  knowledge,  \* the lines of knowledge.md, which it ranks by credibility
  digest,     \* the theories in soul-digest.md
  fresh,      \* contents created less than a week ago
  stops, commands,
  explored    \* history: [Subjects -> Nat], runs that explored it

sediment == <<knowledge, curiosity>>
files == <<disk, sediment, digest, fresh>>
counts == <<left, emitted, rounds, dry>>
bounds == <<stops, commands>>
vars == <<mem, pc, mode, picked, verdict, todo, files, counts, bounds, explored>>

Statuses == {"open", "testing", "resolved", "decomposed"}
Verdicts == {"supported", "refuted", "inconclusive"}
Steps == {"off", "over", "seed", "check", "gate", "design", "mark", "run", "flush",
          "judge", "record", "split", "subs", "dry", "wonder", "sleep",
          "dream", "finally", "propose"}

-----------------------------------------------------------------------------
(* Memory.  notes: questions and contradictions in the order they were     *)
(* added; beliefs: conjectures; trials: the subjects that have a record;   *)
(* theories: credibility in tenths, 0 when there is none.                  *)

Empty == [notes |-> << >>, beliefs |-> << >>, trials |-> {},
          theories |-> [c \in Subjects \cup Claims |-> 0]]

Note(c, depth, parent) == [on |-> c, depth |-> depth, parent |-> parent,
                           status |-> "open"]

\* Mutant of Remember: the newer note takes the place of the older one.
RememberMoves(notes, n) ==
  [i \in DOMAIN notes |-> IF notes[i].on = n.on THEN [n EXCEPT !.status = notes[i].status]
                          ELSE notes[i]]
    \o (IF \E i \in DOMAIN notes : notes[i].on = n.on THEN << >> ELSE <<n>>)

\* add() of a question or contradiction: one with the same content stays as it is.
Remember(notes, n) ==
  IF \E i \in DOMAIN notes : notes[i].on = n.on THEN notes ELSE Append(notes, n)

\* add() of a theory: a restatement corroborates.
Restate(theories, c, credibility) ==
  [theories EXCEPT ![c] = IF @ = 0 THEN credibility ELSE IF @ < 10 THEN @ + 1 ELSE 10]

\* Mutant of SetStatus: only one of the two kinds is looked for.
SetStatusOfContradictions(notes, c, status) ==
  [i \in DOMAIN notes |-> IF notes[i].on = c /\ c \in Contradictions
                          THEN [notes[i] EXCEPT !.status = status] ELSE notes[i]]

SetStatus(notes, c, status) ==
  [i \in DOMAIN notes |->
    IF notes[i].on = c THEN [notes[i] EXCEPT !.status = status] ELSE notes[i]]

\* query(kind, limit) keeps the last `limit' entries of a kind.
Latest(notes, kind, limit) ==
  {i \in DOMAIN notes :
     /\ notes[i].on \in kind
     /\ Cardinality({j \in DOMAIN notes : j > i /\ notes[j].on \in kind}) < limit}

OpenAt(d, notes, kind, limit) ==
  {n \in {notes[i] : i \in Latest(notes, kind, limit)} : n.status = "open" /\ n.depth = d}

\* open_candidates(): contradictions then questions, in a stable order by depth;
\* at k, those of depth less than k.
OpenBelow(notes, limit) ==
  LET f[k \in 0 .. MaxDepth + 1] ==
        IF k = 0 THEN << >>
        ELSE f[k - 1] \o Only(notes, OpenAt(k - 1, notes, Contradictions, limit))
                      \o Only(notes, OpenAt(k - 1, notes, Questions, limit))
  IN f

Candidates(notes, limit) == OpenBelow(notes, limit)[MaxDepth + 1]

\* _update_conjecture moves every conjecture of the question.
Moved(beliefs, c, v) ==
  [i \in DOMAIN beliefs |->
    IF beliefs[i].of # c THEN beliefs[i]
    ELSE [beliefs[i] EXCEPT !.cred = CASE v = "supported" -> IF @ < 8 THEN @ + 2 ELSE 10
                                       [] v = "refuted" -> IF @ > 3 THEN @ - 3 ELSE 0
                                       [] OTHER -> @]]

Save(m) == mem' = m /\ disk' = m

\* The locals of a command that has ended, or not yet begun.
Nobody == Note(None, 0, None)
Gone ==
  /\ picked' = Nobody /\ verdict' = "inconclusive" /\ todo' = << >>
  /\ left' = 0 /\ emitted' = 0 /\ rounds' = 0 /\ dry' = 0

Answers(S) == UNION {[1 .. n -> S] : n \in 0 .. MaxAnswers}

-----------------------------------------------------------------------------
(* A command starts.                                                       *)

Begin(m) ==
  /\ pc \in {"off", "over"} /\ commands < MaxCommands
  /\ mode' = m
  /\ mem' = disk
  /\ commands' = commands + 1
  /\ left' = MaxRuns[m] /\ emitted' = 0 /\ rounds' = 0 /\ dry' = 0
  /\ \/ m = "life" /\ pc' = "seed" /\ todo' = Seed
     \/ m = "auto" /\ pc' = "gate" /\ todo' = << >>
  /\ UNCHANGED <<picked, verdict, files, stops, explored>>

\* _seed_questions: one add per part; one that exists is not reopened.
SeedNext ==
  /\ pc = "seed" /\ todo # << >>
  /\ Save([mem EXCEPT !.notes = Remember(@, Note(Head(todo), 0, None))])
  /\ todo' = Tail(todo)
  /\ UNCHANGED <<pc, mode, picked, verdict, sediment, digest, fresh, counts, bounds, explored>>

Goto(p) == pc' = p /\ UNCHANGED <<mem, mode, picked, verdict, todo, files, counts, bounds, explored>>

Seeded == pc = "seed" /\ todo = << >> /\ Goto("check")

\* stop_check() of live() says stop, or it does not and a cycle begins.
StopCheck == pc = "check" /\ Goto("finally")

CycleBegins ==
  /\ pc = "check"
  /\ pc' = "gate" /\ left' = MaxRuns[mode] /\ emitted' = 0
  /\ UNCHANGED <<mem, mode, picked, verdict, todo, files, rounds, dry, bounds, explored>>

-----------------------------------------------------------------------------
(* One exploration of cycle().                                             *)

\* Mutant of GateIsOpen: one open question is not enough.
GateIsOpenAbove(candidates) == left > 0 /\ Len(candidates) > MinOpen[mode]

GateIsOpen(candidates) == left > 0 /\ Len(candidates) >= MinOpen[mode]

\* Mutant of GateOpens: the newest of the deepest goes first.
GateOpensLast ==
  /\ pc = "gate" /\ pc' = "design"
  /\ LET candidates == Candidates(mem.notes, Window) IN
       GateIsOpen(candidates) /\ picked' = candidates[Len(candidates)]
  /\ UNCHANGED <<mem, mode, verdict, todo, files, counts, bounds, explored>>

GateOpens ==
  /\ pc = "gate" /\ pc' = "design"
  /\ LET candidates == Candidates(mem.notes, Window) IN
       GateIsOpen(candidates) /\ picked' = Head(candidates)
  /\ UNCHANGED <<mem, mode, verdict, todo, files, counts, bounds, explored>>

GateCloses ==
  /\ pc = "gate" /\ ~GateIsOpen(Candidates(mem.notes, Window))
  /\ pc' = IF mode = "life" THEN "dry" ELSE "propose"
  /\ picked' = Nobody /\ verdict' = "inconclusive"
  /\ UNCHANGED <<mem, mode, todo, files, counts, bounds, explored>>

\* The conjecture is recorded unless it is the fallback, the question itself.
Design ==
  /\ pc = "design" /\ pc' = "mark"
  /\ \/ Save([mem EXCEPT !.beliefs = Append(@, [of |-> picked.on, cred |-> 3])])
     \/ UNCHANGED <<mem, disk>>
  /\ UNCHANGED <<mode, picked, verdict, todo, sediment, digest, fresh, counts, bounds, explored>>

MarkTesting ==
  /\ pc = "mark" /\ pc' = "run"
  /\ Save([mem EXCEPT !.notes = SetStatus(@, picked.on, "testing")])
  /\ UNCHANGED <<mode, picked, verdict, todo, sediment, digest, fresh, counts, bounds, explored>>

\* Mutant of Reflected: the question is left to the director.
ReflectedSummary(m) == [m EXCEPT !.theories = Restate(@, picked.on, 10)]

\* The reflector marks the question resolved whatever the outcome and keeps the
\* run's summary as a theory of credibility 1.0.
Reflected(m) ==
  [m EXCEPT !.notes = SetStatus(@, picked.on, "resolved"),
            !.theories = Restate(@, picked.on, 10)]

\* agent.run(reflect=True, hypothesis=...) inside a batch.
Explore ==
  /\ pc = "run" /\ pc' = "flush"
  /\ explored' = [explored EXCEPT ![picked.on] = @ + 1]
  /\ IF HasReflector
     THEN /\ mem' = Reflected(mem)
          /\ fresh' = fresh \cup {c \in {picked.on} : mem.theories[c] = 0}
          /\ todo' \in Answers(Contradictions)
     ELSE todo' = << >> /\ UNCHANGED <<mem, fresh>>
  /\ UNCHANGED <<mode, picked, verdict, disk, sediment, digest, counts, bounds>>

Created(c) == {x \in {c} : /\ \A i \in DOMAIN mem.notes : mem.notes[i].on # x
                           /\ mem.theories[x] = 0}

\* The contradictions it found are noted before the batch ends.
AddContradiction ==
  /\ pc = "flush" /\ todo # << >>
  /\ mem' = [mem EXCEPT !.notes = Remember(@, Note(Head(todo), 0, None))]
  /\ fresh' = fresh \cup Created(Head(todo))
  /\ todo' = Tail(todo)
  /\ UNCHANGED <<pc, mode, picked, verdict, disk, sediment, digest, counts, bounds, explored>>

\* The batch ends: one save.
BatchEnds ==
  /\ pc = "flush" /\ todo = << >> /\ pc' = "judge"
  /\ disk' = mem
  /\ UNCHANGED <<mem, mode, picked, verdict, todo, sediment, digest, fresh, counts, bounds,
                 explored>>

Adjudicate(v) ==
  /\ pc = "judge" /\ pc' = "record"
  /\ verdict' = v
  /\ Save([mem EXCEPT !.beliefs = Moved(@, picked.on, v)])
  /\ UNCHANGED <<mode, picked, todo, sediment, digest, fresh, counts, bounds, explored>>

\* An exploration emits four events, five when sub-questions were added.
EndsRound(events) == left' = left - 1 /\ emitted' = emitted + events

\* add() of the record, which may merge into a similar one.
RecordExperiment ==
  /\ pc = "record"
  /\ \/ Save([mem EXCEPT !.trials = @ \cup {picked.on}])
     \/ mem.trials # {} /\ Save(mem)
  /\ IF verdict = "inconclusive" /\ picked.depth < MaxDepth
     THEN pc' = "split" /\ UNCHANGED <<left, emitted>>
     ELSE pc' = "gate" /\ EndsRound(4)
  /\ UNCHANGED <<mode, picked, verdict, todo, sediment, digest, fresh, rounds, dry, bounds,
                 explored>>

\* _decompose asks the brain: no usable sub-question, or some to add one by one.
SplitsNot ==
  /\ pc = "split" /\ pc' = "gate" /\ EndsRound(4)
  /\ UNCHANGED <<mem, mode, picked, verdict, todo, files, rounds, dry, bounds, explored>>

Splits(qs) ==
  /\ pc = "split" /\ qs # << >>
  /\ pc' = "subs" /\ todo' = qs
  /\ UNCHANGED <<mem, mode, picked, verdict, files, counts, bounds, explored>>

AddSubQuestion ==
  /\ pc = "subs" /\ todo # << >>
  /\ Save([mem EXCEPT !.notes = Remember(@, Note(Head(todo), picked.depth + 1, picked.on))])
  /\ todo' = Tail(todo)
  /\ UNCHANGED <<pc, mode, picked, verdict, sediment, digest, fresh, counts, bounds, explored>>

Decomposed ==
  /\ pc = "subs" /\ todo = << >>
  /\ pc' = "gate" /\ EndsRound(5)
  /\ Save([mem EXCEPT !.notes = SetStatus(@, picked.on, "decomposed")])
  /\ UNCHANGED <<mode, picked, verdict, todo, sediment, digest, fresh, rounds, dry, bounds,
                 explored>>

-----------------------------------------------------------------------------
(* The rest of a turn of live().                                           *)

NothingOpen == Candidates(mem.notes, Window) = << >>

CycleEnds ==
  /\ pc = "dry"
  /\ rounds' = rounds + emitted \div 3
  /\ emitted' = 0 /\ left' = 0
  /\ IF NothingOpen THEN pc' = "wonder" /\ UNCHANGED dry ELSE pc' = "sleep" /\ dry' = 0
  /\ UNCHANGED <<mem, mode, picked, verdict, todo, files, bounds, explored>>

\* The streak counts answers without a question, not without a new one.
Wonder(qs) ==
  /\ pc = "wonder"
  /\ todo' = qs
  /\ dry' = IF qs = << >> THEN dry + 1 ELSE 0
  /\ pc' = IF dry' >= 3 THEN "finally" ELSE "sleep"
  /\ UNCHANGED <<mem, mode, picked, verdict, files, left, emitted, rounds, bounds, explored>>

DreamIsDue == rounds > 0 /\ rounds % RoundsBetweenDreams = 0

NoDream == pc = "sleep" /\ todo = << >> /\ ~DreamIsDue /\ Goto("check")

\* The lines of the answer, theories and questions in any order; the proposal made
\* at the end of a dream is only mentioned in an event.
Dream(lines) ==
  /\ pc = "sleep" /\ todo = << >> /\ DreamIsDue /\ pc' = "dream"
  /\ todo' = lines
  /\ UNCHANGED <<mem, mode, picked, verdict, files, counts, bounds, explored>>

\* What was wondered or dreamt is added one by one, a theory with credibility 0.6.
AddIdea ==
  /\ pc \in {"sleep", "dream"} /\ todo # << >>
  /\ todo' = Tail(todo)
  /\ LET c == Head(todo) IN
       IF c \in Claims
       THEN /\ Save([mem EXCEPT !.theories = Restate(@, c, 6)])
            /\ fresh' = fresh \cup Created(c)
       ELSE /\ Save([mem EXCEPT !.notes = Remember(@, Note(c, 0, None))])
            /\ UNCHANGED fresh
  /\ UNCHANGED <<pc, mode, picked, verdict, sediment, digest, counts, bounds, explored>>

\* knowledge.md: conjectures and dreamt theories; summaries of runs are left out.
Settled == {[of |-> mem.beliefs[i].of, cred |-> mem.beliefs[i].cred] : i \in DOMAIN mem.beliefs}
             \cup {[of |-> c, cred |-> mem.theories[c]] : c \in {x \in Claims : mem.theories[x] > 0}}

Project == knowledge' = Settled /\ curiosity' = Candidates(mem.notes, SedimentWindow)

\* Mutant of WriteSediment: only dreams write it.
WriteSedimentAfterDream ==
  /\ \/ pc = "dream" /\ todo = << >> /\ pc' = "check" /\ Project /\ UNCHANGED <<picked, verdict, todo, counts>>
     \/ pc = "finally" /\ pc' = "over" /\ Gone /\ UNCHANGED sediment
  /\ UNCHANGED <<mem, mode, disk, digest, fresh, bounds, explored>>

\* write_sediment, after a dream and in the `finally' of live().
WriteSediment ==
  /\ Project
  /\ \/ pc = "dream" /\ todo = << >> /\ pc' = "check"
        /\ UNCHANGED <<picked, verdict, todo, counts>>
     \/ pc = "finally" /\ pc' = "over" /\ Gone
  /\ UNCHANGED <<mem, mode, disk, digest, fresh, bounds, explored>>

-----------------------------------------------------------------------------
(* SoulChannel, and the end of --auto-evolve.                              *)

StableTheories == {c \in Subjects \cup Claims : mem.theories[c] >= 8 /\ c \notin fresh}

\* No contradiction for a day.  A day and a week are one span here: a contradiction
\* between one and seven days old, which the code would pass, keeps it from proposing.
Quiet == \A i \in DOMAIN mem.notes :
           mem.notes[i].on \in Contradictions => mem.notes[i].on \notin fresh

Proposes == /\ Cardinality(StableTheories) >= MinTheories
            /\ Quiet
            /\ StableTheories # digest

\* propose() then apply(approve=--allow-soul-edit).
ProposeSoul(approve) ==
  /\ pc = "propose" /\ pc' = "off" /\ Gone
  /\ digest' = IF Proposes /\ approve THEN StableTheories ELSE digest
  /\ UNCHANGED <<mem, mode, disk, sediment, fresh, bounds, explored>>

-----------------------------------------------------------------------------
(* What comes from outside.                                                *)

Running == pc \notin {"off", "over"}

\* KeyboardInterrupt, or an exception that leaves the loop: a batch saves, live()
\* goes to its `finally'.  The seeding is before the try; so is all of a cycle
\* that --auto-evolve runs.
Interrupt ==
  /\ Running /\ pc # "finally" /\ stops < MaxStops
  /\ disk' = mem
  /\ pc' = IF mode = "life" /\ pc # "seed" THEN "finally" ELSE "off"
  /\ stops' = stops + 1
  /\ Gone
  /\ UNCHANGED <<mem, mode, sediment, digest, fresh, commands, explored>>

Kill ==
  /\ Running /\ stops < MaxStops
  /\ pc' = "off" /\ mem' = disk
  /\ stops' = stops + 1
  /\ Gone
  /\ UNCHANGED <<mode, files, commands, explored>>

\* Between two commands a week may pass.
WeekPasses ==
  /\ ~Running /\ fresh # {}
  /\ fresh' = {}
  /\ UNCHANGED <<mem, pc, mode, picked, verdict, todo, disk, sediment, digest, counts, bounds,
                 explored>>

Init ==
  /\ mem = Empty /\ disk = Empty
  /\ pc = "off" /\ mode = "life"
  /\ picked = Nobody /\ verdict = "inconclusive" /\ todo = << >>
  /\ left = 0 /\ emitted = 0 /\ rounds = 0 /\ dry = 0
  /\ knowledge = {} /\ curiosity = << >> /\ digest = {} /\ fresh = {}
  /\ stops = 0 /\ commands = 0
  /\ explored = [c \in Subjects |-> 0]

\* A step of the command that has begun, stop_check() saying nothing.
Advance ==
  \/ SeedNext \/ Seeded \/ CycleBegins
  \/ GateOpens \/ GateCloses \/ Design \/ MarkTesting \/ Explore \/ AddContradiction \/ BatchEnds
  \/ \E v \in Verdicts : Adjudicate(v)
  \/ RecordExperiment \/ SplitsNot
  \/ \E qs \in Answers(Questions) : Splits(qs) \/ Wonder(qs)
  \/ AddSubQuestion \/ Decomposed
  \/ CycleEnds \/ NoDream
  \/ \E lines \in Answers(Questions \cup Claims) : Dream(lines)
  \/ AddIdea
  \/ WriteSediment
  \/ \E approve \in BOOLEAN : ProposeSoul(approve)

Next ==
  \/ \E m \in Modes : Begin(m)
  \/ Advance
  \/ StopCheck \/ Interrupt \/ Kill \/ WeekPasses

Spec == Init /\ [][Next]_vars

\* The director asks the brain within a wall clock (_ask_brain, 240 s), so a command that
\* is not stopped goes on, but for the run of an exploration: think_timeout may be None
\* (cli.py:279-281), and a run may go on for ever.
FairSpec == Spec /\ WF_vars(Advance /\ pc # "run")
-----------------------------------------------------------------------------
(* Properties.                                                             *)

NoteType == [on : Subjects, depth : Nat, parent : Subjects \cup {None}, status : Statuses]

MemoryType == [notes : Seq(NoteType), beliefs : Seq([of : Subjects, cred : 0 .. 10]),
               trials : SUBSET Subjects, theories : [Subjects \cup Claims -> 0 .. 10]]

\* The variables have their types; memory holds no content twice and differs from
\* its file only inside a batch.
TypeOK ==
  /\ {mem, disk} \subseteq MemoryType
  /\ \A i, j \in DOMAIN mem.notes : mem.notes[i].on = mem.notes[j].on => i = j
  /\ mem # disk => pc = "flush"
  /\ pc \in Steps /\ mode \in Modes
  /\ picked \in NoteType \cup {Nobody} /\ picked.status = "open" /\ verdict \in Verdicts
  /\ todo \in Seq(Subjects \cup Claims)
  /\ {left, emitted, rounds, dry, stops, commands} \subseteq Nat
  /\ curiosity \in Seq(NoteType)
  /\ knowledge \subseteq [of : Subjects \cup Claims, cred : 0 .. 10]
  /\ digest \subseteq Subjects \cup Claims /\ fresh \subseteq Subjects \cup Claims
  /\ explored \in [Subjects -> Nat]

\* No question is explored twice, in one life or in several, whatever is killed
\* or interrupted: the status is on disk before the run (cycle, _set_status) and
\* a question that comes up again is merged, not reopened (add).
ExploredOnce == \A c \in Subjects : explored[c] <= 1

\* Sub-questions form a forest of depth at most max_depth though they are merged
\* with what memory holds: a parent is older than its children and one level up.
TreeSound ==
  \A i \in DOMAIN mem.notes :
    LET n == mem.notes[i] IN
    /\ n.depth <= MaxDepth
    /\ IF n.parent = None THEN n.depth = 0
       ELSE \E j \in 1 .. i - 1 : /\ mem.notes[j].on = n.parent
                                 /\ mem.notes[j].depth = n.depth - 1

\* When a life ends by itself, by stop_check or by an interrupt, its two views are
\* those of the file of its memory, which the next life will read: curiosity.md lists
\* what that life will schedule, in its order, and knowledge.md the conjectures as the
\* last verdict left them (write_sediment against open_candidates, _update_conjecture).
SedimentIsCurrent ==
  pc = "over" =>
    /\ curiosity = Candidates(disk.notes, Window)
    /\ \A i \in DOMAIN disk.beliefs : disk.beliefs[i] \in knowledge
    /\ \A k \in knowledge : k.of \in Claims => k.cred = disk.theories[k.of]

\* The digest states only theories that are in the file of the memory and credible
\* there, also when the command that held them was killed (propose, apply).
DigestIsRemembered == \A c \in digest : disk.theories[c] >= 8

\* No note is shut while an elder of its kind, as high and within reach, is open.
EldersFirst(notes) ==
  \A kind \in {Questions, Contradictions} : \A i \in Latest(notes, kind, Window) :
    notes[i].status = "open" =>
      \A j \in i + 1 .. Len(notes) :
        notes[j].on \in kind /\ notes[j].depth >= notes[i].depth => notes[j].status = "open"

\* Whatever a life adds or is told, the oldest goes first: no note is explored before an
\* older one of its kind and of the same level or above that is open and within reach of
\* the window, in one life or in several (open_candidates against add and _set_status).
OldestFirst == EldersFirst(mem.notes)

\* While a life runs and something is open within reach, it comes to explore: neither the
\* gate nor wonders, dreams and dry rounds keep it from that for ever.  For one question
\* this says no more than OldestFirst: those before it may go on to come.
OpenIsExplored == (mode = "life" /\ Running /\ ~NothingOpen) ~> (pc = "run" \/ ~Running)

\* A question whose run has ended is concluded, resolved or decomposed in the file when
\* the next is looked for, unless the command ends before.
PickedIsConcluded ==
  (pc = "flush")
    ~> (~Running \/ (/\ pc = "gate"
                     /\ \E i \in DOMAIN disk.notes :
                          /\ disk.notes[i].on = picked.on
                          /\ disk.notes[i].status \in {"resolved", "decomposed"}))

\* evolution.py:725-726: "memory persists at every run boundary, so an interrupted
\* life loses nothing".  A question being tested belongs to a command that runs.
NothingIsLost ==
  ~Running => \A i \in DOMAIN disk.notes : disk.notes[i].status # "testing"

\* evolution.py:15: "every exploration run lands in memory as a kind="experiment"
\* record".
ResolvedHasTrial ==
  ~Running => \A i \in DOMAIN disk.notes :
    disk.notes[i].status = "resolved" => disk.notes[i].on \in disk.trials
=============================================================================
