--------------------------- MODULE EvolutionProofs ---------------------------
(***************************************************************************)
(* Theorems about Evolution, for any questions, answers, depths, windows   *)
(* and numbers of commands, interrupts and kills.                          *)
(***************************************************************************)
EXTENDS Evolution, SubsequencesProofs

-----------------------------------------------------------------------------
(* What open_candidates() returns.                                         *)

OpenOnes(notes) == {n \in Range(notes) : n.status = "open"}

Layer(notes, limit, g, k) ==
  IF k = 0 THEN << >>
  ELSE g[k - 1] \o Only(notes, OpenAt(k - 1, notes, Contradictions, limit))
                \o Only(notes, OpenAt(k - 1, notes, Questions, limit))

\* The function that OpenBelow stands for exists.
LEMMA BelowIs ==
  ASSUME NEW notes, NEW limit
  PROVE  OpenBelow(notes, limit)
           = [k \in 0 .. MaxDepth + 1 |-> Layer(notes, limit, OpenBelow(notes, limit), k)]
<1> DEFINE L == MaxDepth + 1
           Good(g, k) == g = [n \in 0 .. k |-> Layer(notes, limit, g, n)]
           N == {k \in 0 .. L : \E g : Good(g, k)}
<1>0. L \in Nat
  BY EvolutionAssumption
<1>1. 0 \in N
  <2>1. Good([n \in 0 .. 0 |-> << >>], 0)
    BY DEF Layer
  <2>2. 0 \in 0 .. L
    BY <1>0
  <2>3. QED
    BY <2>1, <2>2
<1>2. ASSUME NEW k \in 0 .. L, k \in N, k < L PROVE k + 1 \in N
  <2>1. PICK g : Good(g, k)
    BY <1>2
  <2> DEFINE h == [n \in 0 .. k + 1 |-> IF n = k + 1 THEN Layer(notes, limit, g, k + 1) ELSE g[n]]
  <2>2. \A n \in 0 .. k : h[n] = g[n] /\ g[n] = Layer(notes, limit, g, n)
    BY <2>1
  <2>3. \A n \in 0 .. k + 1 : n # 0 => n - 1 \in 0 .. k
    OBVIOUS
  <2>4. h[k + 1] = Layer(notes, limit, g, k + 1)
    OBVIOUS
  <2>5. h = [n \in 0 .. k + 1 |-> h[n]]
    OBVIOUS
  <2> HIDE DEF h
  <2>6. \A n \in 0 .. k + 1 : Layer(notes, limit, h, n) = Layer(notes, limit, g, n)
    BY <2>2, <2>3 DEF Layer
  <2>7. \A n \in 0 .. k + 1 : h[n] = Layer(notes, limit, h, n)
    BY <2>2, <2>4, <2>6
  <2>8. Good(h, k + 1)
    BY <2>5, <2>7
  <2>9. k + 1 \in 0 .. L
    BY <1>0, <1>2
  <2>10. QED
    BY <2>8, <2>9
<1>3. \E g : Good(g, L)
  <2>1. L \in N
    <3> HIDE DEF N, L
    <3>1. \A n \in 0 .. L : n \in N
      BY <1>0, <1>1, <1>2, Induct
    <3>2. QED
      BY <1>0, <3>1
  <2>2. QED
    BY <2>1
<1>4. OpenBelow(notes, limit) = CHOOSE g : Good(g, L)
  BY DEF OpenBelow, Layer
<1>5. Good(OpenBelow(notes, limit), L)
  <2> HIDE DEF Good
  <2> QED
    BY <1>3, <1>4
<1>6. QED
  BY <1>5

\* Its value at each number, without the recursion.
LEMMA BelowSteps ==
  ASSUME NEW notes, NEW limit
  PROVE  /\ MaxDepth + 1 \in Nat /\ OpenBelow(notes, limit)[0] = << >>
         /\ \A k \in 0 .. MaxDepth + 1 : k < MaxDepth + 1 =>
              OpenBelow(notes, limit)[k + 1]
                = OpenBelow(notes, limit)[k]
                    \o Only(notes, OpenAt(k, notes, Contradictions, limit))
                    \o Only(notes, OpenAt(k, notes, Questions, limit))
<1> DEFINE L == MaxDepth + 1
           f == OpenBelow(notes, limit)
<1>1. L \in Nat
  BY EvolutionAssumption
<1>2. f = [k \in 0 .. L |-> Layer(notes, limit, f, k)]
  BY BelowIs
<1> HIDE DEF f, L
<1>3. \A k \in 0 .. L : f[k] = Layer(notes, limit, f, k)
  BY <1>2
<1>4. f[0] = << >>
  BY <1>1, <1>3 DEF Layer
<1>5. ASSUME NEW k \in 0 .. L, k < L
      PROVE  f[k + 1] = f[k] \o Only(notes, OpenAt(k, notes, Contradictions, limit))
                             \o Only(notes, OpenAt(k, notes, Questions, limit))
  <2>1. k + 1 \in 0 .. L /\ k + 1 # 0 /\ (k + 1) - 1 = k
    BY <1>1, <1>5
  <2>2. QED
    BY <1>3, <2>1 DEF Layer
<1>6. QED
  BY <1>1, <1>4, <1>5 DEF f, L

\* A sequence belongs to every set that holds its elements.
LEMMA Narrow ==
  ASSUME NEW T, NEW A, NEW s \in Seq(A), Range(s) \subseteq T
  PROVE  s \in Seq(T)
<1>1. Len(s) \in Nat /\ s = [i \in 1 .. Len(s) |-> s[i]] /\ DOMAIN s = 1 .. Len(s)
  OBVIOUS
<1>2. \A i \in 1 .. Len(s) : s[i] \in T
  BY <1>1 DEF Range
<1>3. s \in [1 .. Len(s) -> T]
  BY <1>1, <1>2
<1>4. QED
  BY <1>1, <1>3

LEMMA Joined ==
  ASSUME NEW T, NEW a \in Seq(T), NEW b \in Seq(T), NEW c \in Seq(T)
  PROVE  a \o b \o c \in Seq(T)
OBVIOUS

\* Only open notes of memory are candidates (open_candidates).
LEMMA CandidatesAreOpen ==
  ASSUME NEW notes \in Seq(NoteType), NEW limit
  PROVE  Candidates(notes, limit) \in Seq(OpenOnes(notes))
<1> DEFINE T == OpenOnes(notes)
           L == MaxDepth + 1
           f == OpenBelow(notes, limit)
           N == {k \in 0 .. L : f[k] \in Seq(T)}
<1>1. L \in Nat /\ f[0] = << >>
  BY BelowSteps
<1>2. ASSUME NEW d, NEW kind PROVE Only(notes, OpenAt(d, notes, kind, limit)) \in Seq(T)
  <2> DEFINE s == Only(notes, OpenAt(d, notes, kind, limit))
  <2>1. s \in Seq(NoteType) /\ Range(s) = Range(notes) \cap OpenAt(d, notes, kind, limit)
    BY OnlyRange
  <2>2. Range(s) \subseteq T
    BY <2>1 DEF OpenAt, OpenOnes
  <2> HIDE DEF s, T
  <2>3. s \in Seq(T)
    BY <2>1, <2>2, Narrow
  <2>4. QED
    BY <2>3 DEF s
<1>3. 0 \in N
  <2>1. \A q : q = << >> => q \in Seq(T)
    OBVIOUS
  <2>2. f[0] \in Seq(T) /\ 0 \in 0 .. L
    BY <1>1, <2>1
  <2>3. QED
    BY <2>2
<1>4. ASSUME NEW k \in 0 .. L, k \in N, k < L PROVE k + 1 \in N
  <2> DEFINE a == Only(notes, OpenAt(k, notes, Contradictions, limit))
             b == Only(notes, OpenAt(k, notes, Questions, limit))
  <2>1. f[k + 1] = f[k] \o a \o b
    BY <1>4, BelowSteps
  <2>2. f[k] \in Seq(T) /\ a \in Seq(T) /\ b \in Seq(T)
    BY <1>2, <1>4
  <2>3. k + 1 \in 0 .. L
    BY <1>1, <1>4
  <2> HIDE DEF a, b, T, f, L
  <2>4. f[k] \o a \o b \in Seq(T)
    BY <2>2, Joined
  <2>5. QED
    BY <2>1, <2>3, <2>4
<1>5. L \in N
  <2> HIDE DEF N, L
  <2>1. \A n \in 0 .. L : n \in N
    BY <1>1, <1>3, <1>4, Induct
  <2>2. QED
    BY <1>1, <2>1
<1>6. QED
  BY <1>5 DEF Candidates

\* A sequence of distinct elements is not longer than a set that holds them.
LEMMA Pigeons ==
  ASSUME NEW S, IsFiniteSet(S), NEW l \in Nat, NEW f \in [1 .. l -> S],
         \A i, j \in 1 .. l : f[i] = f[j] => i = j
  PROVE  l <= Cardinality(S)
<1>1. f \in Injection(1 .. l, S)
  BY DEF Injection, IsInjective
<1>2. Cardinality(1 .. l) <= Cardinality(S)
  BY <1>1, FS_Injection
<1>3. Cardinality(1 .. l) = l
  BY FS_Interval
<1>4. QED
  BY <1>2, <1>3

\* A window that is as long as memory leaves out nothing (MemoryStore.query).
LEMMA LatestIsAll ==
  ASSUME NEW notes \in Seq(NoteType), NEW kind, NEW limit \in Nat, Len(notes) <= limit
  PROVE  Latest(notes, kind, limit) = {i \in DOMAIN notes : notes[i].on \in kind}
<1> DEFINE After(i) == {j \in DOMAIN notes : j > i /\ notes[j].on \in kind}
<1>1. SUFFICES ASSUME NEW i \in DOMAIN notes PROVE Cardinality(After(i)) < limit
  BY DEF Latest
<1>2. DOMAIN notes = 1 .. Len(notes) /\ Len(notes) \in Nat
  OBVIOUS
<1>3. IsFiniteSet(i + 1 .. Len(notes)) /\ Cardinality(i + 1 .. Len(notes)) = Len(notes) - i
  <2>1. i \in Int /\ i <= Len(notes) /\ i + 1 \in Int /\ Len(notes) \in Int
    BY <1>2
  <2>2. /\ IsFiniteSet(i + 1 .. Len(notes))
        /\ Cardinality(i + 1 .. Len(notes)) = IF i + 1 > Len(notes) THEN 0 ELSE Len(notes) - (i + 1) + 1
    BY <2>1, FS_Interval
  <2>3. QED
    BY <2>1, <2>2
<1>4. After(i) \in SUBSET (i + 1 .. Len(notes))
  BY <1>2
<1>5. Cardinality(After(i)) <= Len(notes) - i /\ Cardinality(After(i)) \in Nat
  <2> HIDE DEF After
  <2>1. IsFiniteSet(After(i)) /\ Cardinality(After(i)) <= Cardinality(i + 1 .. Len(notes))
    BY <1>3, <1>4, FS_Subset
  <2>2. QED
    BY <1>3, <2>1, FS_CardinalityType
<1>6. QED
  BY <1>2, <1>5

\* Two windows that are both as long as memory give the same candidates.
LEMMA NothingCut ==
  ASSUME NEW notes \in Seq(NoteType), NEW a \in Nat, NEW b \in Nat,
         Len(notes) <= a, Len(notes) <= b
  PROVE  Candidates(notes, a) = Candidates(notes, b)
<1> DEFINE L == MaxDepth + 1
           f == OpenBelow(notes, a)
           g == OpenBelow(notes, b)
           N == {k \in 0 .. L : f[k] = g[k]}
<1>1. \A d, kind : OpenAt(d, notes, kind, a) = OpenAt(d, notes, kind, b)
  <2>1. \A kind : Latest(notes, kind, a) = Latest(notes, kind, b)
    BY LatestIsAll
  <2>2. QED
    BY <2>1 DEF OpenAt
<1>2. L \in Nat /\ f[0] = << >> /\ g[0] = << >>
  BY BelowSteps
<1>3. 0 \in N
  BY <1>2
<1>4. ASSUME NEW k \in 0 .. L, k \in N, k < L PROVE k + 1 \in N
  <2>1. f[k + 1] = f[k] \o Only(notes, OpenAt(k, notes, Contradictions, a))
                        \o Only(notes, OpenAt(k, notes, Questions, a))
    BY <1>4, BelowSteps
  <2>2. g[k + 1] = g[k] \o Only(notes, OpenAt(k, notes, Contradictions, b))
                        \o Only(notes, OpenAt(k, notes, Questions, b))
    BY <1>4, BelowSteps
  <2>3. f[k] = g[k] /\ k + 1 \in 0 .. L
    BY <1>2, <1>4
  <2> HIDE DEF f, g, L
  <2>4. f[k + 1] = g[k + 1]
    BY <1>1, <2>1, <2>2, <2>3
  <2>5. QED
    BY <2>3, <2>4
<1>5. L \in N
  <2> HIDE DEF N, L
  <2>1. \A n \in 0 .. L : n \in N
    BY <1>2, <1>3, <1>4, Induct
  <2>2. QED
    BY <1>2, <2>1
<1>6. QED
  BY <1>5 DEF Candidates

-----------------------------------------------------------------------------
(* What happens to the notes and to the rest of memory.                    *)

Distinct(notes) == \A i, j \in DOMAIN notes : notes[i].on = notes[j].on => i = j

\* n hangs in the tree that the first k notes make.
Hangs(n, notes, k) ==
  /\ n.depth <= MaxDepth
  /\ IF n.parent = None THEN n.depth = 0
     ELSE \E j \in 1 .. k : notes[j].on = n.parent /\ notes[j].depth = n.depth - 1

Sane(notes) ==
  /\ notes \in Seq(NoteType)
  /\ Distinct(notes)
  /\ \A i \in DOMAIN notes : Hangs(notes[i], notes, i - 1)

\* No note goes, changes what it says, or is opened again.
Grows(old, new) ==
  /\ Sane(new)
  /\ \A i \in DOMAIN old :
       /\ i \in DOMAIN new
       /\ new[i].on = old[i].on /\ new[i].depth = old[i].depth
       /\ old[i].status # "open" => new[i].status # "open"

Shut(notes, c) == \E i \in DOMAIN notes : notes[i].on = c /\ notes[i].status # "open"
Known(notes, n) == \E i \in DOMAIN notes : notes[i].on = n.on /\ notes[i].depth = n.depth

\* What grows twice has grown.
LEMMA GrowsOn ==
  ASSUME NEW a, NEW b, NEW c, Grows(a, b), Grows(b, c)
  PROVE  Grows(a, c)
BY DEF Grows

\* What is known stays known, and what is shut stays shut.
LEMMA GrowsKeeps ==
  ASSUME NEW a, NEW b, Grows(a, b)
  PROVE  /\ \A c : Shut(a, c) => Shut(b, c)
         /\ \A n : Known(a, n) => Known(b, n)
BY DEF Grows, Shut, Known

\* Adding a note keeps those there are, and a tree (MemoryStore.add).
LEMMA RememberGrows ==
  ASSUME NEW notes, Sane(notes), NEW n \in NoteType, Hangs(n, notes, Len(notes))
  PROVE  Grows(notes, Remember(notes, n))
<1>1. /\ notes \in Seq(NoteType) /\ Len(notes) \in Nat /\ DOMAIN notes = 1 .. Len(notes)
      /\ \A i \in 1 .. Len(notes) : notes[i] \in NoteType
  BY DEF Sane
<1>2. CASE \E i \in DOMAIN notes : notes[i].on = n.on
  BY <1>2 DEF Remember, Grows
<1>3. CASE ~\E i \in DOMAIN notes : notes[i].on = n.on
  <2> DEFINE r == Append(notes, n)
             l == Len(notes)
  <2>1. /\ r \in Seq(NoteType) /\ DOMAIN r = 1 .. l + 1 /\ 1 .. l + 1 = 1 .. l \cup {l + 1}
        /\ \A i \in 1 .. l : r[i] = notes[i]
        /\ r[l + 1] = n
    BY <1>1
  <2>2. Remember(notes, n) = r
    BY <1>3 DEF Remember
  <2> HIDE DEF r
  <2>3. Distinct(r)
    BY <1>1, <1>3, <2>1 DEF Distinct, Sane
  <2>4. ASSUME NEW k \in 0 .. l, NEW m, Hangs(m, notes, k) PROVE Hangs(m, r, k)
    <3>1. \A j \in 1 .. k : j \in 1 .. l
      BY <1>1
    <3>2. \A j \in 1 .. k : r[j] = notes[j]
      BY <2>1, <3>1
    <3>3. QED
      BY <2>4, <3>2 DEF Hangs
  <2>5. ASSUME NEW i \in DOMAIN r PROVE Hangs(r[i], r, i - 1)
    <3>1. CASE i \in 1 .. l
      <4>1. Hangs(notes[i], notes, i - 1) /\ i - 1 \in 0 .. l /\ r[i] = notes[i]
        BY <1>1, <2>1, <3>1 DEF Sane
      <4>2. QED
        BY <2>4, <4>1
    <3>2. CASE i = l + 1
      <4>1. i - 1 = l /\ l \in 0 .. l /\ r[i] = n
        BY <1>1, <2>1, <3>2
      <4>2. QED
        BY <2>4, <4>1
    <3>3. QED
      BY <2>1, <2>5, <3>1, <3>2
  <2>6. Sane(r)
    BY <2>1, <2>3, <2>5 DEF Sane
  <2>7. QED
    BY <1>1, <2>1, <2>2, <2>6 DEF Grows
<1>4. QED
  BY <1>2, <1>3

\* A status that is not open closes the note (_set_status).
LEMMA SetStatusGrows ==
  ASSUME NEW notes, Sane(notes), NEW c, NEW status \in Statuses \ {"open"}
  PROVE  /\ Grows(notes, SetStatus(notes, c, status))
         /\ (\E i \in DOMAIN notes : notes[i].on = c) => Shut(SetStatus(notes, c, status), c)
<1> DEFINE r == SetStatus(notes, c, status)
<1>1. /\ notes \in Seq(NoteType) /\ Len(notes) \in Nat /\ DOMAIN notes = 1 .. Len(notes)
      /\ \A i \in 1 .. Len(notes) : notes[i] \in NoteType
  BY DEF Sane
<1>2. r = [i \in 1 .. Len(notes) |->
             IF notes[i].on = c THEN [notes[i] EXCEPT !.status = status] ELSE notes[i]]
  BY <1>1 DEF SetStatus
<1>3. \A n \in NoteType : /\ [n EXCEPT !.status = status] \in NoteType
                          /\ [n EXCEPT !.status = status].on = n.on
                          /\ [n EXCEPT !.status = status].depth = n.depth
                          /\ [n EXCEPT !.status = status].parent = n.parent
                          /\ [n EXCEPT !.status = status].status = status
  BY DEF NoteType
<1> HIDE DEF r
<1>4. \A i \in 1 .. Len(notes) :
        /\ r[i] \in NoteType /\ r[i].on = notes[i].on
        /\ r[i].depth = notes[i].depth /\ r[i].parent = notes[i].parent
        /\ r[i].status = IF notes[i].on = c THEN status ELSE notes[i].status
  BY <1>1, <1>2, <1>3
<1>5. r \in Seq(NoteType) /\ DOMAIN r = 1 .. Len(notes)
  <2>1. r \in [1 .. Len(notes) -> NoteType]
    BY <1>2, <1>4
  <2>2. QED
    BY <1>1, <2>1
<1>6. Distinct(r)
  BY <1>1, <1>4, <1>5 DEF Distinct, Sane
<1>7. ASSUME NEW i \in DOMAIN r PROVE Hangs(r[i], r, i - 1)
  <2>1. Hangs(notes[i], notes, i - 1)
    BY <1>1, <1>5 DEF Sane
  <2>2. \A j \in 1 .. i - 1 : j \in 1 .. Len(notes)
    BY <1>1, <1>5
  <2>3. QED
    BY <1>4, <1>5, <2>1, <2>2 DEF Hangs
<1>8. Sane(r)
  BY <1>5, <1>6, <1>7 DEF Sane
<1>9. Grows(notes, r)
  BY <1>1, <1>4, <1>5, <1>8 DEF Grows
<1>10. (\E i \in DOMAIN notes : notes[i].on = c) => Shut(r, c)
  BY <1>1, <1>4, <1>5 DEF Shut
<1>11. QED
  BY <1>9, <1>10 DEF r

\* A restatement corroborates a theory and never weakens one (MemoryStore.add).
LEMMA RestateRises ==
  ASSUME NEW t \in [Subjects \cup Claims -> 0 .. 10], NEW c \in Subjects \cup Claims,
         NEW credibility \in 0 .. 10
  PROVE  /\ Restate(t, c, credibility) \in [Subjects \cup Claims -> 0 .. 10]
         /\ \A x \in Subjects \cup Claims : t[x] <= Restate(t, c, credibility)[x]
BY DEF Restate

\* A verdict keeps a credibility between 0 and 1 (_update_conjecture).
LEMMA MovedType ==
  ASSUME NEW beliefs \in Seq([of : Subjects, cred : 0 .. 10]), NEW c, NEW v
  PROVE  Moved(beliefs, c, v) \in Seq([of : Subjects, cred : 0 .. 10])
<1> DEFINE B == [of : Subjects, cred : 0 .. 10]
           New(b) == IF b.of # c THEN b
                     ELSE [b EXCEPT !.cred = CASE v = "supported" -> IF @ < 8 THEN @ + 2 ELSE 10
                                               [] v = "refuted" -> IF @ > 3 THEN @ - 3 ELSE 0
                                               [] OTHER -> @]
<1>1. Len(beliefs) \in Nat /\ DOMAIN beliefs = 1 .. Len(beliefs)
  OBVIOUS
<1>2. Moved(beliefs, c, v) = [i \in 1 .. Len(beliefs) |-> New(beliefs[i])]
  BY <1>1 DEF Moved
<1>3. \A b \in B : New(b) \in B
  <2> SUFFICES ASSUME NEW b \in B PROVE New(b) \in B
    OBVIOUS
  <2>1. b.cred \in 0 .. 10 /\ b.of \in Subjects
    OBVIOUS
  <2>2. \A x \in 0 .. 10 : [b EXCEPT !.cred = x] \in B
    OBVIOUS
  <2> DEFINE x == CASE v = "supported" -> IF b.cred < 8 THEN b.cred + 2 ELSE 10
                    [] v = "refuted" -> IF b.cred > 3 THEN b.cred - 3 ELSE 0
                    [] OTHER -> b.cred
  <2>3. x \in 0 .. 10
    BY <2>1
  <2>4. New(b) = IF b.of # c THEN b ELSE [b EXCEPT !.cred = x]
    OBVIOUS
  <2> HIDE DEF x, New, B
  <2>5. QED
    BY <2>2, <2>3, <2>4
<1>0. beliefs \in Seq(B)
  OBVIOUS
<1> HIDE DEF New, B
<1>4. \A i \in 1 .. Len(beliefs) : beliefs[i] \in B
  BY <1>0
<1>5. [i \in 1 .. Len(beliefs) |-> New(beliefs[i])] \in [1 .. Len(beliefs) -> B]
  BY <1>3, <1>4
<1>6. [i \in 1 .. Len(beliefs) |-> New(beliefs[i])] \in Seq(B)
  BY <1>1, <1>5
<1>7. QED
  BY <1>2, <1>6 DEF B

-----------------------------------------------------------------------------
(* The inductive invariant.                                                *)

Working == {"design", "mark", "run", "flush", "judge", "record", "split", "subs"}

\* Both memories are sane, and what the process has grew from the file.
Memories ==
  /\ Sane(mem.notes) /\ Sane(disk.notes) /\ Grows(disk.notes, mem.notes)
  /\ \A c \in Subjects \cup Claims : disk.theories[c] <= mem.theories[c]

\* Memory has the note that is worked on, and its sub-questions fit below it.
Busy ==
  /\ pc \in Working => Known(mem.notes, picked) /\ left > 0
  /\ pc \in {"split", "subs"} => picked.depth < MaxDepth
  /\ pc \in {"seed", "subs"} => todo \in Seq(Questions)
  /\ pc = "flush" => todo \in Seq(Contradictions)

\* What was explored is shut in both memories; what is about to be explored was not.
Tried ==
  /\ \A c \in Subjects : explored[c] > 0 =>
       explored[c] = 1 /\ Shut(mem.notes, c) /\ Shut(disk.notes, c)
  /\ pc \in {"design", "mark", "run"} => explored[picked.on] = 0
  /\ pc = "run" => Shut(mem.notes, picked.on)

Inv == TypeOK /\ Memories /\ Busy /\ Tried /\ DigestIsRemembered

\* Memory m may become n by what the command adds or changes.
Better(m, n) ==
  /\ n \in MemoryType
  /\ Grows(m.notes, n.notes)
  /\ \A c \in Subjects \cup Claims : m.theories[c] <= n.theories[c]

\* How a step changes the memory and its file: not at all; a batch is saved; a
\* command finds or a kill leaves the file; a change is saved; a run changes memory.
Moves ==
  \/ mem' = mem /\ disk' = disk /\ (pc = "flush" => pc' = pc)
  \/ mem' = mem /\ disk' = mem
  \/ mem' = disk /\ disk' = disk /\ pc' \notin Working
  \/ Better(mem, mem') /\ disk' = mem'
  \/ Better(mem, mem') /\ disk' = disk /\ pc \in {"run", "flush"} /\ pc' = "flush"

-----------------------------------------------------------------------------
(* Memory in a step.                                                       *)

\* The credibility of a theory is a number.
LEMMA TheoriesType ==
  ASSUME NEW m \in MemoryType
  PROVE  /\ m.theories \in [Subjects \cup Claims -> 0 .. 10]
         /\ \A c \in Subjects \cup Claims : m.theories[c] \in Nat /\ m.theories[c] <= m.theories[c]
<1>1. m.theories \in [Subjects \cup Claims -> 0 .. 10]
  BY DEF MemoryType
<1>2. \A c \in Subjects \cup Claims : m.theories[c] \in 0 .. 10
  BY <1>1
<1>3. \A x \in 0 .. 10 : x \in Nat /\ x <= x
  OBVIOUS
<1>4. QED
  BY <1>1, <1>2, <1>3

\* A memory whose notes have grown is better.
LEMMA NotesBetter ==
  ASSUME NEW m \in MemoryType, NEW notes, Grows(m.notes, notes)
  PROVE  Better(m, [m EXCEPT !.notes = notes])
<1> DEFINE n == [m EXCEPT !.notes = notes]
<1>1. notes \in Seq(NoteType)
  BY DEF Grows, Sane
<1>2. n.notes = notes /\ n.theories = m.theories /\ n \in MemoryType
  BY <1>1 DEF MemoryType
<1>3. \A c \in Subjects \cup Claims : m.theories[c] <= m.theories[c]
  BY TheoriesType
<1> HIDE DEF n
<1>4. Better(m, n)
  BY <1>2, <1>3 DEF Better
<1>5. QED
  BY <1>4 DEF n

\* So is one whose theories are stronger.
LEMMA TheoriesBetter ==
  ASSUME NEW m \in MemoryType, Sane(m.notes),
         NEW t \in [Subjects \cup Claims -> 0 .. 10],
         \A c \in Subjects \cup Claims : m.theories[c] <= t[c]
  PROVE  Better(m, [m EXCEPT !.theories = t])
<1> DEFINE n == [m EXCEPT !.theories = t]
<1>1. n.notes = m.notes /\ n.theories = t /\ n \in MemoryType
  BY DEF MemoryType
<1>2. Grows(m.notes, m.notes)
  BY DEF Grows
<1> HIDE DEF n
<1>3. Better(m, n)
  BY <1>1, <1>2 DEF Better
<1>4. QED
  BY <1>3 DEF n

\* So is one with other conjectures and records.
LEMMA RestBetter ==
  ASSUME NEW m \in MemoryType, Sane(m.notes), NEW n \in MemoryType,
         n.notes = m.notes, n.theories = m.theories
  PROVE  Better(m, n)
<1>1. Grows(m.notes, m.notes)
  BY DEF Grows
<1>2. \A c \in Subjects \cup Claims : m.theories[c] <= m.theories[c]
  BY TheoriesType
<1>3. QED
  BY <1>1, <1>2 DEF Better

\* What is better than something better is better.
LEMMA BetterOn ==
  ASSUME NEW a \in MemoryType, NEW b \in MemoryType, NEW c, Better(a, b), Better(b, c)
  PROVE  Better(a, c)
<1>1. Grows(a.notes, c.notes) /\ c \in MemoryType
  BY GrowsOn DEF Better
<1>2. \A x \in Subjects \cup Claims : a.theories[x] <= c.theories[x]
  <2> SUFFICES ASSUME NEW x \in Subjects \cup Claims PROVE a.theories[x] <= c.theories[x]
    OBVIOUS
  <2>1. a.theories[x] \in Nat /\ b.theories[x] \in Nat /\ c.theories[x] \in Nat
    BY <1>1, TheoriesType
  <2>2. QED
    BY <2>1 DEF Better
<1>3. QED
  BY <1>1, <1>2 DEF Better

\* A new question with no parent hangs at the root.
LEMMA RootHangs ==
  ASSUME NEW c \in Subjects, NEW notes, NEW k
  PROVE  Note(c, 0, None) \in NoteType /\ Hangs(Note(c, 0, None), notes, k)
BY EvolutionAssumption DEF Note, NoteType, Statuses, Hangs

\* The parts of Inv that are about memory, and what Known says.
LEMMA InvMemory ==
  ASSUME Inv
  PROVE  /\ mem \in MemoryType /\ disk \in MemoryType
         /\ Sane(mem.notes) /\ Sane(disk.notes)
         /\ pc # "flush" => mem = disk
         /\ pc \in Working => /\ picked.on \in Subjects /\ picked.depth \in Nat
                              /\ \E i \in DOMAIN mem.notes : /\ mem.notes[i].on = picked.on
                                                             /\ mem.notes[i].depth = picked.depth
<1>1. ASSUME pc \in Working
      PROVE  /\ picked.on \in Subjects /\ picked.depth \in Nat
             /\ \E i \in DOMAIN mem.notes : /\ mem.notes[i].on = picked.on
                                            /\ mem.notes[i].depth = picked.depth
  <2>1. PICK i \in DOMAIN mem.notes : mem.notes[i].on = picked.on /\ mem.notes[i].depth = picked.depth
    BY <1>1 DEF Inv, Busy, Known
  <2>2. mem.notes[i] \in NoteType
    BY DEF Inv, Memories, Sane
  <2>3. QED
    BY <2>1, <2>2 DEF NoteType
<1>2. QED
  BY <1>1 DEF Inv, TypeOK, Memories

\* A run that reflects makes its memory better (reflect_on_run).
LEMMA ReflectedBetter ==
  ASSUME Inv, pc \in Working
  PROVE  Better(mem, Reflected(mem))
<1> DEFINE a == SetStatus(mem.notes, picked.on, "resolved")
           m == [mem EXCEPT !.notes = a]
           t == Restate(m.theories, picked.on, 10)
           n == [m EXCEPT !.theories = t]
<1>1. mem \in MemoryType /\ Sane(mem.notes) /\ picked.on \in Subjects
  BY InvMemory
<1>2. Grows(mem.notes, a)
  BY <1>1, SetStatusGrows DEF Statuses
<1> HIDE DEF a
<1>3. Better(mem, m)
  BY <1>1, <1>2, NotesBetter
<1>4. m \in MemoryType /\ m.notes = a /\ m.theories = mem.theories /\ Sane(m.notes)
  BY <1>1, <1>2, <1>3 DEF Better, MemoryType, Grows
<1> HIDE DEF m
<1>5. m.theories \in [Subjects \cup Claims -> 0 .. 10]
  BY <1>4 DEF MemoryType
<1>6. t \in [Subjects \cup Claims -> 0 .. 10] /\ \A c \in Subjects \cup Claims : m.theories[c] <= t[c]
  <2>1. picked.on \in Subjects \cup Claims /\ 10 \in 0 .. 10
    BY <1>1
  <2> DEFINE u == m.theories
             p == picked.on
  <2> HIDE DEF u, p
  <2>2. /\ Restate(u, p, 10) \in [Subjects \cup Claims -> 0 .. 10]
        /\ \A c \in Subjects \cup Claims : u[c] <= Restate(u, p, 10)[c]
    BY <1>5, <2>1, RestateRises DEF u, p
  <2>3. QED
    BY <2>2 DEF u, p
<1> HIDE DEF t
<1>7. Better(m, n)
  BY <1>4, <1>6, TheoriesBetter
<1>8. Better(mem, n)
  BY <1>1, <1>3, <1>4, <1>7, BetterOn
<1>9. Reflected(mem) = n
  BY <1>1, <1>4 DEF Reflected, MemoryType, a, m, t
<1>10. QED
  BY <1>8, <1>9

\* Every step moves memory in one of the five ways.
LEMMA MovesNext ==
  ASSUME Inv, [Next]_vars
  PROVE  Moves
<1> USE DEF files
<1>0. /\ mem \in MemoryType /\ disk \in MemoryType /\ Sane(mem.notes)
      /\ pc # "flush" => mem = disk
  BY InvMemory
<1>1. ASSUME NEW m, Better(mem, m), Save(m) PROVE Moves
  BY <1>1 DEF Save, Moves
<1>2. ASSUME NEW notes, Grows(mem.notes, notes), Save([mem EXCEPT !.notes = notes]) PROVE Moves
  BY <1>0, <1>1, <1>2, NotesBetter
<1>3. ASSUME NEW n \in MemoryType, n.notes = mem.notes, n.theories = mem.theories, Save(n)
      PROVE  Moves
  BY <1>0, <1>1, <1>3, RestBetter
<1>4. \A c \in Subjects : Grows(mem.notes, Remember(mem.notes, Note(c, 0, None)))
  BY <1>0, RootHangs, RememberGrows
<1>5. CASE UNCHANGED vars
  BY <1>5 DEF vars, Moves
<1>6. CASE \E m \in Modes : Begin(m)
  BY <1>6 DEF Begin, Moves, Working
<1>7. CASE SeedNext
  <2>1. Head(todo) \in Questions
    BY <1>7 DEF Inv, Busy, SeedNext
  <2>2. QED
    BY <1>2, <1>4, <1>7, <2>1 DEF SeedNext, Subjects
<1>8. CASE Seeded
  BY <1>8 DEF Seeded, Goto, Moves
<1>9. CASE CycleBegins
  BY <1>9 DEF CycleBegins, Moves
<1>10. CASE GateOpens
  BY <1>10 DEF GateOpens, Moves
<1>11. CASE GateCloses
  BY <1>11 DEF GateCloses, Moves
<1>12. CASE SplitsNot
  BY <1>12 DEF SplitsNot, Moves
<1>13. CASE CycleEnds
  BY <1>13 DEF CycleEnds, Moves
<1>14. CASE NoDream
  BY <1>14 DEF NoDream, Goto, Moves
<1>15. CASE WriteSediment
  BY <1>15 DEF WriteSediment, Moves
<1>16. CASE StopCheck
  BY <1>16 DEF StopCheck, Goto, Moves
<1>17. CASE Design
  <2>1. CASE UNCHANGED <<mem, disk>>
    BY <1>17, <2>1 DEF Design, Moves
  <2>2. CASE Save([mem EXCEPT !.beliefs = Append(@, [of |-> picked.on, cred |-> 3])])
    <3> DEFINE b == Append(mem.beliefs, [of |-> picked.on, cred |-> 3])
               n == [mem EXCEPT !.beliefs = b]
    <3>1. picked.on \in Subjects
      BY <1>17, InvMemory DEF Design, Working
    <3>2. b \in Seq([of : Subjects, cred : 0 .. 10])
      BY <1>0, <3>1 DEF MemoryType
    <3> HIDE DEF b
    <3>3. n \in MemoryType /\ n.notes = mem.notes /\ n.theories = mem.theories
      BY <1>0, <3>2 DEF MemoryType
    <3>4. Save(n)
      BY <2>2 DEF b
    <3> HIDE DEF n
    <3>5. QED
      BY <1>3, <3>3, <3>4
  <2>3. QED
    BY <1>17, <2>1, <2>2 DEF Design
<1>18. CASE MarkTesting
  <2>1. Grows(mem.notes, SetStatus(mem.notes, picked.on, "testing"))
    BY <1>0, SetStatusGrows DEF Statuses
  <2>2. QED
    BY <1>2, <1>18, <2>1 DEF MarkTesting
<1>19. CASE Explore
  <2>1. CASE UNCHANGED <<mem, fresh>>
    BY <1>19, <2>1 DEF Explore, Moves
  <2>2. CASE mem' = Reflected(mem)
    <3>1. Better(mem, mem')
      BY <1>19, <2>2, ReflectedBetter DEF Explore, Working
    <3>2. QED
      BY <1>19, <3>1 DEF Explore, Moves
  <2>3. QED
    BY <1>19, <2>1, <2>2 DEF Explore
<1>20. CASE BatchEnds
  BY <1>20 DEF BatchEnds, Moves
<1>21. CASE \E v \in Verdicts : Adjudicate(v)
  <2>1. PICK v \in Verdicts : Adjudicate(v)
    BY <1>21
  <2> DEFINE b == Moved(mem.beliefs, picked.on, v)
             n == [mem EXCEPT !.beliefs = b]
  <2>2. b \in Seq([of : Subjects, cred : 0 .. 10])
    BY <1>0, MovedType DEF MemoryType
  <2>3. Save(n)
    BY <2>1 DEF Adjudicate
  <2> HIDE DEF b
  <2>4. n \in MemoryType /\ n.notes = mem.notes /\ n.theories = mem.theories
    BY <1>0, <2>2 DEF MemoryType
  <2> HIDE DEF n
  <2>5. QED
    BY <1>3, <2>3, <2>4
<1>22. CASE RecordExperiment
  <2>1. CASE Save(mem)
    BY <1>0, <1>3, <2>1
  <2>2. CASE Save([mem EXCEPT !.trials = @ \cup {picked.on}])
    <3> DEFINE n == [mem EXCEPT !.trials = @ \cup {picked.on}]
    <3>1. picked.on \in Subjects
      BY <1>22, InvMemory DEF RecordExperiment, Working
    <3>2. n \in MemoryType /\ n.notes = mem.notes /\ n.theories = mem.theories
      BY <1>0, <3>1 DEF MemoryType
    <3>3. Save(n)
      BY <2>2
    <3> HIDE DEF n
    <3>4. QED
      BY <1>3, <3>2, <3>3
  <2>3. QED
    BY <1>22, <2>1, <2>2 DEF RecordExperiment
<1>23. CASE \E qs \in Answers(Questions) : Splits(qs) \/ Wonder(qs)
  BY <1>23 DEF Splits, Wonder, Moves
<1>24. CASE AddSubQuestion
  <2> DEFINE n == Note(Head(todo), picked.depth + 1, picked.on)
  <2>1. Head(todo) \in Questions /\ picked.depth < MaxDepth
    BY <1>24 DEF Inv, Busy, AddSubQuestion
  <2>2. picked.on \in Subjects /\ picked.depth \in Nat
    BY <1>24, InvMemory DEF AddSubQuestion, Working
  <2>3. PICK i \in DOMAIN mem.notes : mem.notes[i].on = picked.on /\ mem.notes[i].depth = picked.depth
    BY <1>24, InvMemory DEF AddSubQuestion, Working
  <2>4. i \in 1 .. Len(mem.notes)
    BY <1>0 DEF Sane
  <2>5. n \in NoteType
    BY <2>1, <2>2 DEF Note, NoteType, Statuses, Subjects
  <2>6. Hangs(n, mem.notes, Len(mem.notes))
    <3>1. picked.depth + 1 <= MaxDepth /\ MaxDepth \in Nat /\ (picked.depth + 1) - 1 = picked.depth
      BY <2>1, <2>2, EvolutionAssumption
    <3>2. n.parent = picked.on /\ n.parent # None /\ n.depth = picked.depth + 1
      BY <2>2, EvolutionAssumption DEF Note
    <3> HIDE DEF n
    <3>3. QED
      BY <2>3, <2>4, <3>1, <3>2 DEF Hangs
  <2> HIDE DEF n
  <2>7. Grows(mem.notes, Remember(mem.notes, n))
    BY <1>0, <2>5, <2>6, RememberGrows
  <2>8. Save([mem EXCEPT !.notes = Remember(@, n)])
    BY <1>24 DEF AddSubQuestion, n
  <2>9. QED
    BY <1>2, <2>7, <2>8
<1>25. CASE Decomposed
  <2>1. Grows(mem.notes, SetStatus(mem.notes, picked.on, "decomposed"))
    BY <1>0, SetStatusGrows DEF Statuses
  <2>2. QED
    BY <1>2, <1>25, <2>1 DEF Decomposed
<1>26. CASE \E lines \in Answers(Questions \cup Claims) : Dream(lines)
  BY <1>26 DEF Dream, Moves
<1>27. CASE AddIdea
  <2> DEFINE c == Head(todo)
  <2>1. c \in Subjects \cup Claims
    BY <1>27 DEF Inv, TypeOK, AddIdea
  <2>2. CASE c \in Claims
    <3> DEFINE t == Restate(mem.theories, c, 6)
    <3>1. /\ t \in [Subjects \cup Claims -> 0 .. 10]
          /\ \A x \in Subjects \cup Claims : mem.theories[x] <= t[x]
      <4> HIDE DEF c
      <4>1. c \in Subjects \cup Claims /\ 6 \in 0 .. 10
        BY <2>2
      <4> DEFINE u == mem.theories
      <4>2. u \in [Subjects \cup Claims -> 0 .. 10]
        BY <1>0, TheoriesType
      <4> HIDE DEF u
      <4>3. QED
        BY <4>1, <4>2, RestateRises DEF u
    <3>2. Save([mem EXCEPT !.theories = t])
      BY <1>27, <2>2 DEF AddIdea
    <3> HIDE DEF t
    <3>3. Better(mem, [mem EXCEPT !.theories = t])
      BY <1>0, <3>1, TheoriesBetter
    <3>4. QED
      BY <1>1, <3>2, <3>3
  <2>3. CASE c \notin Claims
    BY <1>2, <1>4, <1>27, <2>1, <2>3 DEF AddIdea
  <2>4. QED
    BY <2>2, <2>3
<1>28. CASE \E approve \in BOOLEAN : ProposeSoul(approve)
  BY <1>28 DEF ProposeSoul, Moves
<1>29. CASE Interrupt
  BY <1>29 DEF Interrupt, Moves
<1>30. CASE Kill
  BY <1>30 DEF Kill, Moves, Working
<1>31. CASE WeekPasses
  BY <1>31 DEF WeekPasses, Running, Moves
<1>32. CASE AddContradiction
  <2> DEFINE n == Remember(mem.notes, Note(Head(todo), 0, None))
  <2>1. Head(todo) \in Subjects
    BY <1>32 DEF AddContradiction, Inv, Busy, Subjects
  <2>2. Grows(mem.notes, n)
    BY <1>4, <2>1
  <2> HIDE DEF n
  <2>3. Better(mem, [mem EXCEPT !.notes = n])
    BY <1>0, <2>2, NotesBetter
  <2>4. QED
    BY <1>32, <2>3 DEF AddContradiction, Moves, n
<1>33. QED
  BY <1>5, <1>6, <1>7, <1>8, <1>9, <1>10, <1>11, <1>12, <1>13, <1>14, <1>15, <1>16, <1>17, <1>18, <1>19, <1>20, <1>21, <1>22, <1>23, <1>24, <1>25, <1>26, <1>27, <1>28, <1>29, <1>30, <1>31, <1>32 DEF Next, Advance

\* What a step keeps of memory, whichever way it moves.
LEMMA MovesKeep ==
  ASSUME Inv, Moves
  PROVE  /\ mem' \in MemoryType /\ disk' \in MemoryType
         /\ Memories'
         /\ mem' # disk' => pc' = "flush"
         /\ \A c : Shut(mem.notes, c) /\ Shut(disk.notes, c)
                   => Shut(mem'.notes, c) /\ Shut(disk'.notes, c)
         /\ pc' \in Working => \A n : Known(mem.notes, n) => Known(mem'.notes, n)
         /\ Grows(disk.notes, disk'.notes)
         /\ \A c \in Subjects \cup Claims : disk.theories[c] <= disk'.theories[c]
<1>0. /\ mem \in MemoryType /\ disk \in MemoryType /\ Sane(mem.notes) /\ Sane(disk.notes)
      /\ pc # "flush" => mem = disk
      /\ Grows(disk.notes, mem.notes) /\ Grows(disk.notes, disk.notes) /\ Grows(mem.notes, mem.notes)
  BY InvMemory DEF Inv, Memories, Grows
<1>1. \A c \in Subjects \cup Claims : /\ mem.theories[c] \in Nat /\ disk.theories[c] \in Nat
                                      /\ disk.theories[c] <= mem.theories[c]
                                      /\ mem.theories[c] <= mem.theories[c]
                                      /\ disk.theories[c] <= disk.theories[c]
  BY <1>0, TheoriesType DEF Inv, Memories
<1>2. CASE mem' = mem /\ disk' = disk /\ (pc = "flush" => pc' = pc)
  BY <1>0, <1>1, <1>2 DEF Memories
<1>3. CASE mem' = mem /\ disk' = mem
  BY <1>0, <1>1, <1>3 DEF Memories
<1>4. CASE mem' = disk /\ disk' = disk /\ pc' \notin Working
  BY <1>0, <1>1, <1>4 DEF Memories
<1>5. ASSUME Better(mem, mem')
      PROVE  /\ mem' \in MemoryType /\ Sane(mem'.notes)
             /\ Grows(disk.notes, mem'.notes) /\ Grows(mem'.notes, mem'.notes)
             /\ \A c : Shut(mem.notes, c) => Shut(mem'.notes, c)
             /\ \A n : Known(mem.notes, n) => Known(mem'.notes, n)
             /\ \A c \in Subjects \cup Claims : /\ mem'.theories[c] <= mem'.theories[c]
                                                /\ disk.theories[c] <= mem'.theories[c]
  <2>1. mem' \in MemoryType /\ Grows(mem.notes, mem'.notes)
    BY <1>5 DEF Better
  <2>2. \A c \in Subjects \cup Claims : mem'.theories[c] \in Nat
    BY <2>1, TheoriesType
  <2>3. \A c \in Subjects \cup Claims : /\ mem'.theories[c] <= mem'.theories[c]
                                        /\ disk.theories[c] <= mem'.theories[c]
    BY <1>1, <1>5, <2>2 DEF Better
  <2>4. Sane(mem'.notes) /\ Grows(mem'.notes, mem'.notes) /\ Grows(disk.notes, mem'.notes)
    BY <1>0, <2>1, GrowsOn DEF Grows
  <2>5. QED
    BY <2>1, <2>3, <2>4, GrowsKeeps
<1>6. CASE Better(mem, mem') /\ disk' = mem'
  BY <1>5, <1>6 DEF Memories
<1>7. CASE Better(mem, mem') /\ disk' = disk /\ pc' = "flush"
  BY <1>0, <1>1, <1>5, <1>7 DEF Memories
<1>8. QED
  BY <1>2, <1>3, <1>4, <1>6, <1>7 DEF Moves

-----------------------------------------------------------------------------
(* What is picked, and what was explored.                                  *)

\* What the gate lets through is known, open, and so not yet explored.
LEMMA PickedIsNew ==
  ASSUME Inv, GateOpens
  PROVE  /\ picked' \in NoteType /\ picked'.status = "open"
         /\ Known(mem.notes, picked') /\ explored[picked'.on] = 0
<1> DEFINE cs == Candidates(mem.notes, Window)
<1>1. /\ mem.notes \in Seq(NoteType) /\ Distinct(mem.notes)
      /\ DOMAIN mem.notes = 1 .. Len(mem.notes)
  BY InvMemory DEF Sane
<1>2. cs \in Seq(OpenOnes(mem.notes)) /\ Len(cs) >= MinOpen[mode] /\ picked' = Head(cs)
  BY <1>1, CandidatesAreOpen DEF GateOpens, GateIsOpen
<1>3. MinOpen[mode] \in Nat \ {0}
  BY EvolutionAssumption DEF Inv, TypeOK
<1> HIDE DEF cs
<1>4. picked' \in OpenOnes(mem.notes)
  <2>1. Len(cs) \in Nat /\ Len(cs) # 0
    BY <1>2, <1>3
  <2>2. QED
    BY <1>2, <2>1
<1>5. PICK i \in DOMAIN mem.notes : mem.notes[i] = picked'
  BY <1>4 DEF OpenOnes, Range
<1>6. picked' \in NoteType /\ picked'.status = "open" /\ picked'.on \in Subjects
  <2>1. mem.notes[i] \in NoteType
    BY <1>1
  <2>2. picked' \in NoteType
    BY <1>5, <2>1
  <2>3. QED
    BY <1>4, <2>2 DEF OpenOnes, NoteType
<1>7. ~Shut(mem.notes, picked'.on)
  BY <1>1, <1>5, <1>6 DEF Shut, Distinct
<1>8. explored[picked'.on] \in Nat
  BY <1>6 DEF Inv, TypeOK
<1>9. ~(explored[picked'.on] > 0)
  BY <1>6, <1>7 DEF Inv, Tried
<1>10. explored[picked'.on] = 0
  BY <1>8, <1>9
<1>11. QED
  BY <1>5, <1>6, <1>10 DEF Known

\* The other steps explore nothing and begin no exploration.
LEMMA OtherSteps ==
  ASSUME [Next]_vars, ~GateOpens, ~Design, ~MarkTesting, ~Explore
  PROVE  explored' = explored /\ (pc' \in {"design", "mark", "run"} => pc' = pc /\ UNCHANGED vars)
<1> USE DEF files, counts, bounds
<1>1. CASE UNCHANGED vars
  BY <1>1 DEF vars
<1>2. CASE \E m \in Modes : Begin(m)
  BY <1>2 DEF Begin
<1>3. CASE SeedNext
  BY <1>3 DEF SeedNext
<1>4. CASE Seeded
  BY <1>4 DEF Seeded, Goto
<1>5. CASE CycleBegins
  BY <1>5 DEF CycleBegins
<1>6. CASE GateCloses
  BY <1>6 DEF GateCloses
<1>7. CASE BatchEnds
  BY <1>7 DEF BatchEnds
<1>8. CASE \E v \in Verdicts : Adjudicate(v)
  BY <1>8 DEF Adjudicate
<1>9. CASE RecordExperiment
  BY <1>9 DEF RecordExperiment
<1>10. CASE SplitsNot
  BY <1>10 DEF SplitsNot
<1>11. CASE \E qs \in Answers(Questions) : Splits(qs) \/ Wonder(qs)
  BY <1>11 DEF Splits, Wonder
<1>12. CASE AddSubQuestion
  BY <1>12 DEF AddSubQuestion
<1>13. CASE Decomposed
  BY <1>13 DEF Decomposed
<1>14. CASE CycleEnds
  BY <1>14 DEF CycleEnds
<1>15. CASE NoDream
  BY <1>15 DEF NoDream, Goto
<1>16. CASE \E lines \in Answers(Questions \cup Claims) : Dream(lines)
  BY <1>16 DEF Dream
<1>17. CASE AddIdea
  BY <1>17 DEF AddIdea
<1>18. CASE WriteSediment
  BY <1>18 DEF WriteSediment
<1>19. CASE \E approve \in BOOLEAN : ProposeSoul(approve)
  BY <1>19 DEF ProposeSoul
<1>20. CASE StopCheck
  BY <1>20 DEF StopCheck, Goto
<1>21. CASE Interrupt
  BY <1>21 DEF Interrupt
<1>22. CASE Kill
  BY <1>22 DEF Kill
<1>23. CASE WeekPasses
  BY <1>23 DEF WeekPasses, Running
<1>24. CASE AddContradiction
  BY <1>24 DEF AddContradiction
<1>25. QED
  BY <1>1, <1>2, <1>3, <1>4, <1>5, <1>6, <1>7, <1>8, <1>9, <1>10, <1>11, <1>12, <1>13, <1>14, <1>15, <1>16, <1>17, <1>18, <1>19, <1>20, <1>21, <1>22, <1>23, <1>24 DEF Next, Advance

\* The invariant about what was explored.
LEMMA TriedNext ==
  ASSUME Inv, [Next]_vars
  PROVE  Tried'
<1>0. /\ mem \in MemoryType /\ disk \in MemoryType /\ Sane(mem.notes)
      /\ pc # "flush" => mem = disk
  BY InvMemory
<1>1. \A c : Shut(mem.notes, c) /\ Shut(disk.notes, c)
            => Shut(mem'.notes, c) /\ Shut(disk'.notes, c)
  BY MovesNext, MovesKeep
<1>2. ASSUME explored' = explored
      PROVE  \A c \in Subjects : explored'[c] > 0 =>
               explored'[c] = 1 /\ Shut(mem'.notes, c) /\ Shut(disk'.notes, c)
  BY <1>1, <1>2 DEF Inv, Tried
<1>3. CASE UNCHANGED vars
  BY <1>2, <1>3 DEF vars, files, Inv, Tried
<1>4. CASE GateOpens
  <2>1. explored' = explored /\ pc' = "design"
    BY <1>4 DEF GateOpens
  <2>2. explored'[picked'.on] = 0
    BY <1>4, <2>1, PickedIsNew
  <2>3. QED
    BY <1>2, <2>1, <2>2 DEF Tried
<1>5. CASE Design
  <2>1. explored' = explored /\ pc' = "mark" /\ picked' = picked /\ explored[picked.on] = 0
    BY <1>5 DEF Design, Inv, Tried
  <2>2. QED
    BY <1>2, <2>1 DEF Tried
<1>6. CASE MarkTesting
  <2>1. explored' = explored /\ pc' = "run" /\ picked' = picked /\ explored[picked.on] = 0
    BY <1>6 DEF MarkTesting, Inv, Tried
  <2>2. \E i \in DOMAIN mem.notes : mem.notes[i].on = picked.on
    BY <1>6, InvMemory DEF MarkTesting, Working
  <2>3. mem'.notes = SetStatus(mem.notes, picked.on, "testing")
    BY <1>0, <1>6 DEF MarkTesting, Save, MemoryType
  <2>4. Shut(mem'.notes, picked.on)
    BY <1>0, <2>2, <2>3, SetStatusGrows DEF Statuses
  <2>5. QED
    BY <1>2, <2>1, <2>4 DEF Tried
<1>7. CASE Explore
  <2>1. /\ pc = "run" /\ pc' = "flush" /\ explored' = [explored EXCEPT ![picked.on] = @ + 1]
        /\ picked.on \in Subjects
    BY <1>7, InvMemory DEF Explore, Working
  <2>2. explored[picked.on] = 0 /\ Shut(mem.notes, picked.on) /\ Shut(disk.notes, picked.on)
    BY <1>0, <2>1 DEF Inv, Tried
  <2>3. explored \in [Subjects -> Nat]
    BY DEF Inv, TypeOK
  <2>4. /\ explored'[picked.on] = 1
        /\ \A c \in Subjects : c # picked.on => explored'[c] = explored[c]
    BY <2>1, <2>2, <2>3
  <2>5. \A c \in Subjects : explored'[c] > 0 =>
          explored'[c] = 1 /\ Shut(mem'.notes, c) /\ Shut(disk'.notes, c)
    BY <1>1, <2>2, <2>4 DEF Inv, Tried
  <2>6. QED
    BY <2>1, <2>5 DEF Tried
<1>8. CASE ~UNCHANGED vars /\ ~GateOpens /\ ~Design /\ ~MarkTesting /\ ~Explore
  <2>1. explored' = explored /\ pc' \notin {"design", "mark", "run"}
    BY <1>8, OtherSteps
  <2>2. QED
    BY <1>2, <2>1 DEF Tried
<1>9. QED
  BY <1>3, <1>4, <1>5, <1>6, <1>7, <1>8

-----------------------------------------------------------------------------
(* What is worked on, and the types.                                       *)

\* Of an answer, of a tail, and of the empty one.
LEMMA AnswersType ==
  ASSUME NEW S
  PROVE  /\ Answers(S) \subseteq Seq(S)
         /\ << >> \in Seq(S)
         /\ \A q \in Seq(S) : q # << >> => Head(q) \in S /\ Tail(q) \in Seq(S)
<1>1. \A q : q = << >> => q \in Seq(S)
  OBVIOUS
<1>2. ASSUME NEW q \in Answers(S) PROVE q \in Seq(S)
  <2>1. PICK n \in 0 .. MaxAnswers : q \in [1 .. n -> S]
    BY DEF Answers
  <2>2. n \in Nat
    OBVIOUS
  <2>3. QED
    BY <2>1, <2>2
<1>3. QED
  BY <1>1, <1>2

\* Work begins at the gate and goes on with the same note.
LEMMA WorkNext ==
  ASSUME Inv, [Next]_vars, ~GateOpens
  PROVE  /\ pc' \in Working => pc \in Working /\ picked' = picked /\ left' = left
         /\ pc' \in {"split", "subs"} => picked.depth < MaxDepth
         /\ pc' \in {"seed", "subs"} => todo' \in Seq(Questions)
         /\ pc' = "flush" => todo' \in Seq(Contradictions)
<1> USE DEF files, counts, bounds, Working
<1>0. /\ pc \in {"split", "subs"} => picked.depth < MaxDepth
      /\ pc \in {"seed", "subs"} => todo \in Seq(Questions)
      /\ pc = "flush" => todo \in Seq(Contradictions)
  BY DEF Inv, Busy
<1>1. CASE UNCHANGED vars
  BY <1>0, <1>1 DEF vars
<1>2. CASE \E m \in Modes : Begin(m)
  BY <1>2, EvolutionAssumption DEF Begin
<1>3. CASE SeedNext
  BY <1>0, <1>3, AnswersType DEF SeedNext
<1>4. CASE Seeded
  BY <1>4 DEF Seeded, Goto
<1>5. CASE CycleBegins
  BY <1>5 DEF CycleBegins
<1>6. CASE GateCloses
  BY <1>6 DEF GateCloses
<1>7. CASE Design
  BY <1>7 DEF Design
<1>8. CASE MarkTesting
  BY <1>8 DEF MarkTesting
<1>9. CASE Explore
  BY <1>9, AnswersType DEF Explore
<1>10. CASE BatchEnds
  BY <1>10 DEF BatchEnds
<1>11. CASE \E v \in Verdicts : Adjudicate(v)
  BY <1>11 DEF Adjudicate
<1>12. CASE RecordExperiment
  BY <1>12 DEF RecordExperiment
<1>13. CASE SplitsNot
  BY <1>13 DEF SplitsNot
<1>14. CASE \E qs \in Answers(Questions) : Splits(qs) \/ Wonder(qs)
  <2>1. PICK qs \in Answers(Questions) : Splits(qs) \/ Wonder(qs)
    BY <1>14
  <2>2. qs \in Seq(Questions)
    BY AnswersType
  <2>3. QED
    BY <1>0, <2>1, <2>2 DEF Splits, Wonder
<1>15. CASE AddSubQuestion
  BY <1>0, <1>15, AnswersType DEF AddSubQuestion
<1>16. CASE Decomposed
  BY <1>16 DEF Decomposed
<1>17. CASE CycleEnds
  BY <1>17 DEF CycleEnds
<1>18. CASE NoDream
  BY <1>18 DEF NoDream, Goto
<1>19. CASE \E lines \in Answers(Questions \cup Claims) : Dream(lines)
  BY <1>19 DEF Dream
<1>20. CASE AddIdea
  BY <1>20 DEF AddIdea
<1>21. CASE WriteSediment
  BY <1>21 DEF WriteSediment
<1>22. CASE \E approve \in BOOLEAN : ProposeSoul(approve)
  BY <1>22 DEF ProposeSoul
<1>23. CASE StopCheck
  BY <1>23 DEF StopCheck, Goto
<1>24. CASE Interrupt
  BY <1>24 DEF Interrupt
<1>25. CASE Kill
  BY <1>25 DEF Kill
<1>26. CASE WeekPasses
  BY <1>26 DEF WeekPasses, Running
<1>27. CASE AddContradiction
  BY <1>0, <1>27, AnswersType DEF AddContradiction
<1>28. QED
  BY <1>1, <1>2, <1>3, <1>4, <1>5, <1>6, <1>7, <1>8, <1>9, <1>10, <1>11, <1>12, <1>13, <1>14, <1>15, <1>16, <1>17, <1>18, <1>19, <1>20, <1>21, <1>22, <1>23, <1>24, <1>25, <1>26, <1>27 DEF Next, Advance

\* The invariant about what is worked on.
LEMMA BusyNext ==
  ASSUME Inv, [Next]_vars
  PROVE  Busy'
<1>1. CASE GateOpens
  <2>1. /\ pc' = "design" /\ mem' = mem /\ left' = left
        /\ left > 0
    BY <1>1 DEF GateOpens, GateIsOpen, counts
  <2>2. Known(mem.notes, picked')
    BY <1>1, PickedIsNew
  <2>3. QED
    BY <2>1, <2>2 DEF Busy
<1>2. CASE ~GateOpens
  <2>1. /\ pc' \in Working => pc \in Working /\ picked' = picked /\ left' = left
        /\ pc' \in {"split", "subs"} => picked.depth < MaxDepth
        /\ pc' \in {"seed", "subs"} => todo' \in Seq(Questions)
        /\ pc' = "flush" => todo' \in Seq(Contradictions)
    BY <1>2, WorkNext
  <2>2. pc' \in Working => Known(mem'.notes, picked) /\ left > 0
    BY <2>1, MovesNext, MovesKeep DEF Inv, Busy
  <2>3. pc' \in {"split", "subs"} => picked' = picked
    BY <2>1 DEF Working
  <2>4. QED
    BY <2>1, <2>2, <2>3 DEF Busy
<1>3. QED
  BY <1>1, <1>2

\* The command's own variables have their types.
Locals ==
  /\ pc \in Steps /\ mode \in Modes
  /\ picked \in NoteType \cup {Nobody} /\ picked.status = "open" /\ verdict \in Verdicts
  /\ todo \in Seq(Subjects \cup Claims)
  /\ {left, emitted, rounds, dry, stops, commands} \subseteq Nat

\* Every step keeps them.
LEMMA LocalsNext ==
  ASSUME Inv, [Next]_vars
  PROVE  Locals'
<1> USE DEF files, counts, bounds
<1>0. Locals
  BY DEF Inv, TypeOK, Locals
<1>1. /\ Nobody.status = "open" /\ "inconclusive" \in Verdicts /\ << >> \in Seq(Subjects \cup Claims)
      /\ {"life", "auto"} = Modes
  BY AnswersType DEF Nobody, Note, Verdicts, Modes
<1>2. CASE UNCHANGED vars
  BY <1>0, <1>2 DEF vars, Locals
<1>3. CASE \E m \in Modes : Begin(m)
  <2>1. PICK m \in Modes : Begin(m)
    BY <1>3
  <2>2. MaxRuns[m] \in Nat /\ Seed \in Seq(Subjects \cup Claims)
    BY EvolutionAssumption DEF Subjects
  <2>3. /\ mode' \in Modes /\ picked' = picked /\ verdict' = verdict
        /\ left' \in Nat /\ emitted' = 0 /\ rounds' = 0 /\ dry' = 0
        /\ stops' = stops /\ commands' = commands + 1
    BY <2>1, <2>2 DEF Begin
  <2>4. todo' \in Seq(Subjects \cup Claims) /\ pc' \in Steps
    BY <1>1, <2>1, <2>2 DEF Begin, Steps
  <2>5. QED
    BY <1>0, <2>3, <2>4 DEF Locals
<1>4. CASE SeedNext
  BY <1>0, <1>4, AnswersType DEF SeedNext, Locals
<1>5. CASE Seeded
  BY <1>0, <1>5 DEF Seeded, Goto, Locals, Steps
<1>6. CASE CycleBegins
  <2>1. MaxRuns[mode] \in Nat
    BY <1>0, EvolutionAssumption DEF Locals
  <2>2. QED
    BY <1>0, <1>6, <2>1 DEF CycleBegins, Locals, Steps
<1>7. CASE GateOpens
  <2>1. picked' \in NoteType /\ picked'.status = "open"
    BY <1>7, PickedIsNew
  <2>2. QED
    BY <1>0, <1>7, <2>1 DEF GateOpens, Locals, Steps
<1>8. CASE GateCloses
  BY <1>0, <1>1, <1>8 DEF GateCloses, Locals, Steps
<1>9. CASE Design
  BY <1>0, <1>9 DEF Design, Locals, Steps
<1>10. CASE MarkTesting
  BY <1>0, <1>10 DEF MarkTesting, Locals, Steps
<1>11. CASE Explore
  <2>1. todo' \in Seq(Subjects \cup Claims)
    <3>1. Answers(Contradictions) \subseteq Seq(Contradictions)
      BY AnswersType
    <3>2. todo' \in Seq(Contradictions)
      BY <1>11, <3>1, AnswersType DEF Explore
    <3>3. QED
      BY <3>2 DEF Subjects
  <2>2. QED
    BY <1>0, <1>11, <2>1 DEF Explore, Locals, Steps
<1>12. CASE BatchEnds
  BY <1>0, <1>12 DEF BatchEnds, Locals, Steps
<1>13. CASE \E v \in Verdicts : Adjudicate(v)
  BY <1>0, <1>13 DEF Adjudicate, Locals, Steps
<1>14. CASE RecordExperiment \/ SplitsNot \/ Decomposed
  <2>1. left > 0
    BY <1>14 DEF RecordExperiment, SplitsNot, Decomposed, Inv, Busy, Working
  <2>2. \A events \in {4, 5} : EndsRound(events) => left' \in Nat /\ emitted' \in Nat
    BY <1>0, <2>1 DEF EndsRound, Locals
  <2>3. left' \in Nat /\ emitted' \in Nat
    BY <1>0, <1>14, <2>2 DEF RecordExperiment, SplitsNot, Decomposed, Locals
  <2>4. QED
    BY <1>0, <1>14, <2>3 DEF RecordExperiment, SplitsNot, Decomposed, Locals, Steps
<1>15. CASE \E qs \in Answers(Questions) : Splits(qs) \/ Wonder(qs)
  <2>1. PICK qs \in Answers(Questions) : Splits(qs) \/ Wonder(qs)
    BY <1>15
  <2>2. qs \in Seq(Subjects \cup Claims)
    <3>1. qs \in Seq(Questions)
      BY AnswersType
    <3>2. QED
      BY <3>1 DEF Subjects
  <2>3. QED
    BY <1>0, <2>1, <2>2 DEF Splits, Wonder, Locals, Steps
<1>16. CASE AddSubQuestion
  BY <1>0, <1>16, AnswersType DEF AddSubQuestion, Locals
<1>17. CASE CycleEnds
  <2>1. \A n \in Nat : n \div 3 \in Nat
    OBVIOUS
  <2>2. rounds + (emitted \div 3) \in Nat
    BY <1>0, <2>1 DEF Locals
  <2>3. QED
    BY <1>0, <1>17, <2>2 DEF CycleEnds, Locals, Steps
<1>18. CASE NoDream
  BY <1>0, <1>18 DEF NoDream, Goto, Locals, Steps
<1>19. CASE \E lines \in Answers(Questions \cup Claims) : Dream(lines)
  <2>1. PICK lines \in Answers(Questions \cup Claims) : Dream(lines)
    BY <1>19
  <2>2. lines \in Seq(Subjects \cup Claims)
    <3>1. lines \in Seq(Questions \cup Claims)
      BY AnswersType
    <3>2. QED
      BY <3>1 DEF Subjects
  <2>3. QED
    BY <1>0, <2>1, <2>2 DEF Dream, Locals, Steps
<1>20. CASE AddIdea
  BY <1>0, <1>20, AnswersType DEF AddIdea, Locals
<1>21. CASE WriteSediment
  <2>1. CASE Gone /\ pc' = "over" /\ UNCHANGED <<mode, stops, commands>>
    BY <1>0, <1>1, <2>1 DEF Gone, Locals, Steps
  <2>2. CASE pc' = "check" /\ UNCHANGED <<mode, picked, verdict, todo, counts, bounds>>
    BY <1>0, <2>2 DEF Locals, Steps
  <2>3. QED
    BY <1>21, <2>1, <2>2 DEF WriteSediment
<1>22. CASE \E approve \in BOOLEAN : ProposeSoul(approve)
  BY <1>0, <1>1, <1>22 DEF ProposeSoul, Gone, Locals, Steps
<1>23. CASE StopCheck
  BY <1>0, <1>23 DEF StopCheck, Goto, Locals, Steps
<1>24. CASE Interrupt
  BY <1>0, <1>1, <1>24 DEF Interrupt, Gone, Locals, Steps
<1>25. CASE Kill
  BY <1>0, <1>1, <1>25 DEF Kill, Gone, Locals, Steps
<1>26. CASE WeekPasses
  BY <1>0, <1>26 DEF WeekPasses, Locals
<1>27. CASE AddContradiction
  BY <1>0, <1>27, AnswersType DEF AddContradiction, Locals
<1>28. QED
  BY <1>2, <1>3, <1>4, <1>5, <1>6, <1>7, <1>8, <1>9, <1>10, <1>11, <1>12, <1>13, <1>14, <1>15, <1>16, <1>17, <1>18, <1>19, <1>20, <1>21, <1>22, <1>23, <1>24, <1>25, <1>26, <1>27 DEF Next, Advance

\* Which steps touch the files that are not memory, and the history.
LEMMA TextsMove ==
  ASSUME [Next]_vars
  PROVE  /\ \/ WriteSediment
            \/ sediment' = sediment /\ (pc' = "over" => pc = "over" /\ disk' = disk)
         /\ digest' = digest \/ \E approve \in BOOLEAN : ProposeSoul(approve)
         /\ fresh' = fresh \/ Explore \/ AddContradiction \/ AddIdea \/ WeekPasses
         /\ explored' = explored \/ Explore
<1> USE DEF files, sediment
<1>1. CASE UNCHANGED vars
  BY <1>1 DEF vars
<1>2. CASE \E m \in Modes : Begin(m)
  BY <1>2 DEF Begin
<1>3. CASE SeedNext
  BY <1>3 DEF SeedNext
<1>4. CASE Seeded
  BY <1>4 DEF Seeded, Goto
<1>5. CASE CycleBegins
  BY <1>5 DEF CycleBegins
<1>6. CASE GateOpens
  BY <1>6 DEF GateOpens
<1>7. CASE GateCloses
  BY <1>7 DEF GateCloses
<1>8. CASE Design
  BY <1>8 DEF Design
<1>9. CASE MarkTesting
  BY <1>9 DEF MarkTesting
<1>10. CASE Explore
  BY <1>10 DEF Explore
<1>11. CASE BatchEnds
  BY <1>11 DEF BatchEnds
<1>12. CASE \E v \in Verdicts : Adjudicate(v)
  BY <1>12 DEF Adjudicate
<1>13. CASE RecordExperiment
  BY <1>13 DEF RecordExperiment
<1>14. CASE SplitsNot
  BY <1>14 DEF SplitsNot
<1>15. CASE \E qs \in Answers(Questions) : Splits(qs) \/ Wonder(qs)
  BY <1>15 DEF Splits, Wonder
<1>16. CASE AddSubQuestion
  BY <1>16 DEF AddSubQuestion
<1>17. CASE Decomposed
  BY <1>17 DEF Decomposed
<1>18. CASE CycleEnds
  BY <1>18 DEF CycleEnds
<1>19. CASE NoDream
  BY <1>19 DEF NoDream, Goto
<1>20. CASE \E lines \in Answers(Questions \cup Claims) : Dream(lines)
  BY <1>20 DEF Dream
<1>21. CASE AddIdea
  BY <1>21 DEF AddIdea
<1>22. CASE WriteSediment
  BY <1>22 DEF WriteSediment
<1>23. CASE \E approve \in BOOLEAN : ProposeSoul(approve)
  BY <1>23 DEF ProposeSoul
<1>24. CASE StopCheck
  BY <1>24 DEF StopCheck, Goto
<1>25. CASE Interrupt
  BY <1>25 DEF Interrupt
<1>26. CASE Kill
  BY <1>26 DEF Kill
<1>27. CASE WeekPasses
  BY <1>27 DEF WeekPasses, Running
<1>28. CASE AddContradiction
  BY <1>28 DEF AddContradiction
<1>29. QED
  BY <1>1, <1>2, <1>3, <1>4, <1>5, <1>6, <1>7, <1>8, <1>9, <1>10, <1>11, <1>12, <1>13, <1>14, <1>15, <1>16, <1>17, <1>18, <1>19, <1>20, <1>21, <1>22, <1>23, <1>24, <1>25, <1>26, <1>27, <1>28 DEF Next, Advance

-----------------------------------------------------------------------------
(* The files that people read, and the digest.                             *)

\* What knowledge.md is written from has its type.
LEMMA SettledType ==
  ASSUME Inv
  PROVE  Settled \subseteq [of : Subjects \cup Claims, cred : 0 .. 10]
<1>1. mem \in MemoryType
  BY InvMemory
<1>2. /\ mem.beliefs \in Seq([of : Subjects, cred : 0 .. 10])
      /\ mem.theories \in [Subjects \cup Claims -> 0 .. 10]
  BY <1>1 DEF MemoryType
<1>3. ASSUME NEW i \in DOMAIN mem.beliefs
      PROVE  mem.beliefs[i].of \in Subjects /\ mem.beliefs[i].cred \in 0 .. 10
  <2> DEFINE B == [of : Subjects, cred : 0 .. 10]
             b == mem.beliefs
  <2>1. b \in Seq(B)
    BY <1>2
  <2> HIDE DEF B, b
  <2>2. i \in DOMAIN b => b[i] \in B
    BY <2>1
  <2>3. QED
    BY <1>3, <2>2 DEF B, b
<1>4. \A c \in Claims : mem.theories[c] \in 0 .. 10
  BY <1>2
<1>5. QED
  BY <1>3, <1>4 DEF Settled

\* The files and the history have their types.
LEMMA TextsNext ==
  ASSUME Inv, [Next]_vars
  PROVE  /\ curiosity' \in Seq(NoteType)
         /\ knowledge' \subseteq [of : Subjects \cup Claims, cred : 0 .. 10]
         /\ digest' \subseteq Subjects \cup Claims /\ fresh' \subseteq Subjects \cup Claims
         /\ explored' \in [Subjects -> Nat]
<1>0. /\ curiosity \in Seq(NoteType)
      /\ knowledge \subseteq [of : Subjects \cup Claims, cred : 0 .. 10]
      /\ digest \subseteq Subjects \cup Claims /\ fresh \subseteq Subjects \cup Claims
      /\ explored \in [Subjects -> Nat]
      /\ todo \in Seq(Subjects \cup Claims)
  BY DEF Inv, TypeOK
<1>1. curiosity' \in Seq(NoteType) /\ knowledge' \subseteq [of : Subjects \cup Claims, cred : 0 .. 10]
  <2>1. CASE WriteSediment
    <3> DEFINE cs == Candidates(mem.notes, SedimentWindow)
               O == OpenOnes(mem.notes)
    <3>1. mem.notes \in Seq(NoteType)
      BY InvMemory DEF Sane
    <3>2. cs \in Seq(O)
      BY <3>1, CandidatesAreOpen
    <3>3. O \subseteq NoteType
      BY <3>1 DEF OpenOnes, Range
    <3>4. curiosity' = cs /\ knowledge' = Settled
      BY <2>1 DEF WriteSediment, Project
    <3> HIDE DEF cs, O
    <3>5. cs \in Seq(NoteType)
      BY <3>2, <3>3
    <3>6. QED
      BY <3>4, <3>5, SettledType
  <2>2. CASE sediment' = sediment
    BY <1>0, <2>2 DEF sediment
  <2>3. QED
    BY <2>1, <2>2, TextsMove
<1>2. digest' \subseteq Subjects \cup Claims
  <2>1. CASE \E approve \in BOOLEAN : ProposeSoul(approve)
    BY <1>0, <2>1 DEF ProposeSoul, StableTheories
  <2>2. QED
    BY <1>0, <2>1, TextsMove
<1>3. fresh' \subseteq Subjects \cup Claims
  <2>1. CASE Explore
    <3>1. picked.on \in Subjects
      BY <2>1, InvMemory DEF Explore, Working
    <3>2. QED
      BY <1>0, <2>1, <3>1 DEF Explore
  <2>2. CASE AddIdea \/ AddContradiction
    <3>1. Head(todo) \in Subjects \cup Claims
      BY <1>0, <2>2, AnswersType DEF AddIdea, AddContradiction
    <3>2. Created(Head(todo)) \subseteq {Head(todo)}
      BY DEF Created
    <3>3. QED
      BY <1>0, <2>2, <3>1, <3>2 DEF AddIdea, AddContradiction
  <2>3. CASE WeekPasses
    BY <2>3 DEF WeekPasses
  <2>4. QED
    BY <1>0, <2>1, <2>2, <2>3, TextsMove
<1>4. explored' \in [Subjects -> Nat]
  <2>1. CASE Explore
    <3>1. picked.on \in Subjects /\ explored' = [explored EXCEPT ![picked.on] = @ + 1]
      BY <2>1, InvMemory DEF Explore, Working
    <3>2. explored[picked.on] + 1 \in Nat
      BY <1>0, <3>1
    <3>3. QED
      BY <1>0, <3>1, <3>2
  <2>2. QED
    BY <1>0, <2>1, TextsMove
<1>5. QED
  BY <1>1, <1>2, <1>3, <1>4

\* TypeOK, from its parts.
LEMMA TypeNext ==
  ASSUME Inv, [Next]_vars
  PROVE  TypeOK'
<1>1. /\ mem' \in MemoryType /\ disk' \in MemoryType /\ Sane(mem'.notes)
      /\ mem' # disk' => pc' = "flush"
  BY MovesNext, MovesKeep DEF Memories
<1>2. \A i, j \in DOMAIN mem'.notes : mem'.notes[i].on = mem'.notes[j].on => i = j
  BY <1>1 DEF Sane, Distinct
<1>3. Locals'
  BY LocalsNext
<1>4. /\ curiosity' \in Seq(NoteType)
      /\ knowledge' \subseteq [of : Subjects \cup Claims, cred : 0 .. 10]
      /\ digest' \subseteq Subjects \cup Claims /\ fresh' \subseteq Subjects \cup Claims
      /\ explored' \in [Subjects -> Nat]
  BY TextsNext
<1> HIDE DEF MemoryType, NoteType
<1>5. QED
  BY <1>1, <1>2, <1>3, <1>4 DEF TypeOK, Locals

\* The digest is written from theories that are in the file, and these only rise.
LEMMA DigestNext ==
  ASSUME Inv, [Next]_vars
  PROVE  DigestIsRemembered'
<1>0. mem \in MemoryType /\ disk \in MemoryType /\ disk' \in MemoryType /\ digest \subseteq Subjects \cup Claims
  BY InvMemory, MovesNext, MovesKeep DEF Inv, TypeOK
<1>1. \A c \in Subjects \cup Claims : /\ disk.theories[c] \in Nat /\ disk'.theories[c] \in Nat
                                      /\ disk.theories[c] <= disk'.theories[c]
  BY <1>0, TheoriesType, MovesNext, MovesKeep
<1>2. \A c \in digest : disk'.theories[c] >= 8
  <2> SUFFICES ASSUME NEW c \in digest PROVE disk'.theories[c] >= 8
    OBVIOUS
  <2>1. disk.theories[c] >= 8 /\ c \in Subjects \cup Claims
    BY <1>0 DEF Inv, DigestIsRemembered
  <2>2. QED
    BY <1>1, <2>1
<1>3. CASE \E approve \in BOOLEAN : ProposeSoul(approve)
  <2>1. pc = "propose" /\ disk' = disk /\ digest' \in {digest, StableTheories}
    BY <1>3 DEF ProposeSoul
  <2>2. mem = disk
    BY <2>1, InvMemory
  <2>3. \A c \in StableTheories : disk'.theories[c] >= 8
    BY <2>1, <2>2 DEF StableTheories
  <2>4. QED
    BY <1>2, <2>1, <2>3 DEF DigestIsRemembered
<1>4. CASE digest' = digest
  BY <1>2, <1>4 DEF DigestIsRemembered
<1>5. QED
  BY <1>3, <1>4, TextsMove

\* The inductive invariant holds initially, and every step keeps it.
LEMMA InvInit ==
  ASSUME Init
  PROVE  Inv
<1>1. Empty \in MemoryType /\ Empty.notes = << >> /\ Empty.theories = [c \in Subjects \cup Claims |-> 0]
  <2>1. << >> \in Seq(NoteType) /\ << >> \in Seq([of : Subjects, cred : 0 .. 10])
    BY AnswersType
  <2> HIDE DEF NoteType
  <2>2. 0 \in 0 .. 10 /\ {} \in SUBSET Subjects
    OBVIOUS
  <2>3. [c \in Subjects \cup Claims |-> 0] \in [Subjects \cup Claims -> 0 .. 10]
    BY <2>2
  <2>4. QED
    BY <2>1, <2>2, <2>3 DEF Empty, MemoryType
<1>2. Sane(<< >>)
  BY AnswersType DEF Sane, Distinct
<1>3. /\ << >> \in Seq(NoteType) /\ << >> \in Seq(Subjects \cup Claims)
      /\ Nobody.status = "open"
  BY AnswersType DEF Nobody, Note
<1>4. \A i, j \in DOMAIN mem.notes : mem.notes[i].on = mem.notes[j].on => i = j
  BY <1>1 DEF Init
<1>5. TypeOK
  <2> HIDE DEF NoteType, MemoryType, Empty, Nobody
  <2>1. QED
    BY <1>1, <1>3, <1>4 DEF Init, TypeOK, Steps, Modes, Verdicts
<1>6. Memories
  <2>1. 0 <= 0
    OBVIOUS
  <2>2. QED
    BY <1>1, <1>2, <2>1 DEF Init, Memories, Grows
<1>7. Busy /\ Tried /\ DigestIsRemembered
  BY DEF Init, Busy, Tried, DigestIsRemembered, Working
<1>8. QED
  BY <1>5, <1>6, <1>7 DEF Inv

\* So it always holds.
THEOREM InvHolds == Spec => []Inv
<1>1. Init => Inv
  BY InvInit
<1>2. Inv /\ [Next]_vars => Inv'
  <2> SUFFICES ASSUME Inv, [Next]_vars PROVE Inv'
    OBVIOUS
  <2>1. Memories'
    BY MovesNext, MovesKeep
  <2>2. QED
    BY <2>1, TypeNext, BusyNext, TriedNext, DigestNext DEF Inv
<1>3. QED
  BY <1>1, <1>2, PTL DEF Spec

-----------------------------------------------------------------------------
(* What it says.                                                           *)

\* The variables have their types, however commands end (Evolution!TypeOK).
THEOREM Typed == Spec => []TypeOK
<1>1. Inv => TypeOK
  BY DEF Inv
<1>2. QED
  BY <1>1, InvHolds, PTL

\* No question is explored twice, in one life or in several, whatever is killed
\* (cycle, _set_status, MemoryStore.add).
THEOREM OnceKept == Spec => []ExploredOnce
<1>1. Inv => ExploredOnce
  <2> SUFFICES ASSUME Inv, NEW c \in Subjects PROVE explored[c] <= 1
    BY DEF ExploredOnce
  <2>1. explored[c] \in Nat
    BY DEF Inv, TypeOK
  <2>2. explored[c] > 0 => explored[c] = 1
    BY DEF Inv, Tried
  <2>3. QED
    BY <2>1, <2>2
<1>2. QED
  BY <1>1, InvHolds, PTL

\* The notes of memory are a forest no deeper than max_depth (_decompose, add).
THEOREM TreeKept == Spec => []TreeSound
<1>1. Inv => TreeSound
  <2> SUFFICES ASSUME Inv PROVE TreeSound
    OBVIOUS
  <2>1. \A i \in DOMAIN mem.notes : Hangs(mem.notes[i], mem.notes, i - 1)
    BY DEF Inv, Memories, Sane
  <2>2. QED
    BY <2>1 DEF TreeSound, Hangs
<1>2. QED
  BY <1>1, InvHolds, PTL

\* A step of the file: no note goes, changes what it says or is opened again, and no
\* theory weakens.
FileGrows ==
  /\ Grows(disk.notes, disk'.notes)
  /\ \A c \in Subjects \cup Claims : disk.theories[c] <= disk'.theories[c]

\* Whatever is killed or interrupted, the file of memory only grows
\* (MemoryStore.add, _set_status, transaction).
THEOREM FileKept == Spec => [][FileGrows]_vars
<1>1. Inv /\ [Next]_vars => [FileGrows]_vars
  BY MovesNext, MovesKeep DEF FileGrows
<1>2. QED
  BY <1>1, InvHolds, PTL DEF Spec

\* The digest states only theories that are credible in the file (propose, apply).
THEOREM DigestKept == Spec => []DigestIsRemembered
<1>1. Inv => DigestIsRemembered
  BY DEF Inv
<1>2. QED
  BY <1>1, InvHolds, PTL

-----------------------------------------------------------------------------
(* The two views that a life leaves.                                       *)

\* They are those of its file through the window of write_sediment.
Views ==
  pc = "over" =>
    /\ curiosity = Candidates(disk.notes, SedimentWindow)
    /\ \A i \in DOMAIN disk.beliefs : disk.beliefs[i] \in knowledge
    /\ \A k \in knowledge : k.of \in Claims => k.cred = disk.theories[k.of]

\* The last thing a life does is to write them, and nothing changes the file after.
LEMMA ViewsNext ==
  ASSUME Inv, Views, [Next]_vars
  PROVE  Views'
<1>1. CASE WriteSediment /\ pc' = "over"
  <2>1. pc = "finally" /\ disk' = disk /\ Project
    BY <1>1 DEF WriteSediment
  <2>2. mem = disk /\ mem \in MemoryType
    BY <2>1, InvMemory
  <2>3. curiosity' = Candidates(disk'.notes, SedimentWindow)
    BY <2>1, <2>2 DEF Project
  <2>4. knowledge' = Settled
    BY <2>1 DEF Project
  <2>5. mem.beliefs \in Seq([of : Subjects, cred : 0 .. 10])
    BY <2>2 DEF MemoryType
  <2>6. ASSUME NEW i \in DOMAIN mem.beliefs
        PROVE  /\ mem.beliefs[i] = [of |-> mem.beliefs[i].of, cred |-> mem.beliefs[i].cred]
               /\ mem.beliefs[i].of \in Subjects
    <3> DEFINE B == [of : Subjects, cred : 0 .. 10]
               b == mem.beliefs
    <3>1. b \in Seq(B)
      BY <2>5
    <3>2. \A r \in B : r = [of |-> r.of, cred |-> r.cred] /\ r.of \in Subjects
      OBVIOUS
    <3> HIDE DEF B, b
    <3>3. i \in DOMAIN b => b[i] \in B
      BY <3>1
    <3>4. QED
      BY <2>6, <3>2, <3>3 DEF b
  <2>7. \A i \in DOMAIN mem.beliefs : mem.beliefs[i] \in Settled
    BY <2>6 DEF Settled
  <2>8. \A k \in Settled : k.of \in Claims => k.cred = mem.theories[k.of]
    <3> SUFFICES ASSUME NEW k \in Settled, k.of \in Claims PROVE k.cred = mem.theories[k.of]
      OBVIOUS
    <3>1. CASE \E i \in DOMAIN mem.beliefs : k = [of |-> mem.beliefs[i].of, cred |-> mem.beliefs[i].cred]
      <4>1. k.of \in Subjects
        BY <2>6, <3>1
      <4>2. QED
        BY <4>1, EvolutionAssumption
    <3>2. CASE \E c \in Claims : k = [of |-> c, cred |-> mem.theories[c]]
      BY <3>2
    <3>3. QED
      BY <3>1, <3>2 DEF Settled
  <2>9. QED
    BY <2>1, <2>2, <2>3, <2>4, <2>7, <2>8 DEF Views
<1>2. CASE sediment' = sediment /\ (pc' = "over" => pc = "over" /\ disk' = disk)
  BY <1>2 DEF Views, sediment
<1>3. CASE pc' # "over"
  BY <1>3 DEF Views
<1>4. QED
  BY <1>1, <1>2, <1>3, TextsMove

\* Whatever is cut, a life that ends by itself leaves the views of its file.
THEOREM ViewsKept == Spec => []Views
<1>1. Init => Views
  BY DEF Init, Views
<1>2. Inv /\ Views /\ [Next]_vars => Views'
  BY ViewsNext
<1>3. QED
  BY <1>1, <1>2, InvHolds, PTL DEF Spec

\* curiosity.md lists what the next life will schedule, as long as memory has no more
\* notes than the window that schedules, 50 in the code; beyond that write_sediment,
\* whose window is 500, lists more (open_candidates, write_sediment).
THEOREM SedimentKept ==
  ASSUME Window <= SedimentWindow
  PROVE  Spec => [](Len(disk.notes) <= Window => SedimentIsCurrent)
<1>1. ASSUME Inv, Views, Len(disk.notes) <= Window PROVE SedimentIsCurrent
  <2> DEFINE notes == disk.notes
  <2>1. notes \in Seq(NoteType)
    BY <1>1, InvMemory DEF Sane
  <2>2. /\ Window \in Nat /\ SedimentWindow \in Nat /\ Len(notes) \in Nat
        /\ Len(notes) <= Window /\ Len(notes) <= SedimentWindow
    <3>1. Window \in Nat /\ SedimentWindow \in Nat
      BY EvolutionAssumption
    <3>2. Len(notes) \in Nat
      BY <2>1
    <3>3. QED
      BY <1>1, <3>1, <3>2
  <2> HIDE DEF notes
  <2>3. Candidates(notes, Window) = Candidates(notes, SedimentWindow)
    BY <2>1, <2>2, NothingCut
  <2>4. QED
    BY <1>1, <2>3 DEF Views, SedimentIsCurrent, notes
<1>2. QED
  BY <1>1, InvHolds, ViewsKept, PTL

\* So always, when there are no more subjects than that window.
THEOREM SedimentKeptOfFew ==
  ASSUME IsFiniteSet(Subjects), Cardinality(Subjects) <= Window, Window <= SedimentWindow
  PROVE  Spec => []SedimentIsCurrent
<1>1. ASSUME Inv PROVE Len(disk.notes) <= Window
  <2> DEFINE notes == disk.notes
             f == [i \in 1 .. Len(notes) |-> notes[i].on]
  <2>1. notes \in Seq(NoteType) /\ Distinct(notes)
    BY <1>1, InvMemory DEF Sane
  <2>2. Len(notes) \in Nat /\ DOMAIN notes = 1 .. Len(notes)
    BY <2>1
  <2>3. ASSUME NEW i \in 1 .. Len(notes) PROVE notes[i].on \in Subjects
    <3>1. notes[i] \in NoteType
      BY <2>1, <2>3
    <3>2. QED
      BY <3>1 DEF NoteType
  <2>4. f \in [1 .. Len(notes) -> Subjects]
    BY <2>3
  <2>5. \A i, j \in 1 .. Len(notes) : f[i] = f[j] => i = j
    BY <2>1, <2>2 DEF Distinct
  <2>6. Len(notes) <= Cardinality(Subjects)
    <3> DEFINE l == Len(notes)
    <3>1. l \in Nat /\ f \in [1 .. l -> Subjects] /\ \A i, j \in 1 .. l : f[i] = f[j] => i = j
      BY <2>2, <2>4, <2>5
    <3> HIDE DEF l, f
    <3>2. l <= Cardinality(Subjects)
      BY <3>1, Pigeons
    <3>3. QED
      BY <3>2 DEF l
  <2>7. Window \in Nat /\ Cardinality(Subjects) \in Nat
    BY EvolutionAssumption, FS_CardinalityType
  <2>8. QED
    BY <2>2, <2>6, <2>7
<1>2. QED
  BY <1>1, InvHolds, SedimentKept, PTL

-----------------------------------------------------------------------------
(* The oldest goes first.                                                  *)

Kinds == {Questions, Contradictions}

\* No elder of c's kind, as high and within reach, is open.
FirstOf(notes, c) ==
  \A kind \in Kinds : \A i \in Latest(notes, kind, Window) :
    notes[i].status = "open" =>
      \A j \in i + 1 .. Len(notes) :
        notes[j].on = c /\ c \in kind => notes[j].depth < notes[i].depth

\* Every open note within reach is at level k or below.
DeepAs(notes, k) ==
  \A kind \in Kinds : \A i \in Latest(notes, kind, Window) :
    notes[i].status = "open" => notes[i].depth >= k

\* A level that gives no candidate has no open note within reach.
LEMMA NoneAt ==
  ASSUME NEW notes, Sane(notes), NEW kind, NEW k \in Nat,
         Only(notes, OpenAt(k, notes, kind, Window)) = << >>
  PROVE  \A i \in Latest(notes, kind, Window) :
           ~(notes[i].status = "open" /\ notes[i].depth = k)
<1> DEFINE S == OpenAt(k, notes, kind, Window)
<1>1. notes \in Seq(NoteType)
  BY DEF Sane
<1>2. Range(Only(notes, S)) = Range(notes) \cap S
  BY <1>1, OnlyRange
<1>3. Range(<< >>) = {}
  BY DEF Range
<1>4. Range(notes) \cap S = {}
  BY <1>2, <1>3
<1>5. \A i \in Latest(notes, kind, Window) : i \in DOMAIN notes
  BY DEF Latest
<1>6. QED
  BY <1>4, <1>5 DEF Range, OpenAt

\* The first candidate of a kind at the highest level that has one is the oldest.
LEMMA HeadFirst ==
  ASSUME NEW notes, Sane(notes), NEW kind \in Kinds, NEW k \in Nat, DeepAs(notes, k),
         Only(notes, OpenAt(k, notes, kind, Window)) # << >>
  PROVE  FirstOf(notes, Only(notes, OpenAt(k, notes, kind, Window))[1].on)
<1> DEFINE S == OpenAt(k, notes, kind, Window)
<1>1. notes \in Seq(NoteType) /\ Len(notes) \in Nat /\ DOMAIN notes = 1 .. Len(notes)
  BY DEF Sane
<1>2. PICK m \in DOMAIN notes : /\ notes[m] \in S /\ Only(notes, S)[1] = notes[m]
                                /\ \A i \in 1 .. m - 1 : notes[i] \notin S
  BY <1>1, OnlyHead
<1>3. PICK p \in Latest(notes, kind, Window) :
        notes[p] = notes[m] /\ notes[p].status = "open" /\ notes[p].depth = k
  BY <1>2 DEF OpenAt
<1>4. p = m /\ notes[m].on \in kind
  BY <1>3 DEF Latest, Sane, Distinct
<1>5. SUFFICES ASSUME NEW other \in Kinds, NEW i \in Latest(notes, other, Window),
                      notes[i].status = "open", NEW j \in i + 1 .. Len(notes),
                      notes[j].on = notes[m].on, notes[m].on \in other
               PROVE  notes[j].depth < notes[i].depth
  BY <1>2 DEF FirstOf
<1>6. i \in DOMAIN notes /\ i \in 1 .. Len(notes)
  BY <1>1 DEF Latest
<1>7. j = m /\ other = kind
  <2>1. j \in DOMAIN notes
    BY <1>1, <1>6
  <2>2. j = m
    BY <1>5, <2>1 DEF Sane, Distinct
  <2>3. other = kind
    BY <1>4, <1>5, EvolutionAssumption DEF Kinds
  <2>4. QED
    BY <2>2, <2>3
<1>8. i \in 1 .. m - 1
  BY <1>1, <1>6, <1>7
<1>9. notes[i].depth # k
  BY <1>2, <1>5, <1>7, <1>8 DEF OpenAt
<1>10. notes[i].depth >= k /\ notes[i].depth \in Nat
  <2>1. notes[i] \in NoteType
    BY <1>1, <1>6
  <2>2. QED
    BY <1>5, <2>1 DEF DeepAs, NoteType
<1>11. notes[j].depth = k
  BY <1>3, <1>4, <1>7
<1>12. QED
  BY <1>9, <1>10, <1>11

\* What open_candidates() puts first has no open elder.
LEMMA CandidatesHead ==
  ASSUME NEW notes, Sane(notes), Candidates(notes, Window) # << >>
  PROVE  FirstOf(notes, Candidates(notes, Window)[1].on)
<1> DEFINE L == MaxDepth + 1
           f == OpenBelow(notes, Window)
           a(k) == Only(notes, OpenAt(k, notes, Contradictions, Window))
           b(k) == Only(notes, OpenAt(k, notes, Questions, Window))
           N == {k \in 0 .. L : /\ f[k] \in Seq(NoteType)
                                /\ \/ f[k] = << >> /\ DeepAs(notes, k)
                                   \/ Len(f[k]) > 0 /\ FirstOf(notes, f[k][1].on)}
<1>0. notes \in Seq(NoteType) /\ Len(notes) \in Nat /\ DOMAIN notes = 1 .. Len(notes)
  BY DEF Sane
<1>1. /\ L \in Nat /\ f[0] = << >>
      /\ \A k \in 0 .. L : k < L => f[k + 1] = f[k] \o a(k) \o b(k)
  BY BelowSteps
<1>2. \A k : a(k) \in Seq(NoteType) /\ b(k) \in Seq(NoteType)
  BY <1>0, OnlyRange
<1>3. \A i \in DOMAIN notes : notes[i].depth \in Nat
  <2> SUFFICES ASSUME NEW i \in DOMAIN notes PROVE notes[i].depth \in Nat
    OBVIOUS
  <2>1. notes[i] \in NoteType
    BY <1>0
  <2>2. QED
    BY <2>1 DEF NoteType
<1>4. 0 \in N
  <2>1. f[0] \in Seq(NoteType)
    <3>1. \A q : q = << >> => q \in Seq(NoteType)
      OBVIOUS
    <3>2. QED
      BY <1>1, <3>1
  <2>2. DeepAs(notes, 0)
    BY <1>3 DEF DeepAs, Latest
  <2>3. 0 \in 0 .. L
    BY <1>1
  <2>4. QED
    BY <1>1, <2>1, <2>2, <2>3
<1>5. ASSUME NEW k \in 0 .. L, k \in N, k < L PROVE k + 1 \in N
  <2>1. f[k + 1] = f[k] \o a(k) \o b(k) /\ k + 1 \in 0 .. L /\ k \in Nat
    BY <1>1, <1>5
  <2>2. f[k] \in Seq(NoteType) /\ a(k) \in Seq(NoteType) /\ b(k) \in Seq(NoteType)
    BY <1>2, <1>5
  <2>3. \A x, y, z \in Seq(NoteType) :
          /\ x \o y \o z \in Seq(NoteType)
          /\ Len(x) > 0 => Len(x \o y \o z) > 0 /\ (x \o y \o z)[1] = x[1]
          /\ x = << >> /\ y # << >> => Len(x \o y \o z) > 0 /\ (x \o y \o z)[1] = y[1]
          /\ x = << >> /\ y = << >> /\ z # << >> => Len(x \o y \o z) > 0 /\ (x \o y \o z)[1] = z[1]
          /\ x = << >> /\ y = << >> /\ z = << >> => x \o y \o z = << >>
    OBVIOUS
  <2>4. CASE Len(f[k]) > 0 /\ FirstOf(notes, f[k][1].on)
    <3> HIDE DEF f, a, b, L
    <3>1. f[k + 1] \in Seq(NoteType) /\ Len(f[k + 1]) > 0 /\ f[k + 1][1] = f[k][1]
      BY <2>1, <2>2, <2>3, <2>4
    <3>2. QED
      BY <2>1, <2>4, <3>1
  <2>5. CASE f[k] = << >> /\ DeepAs(notes, k)
    <3>1. CASE a(k) # << >>
      <4>1. FirstOf(notes, a(k)[1].on)
        BY <2>1, <2>5, <3>1, HeadFirst DEF Kinds
      <4> HIDE DEF f, a, b, L
      <4>2. f[k + 1] \in Seq(NoteType) /\ Len(f[k + 1]) > 0 /\ f[k + 1][1] = a(k)[1]
        BY <2>1, <2>2, <2>3, <2>5, <3>1
      <4>3. QED
        BY <2>1, <4>1, <4>2
    <3>2. CASE a(k) = << >> /\ b(k) # << >>
      <4>1. FirstOf(notes, b(k)[1].on)
        BY <2>1, <2>5, <3>2, HeadFirst DEF Kinds
      <4> HIDE DEF f, a, b, L
      <4>2. f[k + 1] \in Seq(NoteType) /\ Len(f[k + 1]) > 0 /\ f[k + 1][1] = b(k)[1]
        BY <2>1, <2>2, <2>3, <2>5, <3>2
      <4>3. QED
        BY <2>1, <4>1, <4>2
    <3>3. CASE a(k) = << >> /\ b(k) = << >>
      <4>1. \A kind \in Kinds : \A i \in Latest(notes, kind, Window) :
              ~(notes[i].status = "open" /\ notes[i].depth = k)
        BY <2>1, <3>3, NoneAt DEF Kinds
      <4>2. DeepAs(notes, k + 1)
        <5> SUFFICES ASSUME NEW kind \in Kinds, NEW i \in Latest(notes, kind, Window),
                            notes[i].status = "open"
                     PROVE  notes[i].depth >= k + 1
          BY DEF DeepAs
        <5>1. notes[i].depth >= k /\ notes[i].depth # k
          BY <2>5, <4>1 DEF DeepAs
        <5>2. notes[i].depth \in Nat
          BY <1>3 DEF Latest
        <5>3. QED
          BY <2>1, <5>1, <5>2
      <4> HIDE DEF f, a, b, L
      <4>3. f[k + 1] = << >> /\ f[k + 1] \in Seq(NoteType)
        BY <2>1, <2>2, <2>3, <2>5, <3>3
      <4>4. QED
        BY <2>1, <4>2, <4>3
    <3>4. QED
      BY <3>1, <3>2, <3>3
  <2>6. QED
    BY <1>5, <2>4, <2>5
<1>6. L \in N
  <2> HIDE DEF N, L
  <2>1. \A n \in 0 .. L : n \in N
    BY <1>1, <1>4, <1>5, Induct
  <2>2. QED
    BY <1>1, <2>1
<1>7. QED
  BY <1>6 DEF Candidates

\* A new note takes none of the older ones into the reach of the window.
LEMMA LatestShrinks ==
  ASSUME NEW notes \in Seq(NoteType), NEW n \in NoteType, NEW kind,
         NEW i \in Latest(Append(notes, n), kind, Window), i <= Len(notes)
  PROVE  i \in Latest(notes, kind, Window)
<1> DEFINE r == Append(notes, n)
           l == Len(notes)
           Old == {j \in DOMAIN notes : j > i /\ notes[j].on \in kind}
           New == {j \in DOMAIN r : j > i /\ r[j].on \in kind}
<1>1. /\ l \in Nat /\ DOMAIN notes = 1 .. l /\ DOMAIN r = 1 .. l + 1
      /\ \A j \in 1 .. l : r[j] = notes[j]
  OBVIOUS
<1>2. i \in DOMAIN r /\ r[i].on \in kind /\ Cardinality(New) < Window
  BY DEF Latest
<1>3. i \in DOMAIN notes /\ notes[i].on \in kind
  BY <1>1, <1>2
<1> HIDE DEF r
<1>4. Old \subseteq New
  BY <1>1
<1>5. IsFiniteSet(New)
  <2>1. IsFiniteSet(1 .. l + 1)
    <3>1. 1 \in Int /\ l + 1 \in Int
      BY <1>1
    <3> HIDE DEF l
    <3>2. QED
      BY <3>1, FS_Interval
  <2>2. New \in SUBSET (1 .. l + 1)
    BY <1>1
  <2>3. QED
    BY <2>1, <2>2, FS_Subset
<1>6. Cardinality(Old) < Window
  <2> HIDE DEF Old, New
  <2>1. Cardinality(Old) <= Cardinality(New) /\ IsFiniteSet(Old)
    BY <1>4, <1>5, FS_Subset
  <2>2. Cardinality(Old) \in Nat /\ Cardinality(New) \in Nat /\ Window \in Nat
    BY <1>5, <2>1, FS_CardinalityType, EvolutionAssumption
  <2>3. QED
    BY <1>2, <2>1, <2>2
<1>7. QED
  BY <1>3, <1>6 DEF Latest

\* A note that is added is open, and so makes no one wait (add).
LEMMA RememberElders ==
  ASSUME NEW notes, Sane(notes), EldersFirst(notes), NEW n \in NoteType, n.status = "open"
  PROVE  EldersFirst(Remember(notes, n))
<1> DEFINE r == Append(notes, n)
           l == Len(notes)
<1>1. notes \in Seq(NoteType) /\ l \in Nat /\ DOMAIN notes = 1 .. l
  BY DEF Sane
<1>2. /\ DOMAIN r = 1 .. l + 1 /\ Len(r) = l + 1 /\ r[l + 1] = n
      /\ \A j \in 1 .. l : r[j] = notes[j]
  BY <1>1
<1>3. CASE Remember(notes, n) = notes
  BY <1>3
<1>4. CASE Remember(notes, n) = r
  <2>1. SUFFICES ASSUME NEW kind \in {Questions, Contradictions},
                        NEW i \in Latest(r, kind, Window), r[i].status = "open",
                        NEW j \in i + 1 .. Len(r), r[j].on \in kind, r[j].depth >= r[i].depth
                 PROVE  r[j].status = "open"
    BY <1>4 DEF EldersFirst
  <2>2. i \in 1 .. l + 1
    BY <1>2 DEF Latest
  <2>3. i \in 1 .. l /\ (j \in i + 1 .. l \/ j = l + 1)
    BY <1>1, <1>2, <2>2
  <2>4. CASE j = l + 1
    BY <1>2, <2>4
  <2>5. CASE j \in i + 1 .. l
    <3>1. i \in Latest(notes, kind, Window)
      BY <1>1, <2>3, LatestShrinks
    <3>2. j \in 1 .. l
      BY <1>1, <2>3, <2>5
    <3>3. r[i] = notes[i] /\ r[j] = notes[j]
      BY <1>2, <2>3, <3>2
    <3> HIDE DEF r
    <3>4. QED
      BY <2>1, <2>5, <3>1, <3>3 DEF EldersFirst
  <2>6. QED
    BY <2>3, <2>4, <2>5
<1>5. QED
  BY <1>3, <1>4 DEF Remember

\* A note that is shut had no open elder, or was shut already (_set_status).
LEMMA SetStatusElders ==
  ASSUME NEW notes, Sane(notes), EldersFirst(notes), NEW c,
         FirstOf(notes, c) \/ Shut(notes, c), NEW status \in Statuses \ {"open"}
  PROVE  EldersFirst(SetStatus(notes, c, status))
<1> DEFINE r == SetStatus(notes, c, status)
<1>1. /\ notes \in Seq(NoteType) /\ Len(notes) \in Nat /\ DOMAIN notes = 1 .. Len(notes)
      /\ \A i \in 1 .. Len(notes) : notes[i] \in NoteType
  BY DEF Sane
<1>2. r = [i \in 1 .. Len(notes) |->
             IF notes[i].on = c THEN [notes[i] EXCEPT !.status = status] ELSE notes[i]]
  BY <1>1 DEF SetStatus
<1>3. \A n \in NoteType : /\ [n EXCEPT !.status = status].on = n.on
                          /\ [n EXCEPT !.status = status].depth = n.depth
                          /\ [n EXCEPT !.status = status].status = status
  BY DEF NoteType
<1> HIDE DEF r
<1>4. /\ DOMAIN r = DOMAIN notes
      /\ \A i \in 1 .. Len(notes) :
           /\ r[i].on = notes[i].on /\ r[i].depth = notes[i].depth
           /\ r[i].status = IF notes[i].on = c THEN status ELSE notes[i].status
  BY <1>1, <1>2, <1>3
<1>5. Len(r) = Len(notes)
  BY <1>1, <1>2
<1>6. \A kind : Latest(r, kind, Window) = Latest(notes, kind, Window)
  <2> TAKE kind
  <2>1. \A i : {j \in DOMAIN r : j > i /\ r[j].on \in kind}
                 = {j \in DOMAIN notes : j > i /\ notes[j].on \in kind}
    BY <1>1, <1>4
  <2>2. QED
    BY <1>1, <1>4, <2>1 DEF Latest
<1>7. SUFFICES ASSUME NEW kind \in {Questions, Contradictions},
                      NEW i \in Latest(r, kind, Window), r[i].status = "open",
                      NEW j \in i + 1 .. Len(r), r[j].on \in kind, r[j].depth >= r[i].depth
               PROVE  r[j].status = "open"
  BY DEF EldersFirst, r
<1>8. i \in Latest(notes, kind, Window) /\ i \in 1 .. Len(notes)
  <2>1. i \in Latest(notes, kind, Window)
    BY <1>6, <1>7
  <2>2. QED
    BY <1>1, <2>1 DEF Latest
<1>9. j \in i + 1 .. Len(notes) /\ j \in 1 .. Len(notes)
  BY <1>1, <1>5, <1>8
<1>10. notes[i].status = "open"
  BY <1>4, <1>7, <1>8
<1>11. /\ notes[j].on \in kind /\ notes[j].depth >= notes[i].depth
       /\ notes[i].depth \in Nat /\ notes[j].depth \in Nat
  BY <1>1, <1>4, <1>7, <1>8, <1>9 DEF NoteType
<1>12. notes[j].status = "open"
  BY <1>8, <1>9, <1>10, <1>11 DEF EldersFirst
<1>13. notes[j].on # c
  <2> SUFFICES ASSUME notes[j].on = c PROVE FALSE
    OBVIOUS
  <2>1. ~Shut(notes, c)
    BY <1>1, <1>9, <1>12 DEF Shut, Sane, Distinct
  <2>2. notes[j].depth < notes[i].depth \/ Shut(notes, c)
    BY <1>8, <1>9, <1>10, <1>11 DEF FirstOf, Kinds
  <2>3. FALSE
    BY <1>11, <2>1, <2>2
  <2>4. QED
    BY <2>3
<1>14. QED
  BY <1>4, <1>9, <1>12, <1>13

\* The steps of an exploration at which its note is shut.
Settling == {"run", "flush", "judge", "record", "split", "subs"}

\* A note is added; or the one worked on is shut, by MarkTesting or later.
Adds == \E n \in NoteType : n.status = "open" /\ mem'.notes = Remember(mem.notes, n)
Shuts == /\ pc \in Settling \cup {"mark"}
         /\ \E s \in Statuses \ {"open"} : mem'.notes = SetStatus(mem.notes, picked.on, s)

\* What a step does to the notes.
NotesMove ==
  /\ mem'.notes \in {mem.notes, disk.notes} \/ Adds \/ Shuts
  /\ disk'.notes \in {disk.notes, mem.notes, mem'.notes}
  /\ pc' \in Settling \ {"run"} => pc \in Settling

\* Every step does one of these.
LEMMA NotesNext ==
  ASSUME Inv, [Next]_vars
  PROVE  NotesMove
<1> USE DEF files, Settling
<1>0. mem \in MemoryType
  BY InvMemory
<1>1. \A notes : [mem EXCEPT !.notes = notes].notes = notes
  BY <1>0 DEF MemoryType
<1>2. \A c \in Subjects : Note(c, 0, None) \in NoteType /\ Note(c, 0, None).status = "open"
  BY RootHangs DEF Note
<1>3. ASSUME NEW c \in Subjects, mem' = [mem EXCEPT !.notes = Remember(@, Note(c, 0, None))]
      PROVE  Adds
  BY <1>1, <1>2, <1>3 DEF Adds
<1>4. CASE UNCHANGED vars
  BY <1>4 DEF vars, NotesMove
<1>5. CASE \E m \in Modes : Begin(m)
  BY <1>5 DEF Begin, NotesMove
<1>6. CASE SeedNext
  <2>1. Head(todo) \in Subjects
    BY <1>6 DEF Inv, Busy, SeedNext, Subjects
  <2>2. QED
    BY <1>3, <1>6, <2>1 DEF SeedNext, Save, NotesMove
<1>7. CASE Seeded
  BY <1>7 DEF Seeded, Goto, NotesMove
<1>8. CASE CycleBegins
  BY <1>8 DEF CycleBegins, NotesMove
<1>9. CASE GateOpens
  BY <1>9 DEF GateOpens, NotesMove
<1>10. CASE GateCloses
  BY <1>10 DEF GateCloses, NotesMove
<1>11. CASE Design
  <2>1. mem'.notes = mem.notes /\ disk'.notes \in {disk.notes, mem'.notes}
    BY <1>0, <1>11 DEF Design, Save, MemoryType
  <2>2. QED
    BY <1>11, <2>1 DEF Design, NotesMove
<1>12. CASE MarkTesting
  <2>1. mem'.notes = SetStatus(mem.notes, picked.on, "testing")
    BY <1>1, <1>12 DEF MarkTesting, Save
  <2>2. Shuts
    BY <1>12, <2>1 DEF MarkTesting, Shuts, Statuses
  <2>3. QED
    BY <1>12, <2>2 DEF MarkTesting, Save, NotesMove
<1>13. CASE Explore
  <2>1. CASE UNCHANGED <<mem, fresh>>
    BY <1>13, <2>1 DEF Explore, NotesMove
  <2>2. CASE mem' = Reflected(mem)
    <3>1. mem'.notes = SetStatus(mem.notes, picked.on, "resolved")
      BY <1>0, <2>2 DEF Reflected, MemoryType
    <3>2. Shuts
      BY <1>13, <3>1 DEF Explore, Shuts, Statuses
    <3>3. QED
      BY <1>13, <3>2 DEF Explore, NotesMove
  <2>3. QED
    BY <1>13, <2>1, <2>2 DEF Explore
<1>14. CASE AddContradiction
  <2>1. Head(todo) \in Subjects
    BY <1>14 DEF AddContradiction, Inv, Busy, Subjects
  <2>2. QED
    BY <1>3, <1>14, <2>1 DEF AddContradiction, NotesMove
<1>15. CASE BatchEnds
  BY <1>15 DEF BatchEnds, NotesMove
<1>16. CASE \E v \in Verdicts : Adjudicate(v)
  <2>1. mem'.notes = mem.notes /\ disk' = mem' /\ pc \in Settling
    BY <1>0, <1>16 DEF Adjudicate, Save, MemoryType
  <2>2. QED
    BY <2>1 DEF NotesMove
<1>17. CASE RecordExperiment
  <2>1. mem'.notes = mem.notes /\ disk' = mem' /\ pc \in Settling
    BY <1>0, <1>17 DEF RecordExperiment, Save, MemoryType
  <2>2. QED
    BY <2>1 DEF NotesMove
<1>18. CASE SplitsNot
  BY <1>18 DEF SplitsNot, NotesMove
<1>19. CASE \E qs \in Answers(Questions) : Splits(qs) \/ Wonder(qs)
  BY <1>19 DEF Splits, Wonder, NotesMove
<1>20. CASE AddSubQuestion
  <2> DEFINE n == Note(Head(todo), picked.depth + 1, picked.on)
  <2>1. Head(todo) \in Questions
    BY <1>20 DEF Inv, Busy, AddSubQuestion
  <2>2. picked.on \in Subjects /\ picked.depth \in Nat
    BY <1>20, InvMemory DEF AddSubQuestion, Working
  <2>3. n \in NoteType /\ n.status = "open"
    BY <2>1, <2>2 DEF Note, NoteType, Statuses, Subjects
  <2>4. mem'.notes = Remember(mem.notes, n) /\ disk' = mem' /\ pc \in Settling
    BY <1>1, <1>20 DEF AddSubQuestion, Save
  <2> HIDE DEF n
  <2>5. QED
    BY <2>3, <2>4 DEF NotesMove, Adds
<1>21. CASE Decomposed
  <2>1. mem'.notes = SetStatus(mem.notes, picked.on, "decomposed")
    BY <1>1, <1>21 DEF Decomposed, Save
  <2>2. Shuts
    BY <1>21, <2>1 DEF Decomposed, Shuts, Statuses
  <2>3. QED
    BY <1>21, <2>2 DEF Decomposed, Save, NotesMove
<1>22. CASE CycleEnds
  BY <1>22 DEF CycleEnds, NotesMove
<1>23. CASE NoDream
  BY <1>23 DEF NoDream, Goto, NotesMove
<1>24. CASE \E lines \in Answers(Questions \cup Claims) : Dream(lines)
  BY <1>24 DEF Dream, NotesMove
<1>25. CASE AddIdea
  <2>1. Head(todo) \in Subjects \cup Claims
    BY <1>25 DEF Inv, TypeOK, AddIdea
  <2>2. CASE Head(todo) \in Claims
    <3>1. mem'.notes = mem.notes /\ disk' = mem'
      BY <1>0, <1>25, <2>2 DEF AddIdea, Save, MemoryType
    <3>2. QED
      BY <1>25, <3>1 DEF AddIdea, NotesMove
  <2>3. CASE Head(todo) \notin Claims
    BY <1>3, <1>25, <2>1, <2>3 DEF AddIdea, Save, NotesMove
  <2>4. QED
    BY <2>2, <2>3
<1>26. CASE WriteSediment
  BY <1>26 DEF WriteSediment, NotesMove
<1>27. CASE \E approve \in BOOLEAN : ProposeSoul(approve)
  BY <1>27 DEF ProposeSoul, NotesMove
<1>28. CASE StopCheck
  BY <1>28 DEF StopCheck, Goto, NotesMove
<1>29. CASE Interrupt
  BY <1>29 DEF Interrupt, NotesMove
<1>30. CASE Kill
  BY <1>30 DEF Kill, NotesMove
<1>31. CASE WeekPasses
  BY <1>31 DEF WeekPasses, Running, NotesMove
<1>32. QED
  BY <1>4, <1>5, <1>6, <1>7, <1>8, <1>9, <1>10, <1>11, <1>12, <1>13, <1>14, <1>15, <1>16, <1>17, <1>18, <1>19, <1>20, <1>21, <1>22, <1>23, <1>24, <1>25, <1>26, <1>27, <1>28, <1>29, <1>30, <1>31 DEF Next, Advance

\* The order holds in memory and in the file; what is picked is the first of those in
\* its way, and is shut from MarkTesting to the end of the exploration.
Ordered ==
  /\ EldersFirst(mem.notes) /\ EldersFirst(disk.notes)
  /\ pc \in {"design", "mark"} => FirstOf(mem.notes, picked.on)
  /\ pc \in Settling => Shut(mem.notes, picked.on)

\* What is picked stays the first until it is shut.
LEMMA PickedNext ==
  ASSUME Inv, Ordered, [Next]_vars
  PROVE  pc' \in {"design", "mark"} => FirstOf(mem'.notes, picked'.on)
<1>0. mem \in MemoryType /\ Sane(mem.notes)
  BY InvMemory
<1>1. CASE UNCHANGED vars
  BY <1>1 DEF vars, Ordered
<1>2. CASE GateOpens
  <2> DEFINE cs == Candidates(mem.notes, Window)
  <2>1. cs \in Seq(OpenOnes(mem.notes)) /\ Len(cs) >= MinOpen[mode] /\ picked' = Head(cs)
    BY <1>0, <1>2, CandidatesAreOpen DEF GateOpens, GateIsOpen, Sane
  <2>2. MinOpen[mode] \in Nat \ {0} /\ mem' = mem
    BY <1>2, EvolutionAssumption DEF Inv, TypeOK, GateOpens
  <2>3. cs # << >> /\ Head(cs) = cs[1]
    <3> HIDE DEF cs
    <3>1. Len(cs) # 0
      BY <2>1, <2>2
    <3>2. QED
      BY <2>1, <3>1
  <2>4. FirstOf(mem.notes, cs[1].on)
    BY <1>0, <2>3, CandidatesHead
  <2> HIDE DEF cs
  <2>5. QED
    BY <2>1, <2>2, <2>3, <2>4
<1>3. CASE Design
  <2>1. pc = "design" /\ picked' = picked /\ mem'.notes = mem.notes
    BY <1>0, <1>3 DEF Design, Save, MemoryType
  <2>2. QED
    BY <2>1 DEF Ordered
<1>4. CASE MarkTesting
  BY <1>4 DEF MarkTesting
<1>5. CASE Explore
  BY <1>5 DEF Explore
<1>6. CASE ~UNCHANGED vars /\ ~GateOpens /\ ~Design /\ ~MarkTesting /\ ~Explore
  BY <1>6, OtherSteps
<1>7. QED
  BY <1>1, <1>2, <1>3, <1>4, <1>5, <1>6

\* What is worked on stays shut.
LEMMA ShutNext ==
  ASSUME Inv, Ordered, [Next]_vars
  PROVE  pc' \in Settling => Shut(mem'.notes, picked'.on)
<1>1. CASE pc' = "run"
  BY <1>1, TriedNext DEF Tried
<1>2. CASE pc' \in Settling \ {"run"}
  <2>1. pc \in Settling /\ ~GateOpens
    BY <1>2, NotesNext DEF NotesMove, GateOpens, Settling
  <2>2. picked' = picked
    BY <1>2, <2>1, WorkNext DEF Settling, Working
  <2>3. Shut(mem.notes, picked.on)
    BY <2>1 DEF Ordered
  <2>4. pc # "flush" => mem = disk
    BY InvMemory
  <2>5. Grows(mem.notes, mem'.notes)
    <3>1. Sane(mem.notes) /\ Grows(mem.notes, mem.notes)
      BY InvMemory DEF Grows
    <3>2. pc' \in Working
      BY <1>2 DEF Settling, Working
    <3>3. QED
      BY <3>1, <3>2, MovesNext DEF Moves, Better
  <2>6. QED
    BY <2>2, <2>3, <2>5, GrowsKeeps
<1>3. QED
  BY <1>1, <1>2 DEF Settling

\* The order holds initially.
LEMMA OrderedInit ==
  ASSUME Init
  PROVE  Ordered
<1>1. mem.notes = << >> /\ disk.notes = << >> /\ pc = "off"
  BY DEF Init, Empty
<1>2. EldersFirst(<< >>)
  BY DEF EldersFirst, Latest
<1>3. QED
  BY <1>1, <1>2 DEF Ordered, Settling

\* Every step keeps the order.
LEMMA OrderedNext ==
  ASSUME Inv, Ordered, [Next]_vars
  PROVE  Ordered'
<1>0. Sane(mem.notes) /\ EldersFirst(mem.notes) /\ EldersFirst(disk.notes) /\ NotesMove
  BY InvMemory, NotesNext DEF Ordered
<1>1. EldersFirst(mem'.notes)
  <2>1. CASE mem'.notes \in {mem.notes, disk.notes}
    BY <1>0, <2>1
  <2>2. CASE Adds
    BY <1>0, <2>2, RememberElders DEF Adds
  <2>3. CASE Shuts
    <3>1. FirstOf(mem.notes, picked.on) \/ Shut(mem.notes, picked.on)
      BY <2>3 DEF Shuts, Ordered
    <3>2. QED
      BY <1>0, <2>3, <3>1, SetStatusElders DEF Shuts
  <2>4. QED
    BY <1>0, <2>1, <2>2, <2>3 DEF NotesMove
<1>2. EldersFirst(disk'.notes)
  BY <1>0, <1>1 DEF NotesMove
<1>3. QED
  BY <1>1, <1>2, PickedNext, ShutNext DEF Ordered

\* Whatever is added, answered, interrupted or killed, no note is explored before an
\* elder of its kind, as high and within reach of the window, that is open
\* (open_candidates, add, _set_status).
THEOREM OldestKept == Spec => []OldestFirst
<1>1. Inv /\ Ordered /\ [Next]_vars => Ordered'
  BY OrderedNext
<1>2. Init => Ordered
  BY OrderedInit
<1>3. Ordered => OldestFirst
  BY DEF Ordered, OldestFirst
<1>4. QED
  BY <1>1, <1>2, <1>3, InvHolds, PTL DEF Spec

=============================================================================
