--------------------------- MODULE ToolBatchProofs ---------------------------
(***************************************************************************)
(* Proofs about ToolBatch, for any agents, batches, paths and workers.     *)
(***************************************************************************)
EXTENDS ToolBatch, SubsequencesProofs, FiniteSetTheorems, TLAPS

-----------------------------------------------------------------------------
(* The inductive invariant, in parts.                                      *)

Working == {"holds", "read", "open", "written"}
Open(c) == at[c] \in Running \cup {"queued"}

\* A call at work belongs to the group in progress; a call that is alone is its group.
Groups ==
  \A a \in Agents :
    /\ phase[a] # "group" => group[a] = {}
    /\ \A c \in CallsOf(a) : Open(c) => c \in group[a]
    /\ \A c, d \in group[a] : Alone(c) => c = d

\* What the indices of the batch and of the results say about its calls.
Places ==
  \A a \in Agents :
    /\ Len(results[a]) < next[a]
    /\ \A i \in DOMAIN batch[a] : at[batch[a][i]] = "not" <=> i >= next[a]
    /\ phase[a] \in {"next", "over"} => Len(results[a]) = next[a] - 1
    /\ phase[a] = "over" => next[a] = Len(batch[a]) + 1
    /\ phase[a] = "group" =>
         group[a] = {batch[a][x] : x \in Len(results[a]) + 1 .. next[a] - 1}

\* Results that are in the list are those of calls that have ended.
Collected ==
  \A a \in Agents : \A i \in 1 .. Len(results[a]) :
    at[batch[a][i]] = "ended" /\ results[a][i] = result[batch[a][i]]

\* A call that has ended has said how.
HaveSaid == \A c \in Calls : at[c] = "ended" => result[c].said \in {"ok", "error"}

\* A file tool past its wait has the lock of its path.
Locks ==
  \A c \in Calls :
    /\ at[c] \in Working => Kind[c] \in FileTools /\ holder[PathOf[c]] = c
    /\ at[c] = "holds" => Kind[c] = "edit"

\* What an edit has read is what the writes so far have made of the file, unless one of
\* them has failed.
Reads ==
  \A c \in Calls : Kind[c] = "edit" /\ at[c] \in {"read", "open"} =>
    PathOf[c] \in spoilt \/ seen[c] = ideal[PathOf[c]]

Inv == TypeOK /\ Groups /\ Places /\ Collected /\ HaveSaid /\ Locks /\ Reads /\ NoLostEdit

-----------------------------------------------------------------------------
(* Lemmas about the operators.                                             *)

\* A function on 1 .. n is a sequence of n elements.
LEMMA FunctionIsSeq ==
  ASSUME NEW S, NEW n \in Nat, NEW f \in [1 .. n -> S]
  PROVE  f \in Seq(S) /\ Len(f) = n
<1>1. f \in Seq(S)
  OBVIOUS
<1>2. QED
  BY <1>1

\* The group that begins at i ends in the batch, and has one call, or only calls that
\* are not alone; a call without a tool can only be its last.
LEMMA GroupEndFits ==
  ASSUME NEW s \in Seq(Calls), NEW i \in 1 .. Len(s)
  PROVE  /\ GroupEnd(s, i) \in i .. Len(s)
         /\ \A x \in i .. GroupEnd(s, i) : Alone(s[x]) => GroupEnd(s, i) = i
<1>1. CASE Alone(s[i])
  BY <1>1 DEF GroupEnd
<1>2. CASE ~Alone(s[i])
  <2> DEFINE Ends(j) == j = Len(s) \/ Alone(s[j + 1]) \/ Unknown(s[j])
             T == {j \in i .. Len(s) : Ends(j)}
             Fits(j) == /\ \A x \in i .. j : ~Alone(s[x]) /\ (Unknown(s[x]) => x = j)
                        /\ Ends(j)
  <2>1. T \in SUBSET Nat /\ Len(s) \in T
    OBVIOUS
  <2>2. PICK j \in T : \A x \in T : j <= x
    BY <2>1, LeastNumber
  <2>3. \A x \in i .. j : x # j => ~Ends(x)
    BY <2>2
  <2>4. \A x \in i .. j : ~Alone(s[x])
    <3>1. SUFFICES ASSUME NEW x \in i .. j, Alone(s[x]) PROVE FALSE
      OBVIOUS
    <3>2. x # i /\ x - 1 \in i .. j /\ x - 1 # j /\ (x - 1) + 1 = x
      BY <1>2, <3>1, <2>2
    <3>3. QED
      BY <3>1, <3>2, <2>3
  <2>5. Fits(j)
    BY <2>2, <2>3, <2>4
  <2>6. GroupEnd(s, i) = CHOOSE y \in i .. Len(s) : Fits(y)
    BY <1>2 DEF GroupEnd
  <2>7. GroupEnd(s, i) \in i .. Len(s) /\ Fits(GroupEnd(s, i))
    <3> HIDE DEF Fits
    <3> QED
      BY <2>2, <2>5, <2>6
  <2>8. QED
    BY <2>7
<1>3. QED
  BY <1>1, <1>2

\* A call has one place in one batch.
LEMMA OnePlace ==
  ASSUME TypeOK, NEW a \in Agents, NEW b \in Agents,
         NEW i \in DOMAIN batch[a], NEW j \in DOMAIN batch[b], batch[a][i] = batch[b][j]
  PROVE  a = b /\ i = j
  BY ToolBatchAssumption DEF TypeOK

-----------------------------------------------------------------------------
(* Init and the steps of an agent.                                         *)

LEMMA InitInv == Init => Inv
<1> SUFFICES ASSUME Init PROVE Inv
  OBVIOUS
<1>1. PICK b \in [Agents -> UNION {Batches[a] : a \in Agents}] :
        batch = b /\ \A a \in Agents : b[a] \in Batches[a]
  BY DEF Init
<1>2. batch \in [Agents -> Seq(Calls)] /\ \A a \in Agents : batch[a] \in Batches[a]
  BY <1>1, ToolBatchAssumption
<1>3. TypeOK
  BY <1>2, ToolBatchAssumption DEF Init, TypeOK, Marks
<1>4. Groups
  BY <1>2 DEF Init, Groups, Open, Running, CallsOf, ToSet
<1>5. Places /\ Collected
  BY <1>2 DEF Init, Places, Collected
<1>6. HaveSaid /\ Locks /\ Reads /\ NoLostEdit
  BY <1>2 DEF Init, HaveSaid, Locks, Reads, NoLostEdit, Working
<1>7. QED
  BY <1>3, <1>4, <1>5, <1>6 DEF Inv

\* A step that leaves the files alone and no call at work, and starts none, leaves what
\* is said of the files true.
LEMMA FilesUntouched ==
  ASSUME Inv, UNCHANGED <<seen, files>>, at' \in [Calls -> Running \cup Ended \cup {"not", "queued"}],
         \A c \in Calls : at[c] \in Running \/ at'[c] \in Running => at'[c] = at[c]
  PROVE  Locks' /\ Reads' /\ NoLostEdit'
<1>1. Locks'
  BY DEF Inv, Locks, Working, Running, files
<1>2. Reads'
  BY DEF Inv, Reads, Running, files
<1>3. NoLostEdit'
  BY DEF Inv, NoLostEdit, Running, files
<1>4. QED
  BY <1>1, <1>2, <1>3

LEMMA FormGroupInv ==
  ASSUME Inv, NEW a \in Agents, FormGroup(a)
  PROVE  Inv'
<1> DEFINE j == GroupEnd(batch[a], next[a])
           g == {batch[a][x] : x \in next[a] .. j}
<1>1. /\ TypeOK /\ phase[a] = "next" /\ next[a] \in 1 .. Len(batch[a])
      /\ batch[a] \in Seq(Calls) /\ UNCHANGED <<batch, result, results, seen, files>>
  <2>1. TypeOK /\ phase[a] = "next" /\ next[a] <= Len(batch[a])
        /\ UNCHANGED <<batch, result, results, seen, files>>
    BY DEF Inv, FormGroup
  <2>2. batch[a] \in Seq(Calls) /\ next[a] \in 1 .. Len(batch[a]) + 1
    BY <2>1 DEF TypeOK
  <2>3. QED
    BY <2>1, <2>2
<1>2. j \in next[a] .. Len(batch[a]) /\ \A c, d \in g : Alone(c) => c = d
  <2>1. j \in next[a] .. Len(batch[a])
    BY <1>1, GroupEndFits
  <2>2. \A x \in next[a] .. j : Alone(batch[a][x]) => j = next[a]
    BY <1>1, GroupEndFits
  <2>3. ASSUME NEW c \in g, NEW d \in g, Alone(c) PROVE c = d
    BY <1>1, <2>1, <2>2, <2>3
  <2>4. QED
    BY <2>1, <2>3
<1>3. g \subseteq CallsOf(a) /\ g \subseteq Calls /\ \A c \in g : at[c] = "not"
  <2>1. g \subseteq CallsOf(a) /\ g \subseteq Calls
    BY <1>1, <1>2 DEF CallsOf, ToSet
  <2>2. \A x \in next[a] .. j : at[batch[a][x]] = "not"
    BY <1>1, <1>2 DEF Inv, Places
  <2>3. QED
    BY <2>1, <2>2
<1> HIDE DEF j, g
<1>4. CASE \E c \in g : Unknown(c)
  <2>1. phase' = [phase EXCEPT ![a] = "raised"] /\ UNCHANGED <<next, group, at>>
    BY <1>4 DEF FormGroup, j, g
  <2>2. TypeOK'
    BY <1>1, <2>1 DEF TypeOK, CallsOf, files
  <2>3. Groups'
    BY <1>1, <2>1 DEF Inv, TypeOK, Groups, Open, CallsOf
  <2>4. Places' /\ Collected' /\ HaveSaid'
    <3>1. Places'
      BY <1>1, <2>1 DEF Inv, TypeOK, Places
    <3>2. Collected' /\ HaveSaid'
      BY <1>1, <2>1 DEF Inv, Collected, HaveSaid
    <3>3. QED
      BY <3>1, <3>2
  <2>5. Locks' /\ Reads' /\ NoLostEdit'
    BY <1>1, <2>1, <2>2, FilesUntouched DEF TypeOK
  <2>6. QED
    BY <2>2, <2>3, <2>4, <2>5 DEF Inv
<1>5. CASE ~ \E c \in g : Unknown(c)
  <2>1. /\ phase' = [phase EXCEPT ![a] = "group"] /\ next' = [next EXCEPT ![a] = j + 1]
        /\ group' = [group EXCEPT ![a] = g]
        /\ at' = [c \in Calls |-> IF c \in g THEN "queued" ELSE at[c]]
    BY <1>5 DEF FormGroup, j, g
  <2>2. TypeOK'
    <3>1. /\ phase' \in [Agents -> {"next", "group", "over", "raised"}]
          /\ next' \in [Agents -> Nat] /\ group' \in [Agents -> SUBSET Calls]
          /\ at' \in [Calls -> Running \cup Ended \cup {"not", "queued"}]
      BY <1>1, <1>2, <1>3, <2>1 DEF TypeOK
    <3>2. \A b \in Agents : batch'[b] \in Batches[b] /\ next'[b] \in 1 .. Len(batch'[b]) + 1
                            /\ group'[b] \subseteq CallsOf(b)'
      BY <1>1, <1>2, <1>3, <2>1 DEF TypeOK, CallsOf
    <3>3. \A p \in Paths : holder'[p] # Nobody =>
            PathOf[holder'[p]] = p /\ at'[holder'[p]] \in Running \ {"waits"}
      BY <1>1, <1>3, <2>1 DEF TypeOK, files, Running
    <3>4. QED
      BY <1>1, <3>1, <3>2, <3>3 DEF TypeOK, files
  <2>3. \A b \in Agents \ {a} : \A c \in CallsOf(b) : c \notin g
    BY <1>1, <1>2, OnePlace DEF CallsOf, ToSet, g
  <2>4. Groups'
    <3>1. ASSUME NEW b \in Agents
          PROVE  /\ phase'[b] # "group" => group'[b] = {}
                 /\ \A c, d \in group'[b] : Alone(c) => c = d
      BY <1>1, <1>2, <2>1 DEF Inv, TypeOK, Groups
    <3>2. ASSUME NEW b \in Agents, NEW c \in CallsOf(b), Open(c)' PROVE c \in group'[b]
      <4>1. c \in Calls
        BY <1>1 DEF TypeOK, CallsOf, ToSet
      <4>2. CASE b = a
        <5>1. group[a] = {} /\ group'[a] = g /\ ~Open(c)
          BY <1>1, <2>1, <3>2, <4>2 DEF Inv, TypeOK, Groups
        <5>2. QED
          BY <2>1, <3>2, <4>1, <4>2, <5>1 DEF Open
      <4>3. CASE b # a
        BY <1>1, <2>1, <2>3, <3>2, <4>1, <4>3 DEF Inv, TypeOK, Groups, Open
      <4>4. QED
        BY <4>2, <4>3
    <3>3. QED
      BY <1>1, <3>1, <3>2 DEF Groups, CallsOf
  <2>5. Places'
    <3>1. ASSUME NEW b \in Agents, b # a
          PROVE  \A i \in DOMAIN batch'[b] : at'[batch'[b][i]] = "not" <=> i >= next'[b]
      BY <1>1, <2>1, <2>3, <3>1 DEF Inv, TypeOK, Places, CallsOf, ToSet
    <3>2. ASSUME NEW i \in DOMAIN batch[a]
          PROVE  at'[batch[a][i]] = "not" <=> i >= j + 1
      <4>1. batch[a][i] \in g <=> i \in next[a] .. j
        BY <1>1, <1>2, OnePlace DEF g
      <4>2. QED
        BY <1>1, <1>2, <2>1, <4>1 DEF Inv, TypeOK, Places
    <3>3. Len(results[a]) = next[a] - 1
      BY <1>1 DEF Inv, Places
    <3>4. QED
      <4>1. ASSUME NEW b \in Agents, b # a
            PROVE  /\ Len(results'[b]) < next'[b]
                   /\ phase'[b] \in {"next", "over"} => Len(results'[b]) = next'[b] - 1
                   /\ phase'[b] = "over" => next'[b] = Len(batch'[b]) + 1
                   /\ phase'[b] = "group" =>
                        group'[b] = {batch'[b][x] : x \in Len(results'[b]) + 1 .. next'[b] - 1}
        BY <1>1, <2>1, <4>1 DEF Inv, TypeOK, Places
      <4>2. next'[a] = j + 1 /\ phase'[a] = "group" /\ group'[a] = g
        BY <1>1, <2>1 DEF TypeOK
      <4>3. g = {batch[a][x] : x \in Len(results[a]) + 1 .. (j + 1) - 1}
        BY <1>1, <1>2, <3>3 DEF g
      <4>4. Len(results[a]) < j + 1
        BY <1>1, <1>2, <3>3
      <4>5. QED
        BY <1>1, <3>1, <3>2, <4>1, <4>2, <4>3, <4>4 DEF Places
  <2>6. Collected' /\ HaveSaid'
    <3>1. \A c \in Calls : at[c] = "ended" <=> at'[c] = "ended"
      BY <1>1, <1>3, <2>1 DEF TypeOK
    <3>2. \A b \in Agents : \A i \in 1 .. Len(results[b]) : batch[b][i] \in Calls
      BY <1>1 DEF Inv, TypeOK, Places
    <3>3. QED
      BY <1>1, <3>1, <3>2 DEF Inv, Collected, HaveSaid
  <2>7. Locks' /\ Reads' /\ NoLostEdit'
    BY <1>1, <1>3, <2>1, <2>2, FilesUntouched DEF TypeOK, Running
  <2>8. QED
    BY <2>2, <2>4, <2>5, <2>6, <2>7 DEF Inv
<1>6. QED
  BY <1>4, <1>5

LEMMA CollectGroupInv ==
  ASSUME Inv, NEW a \in Agents, CollectGroup(a)
  PROVE  Inv'
<1> DEFINE first == Len(results[a]) + 1
           raised == {x \in first .. next[a] - 1 : at[batch[a][x]] = "raised"}
           last == IF raised = {} THEN next[a] - 1
                   ELSE (CHOOSE x \in raised : \A y \in raised : x <= y) - 1
           new == [x \in 1 .. last - first + 1 |-> result[batch[a][first + x - 1]]]
           Said == [said : {"ok", "error"}, text : SUBSET Marks]
<1>1. /\ TypeOK /\ phase[a] = "group" /\ GroupDone(a)
      /\ results' = [results EXCEPT ![a] = @ \o new]
      /\ phase' = [phase EXCEPT ![a] = IF raised = {} THEN "next" ELSE "raised"]
      /\ group' = [group EXCEPT ![a] = {}]
      /\ UNCHANGED <<batch, next, at, result, seen, files>>
  BY DEF Inv, CollectGroup
<1>2. /\ batch[a] \in Seq(Calls) /\ next[a] \in 1 .. Len(batch[a]) + 1
      /\ results[a] \in Seq(Said) /\ Len(results[a]) < next[a] /\ Len(results[a]) \in Nat
  <2>1. batch[a] \in Seq(Calls) /\ next[a] \in 1 .. Len(batch[a]) + 1 /\ results[a] \in Seq(Said)
    BY <1>1 DEF TypeOK
  <2>2. QED
    BY <2>1 DEF Inv, Places
<1>3. group[a] = {batch[a][x] : x \in first .. next[a] - 1}
  BY <1>1 DEF Inv, Places
<1>4. \A x \in first .. next[a] - 1 :
        batch[a][x] \in Calls /\ at[batch[a][x]] \in Ended
  <2> SUFFICES ASSUME NEW x \in first .. next[a] - 1
               PROVE  batch[a][x] \in Calls /\ at[batch[a][x]] \in Ended
    OBVIOUS
  <2>1. x \in 1 .. Len(batch[a])
    BY <1>2
  <2>2. batch[a][x] \in group[a]
    BY <1>3
  <2>3. QED
    BY <1>1, <1>2, <2>1, <2>2 DEF GroupDone
<1>5. /\ last \in first - 1 .. next[a] - 1
      /\ \A x \in first .. last : at[batch[a][x]] = "ended"
      /\ raised = {} => last = next[a] - 1
  <2>1. CASE raised = {}
    BY <1>2, <1>4, <2>1 DEF Ended
  <2>2. CASE raised # {}
    <3> DEFINE l == CHOOSE x \in raised : \A y \in raised : x <= y
    <3>1. raised \in SUBSET Nat
      BY <1>2
    <3>2. l \in raised /\ \A y \in raised : l <= y
      <4> HIDE DEF raised
      <4>1. \E m \in raised : \A y \in raised : m <= y
        BY <2>2, <3>1, LeastNumber
      <4>2. QED
        BY <4>1
    <3>3. last = l - 1
      <4> HIDE DEF raised
      <4> QED
        BY <2>2
    <3> HIDE DEF l, last
    <3>4. l \in first .. next[a] - 1
      BY <3>2
    <3>5. ASSUME NEW x \in first .. last PROVE at[batch[a][x]] = "ended"
      <4>1. x \in first .. next[a] - 1 /\ x \notin raised
        <5> HIDE DEF raised
        <5> QED
          BY <1>2, <3>2, <3>3, <3>4
      <4>2. QED
        BY <1>4, <4>1 DEF Ended
    <3>6. QED
      BY <1>2, <2>2, <3>3, <3>4, <3>5
  <2>3. QED
    BY <2>1, <2>2
<1> HIDE DEF last, raised
<1>6. new \in Seq(Said) /\ Len(new) = last - first + 1
  <2>1. ASSUME NEW x \in 1 .. last - first + 1
        PROVE  result[batch[a][first + x - 1]] \in Said
    <3>1. first + x - 1 \in first .. last /\ first + x - 1 \in first .. next[a] - 1
      BY <1>2, <1>5
    <3>2. QED
      BY <1>1, <1>4, <1>5, <3>1 DEF Inv, TypeOK, HaveSaid
  <2>2. last - first + 1 \in Nat
    BY <1>2, <1>5
  <2>3. new \in [1 .. last - first + 1 -> Said]
    BY <2>1
  <2> HIDE DEF new
  <2>4. ASSUME NEW n \in Nat, n = last - first + 1
        PROVE  new \in Seq(Said) /\ Len(new) = n
    <3>1. new \in [1 .. n -> Said]
      BY <2>3, <2>4
    <3>2. QED
      BY <3>1, FunctionIsSeq
  <2>5. QED
    BY <2>2, <2>4
<1>7. /\ results'[a] \in Seq(Said) /\ Len(results'[a]) = last
      /\ \A i \in 1 .. last :
           results'[a][i] = IF i < first THEN results[a][i] ELSE result[batch[a][i]]
  <2>1. results'[a] = results[a] \o new
    BY <1>1 DEF TypeOK
  <2>2. ASSUME NEW i \in 1 .. last, i >= first
        PROVE  i - Len(results[a]) \in 1 .. last - first + 1
               /\ new[i - Len(results[a])] = result[batch[a][i]]
    <3> DEFINE k == i - Len(results[a])
    <3>1. last \in Int /\ i \in Int /\ i <= last /\ Len(results[a]) \in Nat
          /\ i >= Len(results[a]) + 1
      <4>1. first - 1 \in Int /\ next[a] - 1 \in Int
        BY <1>2
      <4>2. last \in Int
        BY <1>5, <4>1
      <4>3. QED
        BY <1>2, <2>2, <4>2
    <3>2. k \in 1 .. last - first + 1 /\ first + k - 1 = i /\ i - Len(results[a]) = k
      <4>1. ASSUME NEW n \in Nat, NEW m \in Int, NEW x \in Int, x <= m, x >= n + 1
            PROVE  x - n \in 1 .. m - (n + 1) + 1 /\ (n + 1) + (x - n) - 1 = x
        BY <4>1
      <4>2. QED
        BY <3>1, <4>1
    <3> HIDE DEF k
    <3>3. new[k] = result[batch[a][i]]
      BY <3>2
    <3>4. QED
      BY <3>2, <3>3 DEF k
  <2> HIDE DEF new
  <2>3. QED
    BY <1>2, <1>5, <1>6, <2>1, <2>2
<1> HIDE DEF new
<1>8. TypeOK'
  <2>1. results' \in [Agents -> Seq(Said)]
    BY <1>1, <1>7 DEF TypeOK
  <2>2. /\ phase' \in [Agents -> {"next", "group", "over", "raised"}]
        /\ group' \in [Agents -> SUBSET Calls]
    BY <1>1 DEF TypeOK
  <2>3. \A b \in Agents : batch'[b] \in Batches[b] /\ next'[b] \in 1 .. Len(batch'[b]) + 1
                          /\ group'[b] \subseteq CallsOf(b)'
    BY <1>1 DEF TypeOK, CallsOf
  <2>4. QED
    BY <1>1, <2>1, <2>2, <2>3 DEF TypeOK, files
<1>9. Groups'
  <2>1. \A c \in CallsOf(a) : ~Open(c)
    <3>1. \A c \in group[a] : ~Open(c)
      BY <1>1 DEF GroupDone, Open, Ended, Running
    <3>2. QED
      BY <3>1 DEF Inv, Groups
  <2>2. QED
    BY <1>1, <2>1 DEF Inv, TypeOK, Groups, Open, CallsOf
<1>10. Places'
  <2>1. ASSUME NEW b \in Agents, b # a
        PROVE  /\ results'[b] = results[b] /\ phase'[b] = phase[b] /\ group'[b] = group[b]
               /\ next'[b] = next[b] /\ batch'[b] = batch[b]
    BY <1>1, <2>1 DEF TypeOK
  <2>2. /\ Len(results'[a]) < next'[a]
        /\ phase'[a] = "next" => Len(results'[a]) = next'[a] - 1
        /\ phase'[a] \in {"next", "raised"}
    BY <1>1, <1>2, <1>5, <1>7 DEF TypeOK
  <2>3. QED
    BY <1>1, <2>1, <2>2 DEF Inv, Places
<1>11. Collected' /\ HaveSaid'
  <2>1. ASSUME NEW i \in 1 .. last
        PROVE  at[batch[a][i]] = "ended" /\ results'[a][i] = result[batch[a][i]]
    <3>1. CASE i < first
      <4>1. i \in 1 .. Len(results[a])
        BY <1>2, <3>1
      <4>2. QED
        BY <1>7, <3>1, <4>1 DEF Inv, Collected
    <3>2. CASE i >= first
      <4>1. i \in first .. last
        BY <1>2, <1>5, <3>2
      <4>2. QED
        BY <1>2, <1>5, <1>7, <3>2, <4>1
    <3>3. QED
      BY <1>2, <1>5, <3>1, <3>2
  <2>2. \A b \in Agents \ {a} : results'[b] = results[b]
    BY <1>1 DEF TypeOK
  <2>3. QED
    BY <1>1, <1>7, <2>1, <2>2 DEF Inv, Collected, HaveSaid
<1>12. Locks' /\ Reads' /\ NoLostEdit'
  BY <1>1, FilesUntouched DEF TypeOK
<1>13. QED
  BY <1>8, <1>9, <1>10, <1>11, <1>12 DEF Inv

LEMMA FinishInv ==
  ASSUME Inv, NEW a \in Agents, Finish(a)
  PROVE  Inv'
<1>1. /\ TypeOK /\ phase[a] = "next" /\ next[a] > Len(batch[a])
      /\ phase' = [phase EXCEPT ![a] = "over"]
      /\ UNCHANGED <<batch, next, group, at, result, results, seen, files>>
  BY DEF Inv, Finish
<1>2. TypeOK'
  BY <1>1 DEF TypeOK, CallsOf, files
<1>3. next[a] = Len(batch[a]) + 1
  <2>1. batch[a] \in Seq(Calls) /\ next[a] \in 1 .. Len(batch[a]) + 1
    BY <1>1 DEF TypeOK
  <2>2. QED
    BY <1>1, <2>1
<1>4. Groups'
  BY <1>1 DEF Inv, TypeOK, Groups, Open, CallsOf
<1>5. Places'
  BY <1>1, <1>3 DEF Inv, TypeOK, Places
<1>6. Collected' /\ HaveSaid'
  BY <1>1 DEF Inv, Collected, HaveSaid
<1>7. Locks' /\ Reads' /\ NoLostEdit'
  BY <1>1, FilesUntouched DEF TypeOK
<1>8. QED
  BY <1>2, <1>4, <1>5, <1>6, <1>7 DEF Inv

-----------------------------------------------------------------------------
(* The steps of a call.                                                    *)

\* A call at work that goes on, or ends and has said how, leaves its batch in order.
LEMMA CallMoves ==
  ASSUME Inv, NEW c \in Calls, NEW x \in Running \cup Ended,
         Open(c), Moves(c, x), at[c] = "queued" => \E a \in Agents : c \in group[a],
         \A d \in Calls \ {c} : result'[d] = result[d],
         x = "ended" => result'[c].said \in {"ok", "error"},
         UNCHANGED <<batch, phase, next, group, results>>
  PROVE  /\ at' \in [Calls -> Running \cup Ended \cup {"not", "queued"}]
         /\ at'[c] = x /\ \A d \in Calls \ {c} : at'[d] = at[d]
         /\ Groups' /\ Places' /\ Collected' /\ HaveSaid'
<1>1. /\ at' \in [Calls -> Running \cup Ended \cup {"not", "queued"}]
      /\ at'[c] = x /\ \A d \in Calls \ {c} : at'[d] = at[d]
  BY DEF Inv, TypeOK, Moves
<1>2. Groups'
  <2>1. \A a \in Agents : CallsOf(a) \subseteq Calls /\ CallsOf(a)' = CallsOf(a)
    BY DEF Inv, TypeOK, CallsOf, ToSet
  <2>2. \A d \in Calls : Open(d)' => Open(d)
    BY <1>1 DEF Open
  <2>3. QED
    BY <2>1, <2>2 DEF Inv, Groups
<1>3. \A d \in Calls : at'[d] = "not" <=> at[d] = "not"
  BY <1>1 DEF Open, Running, Ended
<1>4. \A a \in Agents : batch[a] \in Seq(Calls) /\ results[a] \in Seq([said : {"ok", "error"}, text : SUBSET Marks])
  BY DEF Inv, TypeOK
<1>5. Places'
  <2>1. \A a \in Agents : \A i \in DOMAIN batch[a] : batch[a][i] \in Calls
    BY <1>4
  <2>2. QED
    BY <1>3, <2>1 DEF Inv, Places
<1>6. Collected'
  <2>1. ASSUME NEW a \in Agents, NEW i \in 1 .. Len(results[a])
        PROVE  batch[a][i] \in Calls \ {c}
    <3>1. next[a] \in 1 .. Len(batch[a]) + 1 /\ Len(results[a]) < next[a]
      BY DEF Inv, TypeOK, Places
    <3>2. batch[a][i] \in Calls
      BY <1>4, <3>1
    <3>3. at[batch[a][i]] = "ended"
      BY DEF Inv, Collected
    <3>4. QED
      BY <3>2, <3>3 DEF Open, Running
  <2>2. QED
    BY <1>1, <2>1 DEF Inv, Collected
<1>7. HaveSaid'
  BY <1>1 DEF Inv, HaveSaid
<1>8. QED
  BY <1>1, <1>2, <1>5, <1>6, <1>7

\* The parts of TypeOK that a call can change.
LEMMA CallTyped ==
  ASSUME Inv, UNCHANGED <<batch, phase, next, group, results>>,
         at' \in [Calls -> Running \cup Ended \cup {"not", "queued"}],
         result' \in [Calls -> [said : {"none", "ok", "error"}, text : SUBSET Marks]],
         seen' \in [Calls -> SUBSET Marks],
         disk' \in [Paths -> SUBSET Marks], ideal' \in [Paths -> SUBSET Marks], spoilt' \subseteq Paths,
         holder' \in [Paths -> Calls \cup {Nobody}],
         \A p \in Paths : holder'[p] # Nobody =>
           PathOf[holder'[p]] = p /\ at'[holder'[p]] \in Running \ {"waits"}
  PROVE  TypeOK'
  BY DEF Inv, TypeOK, CallsOf

LEMMA ReturnsTyped ==
  ASSUME TypeOK, NEW c \in Calls, NEW said \in {"ok", "error"},
         result' = [result EXCEPT ![c].said = said]
  PROVE  /\ result' \in [Calls -> [said : {"none", "ok", "error"}, text : SUBSET Marks]]
         /\ result'[c].said = said
         /\ \A d \in Calls \ {c} : result'[d] = result[d]
<1>1. result[c] \in [said : {"none", "ok", "error"}, text : SUBSET Marks]
  BY DEF TypeOK
<1>2. result' = [result EXCEPT ![c] = [@ EXCEPT !.said = said]]
  OBVIOUS
<1> DEFINE r == [result[c] EXCEPT !.said = said]
<1>3. r \in [said : {"none", "ok", "error"}, text : SUBSET Marks] /\ r.said = said
  BY <1>1
<1>4. result' = [result EXCEPT ![c] = r]
  BY <1>2
<1>5. result \in [Calls -> [said : {"none", "ok", "error"}, text : SUBSET Marks]]
  BY DEF TypeOK
<1> HIDE DEF r
<1>6. result'[c] = r /\ \A d \in Calls \ {c} : result'[d] = result[d]
  BY <1>4, <1>5
<1>7. QED
  BY <1>3, <1>4, <1>5, <1>6

LEMMA StartInv ==
  ASSUME Inv, NEW a \in Agents, NEW c \in Calls, Start(a, c)
  PROVE  Inv'
<1>1. /\ TypeOK /\ c \in group[a] /\ at[c] = "queued" /\ Open(c)
      /\ UNCHANGED <<batch, phase, next, group, results, seen, files>>
  BY DEF Inv, Start, Open
<1>2. PICK x \in {"raised", "waits", "ended"} :
        /\ Moves(c, x)
        /\ x = "ended" => ReadFile(c)
        /\ x # "ended" => UNCHANGED result
  BY DEF Start
<1>3. /\ result' \in [Calls -> [said : {"none", "ok", "error"}, text : SUBSET Marks]]
      /\ x = "ended" => result'[c].said \in {"ok", "error"}
      /\ \A d \in Calls \ {c} : result'[d] = result[d]
  <2>1. CASE UNCHANGED result /\ x # "ended"
    BY <1>1, <2>1 DEF TypeOK
  <2>2. CASE result' = [result EXCEPT ![c] = [said |-> "ok", text |-> disk[PathOf[c]]]]
    <3>1. [said |-> "ok", text |-> disk[PathOf[c]]]
          \in [said : {"none", "ok", "error"}, text : SUBSET Marks]
      BY <1>1, ToolBatchAssumption DEF TypeOK
    <3>2. QED
      BY <1>1, <2>2, <3>1 DEF TypeOK
  <2>3. CASE result' = [result EXCEPT ![c].said = "error"]
    BY <1>1, <2>3, ReturnsTyped
  <2>4. QED
    BY <1>2, <2>1, <2>2, <2>3 DEF ReadFile
<1>4. /\ at' \in [Calls -> Running \cup Ended \cup {"not", "queued"}]
      /\ at'[c] = x /\ \A d \in Calls \ {c} : at'[d] = at[d]
      /\ Groups' /\ Places' /\ Collected' /\ HaveSaid'
  <2>1. x \in Running \cup Ended
    BY DEF Running, Ended
  <2>2. QED
    BY <1>1, <1>2, <1>3, <2>1, CallMoves
<1>5. TypeOK'
  <2>1. ASSUME NEW p \in Paths, holder[p] = c PROVE FALSE
    <3>1. c # Nobody
      BY ToolBatchAssumption
    <3>2. at[c] \in Running
      BY <1>1, <2>1, <3>1 DEF TypeOK
    <3>3. QED
      BY <1>1, <3>2 DEF Running
  <2>2. \A p \in Paths : holder'[p] # Nobody =>
          PathOf[holder'[p]] = p /\ at'[holder'[p]] \in Running \ {"waits"}
    BY <1>1, <1>4, <2>1 DEF TypeOK, files
  <2>3. QED
    BY <1>1, <1>3, <1>4, <2>2, CallTyped DEF TypeOK, files
<1>6. Locks' /\ Reads' /\ NoLostEdit'
  <2>1. Locks'
    BY <1>1, <1>4 DEF Inv, Locks, Working, files
  <2>2. Reads'
    BY <1>1, <1>4 DEF Inv, Reads, files
  <2>3. NoLostEdit'
    BY <1>1, <1>4 DEF Inv, NoLostEdit, files
  <2>4. QED
    BY <2>1, <2>2, <2>3
<1>7. QED
  BY <1>4, <1>5, <1>6 DEF Inv

LEMMA AloneEndsInv ==
  ASSUME Inv, NEW c \in Calls, AloneEnds(c)
  PROVE  Inv'
<1>1. /\ TypeOK /\ Kind[c] = "alone" /\ at[c] = "waits" /\ Open(c)
      /\ UNCHANGED <<batch, phase, next, group, results, seen, files>>
  BY DEF Inv, AloneEnds, Open, Running
<1>2. PICK x \in {"raised", "ended"} :
        /\ Moves(c, x)
        /\ x = "ended" => result' = [result EXCEPT ![c].said = "ok"]
        /\ x # "ended" => UNCHANGED result
  BY DEF AloneEnds, Returns
<1>3. /\ result' \in [Calls -> [said : {"none", "ok", "error"}, text : SUBSET Marks]]
      /\ x = "ended" => result'[c].said \in {"ok", "error"}
      /\ \A d \in Calls \ {c} : result'[d] = result[d]
  <2>1. CASE x = "ended"
    BY <1>1, <1>2, <2>1, ReturnsTyped
  <2>2. CASE x # "ended"
    BY <1>1, <1>2, <2>2 DEF TypeOK
  <2>3. QED
    BY <2>1, <2>2
<1>4. /\ at' \in [Calls -> Running \cup Ended \cup {"not", "queued"}]
      /\ at'[c] = x /\ \A d \in Calls \ {c} : at'[d] = at[d]
      /\ Groups' /\ Places' /\ Collected' /\ HaveSaid'
  <2>1. x \in Running \cup Ended
    BY DEF Running, Ended
  <2>2. QED
    BY <1>1, <1>2, <1>3, <2>1, CallMoves
<1>5. TypeOK'
  <2>1. ASSUME NEW p \in Paths, holder[p] = c PROVE FALSE
    <3>1. c # Nobody
      BY ToolBatchAssumption
    <3>2. QED
      BY <1>1, <2>1, <3>1 DEF TypeOK
  <2>2. \A p \in Paths : holder'[p] # Nobody =>
          PathOf[holder'[p]] = p /\ at'[holder'[p]] \in Running \ {"waits"}
    BY <1>1, <1>4, <2>1 DEF TypeOK, files
  <2>3. QED
    BY <1>1, <1>3, <1>4, <2>2, CallTyped DEF TypeOK, files
<1>6. Locks' /\ Reads' /\ NoLostEdit'
  <2>1. Locks'
    BY <1>1, <1>4 DEF Inv, Locks, Working, files
  <2>2. Reads'
    BY <1>1, <1>4 DEF Inv, Reads, files
  <2>3. NoLostEdit'
    BY <1>1, <1>4 DEF Inv, NoLostEdit, files
  <2>4. QED
    BY <2>1, <2>2, <2>3
<1>7. QED
  BY <1>4, <1>5, <1>6 DEF Inv

LEMMA AcquireInv ==
  ASSUME Inv, NEW c \in Calls, Acquire(c)
  PROVE  Inv'
<1> DEFINE x == IF Kind[c] = "edit" THEN "holds" ELSE "read"
<1>1. /\ TypeOK /\ Kind[c] \in FileTools /\ at[c] = "waits" /\ Open(c)
      /\ holder[PathOf[c]] = Nobody /\ holder' = [holder EXCEPT ![PathOf[c]] = c]
      /\ Moves(c, x) /\ UNCHANGED <<batch, phase, next, group, result, results, seen, disk, ideal, spoilt>>
  BY DEF Inv, Acquire, Open, Running
<1>2. x \in Working /\ x \in Running \cup Ended /\ x \in Running \ {"waits"} /\ x # "ended"
  BY DEF Running, Ended, Working
<1>3. x = "holds" <=> Kind[c] = "edit"
  OBVIOUS
<1> HIDE DEF x
<1>4. /\ at' \in [Calls -> Running \cup Ended \cup {"not", "queued"}]
      /\ at'[c] = x /\ \A d \in Calls \ {c} : at'[d] = at[d]
      /\ Groups' /\ Places' /\ Collected' /\ HaveSaid'
  BY <1>1, <1>2, CallMoves
<1>5. PathOf[c] \in Paths /\ c # Nobody
  BY ToolBatchAssumption
<1>6. TypeOK'
  <2>1. \A p \in Paths : holder'[p] = IF p = PathOf[c] THEN c ELSE holder[p]
    BY <1>1 DEF TypeOK
  <2>2. \A p \in Paths \ {PathOf[c]} : holder[p] # c
    BY <1>1, <1>5 DEF TypeOK
  <2>3. \A p \in Paths : holder'[p] # Nobody =>
          PathOf[holder'[p]] = p /\ at'[holder'[p]] \in Running \ {"waits"}
    BY <1>1, <1>2, <1>4, <2>1, <2>2 DEF TypeOK
  <2>4. holder' \in [Paths -> Calls \cup {Nobody}]
    BY <1>1, <1>5 DEF TypeOK
  <2>5. QED
    BY <1>1, <1>4, <2>3, <2>4, CallTyped DEF TypeOK
<1>7. Locks'
  <2>1. \A d \in Calls \ {c} : at[d] \in Working => PathOf[d] # PathOf[c]
    <3>1. ASSUME NEW d \in Calls, at[d] \in Working, PathOf[d] = PathOf[c] PROVE FALSE
      <4>1. holder[PathOf[c]] = d /\ d # Nobody
        BY <3>1, ToolBatchAssumption DEF Inv, Locks
      <4>2. QED
        BY <1>1, <4>1
    <3>2. QED
      BY <3>1
  <2>2. ASSUME NEW d \in Calls \ {c}, at'[d] \in Working
        PROVE  Kind[d] \in FileTools /\ holder'[PathOf[d]] = d
    <3>1. at[d] \in Working /\ PathOf[d] # PathOf[c] /\ PathOf[d] \in Paths
      BY <1>4, <2>1, <2>2, ToolBatchAssumption
    <3>2. QED
      BY <1>1, <3>1 DEF Inv, Locks, TypeOK
  <2>3. holder'[PathOf[c]] = c
    BY <1>1, <1>5 DEF TypeOK
  <2>4. \A d \in Calls : at'[d] = "holds" => Kind[d] = "edit"
    BY <1>3, <1>4 DEF Inv, Locks
  <2>5. QED
    BY <1>1, <2>2, <2>3, <2>4 DEF Locks
<1>8. Reads'
  <2>1. x \in {"holds", "read"} /\ (Kind[c] = "edit" => x = "holds")
    BY DEF x
  <2>2. QED
    BY <1>1, <1>4, <2>1 DEF Inv, Reads
<1>9. NoLostEdit'
  BY <1>1, <1>4 DEF Inv, NoLostEdit
<1>10. QED
  BY <1>4, <1>6, <1>7, <1>8, <1>9 DEF Inv

\* The lock of a path has one holder.
LEMMA OneHolder ==
  ASSUME Inv, NEW c \in Calls, NEW d \in Calls,
         at[c] \in Working, at[d] \in Working, PathOf[c] = PathOf[d]
  PROVE  c = d
  BY DEF Inv, Locks

\* The holder of a lock goes on.
LEMMA GoesOn ==
  ASSUME Inv, NEW c \in Calls, at[c] \in Working, NEW x \in Working \ {"holds"}, Moves(c, x),
         UNCHANGED <<batch, phase, next, group, results, result, holder>>,
         seen' \in [Calls -> SUBSET Marks],
         disk' \in [Paths -> SUBSET Marks], ideal' \in [Paths -> SUBSET Marks],
         spoilt' \subseteq Paths
  PROVE  /\ TypeOK' /\ Groups' /\ Places' /\ Collected' /\ HaveSaid' /\ Locks'
         /\ at'[c] = x /\ \A d \in Calls \ {c} : at'[d] = at[d]
<1>1. /\ at' \in [Calls -> Running \cup Ended \cup {"not", "queued"}]
      /\ at'[c] = x /\ \A d \in Calls \ {c} : at'[d] = at[d]
      /\ Groups' /\ Places' /\ Collected' /\ HaveSaid'
  <2>1. Open(c) /\ at[c] # "queued" /\ x \in Running \cup Ended /\ x # "ended"
    BY DEF Open, Working, Running
  <2>2. QED
    BY <2>1, CallMoves
<1>2. TypeOK'
  <2>1. x \in Running \ {"waits"}
    BY DEF Working, Running
  <2>2. ASSUME NEW p \in Paths, holder'[p] # Nobody
        PROVE  PathOf[holder'[p]] = p /\ at'[holder'[p]] \in Running \ {"waits"}
    <3>1. /\ holder'[p] = holder[p] /\ holder[p] \in Calls
          /\ PathOf[holder[p]] = p /\ at[holder[p]] \in Running \ {"waits"}
      BY <2>2 DEF Inv, TypeOK
    <3>2. QED
      BY <1>1, <2>1, <3>1
  <2>3. QED
    BY <1>1, <2>2, CallTyped DEF Inv, TypeOK
<1>3. Locks'
  BY <1>1 DEF Inv, Locks
<1>4. QED
  BY <1>1, <1>2, <1>3

\* The holder of a lock ends and gives it back.
LEMMA GivesBack ==
  ASSUME Inv, NEW c \in Calls, at[c] \in Working, NEW said \in {"ok", "error"},
         Returns(c, said), Release(c),
         UNCHANGED <<batch, phase, next, group, results, seen>>,
         disk' \in [Paths -> SUBSET Marks], ideal' \in [Paths -> SUBSET Marks],
         spoilt' \subseteq Paths
  PROVE  /\ TypeOK' /\ Groups' /\ Places' /\ Collected' /\ HaveSaid' /\ Locks'
         /\ at'[c] = "ended" /\ \A d \in Calls \ {c} : at'[d] = at[d]
<1>1. /\ result' \in [Calls -> [said : {"none", "ok", "error"}, text : SUBSET Marks]]
      /\ result'[c].said = said /\ \A d \in Calls \ {c} : result'[d] = result[d]
  BY ReturnsTyped DEF Inv, Returns
<1>2. /\ at' \in [Calls -> Running \cup Ended \cup {"not", "queued"}]
      /\ at'[c] = "ended" /\ \A d \in Calls \ {c} : at'[d] = at[d]
      /\ Groups' /\ Places' /\ Collected' /\ HaveSaid'
  <2>1. Open(c) /\ at[c] # "queued" /\ "ended" \in Running \cup Ended
    BY DEF Open, Working, Running, Ended
  <2>2. QED
    BY <1>1, <2>1, CallMoves DEF Returns
<1>3. /\ PathOf[c] \in Paths /\ c # Nobody /\ holder[PathOf[c]] = c
      /\ holder' = [holder EXCEPT ![PathOf[c]] = Nobody]
  BY ToolBatchAssumption DEF Inv, Locks, Release
<1>4. \A p \in Paths : holder'[p] = IF p = PathOf[c] THEN Nobody ELSE holder[p]
  BY <1>3 DEF Inv, TypeOK
<1>5. TypeOK'
  <2>1. \A p \in Paths \ {PathOf[c]} : holder[p] # c
    BY <1>3 DEF Inv, TypeOK
  <2>2. ASSUME NEW p \in Paths, holder'[p] # Nobody
        PROVE  PathOf[holder'[p]] = p /\ at'[holder'[p]] \in Running \ {"waits"}
    <3>1. p # PathOf[c] /\ holder'[p] = holder[p]
      BY <1>4, <2>2
    <3>2. /\ holder[p] \in Calls /\ holder[p] # c
          /\ PathOf[holder[p]] = p /\ at[holder[p]] \in Running \ {"waits"}
      BY <2>1, <2>2, <3>1 DEF Inv, TypeOK
    <3>3. QED
      BY <1>2, <3>1, <3>2
  <2>3. holder' \in [Paths -> Calls \cup {Nobody}] /\ seen' \in [Calls -> SUBSET Marks]
    BY <1>3 DEF Inv, TypeOK
  <2>4. QED
    BY <1>1, <1>2, <2>2, <2>3, CallTyped
<1>6. Locks'
  <2>1. \A d \in Calls : at'[d] \in Working => d # c /\ at[d] \in Working
    BY <1>2 DEF Working
  <2>2. ASSUME NEW d \in Calls, at'[d] \in Working
        PROVE  Kind[d] \in FileTools /\ holder'[PathOf[d]] = d
    <3>1. d # c /\ at[d] \in Working /\ PathOf[d] \in Paths
      BY <2>1, <2>2, ToolBatchAssumption
    <3>2. QED
      BY <1>4, <3>1, OneHolder DEF Inv, Locks
  <2>3. \A d \in Calls : at'[d] = "holds" => Kind[d] = "edit"
    BY <1>2 DEF Inv, Locks
  <2>4. QED
    BY <2>2, <2>3 DEF Locks
<1>7. QED
  BY <1>2, <1>5, <1>6

LEMMA ReadCurrentInv ==
  ASSUME Inv, NEW c \in Calls, ReadCurrent(c)
  PROVE  Inv'
<1>1. /\ TypeOK /\ at[c] = "holds" /\ at[c] \in Working /\ PathOf[c] \in Paths
      /\ Kind[c] = "edit" /\ UNCHANGED <<batch, phase, next, group, results, disk, ideal, spoilt>>
  BY ToolBatchAssumption DEF Inv, Locks, ReadCurrent, Working
<1>2. PathOf[c] \in spoilt \/ disk[PathOf[c]] = ideal[PathOf[c]]
  <2>1. \A d \in Calls : PathOf[d] = PathOf[c] => at[d] # "open"
    BY <1>1, OneHolder DEF Working
  <2>2. QED
    BY <1>1, <2>1 DEF Inv, NoLostEdit
<1>3. /\ disk' \in [Paths -> SUBSET Marks] /\ ideal' \in [Paths -> SUBSET Marks]
      /\ spoilt' \subseteq Paths
  BY <1>1 DEF TypeOK
<1>4. CASE /\ seen' = [seen EXCEPT ![c] = disk[PathOf[c]]]
           /\ Moves(c, "read") /\ UNCHANGED <<result, holder>>
  <2>1. seen' \in [Calls -> SUBSET Marks] /\ (PathOf[c] \in spoilt \/ seen'[c] = ideal[PathOf[c]])
        /\ \A d \in Calls \ {c} : seen'[d] = seen[d]
    BY <1>1, <1>2, <1>4 DEF TypeOK
  <2>2. "read" \in Working \ {"holds"}
    BY DEF Working
  <2>3. /\ TypeOK' /\ Groups' /\ Places' /\ Collected' /\ HaveSaid' /\ Locks'
        /\ at'[c] = "read" /\ \A d \in Calls \ {c} : at'[d] = at[d]
    BY <1>1, <1>3, <1>4, <2>1, <2>2, GoesOn
  <2>4. Reads'
    BY <1>1, <2>1, <2>3 DEF Inv, Reads
  <2>5. NoLostEdit'
    BY <1>1, <2>3 DEF Inv, NoLostEdit
  <2>6. QED
    BY <2>3, <2>4, <2>5 DEF Inv
<1>5. CASE Returns(c, "error") /\ Release(c) /\ UNCHANGED seen
  <2>1. /\ TypeOK' /\ Groups' /\ Places' /\ Collected' /\ HaveSaid' /\ Locks'
        /\ at'[c] = "ended" /\ \A d \in Calls \ {c} : at'[d] = at[d]
    BY <1>1, <1>3, <1>5, GivesBack
  <2>2. Reads'
    BY <1>1, <1>5, <2>1 DEF Inv, Reads
  <2>3. NoLostEdit'
    BY <1>1, <2>1 DEF Inv, NoLostEdit
  <2>4. QED
    BY <2>1, <2>2, <2>3 DEF Inv
<1>6. QED
  BY <1>4, <1>5 DEF ReadCurrent

LEMMA OpenFileInv ==
  ASSUME Inv, NEW c \in Calls, OpenFile(c)
  PROVE  Inv'
<1>1. /\ TypeOK /\ at[c] = "read" /\ at[c] \in Working /\ PathOf[c] \in Paths
      /\ UNCHANGED <<batch, phase, next, group, results, seen, ideal, spoilt>>
  BY ToolBatchAssumption DEF Inv, OpenFile, Working
<1>2. /\ ideal' \in [Paths -> SUBSET Marks] /\ seen' \in [Calls -> SUBSET Marks]
      /\ spoilt' \subseteq Paths
  BY <1>1 DEF TypeOK
<1>3. CASE /\ disk' = [disk EXCEPT ![PathOf[c]] = {}]
           /\ Moves(c, "open") /\ UNCHANGED <<result, holder>>
  <2>1. /\ disk' \in [Paths -> SUBSET Marks]
        /\ disk'[PathOf[c]] = {} /\ \A p \in Paths \ {PathOf[c]} : disk'[p] = disk[p]
    BY <1>1, <1>3 DEF TypeOK
  <2>2. "open" \in Working \ {"holds"}
    BY DEF Working
  <2>3. /\ TypeOK' /\ Groups' /\ Places' /\ Collected' /\ HaveSaid' /\ Locks'
        /\ at'[c] = "open" /\ \A d \in Calls \ {c} : at'[d] = at[d]
    BY <1>1, <1>2, <1>3, <2>1, <2>2, GoesOn
  <2>4. Reads'
    BY <1>1, <2>3 DEF Inv, Reads
  <2>5. NoLostEdit'
    BY <1>1, <2>1, <2>3 DEF Inv, NoLostEdit
  <2>6. QED
    BY <2>3, <2>4, <2>5 DEF Inv
<1>4. CASE Returns(c, "error") /\ Release(c) /\ UNCHANGED disk
  <2>1. disk' \in [Paths -> SUBSET Marks]
    BY <1>1, <1>4 DEF TypeOK
  <2>2. /\ TypeOK' /\ Groups' /\ Places' /\ Collected' /\ HaveSaid' /\ Locks'
        /\ at'[c] = "ended" /\ \A d \in Calls \ {c} : at'[d] = at[d]
    BY <1>1, <1>2, <1>4, <2>1, GivesBack
  <2>3. Reads'
    BY <1>1, <1>4, <2>2 DEF Inv, Reads
  <2>4. NoLostEdit'
    BY <1>1, <1>4, <2>2 DEF Inv, NoLostEdit
  <2>5. QED
    BY <2>2, <2>3, <2>4 DEF Inv
<1>5. QED
  BY <1>3, <1>4 DEF OpenFile

LEMMA WriteTextInv ==
  ASSUME Inv, NEW c \in Calls, WriteText(c)
  PROVE  Inv'
<1> DEFINE p == PathOf[c]
<1>1. /\ TypeOK /\ at[c] = "open" /\ at[c] \in Working /\ p \in Paths
      /\ Kind[c] \in FileTools
      /\ Kind[c] = "edit" => p \in spoilt \/ seen[c] = ideal[p]
      /\ UNCHANGED <<batch, phase, next, group, results, seen>>
  <2>1. at[c] = "open" /\ at[c] \in Working
    BY DEF WriteText, Working
  <2>2. QED
    BY <2>1, ToolBatchAssumption DEF Inv, Locks, Reads, WriteText
<1>2. seen' \in [Calls -> SUBSET Marks] /\ Effect(c, seen[c]) \in SUBSET Marks
      /\ Effect(c, ideal[p]) \in SUBSET Marks
  BY <1>1 DEF TypeOK, Effect, Marks
<1>3. \A d \in Calls \ {c} : at[d] \in Working => PathOf[d] # p /\ PathOf[d] \in Paths
  BY <1>1, OneHolder, ToolBatchAssumption
<1>4. CASE /\ disk' = [disk EXCEPT ![p] = Effect(c, seen[c])]
           /\ ideal' = [ideal EXCEPT ![p] = Effect(c, @)]
           /\ spoilt' = IF Kind[c] = "write" THEN spoilt \ {p} ELSE spoilt
           /\ Moves(c, "written") /\ UNCHANGED <<result, holder>>
  <2>1. p \notin spoilt' => Effect(c, seen[c]) = Effect(c, ideal[p])
    BY <1>1, <1>4 DEF Effect, FileTools
  <2>2. /\ disk' \in [Paths -> SUBSET Marks] /\ ideal' \in [Paths -> SUBSET Marks]
        /\ spoilt' \subseteq Paths /\ \A q \in Paths \ {p} : q \in spoilt' <=> q \in spoilt
        /\ disk'[p] = Effect(c, seen[c]) /\ ideal'[p] = Effect(c, ideal[p])
        /\ \A q \in Paths \ {p} : disk'[q] = disk[q] /\ ideal'[q] = ideal[q]
    BY <1>1, <1>2, <1>4 DEF TypeOK
  <2>3. "written" \in Working \ {"holds"}
    BY DEF Working
  <2>4. /\ TypeOK' /\ Groups' /\ Places' /\ Collected' /\ HaveSaid' /\ Locks'
        /\ at'[c] = "written" /\ \A d \in Calls \ {c} : at'[d] = at[d]
    BY <1>1, <1>2, <1>4, <2>2, <2>3, GoesOn
  <2> HIDE DEF p
  <2>5. Reads'
    BY <1>1, <1>3, <2>2, <2>4 DEF Inv, Reads, Working
  <2>6. NoLostEdit'
    <3> SUFFICES ASSUME NEW q \in Paths, q \notin spoilt'
                 PROVE  \/ disk'[q] = ideal'[q]
                        \/ \E d \in Calls : PathOf[d] = q /\ at'[d] = "open"
      BY DEF NoLostEdit
    <3>1. CASE q = p
      BY <2>1, <2>2, <3>1
    <3>2. CASE q # p
      BY <2>2, <2>4, <3>2 DEF Inv, NoLostEdit, p
    <3>3. QED
      BY <3>1, <3>2
  <2>7. QED
    BY <2>4, <2>5, <2>6 DEF Inv
<1>5. CASE /\ Returns(c, "error") /\ Release(c)
           /\ \E part \in SUBSET Effect(c, seen[c]) : disk' = [disk EXCEPT ![p] = part]
           /\ spoilt' = spoilt \cup {p} /\ UNCHANGED ideal
  <2>1. /\ disk' \in [Paths -> SUBSET Marks] /\ ideal' \in [Paths -> SUBSET Marks]
        /\ spoilt' \subseteq Paths /\ p \in spoilt'
        /\ \A q \in Paths \ {p} : disk'[q] = disk[q] /\ ideal'[q] = ideal[q]
                                 /\ (q \in spoilt' <=> q \in spoilt)
    BY <1>1, <1>2, <1>5 DEF TypeOK
  <2>2. /\ TypeOK' /\ Groups' /\ Places' /\ Collected' /\ HaveSaid' /\ Locks'
        /\ at'[c] = "ended" /\ \A d \in Calls \ {c} : at'[d] = at[d]
    BY <1>1, <1>5, <2>1, GivesBack
  <2> HIDE DEF p
  <2>3. Reads'
    BY <1>1, <1>3, <2>1, <2>2 DEF Inv, Reads, Working
  <2>4. NoLostEdit'
    BY <1>1, <2>1, <2>2 DEF Inv, NoLostEdit, p
  <2>5. QED
    BY <2>2, <2>3, <2>4 DEF Inv
<1>6. QED
  BY <1>4, <1>5 DEF WriteText

LEMMA RunHooksInv ==
  ASSUME Inv, NEW c \in Calls, RunHooks(c)
  PROVE  Inv'
<1> DEFINE p == PathOf[c]
<1>1. /\ TypeOK /\ at[c] = "written" /\ at[c] \in Working /\ Returns(c, "ok") /\ Release(c)
      /\ UNCHANGED <<batch, phase, next, group, results, seen, spoilt>> /\ p \in Paths
  BY ToolBatchAssumption DEF Inv, RunHooks, Working
<1>2. PICK rewritten \in SUBSET (disk[p] \cap Base) :
        /\ disk' = [disk EXCEPT ![p] = @ \ rewritten]
        /\ ideal' = [ideal EXCEPT ![p] = @ \ rewritten]
  BY DEF RunHooks
<1>3. /\ disk' \in [Paths -> SUBSET Marks] /\ ideal' \in [Paths -> SUBSET Marks]
      /\ spoilt' \subseteq Paths
      /\ disk'[p] = disk[p] \ rewritten /\ ideal'[p] = ideal[p] \ rewritten
      /\ \A q \in Paths \ {p} : disk'[q] = disk[q] /\ ideal'[q] = ideal[q]
  BY <1>1, <1>2 DEF TypeOK
<1>4. /\ TypeOK' /\ Groups' /\ Places' /\ Collected' /\ HaveSaid' /\ Locks'
      /\ at'[c] = "ended" /\ \A d \in Calls \ {c} : at'[d] = at[d]
  BY <1>1, <1>3, GivesBack
<1>5. \A d \in Calls \ {c} : at[d] \in Working => PathOf[d] # p /\ PathOf[d] \in Paths
  BY <1>1, OneHolder, ToolBatchAssumption
<1> HIDE DEF p
<1>6. Reads'
  BY <1>1, <1>3, <1>4, <1>5 DEF Inv, Reads, Working
<1>7. NoLostEdit'
  BY <1>1, <1>3, <1>4 DEF Inv, NoLostEdit
<1>8. QED
  BY <1>4, <1>6, <1>7 DEF Inv

-----------------------------------------------------------------------------
(* The theorems.                                                           *)

LEMMA NextInv == Inv /\ [Next]_vars => Inv'
<1> SUFFICES ASSUME Inv, [Next]_vars PROVE Inv'
  OBVIOUS
<1>1. ASSUME NEW a \in Agents, AgentStep(a) PROVE Inv'
  BY <1>1, FormGroupInv, CollectGroupInv, FinishInv DEF AgentStep
<1>2. ASSUME NEW c \in Calls, CallStep(c) PROVE Inv'
  BY <1>2, StartInv, AloneEndsInv, AcquireInv, ReadCurrentInv, OpenFileInv, WriteTextInv,
     RunHooksInv DEF CallStep
<1>3. CASE UNCHANGED vars
  <2>1. TypeOK'
    BY <1>3 DEF Inv, vars, files, TypeOK, CallsOf
  <2>2. Groups' /\ Places'
    BY <1>3 DEF Inv, vars, Groups, Places, Open, CallsOf
  <2>3. Collected' /\ HaveSaid' /\ Locks' /\ Reads' /\ NoLostEdit'
    BY <1>3 DEF Inv, vars, files, Collected, HaveSaid, Locks, Reads, NoLostEdit
  <2>4. QED
    BY <2>1, <2>2, <2>3 DEF Inv
<1>4. QED
  BY <1>1, <1>2, <1>3 DEF Next

\* The inductive invariant: who holds which lock, what an edit has read, which calls a
\* group has and what the list of results says (execute_batch, PathLockManager.lock).
THEOREM InvHolds == Spec => []Inv
<1>1. Init => Inv
  BY InitInv
<1>2. QED
  BY <1>1, NextInv, PTL DEF Spec

\* The variables have their types, and a lock is held by a call that works on its path.
THEOREM Typed == Spec => []TypeOK
<1>1. Inv => TypeOK
  BY DEF Inv
<1>2. QED
  BY <1>1, InvHolds, PTL

\* No edit is lost, whatever threads and agents edit a file, before a write fails half
\* way or after a later write of the whole file (edit_file, write_file, PathLockManager).
THEOREM EditsKept == Spec => []NoLostEdit
<1>1. Inv => NoLostEdit
  BY DEF Inv
<1>2. QED
  BY <1>1, InvHolds, PTL

\* A call that must run alone has no call of its batch beside it, and a batch that is
\* over or has raised has left nothing running or queued (execute_batch).
THEOREM AloneKept == Spec => []AloneIsAlone
<1>1. Inv => AloneIsAlone
  <2> SUFFICES ASSUME Inv, NEW a \in Agents
               PROVE  /\ \A c, d \in CallsOf(a) :
                           c # d /\ Alone(c) /\ at[c] \in Running => at[d] \notin Running
                      /\ phase[a] \in {"over", "raised"} =>
                           \A c \in CallsOf(a) : at[c] \notin Running \cup {"queued"}
    BY DEF AloneIsAlone
  <2>1. \A c \in CallsOf(a) : at[c] \in Running \cup {"queued"} => c \in group[a]
    BY DEF Inv, Groups, Open
  <2>2. /\ \A c, d \in group[a] : Alone(c) => c = d
        /\ phase[a] # "group" => group[a] = {}
    BY DEF Inv, Groups
  <2>3. QED
    BY <2>1, <2>2
<1>2. QED
  BY <1>1, InvHolds, PTL

\* Each result stands in the place of its call, a batch that raises has run a prefix of
\* its groups, and one that is over has all its results (execute_batch).
THEOREM ResultsKept == Spec => []ResultsInPlace
<1>1. Inv => ResultsInPlace
  <2> SUFFICES ASSUME Inv, NEW a \in Agents
               PROVE  /\ Len(results[a]) < next[a]
                      /\ \A i \in 1 .. Len(results[a]) :
                           at[batch[a][i]] = "ended" /\ results[a][i] = result[batch[a][i]]
                      /\ \A i \in 1 .. Len(batch[a]) : at[batch[a][i]] # "not" <=> i < next[a]
                      /\ phase[a] = "over" => Len(results[a]) = Len(batch[a])
    BY DEF ResultsInPlace
  <2>1. batch[a] \in Seq(Calls) /\ next[a] \in Nat
    BY DEF Inv, TypeOK
  <2>2. QED
    BY <2>1 DEF Inv, Places, Collected
<1>2. QED
  BY <1>1, InvHolds, PTL
=============================================================================
