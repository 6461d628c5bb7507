--------------------------- MODULE StorageProofs ----------------------------
(***************************************************************************)
(* For any threads, keys and records.  JSON files: the variables have their *)
(* types; and when one backend serves each key, a file can always be parsed *)
(* and calls take effect one at a time and whole.  JSON-lines files: an     *)
(* append cut short costs at most one record of another or, if it had wide  *)
(* characters, the reading of the stream, when one backend serves the file. *)
(***************************************************************************)
EXTENDS Storage, SubsequencesProofs, SequenceTheorems, FiniteSetTheorems, TLAPS

Pieces == [of : Seq(Recs), part : {"head", "rest"}]

\* A file is the text of a value: what was renamed was complete.
FilesAreTexts ==
  \A k \in Keys : file[k] # Absent => \E v \in Seq(Recs) : file[k] = Text(v)

\* The temporary file holds what its writer has written, and nothing else.
TmpIsMine ==
  \A t \in Threads :
    /\ pc[t] = "head" => tmp[KeyOf[t]] = << >>
    /\ pc[t] = "rest" => tmp[KeyOf[t]] = <<Piece(copy[t], "head")>>
    /\ pc[t] = "replace" => tmp[KeyOf[t]] = Text(copy[t])

\* append() writes the value that is there and one record more.
Builds ==
  \A t \in Threads :
    Use[t] = "append" /\ pc[t] \in {"open", "head", "rest", "replace"} =>
      \E r \in Recs : copy[t] = Append(Value(KeyOf[t]), r)

-----------------------------------------------------------------------------

LEMMA TextFacts ==
  ASSUME NEW v \in Seq(Recs)
  PROVE  /\ Text(v) \in Seq(Pieces) /\ Text(v) # << >> /\ Text(v) # Absent
         /\ Whole(Text(v)) /\ Text(v)[1].of = v
<1>1. Piece(v, "head") \in Pieces /\ Piece(v, "rest") \in Pieces
  BY DEF Piece, Pieces
<1>2. Text(v) \in Seq(Pieces)
  BY <1>1 DEF Text
<1>3. Len(Text(v)) = 2 /\ Text(v)[1] = Piece(v, "head")
  BY <1>1 DEF Text
<1>4. Text(v)[1].of = v
  BY <1>3 DEF Piece
<1>5. Text(v) # Absent
  BY <1>2, JsonFilesAssumption DEF Pieces
<1>6. Text(v) # << >>
  BY DEF Text
<1>7. Whole(Text(v))
  BY <1>3, <1>4 DEF Whole
<1> QED
  BY <1>2, <1>4, <1>5, <1>6, <1>7

LEMMA PieceFacts ==
  ASSUME NEW v \in Seq(Recs)
  PROVE  /\ <<Piece(v, "head")>> \in Seq(Pieces)
         /\ Append(<< >>, Piece(v, "head")) = <<Piece(v, "head")>>
         /\ Append(<<Piece(v, "head")>>, Piece(v, "rest")) = Text(v)
         /\ << >> \in Seq(Pieces)
<1>1. Piece(v, "head") \in Pieces /\ Piece(v, "rest") \in Pieces
  BY DEF Piece, Pieces
<1>2. <<Piece(v, "head")>> \in Seq(Pieces) /\ << >> \in Seq(Pieces)
  BY <1>1
<1>3. Append(<< >>, Piece(v, "head")) = <<Piece(v, "head")>>
  BY <1>1
<1>4. Append(<<Piece(v, "head")>>, Piece(v, "rest")) = <<Piece(v, "head"), Piece(v, "rest")>>
  <2> DEFINE s == Append(<<Piece(v, "head")>>, Piece(v, "rest"))
             p == <<Piece(v, "head"), Piece(v, "rest")>>
  <2>1. s \in Seq(Pieces) /\ Len(s) = 2 /\ s[1] = Piece(v, "head") /\ s[2] = Piece(v, "rest")
    BY <1>1
  <2>2. p \in Seq(Pieces) /\ Len(p) = 2 /\ p[1] = Piece(v, "head") /\ p[2] = Piece(v, "rest")
    BY <1>1
  <2>3. \A i \in 1 .. Len(s) : s[i] = p[i]
    BY <2>1, <2>2
  <2> HIDE DEF s, p
  <2>4. s = p
    BY <2>1, <2>2, <2>3, SeqEqual
  <2> QED
    BY <2>4 DEF s, p
<1> QED
  BY <1>2, <1>3, <1>4 DEF Text

LEMMA SeqIsThere ==
  ASSUME NEW c \in Seq(Pieces)
  PROVE  c # Absent
BY JsonFilesAssumption DEF Pieces

LEMMA ContentsAre == Contents = Seq(Pieces) \cup {Absent}
BY DEF Contents, Pieces

-----------------------------------------------------------------------------
(* Types and the lock.                                                     *)

LEMMA LockStep ==
  ASSUME JsonTypeOK, NEW t \in Threads, lock' \in [Backends -> Threads \cup {Free}],
         \/ Locked(t) /\ pc[t] \notin Holding /\ \E x \in Holding : pc' = [pc EXCEPT ![t] = x]
         \/ Unlocked(t) /\ pc[t] \in Holding /\ \E x \in {"idle", "got"} : pc' = [pc EXCEPT ![t] = x]
  PROVE  \A s \in Threads : pc'[s] \in Holding <=> lock'[BackendOf[s]] = s
<1>1. \A s \in Threads : BackendOf[s] \in Backends /\ s # Free
  BY JsonFilesAssumption
<1>2. CASE Locked(t) /\ pc[t] \notin Holding /\ \E x \in Holding : pc' = [pc EXCEPT ![t] = x]
  BY <1>1, <1>2 DEF JsonTypeOK, Locked
<1>3. CASE Unlocked(t) /\ pc[t] \in Holding /\ \E x \in {"idle", "got"} : pc' = [pc EXCEPT ![t] = x]
  BY <1>1, <1>3 DEF JsonTypeOK, Unlocked, Holding
<1> QED
  BY <1>2, <1>3

\* Every write leaves sequences of pieces.
LEMMA WrittenType ==
  ASSUME NEW c \in Contents, NEW t \in Threads, copy[t] \in Seq(Recs),
         NEW p \in {"head", "rest"}
  PROVE  Written(c, t, p) \subseteq Contents
<1>0. CASE c = Absent
  BY <1>0, ContentsAre DEF Written
<1>1. Piece(copy[t], p) \in Pieces
  BY DEF Piece, Pieces
<1>2. CASE c # Absent
  <2>1. Append(c, Piece(copy[t], p)) \in Seq(Pieces)
    BY <1>1, <1>2, ContentsAre
  <2> QED
    BY <1>2, <2>1, TextFacts, PieceFacts, ContentsAre DEF Written
<1> QED
  BY <1>0, <1>2

\* What a caller wants to write is a value.
LEMMA CopyIs ==
  ASSUME copy \in [Threads -> Seq(Recs)], NEW t \in Threads,
         Value(KeyOf[t]) \in Seq(Recs), Appends(t) \/ Counts(t) \/ Remembers(t)
  PROVE  \E c \in Seq(Recs) : copy' = [copy EXCEPT ![t] = c]
<1>1. copy[t] \in Seq(Recs) /\ << >> \in Seq(Recs)
      /\ \A c \in Seq(Recs), r \in Recs : Append(c, r) \in Seq(Recs)
  OBVIOUS
<1>2. \A S \in SUBSET Recs : Only(copy[t], S) \in Seq(Recs)
  BY <1>1, OnlyRange
<1>3. CASE Appends(t)
  BY <1>1, <1>3 DEF Appends
<1>4. CASE Counts(t)
  BY <1>1, <1>4 DEF Counts
<1>5. CASE Remembers(t)
  BY <1>1, <1>2, <1>5 DEF Remembers
<1>6. QED
  BY <1>3, <1>4, <1>5

\* Types are kept by every step.
LEMMA TypeStep ==
  ASSUME JsonTypeOK, JsonStep \/ JsonCrash
  PROVE  JsonTypeOK'
<1> USE DEF JsonTypeOK
<1>1. CASE JsonCrash
  <2>1. \A t \in Threads : t # Free /\ BackendOf[t] \in Backends
    BY JsonFilesAssumption
  <2> QED
    BY <1>1, <2>1 DEF JsonCrash, Holding
<1>2. CASE JsonStep
  <2>1. PICK t \in Threads :
          \/ Get(t) \/ Change(t) \/ Begin(t) \/ Open(t)
          \/ Write(t, "head", "rest") \/ Write(t, "rest", "replace")
          \/ Replace(t) \/ Return(t) \/ Raise(t)
    BY <1>2 DEF JsonStep
  <2>2. KeyOf[t] \in Keys /\ BackendOf[t] \in Backends /\ Use[t] \in {"append", "count", "memory"}
    BY JsonFilesAssumption
  <2>3. ASSUME file[KeyOf[t]] # Absent, Loads(KeyOf[t])
        PROVE  file[KeyOf[t]][1].of \in Seq(Recs)
    <3>1. file[KeyOf[t]] \in Seq(Pieces) /\ Len(file[KeyOf[t]]) = 2
      BY <2>2, <2>3, ContentsAre DEF Loads, Whole
    <3>2. file[KeyOf[t]][1] \in Pieces
      BY <3>1
    <3> QED
      BY <3>2 DEF Pieces
  <2>4. Value(KeyOf[t]) \in Seq(Recs)
    BY <2>3 DEF Value
  <2>5. CASE Get(t)
    BY <2>5, <2>2, <2>4 DEF Get, Holding
  <2>6. CASE Open(t)
    <3>1. << >> \in Contents
      BY ContentsAre
    <3> QED
      BY <2>6, <2>2, <3>1 DEF Open, Holding
  <2>7. ASSUME NEW p \in {"head", "rest"}, NEW n \in {"rest", "replace"}, Write(t, p, n)
        PROVE  JsonTypeOK'
    <3>1. file' \in [Keys -> Contents] /\ tmp' \in [Keys -> Contents]
      <4>1. /\ Written(tmp[KeyOf[t]], t, p) \subseteq Contents
            /\ Written(file[KeyOf[t]], t, p) \subseteq Contents
            /\ file[KeyOf[t]] \in Contents
        BY <2>2, WrittenType
      <4> QED
        BY <2>7, <4>1 DEF Write
    <3> QED
      BY <2>7, <2>2, <3>1 DEF Write, Holding
  <2>8. CASE Replace(t)
    BY <2>8, <2>2 DEF Replace, Holding, Contents
  <2>9. CASE Return(t) \/ Raise(t)
    <3>1. /\ pc[t] \in Holding /\ Unlocked(t) /\ UNCHANGED <<file, tmp, used>>
          /\ \E x \in {"idle", "got"} : pc' = [pc EXCEPT ![t] = x]
          /\ \E c \in Seq(Recs) : copy' = [copy EXCEPT ![t] = c]
      <4>1. << >> \in Seq(Recs) /\ copy[t] \in Seq(Recs)
        OBVIOUS
      <4>2. /\ \E x \in {"idle", "got"} : pc' = [pc EXCEPT ![t] = x]
            /\ \E c \in Seq(Recs) : copy' = [copy EXCEPT ![t] = c]
        BY <2>9, <4>1 DEF Return, Raise, Rests
      <4>3. QED
        BY <2>9, <4>2 DEF Return, Raise, Holding
    <3>2. lock' \in [Backends -> Threads \cup {Free}]
      BY <3>1 DEF Unlocked
    <3>3. \A s \in Threads : pc'[s] \in Holding <=> lock'[BackendOf[s]] = s
      BY <3>1, <3>2, LockStep
    <3> QED
      BY <3>1, <3>2, <3>3 DEF Holding
  <2>10. ASSUME Appends(t) \/ Counts(t) \/ Remembers(t)
         PROVE  used' \subseteq Recs /\ copy' \in [Threads -> Seq(Recs)]
    <3>1. \E c \in Seq(Recs) : copy' = [copy EXCEPT ![t] = c]
      BY <2>4, <2>10, CopyIs
    <3>2. used' \subseteq Recs
      BY <2>10 DEF Appends, Counts, Remembers, Fresh
    <3>3. QED
      BY <3>1, <3>2
  <2>11. CASE Change(t)
    BY <2>10, <2>11 DEF Change
  <2>12. CASE Begin(t)
    <3>1. pc[t] \notin Holding /\ pc' = [pc EXCEPT ![t] = "open"] /\ "open" \in Holding
      BY <2>12 DEF Begin, Appends, Counts, Remembers, Holding
    <3>2. lock' \in [Backends -> Threads \cup {Free}] /\ Locked(t)
      BY <2>12 DEF Begin, Locked
    <3>3. \A s \in Threads : pc'[s] \in Holding <=> lock'[BackendOf[s]] = s
      BY <3>1, <3>2, LockStep
    <3> QED
      BY <2>10, <2>12, <3>1, <3>2, <3>3 DEF Begin
  <2> QED
    BY <2>1, <2>5, <2>6, <2>7, <2>8, <2>9, <2>11, <2>12
<1> QED
  BY <1>1, <1>2

\* JsonTypeOK: the types, and that a lock is held exactly by the caller that writes.
THEOREM JsonTypes == JsonSpec => []JsonTypeOK
<1>1. JsonInit => JsonTypeOK
  <2>1. \A t \in Threads : t # Free /\ BackendOf[t] \in Backends
    BY JsonFilesAssumption
  <2> QED
    BY <2>1 DEF JsonInit, JsonTypeOK, Contents, Holding
<1>2. JsonTypeOK /\ [JsonStep \/ JsonCrash]_jvars => JsonTypeOK'
  <2>1. JsonTypeOK /\ UNCHANGED jvars => JsonTypeOK'
    BY DEF jvars, JsonTypeOK
  <2> QED
    BY <2>1, TypeStep
<1> QED
  BY <1>1, <1>2, PTL DEF JsonSpec

-----------------------------------------------------------------------------
(* Files are whole.                                                        *)

Files == FilesAreTexts /\ TmpIsMine

\* The lock of a key's backend keeps its writers apart.
LEMMA OneWriter ==
  ASSUME JsonTypeOK, OneBackend, NEW s \in Threads, NEW t \in Threads,
         KeyOf[s] = KeyOf[t], pc[s] \in Holding, pc[t] \in Holding
  PROVE  s = t
BY DEF JsonTypeOK, OneBackend

LEMMA ValueOfText ==
  ASSUME NEW k \in Keys, NEW v \in Seq(Recs), file[k] = Text(v)
  PROVE  Value(k) = v
BY TextFacts DEF Value, Loads

LEMMA ValueType ==
  ASSUME FilesAreTexts, NEW k \in Keys
  PROVE  Value(k) \in Seq(Recs)
<1>1. CASE file[k] = Absent
  BY <1>1 DEF Value
<1>2. CASE file[k] # Absent
  BY <1>2, ValueOfText DEF FilesAreTexts
<1> QED
  BY <1>1, <1>2

\* A step of t that leaves the files alone, and t where it does not write.
LEMMA TmpKept ==
  ASSUME Files, NEW t \in Threads, UNCHANGED <<file, tmp>>,
         pc \in [Threads -> Holding \cup {"idle", "got"}],
         copy \in [Threads -> Seq(Recs)],
         \E c \in Seq(Recs) : copy' = [copy EXCEPT ![t] = c],
         \E x \in {"idle", "got", "open"} : pc' = [pc EXCEPT ![t] = x]
  PROVE  Files'
<1>1. \A s \in Threads \ {t} : pc'[s] = pc[s] /\ copy'[s] = copy[s]
  OBVIOUS
<1>2. pc'[t] \notin {"head", "rest", "replace"}
  OBVIOUS
<1>3. QED
  BY <1>1, <1>2 DEF Files, FilesAreTexts, TmpIsMine

LEMMA FilesStep ==
  ASSUME JsonTypeOK, OneBackend, Files, JsonStep \/ JsonCrash
  PROVE  Files'
<1> USE DEF Files
<1>1. CASE JsonCrash
  BY <1>1 DEF JsonCrash, FilesAreTexts, TmpIsMine
<1>2. CASE JsonStep
  <2>1. PICK t \in Threads :
          \/ Get(t) \/ Change(t) \/ Begin(t) \/ Open(t)
          \/ Write(t, "head", "rest") \/ Write(t, "rest", "replace")
          \/ Replace(t) \/ Return(t) \/ Raise(t)
    BY <1>2 DEF JsonStep
  <2>2. KeyOf[t] \in Keys /\ copy[t] \in Seq(Recs)
        /\ pc \in [Threads -> Holding \cup {"idle", "got"}]
        /\ tmp \in [Keys -> Contents] /\ file \in [Keys -> Contents]
        /\ copy \in [Threads -> Seq(Recs)] /\ Value(KeyOf[t]) \in Seq(Recs)
    BY JsonFilesAssumption, ValueType DEF JsonTypeOK
  <2>3. \A s \in Threads : s # t /\ pc[t] \in Holding /\ pc[s] \in Holding => KeyOf[s] # KeyOf[t]
    BY OneWriter
  <2>4. CASE Get(t)
    BY <2>4, <2>2 DEF Get, FilesAreTexts, TmpIsMine
  <2>5. CASE Begin(t) \/ Change(t)
    <3>1. /\ UNCHANGED <<file, tmp>>
          /\ \E x \in {"got", "open"} : pc' = [pc EXCEPT ![t] = x]
      <4>1. CASE Begin(t)
        BY <4>1 DEF Begin
      <4>2. CASE Change(t)
        <5>1. pc[t] = "got" /\ pc' = pc /\ UNCHANGED <<file, tmp>>
          BY <4>2 DEF Change, Remembers
        <5>2. QED
          BY <2>2, <5>1
      <4>3. QED
        BY <2>5, <4>1, <4>2
    <3>2. \E c \in Seq(Recs) : copy' = [copy EXCEPT ![t] = c]
      BY <2>2, <2>5, CopyIs DEF Begin, Change
    <3> QED
      BY <2>2, <3>1, <3>2, TmpKept
  <2>6. CASE Open(t)
    <3>1. pc[t] \in Holding /\ UNCHANGED <<file, copy>>
          /\ tmp' = [tmp EXCEPT ![KeyOf[t]] = << >>] /\ pc' = [pc EXCEPT ![t] = "head"]
      BY <2>6 DEF Open, Holding
    <3> QED
      BY <3>1, <2>2, <2>3, JsonFilesAssumption DEF FilesAreTexts, TmpIsMine, Holding
  <2>7. CASE Write(t, "head", "rest")
    <3>1. pc[t] \in Holding /\ tmp[KeyOf[t]] = << >> /\ << >> # Absent
      BY <2>7, PieceFacts, SeqIsThere, EmptySeq DEF Write, Holding, TmpIsMine
    <3>2. Written(tmp[KeyOf[t]], t, "head") = {<<Piece(copy[t], "head")>>}
      BY <3>1, <2>2, PieceFacts DEF Written
    <3>3. /\ UNCHANGED <<file, copy>> /\ pc' = [pc EXCEPT ![t] = "rest"]
          /\ tmp' = [tmp EXCEPT ![KeyOf[t]] = <<Piece(copy[t], "head")>>]
      BY <2>7, <3>1, <3>2 DEF Write
    <3> QED
      BY <3>1, <3>3, <2>2, <2>3, JsonFilesAssumption DEF FilesAreTexts, TmpIsMine, Holding
  <2>8. CASE Write(t, "rest", "replace")
    <3>1. /\ pc[t] \in Holding /\ tmp[KeyOf[t]] = <<Piece(copy[t], "head")>>
          /\ tmp[KeyOf[t]] # Absent
      BY <2>8, <2>2, PieceFacts, SeqIsThere DEF Write, Holding, TmpIsMine
    <3>2. Written(tmp[KeyOf[t]], t, "rest") = {Text(copy[t])}
      BY <3>1, <2>2, PieceFacts DEF Written
    <3>3. /\ UNCHANGED <<file, copy>> /\ pc' = [pc EXCEPT ![t] = "replace"]
          /\ tmp' = [tmp EXCEPT ![KeyOf[t]] = Text(copy[t])]
      BY <2>8, <3>1, <3>2 DEF Write
    <3> QED
      BY <3>1, <3>3, <2>2, <2>3, JsonFilesAssumption DEF FilesAreTexts, TmpIsMine, Holding
  <2>9. CASE Replace(t)
    <3>1. pc[t] \in Holding /\ tmp[KeyOf[t]] = Text(copy[t])
      BY <2>9 DEF Replace, Holding, TmpIsMine
    <3>2. FilesAreTexts'
      BY <2>9, <3>1, <2>2 DEF Replace, FilesAreTexts
    <3>3. TmpIsMine'
      BY <2>9, <3>1, <2>2, <2>3, JsonFilesAssumption DEF Replace, TmpIsMine, Holding
    <3> QED
      BY <3>2, <3>3
  <2>10. CASE Return(t) \/ Raise(t)
    <3>1. /\ UNCHANGED <<file, tmp>>
          /\ \E x \in {"idle", "got"} : pc' = [pc EXCEPT ![t] = x]
          /\ \E c \in Seq(Recs) : copy' = [copy EXCEPT ![t] = c]
      <4>1. << >> \in Seq(Recs)
        OBVIOUS
      <4>2. QED
        BY <2>2, <2>10, <4>1 DEF Return, Raise, Rests
    <3> QED
      BY <2>2, <3>1, TmpKept
  <2> QED
    BY <2>1, <2>4, <2>5, <2>6, <2>7, <2>8, <2>9, <2>10
<1> QED
  BY <1>1, <1>2

LEMMA FilesHold ==
  ASSUME OneBackend
  PROVE  JsonSpec => []Files
<1>1. JsonInit => Files
  BY JsonFilesAssumption DEF JsonInit, Files, FilesAreTexts, TmpIsMine
<1>2. JsonTypeOK /\ Files /\ [JsonStep \/ JsonCrash]_jvars => Files'
  <2>1. Files /\ UNCHANGED jvars => Files'
    BY DEF jvars, Files, FilesAreTexts, TmpIsMine
  <2> QED
    BY <2>1, FilesStep
<1> QED
  BY <1>1, <1>2, JsonTypes, PTL DEF JsonSpec

\* FileIsWhole: where one backend serves each key, what is under its name can be
\* parsed at every moment, whatever fails or crashes in _atomic_write.
THEOREM FilesAreWhole ==
  ASSUME OneBackend
  PROVE  JsonSpec => []FileIsWhole
<1>1. Files => FileIsWhole
  BY TextFacts DEF Files, FilesAreTexts, FileIsWhole, Loads
<1> QED
  BY <1>1, FilesHold, PTL

-----------------------------------------------------------------------------
(* A key is a durable value.                                               *)

Asked == {"open", "head", "rest", "replace"}

\* A step of t that leaves the values alone.
LEMMA BuildsKept ==
  ASSUME Builds, UNCHANGED file, NEW t \in Threads,
         \A s \in Threads \ {t} : pc'[s] = pc[s] /\ copy'[s] = copy[s],
         \/ pc'[t] \notin Asked
         \/ Use[t] # "append"
         \/ pc[t] \in Asked /\ copy'[t] = copy[t]
         \/ \E r \in Recs : copy'[t] = Append(Value(KeyOf[t]), r)
  PROVE  Builds'
<1>1. \A s \in Threads : Value(KeyOf[s])' = Value(KeyOf[s])
  BY DEF Value, Loads
<1>2. ASSUME NEW s \in Threads, Use[s] = "append", pc'[s] \in Asked
      PROVE  \E r \in Recs : copy'[s] = Append(Value(KeyOf[s])', r)
  BY <1>1, <1>2 DEF Builds, Asked
<1> QED
  BY <1>2 DEF Builds, Asked

LEMMA BuildsStep ==
  ASSUME JsonTypeOK, OneBackend, Files, Builds, JsonStep \/ JsonCrash
  PROVE  Builds'
<1>1. CASE JsonCrash
  BY <1>1 DEF JsonCrash, Builds
<1>2. CASE JsonStep
  <2>1. PICK t \in Threads :
          \/ Get(t) \/ Change(t) \/ Begin(t) \/ Open(t)
          \/ Write(t, "head", "rest") \/ Write(t, "rest", "replace")
          \/ Replace(t) \/ Return(t) \/ Raise(t)
    BY <1>2 DEF JsonStep
  <2>2. KeyOf[t] \in Keys /\ copy[t] \in Seq(Recs) /\ Value(KeyOf[t]) \in Seq(Recs)
        /\ pc \in [Threads -> Holding \cup {"idle", "got"}]
        /\ copy \in [Threads -> Seq(Recs)] /\ file \in [Keys -> Contents]
    BY JsonFilesAssumption, ValueType DEF JsonTypeOK, Files
  <2>3. CASE Get(t)
    BY <2>2, <2>3, BuildsKept DEF Get, Asked
  <2>4. CASE Change(t)
    <3>1. Use[t] # "append" /\ UNCHANGED <<file, pc>>
      BY <2>4 DEF Change, Remembers
    <3>2. \A s \in Threads \ {t} : copy'[s] = copy[s]
      BY <2>2, <2>4, CopyIs DEF Change
    <3> QED
      BY <3>1, <3>2, BuildsKept
  <2>5. CASE Begin(t)
    <3>1. UNCHANGED file /\ pc' = [pc EXCEPT ![t] = "open"]
          /\ \A s \in Threads \ {t} : copy'[s] = copy[s]
      BY <2>2, <2>5, CopyIs DEF Begin
    <3>2. Use[t] = "append" => \E r \in Recs : copy'[t] = Append(Value(KeyOf[t]), r)
      BY <2>2, <2>5 DEF Begin, Appends, Counts, Remembers
    <3> QED
      BY <2>2, <3>1, <3>2, BuildsKept
  <2>6. CASE Open(t)
    BY <2>2, <2>6, BuildsKept DEF Open, Asked
  <2>7. ASSUME NEW p \in {"head", "rest"}, NEW n \in {"rest", "replace"}, Write(t, p, n)
        PROVE  Builds'
    <3>1. tmp[KeyOf[t]] # Absent
      BY <2>7, <2>2, PieceFacts, SeqIsThere DEF Write, Files, TmpIsMine
    <3>2. /\ UNCHANGED <<file, copy>> /\ pc' = [pc EXCEPT ![t] = n]
          /\ pc[t] \in Asked
      BY <2>7, <3>1 DEF Write, Asked
    <3> QED
      BY <2>2, <3>2, BuildsKept
  <2>8. CASE Replace(t)
    <3>1. pc[t] \in Holding /\ tmp[KeyOf[t]] = Text(copy[t])
      BY <2>8 DEF Replace, Holding, Files, TmpIsMine
    <3>2. file' = [file EXCEPT ![KeyOf[t]] = Text(copy[t])]
          /\ pc' = [pc EXCEPT ![t] = "return"] /\ UNCHANGED copy
      BY <2>8, <3>1 DEF Replace
    <3>3. ASSUME NEW s \in Threads, pc'[s] \in Asked
          PROVE  pc[s] = pc'[s] /\ KeyOf[s] # KeyOf[t]
      <4>1. s # t /\ pc[s] = pc'[s] /\ pc[s] \in Holding
        BY <2>2, <3>2, <3>3 DEF Asked, Holding
      <4>2. QED
        BY <3>1, <4>1, OneWriter
    <3>4. ASSUME NEW s \in Threads, KeyOf[s] # KeyOf[t]
          PROVE  Value(KeyOf[s])' = Value(KeyOf[s])
      BY <2>2, <3>2, <3>4, JsonFilesAssumption DEF Value, Loads
    <3>5. ASSUME NEW s \in Threads, Use[s] = "append", pc'[s] \in Asked
          PROVE  \E r \in Recs : copy'[s] = Append(Value(KeyOf[s])', r)
      BY <3>2, <3>3, <3>4, <3>5 DEF Builds, Asked
    <3> QED
      BY <3>5 DEF Builds, Asked
  <2>9. CASE Return(t) \/ Raise(t)
    BY <2>2, <2>9, BuildsKept DEF Return, Raise, Rests, Asked
  <2> QED
    BY <2>1, <2>3, <2>4, <2>5, <2>6, <2>7, <2>8, <2>9
<1> QED
  BY <1>1, <1>2

-----------------------------------------------------------------------------

value_ == [k \in Keys |-> Value(k)]
call_ == [t \in Threads |-> CallOf(t)]

LEMMA CallsAre ==
  ASSUME NEW t \in Threads
  PROVE  /\ pc[t] = "return" => CallOf(t) = Register!Done
         /\ pc[t] \notin Asked \cup {"return"} => CallOf(t) = Register!Idle
         /\ pc[t] \in Asked => CallOf(t).at = "asked"
         /\ pc[t] \in Asked /\ Use[t] # "append" =>
              CallOf(t).op = "save" /\ CallOf(t).arg = copy[t]
         /\ pc[t] \in Asked /\ Use[t] = "append" =>
              CallOf(t).op = "append" /\ CallOf(t).arg = <<copy[t][Len(copy[t])]>>
BY DEF CallOf, Asked, Register!Done, Register!Idle

\* A step of t alone that leaves the values alone.
LEMMA CallMoves ==
  ASSUME NEW t \in Threads, UNCHANGED file,
         \A s \in Threads \ {t} : pc'[s] = pc[s] /\ copy'[s] = copy[s]
  PROVE  value_' = value_ /\ call_' = [call_ EXCEPT ![t] = CallOf(t)']
<1>1. value_' = value_
  BY DEF value_, Value, Loads
<1>2. \A s \in Threads \ {t} : CallOf(s)' = CallOf(s)
  BY DEF CallOf
<1>3. call_' = [call_ EXCEPT ![t] = CallOf(t)']
  BY <1>2 DEF call_
<1> QED
  BY <1>1, <1>3

\* What t asks for is a call.
LEMMA AsksFor ==
  ASSUME JsonTypeOK', NEW t \in Threads, pc'[t] \in Asked,
         Use[t] = "append" => Len(copy'[t]) > 0
  PROVE  CallOf(t)' \in Register!Calls
<1>1. copy'[t] \in Seq(Recs)
  BY DEF JsonTypeOK
<1>2. CASE Use[t] = "append"
  <2>1. copy'[t][Len(copy'[t])] \in Recs
    BY <1>1, <1>2
  <2>2. CallOf(t)' = [at |-> "asked", op |-> "append", arg |-> <<copy'[t][Len(copy'[t])]>>]
    BY <1>2 DEF CallOf, Asked
  <2>3. QED
    BY <2>1, <2>2 DEF Register!Calls
<1>3. CASE Use[t] # "append"
  <2>1. CallOf(t)' = [at |-> "asked", op |-> "save", arg |-> copy'[t]]
    BY <1>3 DEF CallOf, Asked
  <2>2. QED
    BY <1>1, <2>1 DEF Register!Calls
<1> QED
  BY <1>2, <1>3

\* The renaming applies the call.
LEMMA Applies ==
  ASSUME JsonTypeOK, FilesAreTexts, Builds, NEW t \in Threads, pc[t] = "replace"
  PROVE  Register!Applied(Value(KeyOf[t]), CallOf(t)) = copy[t]
<1>1. copy[t] \in Seq(Recs) /\ Value(KeyOf[t]) \in Seq(Recs)
  BY ValueType, JsonFilesAssumption DEF JsonTypeOK
<1>2. CASE Use[t] = "append"
  <2>1. PICK r \in Recs : copy[t] = Append(Value(KeyOf[t]), r)
    BY <1>2 DEF Builds
  <2>2. copy[t][Len(copy[t])] = r
    BY <1>1, <2>1
  <2>3. CallOf(t).op = "append" /\ CallOf(t).arg = <<r>>
    BY <1>2, <2>2, CallsAre DEF Asked
  <2>4. Append(Value(KeyOf[t]), r) = Value(KeyOf[t]) \o <<r>>
    BY <1>1, <2>1, AppendIsConcat
  <2>5. QED
    BY <2>1, <2>3, <2>4 DEF Register!Applied
<1>3. CASE Use[t] # "append"
  BY <1>3, CallsAre DEF Asked, Register!Applied
<1> QED
  BY <1>2, <1>3

\* Every step of the files is a step of the values, or none.
LEMMA RegisterStep ==
  ASSUME JsonTypeOK, JsonTypeOK', OneBackend, Files, Builds, JsonStep \/ JsonCrash
  PROVE  [Register!Next]_<<value_, call_>>
<1>1. CASE JsonCrash
  <2>1. call_' = [t \in Threads |-> Register!Idle]
    BY <1>1 DEF JsonCrash, call_, CallOf, Register!Idle
  <2>2. value_' = value_
    BY <1>1 DEF JsonCrash, value_, Value, Loads
  <2> QED
    BY <2>1, <2>2 DEF Register!Next, Register!Crash, value_, call_
<1>2. CASE JsonStep
  <2>1. PICK t \in Threads :
          \/ Get(t) \/ Change(t) \/ Begin(t) \/ Open(t)
          \/ Write(t, "head", "rest") \/ Write(t, "rest", "replace")
          \/ Replace(t) \/ Return(t) \/ Raise(t)
    BY <1>2 DEF JsonStep
  <2>2. KeyOf[t] \in Keys /\ copy[t] \in Seq(Recs) /\ Value(KeyOf[t]) \in Seq(Recs)
        /\ pc \in [Threads -> Holding \cup {"idle", "got"}]
        /\ copy \in [Threads -> Seq(Recs)] /\ file \in [Keys -> Contents]
    BY JsonFilesAssumption, ValueType DEF JsonTypeOK, Files
  <2>3. call_[t] = CallOf(t) /\ call_' = [s \in Threads |-> CallOf(s)']
        /\ \A x : x = CallOf(t) => [call_ EXCEPT ![t] = x] = call_
    BY DEF call_
  <2>4. CASE Get(t) \/ Change(t)
    <3>1. /\ UNCHANGED file /\ {pc[t], pc'[t]} \subseteq {"idle", "got"}
          /\ \A s \in Threads \ {t} : pc'[s] = pc[s] /\ copy'[s] = copy[s]
      <4>1. CASE Get(t)
        BY <2>2, <4>1 DEF Get
      <4>2. CASE Change(t)
        <5>1. UNCHANGED <<file, pc>> /\ pc[t] = "got"
          BY <4>2 DEF Change, Remembers
        <5>2. \A s \in Threads \ {t} : copy'[s] = copy[s]
          BY <2>2, <4>2, CopyIs DEF Change
        <5>3. QED
          BY <5>1, <5>2
      <4>3. QED
        BY <2>4, <4>1, <4>2
    <3>2. CallOf(t)' = CallOf(t)
      BY <3>1 DEF CallOf
    <3> QED
      BY <2>3, <3>1, <3>2, CallMoves
  <2>5. CASE Begin(t)
    <3>1. /\ UNCHANGED file /\ pc[t] \in {"idle", "got"} /\ pc'[t] = "open"
          /\ \A s \in Threads \ {t} : pc'[s] = pc[s] /\ copy'[s] = copy[s]
      <4>1. pc[t] \in {"idle", "got"}
        BY <2>5 DEF Begin, Appends, Counts, Remembers
      <4>2. QED
        BY <2>2, <2>5, <4>1, CopyIs DEF Begin
    <3>2. Use[t] = "append" => Len(copy'[t]) > 0
      BY <2>2, <2>5 DEF Begin, Appends, Counts, Remembers
    <3>3. CallOf(t) = Register!Idle /\ CallOf(t)' \in Register!Calls
      BY <3>1, <3>2, CallsAre, AsksFor DEF Asked
    <3>4. Register!Ask(t)
      BY <2>3, <3>1, <3>3, CallMoves DEF Register!Ask, value_, call_
    <3> QED
      BY <3>4 DEF Register!Next
  <2>6. CASE Open(t) \/ Write(t, "head", "rest") \/ Write(t, "rest", "replace")
    <3>1. UNCHANGED <<file, copy>> /\ pc[t] \in Asked /\ \E x \in Asked : pc' = [pc EXCEPT ![t] = x]
      <4>1. CASE Open(t)
        BY <4>1 DEF Open, Asked
      <4>2. ASSUME NEW p \in {"head", "rest"}, NEW n \in {"rest", "replace"}, Write(t, p, n)
            PROVE  UNCHANGED <<file, copy>> /\ pc[t] \in Asked /\ pc' = [pc EXCEPT ![t] = n]
        <5>1. tmp[KeyOf[t]] # Absent
          BY <4>2, <2>2, PieceFacts, SeqIsThere DEF Write, Files, TmpIsMine
        <5>2. QED
          BY <4>2, <5>1 DEF Write, Asked
      <4>3. QED
        BY <2>6, <4>1, <4>2 DEF Asked
    <3>2. CallOf(t)' = CallOf(t)
      BY <2>2, <3>1 DEF CallOf, Asked
    <3> QED
      BY <2>2, <2>3, <3>1, <3>2, CallMoves
  <2>7. CASE Replace(t)
    <3>1. /\ pc[t] = "replace" /\ file' = [file EXCEPT ![KeyOf[t]] = Text(copy[t])]
          /\ pc' = [pc EXCEPT ![t] = "return"] /\ UNCHANGED copy
      BY <2>7 DEF Replace, Files, TmpIsMine
    <3>2. Value(KeyOf[t])' = copy[t]
      BY <3>1, <2>2, TextFacts DEF Value, Loads
    <3>3. \A k \in Keys \ {KeyOf[t]} : Value(k)' = Value(k)
      BY <3>1, <2>2 DEF Value, Loads
    <3>4. value_' = [value_ EXCEPT ![KeyOf[t]] = Register!Applied(@, call_[t])]
      BY <2>2, <2>3, <3>1, <3>2, <3>3, Applies DEF value_, Files
    <3>5. call_' = [call_ EXCEPT ![t] = Register!Done]
      <4>1. CallOf(t)' = Register!Done
        BY <2>2, <3>1 DEF CallOf, Register!Done
      <4>2. \A s \in Threads \ {t} : CallOf(s)' = CallOf(s)
        BY <2>2, <3>1 DEF CallOf
      <4>3. QED
        BY <4>1, <4>2 DEF call_
    <3>6. call_[t].at = "asked"
      BY <2>3, <3>1, CallsAre DEF Asked
    <3>7. Register!TakeEffect(t)
      BY <3>4, <3>5, <3>6 DEF Register!TakeEffect, value_, call_
    <3> QED
      BY <3>7 DEF Register!Next
  <2>8. CASE Return(t) \/ Raise(t)
    <3>1. /\ UNCHANGED file /\ pc'[t] \in {"idle", "got"}
          /\ \A s \in Threads \ {t} : pc'[s] = pc[s] /\ copy'[s] = copy[s]
      BY <2>2, <2>8 DEF Return, Raise, Rests
    <3>2. CallOf(t)' = Register!Idle
      BY <3>1 DEF CallOf, Register!Idle
    <3>3. value_' = value_ /\ call_' = [call_ EXCEPT ![t] = Register!Idle]
      BY <3>1, <3>2, CallMoves
    <3>4. CASE Return(t)
      <4>1. call_[t] = Register!Done
        BY <2>3, <3>4, CallsAre DEF Return
      <4>2. Register!Finish(t)
        BY <3>3, <4>1 DEF Register!Finish, value_, call_
      <4> QED
        BY <4>2 DEF Register!Next
    <3>5. CASE Raise(t)
      <4>1. call_[t].at = "asked"
        BY <2>3, <3>5, CallsAre DEF Raise, Asked
      <4>2. Register!Fail(t)
        BY <3>3, <4>1 DEF Register!Fail, value_, call_
      <4> QED
        BY <4>2 DEF Register!Next
    <3> QED
      BY <2>8, <3>4, <3>5
  <2> QED
    BY <2>1, <2>4, <2>5, <2>6, <2>7, <2>8
<1> QED
  BY <1>1, <1>2

\* ImplementsRegister: where one backend serves each key, whoever appends, counts, resets,
\* prunes or compacts, calls take effect one at a time and whole, before they return, and
\* one that fails or dies first leaves the value alone (JSONBackend, _atomic_write).
THEOREM FilesAreRegisters ==
  ASSUME OneBackend
  PROVE  JsonSpec => ImplementsRegister
<1>1. JsonInit => Register!Init /\ Builds
  BY DEF JsonInit, Register!Init, Register!Idle, CallOf, Value, Builds
<1>2. JsonTypeOK /\ Files /\ Builds /\ [JsonStep \/ JsonCrash]_jvars => Builds'
  <2>1. Builds /\ UNCHANGED jvars => Builds'
    BY DEF jvars, Builds, Value, Loads
  <2> QED
    BY <2>1, BuildsStep
<1>3. JsonTypeOK /\ JsonTypeOK' /\ Files /\ Builds /\ [JsonStep \/ JsonCrash]_jvars
        => [Register!Next]_<<value_, call_>>
  <2>1. UNCHANGED jvars => UNCHANGED <<value_, call_>>
    BY DEF jvars, Value, Loads, CallOf, value_, call_
  <2> QED
    BY <2>1, RegisterStep
<1>4. value_ = [k \in Keys |-> Value(k)] /\ call_ = [t \in Threads |-> CallOf(t)]
  BY DEF value_, call_
<1> QED
  BY <1>1, <1>2, <1>3, JsonTypes, FilesHold, PTL
     DEF JsonSpec, ImplementsRegister, Register!Spec, value_, call_

-----------------------------------------------------------------------------
(* JSON lines.                                                             *)

LinePieces == Lines \X {"head", "cut", "rest"}

\* One backend, hence one lock, serves the file.
OneLineLock == \A w, x \in Writers : LockOf[w] = LockOf[x]

LineTypes ==
  /\ stream \in Seq(LinePieces)
  /\ held \in [Locks -> Writers \cup {NoWriter}]
  /\ writing \in [Writers -> {<< >>} \cup {<<r>> : r \in Lines}]
  /\ stored \subseteq Lines /\ torn \subseteq begun

\* Who writes holds the lock, and has put the beginning of its line at the end of the file.
LineIsOpen ==
  \A w \in Writers : writing[w] # << >> =>
    /\ held[LockOf[w]] = w
    /\ writing[w][1] \in begun \ torn
    /\ Len(stream) > 0 /\ stream[Len(stream)] \in Beginnings(writing[w][1])

\* The line that comes next, or the one being written, follows a line without an end.
Spoilt ==
  LET n == IF \E w \in Writers : writing[w] # << >> THEN Len(stream) - 1 ELSE Len(stream)
  IN n > 0 /\ stream[n][2] # "rest"

Missing == (stored \ Split) \ Parsed

\* What an interruption has cost, or will cost the next line, it costs once.
Budget ==
  /\ IsFiniteSet(stored) /\ IsFiniteSet(torn)
  /\ Cardinality(Missing) + (IF Spoilt THEN 1 ELSE 0) <= Cardinality(torn)

\* A character that was cut goes on, is being written, or belongs to what was cut short.
Cuts ==
  \A i \in 1 .. Len(stream) :
    \/ Decodes(i)
    \/ stream[i][1] \in torn \cap Wide
    \/ i = Len(stream) /\ \E w \in Writers : writing[w] # << >>

LineInv == LineTypes /\ LineIsOpen /\ Budget /\ Cuts

\* The beginnings of a line are pieces.
LEMMA BeginningsAre ==
  ASSUME NEW r \in Lines, NEW p \in Beginnings(r)
  PROVE  /\ p \in LinePieces /\ p[1] = r /\ p[2] # "rest"
         /\ p[2] = "cut" => r \in Wide
BY DEF Beginnings, LinePieces

\* Loading a stream with one piece more.
LEMMA LoadAppend ==
  ASSUME LineTypes, NEW p \in LinePieces, stream' = Append(stream, p)
  PROVE  /\ Parsed \subseteq Parsed'
         /\ \A r \in Lines \ Split :
              /\ p = Rest_(r) /\ Len(stream) > 0 /\ stream[Len(stream)] \in Beginnings(r)
              /\ Len(stream) > 1 => stream[Len(stream) - 1][2] = "rest"
              => r \in Parsed'
         /\ \A i \in 1 .. Len(stream) : Decodes(i) => Decodes(i)'
         /\ \A r \in Lines, n \in Nat :
              p = Rest_(r) /\ n = Len(stream) /\ n > 0 /\ stream[n] \in Beginnings(r)
              => Decodes(n)'
<1>1. /\ Len(stream) \in Nat /\ Len(stream') = Len(stream) + 1
      /\ \A i \in 1 .. Len(stream) : stream'[i] = stream[i]
      /\ stream'[Len(stream) + 1] = p
  BY DEF LineTypes
<1>2. ASSUME NEW i \in 1 .. Len(stream), LineAt(i) PROVE i \in 1 .. Len(stream') /\ LineAt(i)'
  <2>1. i + 1 \in 1 .. Len(stream) /\ (i > 1 => i - 1 \in 1 .. Len(stream))
    BY <1>1, <1>2 DEF LineAt
  <2>2. stream'[i] = stream[i] /\ stream'[i + 1] = stream[i + 1]
        /\ (i > 1 => stream'[i - 1] = stream[i - 1])
    BY <1>1, <2>1
  <2>3. QED
    BY <1>1, <1>2, <2>1, <2>2 DEF LineAt, Rest_
<1>3. Parsed \subseteq Parsed'
  <2> SUFFICES ASSUME NEW r \in Parsed PROVE r \in Parsed'
    OBVIOUS
  <2>1. PICK i \in 1 .. Len(stream) : LineAt(i) /\ r = stream[i][1]
    BY DEF Parsed
  <2>2. i \in 1 .. Len(stream') /\ LineAt(i)' /\ r = stream'[i][1]
    BY <1>1, <1>2, <2>1
  <2>3. QED
    BY <2>2 DEF Parsed
<1>4. ASSUME NEW r \in Lines, p = Rest_(r), Len(stream) > 0, stream[Len(stream)] \in Beginnings(r)
      PROVE  /\ \A n \in Nat : n = Len(stream) => Decodes(n)'
             /\ r \notin Split /\ (Len(stream) > 1 => stream[Len(stream) - 1][2] = "rest")
                => r \in Parsed'
  <2>0. PICK n \in Nat : n = Len(stream)
    BY <1>1
  <2>1. n \in 1 .. Len(stream') /\ stream'[n] \in Beginnings(r) /\ stream'[n + 1] = Rest_(r)
        /\ (n > 1 => stream'[n - 1] = stream[n - 1]) /\ n < Len(stream')
    BY <1>1, <1>4, <2>0
  <2>2. stream'[n][2] # "rest" /\ stream'[n][1] = r
    BY <2>1, BeginningsAre
  <2>3. Decodes(n)'
    BY <2>1, <2>2 DEF Decodes, Rest_
  <2>4. ASSUME r \notin Split, n > 1 => stream[n - 1][2] = "rest" PROVE r \in Parsed'
    <3>1. LineAt(n)'
      BY <2>1, <2>2, <2>4 DEF LineAt, Rest_
    <3>2. QED
      BY <2>1, <2>2, <3>1 DEF Parsed
  <2>5. QED
    BY <2>0, <2>3, <2>4
<1>5. ASSUME NEW i \in 1 .. Len(stream), Decodes(i) PROVE Decodes(i)'
  <2>1. i < Len(stream) => i + 1 \in 1 .. Len(stream) /\ i < Len(stream')
    BY <1>1
  <2>2. QED
    BY <1>1, <1>5, <2>1 DEF Decodes, Rest_
<1>6. QED
  BY <1>3, <1>4, <1>5

\* With one lock, one caller writes.
LEMMA OneLineWriter ==
  ASSUME LineTypes, LineIsOpen, OneLineLock, NEW w \in Writers, NEW x \in Writers,
         writing[w] # << >>, writing[x] # << >>
  PROVE  w = x
  BY DEF LineIsOpen, OneLineLock

\* A caller that finds the lock free finds nobody writing.
LEMMA LockFreeNobody ==
  ASSUME LineTypes, LineIsOpen, OneLineLock, NEW w \in Writers, LockFree(w)
  PROVE  \A x \in Writers : writing[x] = << >>
  BY LineFilesAssumption DEF LineIsOpen, OneLineLock, LockFree

LEMMA LocksAre == \A w \in Writers : LockOf[w] \in Locks
  BY DEF Locks

\* What is missing of a finite set is finite.
LEMMA MissingType ==
  ASSUME NEW S, IsFiniteSet(S), NEW A, NEW B
  PROVE  IsFiniteSet((S \ A) \ B) /\ Cardinality((S \ A) \ B) \in Nat
BY FS_Difference, FS_CardinalityType

\* What is missing is finite, and adding a record to it adds one at most.
LEMMA MissingCounts ==
  ASSUME Budget, NEW S, NEW r, S \subseteq Missing \cup {r}
  PROVE  /\ Cardinality(Missing) \in Nat
         /\ Cardinality(S) <= Cardinality(Missing) + 1
         /\ S \subseteq Missing => Cardinality(S) <= Cardinality(Missing)
<1>1. IsFiniteSet(Missing)
  BY MissingType DEF Budget, Missing
<1>2. Cardinality(Missing) \in Nat
  BY <1>1, FS_CardinalityType
<1>3. /\ IsFiniteSet(Missing \cup {r})
      /\ Cardinality(Missing \cup {r}) <= Cardinality(Missing) + 1
  <2> HIDE DEF Missing
  <2>1. /\ IsFiniteSet(Missing \cup {r})
        /\ \/ Cardinality(Missing \cup {r}) = Cardinality(Missing)
           \/ Cardinality(Missing \cup {r}) = Cardinality(Missing) + 1
    BY <1>1, FS_AddElement
  <2>2. QED
    BY <1>2, <2>1
<1>4. Cardinality(S) <= Cardinality(Missing \cup {r}) /\ Cardinality(S) \in Nat
  BY <1>3, FS_Subset, FS_CardinalityType
<1>5. S \subseteq Missing => Cardinality(S) <= Cardinality(Missing)
  BY <1>1, FS_Subset
<1>6. Cardinality(Missing \cup {r}) \in Nat
  BY <1>3, FS_CardinalityType
<1>7. QED
  BY <1>2, <1>3, <1>4, <1>5, <1>6

LEMMA LineBeginsKeeps ==
  ASSUME LineInv, OneLineLock, NEW w \in Writers, NEW r \in Lines, LineBegins(w, r)
  PROVE  LineInv'
<1> USE DEF LineInv
<1> DEFINE n == Len(stream)
<1>0. PICK p \in Beginnings(r) : stream' = Append(stream, p)
  BY DEF LineBegins
<1>1. \A x \in Writers : writing[x] = << >>
  BY LockFreeNobody DEF LineBegins
<1>2. /\ stream' = Append(stream, p) /\ p \in LinePieces /\ p \in Beginnings(r)
      /\ writing' = [writing EXCEPT ![w] = <<r>>] /\ held' = [held EXCEPT ![LockOf[w]] = w]
      /\ UNCHANGED <<stored, torn>> /\ r \notin begun /\ begun' = begun \cup {r}
  BY <1>0, BeginningsAre DEF LineBegins
<1>3. /\ stream' \in Seq(LinePieces) /\ n \in Nat /\ Len(stream') = n + 1
      /\ stream'[n + 1] = p /\ (n > 0 => stream'[n] = stream[n])
  BY <1>2 DEF LineTypes
<1>4. <<r>> # << >> /\ <<r>>[1] = r
  OBVIOUS
<1>5. writing'[w] = <<r>> /\ \A x \in Writers \ {w} : writing'[x] = << >>
  BY <1>1, <1>2 DEF LineTypes
<1>6. LineTypes'
  <2>1. held' \in [Locks -> Writers \cup {NoWriter}]
    BY <1>2, LocksAre DEF LineTypes
  <2>2. writing' \in [Writers -> {<< >>} \cup {<<x>> : x \in Lines}]
    BY <1>2 DEF LineTypes
  <2>3. QED
    BY <1>2, <1>3, <2>1, <2>2 DEF LineTypes
<1>7. LineIsOpen'
  BY <1>2, <1>3, <1>4, <1>5, LocksAre DEF LineIsOpen, LineTypes
<1>8. Spoilt' <=> Spoilt
  <2>1. Spoilt' <=> n + 1 - 1 > 0 /\ stream'[n + 1 - 1][2] # "rest"
    <3>1. \E x \in Writers : writing'[x] # << >>
      BY <1>4, <1>5
    <3>2. Spoilt' <=> Len(stream') - 1 > 0 /\ stream'[Len(stream') - 1][2] # "rest"
      BY <3>1 DEF Spoilt
    <3>3. QED
      BY <1>3, <3>2
  <2>2. Spoilt <=> n > 0 /\ stream[n][2] # "rest"
    BY <1>1 DEF Spoilt
  <2>3. n + 1 - 1 = n
    BY <1>3
  <2>4. QED
    BY <1>3, <2>1, <2>2, <2>3
<1>9. Missing' \subseteq Missing
  BY <1>2, LoadAppend DEF Missing
<1>10. Budget'
  <2>1. Cardinality(Missing') <= Cardinality(Missing) /\ Cardinality(Missing) \in Nat
    BY <1>9, MissingCounts
  <2>2. Cardinality(Missing') \in Nat
    <3>1. IsFiniteSet(stored')
      BY <1>2 DEF Budget
    <3>2. QED
      BY <3>1, MissingType DEF Missing
  <2>3. QED
    BY <1>2, <1>8, <2>1, <2>2, FS_CardinalityType DEF Budget
<1>11. Cuts'
  <2> SUFFICES ASSUME NEW i \in 1 .. Len(stream')
               PROVE  Decodes(i)' \/ stream'[i][1] \in torn' \cap Wide \/ i = Len(stream')
    BY <1>5, <1>4 DEF Cuts
  <2>1. CASE i \in 1 .. n
    <3>1. Decodes(i) \/ stream[i][1] \in torn \cap Wide
      BY <1>1, <2>1 DEF Cuts
    <3>2. stream'[i] = stream[i] /\ (Decodes(i) => Decodes(i)')
      BY <1>2, <2>1, LoadAppend DEF LineTypes
    <3>3. QED
      BY <1>2, <3>1, <3>2
  <2>2. QED
    BY <1>3, <2>1
<1>12. QED
  BY <1>6, <1>7, <1>10, <1>11

LEMMA LineEndsKeeps ==
  ASSUME LineInv, OneLineLock, NEW w \in Writers, LineEnds(w)
  PROVE  LineInv'
<1> USE DEF LineInv
<1>0. PICK r \in Lines : writing[w] = <<r>>
  BY DEF LineEnds, LineTypes
<1>1. /\ stream' = Append(stream, Rest_(r)) /\ Rest_(r) \in LinePieces
      /\ stored' = stored \cup {r} /\ UNCHANGED <<begun, torn>>
      /\ writing' = [writing EXCEPT ![w] = << >>]
      /\ held' = [held EXCEPT ![LockOf[w]] = NoWriter]
      /\ writing[w] # << >>
  BY <1>0 DEF LineEnds, Rest_, LinePieces
<1>2. /\ stream' \in Seq(LinePieces) /\ Len(stream) \in Nat /\ Len(stream') = Len(stream) + 1
      /\ stream'[Len(stream) + 1] = Rest_(r)
  BY <1>1 DEF LineTypes
<1>3. Len(stream) > 0 /\ stream[Len(stream)] \in Beginnings(r)
  BY <1>0, <1>1 DEF LineIsOpen
<1>4. \A x \in Writers : writing'[x] = << >>
  BY <1>1, OneLineWriter DEF LineTypes
<1>5. LineTypes'
  <2>1. held' \in [Locks -> Writers \cup {NoWriter}]
    BY <1>1, LocksAre DEF LineTypes
  <2>2. QED
    BY <1>1, <1>2, <2>1 DEF LineTypes
<1>6. LineIsOpen'
  BY <1>4 DEF LineIsOpen
<1>7. ~Spoilt'
  <2>1. Spoilt' <=> Len(stream') > 0 /\ stream'[Len(stream')][2] # "rest"
    BY <1>4 DEF Spoilt
  <2>2. QED
    BY <1>2, <2>1 DEF Rest_
<1>8. Spoilt <=> Len(stream) - 1 > 0 /\ stream[Len(stream) - 1][2] # "rest"
  BY <1>1 DEF Spoilt
<1>9. Missing' \subseteq Missing \cup {r}
  BY <1>1, LoadAppend DEF Missing
<1>10. ~Spoilt => Missing' \subseteq Missing
  <2> SUFFICES ASSUME ~Spoilt, r \notin Split PROVE r \in Parsed'
    BY <1>9 DEF Missing
  <2>1. Len(stream) > 1 => stream[Len(stream) - 1][2] = "rest"
    <3> SUFFICES ASSUME Len(stream) > 1 PROVE stream[Len(stream) - 1][2] = "rest"
      OBVIOUS
    <3>1. stream[Len(stream) - 1] \in LinePieces
      BY <1>2 DEF LineTypes
    <3>2. QED
      BY <1>2, <1>8, <3>1 DEF LinePieces
  <2>2. QED
    BY <1>1, <1>3, <2>1, LoadAppend
<1>11. Budget'
  <2>1. IsFiniteSet(stored')
    BY <1>1, FS_AddElement DEF Budget
  <2>2. Cardinality(Missing') \in Nat
    BY <2>1, MissingType DEF Missing
  <2>3. /\ Cardinality(Missing) \in Nat
        /\ Cardinality(Missing') <= Cardinality(Missing) + 1
        /\ ~Spoilt => Cardinality(Missing') <= Cardinality(Missing)
    BY <1>9, <1>10, MissingCounts
  <2>4. QED
    BY <1>1, <1>7, <2>1, <2>2, <2>3, FS_CardinalityType DEF Budget
<1>12. Cuts'
  <2> SUFFICES ASSUME NEW i \in 1 .. Len(stream')
               PROVE  Decodes(i)' \/ stream'[i][1] \in torn' \cap Wide
    BY DEF Cuts
  <2>1. CASE i \in 1 .. Len(stream) /\ i # Len(stream)
    <3>1. Decodes(i) \/ stream[i][1] \in torn \cap Wide
      BY <2>1 DEF Cuts
    <3>2. stream'[i] = stream[i] /\ (Decodes(i) => Decodes(i)')
      BY <1>1, <2>1, LoadAppend DEF LineTypes
    <3>3. QED
      BY <1>1, <3>1, <3>2
  <2>2. CASE i = Len(stream)
    BY <1>1, <1>3, <2>2, LoadAppend
  <2>3. CASE i = Len(stream) + 1
    BY <1>2, <2>3 DEF Decodes, Rest_
  <2>4. QED
    BY <1>2, <2>1, <2>2, <2>3
<1>13. QED
  BY <1>5, <1>6, <1>11, <1>12

LEMMA LineBreaksKeeps ==
  ASSUME LineInv, OneLineLock, NEW w \in Writers, writing[w] # << >>,
         \A x \in Writers : writing'[x] = << >>, LineTypes',
         torn' = torn \cup {writing[w][1]}, UNCHANGED <<stream, stored>>
  PROVE  LineInv'
<1> USE DEF LineInv
<1>1. Missing' = Missing
  BY DEF Missing, Parsed, LineAt, Rest_
<1>2. Cardinality(Missing) \in Nat
  BY MissingCounts
<1>3. IsFiniteSet(torn') /\ Cardinality(torn') = Cardinality(torn) + 1 /\ Cardinality(torn) \in Nat
  <2>1. writing[w][1] \notin torn
    BY DEF LineIsOpen
  <2>2. QED
    BY <2>1, FS_AddElement, FS_CardinalityType DEF Budget
<1>4. Budget'
  BY <1>1, <1>2, <1>3 DEF Budget
<1>5. Cuts'
  <2> SUFFICES ASSUME NEW i \in 1 .. Len(stream), ~Decodes(i), i = Len(stream)
               PROVE  stream[i][1] \in torn' \cap Wide
    BY DEF Cuts, Decodes, Rest_
  <2>1. stream[i] \in Beginnings(writing[w][1]) /\ stream[i][2] = "cut"
    BY DEF LineIsOpen, Decodes
  <2>2. writing[w][1] \in Lines
    BY DEF LineTypes
  <2>3. QED
    BY <2>1, <2>2, BeginningsAre
<1>6. QED
  BY <1>4, <1>5 DEF LineIsOpen

LEMMA LineNext ==
  ASSUME OneLineLock
  PROVE  LineInv /\ [LineStep \/ LineCrash]_lvars => LineInv'
<1> SUFFICES ASSUME LineInv, [LineStep \/ LineCrash]_lvars PROVE LineInv'
  OBVIOUS
<1> USE DEF LineInv
<1>1. ASSUME NEW w \in Writers, LineRaises(w) PROVE LineInv'
  <2>1. /\ writing[w] # << >> /\ torn' = torn \cup {writing[w][1]} /\ UNCHANGED <<stream, begun, stored>>
        /\ writing' = [writing EXCEPT ![w] = << >>]
        /\ held' = [held EXCEPT ![LockOf[w]] = NoWriter]
    BY <1>1 DEF LineRaises
  <2>2. \A x \in Writers : writing'[x] = << >>
    BY <2>1, OneLineWriter DEF LineTypes
  <2>3. LineTypes'
    <3>1. torn' \subseteq begun'
      BY <2>1 DEF LineTypes, LineIsOpen
    <3>2. QED
      BY <2>1, <3>1, LocksAre DEF LineTypes
  <2>4. QED
    BY <2>1, <2>2, <2>3, LineBreaksKeeps
<1>2. ASSUME NEW w \in Writers, Clear(w) PROVE LineInv'
  <2>1. /\ stream' = << >> /\ stored' = {} /\ torn' = {} /\ UNCHANGED <<held, writing, begun>>
        /\ \A x \in Writers : writing[x] = << >>
    BY <1>2, LockFreeNobody DEF Clear
  <2>2. stream' \in Seq(LinePieces) /\ Len(stream') = 0
    BY <2>1
  <2>3. LineTypes' /\ LineIsOpen'
    BY <2>1, <2>2 DEF LineTypes, LineIsOpen
  <2>4. ~Spoilt'
    BY <2>1, <2>2 DEF Spoilt
  <2>5. Missing' = {}
    BY <2>1 DEF Missing
  <2>6. Budget' /\ Cuts'
    BY <2>1, <2>2, <2>4, <2>5, FS_EmptySet DEF Budget, Cuts
  <2>7. QED
    BY <2>3, <2>6
<1>3. CASE LineCrash
  <2> DEFINE S == {x \in Writers : writing[x] # << >>}
  <2>1. /\ writing' = [w \in Writers |-> << >>] /\ held' = [l \in Locks |-> NoWriter]
        /\ torn' = torn \cup {writing[w][1] : w \in S} /\ UNCHANGED <<stream, begun, stored>>
    BY <1>3 DEF LineCrash
  <2>2. \A x \in Writers : writing'[x] = << >>
    BY <2>1
  <2>3. CASE S = {}
    <3>1. torn' = torn
      BY <2>1, <2>3
    <3>2. LineTypes' /\ LineIsOpen'
      BY <2>1, <3>1 DEF LineTypes, LineIsOpen
    <3>3. Spoilt' <=> Spoilt
      BY <2>1, <2>2, <2>3 DEF Spoilt
    <3>4. Missing' = Missing
      BY <2>1 DEF Missing, Parsed, LineAt, Rest_
    <3>5. Cuts'
      BY <2>1, <2>3, <3>1 DEF Cuts, Decodes, Rest_
    <3>6. QED
      BY <2>1, <3>1, <3>2, <3>3, <3>4, <3>5 DEF Budget
  <2>4. ASSUME NEW w \in S PROVE LineInv'
    <3>1. S = {w}
      BY <2>4, OneLineWriter
    <3>2. torn' = torn \cup {writing[w][1]}
      BY <2>1, <3>1
    <3>3. LineTypes'
      BY <2>1, <2>4, <3>2 DEF LineTypes, LineIsOpen
    <3>4. QED
      BY <2>1, <2>2, <2>4, <3>2, <3>3, LineBreaksKeeps
  <2>5. QED
    BY <2>3, <2>4
<1>4. CASE UNCHANGED lvars
  BY <1>4 DEF lvars, LineTypes, LineIsOpen, Budget, Cuts, Decodes, Rest_, Missing, Parsed, LineAt, Spoilt
<1>5. QED
  BY <1>1, <1>2, <1>3, <1>4, LineBeginsKeeps, LineEndsKeeps DEF LineStep

\* LossIsBounded: as long as one backend serves the file, a reader can decode it unless a
\* record with wide characters was cut short, and then misses at most one finished record
\* for each that was cut short, but for those that splitlines() takes apart: however often
\* writes fail and the process dies (JSONLBackend.append, load_stream).
THEOREM LossBounded ==
  ASSUME OneLineLock
  PROVE  LineSpec => []LossIsBounded
<1>1. LineInit => LineInv
  <2> SUFFICES ASSUME LineInit PROVE LineInv
    OBVIOUS
  <2>1. stream = << >> /\ stored = {} /\ torn = {} /\ \A w \in Writers : writing[w] = << >>
    BY DEF LineInit
  <2>2. stream \in Seq(LinePieces) /\ Len(stream) = 0
    BY <2>1
  <2>3. LineTypes
    BY <2>1, <2>2 DEF LineInit, LineTypes
  <2>4. Missing = {} /\ ~Spoilt /\ LineIsOpen
    BY <2>1, <2>2 DEF Missing, Spoilt, LineIsOpen
  <2>5. QED
    BY <2>1, <2>2, <2>3, <2>4, FS_EmptySet DEF LineInv, Budget, Cuts
<1>2. LineInv => LossIsBounded
  <2> SUFFICES ASSUME LineInv, \A l \in Locks : held[l] = NoWriter
               PROVE  /\ torn \cap Wide = {} => Readable
                      /\ Readable => Cardinality((stored \ Split) \ LoadStream) <= Cardinality(torn)
    BY DEF LossIsBounded
  <2>1. \A w \in Writers : writing[w] = << >>
    BY LineFilesAssumption, LocksAre DEF LineInv, LineIsOpen
  <2>2. torn \cap Wide = {} => Readable
    BY <2>1 DEF LineInv, Cuts, Readable
  <2>3. Readable => Cardinality((stored \ Split) \ LoadStream) <= Cardinality(torn)
    <3>1. Readable => (stored \ Split) \ LoadStream = Missing
      BY DEF LoadStream, Missing
    <3>2. Cardinality(Missing) \in Nat /\ Cardinality(torn) \in Nat
      BY MissingCounts, FS_CardinalityType DEF LineInv, Budget
    <3>3. QED
      BY <3>1, <3>2 DEF LineInv, Budget
  <2>4. QED
    BY <2>2, <2>3
<1>3. QED
  BY <1>1, <1>2, LineNext, PTL DEF LineSpec

-----------------------------------------------------------------------------
(* The directory.                                                          *)

\* Through either backend, and over restarts, the directory behaves as the backend does:
\* what is proved of the files of one kind holds of the whole.
LEMMA BothBackends == Spec => JsonSpec /\ LineSpec
<1>1. Init => JsonInit /\ LineInit
  BY DEF Init
<1>2. [Next]_<<jvars, lvars, kind, crashes>> =>
        [JsonStep \/ JsonCrash]_jvars /\ [LineStep \/ LineCrash]_lvars
  BY DEF Next, Crash
<1>3. QED
  BY <1>1, <1>2, PTL DEF Spec, JsonSpec, LineSpec
=============================================================================
