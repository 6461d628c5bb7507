----------------------------- MODULE JsonFiles ------------------------------
(***************************************************************************)
(* JSONBackend of swaybot/storage.py and what uses it: JSONViolationStore  *)
(* (violations.py), which reads before each change, and MemoryStore        *)
(* (memory.py), which reads once and saves its own copy, both without the  *)
(* backend's lock between the two; and append, which the backend offers to *)
(* others and no part of the program calls.                                *)
(*                                                                         *)
(* A value is a sequence of records (a count is the increments it counts); *)
(* as a file it is text that is written in two pieces and can be parsed    *)
(* when both are there.  A save writes key.tmp, which every backend over   *)
(* the directory shares, and renames it; the lock is the backend's own.    *)
(* A change inside a record, of a status or a credibility, is left out.    *)
(***************************************************************************)
EXTENDS Naturals, Sequences, Subsequences

CONSTANTS
  Threads,   \* callers
  Keys,      \* keys of one directory
  Recs,      \* records
  KeyOf,     \* [Threads -> Keys]
  Use,       \* [Threads -> {"append", "count", "memory"}]
  Backends,  \* backends over the directory
  BackendOf, \* [Threads -> Backends]
  Absent, Free

ASSUME JsonFilesAssumption ==
  /\ KeyOf \in [Threads -> Keys] /\ BackendOf \in [Threads -> Backends]
  /\ Use \in [Threads -> {"append", "count", "memory"}]
  /\ Free \notin Threads /\ Absent \notin Seq([of : Seq(Recs), part : {"head", "rest"}])

VARIABLES
  file,   \* [Keys -> pieces of text, or Absent]: key.json
  tmp,    \* the same for key.tmp
  lock,   \* [Backends -> Threads or Free]
  pc,     \* [Threads -> where the caller is]
  copy,   \* [Threads -> the value it has read or will write]
  used    \* the records made so far

jvars == <<file, tmp, lock, pc, copy, used>>

Piece(v, p) == [of |-> v, part |-> p]
Text(v) == <<Piece(v, "head"), Piece(v, "rest")>>
Whole(c) == Len(c) = 2 /\ c = Text(c[1].of)

\* load() returns, and what it returns: an absent file is no record.
Loads(k) == file[k] # Absent => Whole(file[k])
Value(k) == IF file[k] # Absent /\ Loads(k) THEN file[k][1].of ELSE << >>

Holding == {"open", "head", "rest", "replace", "return"}

\* A call is over: the others forget the value, a memory goes on with its copy.
Rests(t) ==
  /\ pc' = [pc EXCEPT ![t] = IF Use[t] = "memory" THEN "got" ELSE "idle"]
  /\ copy' = [copy EXCEPT ![t] = IF Use[t] = "memory" THEN @ ELSE << >>]

Locked(t) == lock[BackendOf[t]] = Free /\ lock' = [lock EXCEPT ![BackendOf[t]] = t]
Unlocked(t) == lock' = [lock EXCEPT ![BackendOf[t]] = Free]

\* JSONViolationStore.get, MemoryStore.__init__: the lock is held only to load.
Get(t) ==
  /\ Use[t] # "append" /\ pc[t] = "idle"
  /\ lock[BackendOf[t]] = Free /\ Loads(KeyOf[t])
  /\ copy' = [copy EXCEPT ![t] = Value(KeyOf[t])]
  /\ pc' = [pc EXCEPT ![t] = "got"]
  /\ UNCHANGED <<file, tmp, lock, used>>

\* A record that is new.
Fresh(r) == r \notin used /\ used' = used \cup {r}

\* append() loads and adds a record.
Appends(t) ==
  /\ Use[t] = "append" /\ pc[t] = "idle" /\ Loads(KeyOf[t])
  /\ \E r \in Recs : Fresh(r) /\ copy' = [copy EXCEPT ![t] = Append(Value(KeyOf[t]), r)]

\* record_violation adds one to the count it has read, reset sets it to nothing.
Counts(t) ==
  /\ Use[t] = "count" /\ pc[t] = "got"
  /\ \/ \E r \in Recs : Fresh(r) /\ copy' = [copy EXCEPT ![t] = Append(@, r)]
     \/ copy' = [copy EXCEPT ![t] = << >>] /\ UNCHANGED used

\* A memory changes in the process: prune drops steps, compaction drops some and adds
\* a summary, add() drops none and adds one; a save may come without a change.
Remembers(t) ==
  /\ Use[t] = "memory" /\ pc[t] = "got"
  /\ \E S \in SUBSET Recs :
       \/ copy' = [copy EXCEPT ![t] = Only(@, S)] /\ UNCHANGED used
       \/ \E r \in Recs : Fresh(r) /\ copy' = [copy EXCEPT ![t] = Append(Only(@, S), r)]

\* Inside batch() such a change is not saved.
Change(t) == Remembers(t) /\ UNCHANGED <<file, tmp, lock, pc>>

\* Mutant of Begin: append() loads and adds without the lock.
BeginUnlocked(t) ==
  /\ Appends(t) \/ ((Counts(t) \/ Remembers(t)) /\ lock[BackendOf[t]] = Free)
  /\ pc' = [pc EXCEPT ![t] = "open"]
  /\ UNCHANGED <<file, tmp, lock>>

\* append() takes the lock and loads; a set(), a reset() or a save() has the value
\* already and takes the lock to write it.
Begin(t) ==
  /\ Locked(t)
  /\ Appends(t) \/ Counts(t) \/ Remembers(t)
  /\ pc' = [pc EXCEPT ![t] = "open"]
  /\ UNCHANGED <<file, tmp>>

\* _atomic_write: the temporary file is opened, which empties it, written, ...
Open(t) ==
  /\ pc[t] = "open"
  /\ tmp' = [tmp EXCEPT ![KeyOf[t]] = << >>]
  /\ pc' = [pc EXCEPT ![t] = "head"]
  /\ UNCHANGED <<file, lock, copy, used>>

\* A file after t has written a piece: its own text so far, or a mixture with what
\* another writer has put there.
Written(c, t, p) ==
  IF c = Absent THEN {Absent}
  ELSE {IF p = "head" THEN <<Piece(copy[t], p)>> ELSE Text(copy[t]), Append(c, Piece(copy[t], p))}

\* Mutant of Write: the file itself is written, not the temporary one.
WriteInPlace(t, p, next) ==
  /\ pc[t] = p
  /\ file' = [file EXCEPT ![KeyOf[t]] = IF p = "head" THEN <<Piece(copy[t], p)>> ELSE Text(copy[t])]
  /\ pc' = [pc EXCEPT ![t] = next]
  /\ UNCHANGED <<tmp, lock, copy, used>>

\* Once another writer has renamed the file, t writes into key.json itself, or into
\* a file that has no name any more.
Write(t, p, next) ==
  /\ pc[t] = p
  /\ LET k == KeyOf[t] IN
     IF tmp[k] # Absent
     THEN /\ \E c \in Written(tmp[k], t, p) : tmp' = [tmp EXCEPT ![k] = c]
          /\ UNCHANGED file
     ELSE /\ \E c \in Written(file[k], t, p) \cup {file[k]} : file' = [file EXCEPT ![k] = c]
          /\ UNCHANGED tmp
  /\ pc' = [pc EXCEPT ![t] = next]
  /\ UNCHANGED <<lock, copy, used>>

\* ... and renamed; when another writer has done that, replace() raises.
Replace(t) ==
  /\ pc[t] = "replace" /\ tmp[KeyOf[t]] # Absent
  /\ file' = [file EXCEPT ![KeyOf[t]] = tmp[KeyOf[t]]]
  /\ tmp' = [tmp EXCEPT ![KeyOf[t]] = Absent]
  /\ pc' = [pc EXCEPT ![t] = "return"]
  /\ UNCHANGED <<lock, copy, used>>

Return(t) ==
  /\ pc[t] = "return"
  /\ Rests(t) /\ Unlocked(t)
  /\ UNCHANGED <<file, tmp, used>>

\* Writing raises, a full disk for one; what was written of key.tmp stays.
Raise(t) ==
  /\ pc[t] \in {"open", "head", "rest", "replace"}
  /\ Rests(t) /\ Unlocked(t)
  /\ UNCHANGED <<file, tmp, used>>

JsonCrash ==
  /\ pc' = [t \in Threads |-> "idle"] /\ copy' = [t \in Threads |-> << >>]
  /\ lock' = [b \in Backends |-> Free]
  /\ UNCHANGED <<file, tmp, used>>

JsonInit ==
  /\ file = [k \in Keys |-> Absent] /\ tmp = [k \in Keys |-> Absent]
  /\ lock = [b \in Backends |-> Free]
  /\ pc = [t \in Threads |-> "idle"] /\ copy = [t \in Threads |-> << >>]
  /\ used = {}

JsonStep ==
  \E t \in Threads :
    \/ Get(t) \/ Change(t) \/ Begin(t) \/ Open(t)
    \/ Write(t, "head", "rest") \/ Write(t, "rest", "replace")
    \/ Replace(t) \/ Return(t) \/ Raise(t)

JsonSpec == JsonInit /\ [][JsonStep \/ JsonCrash]_jvars

-----------------------------------------------------------------------------
(* Properties.                                                             *)

Contents == Seq([of : Seq(Recs), part : {"head", "rest"}]) \cup {Absent}

\* The variables have their types, and a backend's lock is held by a caller that
\* writes.
JsonTypeOK ==
  /\ file \in [Keys -> Contents] /\ tmp \in [Keys -> Contents]
  /\ lock \in [Backends -> Threads \cup {Free}]
  /\ pc \in [Threads -> Holding \cup {"idle", "got"}]
  /\ copy \in [Threads -> Seq(Recs)]
  /\ used \subseteq Recs
  /\ \A t \in Threads : pc[t] \in Holding <=> lock[BackendOf[t]] = t

\* One backend serves all the callers of a key.
OneBackend == \A s, t \in Threads : KeyOf[s] = KeyOf[t] => BackendOf[s] = BackendOf[t]

\* storage.py:97: "Write to a temp file under key's parent and atomically replace it."
\* A file can be parsed whenever it is there: a crash or a failed write never shows.
FileIsWhole == \A k \in Keys : Loads(k)

\* A caller's call, as DurableValue has it: it takes effect at the renaming.
CallOf(t) ==
  CASE pc[t] \in {"open", "head", "rest", "replace"} ->
         IF Use[t] = "append"
         THEN [at |-> "asked", op |-> "append", arg |-> <<copy[t][Len(copy[t])]>>]
         ELSE [at |-> "asked", op |-> "save", arg |-> copy[t]]
    [] pc[t] = "return" -> [at |-> "done", op |-> "save", arg |-> << >>]
    [] OTHER -> [at |-> "none", op |-> "save", arg |-> << >>]

\* Where one backend serves a key, its calls take effect one at a time, whole, and
\* before they return; one that raises or is cut short by a crash leaves the value as
\* it was or, once it is renamed, as it wanted it (_atomic_write, JSONBackend.append).
Register == INSTANCE DurableValue
              WITH value <- [k \in Keys |-> Value(k)], call <- [t \in Threads |-> CallOf(t)]
ImplementsRegister == Register!Spec

\* violations.py:156: "Increment the violation count for session_id": what was counted
\* stays counted, but for a reset.
CountsStay ==
  [][\A k \in Keys : Value(k)' = << >> \/ Value(k) = SubSeq(Value(k)', 1, Len(Value(k)))]_jvars
=============================================================================
