----------------------------- MODULE LineFiles ------------------------------
(***************************************************************************)
(* JSONLBackend of swaybot/storage.py for one key: the history of a session*)
(* (session.py) or runs.jsonl (run_log.py).  A record is appended in place,*)
(* as a line written in two pieces when it is longer than a buffer; a line *)
(* that cannot be parsed is skipped when the stream is loaded, but a text  *)
(* that cannot be decoded raises, and nothing is loaded.  The sessions     *)
(* share a backend; append_run makes a backend, and so a lock, of its own  *)
(* for each record.                                                        *)
(***************************************************************************)
EXTENDS Naturals, Sequences, FiniteSets

CONSTANTS
  Writers, Lines,    \* callers, and the records they append
  LockOf,            \* [Writers -> locks]
  Wide,              \* records with characters of several bytes, which a piece may cut
  Split,             \* records with a character at which splitlines() ends a line
  NoWriter

ASSUME LineFilesAssumption ==
  NoWriter \notin Writers /\ Wide \subseteq Lines /\ Split \subseteq Lines

VARIABLES
  stream,   \* the pieces of key.jsonl
  held,     \* [locks -> Writers or NoWriter]
  writing,  \* [Writers -> the record being appended, or none]: << >> or <<record>>
  begun,    \* records whose append has begun
  stored,   \* history: records whose append has returned, since the last clear
  torn      \* history: records whose append was cut short, since the last clear

lvars == <<stream, held, writing, begun, stored, torn>>

Locks == {LockOf[w] : w \in Writers}

\* The pieces of a line: its beginning, which may end inside a character, and the rest.
Beginnings(r) == {<<r, "head">>} \cup (IF r \in Wide THEN {<<r, "cut">>} ELSE {})
Rest_(r) == <<r, "rest">>

\* The character that a piece ends in goes on in the next.
Decodes(i) == stream[i][2] = "cut" => i < Len(stream) /\ stream[i + 1] = Rest_(stream[i][1])
Readable == \A i \in 1 .. Len(stream) : Decodes(i)

\* The i-th piece begins a line that can be parsed.
LineAt(i) ==
  /\ i < Len(stream) /\ stream[i][2] # "rest" /\ stream[i + 1] = Rest_(stream[i][1])
  /\ i > 1 => stream[i - 1][2] = "rest"
  /\ stream[i][1] \notin Split
Parsed == {stream[i][1] : i \in {j \in 1 .. Len(stream) : LineAt(j)}}

\* load_stream returns, and what it returns.
LoadStream == IF Readable THEN Parsed ELSE {}

LockFree(w) == held[LockOf[w]] = NoWriter

\* Mutant of LineBegins: without the lock.
LineBeginsUnlocked(w, r) ==
  /\ writing[w] = << >> /\ r \notin begun
  /\ writing' = [writing EXCEPT ![w] = <<r>>] /\ begun' = begun \cup {r}
  /\ \E p \in Beginnings(r) : stream' = Append(stream, p)
  /\ UNCHANGED <<held, stored, torn>>

\* append: the file is opened for appending, and the beginning of the line goes out.
LineBegins(w, r) ==
  /\ writing[w] = << >> /\ r \notin begun
  /\ LockFree(w) /\ held' = [held EXCEPT ![LockOf[w]] = w]
  /\ writing' = [writing EXCEPT ![w] = <<r>>] /\ begun' = begun \cup {r}
  /\ \E p \in Beginnings(r) : stream' = Append(stream, p)
  /\ UNCHANGED <<stored, torn>>

LineEnds(w) ==
  /\ writing[w] # << >>
  /\ stream' = Append(stream, Rest_(writing[w][1]))
  /\ stored' = stored \cup {writing[w][1]}
  /\ writing' = [writing EXCEPT ![w] = << >>]
  /\ held' = [held EXCEPT ![LockOf[w]] = NoWriter]
  /\ UNCHANGED <<begun, torn>>

\* The write raises and leaves a line without an end.
LineRaises(w) ==
  /\ writing[w] # << >> /\ writing' = [writing EXCEPT ![w] = << >>]
  /\ held' = [held EXCEPT ![LockOf[w]] = NoWriter]
  /\ torn' = torn \cup {writing[w][1]}
  /\ UNCHANGED <<stream, begun, stored>>

\* SessionManager.clear saves no records, delete unlinks the file: at once, under
\* the lock.  Nobody clears runs.jsonl.
Clear(w) ==
  /\ \A x \in Writers : LockOf[x] = LockOf[w]
  /\ LockFree(w)
  /\ stream' = << >> /\ stored' = {} /\ torn' = {}
  /\ UNCHANGED <<held, writing, begun>>

LineCrash ==
  /\ writing' = [w \in Writers |-> << >>] /\ held' = [l \in Locks |-> NoWriter]
  /\ torn' = torn \cup {writing[w][1] : w \in {x \in Writers : writing[x] # << >>}}
  /\ UNCHANGED <<stream, begun, stored>>

LineInit ==
  /\ stream = << >> /\ held = [l \in Locks |-> NoWriter]
  /\ writing = [w \in Writers |-> << >>] /\ begun = {} /\ stored = {} /\ torn = {}

LineStep ==
  \E w \in Writers : (\E r \in Lines : LineBegins(w, r)) \/ LineEnds(w) \/ LineRaises(w) \/ Clear(w)

LineSpec == LineInit /\ [][LineStep \/ LineCrash]_lvars

-----------------------------------------------------------------------------
(* Properties.                                                             *)

\* What a reader who has the lock may lose (JSONLBackend.append, load_stream): the
\* stream can be decoded unless a record with wide characters was cut short; and then
\* loading misses at most one finished record for each that was cut short, but for
\* those that splitlines() takes apart.
LossIsBounded ==
  (\A l \in Locks : held[l] = NoWriter) =>
    /\ torn \cap Wide = {} => Readable
    /\ Readable => Cardinality((stored \ Split) \ LoadStream) <= Cardinality(torn)

\* run_log.py:97: "Load JSON-lines run records, skipping malformed lines."  Writers
\* that finish make lines that load.
FinishedLinesLoad == torn = {} => stored \subseteq LoadStream
=============================================================================
