----------------------------- MODULE ModelCalls -----------------------------
(***************************************************************************)
(* One call of the model behind LLMBrain (swaybot/models.py): a chain of   *)
(* FallbackModel, each link an OpenAIModel that retries, falls back to     *)
(* text mode when its endpoint rejects tools, and gives up with None.      *)
(*                                                                         *)
(* LLMBrain offers tools only when its backend says supports_tools: a      *)
(* model that is not forced into text mode does, FallbackModel does not    *)
(* have the attribute, so a chain gets none.  What the endpoint does is    *)
(* arbitrary: it answers, fails in a way worth a retry or not, rejects     *)
(* tools, or never answers.                                                *)
(***************************************************************************)
EXTENDS Naturals, Sequences

CONSTANTS
  Chains,        \* the models a brain may have been given: sequences of BOOLEAN, one
                 \* entry per model, TRUE when it supports tools
  Retries,       \* max_retries
  Actions,       \* tools with their arguments, as a response encodes them
  Streams,       \* is there a stream_callback
  MayHang        \* may a call never return

Terminal == {"done", "final_answer"}
Acts == Actions \cup Terminal \cup {"echo"}

ASSUME ModelCallsAssumption ==
  /\ Chains \subseteq Seq(BOOLEAN) \ {<< >>} /\ Retries \in Nat
  /\ {Streams, MayHang} \subseteq BOOLEAN
  /\ Acts \cap {"none", "prose", "empty"} = {}

VARIABLES
  chain,  \* the models of the brain's backend
  call    \* the call in progress

\* What generate() returns: a tool call or text that encodes an action, other text, no
\* text, or None.
Responses == Acts \cup {"prose", "empty", "none"}

Idle == [at |-> "idle", link |-> 1, attempt |-> 0, tools |-> FALSE,
         tried |-> {}, got |-> "none"]

\* LLMBrain.__init__
CallInit == chain \in Chains /\ call = Idle

Offered == Len(chain) = 1 /\ chain[1]

\* generate() begins, with tools when the turn has descriptions of them.
Generate(describes) ==
  call' = [Idle EXCEPT !.at = "asking", !.tools = describes /\ Offered]

\* What an endpoint sends: text or, only when it was offered tools, a tool call, whole
\* or cut off by the length limit after some text.
Sent(tools) ==
  [as : {"text"}, says : Responses \ {"none"}]
    \cup (IF tools THEN [as : {"call", "cut"}, says : Acts] ELSE {})

\* _handle_completion_response: the text stands for a tool call that was cut off.
Completed(m) == IF m.as = "cut" THEN "prose" ELSE m.says

\* _stream_generate collects text, and no tool call.
Streamed(m) ==
  CASE m.as = "text" -> m.says [] m.as = "call" -> "empty" [] m.as = "cut" -> "prose"

Returned(c, r) == [c EXCEPT !.at = "returned", !.got = r]

Tried == [call EXCEPT !.tried = @ \cup {call.link}]

Answers(m) == call' = Returned(Tried, IF Streams THEN Streamed(m) ELSE Completed(m))

\* Mutant of NextLink: the chain ends at the first model that gives up.
NoNextLink(c) == Returned(c, "none")

\* The link gave up: the next one starts afresh, after the last None is returned.
NextLink(c) ==
  IF c.link < Len(chain) THEN [c EXCEPT !.link = @ + 1, !.attempt = 0, !.tools = FALSE]
  ELSE Returned(c, "none")

\* The attempt failed and the loop over attempts goes on, or is over.
NextAttempt(c) ==
  IF c.attempt < Retries THEN [c EXCEPT !.attempt = @ + 1] ELSE NextLink(c)

\* Server errors, rate limits, lost connections and unknown errors are retried.
Fails == call' = NextAttempt(Tried)

FailsForGood == call' = NextLink(Tried)

\* The endpoint rejects the tools parameter: the next attempt has none.  On the
\* last attempt there is no next one.
RejectsTools == call.tools /\ call' = NextAttempt([Tried EXCEPT !.tools = FALSE])

Hangs == MayHang /\ call' = [call EXCEPT !.at = "hung"]

\* A step of the thread that makes the call.
CallStep ==
  /\ call.at = "asking"
  /\ \/ \E m \in Sent(call.tools) : Answers(m)
     \/ Fails
     \/ FailsForGood
     \/ RejectsTools
  /\ UNCHANGED chain

CallType ==
  /\ chain \in Chains
  /\ call \in [at : {"idle", "asking", "returned", "hung"}, link : DOMAIN chain,
               attempt : 0 .. Retries, tools : BOOLEAN,
               tried : SUBSET DOMAIN chain, got : Responses]

\* A call that returns None has tried every model of the chain
\* (FallbackModel.generate).
NoneMeansAllTried ==
  call.at = "returned" /\ call.got = "none" => \A m \in DOMAIN chain : m \in call.tried

=============================================================================
