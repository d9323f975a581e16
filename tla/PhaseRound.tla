----------------------------- MODULE PhaseRound -----------------------------
(***************************************************************************)
(* One round of a phase, which module Engine takes as one step, line by    *)
(* line: Client.Stream reads the upstream's events, runPhase accumulates   *)
(* texts and tool calls (mergeToolCallDelta, collectToolCalls), and the    *)
(* text of a leaf is corrected (correctNeedsToolMarker), debated           *)
(* (Debater.Refine) and sanitized before it is recorded.                   *)
(*                                                                         *)
(* Every call to the upstream and every event to the client may fail.  A   *)
(* stream that ends without [DONE] is taken for a complete one, lines      *)
(* without a choice are skipped; a garbled one is an error.  Pieces of     *)
(* text are what the marker logic tells apart, as in module Engine.        *)
(***************************************************************************)
EXTENDS Naturals, FiniteSets, Sequences, SequencesExt, FiniteSetsExt, Functions

CONSTANTS
  MaxToolRoundsPerPhase,
  CallId,         \* the ids that the upstream gives its tool calls
  NoId,           \* ToolCall.ID of a call without id: the empty string
  Indices,        \* the indices it gives them
  Missing,        \* the index or the id of a delta that has none
  ToolModes,      \* as in Engine
  Pieces,         \* pieces of a text: "text", "marker" or "bare"
  DebateEnabled,
  DebateRounds,
  Obedient,       \* as in Engine
  MaxLines        \* bound: lines of a stream that carry something

ASSUME RoundAssumption ==
  /\ MaxToolRoundsPerPhase \in Nat \ {0}
  /\ Indices \subseteq Nat /\ IsFiniteSet(Indices)
  /\ Missing \notin Indices \cup CallId
  /\ ToolModes \subseteq {"none", "auto", "disabled"}
  /\ Pieces \subseteq {"text", "marker", "bare"}
  /\ DebateEnabled \in BOOLEAN
  /\ DebateRounds \in 1..3
  /\ Obedient \in BOOLEAN
  /\ MaxLines \in Nat

VARIABLES
  pc,        \* what the engine waits for, or how the round ended
  phase,     \* "leaf" or "synthesis"
  tools,     \* the tools of the session
  rounds,    \* toolRoundCount
  parts,     \* runPhase: resultParts
  acc,       \* runPhase: toolCallAcc
  text,      \* the leaf's text so far
  current,   \* Debater.Refine: current
  debates,   \* Debater.Refine: round
  calls,     \* the tool calls that the run pauses for
  sent,      \* history: the deltas of the round's stream
  original,  \* history: the text that is debated
  failed     \* history: a call of the debate failed

inputs == <<phase, tools, rounds>>
streamVars == <<parts, acc, sent>>
debateVars == <<current, debates, original, failed>>
vars == <<pc, inputs, streamVars, text, debateVars, calls>>

-----------------------------------------------------------------------------
(* Texts and tool calls *)

\* What extractNeedsToolDescription finds: the first marker counts.
Class(ps) ==
  LET marks == {i \in DOMAIN ps : ps[i] # "text"}
  IN  IF ps = <<>> THEN "empty" ELSE IF marks = {} THEN "text" ELSE ps[Min(marks)]

\* A fragment of arguments is the number of the delta that brought it.
Delta == [index : Indices \cup {Missing}, id : CallId \cup {Missing},
          arg : 1..MaxLines]
Call == [id : CallId \cup {NoId}, args : Seq(1..MaxLines)]

Fresh == [id |-> NoId, args |-> <<>>]

MUTMergeToolCallDelta_LastArguments(a, d) ==
  LET i == IF d.index = Missing THEN 0 ELSE d.index
      entry == IF i \in DOMAIN a THEN a[i] ELSE Fresh
  IN  [j \in DOMAIN a \cup {i} |->
         IF j # i THEN a[j]
         ELSE [id |-> IF d.id = Missing THEN entry.id ELSE d.id,
               args |-> <<d.arg>>]]

\* Without an index a delta belongs to call 0; an id replaces the last one.
MergeToolCallDelta(a, d) ==
  LET i == IF d.index = Missing THEN 0 ELSE d.index
      entry == IF i \in DOMAIN a THEN a[i] ELSE Fresh
  IN  [j \in DOMAIN a \cup {i} |->
         IF j # i THEN a[j]
         ELSE [id |-> IF d.id = Missing THEN entry.id ELSE d.id,
               args |-> Append(entry.args, d.arg)]]

\* The sequences, one in fact, that list a set of numbers in their order.
Ascending(S) ==
  {s \in [1..Cardinality(S) -> S] :
     \A i, j \in 1..Cardinality(S) : i < j => s[i] < s[j]}

\* The indices from 0 to the number of calls; the others are lost.
CollectToolCalls(a) ==
  LET visited == {i \in DOMAIN a : i < Cardinality(DOMAIN a)}
  IN  {[k \in DOMAIN s |-> a[s[k]]] : s \in Ascending(visited)}

\* Client.Complete: the content of the first choice, which may be missing.
Completions == {Class(ps) : ps \in SeqOf(Pieces, 1)}

Offered == tools = "auto" /\ rounds < MaxToolRoundsPerPhase

-----------------------------------------------------------------------------
(* runPhase *)

NoCalls == [i \in {} |-> Fresh]

Init ==
  /\ pc = "stream"
  /\ phase \in {"leaf", "synthesis"}
  /\ tools \in ToolModes
  /\ rounds \in 0..(IF tools = "auto" THEN MaxToolRoundsPerPhase ELSE 0)
  /\ parts = <<>>
  /\ acc = NoCalls
  /\ text = "empty"
  /\ current = "empty"
  /\ debates = 0
  /\ original = "empty"
  /\ calls = <<>>
  /\ sent = <<>>
  /\ failed = FALSE

Streaming == pc \in {"stream", "retry"}
MoreLines == Len(parts) + Len(sent) < MaxLines

\* runPhase returns, and with it its variables.
Return == parts' = <<>> /\ acc' = NoCalls /\ sent' = <<>>

\* A delta with text goes to the client as it comes.
TextLine ==
  /\ Streaming
  /\ MoreLines
  /\ \E p \in Pieces : parts' = Append(parts, p)
  /\ UNCHANGED <<pc, inputs, acc, sent, text, debateVars, calls>>

CallLine ==
  /\ Streaming
  /\ MoreLines
  /\ Obedient => Offered
  /\ \E d \in Delta :
       /\ d.arg = Len(sent) + 1
       /\ acc' = MergeToolCallDelta(acc, d)
       /\ sent' = Append(sent, d)
  /\ UNCHANGED <<pc, inputs, parts, text, debateVars, calls>>

\* The upstream refuses or breaks off, a line is garbled, the client is gone.
StreamFails ==
  /\ pc = "stream"
  /\ pc' = "failed"
  /\ Return
  /\ UNCHANGED <<inputs, text, debateVars, calls>>

\* Tool calls: the round pauses the run (pausePhase).
StreamPauses ==
  /\ pc = "stream"
  /\ acc # NoCalls
  /\ calls' \in CollectToolCalls(acc)
  /\ pc' = "paused"
  /\ UNCHANGED <<inputs, streamVars, text, debateVars>>

\* No calls: the synthesis is the answer ...
StreamAnswers ==
  /\ pc = "stream"
  /\ acc = NoCalls
  /\ phase = "synthesis"
  /\ pc' = "answered"
  /\ Return
  /\ UNCHANGED <<inputs, text, debateVars, calls>>

\* ... and the text of a leaf goes on to correctNeedsToolMarker.
StreamEndsLeaf ==
  /\ pc = "stream"
  /\ acc = NoCalls
  /\ phase = "leaf"
  /\ text' = Class(parts)
  /\ pc' = IF text' = "marker" /\ tools = "none" THEN "correct" ELSE "debate"
  /\ Return
  /\ UNCHANGED <<inputs, debateVars, calls>>

-----------------------------------------------------------------------------
(* correctNeedsToolMarker *)

RetryLeaf ==
  /\ pc = "correct"
  /\ pc' = "retry"
  /\ UNCHANGED <<inputs, streamVars, text, debateVars, calls>>

\* A retry that calls tools leaves the original text, marker included.
RetryEnds ==
  /\ pc = "retry"
  /\ text' = IF acc # NoCalls THEN text
             ELSE IF Class(parts) = "marker" THEN "note" ELSE Class(parts)
  /\ pc' = "debate"
  /\ Return
  /\ UNCHANGED <<inputs, debateVars, calls>>

\* The event that announces the retry, or the retry itself.
RetryFails ==
  /\ pc \in {"correct", "retry"}
  /\ text' = "note"
  /\ pc' = "debate"
  /\ Return
  /\ UNCHANGED <<inputs, debateVars, calls>>

-----------------------------------------------------------------------------
(* debateResult and Debater.Refine *)

StartDebate ==
  /\ pc = "debate"
  /\ DebateEnabled
  /\ text # "empty"
  /\ current' = text
  /\ original' = text
  /\ debates' = 1
  /\ pc' = "critique"
  /\ UNCHANGED <<inputs, streamVars, text, failed, calls>>

\* There is no debate, nothing to debate, or the client is gone.
SkipDebate ==
  /\ pc = "debate"
  /\ pc' = "record"
  /\ UNCHANGED <<inputs, streamVars, text, debateVars, calls>>

\* The critic approves: what the debate has come to is the result.
Approve ==
  /\ pc = "critique"
  /\ text' = current
  /\ pc' = "record"
  /\ UNCHANGED <<inputs, streamVars, debateVars, calls>>

Object ==
  /\ pc = "critique"
  /\ pc' = "refine"
  /\ UNCHANGED <<inputs, streamVars, text, debateVars, calls>>

MUTRefine_OneRoundMore ==
  /\ pc = "refine"
  /\ current' \in Completions
  /\ \/ /\ debates <= DebateRounds
        /\ debates' = debates + 1
        /\ pc' = "critique"
        /\ UNCHANGED text
     \/ /\ debates > DebateRounds
        /\ text' = current'
        /\ pc' = "record"
        /\ UNCHANGED debates
  /\ UNCHANGED <<inputs, streamVars, original, failed, calls>>

MUTRefine_NoLastRound ==
  /\ pc = "refine"
  /\ current' \in Completions
  /\ pc' = "critique"
  /\ UNCHANGED <<inputs, streamVars, text, debates, original, failed, calls>>

MUTRefine_InPlace ==
  /\ pc = "refine"
  /\ current' \in Completions
  /\ text' = current'
  /\ debates' = IF debates < DebateRounds THEN debates + 1 ELSE debates
  /\ pc' = IF debates < DebateRounds THEN "critique" ELSE "record"
  /\ UNCHANGED <<inputs, streamVars, original, failed, calls>>

\* A refinement, which may be empty; after the last round it is the result.
Refine ==
  /\ pc = "refine"
  /\ current' \in Completions
  /\ \/ /\ debates < DebateRounds
        /\ debates' = debates + 1
        /\ pc' = "critique"
        /\ UNCHANGED text
     \/ /\ debates = DebateRounds
        /\ text' = current'
        /\ pc' = "record"
        /\ UNCHANGED debates
  /\ UNCHANGED <<inputs, streamVars, original, failed, calls>>

\* A call fails, or the client is gone: debateResult drops the refinements.
DebateFails ==
  /\ pc \in {"critique", "refine"}
  /\ failed' = TRUE
  /\ pc' = "record"
  /\ UNCHANGED <<inputs, streamVars, text, current, debates, original, calls>>

-----------------------------------------------------------------------------
(* recordLeafResult *)

MUTSanitized_OnlyDescribed(t) ==
  IF tools = "none" /\ t = "marker" THEN "note" ELSE t

Sanitized(t) == IF tools = "none" /\ t \in {"marker", "bare"} THEN "note" ELSE t

Record ==
  /\ pc = "record"
  /\ text' = Sanitized(text)
  /\ pc' = "recorded"
  /\ UNCHANGED <<inputs, streamVars, debateVars, calls>>

-----------------------------------------------------------------------------

Next ==
  \/ TextLine \/ CallLine
  \/ StreamFails \/ StreamPauses \/ StreamAnswers \/ StreamEndsLeaf
  \/ RetryLeaf \/ RetryEnds \/ RetryFails
  \/ StartDebate \/ SkipDebate \/ Approve \/ Object \/ Refine \/ DebateFails
  \/ Record

Spec == Init /\ [][Next]_vars

\* The upstream's streams end, or its client's timeout ends them.
FairSpec == Spec /\ WF_vars(Next)
=============================================================================
