-------------------------- MODULE PhaseRoundProps --------------------------
(***************************************************************************)
(* The properties of module PhaseRound.                                    *)
(***************************************************************************)
EXTENDS PhaseRound

CONSTANTS NoRow

Ended == pc \in {"paused", "answered", "recorded", "failed"}

(* The types of the round's state. *)
TypeOK ==
  /\ pc \in {"stream", "correct", "retry", "debate", "critique", "refine",
             "record", "paused", "answered", "recorded", "failed"}
  /\ phase \in {"leaf", "synthesis"}
  /\ tools \in ToolModes
  /\ rounds \in 0..MaxToolRoundsPerPhase
  /\ parts \in Seq(Pieces)
  /\ DOMAIN acc \subseteq Indices \cup {0}
  /\ acc \in [DOMAIN acc -> Call]
  /\ text \in Pieces \cup {"empty", "note"}
  /\ current \in Pieces \cup {"empty", "note"}
  /\ debates \in 0..DebateRounds
  /\ calls \in Seq(Call)
  /\ sent \in Seq(Delta)
  /\ original \in Pieces \cup {"empty", "note"}
  /\ failed \in BOOLEAN

-----------------------------------------------------------------------------
(* Assembling tool calls *)

IndexOf(d) == IF d.index = Missing THEN 0 ELSE d.index

UsedIndices(ds) == {IndexOf(ds[k]) : k \in DOMAIN ds}

\* The deltas of call i in a stream, by their place in it; those with an id.
Of(ds, i) == {k \in DOMAIN ds : IndexOf(ds[k]) = i}
Named(ds, i) == {k \in Of(ds, i) : ds[k].id # Missing}

\* All the arguments of call i, in the order they came.
Gathered(ds, call, i) ==
  /\ Range(call.args) = {ds[k].arg : k \in Of(ds, i)}
  /\ \A j, k \in DOMAIN call.args : j < k => call.args[j] < call.args[k]

\* The id that every delta of call i with an id gives it, if there is one.
Identified(ds, call, i) ==
  /\ Named(ds, i) = {} => call.id = NoId
  /\ \A k \in Named(ds, i) :
       (\A l \in Named(ds, i) : ds[l].id = ds[k].id) => call.id = ds[k].id

\* Of several ids call i has the last.
Assembled(ds, call, i) ==
  /\ call.id = IF Named(ds, i) = {} THEN NoId ELSE ds[Max(Named(ds, i))].id
  /\ Gathered(ds, call, i)

(* mergeToolCallDelta and collectToolCalls (merge.go:9-34, execute.go:98-107):
   however the deltas of parallel calls are interleaved, the run pauses for
   the calls numbered from 0, in that order, each with its id and all of its
   arguments, unless the upstream leaves a number out.  What becomes of a call
   that is given two ids it does not say: merge.go:5-7 has the first one stand
   ("se setea la primera vez"), merge.go:19-21 the last one. *)
CallsAssembled ==
  LET n == Cardinality(UsedIndices(sent))
  IN  pc = "paused" /\ UsedIndices(sent) = 0..(n - 1) =>
        /\ Len(calls) = n
        /\ \A i \in 0..(n - 1) :
             Gathered(sent, calls[i + 1], i) /\ Identified(sent, calls[i + 1], i)

\* The accumulated calls are assembled, whatever numbers they have, and the
\* run pauses for those that collectToolCalls finds.
Assembling ==
  /\ DOMAIN acc = UsedIndices(sent)
  /\ \A i \in DOMAIN acc : Assembled(sent, acc[i], i)
  /\ \A k \in DOMAIN sent : sent[k].arg = k
  /\ pc = "paused" => calls \in CollectToolCalls(acc)

-----------------------------------------------------------------------------
(* Debate and outcome *)

(* README.md:188-189: "Si una ronda del debate falla, el proxy conserva el
   resultado original", also when earlier rounds had refined it. *)
FailedDebateKeepsOriginal ==
  failed /\ pc = "recorded" => text = Sanitized(original)

\* A debate leaves the leaf's text alone until it has come to an end.
Debating ==
  /\ pc \in {"critique", "refine"} => text = original /\ ~failed
  /\ failed => \/ pc = "record" /\ text = original
               \/ pc = "recorded" /\ text = Sanitized(original)

\* What correctNeedsToolMarker may leave of a text.
Corrects(t) ==
  /\ t = "note" => tools = "none" /\ "marker" \in Pieces
  /\ t = "marker" /\ tools = "none" => ~Obedient

\* Only a leaf is corrected and debated; a text that a debate has changed is
\* one that the upstream wrote.
Phases ==
  /\ pc \in {"correct", "retry", "debate", "critique", "refine", "record", "recorded"}
       => phase = "leaf"
  /\ pc = "answered" => phase = "synthesis"
  /\ acc # NoCalls /\ Obedient => Offered
  /\ pc \in {"correct", "retry"} => text = "marker" /\ tools = "none"
  /\ pc = "debate" => Corrects(text)
  /\ pc \in {"critique", "refine"} =>
       /\ Corrects(text) /\ text # "empty" /\ DebateEnabled
       /\ current \in {text, "empty"} \cup Pieces
  /\ pc = "record" =>
       \/ Corrects(text)
       \/ /\ DebateEnabled /\ text \in Pieces \cup {"empty"}
          /\ Corrects(original) /\ original # "empty"

(* The inductive invariant behind the properties of this module. *)
RoundInv == TypeOK /\ Assembling /\ Debating /\ Phases

(* Every round ends: the leaf is tried again once at most, and the debate
   stops after DEBATE_ROUNDS. *)
RoundEnds == <>Ended

\* Module Engine, in the middle of a round of its only leaf or of the
\* synthesis; its calls are ids.
EngineNode == <<>>
EngineResult(t) == [leaf |-> EngineNode, text |-> t]
Ids(cs) == [k \in DOMAIN cs |-> cs[k].id]
At == IF phase = "leaf" /\ pc # "recorded" THEN 1 ELSE 2

NoPend == [phase |-> "none", leafIndex |-> 0, calls |-> <<>>, conv |-> <<>>, rounds |-> 0]
Pend ==
  CASE pc = "paused" ->
         [phase |-> phase, leafIndex |-> IF phase = "leaf" THEN 1 ELSE 0,
          calls |-> Ids(calls),
          conv |-> <<[role |-> "assistant", calls |-> Ids(calls)]>>,
          rounds |-> rounds + 1]
    [] pc \in {"answered", "recorded", "failed"} -> NoPend
    [] OTHER -> [NoPend EXCEPT !.rounds = rounds]

EnginePc ==
  CASE pc \in {"paused", "answered"} -> "stopped"
    [] pc = "recorded" -> "leaf"
    [] pc = "failed" -> "idle"
    [] OTHER -> "round"

IndexSets == (SUBSET (Indices \cup {0})) \ {{}}

Abstract == INSTANCE Engine WITH
  MaxDecompositionDepth <- 1, MaxSubtasks <- 1, MaxFailures <- 1,
  CallId <- CallId \cup {NoId},
  IndexSets <- IndexSets,
  Texts <- Pieces \cup {"empty"},
  pc <- EnginePc,
  stream <- FALSE, todo <- <<>>, nodes <- {}, atomic <- {},
  leaves <- IF pc = "failed" THEN <<>> ELSE <<EngineNode>>,
  results <- IF pc = "failed" THEN <<>>
             ELSE IF phase = "synthesis" THEN <<EngineResult("text")>>
             ELSE IF pc = "recorded" THEN <<EngineResult(text)>> ELSE <<>>,
  at <- IF pc = "failed" THEN 0 ELSE At,
  phase <- IF pc = "failed" THEN "leaf" ELSE phase,
  pend <- Pend, saved <- NoRow, heard <- FALSE,
  failures <- IF pc = "failed" THEN 1 ELSE 0

EngineRoundEnds ==
  /\ EnginePc' # "round"
  /\ \/ Abstract!RoundPauses \/ Abstract!RoundRecordsLeaf
     \/ Abstract!RoundAnswers \/ Abstract!RunFails

(* runPhase and what follows it implement what module Engine takes as one
   step: a pause for calls that a stream can amount to, a result that the
   marker logic and the debate can leave, an answer, or a failed run that
   records nothing. *)
ImplementsEngineRound == [][EngineRoundEnds]_(Abstract!vars)
=============================================================================
