------------------------------- MODULE Engine -------------------------------
(***************************************************************************)
(* The engine of one run (internal/core/engine, internal/core/task): the   *)
(* instruction is decomposed into a tree, its atomic leaves are executed   *)
(* in order, their results are synthesised.  A phase in which the model    *)
(* asks for tools stops the run; the service saves the engine's state      *)
(* (Service.Persist) and restores it when the client brings the outputs    *)
(* (buildResumeRun, Engine.Resume).  Any run may fail half-way, and with   *)
(* it everything that was not saved.                                       *)
(*                                                                         *)
(* A task is its path in the tree, a text is what the marker logic tells   *)
(* apart, a tool call is its id.  Module Sessions says which requests      *)
(* reach the engine; here the client resumes the run it was told about.    *)
(***************************************************************************)
EXTENDS Naturals, FiniteSets, Sequences, SequencesExt

CONSTANTS
  MaxDecompositionDepth,
  MaxToolRoundsPerPhase,
  CallId,         \* ids of tool calls
  IndexSets,      \* the sets of indices a stream may give its tool calls
  ToolModes,      \* what requests declare: "none", "auto" or "disabled" tools
  Texts,          \* what the model may write, see Text
  DebateEnabled,
  Obedient,       \* the upstream calls no tools when it is offered none
  NoRow,          \* nothing saved yet
  MaxSubtasks,    \* bound: subtasks of one task
  MaxFailures     \* bound: failed runs

\* "marker" is a text with [[NECESITA_HERRAMIENTA: something]], "bare" one
\* whose marker describes nothing, "note" the engine's own honest note.
Text == {"text", "marker", "bare", "empty", "note"}

ASSUME ConstantsAssumption ==
  /\ MaxDecompositionDepth \in Nat \ {0}
  /\ MaxToolRoundsPerPhase \in Nat \ {0}
  /\ \A I \in IndexSets : I \subseteq Nat /\ IsFiniteSet(I) /\ I # {}
  /\ ToolModes \subseteq {"none", "auto", "disabled"}
  /\ Texts \subseteq Text \ {"note"}
  /\ DebateEnabled \in BOOLEAN
  /\ Obedient \in BOOLEAN
  /\ MaxSubtasks \in Nat \ {0}
  /\ MaxFailures \in Nat

VARIABLES
  pc,        \* where the handler of the run is
  stream,    \* the request asked for SSE
  tools,     \* the tools and tool_choice of the session
  todo,      \* tasks still to be classified, the recursion's agenda
  nodes,     \* the tasks of the tree
  atomic,    \* those that are not divided
  leaves,    \* Engine.leaves
  results,   \* Engine.results
  at,        \* index of the leaf in execution
  phase,     \* the phase of the round in execution
  pend,      \* the pending* fields and toolRoundCount
  saved,     \* the session's row, as far as the engine fills it
  heard,     \* the client received the reply that goes with the row
  failures   \* failed runs so far

treeVars == <<todo, nodes, atomic>>
workVars == <<leaves, results, at, phase, pend>>
vars == <<pc, stream, tools, treeVars, workVars, saved, heard, failures>>

-----------------------------------------------------------------------------
(* Tasks, results and the pending state *)

Path == Seq(1..MaxSubtasks)
Result == [leaf : Path, text : Text]

Asks(cs) == [role |-> "assistant", calls |-> cs]
Output(c) == [role |-> "tool", calls |-> <<c>>]
Entry == [role : {"assistant", "tool"}, calls : Seq(CallId)]

Pending == [phase : {"none", "leaf", "synthesis"}, leafIndex : Nat,
            calls : Seq(CallId), conv : Seq(Entry), rounds : Nat]

Row == [leaves : Seq(Path), results : Seq(Result), pend : Pending]

ASSUME RowAssumption == NoRow \notin Row

\* clearPending
NoPending == [phase |-> "none", leafIndex |-> 0, calls |-> <<>>,
              conv |-> <<>>, rounds |-> 0]

Before(p, q) ==
  \E i \in 1..Len(p) :
    /\ i <= Len(q)
    /\ p[i] < q[i]
    /\ \A j \in 1..(i - 1) : p[j] = q[j]

InOrder(i, j) == i < j

\* The sequences, at most one here, that list a set in an order.
Listings(S, Precedes(_, _)) ==
  {s \in [1..Cardinality(S) -> S] :
     \A i, j \in 1..Cardinality(S) : i < j => Precedes(s[i], s[j])}

\* The atomic tasks in depth-first order.
CollectAtomicLeaves == Listings(atomic, Before)

\* Only the indices below the number of accumulated calls are visited.
CollectToolCalls(acc) ==
  LET visited == {i \in DOMAIN acc : i < Cardinality(DOMAIN acc)}
  IN  {[k \in DOMAIN s |-> acc[s[k]]] : s \in Listings(visited, InOrder)}

MUTOffered_OneRoundMore ==
  tools = "auto" /\ pend.rounds <= MaxToolRoundsPerPhase

\* normalizeToolChoice and the limit of rounds.
Offered == tools = "auto" /\ pend.rounds < MaxToolRoundsPerPhase

\* The tool calls that the stream of a round can amount to.
StreamedCalls ==
  IF Obedient /\ ~Offered
    THEN {}
    ELSE UNION {CollectToolCalls(acc) : acc \in UNION {[I -> CallId] : I \in IndexSets}}

-----------------------------------------------------------------------------
(* The result of a leaf *)

\* correctNeedsToolMarker: one retry; its failure, or a marker again, leaves
\* the note, and a retry that calls tools the original text.
Corrected(t) ==
  IF t # "marker" \/ tools # "none"
    THEN {t}
    ELSE {"note"} \cup (Texts \ {"marker"})
           \cup (IF StreamedCalls # {} THEN {t} ELSE {})

\* debateResult: the original text (approved, or the debate failed), or
\* whatever the last refinement wrote.
Debated(t) == IF DebateEnabled /\ t # "empty" THEN {t} \cup Texts ELSE {t}

MUTSanitized_BareMarkerStays(t) ==
  IF tools = "none" /\ t = "marker" THEN "note" ELSE t

\* sanitizeResultForContext
Sanitized(t) ==
  IF tools = "none" /\ t \in {"marker", "bare"} THEN "note" ELSE t

LeafResults(t) ==
  UNION {{Sanitized(d) : d \in Debated(c)} : c \in Corrected(t)}

-----------------------------------------------------------------------------
(* Phase 1: the tree *)

Init ==
  /\ pc = "idle"
  /\ stream = FALSE
  /\ tools \in ToolModes
  /\ todo = <<>>
  /\ nodes = {}
  /\ atomic = {}
  /\ leaves = <<>>
  /\ results = <<>>
  /\ at = 0
  /\ phase = "leaf"
  /\ pend = NoPending
  /\ saved = NoRow
  /\ heard = FALSE
  /\ failures = 0

\* A request that resumes nothing: Run, up to the root of the tree.
Run ==
  /\ pc = "idle"
  /\ saved = NoRow
  /\ stream' \in BOOLEAN
  /\ todo' = <<(<<>>)>>
  /\ nodes' = {<<>>}
  /\ atomic' = {}
  /\ pc' = "plan"
  /\ UNCHANGED <<tools, workVars, saved, heard, failures>>

\* Too deep, declared atomic, without subtasks or not understood.
DecomposeAtomic ==
  /\ pc = "plan"
  /\ todo # <<>>
  /\ atomic' = atomic \cup {Head(todo)}
  /\ todo' = Tail(todo)
  /\ UNCHANGED <<pc, stream, tools, nodes, workVars, saved, heard, failures>>

MUTDecomposeSplit_OneTooDeep ==
  /\ pc = "plan"
  /\ todo # <<>>
  /\ Len(Head(todo)) <= MaxDecompositionDepth
  /\ \E k \in 1..MaxSubtasks :
       LET children == [i \in 1..k |-> Append(Head(todo), i)]
       IN  /\ nodes' = nodes \cup {children[i] : i \in 1..k}
           /\ todo' = children \o Tail(todo)
  /\ UNCHANGED <<pc, stream, tools, atomic, workVars, saved, heard, failures>>

MUTDecomposeSplit_NoAddChild ==
  /\ pc = "plan"
  /\ todo # <<>>
  /\ Len(Head(todo)) < MaxDecompositionDepth
  /\ \E k \in 1..MaxSubtasks :
       todo' = [i \in 1..k |-> Append(Head(todo), i)] \o Tail(todo)
  /\ UNCHANGED <<pc, stream, tools, nodes, atomic, workVars, saved, heard,
                 failures>>

\* The subtasks are classified before what is left of their parent's level.
DecomposeSplit ==
  /\ pc = "plan"
  /\ todo # <<>>
  /\ Len(Head(todo)) < MaxDecompositionDepth
  /\ \E k \in 1..MaxSubtasks :
       LET children == [i \in 1..k |-> Append(Head(todo), i)]
       IN  /\ nodes' = nodes \cup {children[i] : i \in 1..k}
           /\ todo' = children \o Tail(todo)
  /\ UNCHANGED <<pc, stream, tools, atomic, workVars, saved, heard, failures>>

\* executeTree
ExecuteTree ==
  /\ pc = "plan"
  /\ todo = <<>>
  /\ leaves' \in CollectAtomicLeaves
  /\ results' = <<>>
  /\ at' = 1
  /\ pc' = "leaf"
  /\ UNCHANGED <<stream, tools, treeVars, phase, pend, saved, heard, failures>>

-----------------------------------------------------------------------------
(* Phases 2 and 3: rounds of a leaf or of the synthesis *)

\* executeFrom, up to the round of the next leaf.  A leaf starts without
\* rounds or conversation; indices count from 1 here and from 0 in the code.
NextLeaf ==
  /\ pc = "leaf"
  /\ at <= Len(leaves)
  /\ phase' = "leaf"
  /\ pend' = [pend EXCEPT !.conv = <<>>, !.rounds = 0]
  /\ pc' = "round"
  /\ UNCHANGED <<stream, tools, treeVars, leaves, results, at, saved, heard,
                 failures>>

\* synthesizeFinal, likewise.
SynthesizeFinal ==
  /\ pc = "leaf"
  /\ at > Len(leaves)
  /\ phase' = "synthesis"
  /\ pend' = [pend EXCEPT !.conv = <<>>, !.rounds = 0]
  /\ pc' = "round"
  /\ UNCHANGED <<stream, tools, treeVars, leaves, results, at, saved, heard,
                 failures>>

MUTRoundPauses_ForgetsConversation ==
  /\ pc = "round"
  /\ \E cs \in StreamedCalls :
       pend' = [phase |-> phase,
                leafIndex |-> IF phase = "leaf" THEN at ELSE 0,
                calls |-> cs,
                conv |-> <<Asks(cs)>>,
                rounds |-> pend.rounds + 1]
  /\ pc' = "stopped"
  /\ UNCHANGED <<stream, tools, treeVars, leaves, results, at, phase, saved,
                 heard, failures>>

MUTRoundPauses_AtNextLeaf ==
  /\ pc = "round"
  /\ \E cs \in StreamedCalls :
       pend' = [phase |-> phase,
                leafIndex |-> IF phase = "leaf" THEN at + 1 ELSE 0,
                calls |-> cs,
                conv |-> Append(pend.conv, Asks(cs)),
                rounds |-> pend.rounds + 1]
  /\ pc' = "stopped"
  /\ UNCHANGED <<stream, tools, treeVars, leaves, results, at, phase, saved,
                 heard, failures>>

\* runPhase returned tool calls: pausePhase, enterPending.
RoundPauses ==
  /\ pc = "round"
  /\ \E cs \in StreamedCalls :
       pend' = [phase |-> phase,
                leafIndex |-> IF phase = "leaf" THEN at ELSE 0,
                calls |-> cs,
                conv |-> Append(pend.conv, Asks(cs)),
                rounds |-> pend.rounds + 1]
  /\ pc' = "stopped"
  /\ UNCHANGED <<stream, tools, treeVars, leaves, results, at, phase, saved,
                 heard, failures>>

\* runPhase returned a text for the leaf: recordLeafResult.  A resumed leaf
\* clears what was pending (clearPending); a fresh one has nothing to clear.
RoundRecordsLeaf ==
  /\ pc = "round"
  /\ phase = "leaf"
  /\ \E t \in Texts, r \in Text :
       /\ r \in LeafResults(t)
       /\ results' = Append(results, [leaf |-> leaves[at], text |-> r])
  /\ pend' = NoPending
  /\ at' = at + 1
  /\ pc' = "leaf"
  /\ UNCHANGED <<stream, tools, treeVars, leaves, phase, saved, heard, failures>>

\* The final answer.
RoundAnswers ==
  /\ pc = "round"
  /\ phase = "synthesis"
  /\ pend' = NoPending
  /\ pc' = "stopped"
  /\ UNCHANGED <<stream, tools, treeVars, leaves, results, at, phase, saved,
                 heard, failures>>

-----------------------------------------------------------------------------
(* The service and the client *)

\* How the handler tells a paused run: by the event (SSE), by its calls (JSON).
Paused == pend.phase # "none" /\ (stream \/ pend.calls # <<>>)

Persist ==
  /\ pc = "stopped"
  /\ saved' = [leaves |-> leaves, results |-> results,
               pend |-> IF Paused THEN pend ELSE NoPending]
  /\ heard' = FALSE
  /\ pc' = "reply"
  /\ UNCHANGED <<stream, tools, treeVars, workVars, failures>>

\* The handler returns and the engine is garbage.
Drop ==
  /\ pc' = "idle"
  /\ todo' = <<>>
  /\ nodes' = {}
  /\ atomic' = {}
  /\ leaves' = <<>>
  /\ results' = <<>>
  /\ at' = 0
  /\ phase' = "leaf"
  /\ pend' = NoPending
  /\ stream' = FALSE
  /\ UNCHANGED tools

Deliver ==
  /\ pc = "reply"
  /\ heard' = TRUE
  /\ Drop
  /\ UNCHANGED <<saved, failures>>

\* The client went away, or the process died, after the save.
ReplyLost ==
  /\ pc = "reply"
  /\ failures < MaxFailures
  /\ failures' = failures + 1
  /\ Drop
  /\ UNCHANGED <<saved, heard>>

\* The upstream or the save failed, the client left, the process died.
RunFails ==
  /\ pc \in {"plan", "leaf", "round", "stopped"}
  /\ failures < MaxFailures
  /\ failures' = failures + 1
  /\ Drop
  /\ UNCHANGED <<saved, heard>>

MUTResume_PhaseStartsOver ==
  /\ pc = "idle"
  /\ heard
  /\ saved.pend.calls # <<>>
  /\ stream' \in BOOLEAN
  /\ leaves' = saved.leaves
  /\ results' = saved.results
  /\ at' = IF saved.pend.phase = "leaf"
             THEN saved.pend.leafIndex ELSE Len(saved.leaves) + 1
  /\ phase' = saved.pend.phase
  /\ pend' = NoPending
  /\ pc' = "round"
  /\ UNCHANGED <<tools, treeVars, saved, heard, failures>>

MUTResume_FromFirstLeaf ==
  /\ pc = "idle"
  /\ heard
  /\ saved.pend.calls # <<>>
  /\ stream' \in BOOLEAN
  /\ leaves' = saved.leaves
  /\ results' = <<>>
  /\ at' = 1
  /\ pend' = NoPending
  /\ pc' = "leaf"
  /\ UNCHANGED <<tools, treeVars, phase, saved, heard, failures>>

\* The client answers the calls it was given: buildResumeRun and resumePhase.
\* After a failure it may do so again.
Resume ==
  /\ pc = "idle"
  /\ heard
  /\ saved.pend.calls # <<>>
  /\ stream' \in BOOLEAN
  /\ leaves' = saved.leaves
  /\ results' = saved.results
  /\ at' = IF saved.pend.phase = "leaf"
             THEN saved.pend.leafIndex ELSE Len(saved.leaves) + 1
  /\ phase' = saved.pend.phase
  /\ pend' = [saved.pend EXCEPT
                !.conv = @ \o [i \in DOMAIN saved.pend.calls |->
                                 Output(saved.pend.calls[i])]]
  /\ pc' = "round"
  /\ UNCHANGED <<tools, treeVars, saved, heard, failures>>

Work ==
  \/ Run \/ DecomposeAtomic \/ DecomposeSplit \/ ExecuteTree
  \/ NextLeaf \/ SynthesizeFinal
  \/ RoundPauses \/ RoundRecordsLeaf \/ RoundAnswers
  \/ Persist \/ Deliver \/ Resume

Next == Work \/ ReplyLost \/ RunFails

Spec == Init /\ [][Next]_vars

\* The handler goes on until it returns, and the client until it has its
\* answer: it sends its request again and answers the calls it is given.
FairSpec == Spec /\ WF_vars(Work)
=============================================================================
