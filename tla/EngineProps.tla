----------------------------- MODULE EngineProps -----------------------------
(***************************************************************************)
(* The properties of module Engine.                                        *)
(***************************************************************************)
EXTENDS Engine

(* The shape of the engine's state and of the row. *)
TypeOK ==
  /\ pc \in {"idle", "plan", "leaf", "round", "stopped", "reply"}
  /\ stream \in BOOLEAN
  /\ tools \in ToolModes
  /\ todo \in Seq(Path)
  /\ nodes \in SUBSET Path
  /\ atomic \in SUBSET nodes
  /\ leaves \in Seq(Path)
  /\ results \in Seq(Result)
  /\ at \in Nat
  /\ phase \in {"leaf", "synthesis"}
  /\ pend \in Pending
  /\ saved \in Row \cup {NoRow}
  /\ heard \in BOOLEAN
  /\ failures \in 0..MaxFailures

Executing == pc \in {"leaf", "round", "stopped", "reply"}

(* Phase 1 (decompose.go): nothing of the instruction is lost or done twice.
   Every task that was created is executed as a leaf or is divided into
   subtasks that are, no leaf is part of another one, and no task is deeper
   than MAX_DECOMPOSITION_DEPTH. *)
PlanCoversTree ==
  pc = "leaf" /\ nodes # {} =>
    /\ \A n \in nodes : \E i \in 1..Len(leaves) : IsPrefix(n, leaves[i])
    /\ \A i, j \in 1..Len(leaves) : IsPrefix(leaves[i], leaves[j]) => i = j
    /\ \A n \in nodes : Len(n) <= MaxDecompositionDepth

(* Phase 2 (execute.go:201-236): whatever was paused, resumed or failed
   before, the results are those of the leaves before the current one, in
   order, and the synthesis starts with the results of all of them. *)
ResultsFollowLeaves ==
  /\ \A i \in 1..Len(results) : results[i].leaf = leaves[i]
  /\ Executing => at = Len(results) + 1
  /\ pc = "round" /\ phase = "leaf" => at <= Len(leaves)
  /\ pc = "round" /\ phase = "synthesis" => Len(results) = Len(leaves)

Assistants(conv) == {i \in DOMAIN conv : conv[i].role = "assistant"}

(* Every assistant message of a conversation is followed by one output for
   each of its calls, in their order. *)
OutputsFollow(conv) ==
  \A a \in Assistants(conv) :
    LET cs == conv[a].calls
        end == a + Len(cs) + 1
    IN  /\ \A j \in 1..Len(cs) : /\ a + j <= Len(conv)
                                 /\ conv[a + j] = Output(cs[j])
        /\ end <= Len(conv) => end \in Assistants(conv)

(* enterPending and resumePhase (execute.go:109-121, 238-255) only append: the
   conversation that a round sends holds every round of its phase since the
   phase began, each answered call by call, over any number of requests. *)
ConversationIsWhole ==
  pc = "round" =>
    /\ OutputsFollow(pend.conv)
    /\ Cardinality(Assistants(pend.conv)) = pend.rounds

(* README.md:215: when the rounds of a phase are used up the model answers
   with text.  It holds as long as the upstream calls no tools that it was
   not offered. *)
RoundsBounded == pend.rounds <= MaxToolRoundsPerPhase

(* README.md:35-39: if the request declares no tools, a marker never reaches
   the synthesis, be it the model, the retry or the debate that wrote it. *)
NoMarkerWithoutTools ==
  tools = "none" =>
    \A i \in 1..Len(results) : results[i].text \notin {"marker", "bare"}

\* The tree in the making: what is still to be classified is part of it, and
\* every task leads to one that is or will be a leaf.
TreeInv ==
  /\ IsFiniteSet(atomic)
  /\ \A i \in 1..Len(todo) : todo[i] \in nodes
  /\ \A n \in nodes : Len(n) <= MaxDecompositionDepth
  /\ \A n \in nodes :
       \/ \E m \in atomic : IsPrefix(n, m)
       \/ \E i \in 1..Len(todo) : IsPrefix(n, todo[i])
  /\ pc = "idle" => nodes = {} /\ atomic = {} /\ todo = <<>>
  /\ pc = "plan" => nodes # {}
  /\ Executing /\ nodes # {} => todo = <<>> /\ leaves \in CollectAtomicLeaves

\* A stream that leaves no number out starts with call 0.
GapFree == \A I \in IndexSets : 0 \in I

\* Where a run is that stopped with pending state p, leaves ls, results rs.
PendFits(p, ls, rs) ==
  /\ p.phase = "leaf" => p.leafIndex = Len(rs) + 1 /\ p.leafIndex <= Len(ls)
  /\ p.phase = "synthesis" => Len(rs) = Len(ls)
  /\ p.phase = "none" => p = NoPending
  /\ p.phase = "none" /\ GapFree => Len(rs) = Len(ls)

\* The run between two checkpoints.
RunInv ==
  /\ ResultsFollowLeaves
  /\ Executing => leaves # <<>> /\ at <= Len(leaves) + 1
  /\ pc \in {"idle", "plan"} => leaves = <<>> /\ results = <<>>
  /\ pc \in {"idle", "plan", "leaf"} => pend = NoPending
  /\ pc = "plan" => saved = NoRow
  /\ pc = "stopped" => PendFits(pend, leaves, results)
  /\ pc = "stopped" /\ pend.phase # "none" /\ GapFree => pend.calls # <<>>

\* The checkpoint, and the run that goes on from it.
SavedInv ==
  /\ heard \/ pc = "reply" => saved # NoRow
  /\ saved # NoRow =>
       /\ saved.leaves # <<>>
       /\ Len(saved.results) <= Len(saved.leaves)
       /\ \A i \in 1..Len(saved.results) : saved.results[i].leaf = saved.leaves[i]
       /\ PendFits(saved.pend, saved.leaves, saved.results)
       /\ Executing => leaves = saved.leaves /\ IsPrefix(saved.results, results)
       /\ Executing /\ pc # "reply" => saved.pend.phase # "none"

(* The inductive invariant: what is saved fits together piece by piece, and
   what is held between two checkpoints continues it. *)
EngineInv == TypeOK /\ TreeInv /\ RunInv /\ SavedInv

(* README.md:52-53: a run resumes "sin rehacer descomposicion ni tareas ya
   resueltas".  What is saved of it implements module RunLog. *)
SavedRun ==
  IF saved = NoRow
    THEN [leaves |-> <<>>, results |-> <<>>, closed |-> FALSE]
    ELSE [leaves |-> saved.leaves, results |-> saved.results,
          closed |-> saved.pend.phase = "none"]
Abstract == INSTANCE RunLog WITH
  RunId <- {"run"}, run <- [id \in {"run"} |-> SavedRun]
ImplementsRunLog == Abstract!Spec

(* A client that answers what it is asked gets the final answer, unless the
   reply to a save was lost: no phase asks for tools for ever. *)
Stranded == pc = "idle" /\ saved # NoRow /\ ~heard
RunCompletes ==
  <>(Stranded \/ (saved # NoRow /\ saved.pend.phase = "none"))
=============================================================================
