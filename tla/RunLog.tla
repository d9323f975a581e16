------------------------------- MODULE RunLog -------------------------------
(***************************************************************************)
(* What the engine promises about runs that pause and are resumed, maybe   *)
(* after failures and restarts: a run has one plan, its list of atomic     *)
(* tasks, the leaves; the results saved for it are those of the first      *)
(* leaves, in order; saved results are never lost nor computed again; and  *)
(* the run is closed only once every leaf has its result.                  *)
(***************************************************************************)
EXTENDS Naturals, Sequences, SequencesExt

CONSTANT RunId

VARIABLE run  \* what is saved of each run: its leaves, empty before the
              \* first save, its results, and whether it is closed

\* The results in r are those of its first leaves.
Follows(r) ==
  /\ Len(r.results) <= Len(r.leaves)
  /\ \A i \in 1..Len(r.results) : r.results[i].leaf = r.leaves[i]

Init ==
  \A id \in RunId :
    run[id].leaves = <<>> /\ run[id].results = <<>> /\ ~run[id].closed

\* What a run has saved moves forward.
Commit(id) ==
  /\ ~run[id].closed
  /\ run'[id].leaves # <<>>
  /\ run[id].leaves # <<>> => run'[id].leaves = run[id].leaves
  /\ IsPrefix(run[id].results, run'[id].results)
  /\ Follows(run'[id])
  /\ run'[id].closed \in BOOLEAN
  /\ run'[id].closed => Len(run'[id].results) = Len(run'[id].leaves)
  /\ \A other \in RunId \ {id} : run'[other] = run[other]

Next == \E id \in RunId : Commit(id)

Spec == Init /\ [][Next]_run
=============================================================================
