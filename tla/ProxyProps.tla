----------------------------- MODULE ProxyProps -----------------------------
(***************************************************************************)
(* The properties of module Proxy.                                         *)
(***************************************************************************)
EXTENDS Proxy, SessionsProps

(* README.md:52-53: a run resumes "sin rehacer descomposicion ni tareas ya
   resueltas".  Whatever other requests do beside it, retries of the request
   that paused or answered it included, what is saved of each session
   implements module RunLog: one plan, results that are never lost nor
   computed again, and an end only when all are there. *)
Runs == INSTANCE RunLog WITH RunId <- Sid, run <- progress
RunsImplementRunLog == Runs!Spec

(* An engine that was restored from a row works on what the row still holds:
   nobody else saves to the session meanwhile. *)
EngineContinuesRow ==
  \A h \in Handler :
    pc[h] = "run" /\ snap[h] # NoRow =>
      /\ engine[h].leaves = progress[sid[h]].leaves
      /\ IsPrefix(progress[sid[h]].results, engine[h].results)
      /\ ~progress[sid[h]].closed

-----------------------------------------------------------------------------
(* The inductive invariant *)

EngineRecord == [leaves : Seq(Task), results : Seq(Result)]
ProgressRecord == [leaves : Seq(Task), results : Seq(Result), closed : BOOLEAN]

ProxyTypes ==
  /\ engine \in [Handler -> EngineRecord]
  /\ progress \in [Sid -> ProgressRecord]

PlansAreFollowed ==
  /\ \A h \in Handler : Runs!Follows(engine[h])
  /\ \A s \in Sid : Runs!Follows(progress[s])

(* A session has a plan as soon as it has a checkpoint, and is closed only
   when its last checkpoint waits for nothing. *)
ProgressIsLogged ==
  \A s \in Sid :
    /\ log[s] = <<>> => progress[s] = NoProgress
    /\ log[s] # <<>> => progress[s].leaves # <<>>
    /\ progress[s].closed => Last(log[s]).calls = {}

(* What the engine's work on a session stays right by. *)
ProxyInv ==
  /\ CheckpointsInv
  /\ ProxyTypes
  /\ PlansAreFollowed
  /\ ProgressIsLogged
  /\ EngineContinuesRow
=============================================================================
