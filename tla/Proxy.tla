-------------------------------- MODULE Proxy --------------------------------
(***************************************************************************)
(* The composition of sessions and engines: any number of handlers, each   *)
(* with an engine of its own that it restores from the row of a session or *)
(* starts from nothing, and whose progress goes back to the row when the   *)
(* run pauses or completes.  Module Sessions has the table, the mutexes    *)
(* and the decision what a request is; module Engine has what one run      *)
(* does, with nobody beside it.  Here a run has its plan and the results   *)
(* of the leaves executed so far, which only the mutex and the recheck     *)
(* under it protect from other requests for the same session.              *)
(***************************************************************************)
EXTENDS Sessions

CONSTANTS
  Task,      \* atomic tasks
  Text,      \* the results that executing a task may have
  Plan       \* the lists of leaves a decomposition may give

ASSUME ProxyAssumption == Plan \subseteq Seq(Task) \ {<<>>}

VARIABLES
  engine,    \* each handler's engine: its leaves and results
  progress   \* each session's row, as far as the engine fills it, and what
             \* it held last if the row is gone; closed: no phase is pending

proxyVars == <<vars, engine, progress>>

Result == [leaf : Task, text : Text]

NewEngine == [leaves |-> <<>>, results |-> <<>>]
NoProgress == [leaves |-> <<>>, results |-> <<>>, closed |-> FALSE]

ProxyInit ==
  /\ Init
  /\ engine = [h \in Handler |-> NewEngine]
  /\ progress = [s \in Sid |-> NoProgress]

-----------------------------------------------------------------------------
(* A run *)

\* Engine.Run: the instruction is decomposed into its leaves.
Decompose(h) ==
  /\ pc[h] = "run"
  /\ engine[h].leaves = <<>>
  /\ \E plan \in Plan : engine' = [engine EXCEPT ![h].leaves = plan]
  /\ UNCHANGED <<vars, progress>>

\* recordLeafResult
ExecuteLeaf(h) ==
  /\ pc[h] = "run"
  /\ Len(engine[h].results) < Len(engine[h].leaves)
  /\ \E t \in Text :
       LET leaf == engine[h].leaves[Len(engine[h].results) + 1]
       IN  engine' = [engine EXCEPT ![h].results =
                        Append(@, [leaf |-> leaf, text |-> t])]
  /\ UNCHANGED <<vars, progress>>

\* Persist copies leaves and results of the engine into the row.
Keep(h, closed) ==
  /\ engine[h].leaves # <<>>
  /\ progress' = [progress EXCEPT ![sid[h]] =
                    [leaves |-> engine[h].leaves,
                     results |-> engine[h].results,
                     closed |-> closed]]
  /\ UNCHANGED engine

\* A leaf or the synthesis asks for tools.
PauseRun(h) == Pause(h) /\ Keep(h, FALSE)

\* The synthesis answers once every leaf has its result.
FinishRun(h) ==
  /\ Finish(h)
  /\ Len(engine[h].results) = Len(engine[h].leaves)
  /\ Keep(h, TRUE)

-----------------------------------------------------------------------------
(* The engine of a request *)

\* buildResumeRun: RestoreTree from the row that was read under the mutex.
ResumeRun(h) ==
  /\ RecheckResumes(h)
  /\ engine' = [engine EXCEPT ![h] = [leaves |-> progress[sid[h]].leaves,
                                      results |-> progress[sid[h]].results]]
  /\ UNCHANGED progress

\* prepareFreshOrNewTurn: engine.New.
StartRun(h) ==
  /\ StartFresh(h)
  /\ engine' = [engine EXCEPT ![h] = NewEngine]
  /\ UNCHANGED progress

\* The handler returns and its engine is garbage.
Leave(h) ==
  /\ PrepareFails(h) \/ RunFails(h) \/ Deliver(h) \/ ReplyLost(h)
  /\ engine' = [engine EXCEPT ![h] = NewEngine]
  /\ UNCHANGED progress

RestartProxy ==
  /\ Restart
  /\ engine' = [h \in Handler |-> NewEngine]
  /\ UNCHANGED progress

\* Steps of module Sessions that no engine sees.
Arrive(h) == Accept(h) /\ UNCHANGED <<engine, progress>>

Decide(h) ==
  /\ FindResumable(h) \/ RecheckStale(h)
  /\ UNCHANGED <<engine, progress>>

AwaitMutex(h) == Lock(h) /\ UNCHANGED <<engine, progress>>

Elapse == Tick /\ UNCHANGED <<engine, progress>>

ProxyWork(h) ==
  \/ Decide(h) \/ ResumeRun(h) \/ StartRun(h)
  \/ Decompose(h) \/ ExecuteLeaf(h) \/ PauseRun(h) \/ FinishRun(h)
  \/ Leave(h)

ProxyNext ==
  \/ \E h \in Handler : Arrive(h) \/ AwaitMutex(h) \/ ProxyWork(h)
  \/ RestartProxy
  \/ Elapse

ProxySpec == ProxyInit /\ [][ProxyNext]_proxyVars

\* As in module Sessions.
FairProxySpec ==
  /\ ProxySpec
  /\ \A h \in Handler : WF_proxyVars(ProxyWork(h)) /\ SF_proxyVars(AwaitMutex(h))
=============================================================================
