---------------------------- MODULE SessionsRace ----------------------------
(***************************************************************************)
(* Module Sessions with a history variable for the race that the mutex of  *)
(* a session decides: which requests waited for it while another request   *)
(* with the same messages resumed the session and went on with it.         *)
(***************************************************************************)
EXTENDS SessionsProps

VARIABLE beaten  \* handlers that lost the session to an identical request

raceVars == <<vars, beaten>>

\* The recheck under the mutex finds that the session's last checkpoint is a
\* run on the very messages of h.
LosesTo(h) ==
  /\ RecheckStale(h)
  /\ log[sid[h]] # <<>>
  /\ Last(log[sid[h]]).ckpt = msgs[h]

RaceInit == Init /\ beaten = {}

RaceNext ==
  /\ Next
  /\ beaten' = {h \in Handler : pc'[h] # "idle" /\ (h \in beaten \/ LosesTo(h))}

RaceSpec == RaceInit /\ [][RaceNext]_raceVars

(* service.go:114-115: the mutex is taken before deciding "para evitar doble
   ejecucion cuando dos requests identicas llegan en paralelo".  So a request
   that waited for the mutex while an identical one was executed is not
   executed in its turn. *)
NoDoubleExecution == \A h \in beaten : ~Running(h)
=============================================================================
