---------------------------- MODULE SessionsProps ---------------------------
(***************************************************************************)
(* The properties of module Sessions.                                      *)
(***************************************************************************)
EXTENDS Sessions

\* An entry of the log.
Ckpt == [ckpt : History, calls : SUBSET CallId, text : Answer \cup {NoAnswer}]

(* The shape of the tables, of the handlers' locals and of the log; a handler
   past its lookup names a session, and only one that resumes holds a row. *)
SharedTypes ==
  /\ store \in [Sid -> Row \cup {NoRow}]
  /\ clock \in Nat
  /\ locks \in [Sid -> Handler \cup {NoHandler}]
  /\ issued \in SUBSET Sid
  /\ replies \in SUBSET (History \ {<<>>})
  /\ log \in [Sid -> Seq(Ckpt)]

LocalTypes ==
  /\ pc \in [Handler -> {"idle", "find", "lock", "recheck", "run", "reply"}]
  /\ msgs \in [Handler -> History]
  /\ sid \in [Handler -> Sid \cup {NoSid}]
  /\ snap \in [Handler -> Row \cup {NoRow}]
  /\ turns \in [Handler -> Seq(Sid)]
  /\ said \in [Handler -> Message]

LocalsMatchPc ==
  \A h \in Handler :
    /\ pc[h] \in {"idle", "find"} <=> sid[h] = NoSid
    /\ pc[h] \in {"lock", "recheck"} => snap[h] # NoRow
    /\ pc[h] \in {"idle", "find"} => snap[h] = NoRow

TypeOK == SharedTypes /\ LocalTypes /\ LocalsMatchPc

Running(h) == pc[h] = "run"
Resuming(h) == Running(h) /\ snap[h] # NoRow

(* Prepare takes the per-session mutex before it decides and keeps it until
   the handler returns (service.go:132-147), so one session is never executed
   by two handlers at once, be they resuming it or starting it. *)
OneRunPerSession ==
  \A g, h \in Handler :
    Running(g) /\ Running(h) /\ sid[g] = sid[h] => g = h

(* The recheck under the lock (service.go:136-146): while a handler executes
   a resumed session, the row it restored the engine from is still the row of
   the store, unless it was evicted. *)
ResumedRowIsCurrent ==
  \A h \in Handler :
    Resuming(h) =>
      \/ store[sid[h]] = NoRow
      \/ /\ store[sid[h]].ckpt = snap[h].ckpt
         /\ store[sid[h]].pending = snap[h].pending

(* IsValidResume (session.go:113-133): a run is only resumed by a history that
   extends its checkpoint and brings an output for every call it waits for. *)
ResumedRunHasAllOutputs ==
  \A h \in Handler :
    Resuming(h) =>
      /\ IsStrictPrefix(snap[h].ckpt, msgs[h])
      /\ snap[h].pending # {}
      /\ snap[h].pending \subseteq Answered(msgs[h], Len(snap[h].ckpt))

\* The sessions ts completed with an answer along the history m, oldest first.
AnswersAlong(l, ts, m) ==
  LET answered(i) == Last(l[ts[i]]).ckpt
  IN  /\ \A i \in 1..Len(ts) :
           /\ l[ts[i]] # <<>>
           /\ Last(l[ts[i]]).calls = {}
           /\ Last(l[ts[i]]).text # NoAnswer
           /\ IsPrefix(answered(i), m)
      /\ \A i, j \in 1..Len(ts) : i < j => Len(answered(i)) < Len(answered(j))

(* Persist and IsNewTurn (service.go:189-192, session.go:138-140): a row's turn
   history has at most one final content for each prefix of the history the
   row answers, of a session that was complete with that prefix, shortest
   first.  Whose content that is when several sessions completed the same
   prefix it does not say: TurnHistoryIsOfThisConversation, below, does. *)
TurnHistoryFollowsCheckpoints ==
  \A s \in Rows : AnswersAlong(log, store[s].turns, store[s].ckpt)

(* Every row is the last checkpoint its session committed. *)
RowIsLastCheckpoint ==
  \A s \in Rows :
    /\ log[s] # <<>>
    /\ store[s].ckpt = Last(log[s]).ckpt
    /\ store[s].pending = Last(log[s]).calls

(* A handler that decides under the mutex, or runs or answers for a session it
   resumes, holds the session's mutex. *)
LockHeld ==
  \A h \in Handler :
    \/ pc[h] = "recheck"
    \/ pc[h] \in {"run", "reply"} /\ snap[h] # NoRow
    => locks[sid[h]] = h

(* Whatever session is in use, stored or committed had its id drawn. *)
IdsAreIssued ==
  /\ \A h \in Handler : sid[h] # NoSid => sid[h] \in issued
  /\ Rows \subseteq issued
  /\ \A s \in Sid : log[s] # <<>> => s \in issued

(* A run that started from nothing has its session for itself. *)
FreshRunIsAlone ==
  \A h \in Handler :
    Running(h) /\ snap[h] = NoRow =>
      /\ store[sid[h]] = NoRow
      /\ log[sid[h]] = <<>>
      /\ \A g \in Handler : sid[g] = sid[h] => g = h

(* A resumed run continues the last checkpoint its session committed. *)
ResumedFromLastCheckpoint ==
  \A h \in Handler :
    Resuming(h) =>
      /\ log[sid[h]] # <<>>
      /\ Last(log[sid[h]]).ckpt = snap[h].ckpt
      /\ Last(log[sid[h]]).calls = snap[h].pending

(* A run has the turn history of a shorter history than its own. *)
RunsSeeded ==
  \A h \in Handler :
    Running(h) =>
      /\ AnswersAlong(log, turns[h], msgs[h])
      /\ \A i \in 1..Len(turns[h]) :
           Len(Last(log[turns[h][i]]).ckpt) < Len(msgs[h])

(* The inductive invariant behind the safety properties above; what locks and
   checkpoints promise does not depend on the turn histories. *)
CheckpointsInv ==
  /\ TypeOK
  /\ LockHeld
  /\ IdsAreIssued
  /\ FreshRunIsAlone
  /\ RowIsLastCheckpoint
  /\ ResumedFromLastCheckpoint
  /\ ResumedRunHasAllOutputs

SessionsInv ==
  /\ CheckpointsInv
  /\ TurnHistoryFollowsCheckpoints
  /\ RunsSeeded

(* The store promises what module SessionLog states: a session only grows,
   from its latest checkpoint, by a history that answers its pause. *)
Abstract == INSTANCE SessionLog WITH live <- Rows
ImplementsSessionLog == Abstract!Spec

(* max_sessions bounds the table after every save (sessions.go:136-149). *)
TableBounded == Cardinality(Rows) <= MaxSessions

\* When session v was last used, the save of this step included.
LastUse(v) == IF log'[v] # log[v] THEN clock ELSE store[v].used

(* Saving a session deletes expired rows first, and only if the rest is more
   than max_sessions the least recently used of it (sessions.go:108-149): when
   a row goes that had not expired, the one just saved included, the table is
   left full and with no row that was used earlier. *)
EvictsOldest ==
  [][\A v \in Sid :
       /\ store[v] # NoRow \/ log'[v] # log[v]
       /\ store'[v] = NoRow
       /\ log'[v] = log[v] => ~Expired(store[v])
       => /\ Cardinality(Rows') = MaxSessions
          /\ \A k \in Rows' : LastUse(v) <= store'[k].used]_vars

(* A request is answered: the loop of Prepare ends and no mutex stays locked
   after its handler returned (service.go:123-148, server.go:152). *)
RequestsEnd == \A h \in Handler : []<>(pc[h] = "idle")

-----------------------------------------------------------------------------
(* What the documents say and the code does not do. *)

(* session.go:55-56: turn_history holds "Solo el contenido final de cada
   síntesis ya entregada en turnos previos de esta misma conversación".  So
   each content a run is seeded with stands in the conversation the run
   continues, as the reply to the prefix it was the final content of. *)
TurnHistoryIsOfThisConversation ==
  \A h \in Handler :
    Running(h) =>
      \A i \in 1..Len(turns[h]) :
        LET turn == Last(log[turns[h][i]])
        IN  IsPrefix(Append(turn.ckpt, Reply({}, turn.text)), msgs[h])
=============================================================================
