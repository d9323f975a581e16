------------------------------ MODULE Sessions ------------------------------
(***************************************************************************)
(* The paused-run sessions of the proxy: the SQLite session store          *)
(* (internal/adapters/dbstore/sessions.go), the service that decides       *)
(* whether a request resumes, continues or starts a run                    *)
(* (internal/application/service/service.go, internal/core/session), and   *)
(* the HTTP handlers that drive it (internal/adapters/httpapi/server.go),  *)
(* with any number of requests in flight.                                  *)
(*                                                                         *)
(* A message keeps its role, the tool calls it asks for or answers and, if *)
(* it is a final answer, which one.                                        *)
(* HashChain gives every prefix of a history its own hash, so a checkpoint *)
(* hash is the prefix itself.  What a run computes is left to module       *)
(* Engine: here it pauses on some calls, finishes or fails.                *)
(***************************************************************************)
EXTENDS Naturals, FiniteSets, Sequences, SequencesExt

CONSTANTS
  Handler,      \* goroutines serving POST /v1/chat/completions
  Sid,          \* session ids NewSessionID can draw
  CallId,       \* tool-call ids the upstream can give
  CallSet,      \* the sets of calls a run can pause on
  Answer,       \* final contents a synthesis can have
  NoAnswer,     \* no final content
  NoHandler,    \* nobody holds the mutex
  NoSid,        \* the handler has no session yet
  NoRow,        \* no row, or a run that resumes nothing
  TTL,          \* session_ttl, in ticks of the clock
  MaxSessions,  \* max_sessions
  OldestFirst,  \* which of two equally long checkpoints a query returns
  MaxLen,       \* bound: messages in a request
  MaxClock      \* bound: ticks of the clock

ASSUME ConstantsAssumption ==
  /\ NoHandler \notin Handler
  /\ NoSid \notin Sid
  /\ IsFiniteSet(CallId)
  /\ CallSet \subseteq (SUBSET CallId) \ {{}}
  /\ NoAnswer \notin Answer
  /\ TTL \in Nat \ {0}
  /\ MaxSessions \in Nat \ {0}
  /\ OldestFirst \in BOOLEAN
  /\ MaxLen \in Nat
  /\ MaxClock \in Nat

VARIABLES
  store,    \* table sessions: session id -> row
  clock,    \* the second the next timestamp shows
  locks,    \* session id -> the handler holding its mutex
  pc,       \* where each handler is
  msgs,     \* the messages of its request
  sid,      \* the session it found, resumes or created
  snap,     \* the row it read: PreparedRun.ResumedSession once it runs
  turns,    \* PreparedRun.TurnHistory
  said,     \* the reply its run ended with
  issued,   \* the session ids drawn so far
  replies,  \* histories, each ending in a reply some client received
  log       \* history variable: the checkpoints committed, per session,
            \* each with the final content it was answered with

storeVars == <<store, clock>>
handlerVars == <<pc, msgs, sid, snap, turns, said>>
vars == <<store, clock, locks, pc, msgs, sid, snap, turns, said, issued,
          replies, log>>

-----------------------------------------------------------------------------
(* Messages and rows *)

User == [role |-> "user", calls |-> {}, text |-> NoAnswer]
Reply(C, a) == [role |-> "assistant", calls |-> C, text |-> a]
ToolOutput(c) == [role |-> "tool", calls |-> {c}, text |-> NoAnswer]

Message == [role : {"user", "assistant", "tool"}, calls : SUBSET CallId,
            text : Answer \cup {NoAnswer}]
History == Seq(Message)

\* session.State as the row keeps it.  pending is pending_phase # "" with the
\* pending tool calls; turns stands for turn_history, an entry being the
\* session whose final content it is (log has the content).
Row == [ckpt : History, pending : SUBSET CallId, turns : Seq(Sid),
        used : Nat, rowid : Nat]

ASSUME RowAssumption == NoRow \notin Row

Rows == {s \in Sid : store[s] # NoRow}

\* The calls that a history answers after its first n messages.
Answered(m, n) ==
  UNION {m[i].calls : i \in {j \in (n + 1)..Len(m) : m[j].role = "tool"}}

MUTIsValidResume_AnyOutput(row, m) ==
  /\ Len(m) > Len(row.ckpt)
  /\ row.pending \cap Answered(m, Len(row.ckpt)) # {}

IsValidResume(row, m) ==
  /\ row.pending # {}
  /\ Len(m) > Len(row.ckpt)
  /\ row.pending \subseteq Answered(m, Len(row.ckpt))

MUTIsNewTurn_SameLength(row, m) ==
  /\ row.pending = {}
  /\ Len(m) >= Len(row.ckpt)

IsNewTurn(row, m) ==
  /\ row.pending = {}
  /\ Len(m) > Len(row.ckpt)

-----------------------------------------------------------------------------
(* The store *)

\* last_used_at < ttlCutoff(ttl)
Expired(row) == row.used + TTL < clock

Matching(m) ==
  {s \in Rows : /\ store[s].ckpt # <<>>
                /\ IsPrefix(store[s].ckpt, m)
                /\ ~Expired(store[s])}

\* ORDER BY checkpoint_len DESC; SQL leaves the order of ties to the build.
Ahead(r, q) ==
  \/ Len(r.ckpt) > Len(q.ckpt)
  \/ /\ Len(r.ckpt) = Len(q.ckpt)
     /\ IF OldestFirst THEN r.rowid < q.rowid ELSE r.rowid > q.rowid

\* At most one session: the first row of the query.
FindMatching(m) ==
  {s \in Matching(m) : \A t \in Matching(m) : ~Ahead(store[t], store[s])}

Resumable(m) == {s \in FindMatching(m) : IsValidResume(store[s], m)}

\* An upsert keeps the row's rowid, an insert takes the next one.
RowIds(s) ==
  IF store[s] # NoRow
    THEN {store[s].rowid}
    ELSE {n \in {1} \cup {store[t].rowid + 1 : t \in Rows} :
            \A t \in Rows : store[t].rowid < n}

MUTEvictable_OneTooMany(table, V) ==
  LET kept == {s \in Sid : table[s] # NoRow}
  IN  /\ V \subseteq kept
      /\ Cardinality(V) = IF Cardinality(kept) > MaxSessions + 1
                            THEN Cardinality(kept) - MaxSessions ELSE 0
      /\ \A v \in V, k \in kept \ V : table[v].used <= table[k].used

MUTEvictable_WhenFull(table, V) ==
  LET kept == {s \in Sid : table[s] # NoRow}
  IN  /\ V \subseteq kept
      /\ Cardinality(V) = IF Cardinality(kept) >= MaxSessions
                            THEN Cardinality(kept) - MaxSessions + 1 ELSE 0
      /\ \A v \in V, k \in kept \ V : table[v].used <= table[k].used

\* DELETE ... ORDER BY last_used_at ASC LIMIT overflow, ties in any order.
Evictable(table, V) ==
  LET kept == {s \in Sid : table[s] # NoRow}
  IN  /\ V \subseteq kept
      /\ Cardinality(V) = IF Cardinality(kept) > MaxSessions
                            THEN Cardinality(kept) - MaxSessions ELSE 0
      /\ \A v \in V, k \in kept \ V : table[v].used <= table[k].used

Without(table, V) == [s \in Sid |-> IF s \in V THEN NoRow ELSE table[s]]

\* INSERT OR IGNORE: a session that has a row keeps it.
MUTSave_InsertOnly(s, m, C, ts) ==
  IF store[s] # NoRow
    THEN UNCHANGED store
    ELSE \E n \in RowIds(s) :
           store' = [store EXCEPT ![s] =
                       [ckpt |-> m, pending |-> C, turns |-> ts,
                        used |-> clock, rowid |-> n]]

\* saveAndEvict: upsert, TTL delete and overflow delete in one transaction.
Save(s, m, C, ts) ==
  \E n \in RowIds(s) :
    LET row == [ckpt |-> m, pending |-> C, turns |-> ts,
                used |-> clock, rowid |-> n]
        upserted == [store EXCEPT ![s] = row]
        current == Without(upserted, {t \in Rows \ {s} : Expired(store[t])})
    IN  \E V \in SUBSET Sid :
          /\ Evictable(current, V)
          /\ store' = Without(current, V)
-----------------------------------------------------------------------------
(* Handlers *)

Init ==
  /\ store = [s \in Sid |-> NoRow]
  /\ clock = 0
  /\ locks = [s \in Sid |-> NoHandler]
  /\ pc = [h \in Handler |-> "idle"]
  /\ msgs = [h \in Handler |-> <<>>]
  /\ sid = [h \in Handler |-> NoSid]
  /\ snap = [h \in Handler |-> NoRow]
  /\ turns = [h \in Handler |-> <<>>]
  /\ said = [h \in Handler |-> Reply({}, NoAnswer)]
  /\ issued = {}
  /\ replies = {}
  /\ log = [s \in Sid |-> <<>>]

\* What clients send: an opening message (also again: a retry or a second
\* client), or a reply they received followed by outputs of some of its calls
\* in any order, by a user message, or by both.
NextTurns(r) ==
  LET outputs == {[i \in 1..Len(q) |-> ToolOutput(q[i])] :
                    q \in SetToAllKPermutations(Last(r).calls)}
  IN  {r \o t : t \in outputs \ {<<>>}} \cup {Append(r \o t, User) : t \in outputs}

Sendable == {<<User>>} \cup UNION {NextTurns(r) : r \in replies}

Accept(h) ==
  /\ pc[h] = "idle"
  /\ \E m \in Sendable :
       /\ Len(m) <= MaxLen
       /\ msgs' = [msgs EXCEPT ![h] = m]
  /\ pc' = [pc EXCEPT ![h] = "find"]
  /\ UNCHANGED <<storeVars, locks, sid, snap, turns, said, issued, replies, log>>

\* The handler's locals go with it.
Forget(h) ==
  /\ pc' = [pc EXCEPT ![h] = "idle"]
  /\ msgs' = [msgs EXCEPT ![h] = <<>>]
  /\ sid' = [sid EXCEPT ![h] = NoSid]
  /\ snap' = [snap EXCEPT ![h] = NoRow]
  /\ turns' = [turns EXCEPT ![h] = <<>>]
  /\ said' = [said EXCEPT ![h] = Reply({}, NoAnswer)]

\* The handler returns; Release, or the error path of Prepare, unlocks.
Return(h) ==
  /\ Forget(h)
  /\ locks' = [s \in Sid |->
                 IF s = sid[h] /\ locks[s] = h THEN NoHandler ELSE locks[s]]

\* Prepare: a session to resume was found; its mutex comes first.
FindResumable(h) ==
  /\ pc[h] = "find"
  /\ \E s \in Resumable(msgs[h]) :
       /\ sid' = [sid EXCEPT ![h] = s]
       /\ snap' = [snap EXCEPT ![h] = store[s]]
  /\ pc' = [pc EXCEPT ![h] = "lock"]
  /\ UNCHANGED <<storeVars, locks, msgs, turns, said, issued, replies, log>>

\* prepareFreshOrNewTurn: a new session, seeded with the turns of the
\* completed session that was found, if one was.  Bound: once all of Sid is
\* issued, a request that needs a new session can only fail.
StartFresh(h) ==
  /\ pc[h] = "find"
  /\ Resumable(msgs[h]) = {}
  /\ \E s \in Sid \ issued :
       /\ sid' = [sid EXCEPT ![h] = s]
       /\ issued' = issued \cup {s}
  /\ \/ \E s \in FindMatching(msgs[h]) :
          /\ IsNewTurn(store[s], msgs[h])
          /\ turns' = [turns EXCEPT ![h] = store[s].turns]
     \/ /\ \A s \in FindMatching(msgs[h]) : ~IsNewTurn(store[s], msgs[h])
        /\ turns' = [turns EXCEPT ![h] = <<>>]
  /\ pc' = [pc EXCEPT ![h] = "run"]
  /\ UNCHANGED <<storeVars, locks, msgs, snap, said, replies, log>>

MUTLock_IgnoresHolder(h) ==
  /\ pc[h] = "lock"
  /\ locks' = [locks EXCEPT ![sid[h]] = h]
  /\ pc' = [pc EXCEPT ![h] = "recheck"]
  /\ UNCHANGED <<storeVars, msgs, sid, snap, turns, said, issued, replies, log>>

Lock(h) ==
  /\ pc[h] = "lock"
  /\ locks[sid[h]] = NoHandler
  /\ locks' = [locks EXCEPT ![sid[h]] = h]
  /\ pc' = [pc EXCEPT ![h] = "recheck"]
  /\ UNCHANGED <<storeVars, msgs, sid, snap, turns, said, issued, replies, log>>

\* sameResumeCheckpoint(state, recheck) /\ IsValidResume(recheck, messages)
StillCurrent(h, s) ==
  /\ s = sid[h]
  /\ store[s].ckpt = snap[h].ckpt
  /\ IsValidResume(store[s], msgs[h])

\* Prepare unlocks before it returns the run.
MUTRecheckResumes_EarlyUnlock(h) ==
  /\ pc[h] = "recheck"
  /\ \E s \in FindMatching(msgs[h]) :
       /\ StillCurrent(h, s)
       /\ snap' = [snap EXCEPT ![h] = store[s]]
       /\ turns' = [turns EXCEPT ![h] = store[s].turns]
       /\ locks' = [locks EXCEPT ![s] = NoHandler]
  /\ pc' = [pc EXCEPT ![h] = "run"]
  /\ UNCHANGED <<storeVars, msgs, sid, said, issued, replies, log>>

\* buildResumeRun: the run keeps the mutex.
RecheckResumes(h) ==
  /\ pc[h] = "recheck"
  /\ \E s \in FindMatching(msgs[h]) :
       /\ StillCurrent(h, s)
       /\ snap' = [snap EXCEPT ![h] = store[s]]
       /\ turns' = [turns EXCEPT ![h] = store[s].turns]
  /\ pc' = [pc EXCEPT ![h] = "run"]
  /\ UNCHANGED <<storeVars, locks, msgs, sid, said, issued, replies, log>>

\* Somebody else went on with the session meanwhile: decide again.
RecheckStale(h) ==
  /\ pc[h] = "recheck"
  /\ \A s \in FindMatching(msgs[h]) : ~StillCurrent(h, s)
  /\ locks' = [locks EXCEPT ![sid[h]] = NoHandler]
  /\ sid' = [sid EXCEPT ![h] = NoSid]
  /\ snap' = [snap EXCEPT ![h] = NoRow]
  /\ pc' = [pc EXCEPT ![h] = "find"]
  /\ UNCHANGED <<storeVars, msgs, turns, said, issued, replies, log>>

\* The error path of the recheck forgets to unlock.
MUTPrepareFails_KeepsLock(h) ==
  /\ pc[h] \in {"find", "recheck"}
  /\ Forget(h)
  /\ UNCHANGED <<storeVars, locks, issued, replies, log>>

\* A query of Prepare fails: the handler answers 500.
PrepareFails(h) ==
  /\ pc[h] \in {"find", "recheck"}
  /\ Return(h)
  /\ UNCHANGED <<storeVars, issued, replies, log>>

\* Persist, for a run that paused on the calls C or completed (no calls) with
\* the final content a.
Persist(h, C, a, ts) ==
  /\ pc[h] = "run"
  /\ Save(sid[h], msgs[h], C, ts)
  /\ log' = [log EXCEPT ![sid[h]] =
               Append(@, [ckpt |-> msgs[h], calls |-> C, text |-> a])]
  /\ said' = [said EXCEPT ![h] = Reply(C, a)]
  /\ pc' = [pc EXCEPT ![h] = "reply"]
  /\ UNCHANGED <<clock, locks, msgs, sid, snap, turns, issued, replies>>

\* The run paused: the pause is saved before the client hears of it.
Pause(h) ==
  \E C \in CallSet : Persist(h, C, NoAnswer, turns[h])

\* The run completed, with or without final content.
Finish(h) ==
  \/ Persist(h, {}, NoAnswer, turns[h])
  \/ \E a \in Answer : Persist(h, {}, a, Append(turns[h], sid[h]))

\* The upstream or the save failed, or the client left: nothing is saved.
RunFails(h) ==
  /\ pc[h] = "run"
  /\ Return(h)
  /\ UNCHANGED <<storeVars, issued, replies, log>>

Deliver(h) ==
  /\ pc[h] = "reply"
  /\ replies' = replies \cup {Append(msgs[h], said[h])}
  /\ Return(h)
  /\ UNCHANGED <<storeVars, issued, log>>

\* The client is gone, the write fails: the row is saved all the same.
ReplyLost(h) ==
  /\ pc[h] = "reply"
  /\ Return(h)
  /\ UNCHANGED <<storeVars, issued, replies, log>>

\* The process dies or is stopped: the database keeps what was committed.
Restart ==
  /\ pc' = [h \in Handler |-> "idle"]
  /\ msgs' = [h \in Handler |-> <<>>]
  /\ sid' = [h \in Handler |-> NoSid]
  /\ snap' = [h \in Handler |-> NoRow]
  /\ turns' = [h \in Handler |-> <<>>]
  /\ said' = [h \in Handler |-> Reply({}, NoAnswer)]
  /\ locks' = [s \in Sid |-> NoHandler]
  /\ UNCHANGED <<storeVars, issued, replies, log>>

Tick ==
  /\ clock < MaxClock
  /\ clock' = clock + 1
  /\ UNCHANGED <<store, locks, handlerVars, issued, replies, log>>

Work(h) ==
  \/ FindResumable(h) \/ StartFresh(h) \/ PrepareFails(h)
  \/ RecheckResumes(h) \/ RecheckStale(h)
  \/ Pause(h) \/ Finish(h) \/ RunFails(h)
  \/ Deliver(h) \/ ReplyLost(h)

Next ==
  \/ \E h \in Handler : Accept(h) \/ Lock(h) \/ Work(h)
  \/ Restart
  \/ Tick

Spec == Init /\ [][Next]_vars

\* A handler never stops on its own (the upstream client has a timeout), and
\* sync.Mutex hands itself to a waiter that has starved.
FairSpec ==
  Spec /\ \A h \in Handler : WF_vars(Work(h)) /\ SF_vars(Lock(h))
=============================================================================
