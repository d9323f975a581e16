--------------------------- MODULE SessionsProofs ---------------------------
(***************************************************************************)
(* Proofs about module Sessions, for every number of handlers, sessions    *)
(* and calls, any table size, TTL and order of ties; and about module      *)
(* Proxy, whose handlers run engines on these sessions.                    *)
(***************************************************************************)
EXTENDS ProxyProps, DataFacts, FiniteSetTheorems, TLAPS

-----------------------------------------------------------------------------
(* Typing lemmas *)

\* What a run answers with.
Final == Answer \cup {NoAnswer}

(* A reply is a message. *)
LEMMA ReplyType ==
  ASSUME NEW C \in SUBSET CallId, NEW a \in Final
  PROVE  Reply(C, a) \in Message
BY DEF Reply, Message, Final

(* A client's next message is a history again: a reply it received, followed
   by tool outputs and possibly a user message. *)
LEMMA SendableType ==
  ASSUME replies \in SUBSET (History \ {<<>>})
  PROVE  Sendable \subseteq History \ {<<>>}
<1>1. <<User>> \in History \ {<<>>}
  BY DEF User, History, Message
<1>2. ASSUME NEW r \in replies PROVE NextTurns(r) \subseteq History \ {<<>>}
  <2>1. r \in Seq(Message) /\ Len(r) \in Nat /\ Len(r) > 0
    BY DEF History
  <2>2. Last(r).calls \in SUBSET CallId
    <3>1. r[Len(r)] \in Message
      BY <2>1
    <3>. QED  BY <3>1 DEF Last, Message
  <2>3. ASSUME NEW q \in SetToAllKPermutations(Last(r).calls)
        PROVE  [i \in 1..Len(q) |-> ToolOutput(q[i])] \in Seq(Message)
    <3>1. PICK S \in SUBSET Last(r).calls : q \in [1..Cardinality(S) -> S]
      BY DEF SetToAllKPermutations, SetToSeqs
    <3>2. IsFiniteSet(S)
      BY <2>2, <3>1, FS_Subset, ConstantsAssumption
    <3>3. Cardinality(S) \in Nat
      BY <3>2, FS_CardinalityType
    <3>4. q \in Seq(CallId)
      BY <2>2, <3>1, <3>3
    <3>5. \A i \in 1..Len(q) : ToolOutput(q[i]) \in Message
      BY <3>4 DEF ToolOutput, Message
    <3>. QED  BY <3>4, <3>5
  <2>4. User \in Message
    BY DEF User, Message
  <2>5. ASSUME NEW t \in Seq(Message)
        PROVE  /\ t # <<>> => r \o t \in History \ {<<>>}
               /\ Append(r \o t, User) \in History \ {<<>>}
    BY <2>1, <2>4 DEF History
  <2>. QED  BY <2>3, <2>5 DEF NextTurns
<1>. QED  BY <1>1, <1>2 DEF Sendable

(* Row numbers are naturals. *)
LEMMA RowIdsType ==
  ASSUME store \in [Sid -> Row \cup {NoRow}], NEW s \in Sid
  PROVE  RowIds(s) \subseteq Nat
BY DEF RowIds, Rows, Row

(* Saving session s leaves every other row as it was or removes it, and s
   itself with the new row or with none. *)
LEMMA SaveRows ==
  ASSUME store \in [Sid -> Row \cup {NoRow}], clock \in Nat,
         NEW s \in Sid, NEW m \in History, NEW C \in SUBSET CallId,
         NEW ts \in Seq(Sid), Save(s, m, C, ts)
  PROVE  /\ store' \in [Sid -> Row \cup {NoRow}]
         /\ \A t \in Sid \ {s} : store'[t] \in {store[t], NoRow}
         /\ \/ store'[s] = NoRow
            \/ /\ store'[s] \in Row
               /\ store'[s].ckpt = m
               /\ store'[s].pending = C
               /\ store'[s].turns = ts
<1>1. RowIds(s) \subseteq Nat
  BY RowIdsType
<1>2. PICK n \in RowIds(s), W \in SUBSET Sid, V \in SUBSET Sid :
        LET row == [ckpt |-> m, pending |-> C, turns |-> ts,
                    used |-> clock, rowid |-> n]
        IN  store' = Without(Without([store EXCEPT ![s] = row], W), V)
  BY DEF Save, Rows
<1>3. DEFINE row == [ckpt |-> m, pending |-> C, turns |-> ts,
                     used |-> clock, rowid |-> n]
<1>4. row \in Row
  BY <1>1 DEF Row
<1>. QED  BY <1>2, <1>4 DEF Without

-----------------------------------------------------------------------------
(* Type correctness *)

LEMMA InitType == Init => TypeOK
<1>1. Reply({}, NoAnswer) \in Message
  BY ReplyType DEF Final
<1>. QED
  BY <1>1, ConstantsAssumption
  DEF Init, TypeOK, SharedTypes, LocalTypes, LocalsMatchPc, History

(* Every step keeps the shape of the state. *)
LEMMA NextType == TypeOK /\ [Next]_vars => TypeOK'
<1> SUFFICES ASSUME TypeOK, [Next]_vars PROVE TypeOK'
  OBVIOUS
<1>0. /\ SharedTypes /\ LocalTypes /\ LocalsMatchPc
      /\ <<>> \in History /\ <<>> \in Seq(Sid)
      /\ NoSid \notin Sid
      /\ Reply({}, NoAnswer) \in Message
  BY ConstantsAssumption, ReplyType DEF TypeOK, History, Final
<1>1. ASSUME NEW h \in Handler, Accept(h) PROVE TypeOK'
  <2>1. PICK m \in Sendable : msgs' = [msgs EXCEPT ![h] = m]
    BY <1>1 DEF Accept
  <2>2. m \in History
    BY <1>0, <2>1, SendableType DEF SharedTypes
  <2>3. SharedTypes'
    BY <1>0, <1>1 DEF Accept, SharedTypes, storeVars
  <2>4. LocalTypes'
    BY <1>0, <1>1, <2>1, <2>2 DEF Accept, LocalTypes
  <2>5. LocalsMatchPc'
    BY <1>0, <1>1 DEF Accept, LocalTypes, LocalsMatchPc
  <2>. QED  BY <2>3, <2>4, <2>5 DEF TypeOK
<1>2. ASSUME NEW h \in Handler, FindResumable(h) PROVE TypeOK'
  <2>1. PICK s \in Sid : /\ store[s] # NoRow
                         /\ sid' = [sid EXCEPT ![h] = s]
                         /\ snap' = [snap EXCEPT ![h] = store[s]]
    BY <1>2 DEF FindResumable, Resumable, FindMatching, Matching, Rows
  <2>3. SharedTypes'
    BY <1>0, <1>2 DEF FindResumable, SharedTypes, storeVars
  <2>4. LocalTypes'
    BY <1>0, <1>2, <2>1 DEF FindResumable, LocalTypes, SharedTypes
  <2>5. LocalsMatchPc'
    BY <1>0, <1>2, <2>1 DEF FindResumable, LocalTypes, LocalsMatchPc
  <2>. QED  BY <2>3, <2>4, <2>5 DEF TypeOK
<1>3. ASSUME NEW h \in Handler, StartFresh(h) PROVE TypeOK'
  <2>1. PICK s \in Sid : sid' = [sid EXCEPT ![h] = s] /\ issued' = issued \cup {s}
    BY <1>3 DEF StartFresh
  <2>2. PICK ts \in Seq(Sid) : turns' = [turns EXCEPT ![h] = ts]
    <3>1. \A t \in FindMatching(msgs[h]) : store[t] \in Row
      BY <1>0 DEF SharedTypes, FindMatching, Matching, Rows
    <3>2. \A t \in FindMatching(msgs[h]) : store[t].turns \in Seq(Sid)
      BY <3>1 DEF Row
    <3>. QED  BY <1>0, <1>3, <3>2 DEF StartFresh
  <2>3. SharedTypes'
    BY <1>0, <1>3, <2>1 DEF StartFresh, SharedTypes, storeVars
  <2>4. LocalTypes'
    BY <1>0, <1>3, <2>1, <2>2 DEF StartFresh, LocalTypes
  <2>5. LocalsMatchPc'
    BY <1>0, <1>3, <2>1 DEF StartFresh, LocalTypes, LocalsMatchPc
  <2>. QED  BY <2>3, <2>4, <2>5 DEF TypeOK
<1>4. ASSUME NEW h \in Handler, Lock(h) PROVE TypeOK'
  <2>1. SharedTypes'
    BY <1>0, <1>4 DEF Lock, SharedTypes, storeVars
  <2>2. LocalTypes'
    BY <1>0, <1>4 DEF Lock, LocalTypes
  <2>3. LocalsMatchPc'
    BY <1>0, <1>4 DEF Lock, LocalTypes, LocalsMatchPc
  <2>. QED  BY <2>1, <2>2, <2>3 DEF TypeOK
<1>5. ASSUME NEW h \in Handler, RecheckResumes(h) PROVE TypeOK'
  <2>1. PICK s \in Sid : /\ store[s] # NoRow
                         /\ snap' = [snap EXCEPT ![h] = store[s]]
                         /\ turns' = [turns EXCEPT ![h] = store[s].turns]
    BY <1>5 DEF RecheckResumes, FindMatching, Matching, Rows
  <2>2. store[s] \in Row /\ store[s].turns \in Seq(Sid)
    BY <1>0, <2>1 DEF SharedTypes, Row
  <2>3. SharedTypes'
    BY <1>0, <1>5 DEF RecheckResumes, SharedTypes, storeVars
  <2>4. LocalTypes'
    BY <1>0, <1>5, <2>1, <2>2 DEF RecheckResumes, LocalTypes
  <2>5. LocalsMatchPc'
    BY <1>0, <1>5, <2>1 DEF RecheckResumes, LocalTypes, LocalsMatchPc
  <2>. QED  BY <2>3, <2>4, <2>5 DEF TypeOK
<1>6. ASSUME NEW h \in Handler, RecheckStale(h) PROVE TypeOK'
  <2>1. SharedTypes'
    BY <1>0, <1>6 DEF RecheckStale, SharedTypes, storeVars
  <2>2. LocalTypes'
    BY <1>0, <1>6 DEF RecheckStale, LocalTypes
  <2>3. LocalsMatchPc'
    BY <1>0, <1>6 DEF RecheckStale, LocalTypes, LocalsMatchPc
  <2>. QED  BY <2>1, <2>2, <2>3 DEF TypeOK
<1>7. ASSUME NEW h \in Handler, Return(h), UNCHANGED <<storeVars, issued, log>>,
             replies' \in SUBSET (History \ {<<>>})
      PROVE  TypeOK'
  <2>1. SharedTypes'
    BY <1>0, <1>7 DEF Return, SharedTypes, storeVars
  <2>2. LocalTypes'
    BY <1>0, <1>7 DEF Return, Forget, LocalTypes
  <2>3. LocalsMatchPc'
    BY <1>0, <1>7 DEF Return, Forget, LocalTypes, LocalsMatchPc
  <2>. QED  BY <2>1, <2>2, <2>3 DEF TypeOK
<1>8. ASSUME NEW h \in Handler, PrepareFails(h) \/ RunFails(h) \/ ReplyLost(h)
      PROVE  TypeOK'
  BY <1>0, <1>7, <1>8 DEF PrepareFails, RunFails, ReplyLost, SharedTypes
<1>9. ASSUME NEW h \in Handler, Deliver(h) PROVE TypeOK'
  <2>1. Append(msgs[h], said[h]) \in History \ {<<>>}
    <3>1. said[h] \in Message
      BY <1>0 DEF LocalTypes
    <3>2. msgs[h] \in Seq(Message)
      BY <1>0 DEF LocalTypes, History
    <3>. QED  BY <3>1, <3>2 DEF History
  <2>. QED  BY <1>0, <1>7, <1>9, <2>1 DEF Deliver, SharedTypes
<1>10. ASSUME NEW h \in Handler, Pause(h) \/ Finish(h) PROVE TypeOK'
  <2>1. pc[h] = "run" /\ sid[h] \in Sid /\ msgs[h] \in History
    BY <1>0, <1>10 DEF Pause, Finish, Persist, LocalTypes, LocalsMatchPc
  <2>2. PICK C \in SUBSET CallId, a \in Final, ts \in Seq(Sid) : Persist(h, C, a, ts)
    <3>1. turns[h] \in Seq(Sid) /\ Append(turns[h], sid[h]) \in Seq(Sid)
      BY <1>0, <2>1 DEF LocalTypes
    <3>2. CallSet \subseteq SUBSET CallId
      BY ConstantsAssumption
    <3>. QED  BY <1>10, <3>1, <3>2 DEF Pause, Finish, Final
  <2>3. store' \in [Sid -> Row \cup {NoRow}]
    BY <1>0, <2>1, <2>2, SaveRows DEF Persist, SharedTypes
  <2>4. log' \in [Sid -> Seq(Ckpt)]
    <3>1. log[sid[h]] \in Seq(Ckpt)
      BY <1>0, <2>1 DEF SharedTypes
    <3>2. Append(log[sid[h]], [ckpt |-> msgs[h], calls |-> C, text |-> a])
            \in Seq(Ckpt)
      <4>1. [ckpt |-> msgs[h], calls |-> C, text |-> a] \in Ckpt
        BY <2>1, <2>2 DEF Ckpt, Final
      <4>. QED  BY <3>1, <4>1
    <3>. QED  BY <1>0, <2>2, <3>2 DEF Persist, SharedTypes
  <2>5. SharedTypes'
    BY <1>0, <2>2, <2>3, <2>4 DEF Persist, SharedTypes
  <2>6. LocalTypes'
    <3>1. Reply(C, a) \in Message
      BY <2>2, ReplyType
    <3>. QED  BY <1>0, <2>2, <3>1 DEF Persist, LocalTypes
  <2>7. LocalsMatchPc'
    BY <1>0, <2>1, <2>2 DEF Persist, LocalTypes, LocalsMatchPc
  <2>. QED  BY <2>5, <2>6, <2>7 DEF TypeOK
<1>11. CASE Restart
  <2>1. SharedTypes'
    BY <1>0, <1>11 DEF Restart, SharedTypes, storeVars
  <2>2. LocalTypes' /\ LocalsMatchPc'
    BY <1>0, <1>11 DEF Restart, LocalTypes, LocalsMatchPc
  <2>. QED  BY <2>1, <2>2 DEF TypeOK
<1>12. CASE Tick
  <2>1. SharedTypes'
    <3>1. clock' \in Nat
      BY <1>0, <1>12 DEF Tick, SharedTypes
    <3>2. UNCHANGED <<store, locks, issued, replies, log>>
      BY <1>12 DEF Tick
    <3>. QED  BY <1>0, <3>1, <3>2 DEF SharedTypes
  <2>2. LocalTypes' /\ LocalsMatchPc'
    BY <1>0, <1>12 DEF Tick, handlerVars, LocalTypes, LocalsMatchPc
  <2>. QED  BY <2>1, <2>2 DEF TypeOK
<1>13. CASE UNCHANGED vars
  BY <1>0, <1>13 DEF TypeOK, SharedTypes, LocalTypes, LocalsMatchPc, vars
<1>. QED
  BY <1>1, <1>2, <1>3, <1>4, <1>5, <1>6, <1>8, <1>9, <1>10, <1>11, <1>12, <1>13
  DEF Next, Work

(* The tables, locks and handlers keep their shape in every behaviour, for all
   values of the constants. *)
THEOREM TypeCorrect == Spec => []TypeOK
BY InitType, NextType, PTL DEF Spec

-----------------------------------------------------------------------------
(* The inductive invariant *)

(* The last element of a sequence that was just extended. *)
LEMMA AppendLast ==
  ASSUME NEW S, NEW q \in Seq(S), NEW e \in S
  PROVE  Append(q, e) # <<>> /\ Last(Append(q, e)) = e
BY DEF Last

LEMMA InitInv == Init => CheckpointsInv
<1> SUFFICES ASSUME Init PROVE CheckpointsInv
  OBVIOUS
<1>1. TypeOK
  BY InitType
<1>2. LockHeld /\ IdsAreIssued /\ FreshRunIsAlone /\ ResumedFromLastCheckpoint
      /\ ResumedRunHasAllOutputs /\ RowIsLastCheckpoint
  BY DEF Init, LockHeld, IdsAreIssued, FreshRunIsAlone, Running, Resuming,
         ResumedFromLastCheckpoint, ResumedRunHasAllOutputs,
         RowIsLastCheckpoint, Rows
<1>. QED  BY <1>1, <1>2 DEF CheckpointsInv

(* A step that leaves the tables alone and makes nobody run or recheck keeps
   everything but the types and the locks. *)
LEMMA QuietStep ==
  ASSUME CheckpointsInv, LocalTypes',
         UNCHANGED <<store, log>>, issued \subseteq issued',
         \A h \in Handler :
           /\ pc'[h] = "run" => /\ pc[h] = "run"
                                /\ UNCHANGED <<sid[h], snap[h], msgs[h]>>
           /\ sid'[h] \in {sid[h], NoSid} \cup Rows
  PROVE  /\ IdsAreIssued' /\ FreshRunIsAlone' /\ RowIsLastCheckpoint'
         /\ ResumedFromLastCheckpoint' /\ ResumedRunHasAllOutputs'
<1>0. /\ IdsAreIssued /\ FreshRunIsAlone /\ RowIsLastCheckpoint
      /\ ResumedFromLastCheckpoint /\ ResumedRunHasAllOutputs
      /\ LocalTypes /\ LocalsMatchPc
  BY DEF CheckpointsInv, TypeOK
<1>1. IdsAreIssued'
  BY <1>0 DEF IdsAreIssued, Rows
<1>2. FreshRunIsAlone'
  <2> SUFFICES ASSUME NEW h \in Handler, Running(h)', snap'[h] = NoRow,
                      NEW g \in Handler, sid'[g] = sid'[h], g # h
               PROVE  FALSE
    BY <1>0 DEF FreshRunIsAlone, Running
  <2>1. Running(h) /\ sid'[h] = sid[h] /\ snap[h] = NoRow
    BY DEF Running
  <2>2. sid[h] # NoSid
    BY <1>0, <2>1 DEF Running, LocalsMatchPc
  <2>3. store[sid[h]] = NoRow /\ sid[g] # sid[h]
    BY <1>0, <2>1 DEF FreshRunIsAlone
  <2>. QED  BY <2>1, <2>2, <2>3 DEF Rows
<1>3. RowIsLastCheckpoint'
  BY <1>0 DEF RowIsLastCheckpoint, Rows
<1>4. ResumedFromLastCheckpoint' /\ ResumedRunHasAllOutputs'
  BY <1>0 DEF ResumedFromLastCheckpoint, ResumedRunHasAllOutputs, Resuming, Running
<1>. QED  BY <1>1, <1>2, <1>3, <1>4

(* Every step preserves the invariant. *)
LEMMA NextInv == CheckpointsInv /\ [Next]_vars => CheckpointsInv'
<1> SUFFICES ASSUME CheckpointsInv, [Next]_vars PROVE CheckpointsInv'
  OBVIOUS
<1>0. /\ SharedTypes /\ LocalTypes /\ LocalsMatchPc /\ LockHeld
      /\ IdsAreIssued /\ FreshRunIsAlone /\ RowIsLastCheckpoint
      /\ ResumedFromLastCheckpoint /\ ResumedRunHasAllOutputs
      /\ TypeOK' /\ LocalTypes' /\ SharedTypes' /\ LocalsMatchPc'
      /\ NoSid \notin Sid /\ NoHandler \notin Handler
  BY NextType, ConstantsAssumption DEF CheckpointsInv, TypeOK
<1>1. ASSUME NEW h \in Handler, Accept(h) PROVE CheckpointsInv'
  <2>1. LockHeld'
    BY <1>0, <1>1 DEF Accept, LockHeld, LocalTypes
  <2>. QED
    BY <1>0, <1>1, <2>1, QuietStep
    DEF Accept, CheckpointsInv, LocalTypes, storeVars
<1>2. ASSUME NEW h \in Handler, FindResumable(h) PROVE CheckpointsInv'
  <2>1. PICK s \in Rows : sid' = [sid EXCEPT ![h] = s]
    BY <1>2 DEF FindResumable, Resumable, FindMatching, Matching
  <2>2. LockHeld'
    BY <1>0, <1>2 DEF FindResumable, LockHeld, LocalTypes
  <2>. QED
    BY <1>0, <1>2, <2>1, <2>2, QuietStep
    DEF FindResumable, CheckpointsInv, LocalTypes, storeVars
<1>3. ASSUME NEW h \in Handler, StartFresh(h) PROVE CheckpointsInv'
  <2>1. PICK s \in Sid \ issued : /\ sid' = [sid EXCEPT ![h] = s]
                                  /\ issued' = issued \cup {s}
    BY <1>3 DEF StartFresh
  <2>2. /\ pc' = [pc EXCEPT ![h] = "run"]
        /\ UNCHANGED <<store, log, snap, msgs, locks>>
        /\ pc[h] = "find" /\ snap[h] = NoRow
    BY <1>0, <1>3 DEF StartFresh, storeVars, LocalsMatchPc
  <2>3. \A g \in Handler : sid[g] # s
    BY <1>0, <2>1 DEF IdsAreIssued
  <2>4. store[s] = NoRow /\ log[s] = <<>>
    BY <1>0, <2>1 DEF IdsAreIssued, Rows
  <2>5. LockHeld'
    BY <1>0, <2>1, <2>2 DEF LockHeld, LocalTypes
  <2>6. IdsAreIssued'
    BY <1>0, <2>1, <2>2 DEF IdsAreIssued, LocalTypes, Rows
  <2>7. FreshRunIsAlone'
    BY <1>0, <2>1, <2>2, <2>3, <2>4 DEF FreshRunIsAlone, Running, LocalTypes
  <2>8. RowIsLastCheckpoint'
    BY <1>0, <2>2 DEF RowIsLastCheckpoint, Rows
  <2>9. ResumedFromLastCheckpoint' /\ ResumedRunHasAllOutputs'
    BY <1>0, <2>1, <2>2
    DEF ResumedFromLastCheckpoint, ResumedRunHasAllOutputs, Resuming, Running,
        LocalTypes
  <2>. QED  BY <1>0, <2>5, <2>6, <2>7, <2>8, <2>9 DEF CheckpointsInv
<1>4. ASSUME NEW h \in Handler, Lock(h) PROVE CheckpointsInv'
  <2>1. LockHeld'
    BY <1>0, <1>4 DEF Lock, LockHeld, LocalTypes, LocalsMatchPc, SharedTypes
  <2>. QED
    BY <1>0, <1>4, <2>1, QuietStep DEF Lock, CheckpointsInv, LocalTypes, storeVars
<1>5. ASSUME NEW h \in Handler, RecheckResumes(h) PROVE CheckpointsInv'
  <2>1. PICK s \in Rows :
          /\ s = sid[h]
          /\ IsPrefix(store[s].ckpt, msgs[h])
          /\ IsValidResume(store[s], msgs[h])
          /\ snap' = [snap EXCEPT ![h] = store[s]]
    BY <1>5 DEF RecheckResumes, StillCurrent, FindMatching, Matching
  <2>2. /\ pc' = [pc EXCEPT ![h] = "run"]
        /\ UNCHANGED <<store, log, sid, msgs, locks, issued>>
        /\ pc[h] = "recheck" /\ locks[sid[h]] = h
    BY <1>0, <1>5 DEF RecheckResumes, storeVars, LockHeld
  <2>3. store[s] # NoRow /\ snap'[h] = store[s]
    BY <1>0, <2>1 DEF Rows, LocalTypes
  <2>4. IsStrictPrefix(store[s].ckpt, msgs[h])
    BY <2>1 DEF IsValidResume, IsStrictPrefix
  <2>5. LockHeld'
    BY <1>0, <2>1, <2>2 DEF LockHeld, LocalTypes
  <2>6. IdsAreIssued'
    BY <1>0, <2>2 DEF IdsAreIssued, Rows
  <2>7. FreshRunIsAlone'
    BY <1>0, <2>1, <2>2, <2>3 DEF FreshRunIsAlone, Running, LocalTypes
  <2>8. RowIsLastCheckpoint'
    BY <1>0, <2>2 DEF RowIsLastCheckpoint, Rows
  <2>9. ResumedFromLastCheckpoint'
    BY <1>0, <2>1, <2>2, <2>3
    DEF ResumedFromLastCheckpoint, Resuming, Running, LocalTypes,
        RowIsLastCheckpoint
  <2>10. ResumedRunHasAllOutputs'
    BY <1>0, <2>1, <2>2, <2>3, <2>4
    DEF ResumedRunHasAllOutputs, Resuming, Running, LocalTypes, IsValidResume
  <2>. QED  BY <1>0, <2>5, <2>6, <2>7, <2>8, <2>9, <2>10 DEF CheckpointsInv
<1>6. ASSUME NEW h \in Handler, RecheckStale(h) PROVE CheckpointsInv'
  <2>1. LockHeld'
    <3> SUFFICES ASSUME NEW g \in Handler,
                        \/ pc'[g] = "recheck"
                        \/ pc'[g] \in {"run", "reply"} /\ snap'[g] # NoRow
                 PROVE  locks'[sid'[g]] = g
      BY DEF LockHeld
    <3>1. g # h
      BY <1>0, <1>6 DEF RecheckStale, LocalTypes
    <3>2. locks[sid[g]] = g /\ locks[sid[h]] = h /\ sid'[g] = sid[g]
      BY <1>0, <1>6, <3>1 DEF RecheckStale, LocalTypes, LockHeld
    <3>3. sid[g] \in Sid
      BY <1>0, <1>6, <3>1 DEF RecheckStale, LocalTypes, LocalsMatchPc
    <3>. QED  BY <1>0, <1>6, <3>1, <3>2, <3>3 DEF RecheckStale, SharedTypes
  <2>. QED
    BY <1>0, <1>6, <2>1, QuietStep
    DEF RecheckStale, CheckpointsInv, LocalTypes, storeVars
<1>7. ASSUME NEW h \in Handler, Return(h), UNCHANGED <<store, log, issued>>
      PROVE  CheckpointsInv'
  <2>1. LockHeld'
    <3> SUFFICES ASSUME NEW g \in Handler,
                        \/ pc'[g] = "recheck"
                        \/ pc'[g] \in {"run", "reply"} /\ snap'[g] # NoRow
                 PROVE  locks'[sid'[g]] = g
      BY DEF LockHeld
    <3>1. g # h
      BY <1>0, <1>7 DEF Return, Forget, LocalTypes
    <3>2. /\ pc'[g] = pc[g] /\ snap'[g] = snap[g] /\ sid'[g] = sid[g]
          /\ locks[sid[g]] = g
      BY <1>0, <1>7, <3>1 DEF Return, Forget, LocalTypes, LockHeld
    <3>3. sid[g] \in Sid
      BY <1>0, <3>2 DEF LocalTypes, LocalsMatchPc
    <3>. QED  BY <1>7, <3>1, <3>2, <3>3 DEF Return
  <2>. QED
    BY <1>0, <1>7, <2>1, QuietStep DEF Return, Forget, CheckpointsInv, LocalTypes
<1>8. ASSUME NEW h \in Handler,
             PrepareFails(h) \/ RunFails(h) \/ Deliver(h) \/ ReplyLost(h)
      PROVE  CheckpointsInv'
  BY <1>7, <1>8 DEF PrepareFails, RunFails, Deliver, ReplyLost, storeVars
<1>9. ASSUME NEW h \in Handler, Pause(h) \/ Finish(h) PROVE CheckpointsInv'
  <2>1. pc[h] = "run" /\ sid[h] \in Sid /\ msgs[h] \in History
    BY <1>0, <1>9 DEF Pause, Finish, Persist, LocalTypes, LocalsMatchPc
  <2>2. PICK C \in SUBSET CallId, a \in Final, ts \in Seq(Sid) : Persist(h, C, a, ts)
    <3>1. turns[h] \in Seq(Sid) /\ Append(turns[h], sid[h]) \in Seq(Sid)
      BY <1>0, <2>1 DEF LocalTypes
    <3>2. CallSet \subseteq SUBSET CallId
      BY ConstantsAssumption
    <3>. QED  BY <1>9, <3>1, <3>2 DEF Pause, Finish, Final
  <2>3. /\ \A t \in Sid \ {sid[h]} : store'[t] \in {store[t], NoRow}
        /\ \/ store'[sid[h]] = NoRow
           \/ /\ store'[sid[h]].ckpt = msgs[h]
              /\ store'[sid[h]].pending = C
    BY <1>0, <2>1, <2>2, SaveRows DEF Persist, SharedTypes
  <2>4. /\ pc' = [pc EXCEPT ![h] = "reply"]
        /\ UNCHANGED <<locks, msgs, sid, snap, issued>>
    BY <2>2 DEF Persist
  <2>5. /\ \A t \in Sid \ {sid[h]} : log'[t] = log[t]
        /\ log'[sid[h]] # <<>>
        /\ Last(log'[sid[h]]) = [ckpt |-> msgs[h], calls |-> C, text |-> a]
    <3>1. log[sid[h]] \in Seq(Ckpt)
      BY <1>0, <2>1 DEF SharedTypes
    <3>2. log' = [log EXCEPT ![sid[h]] =
                    Append(@, [ckpt |-> msgs[h], calls |-> C, text |-> a])]
      BY <2>2 DEF Persist
    <3>3. /\ Append(log[sid[h]], [ckpt |-> msgs[h], calls |-> C, text |-> a]) # <<>>
          /\ Last(Append(log[sid[h]], [ckpt |-> msgs[h], calls |-> C, text |-> a]))
               = [ckpt |-> msgs[h], calls |-> C, text |-> a]
      <4>1. [ckpt |-> msgs[h], calls |-> C, text |-> a]
              \in Ckpt
        BY <2>1, <2>2 DEF Ckpt, Final
      <4>. QED  BY <3>1, <4>1, AppendLast
    <3>. QED  BY <1>0, <2>1, <3>2, <3>3 DEF SharedTypes
  <2>6. \A g \in Handler : Running(g) /\ g # h => sid[g] # sid[h]
    <3> SUFFICES ASSUME NEW g \in Handler, Running(g), g # h, sid[g] = sid[h]
                 PROVE  FALSE
      OBVIOUS
    <3>1. snap[g] # NoRow /\ snap[h] # NoRow
      BY <1>0, <2>1 DEF FreshRunIsAlone, Running
    <3>. QED  BY <1>0, <2>1, <3>1 DEF LockHeld, Running
  <2>7. LockHeld'
    BY <1>0, <2>1, <2>4 DEF LockHeld, LocalTypes
  <2>8. IdsAreIssued'
    BY <1>0, <2>1, <2>3, <2>4, <2>5 DEF IdsAreIssued, Rows
  <2>9. FreshRunIsAlone'
    <3> SUFFICES ASSUME NEW g \in Handler, Running(g)', snap'[g] = NoRow
                 PROVE  /\ store'[sid'[g]] = NoRow
                        /\ log'[sid'[g]] = <<>>
                        /\ \A f \in Handler : sid'[f] = sid'[g] => f = g
      BY DEF FreshRunIsAlone
    <3>1. g # h /\ Running(g)
      BY <1>0, <2>4 DEF Running, LocalTypes
    <3>2. sid[g] \in Sid \ {sid[h]}
      BY <1>0, <2>6, <3>1 DEF Running, LocalTypes, LocalsMatchPc
    <3>. QED  BY <1>0, <2>3, <2>4, <2>5, <3>1, <3>2 DEF FreshRunIsAlone
  <2>10. RowIsLastCheckpoint'
    BY <1>0, <2>1, <2>3, <2>5 DEF RowIsLastCheckpoint, Rows
  <2>11. ResumedFromLastCheckpoint'
    <3> SUFFICES ASSUME NEW g \in Handler, Resuming(g)'
                 PROVE  /\ log'[sid'[g]] # <<>>
                        /\ Last(log'[sid'[g]]).ckpt = snap'[g].ckpt
                        /\ Last(log'[sid'[g]]).calls = snap'[g].pending
      BY DEF ResumedFromLastCheckpoint
    <3>1. g # h /\ Resuming(g) /\ Running(g)
      BY <1>0, <2>4 DEF Resuming, Running, LocalTypes
    <3>2. sid[g] \in Sid \ {sid[h]}
      BY <1>0, <2>6, <3>1 DEF Running, LocalTypes, LocalsMatchPc
    <3>. QED  BY <1>0, <2>4, <2>5, <3>1, <3>2 DEF ResumedFromLastCheckpoint
  <2>12. ResumedRunHasAllOutputs'
    BY <1>0, <2>4 DEF ResumedRunHasAllOutputs, Resuming, Running, LocalTypes
  <2>. QED
    BY <1>0, <2>7, <2>8, <2>9, <2>10, <2>11, <2>12 DEF CheckpointsInv
<1>10. CASE Restart
  <2>1. LockHeld'
    BY <1>10 DEF Restart, LockHeld
  <2>. QED
    BY <1>0, <1>10, <2>1, QuietStep DEF Restart, CheckpointsInv, storeVars
<1>11. CASE Tick \/ UNCHANGED vars
  <2>1. UNCHANGED <<store, locks, pc, msgs, sid, snap, issued, log>>
    BY <1>11 DEF Tick, handlerVars, vars
  <2>2. LockHeld'
    BY <1>0, <2>1 DEF LockHeld
  <2>. QED  BY <1>0, <2>1, <2>2, QuietStep DEF CheckpointsInv
<1>. QED
  BY <1>1, <1>2, <1>3, <1>4, <1>5, <1>6, <1>8, <1>9, <1>10, <1>11 DEF Next, Work

(* The invariant holds in every behaviour. *)
THEOREM CheckpointsHold == Spec => []CheckpointsInv
BY InitInv, NextInv, PTL DEF Spec

-----------------------------------------------------------------------------
(* What follows from it *)

LEMMA InvImpliesOneRun == CheckpointsInv => OneRunPerSession
<1> SUFFICES ASSUME CheckpointsInv, NEW g \in Handler, NEW h \in Handler,
                    Running(g), Running(h), sid[g] = sid[h]
             PROVE  g = h
  BY DEF OneRunPerSession
<1>1. CASE snap[g] = NoRow \/ snap[h] = NoRow
  BY <1>1 DEF CheckpointsInv, FreshRunIsAlone
<1>2. CASE snap[g] # NoRow /\ snap[h] # NoRow
  BY <1>2 DEF CheckpointsInv, LockHeld, Running
<1>. QED  BY <1>1, <1>2

(* However many requests are in flight, two handlers never execute the same
   session at the same time. *)
THEOREM OneRunPerSessionHolds == Spec => []OneRunPerSession
BY CheckpointsHold, InvImpliesOneRun, PTL

LEMMA InvImpliesCurrent == CheckpointsInv => ResumedRowIsCurrent
<1> SUFFICES ASSUME CheckpointsInv, NEW h \in Handler, Resuming(h),
                    store[sid[h]] # NoRow
             PROVE  /\ store[sid[h]].ckpt = snap[h].ckpt
                    /\ store[sid[h]].pending = snap[h].pending
  BY DEF ResumedRowIsCurrent
<1>1. sid[h] \in Rows
  BY DEF CheckpointsInv, TypeOK, LocalTypes, LocalsMatchPc, Resuming, Running, Rows
<1>. QED
  BY <1>1 DEF CheckpointsInv, RowIsLastCheckpoint, ResumedFromLastCheckpoint

(* The engine of a resumed run is never restored from a checkpoint that
   another request has gone past. *)
THEOREM ResumedRowIsCurrentHolds == Spec => []ResumedRowIsCurrent
BY CheckpointsHold, InvImpliesCurrent, PTL

(* A run is only resumed by a history that extends its checkpoint and brings
   an output for every call it waits for. *)
THEOREM ResumedRunHasAllOutputsHolds == Spec => []ResumedRunHasAllOutputs
<1>1. CheckpointsInv => ResumedRunHasAllOutputs
  BY DEF CheckpointsInv
<1>. QED  BY <1>1, CheckpointsHold, PTL

-----------------------------------------------------------------------------
(* The table is bounded *)

(* Deleting what Evictable selects leaves at most MaxSessions rows, and exactly
   as many if it selects any. *)
LEMMA EvictableBounds ==
  ASSUME NEW table, NEW kept, kept = {s \in Sid : table[s] # NoRow},
         IsFiniteSet(kept), NEW V \in SUBSET Sid, Evictable(table, V)
  PROVE  /\ IsFiniteSet(kept \ V)
         /\ Cardinality(kept \ V) <= MaxSessions
         /\ V # {} => Cardinality(kept \ V) = MaxSessions
<1>1. V \subseteq kept /\ kept \cap V = V
  BY DEF Evictable
<1>2. IsFiniteSet(V) /\ Cardinality(kept) \in Nat /\ Cardinality(V) \in Nat
  BY <1>1, FS_Subset, FS_CardinalityType
<1>3. /\ IsFiniteSet(kept \ V)
      /\ Cardinality(kept \ V) = Cardinality(kept) - Cardinality(V)
  <2>1. /\ IsFiniteSet(kept \ V)
        /\ Cardinality(kept \ V) = Cardinality(kept) - Cardinality(kept \cap V)
    BY FS_Difference, Zenon
  <2>. QED  BY <1>1, <2>1
<1>4. Cardinality(V) = IF Cardinality(kept) > MaxSessions
                         THEN Cardinality(kept) - MaxSessions ELSE 0
  BY DEF Evictable
<1>5. V # {} => Cardinality(V) # 0
  BY <1>2, FS_EmptySet
<1>. QED
  BY <1>2, <1>3, <1>4, <1>5, ConstantsAssumption

(* What Save leaves in the table fits in it. *)
LEMMA SaveBounds ==
  ASSUME store \in [Sid -> Row \cup {NoRow}], IsFiniteSet(Rows),
         NEW s \in Sid, NEW m, NEW C, NEW ts, Save(s, m, C, ts)
  PROVE  IsFiniteSet(Rows') /\ Cardinality(Rows') <= MaxSessions
<1> DEFINE row(n) == [ckpt |-> m, pending |-> C, turns |-> ts,
                      used |-> clock, rowid |-> n]
           gone == {t \in Rows \ {s} : Expired(store[t])}
           table(n) == Without([store EXCEPT ![s] = row(n)], gone)
           kept(n) == {t \in Sid : table(n)[t] # NoRow}
<1>1. PICK n \in RowIds(s), V \in SUBSET Sid :
        Evictable(table(n), V) /\ store' = Without(table(n), V)
  BY DEF Save
<1>2. kept(n) \subseteq Rows \cup {s}
  BY DEF Rows, Without
<1>3. IsFiniteSet(kept(n))
  <2>1. IsFiniteSet(Rows \cup {s})
    BY FS_AddElement
  <2>. QED  BY <1>2, <2>1, FS_Subset
<1>4. IsFiniteSet(kept(n) \ V) /\ Cardinality(kept(n) \ V) <= MaxSessions
  <2> HIDE DEF table
  <2>. QED  BY <1>1, <1>3, EvictableBounds
<1>5. Rows' = kept(n) \ V
  <2> HIDE DEF table
  <2>. QED  BY <1>1 DEF Rows, Without
<1>. QED  BY <1>4, <1>5

(* Every save leaves at most max_sessions rows, and nothing else adds one. *)
LEMMA RowsBounded ==
  Spec => [](IsFiniteSet(Rows) /\ Cardinality(Rows) <= MaxSessions)
<1> DEFINE Bounded == IsFiniteSet(Rows) /\ Cardinality(Rows) <= MaxSessions
<1>1. Init => Bounded
  <2>1. Init => Rows = {}
    BY DEF Init, Rows
  <2>2. IsFiniteSet({}) /\ Cardinality({}) <= MaxSessions
    BY FS_EmptySet, ConstantsAssumption
  <2>. QED  BY <2>1, <2>2
<1>2. CheckpointsInv /\ Bounded /\ [Next]_vars => Bounded'
  <2> SUFFICES ASSUME CheckpointsInv, Bounded, [Next]_vars PROVE Bounded'
    OBVIOUS
  <2>0. SharedTypes /\ LocalTypes /\ LocalsMatchPc
    BY DEF CheckpointsInv, TypeOK
  <2>1. ASSUME NEW h \in Handler, Pause(h) \/ Finish(h) PROVE Bounded'
    <3>1. PICK C, ts : Save(sid[h], msgs[h], C, ts) /\ pc[h] = "run"
      BY <2>1 DEF Pause, Finish, Persist
    <3>2. sid[h] \in Sid
      BY <2>0, <3>1 DEF LocalTypes, LocalsMatchPc
    <3>. QED  BY <2>0, <3>1, <3>2, SaveBounds DEF SharedTypes
  <2>2. ASSUME NEW h \in Handler,
               \/ Accept(h) \/ Lock(h)
               \/ FindResumable(h) \/ StartFresh(h) \/ PrepareFails(h)
               \/ RecheckResumes(h) \/ RecheckStale(h)
               \/ RunFails(h) \/ Deliver(h) \/ ReplyLost(h)
        PROVE  UNCHANGED Rows
    BY <2>2
    DEF Accept, Lock, FindResumable, StartFresh, PrepareFails, RecheckResumes,
        RecheckStale, RunFails, Deliver, ReplyLost, storeVars, Rows
  <2>3. CASE Restart \/ Tick \/ UNCHANGED vars
    <3>1. UNCHANGED Rows
      BY <2>3 DEF Restart, Tick, vars, storeVars, Rows
    <3>. QED  BY <3>1
  <2>. QED  BY <2>1, <2>2, <2>3 DEF Next, Work
<1>. QED  BY <1>1, <1>2, CheckpointsHold, PTL DEF Spec

(* The table never outgrows max_sessions. *)
THEOREM TableBoundedHolds == Spec => []TableBounded
<1>1. IsFiniteSet(Rows) /\ Cardinality(Rows) <= MaxSessions => TableBounded
  BY DEF TableBounded
<1>. QED  BY <1>1, RowsBounded, PTL

-----------------------------------------------------------------------------
(* The store implements the session log *)

LEMMA InitRefines == Init => Abstract!Init
BY DEF Init, Abstract!Init, Rows

LEMMA StepRefines ==
  CheckpointsInv /\ CheckpointsInv' /\ [Next]_vars => [Abstract!Next]_(Abstract!vars)
<1> SUFFICES ASSUME CheckpointsInv, CheckpointsInv', [Next]_vars
             PROVE  Abstract!Next \/ UNCHANGED <<log, Rows>>
  BY DEF Abstract!vars
<1>0. /\ SharedTypes /\ LocalTypes /\ LocalsMatchPc /\ FreshRunIsAlone
      /\ ResumedFromLastCheckpoint /\ ResumedRunHasAllOutputs
  BY DEF CheckpointsInv, TypeOK
<1>1. ASSUME NEW h \in Handler, Pause(h) \/ Finish(h) PROVE Abstract!Next
  <2>1. pc[h] = "run" /\ sid[h] \in Sid /\ msgs[h] \in History
    BY <1>0, <1>1 DEF Pause, Finish, Persist, LocalTypes, LocalsMatchPc
  <2>2. PICK C \in SUBSET CallId, a \in Final, ts \in Seq(Sid) : Persist(h, C, a, ts)
    <3>1. turns[h] \in Seq(Sid) /\ Append(turns[h], sid[h]) \in Seq(Sid)
      BY <1>0, <2>1 DEF LocalTypes
    <3>2. CallSet \subseteq SUBSET CallId
      BY ConstantsAssumption
    <3>. QED  BY <1>1, <3>1, <3>2 DEF Pause, Finish, Final
  <2> DEFINE p == [ckpt |-> msgs[h], calls |-> C, text |-> a]
  <2>3. p \in Ckpt
    BY <2>1, <2>2 DEF Ckpt, Final
  <2>4. log' = [log EXCEPT ![sid[h]] = Append(@, p)]
    BY <2>2 DEF Persist
  <2>5. log'[sid[h]] # <<>> /\ Last(log'[sid[h]]) = p
    <3>1. log[sid[h]] \in Seq(Ckpt)
      BY <1>0, <2>1 DEF SharedTypes
    <3>2. log'[sid[h]] = Append(log[sid[h]], p)
      BY <1>0, <2>1, <2>4 DEF SharedTypes
    <3>3. /\ Append(log[sid[h]], p) # <<>>
          /\ Last(Append(log[sid[h]], p)) = p
      BY <2>3, <3>1, AppendLast
    <3>. QED  BY <3>2, <3>3
  <2>6. Rows' \in SUBSET (Rows \cup {sid[h]})
    BY <1>0, <2>1, <2>2, SaveRows DEF Persist, SharedTypes, Rows
  <2>7. Abstract!Commit(sid[h], p)
    BY <2>4, <2>6 DEF Abstract!Commit
  <2>8. p \in Abstract!Checkpoint
    BY <2>3 DEF Abstract!Checkpoint, Abstract!History, Abstract!Message,
                Ckpt, History, Message
  <2>9. SUFFICES Abstract!Create(sid[h], p) \/ Abstract!Advance(sid[h], p)
    <3>1. /\ log'[sid[h]] # <<>>
          /\ Last(log'[sid[h]]) \in Abstract!Checkpoint
          /\ \/ Abstract!Create(sid[h], Last(log'[sid[h]]))
             \/ Abstract!Advance(sid[h], Last(log'[sid[h]]))
      BY <2>5, <2>8, <2>9
    <3>2. Abstract!Last(log'[sid[h]]) = Last(log'[sid[h]])
      BY DEF Abstract!Last, Last
    <3>. QED  BY <2>1, <3>1, <3>2 DEF Abstract!Next
  <2>10. CASE snap[h] = NoRow
    BY <1>0, <2>1, <2>7, <2>10
    DEF Abstract!Create, FreshRunIsAlone, Running
  <2>11. CASE snap[h] # NoRow
    <3>1. /\ log[sid[h]] # <<>>
          /\ Last(log[sid[h]]).ckpt = snap[h].ckpt
          /\ Last(log[sid[h]]).calls = snap[h].pending
          /\ IsStrictPrefix(snap[h].ckpt, msgs[h])
          /\ snap[h].pending # {}
          /\ snap[h].pending \subseteq Answered(msgs[h], Len(snap[h].ckpt))
      BY <1>0, <2>1, <2>11
      DEF ResumedFromLastCheckpoint, ResumedRunHasAllOutputs, Resuming, Running
    <3>2. Abstract!Answered(msgs[h], Len(snap[h].ckpt))
            = Answered(msgs[h], Len(snap[h].ckpt))
      BY DEF Abstract!Answered, Answered
    <3>3. Abstract!Answers(msgs[h], Last(log[sid[h]]))
      <4>1. Abstract!IsStrictPrefix(snap[h].ckpt, msgs[h])
        BY <3>1 DEF Abstract!IsStrictPrefix, IsStrictPrefix,
                    Abstract!IsPrefix, IsPrefix
      <4>. QED  BY <3>1, <3>2, <4>1 DEF Abstract!Answers
    <3>4. p.ckpt = msgs[h]
      OBVIOUS
    <3>5. Abstract!Answers(p.ckpt, Last(log[sid[h]]))
      BY <3>3, <3>4
    <3>6. Abstract!Last(log[sid[h]]) = Last(log[sid[h]])
      BY DEF Abstract!Last, Last
    <3>. QED  BY <2>7, <3>1, <3>5, <3>6 DEF Abstract!Advance
  <2>. QED  BY <2>10, <2>11
<1>2. ASSUME NEW h \in Handler,
             \/ Accept(h) \/ Lock(h)
             \/ FindResumable(h) \/ StartFresh(h) \/ PrepareFails(h)
             \/ RecheckResumes(h) \/ RecheckStale(h)
             \/ RunFails(h) \/ Deliver(h) \/ ReplyLost(h)
      PROVE  UNCHANGED <<log, Rows>>
  BY <1>2
  DEF Accept, Lock, FindResumable, StartFresh, PrepareFails, RecheckResumes,
      RecheckStale, RunFails, Deliver, ReplyLost, storeVars, Rows
<1>3. CASE Restart \/ Tick \/ UNCHANGED vars
  BY <1>3 DEF Restart, Tick, vars, storeVars, Rows
<1>. QED  BY <1>1, <1>2, <1>3 DEF Next, Work

(* The session store, its locks and its handlers implement the session log: a
   session only grows, from its latest checkpoint, by a history that extends
   it and answers every call it waits for. *)
THEOREM Refinement == Spec => ImplementsSessionLog
<1>1. Spec => []CheckpointsInv
  BY CheckpointsHold
<1>2. Init => Abstract!Init
  BY InitRefines
<1>3. CheckpointsInv /\ CheckpointsInv' /\ [Next]_vars
        => [Abstract!Next]_(Abstract!vars)
  BY StepRefines
<1>. QED  BY <1>1, <1>2, <1>3, PTL DEF Spec, Abstract!Spec, ImplementsSessionLog

-----------------------------------------------------------------------------
(* Turn histories *)

(* An answer that was committed is one of the log's checkpoints. *)
LEMMA AnswerType ==
  ASSUME NEW l \in [Sid -> Seq(Ckpt)], NEW ts \in Seq(Sid), NEW i \in 1..Len(ts),
         l[ts[i]] # <<>>
  PROVE  /\ ts[i] \in Sid /\ Last(l[ts[i]]) \in Ckpt
         /\ Last(l[ts[i]]).ckpt \in Seq(Message)
         /\ Len(Last(l[ts[i]]).ckpt) \in Nat
<1>1. ts[i] \in Sid
  BY LenProperties, ElementOfSeq
<1>2. l[ts[i]] \in Seq(Ckpt)
  BY <1>1
<1>3. Last(l[ts[i]]) \in Ckpt
  <2> DEFINE q == l[ts[i]]
  <2>1. q \in Seq(Ckpt) /\ q # <<>>
    BY <1>2
  <2> HIDE DEF q
  <2>2. Len(q) \in 1..Len(q) /\ Last(q) = q[Len(q)]
    BY <2>1, EmptySeq, LenProperties DEF Last
  <2>3. Last(q) \in Ckpt
    BY <2>1, <2>2, ElementOfSeq
  <2>. QED  BY <2>3 DEF q
<1>4. Last(l[ts[i]]).ckpt \in Seq(Message)
  BY <1>3 DEF Ckpt, History
<1>. QED  BY <1>1, <1>3, <1>4, LenProperties

(* The answers along a history are answers along each that extends it, and
   shorter if it is longer. *)
LEMMA AlongExtension ==
  ASSUME NEW l \in [Sid -> Seq(Ckpt)], NEW ts \in Seq(Sid),
         NEW m \in History, NEW n \in History, AnswersAlong(l, ts, m),
         IsPrefix(m, n), Len(m) < Len(n)
  PROVE  /\ AnswersAlong(l, ts, n)
         /\ \A i \in 1..Len(ts) : Len(Last(l[ts[i]]).ckpt) < Len(n)
<1>1. m \in Seq(Message) /\ n \in Seq(Message) /\ Len(m) \in Nat /\ Len(n) \in Nat
  BY LenProperties DEF History
<1>2. ASSUME NEW i \in 1..Len(ts)
      PROVE  /\ IsPrefix(Last(l[ts[i]]).ckpt, n)
             /\ Len(Last(l[ts[i]]).ckpt) < Len(n)
  <2>1. l[ts[i]] # <<>> /\ IsPrefix(Last(l[ts[i]]).ckpt, m)
    BY DEF AnswersAlong
  <2>2. Last(l[ts[i]]).ckpt \in Seq(Message) /\ Len(Last(l[ts[i]]).ckpt) \in Nat
    BY <2>1, AnswerType
  <2>3. Len(Last(l[ts[i]]).ckpt) <= Len(m)
    BY <1>1, <2>1, <2>2, PrefixDef
  <2>4. IsPrefix(Last(l[ts[i]]).ckpt, n)
    BY <1>1, <2>1, <2>2, PrefixTrans
  <2>. QED  BY <1>1, <2>2, <2>3, <2>4
<1>. QED  BY <1>2 DEF AnswersAlong

(* So they are when sessions commit that had not completed. *)
LEMMA AlongCommit ==
  ASSUME NEW l, NEW k, NEW ts \in Seq(Sid), NEW m, AnswersAlong(l, ts, m),
         \A t \in Sid : l[t] # <<>> /\ Last(l[t]).calls = {} => k[t] = l[t]
  PROVE  AnswersAlong(k, ts, m)
<1>1. \A i \in 1..Len(ts) : k[ts[i]] = l[ts[i]]
  <2>1. \A i \in 1..Len(ts) : ts[i] \in Sid
    BY LenProperties, ElementOfSeq
  <2>. QED  BY <2>1 DEF AnswersAlong
<1>. QED  BY <1>1 DEF AnswersAlong

(* The answer to a history is the last one along it. *)
LEMMA AlongAnswer ==
  ASSUME NEW l, NEW ts \in Seq(Sid), NEW m \in History, NEW s \in Sid,
         AnswersAlong(l, ts, m),
         \A i \in 1..Len(ts) : Len(Last(l[ts[i]]).ckpt) < Len(m),
         NEW a \in Answer,
         l[s] # <<>>, Last(l[s]) = [ckpt |-> m, calls |-> {}, text |-> a]
  PROVE  AnswersAlong(l, Append(ts, s), m)
<1> DEFINE us == Append(ts, s)
           n == Len(ts)
<1>1. /\ n \in Nat /\ Len(us) = n + 1 /\ us[n + 1] = s
      /\ \A i \in 1..n : us[i] = ts[i]
  BY AppendProperties, LenProperties
<1>2. /\ Last(l[s]).ckpt = m /\ Last(l[s]).calls = {}
      /\ Last(l[s]).text # NoAnswer /\ IsPrefix(m, m)
  BY PrefixRefl, ConstantsAssumption DEF History
<1> HIDE DEF us, n
<1>3. ASSUME NEW i \in 1..Len(us)
      PROVE  /\ l[us[i]] # <<>> /\ Last(l[us[i]]).calls = {}
             /\ Last(l[us[i]]).text # NoAnswer
             /\ IsPrefix(Last(l[us[i]]).ckpt, m)
  <2>1. CASE i = n + 1
    BY <1>1, <1>2, <2>1
  <2>2. CASE i # n + 1
    <3>1. i \in 1..n /\ us[i] = ts[i]
      BY <1>1, <2>2
    <3>. QED  BY <3>1 DEF AnswersAlong, n
  <2>. QED  BY <2>1, <2>2
<1>4. ASSUME NEW i \in 1..Len(us), NEW j \in 1..Len(us), i < j
      PROVE  Len(Last(l[us[i]]).ckpt) < Len(Last(l[us[j]]).ckpt)
  <2>1. i \in 1..n /\ us[i] = ts[i]
    BY <1>1, <1>4
  <2>2. CASE j = n + 1
    BY <1>1, <1>2, <2>1, <2>2 DEF n
  <2>3. CASE j # n + 1
    <3>1. j \in 1..n /\ us[j] = ts[j]
      BY <1>1, <2>3
    <3>. QED  BY <1>4, <2>1, <3>1 DEF AnswersAlong, n
  <2>. QED  BY <2>2, <2>3
<1>5. AnswersAlong(l, us, m)
  BY <1>3, <1>4 DEF AnswersAlong
<1>. QED  BY <1>5 DEF us

LEMMA InitTurns == Init => TurnHistoryFollowsCheckpoints /\ RunsSeeded
BY DEF Init, TurnHistoryFollowsCheckpoints, RunsSeeded, Running, Rows

(* A handler that runs was given the turns of a row its history extends. *)
LEMMA SeededByRow ==
  ASSUME SharedTypes, TurnHistoryFollowsCheckpoints,
         NEW m \in History, NEW s \in FindMatching(m), Len(m) > Len(store[s].ckpt)
  PROVE  /\ AnswersAlong(log, store[s].turns, m)
         /\ \A i \in 1..Len(store[s].turns) :
              Len(Last(log[store[s].turns[i]]).ckpt) < Len(m)
<1>1. s \in Rows /\ IsPrefix(store[s].ckpt, m)
  BY DEF FindMatching, Matching
<1>2. store[s] \in Row
  BY <1>1 DEF SharedTypes, Rows
<1>3. store[s].turns \in Seq(Sid) /\ store[s].ckpt \in History
  BY <1>2 DEF Row
<1>4. log \in [Sid -> Seq(Ckpt)]
  BY DEF SharedTypes, Ckpt
<1>5. Len(store[s].ckpt) < Len(m)
  BY <1>3, LenProperties DEF History
<1>6. AnswersAlong(log, store[s].turns, store[s].ckpt)
  BY <1>1 DEF TurnHistoryFollowsCheckpoints
<1>. QED  BY <1>1, <1>3, <1>4, <1>5, <1>6, AlongExtension

(* Turn histories stay those of their conversations: only a session that is
   new or waits for calls commits, and none that gave its final answer. *)
LEMMA NextTurnHistories ==
  ASSUME CheckpointsInv, CheckpointsInv', [Next]_vars,
         TurnHistoryFollowsCheckpoints, RunsSeeded
  PROVE  TurnHistoryFollowsCheckpoints' /\ RunsSeeded'
<1> DEFINE Goal == TurnHistoryFollowsCheckpoints' /\ RunsSeeded'
<1>0. /\ SharedTypes /\ LocalTypes /\ LocalsMatchPc
      /\ SharedTypes' /\ LocalTypes' /\ LocalsMatchPc'
      /\ log \in [Sid -> Seq(Ckpt)]
  BY DEF CheckpointsInv, TypeOK, SharedTypes, Ckpt
<1>1. ASSUME UNCHANGED <<store, log>>,
             \A h \in Handler :
               pc'[h] = "run" => pc[h] = "run" /\ UNCHANGED <<msgs[h], turns[h]>>
      PROVE  Goal
  <2>1. TurnHistoryFollowsCheckpoints'
    BY <1>1 DEF TurnHistoryFollowsCheckpoints, Rows
  <2>2. RunsSeeded'
    <3>1. ASSUME NEW h \in Handler, Running(h)'
          PROVE  /\ Running(h) /\ turns'[h] = turns[h] /\ msgs'[h] = msgs[h]
                 /\ log' = log
      BY <1>1, <3>1 DEF Running
    <3>. QED  BY <3>1 DEF RunsSeeded
  <2>. QED  BY <2>1, <2>2
<1>2. ASSUME NEW h \in Handler,
             UNCHANGED <<store, log, msgs>>,
             \A g \in Handler \ {h} : pc'[g] = pc[g] /\ turns'[g] = turns[g],
             turns'[h] \in Seq(Sid),
             AnswersAlong(log, turns'[h], msgs[h]),
             \A i \in 1..Len(turns'[h]) :
               Len(Last(log[turns'[h][i]]).ckpt) < Len(msgs[h])
      PROVE  Goal
  <2>1. TurnHistoryFollowsCheckpoints'
    BY <1>2 DEF TurnHistoryFollowsCheckpoints, Rows
  <2>2. RunsSeeded'
    <3>1. ASSUME NEW g \in Handler, Running(g)', g # h
          PROVE  Running(g) /\ turns'[g] = turns[g]
      BY <1>2, <3>1 DEF Running
    <3>. QED  BY <1>2, <3>1 DEF RunsSeeded
  <2>. QED  BY <2>1, <2>2
<1>3. ASSUME NEW h \in Handler, StartFresh(h) PROVE Goal
  <2>1. /\ UNCHANGED <<store, log, msgs>> /\ msgs[h] \in History
        /\ \A g \in Handler \ {h} : pc'[g] = pc[g] /\ turns'[g] = turns[g]
    BY <1>0, <1>3 DEF StartFresh, storeVars, LocalTypes
  <2>2. turns'[h] \in Seq(Sid)
    BY <1>0 DEF LocalTypes
  <2>3. CASE \E s \in FindMatching(msgs[h]) :
               IsNewTurn(store[s], msgs[h]) /\ turns' = [turns EXCEPT ![h] = store[s].turns]
    <3>1. PICK s \in FindMatching(msgs[h]) :
            IsNewTurn(store[s], msgs[h]) /\ turns' = [turns EXCEPT ![h] = store[s].turns]
      BY <2>3
    <3>2. Len(msgs[h]) > Len(store[s].ckpt) /\ turns'[h] = store[s].turns
      BY <1>0, <3>1 DEF IsNewTurn, LocalTypes
    <3>3. /\ AnswersAlong(log, store[s].turns, msgs[h])
          /\ \A i \in 1..Len(store[s].turns) :
               Len(Last(log[store[s].turns[i]]).ckpt) < Len(msgs[h])
      BY <1>0, <2>1, <3>2, SeededByRow
    <3>. QED  BY <1>2, <2>1, <2>2, <3>2, <3>3
  <2>4. CASE turns' = [turns EXCEPT ![h] = <<>>]
    <3>1. turns'[h] = <<>> /\ 1..Len(<<>>) = {}
      BY <1>0, <2>4 DEF LocalTypes
    <3>2. AnswersAlong(log, turns'[h], msgs[h])
      BY <3>1 DEF AnswersAlong
    <3>. QED  BY <1>2, <2>1, <2>2, <3>1, <3>2
  <2>. QED  BY <1>3, <2>3, <2>4 DEF StartFresh
<1>4. ASSUME NEW h \in Handler, RecheckResumes(h) PROVE Goal
  <2>1. /\ UNCHANGED <<store, log, msgs>> /\ msgs[h] \in History
        /\ \A g \in Handler \ {h} : pc'[g] = pc[g] /\ turns'[g] = turns[g]
    BY <1>0, <1>4 DEF RecheckResumes, storeVars, LocalTypes
  <2>2. turns'[h] \in Seq(Sid)
    BY <1>0 DEF LocalTypes
  <2>3. PICK s \in FindMatching(msgs[h]) :
          StillCurrent(h, s) /\ turns' = [turns EXCEPT ![h] = store[s].turns]
    BY <1>4 DEF RecheckResumes
  <2>4. Len(msgs[h]) > Len(store[s].ckpt) /\ turns'[h] = store[s].turns
    BY <1>0, <2>3 DEF StillCurrent, IsValidResume, LocalTypes
  <2>5. /\ AnswersAlong(log, store[s].turns, msgs[h])
        /\ \A i \in 1..Len(store[s].turns) :
             Len(Last(log[store[s].turns[i]]).ckpt) < Len(msgs[h])
    BY <1>0, <2>1, <2>4, SeededByRow
  <2>. QED  BY <1>2, <2>1, <2>2, <2>4, <2>5
<1>5. ASSUME NEW h \in Handler, Pause(h) \/ Finish(h) PROVE Goal
  <2>1. pc[h] = "run" /\ sid[h] \in Sid /\ msgs[h] \in History /\ turns[h] \in Seq(Sid)
    BY <1>0, <1>5 DEF Pause, Finish, Persist, LocalTypes, LocalsMatchPc
  <2>2. PICK C \in SUBSET CallId, a \in Final, ts \in Seq(Sid) :
          /\ Persist(h, C, a, ts)
          /\ \/ ts = turns[h]
             \/ C = {} /\ a \in Answer /\ ts = Append(turns[h], sid[h])
    <3>1. turns[h] \in Seq(Sid) /\ Append(turns[h], sid[h]) \in Seq(Sid)
      BY <2>1
    <3>2. CallSet \subseteq SUBSET CallId
      BY ConstantsAssumption
    <3>. QED  BY <1>5, <3>1, <3>2 DEF Pause, Finish, Final
  <2>3. /\ \A t \in Sid \ {sid[h]} : store'[t] \in {store[t], NoRow}
        /\ \/ store'[sid[h]] = NoRow
           \/ /\ store'[sid[h]].ckpt = msgs[h]
              /\ store'[sid[h]].turns = ts
    <3>1. /\ Save(sid[h], msgs[h], C, ts)
          /\ store \in [Sid -> Row \cup {NoRow}] /\ clock \in Nat
      BY <1>0, <2>2 DEF Persist, SharedTypes
    <3>2. C \in SUBSET CallId /\ ts \in Seq(Sid)
      BY <2>2
    <3>3. PICK s \in Sid : s = sid[h]
      BY <2>1
    <3>4. PICK m \in History : m = msgs[h]
      BY <2>1
    <3>5. Save(s, m, C, ts)
      BY <3>1, <3>3, <3>4
    <3> HIDE DEF Goal
    <3>6. /\ \A t \in Sid \ {s} : store'[t] \in {store[t], NoRow}
          /\ \/ store'[s] = NoRow
             \/ store'[s].ckpt = m /\ store'[s].turns = ts
      BY <3>1, <3>2, <3>5, SaveRows
    <3>. QED  BY <3>3, <3>4, <3>6
  <2>4. /\ \A g \in Handler : pc'[g] = "run" => g # h /\ pc[g] = "run"
        /\ UNCHANGED <<msgs, turns>>
    BY <1>0, <2>2 DEF Persist, LocalTypes
  <2> DEFINE p == [ckpt |-> msgs[h], calls |-> C, text |-> a]
  <2>5. /\ log' = [log EXCEPT ![sid[h]] = Append(log[sid[h]], p)]
        /\ log[sid[h]] \in Seq(Ckpt) /\ p \in Ckpt
    BY <1>0, <2>1, <2>2 DEF Persist, Ckpt, Final
  <2>6. log'[sid[h]] # <<>> /\ Last(log'[sid[h]]) = p
    <3>1. log'[sid[h]] = Append(log[sid[h]], p)
      BY <1>0, <2>1, <2>5
    <3> HIDE DEF p
    <3>. QED  BY <2>5, <3>1, AppendLast
  <2>7. ~(log[sid[h]] # <<>> /\ Last(log[sid[h]]).calls = {})
    <3>1. CASE snap[h] = NoRow
      BY <2>1, <3>1 DEF CheckpointsInv, FreshRunIsAlone, Running
    <3>2. CASE snap[h] # NoRow
      BY <2>1, <3>2 DEF CheckpointsInv, ResumedFromLastCheckpoint, ResumedRunHasAllOutputs,
                        Resuming, Running
    <3>. QED  BY <3>1, <3>2
  <2>8. \A t \in Sid : log[t] # <<>> /\ Last(log[t]).calls = {} => log'[t] = log[t]
    <3> HIDE DEF p
    <3>. QED  BY <1>0, <2>1, <2>5, <2>7
  <2>9. ASSUME NEW us \in Seq(Sid), NEW m, AnswersAlong(log, us, m)
        PROVE  /\ AnswersAlong(log', us, m)
               /\ \A i \in 1..Len(us) : log'[us[i]] = log[us[i]]
    <3> DEFINE k == log'
    <3>1. \A t \in Sid : log[t] # <<>> /\ Last(log[t]).calls = {} => k[t] = log[t]
      BY <2>8
    <3> HIDE DEF k, p
    <3>2. AnswersAlong(k, us, m)
      BY <2>9, <3>1, AlongCommit
    <3>3. \A i \in 1..Len(us) : k[us[i]] = log[us[i]]
      <4>1. \A i \in 1..Len(us) :
              us[i] \in Sid /\ log[us[i]] # <<>> /\ Last(log[us[i]]).calls = {}
        BY <2>9, LenProperties, ElementOfSeq DEF AnswersAlong
      <4>. QED  BY <3>1, <4>1
    <3>. QED  BY <3>2, <3>3 DEF k
  <2>10. AnswersAlong(log', turns[h], msgs[h])
    BY <2>1, <2>9 DEF RunsSeeded, Running
  <2>11. \A i \in 1..Len(turns[h]) : Len(Last(log'[turns[h][i]]).ckpt) < Len(msgs[h])
    BY <2>1, <2>9 DEF RunsSeeded, Running
  <2>12. AnswersAlong(log', ts, msgs[h])
    <3>1. CASE ts = turns[h]
      BY <2>10, <3>1
    <3>2. CASE C = {} /\ a \in Answer /\ ts = Append(turns[h], sid[h])
      <4>1. Last(log'[sid[h]]) = [ckpt |-> msgs[h], calls |-> {}, text |-> a]
        BY <2>6, <3>2
      <4>2. AnswersAlong(log', Append(turns[h], sid[h]), msgs[h])
        BY <2>1, <2>6, <2>10, <2>11, <3>2, <4>1, AlongAnswer
      <4>. QED  BY <3>2, <4>2
    <3>. QED  BY <2>2, <3>1, <3>2
  <2>13. TurnHistoryFollowsCheckpoints'
    <3>1. ASSUME NEW t \in Sid, store'[t] # NoRow
          PROVE  AnswersAlong(log', store'[t].turns, store'[t].ckpt)
      <4>1. CASE t = sid[h]
        BY <2>3, <2>12, <3>1, <4>1
      <4>2. CASE t # sid[h]
        <5>1. store'[t] = store[t] /\ t \in Rows /\ store[t] \in Row
          BY <1>0, <2>3, <3>1, <4>2 DEF Rows, SharedTypes
        <5>2. store[t].turns \in Seq(Sid)
          BY <5>1 DEF Row
        <5>3. AnswersAlong(log, store[t].turns, store[t].ckpt)
          BY <5>1 DEF TurnHistoryFollowsCheckpoints
        <5>. QED  BY <2>9, <5>1, <5>2, <5>3
      <4>. QED  BY <4>1, <4>2
    <3>. QED  BY <3>1 DEF TurnHistoryFollowsCheckpoints, Rows
  <2>14. RunsSeeded'
    <3>1. ASSUME NEW g \in Handler, pc'[g] = "run"
          PROVE  /\ AnswersAlong(log', turns'[g], msgs'[g])
                 /\ \A i \in 1..Len(turns'[g]) :
                      Len(Last(log'[turns'[g][i]]).ckpt) < Len(msgs'[g])
      <4>1. pc[g] = "run" /\ turns'[g] = turns[g] /\ msgs'[g] = msgs[g]
        BY <2>4, <3>1
      <4>2. turns[g] \in Seq(Sid)
        BY <1>0 DEF LocalTypes
      <4>3. /\ AnswersAlong(log, turns[g], msgs[g])
            /\ \A i \in 1..Len(turns[g]) : Len(Last(log[turns[g][i]]).ckpt) < Len(msgs[g])
        BY <4>1 DEF RunsSeeded, Running
      <4>4. /\ AnswersAlong(log', turns[g], msgs[g])
            /\ \A i \in 1..Len(turns[g]) : log'[turns[g][i]] = log[turns[g][i]]
        BY <2>9, <4>2, <4>3
      <4>. QED  BY <4>1, <4>3, <4>4
    <3>. QED  BY <3>1 DEF RunsSeeded, Running
  <2>. QED  BY <2>13, <2>14
<1>6. ASSUME NEW h \in Handler,
             \/ Accept(h) \/ Lock(h) \/ FindResumable(h) \/ PrepareFails(h)
             \/ RecheckStale(h) \/ RunFails(h) \/ Deliver(h) \/ ReplyLost(h)
      PROVE  Goal
  BY <1>0, <1>1, <1>6
  DEF Accept, Lock, FindResumable, PrepareFails, RecheckStale, RunFails, Deliver,
      ReplyLost, Return, Forget, storeVars, LocalTypes
<1>7. CASE Restart \/ Tick \/ UNCHANGED vars
  BY <1>0, <1>1, <1>7 DEF Restart, Tick, vars, storeVars, handlerVars, LocalTypes
<1>. QED  BY <1>3, <1>4, <1>5, <1>6, <1>7 DEF Next, Work

(* The invariant of the sessions holds, turn histories included. *)
THEOREM InvariantHolds == Spec => []SessionsInv
<1> DEFINE Turns == TurnHistoryFollowsCheckpoints /\ RunsSeeded
<1>1. Init => Turns
  BY InitTurns
<1>2. CheckpointsInv /\ CheckpointsInv' /\ Turns /\ [Next]_vars => Turns'
  BY NextTurnHistories
<1>3. CheckpointsInv /\ Turns => SessionsInv
  BY DEF SessionsInv
<1>. QED  BY <1>1, <1>2, <1>3, CheckpointsHold, PTL DEF Spec

(* A row's turn history has at most one final content for each prefix of the
   history the row answers, of a session that was complete with that prefix,
   shortest first (service.go:189-192). *)
THEOREM TurnHistoryHolds == Spec => []TurnHistoryFollowsCheckpoints
<1>1. SessionsInv => TurnHistoryFollowsCheckpoints
  BY DEF SessionsInv
<1>. QED  BY <1>1, InvariantHolds, PTL

-----------------------------------------------------------------------------
(* Eviction *)

(* A row that has not expired, the one just saved among them, only goes when
   the table is left full, with no row that was used earlier
   (sessions.go:108-149). *)
THEOREM EvictsOldestHolds == Spec => EvictsOldest
<1> DEFINE Bounded == IsFiniteSet(Rows) /\ Cardinality(Rows) <= MaxSessions
           Step == \A v \in Sid :
                     /\ store[v] # NoRow \/ log'[v] # log[v]
                     /\ store'[v] = NoRow
                     /\ log'[v] = log[v] => ~Expired(store[v])
                     => /\ Cardinality(Rows') = MaxSessions
                        /\ \A k \in Rows' : LastUse(v) <= store'[k].used
<1>1. ASSUME CheckpointsInv, Bounded, [Next]_vars PROVE [Step]_vars
  <2>0. SharedTypes /\ LocalTypes /\ LocalsMatchPc
    BY <1>1 DEF CheckpointsInv, TypeOK
  <2>1. ASSUME NEW h \in Handler, Pause(h) \/ Finish(h) PROVE Step
    <3>0. PICK C \in SUBSET CallId, a \in Final, ts \in Seq(Sid) :
            Persist(h, C, a, ts)
      <4>1. pc[h] = "run" /\ sid[h] \in Sid /\ turns[h] \in Seq(Sid)
        BY <2>0, <2>1 DEF Pause, Finish, Persist, LocalTypes, LocalsMatchPc
      <4>2. Append(turns[h], sid[h]) \in Seq(Sid) /\ CallSet \subseteq SUBSET CallId
        BY <4>1, ConstantsAssumption
      <4>. QED  BY <2>1, <4>1, <4>2 DEF Pause, Finish, Final
    <3>1. /\ Save(sid[h], msgs[h], C, ts) /\ pc[h] = "run"
          /\ log' = [log EXCEPT ![sid[h]] =
                       Append(@, [ckpt |-> msgs[h], calls |-> C, text |-> a])]
          /\ C \in SUBSET CallId /\ a \in Final /\ ts \in Seq(Sid)
      BY <3>0 DEF Persist
    <3>2. sid[h] \in Sid /\ msgs[h] \in History
      BY <2>0, <3>1 DEF LocalTypes, LocalsMatchPc
    <3> DEFINE s == sid[h]
               row(n) == [ckpt |-> msgs[h], pending |-> C, turns |-> ts,
                          used |-> clock, rowid |-> n]
               gone == {t \in Rows \ {s} : Expired(store[t])}
               table(n) == Without([store EXCEPT ![s] = row(n)], gone)
               kept(n) == {t \in Sid : table(n)[t] # NoRow}
    <3>3. PICK n \in RowIds(s), V \in SUBSET Sid :
            Evictable(table(n), V) /\ store' = Without(table(n), V)
      BY <3>1 DEF Save
    <3>4. table(n)[s] = row(n) /\ row(n) # NoRow /\ row(n).used = clock
      <4>1. n \in Nat
        BY <2>0, <3>2, RowIdsType DEF SharedTypes
      <4>2. row(n) \in Row
        BY <2>0, <3>1, <3>2, <4>1 DEF Row, SharedTypes
      <4>3. row(n) # NoRow
        BY <4>2, RowAssumption
      <4>. QED  BY <2>0, <3>2, <4>3 DEF Without, SharedTypes
    <3>5. \A t \in Sid \ {s} : table(n)[t] = IF t \in gone THEN NoRow ELSE store[t]
      BY <2>0 DEF Without, SharedTypes
    <3>6. \A t \in Sid : store'[t] = IF t \in V THEN NoRow ELSE table(n)[t]
      <4> HIDE DEF table
      <4>. QED  BY <3>3 DEF Without
    <3>7. \A t \in Sid \ {s} : log'[t] = log[t]
      BY <2>0, <3>1 DEF SharedTypes
    <3>8. log'[s] # log[s]
      <4> DEFINE e == [ckpt |-> msgs[h], calls |-> C, text |-> a]
      <4>1. log[s] \in Seq(Ckpt) /\ log'[s] = Append(log[s], e)
        BY <2>0, <3>1, <3>2 DEF SharedTypes
      <4>2. e \in Ckpt
        BY <3>1, <3>2 DEF Ckpt, Final
      <4>3. Len(log'[s]) = Len(log[s]) + 1 /\ Len(log[s]) \in Nat
        BY <4>1, <4>2, AppendProperties, LenProperties
      <4>. QED  BY <4>3
    <3>9. IsFiniteSet(kept(n))
      <4>1. kept(n) \subseteq Rows \cup {s}
        BY DEF Rows, Without
      <4>2. IsFiniteSet(Rows \cup {s})
        BY <1>1, FS_AddElement
      <4>. QED  BY <4>1, <4>2, FS_Subset
    <3>10. Rows' = kept(n) \ V
      <4> HIDE DEF table
      <4>. QED  BY <3>3 DEF Rows, Without
    <3> HIDE DEF table, row
    <3>11. ASSUME NEW v \in Sid,
                  store[v] # NoRow \/ log'[v] # log[v],
                  store'[v] = NoRow,
                  log'[v] = log[v] => ~Expired(store[v])
           PROVE  /\ Cardinality(Rows') = MaxSessions
                  /\ \A k \in Rows' : LastUse(v) <= store'[k].used
      <4>1. /\ table(n)[v] # NoRow /\ v \in V /\ LastUse(v) = table(n)[v].used
        <5>1. CASE v = s
          BY <3>4, <3>6, <3>8, <3>11, <5>1 DEF LastUse
        <5>2. CASE v # s
          <6>1. store[v] # NoRow /\ ~Expired(store[v]) /\ log'[v] = log[v]
            BY <3>7, <3>11, <5>2
          <6>2. table(n)[v] = store[v]
            BY <3>5, <5>2, <6>1
          <6>. QED  BY <3>6, <3>11, <6>1, <6>2 DEF LastUse
        <5>. QED  BY <5>1, <5>2
      <4>2. ASSUME NEW k \in Rows' PROVE LastUse(v) <= store'[k].used
        <5>1. /\ k \in Sid /\ k \notin V /\ table(n)[k] # NoRow
              /\ store'[k] = table(n)[k]
          BY <3>6, <3>10, <4>2
        <5>2. table(n)[v].used <= table(n)[k].used
          BY <3>3, <4>1, <5>1 DEF Evictable
        <5>. QED  BY <4>1, <5>1, <5>2
      <4>3. Cardinality(kept(n) \ V) = MaxSessions
        <5> HIDE DEF kept
        <5>. QED  BY <3>3, <3>9, <4>1, EvictableBounds DEF kept
      <4>. QED  BY <3>10, <4>2, <4>3
    <3>. QED  BY <3>11
  <2>2. ASSUME NEW h \in Handler,
               \/ Accept(h) \/ Lock(h)
               \/ FindResumable(h) \/ StartFresh(h) \/ PrepareFails(h)
               \/ RecheckResumes(h) \/ RecheckStale(h)
               \/ RunFails(h) \/ Deliver(h) \/ ReplyLost(h)
        PROVE  Step
    <3>1. UNCHANGED <<store, log>>
      BY <2>2 DEF Accept, Lock, FindResumable, StartFresh, PrepareFails, RecheckResumes,
                  RecheckStale, RunFails, Deliver, ReplyLost, storeVars
    <3>. QED  BY <3>1
  <2>3. CASE Restart \/ Tick
    <3>1. UNCHANGED <<store, log>>
      BY <2>3 DEF Restart, Tick, storeVars
    <3>. QED  BY <3>1
  <2>. QED  BY <1>1, <2>1, <2>2, <2>3 DEF Next, Work
<1>. QED  BY <1>1, CheckpointsHold, RowsBounded, PTL DEF Spec, EvictsOldest

-----------------------------------------------------------------------------
(* Module Proxy, for plans of any shape: what holds of the sessions carries
   over, and on it rests what the engines do to them. *)

(* A handler with an engine is a handler of module Sessions: every step of the
   composition is one of that module or leaves its state alone. *)
LEMMA ProxyStepIsSessionStep == [ProxyNext]_proxyVars => [Next]_vars
<1> SUFFICES ASSUME [ProxyNext]_proxyVars PROVE [Next]_vars
  OBVIOUS
<1>1. ASSUME UNCHANGED proxyVars PROVE [Next]_vars
  BY <1>1 DEF proxyVars
<1>2. ASSUME NEW h \in Handler, Arrive(h) \/ AwaitMutex(h) PROVE Next
  BY <1>2 DEF Arrive, AwaitMutex, Next
<1>3. ASSUME NEW h \in Handler, ProxyWork(h) PROVE [Next]_vars
  <2>1. CASE Decompose(h) \/ ExecuteLeaf(h)
    BY <2>1 DEF Decompose, ExecuteLeaf
  <2>2. CASE Decide(h) \/ ResumeRun(h) \/ StartRun(h)
    BY <2>2 DEF Decide, ResumeRun, StartRun, Next, Work
  <2>3. CASE PauseRun(h) \/ FinishRun(h) \/ Leave(h)
    BY <2>3 DEF PauseRun, FinishRun, Leave, Next, Work
  <2>. QED  BY <1>3, <2>1, <2>2, <2>3 DEF ProxyWork
<1>4. ASSUME RestartProxy \/ Elapse PROVE Next
  BY <1>4 DEF RestartProxy, Elapse, Next
<1>. QED  BY <1>1, <1>2, <1>3, <1>4 DEF ProxyNext

(* The composition implements module Sessions, so whatever is proved of that
   module holds of handlers that run engines. *)
THEOREM ProxyImplementsSessions == ProxySpec => Spec
<1>1. ProxyInit => Init
  BY DEF ProxyInit
<1>. QED  BY <1>1, ProxyStepIsSessionStep, PTL DEF ProxySpec, Spec

-----------------------------------------------------------------------------
(* Types *)

(* An engine and a row's progress start as records. *)
LEMMA ProxyInitTypes == ProxyInit => ProxyTypes
BY DEF ProxyInit, ProxyTypes, NewEngine, NoProgress, EngineRecord, ProgressRecord

(* Saving an engine leaves the other sessions alone. *)
LEMMA KeepTypes ==
  ASSUME ProxyTypes, TypeOK, NEW h \in Handler, pc[h] = "run",
         NEW c \in BOOLEAN, Keep(h, c)
  PROVE  /\ ProxyTypes' /\ sid[h] \in Sid
         /\ progress'[sid[h]] = [leaves |-> engine[h].leaves,
                                 results |-> engine[h].results, closed |-> c]
         /\ \A s \in Sid \ {sid[h]} : progress'[s] = progress[s]
<1>1. sid[h] \in Sid
  BY DEF TypeOK, LocalTypes, LocalsMatchPc
<1>2. [leaves |-> engine[h].leaves, results |-> engine[h].results,
       closed |-> c] \in ProgressRecord
  BY DEF ProxyTypes, EngineRecord, ProgressRecord
<1>. QED  BY <1>1, <1>2 DEF Keep, ProxyTypes

(* Every step keeps the types. *)
LEMMA ProxyNextTypes ==
  ProxyTypes /\ TypeOK /\ [ProxyNext]_proxyVars => ProxyTypes'
<1> SUFFICES ASSUME ProxyTypes, TypeOK, [ProxyNext]_proxyVars
             PROVE  ProxyTypes'
  OBVIOUS
<1>1. ASSUME NEW h \in Handler, Decompose(h) PROVE ProxyTypes'
  <2>1. PICK plan \in Plan : engine' = [engine EXCEPT ![h].leaves = plan]
    BY <1>1 DEF Decompose
  <2>2. plan \in Seq(Task)
    BY ProxyAssumption
  <2>. QED  BY <1>1, <2>1, <2>2 DEF Decompose, ProxyTypes, EngineRecord
<1>2. ASSUME NEW h \in Handler, ExecuteLeaf(h) PROVE ProxyTypes'
  <2> DEFINE leaf == engine[h].leaves[Len(engine[h].results) + 1]
  <2>1. PICK t \in Text :
          engine' = [engine EXCEPT ![h].results =
                       Append(@, [leaf |-> leaf, text |-> t])]
    BY <1>2 DEF ExecuteLeaf
  <2>2. /\ engine[h].leaves \in Seq(Task) /\ engine[h].results \in Seq(Result)
        /\ Len(engine[h].results) < Len(engine[h].leaves)
    BY <1>2 DEF ExecuteLeaf, ProxyTypes, EngineRecord
  <2>3. leaf \in Task
    BY <2>2
  <2>4. [leaf |-> leaf, text |-> t] \in Result
    BY <2>3 DEF Result
  <2> HIDE DEF leaf
  <2>5. Append(engine[h].results, [leaf |-> leaf, text |-> t]) \in Seq(Result)
    BY <2>2, <2>4
  <2>. QED  BY <1>2, <2>1, <2>5 DEF ExecuteLeaf, ProxyTypes, EngineRecord
<1>3. ASSUME NEW h \in Handler, PauseRun(h) \/ FinishRun(h) PROVE ProxyTypes'
  BY <1>3, KeepTypes DEF PauseRun, FinishRun, Pause, Finish, Persist
<1>4. ASSUME NEW h \in Handler, ResumeRun(h) PROVE ProxyTypes'
  <2>1. sid[h] \in Sid
    BY <1>4 DEF ResumeRun, RecheckResumes, TypeOK, LocalTypes, LocalsMatchPc
  <2>2. [leaves |-> progress[sid[h]].leaves,
         results |-> progress[sid[h]].results] \in EngineRecord
    BY <2>1 DEF ProxyTypes, ProgressRecord, EngineRecord
  <2>. QED  BY <1>4, <2>2 DEF ResumeRun, ProxyTypes
<1>5. NewEngine \in EngineRecord
  BY DEF NewEngine, EngineRecord
<1>6. ASSUME NEW h \in Handler, StartRun(h) \/ Leave(h) PROVE ProxyTypes'
  BY <1>5, <1>6 DEF StartRun, Leave, ProxyTypes
<1>7. CASE RestartProxy
  BY <1>5, <1>7 DEF RestartProxy, ProxyTypes
<1>8. ASSUME UNCHANGED <<engine, progress>> PROVE ProxyTypes'
  BY <1>8 DEF ProxyTypes
<1>. QED
  BY <1>1, <1>2, <1>3, <1>4, <1>6, <1>7, <1>8
  DEF ProxyNext, ProxyWork, Arrive, AwaitMutex, Decide, Elapse, proxyVars

-----------------------------------------------------------------------------
(* The inductive invariant *)

(* At the start nothing runs and nothing is saved. *)
LEMMA ProxyInitInv == ProxyInit => ProxyInv
<1> SUFFICES ASSUME ProxyInit PROVE ProxyInv
  OBVIOUS
<1>1. CheckpointsInv
  BY InitInv DEF ProxyInit
<1>2. PlansAreFollowed
  BY DEF ProxyInit, PlansAreFollowed, Runs!Follows, NewEngine, NoProgress
<1>3. ProgressIsLogged /\ EngineContinuesRow
  BY DEF ProxyInit, Init, ProgressIsLogged, EngineContinuesRow, NoProgress
<1>. QED  BY <1>1, <1>2, <1>3, ProxyInitTypes DEF ProxyInv

(* No results without leaves. *)
LEMMA NoLeavesNoResults ==
  ASSUME NEW r, r.results \in Seq(Result), r.leaves = <<>>, Runs!Follows(r)
  PROVE  r.results = <<>>
<1>1. Len(r.results) \in Nat /\ Len(r.results) <= 0
  BY DEF Runs!Follows
<1>. QED  BY <1>1

(* Steps after which no engine runs that did not run before with the same
   leaves and results, and nothing is saved. *)
LEMMA QuietProxyStep ==
  ASSUME ProxyInv, CheckpointsInv', ProxyTypes', UNCHANGED <<progress, log>>,
         \A h \in Handler : \/ engine'[h] = NewEngine
                            \/ engine'[h] = engine[h],
         \A h \in Handler :
           pc'[h] = "run" /\ snap'[h] # NoRow =>
             pc[h] = "run" /\ UNCHANGED <<sid[h], snap[h], engine[h]>>
  PROVE  ProxyInv'
<1>1. PlansAreFollowed'
  <2>1. Runs!Follows(NewEngine)
    BY DEF Runs!Follows, NewEngine
  <2>. QED  BY <2>1 DEF ProxyInv, PlansAreFollowed
<1>2. ProgressIsLogged'
  BY DEF ProxyInv, ProgressIsLogged
<1>3. EngineContinuesRow'
  <2> SUFFICES ASSUME NEW h \in Handler, pc'[h] = "run", snap'[h] # NoRow
               PROVE  /\ engine'[h].leaves = progress'[sid'[h]].leaves
                      /\ IsPrefix(progress'[sid'[h]].results, engine'[h].results)
                      /\ ~progress'[sid'[h]].closed
    BY DEF EngineContinuesRow
  <2>. QED  BY DEF ProxyInv, EngineContinuesRow
<1>. QED  BY <1>1, <1>2, <1>3 DEF ProxyInv

(* Saving an engine keeps the invariant: a session that waits for nothing is
   the only one that closes, and nobody else runs on it. *)
LEMMA SaveInv ==
  ASSUME ProxyInv, CheckpointsInv', ProxyTypes', NEW h \in Handler, pc[h] = "run",
         NEW C \in SUBSET CallId, NEW a \in Final, NEW c \in BOOLEAN, c => C = {},
         pc' = [pc EXCEPT ![h] = "reply"], UNCHANGED <<sid, snap>>,
         log' = [log EXCEPT ![sid[h]] =
                   Append(@, [ckpt |-> msgs[h], calls |-> C, text |-> a])],
         Keep(h, c)
  PROVE  ProxyInv'
<1>0. TypeOK /\ ProxyTypes /\ OneRunPerSession
  BY InvImpliesOneRun DEF ProxyInv, CheckpointsInv
<1>1. /\ sid[h] \in Sid
      /\ progress'[sid[h]] = [leaves |-> engine[h].leaves,
                              results |-> engine[h].results, closed |-> c]
      /\ \A s \in Sid \ {sid[h]} : progress'[s] = progress[s]
      /\ engine' = engine /\ engine[h].leaves # <<>>
  BY <1>0, KeepTypes DEF Keep
<1>2. PlansAreFollowed'
  <2>1. Runs!Follows(engine[h]) => Runs!Follows(progress'[sid[h]])
    BY <1>1 DEF Runs!Follows
  <2>. QED  BY <1>1, <2>1 DEF ProxyInv, PlansAreFollowed
<1>3. ProgressIsLogged'
  <2>1. \A s \in Sid \ {sid[h]} : log'[s] = log[s]
    BY <1>0 DEF TypeOK, SharedTypes
  <2>2. log'[sid[h]] # <<>> /\ Last(log'[sid[h]]).calls = C
    <3> DEFINE e == [ckpt |-> msgs[h], calls |-> C, text |-> a]
               q == log[sid[h]]
    <3>1. q \in Seq(Ckpt) /\ log'[sid[h]] = Append(q, e) /\ e.calls = C
      BY <1>0, <1>1 DEF TypeOK, SharedTypes
    <3>2. e \in Ckpt
      BY <1>0 DEF TypeOK, LocalTypes, Ckpt, Final
    <3> HIDE DEF e, q
    <3>3. Append(q, e) # <<>> /\ Last(Append(q, e)) = e
      BY <3>1, <3>2, AppendLast
    <3>. QED  BY <3>1, <3>3
  <2>3. ASSUME NEW s \in Sid, s # sid[h]
        PROVE  /\ log'[s] = <<>> => progress'[s] = NoProgress
               /\ log'[s] # <<>> => progress'[s].leaves # <<>>
               /\ progress'[s].closed => Last(log'[s]).calls = {}
    BY <1>1, <2>1, <2>3 DEF ProxyInv, ProgressIsLogged
  <2>4. /\ progress'[sid[h]].leaves # <<>>
        /\ progress'[sid[h]].closed => C = {}
    BY <1>1
  <2>. QED  BY <2>2, <2>3, <2>4 DEF ProgressIsLogged
<1>4. EngineContinuesRow'
  <2> SUFFICES ASSUME NEW g \in Handler, pc'[g] = "run", snap'[g] # NoRow
               PROVE  /\ engine'[g].leaves = progress'[sid'[g]].leaves
                      /\ IsPrefix(progress'[sid'[g]].results, engine'[g].results)
                      /\ ~progress'[sid'[g]].closed
    BY DEF EngineContinuesRow
  <2>1. g # h /\ pc[g] = "run" /\ snap[g] # NoRow
    BY <1>0 DEF TypeOK, LocalTypes
  <2>2. sid[g] # sid[h]
    BY <1>0, <2>1 DEF OneRunPerSession, Running
  <2>3. sid[g] \in Sid
    BY <1>0, <2>1 DEF TypeOK, LocalTypes, LocalsMatchPc
  <2>. QED  BY <1>1, <2>1, <2>2, <2>3 DEF ProxyInv, EngineContinuesRow
<1>. QED  BY <1>2, <1>3, <1>4 DEF ProxyInv

(* Every step keeps the invariant. *)
LEMMA ProxyNextInv == ProxyInv /\ [ProxyNext]_proxyVars => ProxyInv'
<1> SUFFICES ASSUME ProxyInv, [ProxyNext]_proxyVars PROVE ProxyInv'
  OBVIOUS
<1>0. /\ CheckpointsInv /\ TypeOK /\ ProxyTypes /\ LocalTypes /\ LocalsMatchPc
      /\ PlansAreFollowed /\ ProgressIsLogged /\ EngineContinuesRow
      /\ CheckpointsInv' /\ TypeOK' /\ ProxyTypes'
  BY ProxyStepIsSessionStep, NextInv, ProxyNextTypes
  DEF ProxyInv, CheckpointsInv, TypeOK
<1>1. ASSUME NEW h \in Handler, Decompose(h) PROVE ProxyInv'
  <2>1. PICK plan \in Plan : engine' = [engine EXCEPT ![h].leaves = plan]
    BY <1>1 DEF Decompose
  <2>2. /\ engine'[h].results = engine[h].results /\ engine'[h].leaves = plan
        /\ \A g \in Handler \ {h} : engine'[g] = engine[g]
        /\ engine[h].leaves = <<>> /\ pc[h] = "run"
        /\ UNCHANGED <<progress, log, pc, sid, snap>>
    BY <1>0, <1>1, <2>1 DEF ProxyTypes, EngineRecord, Decompose, vars, handlerVars
  <2>3. engine[h].results = <<>>
    BY <1>0, <2>2, NoLeavesNoResults
    DEF ProxyTypes, EngineRecord, PlansAreFollowed
  <2>4. PlansAreFollowed'
    <3>1. Runs!Follows(engine'[h])
      <4>1. plan \in Seq(Task)
        BY ProxyAssumption
      <4>. QED  BY <2>2, <2>3, <4>1 DEF Runs!Follows
    <3>. QED  BY <1>0, <2>2, <3>1 DEF PlansAreFollowed
  <2>5. snap[h] = NoRow
    <3> SUFFICES ASSUME snap[h] # NoRow PROVE FALSE
      OBVIOUS
    <3>1. sid[h] \in Sid /\ log[sid[h]] # <<>>
      BY <1>0, <2>2
      DEF CheckpointsInv, ResumedFromLastCheckpoint, Resuming, Running,
          LocalTypes, LocalsMatchPc
    <3>. QED  BY <1>0, <2>2, <3>1 DEF EngineContinuesRow, ProgressIsLogged
  <2>6. EngineContinuesRow' /\ ProgressIsLogged'
    BY <1>0, <2>2, <2>5 DEF EngineContinuesRow, ProgressIsLogged
  <2>. QED  BY <1>0, <2>4, <2>6 DEF ProxyInv
<1>2. ASSUME NEW h \in Handler, ExecuteLeaf(h) PROVE ProxyInv'
  <2> DEFINE leaf == engine[h].leaves[Len(engine[h].results) + 1]
  <2>1. PICK ans \in Text :
          engine' = [engine EXCEPT ![h].results =
                       Append(@, [leaf |-> leaf, text |-> ans])]
    BY <1>2 DEF ExecuteLeaf
  <2> DEFINE e == [leaf |-> leaf, text |-> ans]
  <2>2. /\ engine'[h].results = Append(engine[h].results, e)
        /\ engine'[h].leaves = engine[h].leaves
        /\ \A g \in Handler \ {h} : engine'[g] = engine[g]
        /\ Len(engine[h].results) < Len(engine[h].leaves)
        /\ engine[h].leaves \in Seq(Task) /\ engine[h].results \in Seq(Result)
        /\ UNCHANGED <<progress, log, pc, sid, snap>>
    BY <1>0, <1>2, <2>1
    DEF ProxyTypes, EngineRecord, ExecuteLeaf, vars, handlerVars
  <2>3. e \in Result /\ e.leaf = leaf
    BY <2>2 DEF Result
  <2> HIDE DEF e
  <2>4. PlansAreFollowed'
    <3>1. Runs!Follows(engine'[h])
      <4>1. Runs!Follows(engine[h])
        BY <1>0 DEF PlansAreFollowed
      <4>. QED  BY <2>2, <2>3, <4>1 DEF Runs!Follows
    <3>. QED  BY <1>0, <2>2, <3>1 DEF PlansAreFollowed
  <2>5. EngineContinuesRow'
    <3> SUFFICES ASSUME NEW g \in Handler, pc'[g] = "run", snap'[g] # NoRow
                 PROVE  /\ engine'[g].leaves = progress'[sid'[g]].leaves
                        /\ IsPrefix(progress'[sid'[g]].results, engine'[g].results)
                        /\ ~progress'[sid'[g]].closed
      BY DEF EngineContinuesRow
    <3>1. /\ engine[g].leaves = progress[sid[g]].leaves
          /\ IsPrefix(progress[sid[g]].results, engine[g].results)
          /\ ~progress[sid[g]].closed
      BY <1>0, <2>2 DEF EngineContinuesRow
    <3>2. progress[sid[g]].results \in Seq(Result)
      BY <1>0, <2>2
      DEF ProxyTypes, ProgressRecord, LocalTypes, LocalsMatchPc
    <3> DEFINE s == progress[sid[g]].results
               t == engine[h].results
    <3>3. ASSUME g = h PROVE IsPrefix(s, Append(t, e))
      <4>1. s \in Seq(Result) /\ t \in Seq(Result) /\ IsPrefix(s, t)
        BY <2>2, <3>1, <3>2, <3>3
      <4> HIDE DEF s, t
      <4>. QED  BY <2>3, <4>1, PrefixAppend
    <3>. QED  BY <2>2, <3>1, <3>3
  <2>. QED  BY <1>0, <2>2, <2>4, <2>5 DEF ProxyInv, ProgressIsLogged
<1>3. ASSUME NEW h \in Handler, PauseRun(h) PROVE ProxyInv'
  <2>1. PICK C \in CallSet : Persist(h, C, NoAnswer, turns[h])
    BY <1>3 DEF PauseRun, Pause
  <2>2. C \in SUBSET CallId /\ NoAnswer \in Final
    BY ConstantsAssumption DEF Final
  <2>. QED  BY <1>0, <1>3, <2>1, <2>2, SaveInv DEF PauseRun, Persist
<1>4. ASSUME NEW h \in Handler, FinishRun(h) PROVE ProxyInv'
  <2>1. PICK a \in Final : \E ts : Persist(h, {}, a, ts)
    BY <1>4 DEF FinishRun, Finish, Final
  <2>2. PICK ts : Persist(h, {}, a, ts)
    BY <2>1
  <2>. QED  BY <1>0, <1>4, <2>1, <2>2, SaveInv DEF FinishRun, Persist
<1>5. ASSUME NEW h \in Handler, ResumeRun(h) PROVE ProxyInv'
  <2>1. /\ pc[h] = "recheck" /\ sid[h] \in Rows
        /\ IsValidResume(store[sid[h]], msgs[h])
        /\ pc' = [pc EXCEPT ![h] = "run"]
        /\ \A g \in Handler \ {h} : snap'[g] = snap[g]
        /\ UNCHANGED <<progress, log, sid>>
        /\ engine' = [engine EXCEPT
                        ![h] = [leaves |-> progress[sid[h]].leaves,
                                results |-> progress[sid[h]].results]]
    BY <1>0, <1>5
    DEF ResumeRun, RecheckResumes, StillCurrent, FindMatching, Matching, LocalTypes
  <2>2. sid[h] \in Sid /\ progress[sid[h]].results \in Seq(Result)
    BY <1>0, <2>1 DEF Rows, ProxyTypes, ProgressRecord
  <2>3. ~progress[sid[h]].closed
    <3>1. Last(log[sid[h]]).calls = store[sid[h]].pending
      BY <1>0, <2>1 DEF CheckpointsInv, RowIsLastCheckpoint
    <3>2. store[sid[h]].pending # {}
      BY <2>1 DEF IsValidResume
    <3>. QED  BY <1>0, <2>2, <3>1, <3>2 DEF ProgressIsLogged
  <2>4. /\ engine'[h].leaves = progress[sid[h]].leaves
        /\ engine'[h].results = progress[sid[h]].results
        /\ \A g \in Handler \ {h} : engine'[g] = engine[g]
    BY <1>0, <2>1 DEF ProxyTypes
  <2>5. PlansAreFollowed'
    BY <1>0, <2>1, <2>2, <2>4 DEF PlansAreFollowed, Runs!Follows
  <2>6. EngineContinuesRow'
    <3>1. IsPrefix(progress[sid[h]].results, engine'[h].results)
      BY <2>2, <2>4, PrefixRefl
    <3>. QED  BY <1>0, <2>1, <2>3, <2>4, <3>1 DEF EngineContinuesRow, LocalTypes
  <2>. QED  BY <1>0, <2>1, <2>5, <2>6 DEF ProxyInv, ProgressIsLogged
<1>6. ASSUME NEW h \in Handler, StartRun(h) PROVE ProxyInv'
  <2>1. /\ pc[h] = "find" /\ snap[h] = NoRow
        /\ pc' = [pc EXCEPT ![h] = "run"]
        /\ \A g \in Handler \ {h} : sid'[g] = sid[g]
        /\ UNCHANGED <<progress, log, snap>>
        /\ engine' = [engine EXCEPT ![h] = NewEngine]
    BY <1>0, <1>6 DEF StartRun, StartFresh, LocalTypes, LocalsMatchPc
  <2>. QED  BY <1>0, <2>1, QuietProxyStep DEF LocalTypes, ProxyTypes
<1>7. ASSUME NEW h \in Handler, Leave(h) PROVE ProxyInv'
  <2>1. /\ Forget(h) /\ UNCHANGED <<progress, log>>
        /\ engine' = [engine EXCEPT ![h] = NewEngine]
    BY <1>7 DEF Leave, PrepareFails, RunFails, Deliver, ReplyLost, Return
  <2>. QED  BY <1>0, <2>1, QuietProxyStep DEF Forget, LocalTypes, ProxyTypes
<1>8. CASE RestartProxy
  BY <1>0, <1>8, QuietProxyStep DEF RestartProxy, Restart, ProxyTypes
<1>9. ASSUME NEW h \in Handler, Arrive(h) \/ Decide(h) \/ AwaitMutex(h)
      PROVE  ProxyInv'
  <2>1. /\ UNCHANGED <<engine, progress, log>>
        /\ pc'[h] # "run"
        /\ \A g \in Handler \ {h} :
             pc'[g] = pc[g] /\ sid'[g] = sid[g] /\ snap'[g] = snap[g]
    BY <1>0, <1>9
    DEF Arrive, Accept, Decide, FindResumable, RecheckStale, AwaitMutex, Lock,
        LocalTypes
  <2>. QED  BY <1>0, <2>1, QuietProxyStep
<1>10. CASE Elapse \/ UNCHANGED proxyVars
  <2>1. UNCHANGED <<engine, progress, log, pc, sid, snap>>
    BY <1>10 DEF Elapse, Tick, proxyVars, vars, handlerVars
  <2>. QED  BY <1>0, <2>1, QuietProxyStep
<1>. QED
  BY <1>1, <1>2, <1>3, <1>4, <1>5, <1>6, <1>7, <1>8, <1>9, <1>10
  DEF ProxyNext, ProxyWork

(* So it holds throughout. *)
LEMMA ProxyInvHolds == ProxySpec => []ProxyInv
BY ProxyInitInv, ProxyNextInv, PTL DEF ProxySpec

(* Whoever runs on a row that was read earlier works on what the row still
   holds (buildResumeRun, RestoreTree). *)
THEOREM EngineContinuesRowHolds == ProxySpec => []EngineContinuesRow
<1>1. ProxyInv => EngineContinuesRow
  BY DEF ProxyInv
<1>. QED  BY ProxyInvHolds, <1>1, PTL

-----------------------------------------------------------------------------
(* The refinement of RunLog *)

(* What is saved moves the session's run forward. *)
LEMMA SaveCommits ==
  ASSUME ProxyInv, ProxyInv', NEW h \in Handler, pc[h] = "run",
         NEW c \in BOOLEAN, Keep(h, c),
         c => Len(engine[h].results) = Len(engine[h].leaves)
  PROVE  Runs!Commit(sid[h])
<1>0. /\ CheckpointsInv /\ TypeOK /\ ProxyTypes /\ LocalTypes /\ LocalsMatchPc
      /\ PlansAreFollowed /\ ProgressIsLogged /\ EngineContinuesRow
      /\ PlansAreFollowed'
  BY DEF ProxyInv, CheckpointsInv, TypeOK
<1>1. /\ sid[h] \in Sid
      /\ progress'[sid[h]] = [leaves |-> engine[h].leaves,
                              results |-> engine[h].results, closed |-> c]
      /\ \A s \in Sid \ {sid[h]} : progress'[s] = progress[s]
      /\ engine[h].leaves # <<>> /\ engine[h].results \in Seq(Result)
  BY <1>0, KeepTypes DEF Keep, ProxyTypes, EngineRecord
<1>2. /\ ~progress[sid[h]].closed
      /\ progress[sid[h]].leaves # <<>> =>
           progress[sid[h]].leaves = engine[h].leaves
      /\ IsPrefix(progress[sid[h]].results, engine[h].results)
  <2>1. CASE snap[h] # NoRow
    BY <1>0, <2>1 DEF EngineContinuesRow
  <2>2. CASE snap[h] = NoRow
    <3>1. progress[sid[h]] = NoProgress
      BY <1>0, <1>1, <2>2
      DEF CheckpointsInv, FreshRunIsAlone, Running, ProgressIsLogged
    <3>2. IsPrefix(<<>>, engine[h].results)
      BY <1>1, PrefixOfAll
    <3>. QED  BY <3>1, <3>2 DEF NoProgress
  <2>. QED  BY <2>1, <2>2
<1>3. Runs!IsPrefix(progress[sid[h]].results, engine[h].results)
  BY <1>2 DEF IsPrefix, Runs!IsPrefix
<1>4. Runs!Follows(progress'[sid[h]])
  BY <1>0, <1>1 DEF PlansAreFollowed
<1>. QED  BY <1>1, <1>2, <1>3, <1>4 DEF Runs!Commit

(* Every step saves one engine or none. *)
LEMMA ProxyStepRefines ==
  ProxyInv /\ ProxyInv' /\ [ProxyNext]_proxyVars => [Runs!Next]_progress
<1> SUFFICES ASSUME ProxyInv, ProxyInv', [ProxyNext]_proxyVars
             PROVE  Runs!Next \/ UNCHANGED progress
  OBVIOUS
<1>1. ASSUME NEW h \in Handler, PauseRun(h) \/ FinishRun(h)
      PROVE  Runs!Next
  <2>1. pc[h] = "run" /\ sid[h] \in Sid
    BY <1>1 DEF ProxyInv, CheckpointsInv, TypeOK, LocalTypes, LocalsMatchPc,
                PauseRun, FinishRun, Pause, Finish, Persist
  <2>2. Runs!Commit(sid[h])
    BY <1>1, <2>1, SaveCommits DEF PauseRun, FinishRun
  <2>. QED  BY <2>1, <2>2 DEF Runs!Next
<1>2. ASSUME NEW h \in Handler,
             \/ Arrive(h) \/ AwaitMutex(h) \/ Decide(h) \/ ResumeRun(h)
             \/ StartRun(h) \/ Decompose(h) \/ ExecuteLeaf(h) \/ Leave(h)
      PROVE  UNCHANGED progress
  BY <1>2 DEF Arrive, AwaitMutex, Decide, ResumeRun, StartRun, Decompose,
              ExecuteLeaf, Leave
<1>3. ASSUME RestartProxy \/ Elapse \/ UNCHANGED proxyVars
      PROVE  UNCHANGED progress
  BY <1>3 DEF RestartProxy, Elapse, proxyVars
<1>. QED  BY <1>1, <1>2, <1>3 DEF ProxyNext, ProxyWork

(* Whatever handlers do at once, each session executes one plan, its saved
   results follow the plan and are never lost nor computed again, and it
   closes only when all are there (Prepare, Persist, RestoreTree). *)
THEOREM RunsImplementRunLogHolds == ProxySpec => RunsImplementRunLog
<1>1. ProxyInit => Runs!Init
  BY DEF ProxyInit, Runs!Init, NoProgress
<1>. QED
  BY <1>1, ProxyInvHolds, ProxyStepRefines, PTL
  DEF ProxySpec, RunsImplementRunLog, Runs!Spec
=============================================================================
