--------------------------- MODULE WebChatProofs ---------------------------
(***************************************************************************)
(* Proofs about module WebChat: types, messages stay in the conversation   *)
(* they were typed in, answers that were shown are kept, and answers come  *)
(* after what they answer.                                                 *)
(***************************************************************************)
EXTENDS WebChatProps, DataFacts

(* After the boundary of a history there are only user messages. *)
LEMMA BoundaryFacts ==
  ASSUME NEW m \in Seq(Message)
  PROVE  /\ Boundary(m) \in 0..Len(m)
         /\ Boundary(m) # 0 => m[Boundary(m)].role # "user"
         /\ \A i \in (Boundary(m) + 1)..Len(m) : m[i].role = "user"
<1> DEFINE S == {i \in 1..Len(m) : m[i].role # "user"}
<1>1. Boundary(m) = IF S # {} THEN Max(S) ELSE 0
  BY DEF Boundary, SelectLastInSeq
<1>2. S \in SUBSET Nat /\ Len(m) \in Nat /\ \A i \in S : i <= Len(m)
  BY LenProperties
<1>3. CASE S = {}
  BY <1>1, <1>2, <1>3
<1>4. CASE S # {}
  <2>1. Max(S) \in S /\ \A i \in S : i <= Max(S)
    <3> HIDE DEF S
    <3>. QED  BY <1>2, <1>4, MaxFacts
  <2>2. Boundary(m) \in 1..Len(m) /\ m[Boundary(m)].role # "user"
    BY <1>1, <1>4, <2>1
  <2>3. ASSUME NEW i \in (Boundary(m) + 1)..Len(m), m[i].role # "user" PROVE FALSE
    <3>1. i \in S /\ i <= Boundary(m)
      BY <1>1, <1>4, <2>1, <2>2, <2>3
    <3>. QED  BY <1>2, <2>2, <3>1
  <2>. QED  BY <1>2, <2>2, <2>3
<1>. QED  BY <1>3, <1>4

(* What a run begins by recording are the user messages of its history that
   nothing but user messages follow. *)
LEMMA TrailingFacts ==
  ASSUME NEW m \in Seq(Message)
  PROVE  /\ TrailingUserMessages(m) \in Seq(Message)
         /\ \A i \in DOMAIN TrailingUserMessages(m) :
              \E j \in DOMAIN m : /\ TrailingUserMessages(m)[i] = m[j]
                                  /\ m[j].role = "user"
         /\ \A j \in DOMAIN m :
              \/ j \in 1..Boundary(m)
              \/ \E i \in DOMAIN TrailingUserMessages(m) :
                   TrailingUserMessages(m)[i] = m[j]
<1> DEFINE b == Boundary(m)
           s == TrailingUserMessages(m)
<1>1. /\ b \in 0..Len(m) /\ Len(m) \in Nat /\ DOMAIN m = 1..Len(m)
      /\ \A i \in (b + 1)..Len(m) : m[i].role = "user"
  BY BoundaryFacts, LenProperties
<1>2. \A i \in (b + 1)..Len(m) : m[i] \in Message
  BY <1>1, ElementOfSeq
<1>3. /\ s \in Seq(Message) /\ Len(s) = Len(m) - b
      /\ \A i \in 1..(Len(m) - b) : s[i] = m[b + i]
  BY <1>1, <1>2, SubSeqProperties DEF TrailingUserMessages
<1>4. DOMAIN s = 1..(Len(m) - b)
  BY <1>3, LenProperties
<1> HIDE DEF b, s
<1>5. ASSUME NEW i \in DOMAIN s
      PROVE  \E j \in DOMAIN m : s[i] = m[j] /\ m[j].role = "user"
  <2>1. b + i \in (b + 1)..Len(m) /\ b + i \in DOMAIN m
    BY <1>1, <1>4
  <2>. QED  BY <1>1, <1>3, <1>4, <2>1
<1>6. ASSUME NEW j \in DOMAIN m, j \notin 1..b
      PROVE  \E i \in DOMAIN s : s[i] = m[j]
  <2>1. j - b \in 1..(Len(m) - b) /\ b + (j - b) = j
    BY <1>1, <1>6
  <2>. QED  BY <1>3, <1>4, <2>1
<1>. QED  BY <1>3, <1>5, <1>6 DEF b, s

(* The turn that a run answers is that of a user message, if there is one. *)
LEMMA LastTurnFacts ==
  ASSUME NEW m \in Seq(Message)
  PROVE  \/ LastTurn(m) = 0
         \/ \E j \in DOMAIN m : m[j].role = "user" /\ LastTurn(m) = m[j].turn
<1> DEFINE S == {i \in 1..Len(m) : m[i].role = "user"}
           last == SelectLastInSeq(m, LAMBDA msg : msg.role = "user")
<1>1. last = IF S # {} THEN Max(S) ELSE 0
  BY DEF SelectLastInSeq
<1>2. S \in SUBSET Nat /\ Len(m) \in Nat /\ \A i \in S : i <= Len(m)
  BY LenProperties
<1>3. S # {} => Max(S) \in S
  <2> HIDE DEF S
  <2>. QED  BY <1>2, MaxFacts
<1>4. LastTurn(m) = IF last = 0 THEN 0 ELSE m[last].turn
  BY DEF LastTurn
<1>5. DOMAIN m = 1..Len(m)
  BY LenProperties
<1> HIDE DEF last
<1>. QED  BY <1>1, <1>3, <1>4, <1>5
(* That turn is one of the turns. *)
LEMMA LastTurnType ==
  ASSUME NEW m \in Seq(Message)
  PROVE  LastTurn(m) \in 0..MaxSends
<1>1. 0 \in 0..MaxSends
  BY ConstantsAssumption
<1>2. ASSUME NEW j \in DOMAIN m PROVE m[j].turn \in 0..MaxSends
  <2>1. m[j] \in Message
    BY LenProperties, ElementOfSeq
  <2>. QED  BY <2>1 DEF Message
<1>. QED  BY <1>1, <1>2, LastTurnFacts
(* A history with a message more. *)
LEMMA AppendedElements ==
  ASSUME NEW m \in Seq(Message), NEW msg \in Message
  PROVE  /\ Len(m) \in Nat /\ DOMAIN m = 1..Len(m)
         /\ DOMAIN Append(m, msg) = 1..(Len(m) + 1)
         /\ \A i \in 1..Len(m) : Append(m, msg)[i] = m[i]
         /\ Append(m, msg)[Len(m) + 1] = msg
         /\ \A i \in DOMAIN Append(m, msg) :
              \/ i \in DOMAIN m /\ Append(m, msg)[i] = m[i]
              \/ i = Len(m) + 1 /\ Append(m, msg)[i] = msg
<1> DEFINE s == Append(m, msg)
<1>1. /\ s \in Seq(Message) /\ Len(s) = Len(m) + 1
      /\ \A i \in 1..Len(m) : s[i] = m[i]
      /\ s[Len(m) + 1] = msg
  BY AppendProperties
<1>2. Len(m) \in Nat /\ DOMAIN m = 1..Len(m) /\ DOMAIN s = 1..Len(s)
  BY <1>1, LenProperties
<1> HIDE DEF s
<1>3. \A i \in 1..(Len(m) + 1) : i \in 1..Len(m) \/ i = Len(m) + 1
  BY <1>2
<1>4. DOMAIN s = 1..(Len(m) + 1)
  BY <1>1, <1>2
<1>. QED  BY <1>1, <1>2, <1>3, <1>4 DEF s
-----------------------------------------------------------------------------
(* The ledger *)

(* A row is a conversation. *)
LEMMA StoredType ==
  ASSUME TypeOK, NEW c \in ConvId
  PROVE  Stored(c) <=> convs[c] \in Conversation
BY AbsenceAssumption DEF TypeOK, Stored

(* What Append leaves in the ledger. *)
LEMMA AppendedFacts ==
  ASSUME TypeOK, NEW c \in ConvId, NEW batch \in Seq(Message),
         convs' = Appended(c, batch)
  PROVE  /\ convs' \in [ConvId -> Conversation \cup {NotStored}]
         /\ \A d \in ConvId \ {c} : convs'[d] = convs[d]
         /\ convs'[c] \in Conversation /\ convs'[c] # NotStored
         /\ convs'[c].messages =
              IF Stored(c) THEN convs[c].messages \o batch ELSE batch
         /\ Stored(c) => convs'[c].title = convs[c].title
<1>1. DeriveTitle(batch) \in Title
  BY DEF DeriveTitle, Title
<1>2. CASE ~Stored(c)
  <2> DEFINE row == [title |-> DeriveTitle(batch), messages |-> batch]
  <2>1. row \in Conversation /\ row.messages = batch
    BY <1>1 DEF Conversation
  <2>2. convs' = [convs EXCEPT ![c] = row]
    BY <1>2 DEF Appended
  <2> HIDE DEF row
  <2>. QED  BY <1>2, <2>1, <2>2, AbsenceAssumption DEF TypeOK
<1>3. CASE Stored(c)
  <2> DEFINE row == [title |-> convs[c].title, messages |-> convs[c].messages \o batch]
  <2>1. convs[c] \in Conversation
    BY <1>3, StoredType
  <2>2. convs[c].messages \o batch \in Seq(Message)
    BY <2>1, ConcatProperties DEF Conversation
  <2>3. /\ row \in Conversation /\ row.messages = convs[c].messages \o batch
        /\ row.title = convs[c].title
    BY <2>1, <2>2 DEF Conversation
  <2>4. convs' = [convs EXCEPT ![c] = row]
    BY <1>3 DEF Appended
  <2> HIDE DEF row
  <2>. QED  BY <1>3, <2>3, <2>4, AbsenceAssumption DEF TypeOK
<1>. QED  BY <1>2, <1>3

(* Append takes nothing away; a batch for its conversation is kept. *)
LEMMA AppendKeeps ==
  ASSUME TypeOK, NEW c \in ConvId, NEW batch \in Seq(Message),
         AppendToLedger(c, batch)
  PROVE  /\ convs' \in [ConvId -> Conversation \cup {NotStored}]
         /\ lost' \in SUBSET Message
         /\ \A d \in ConvId : Stored(d)' => Stored(d) \/ d = c
         /\ \A msg \in Message : Kept(msg) => Kept(msg)'
         /\ \A i \in DOMAIN batch : batch[i].conv = c => Kept(batch[i])'
         /\ LedgerNeverMixes /\ (\A i \in DOMAIN batch : batch[i].conv = c)
              => LedgerNeverMixes'
<1>0. /\ DOMAIN batch = 1..Len(batch) /\ Len(batch) \in Nat
      /\ \A i \in DOMAIN batch : batch[i] \in Message
  BY LenProperties, ElementOfSeq
<1>1. CASE lost' = lost \cup ToSet(batch) /\ UNCHANGED convs
  <2>1. \A i \in DOMAIN batch : batch[i] \in lost'
    BY <1>1 DEF ToSet
  <2>. QED
    BY <1>0, <1>1, <2>1 DEF TypeOK, Kept, Stores, Stored, LedgerNeverMixes, ToSet
<1>2. CASE convs' = Appended(c, batch) /\ UNCHANGED lost
  <2>1. /\ convs' \in [ConvId -> Conversation \cup {NotStored}]
        /\ \A d \in ConvId \ {c} : convs'[d] = convs[d]
        /\ convs'[c] # NotStored
        /\ convs'[c].messages = IF Stored(c) THEN convs[c].messages \o batch ELSE batch
    BY <1>2, AppendedFacts
  <2> DEFINE new == convs'[c].messages
             old == convs[c].messages
  <2>2. /\ Stored(c) => \A i \in DOMAIN old : \E j \in DOMAIN new : new[j] = old[i]
        /\ \A i \in DOMAIN batch : \E j \in DOMAIN new : new[j] = batch[i]
        /\ \A j \in DOMAIN new : \/ \E i \in DOMAIN batch : new[j] = batch[i]
                                 \/ Stored(c) /\ \E i \in DOMAIN old : new[j] = old[i]
    <3>1. CASE ~Stored(c)
      BY <2>1, <3>1
    <3>2. CASE Stored(c)
      <4>1. old \in Seq(Message) /\ new = old \o batch
        BY <2>1, <3>2, StoredType DEF Conversation
      <4> HIDE DEF old, new
      <4>2. /\ DOMAIN old = 1..Len(old) /\ Len(old) \in Nat
            /\ DOMAIN new = 1..(Len(old) + Len(batch))
            /\ \A i \in 1..Len(old) : new[i] = old[i]
            /\ \A i \in 1..Len(batch) : new[Len(old) + i] = batch[i]
        <5>1. new \in Seq(Message) /\ Len(new) = Len(old) + Len(batch)
          BY <4>1, ConcatElements
        <5>2. \A i \in 1..Len(old) : new[i] = old[i]
          BY <4>1, ConcatElements
        <5>3. \A i \in 1..Len(batch) : new[Len(old) + i] = batch[i]
          BY <4>1, ConcatElements
        <5>. QED  BY <4>1, <5>1, <5>2, <5>3, LenProperties
      <4>3. \A i \in 1..Len(batch) : Len(old) + i \in DOMAIN new
        BY <1>0, <4>2
      <4>4. ASSUME NEW j \in DOMAIN new, j \notin 1..Len(old)
            PROVE  \E i \in DOMAIN batch : new[j] = batch[i]
        <5>1. j - Len(old) \in 1..Len(batch) /\ Len(old) + (j - Len(old)) = j
          BY <1>0, <4>2, <4>4
        <5>. QED  BY <1>0, <4>2, <5>1
      <4>5. 1..Len(old) \subseteq DOMAIN new
        BY <1>0, <4>2
      <4>. QED  BY <1>0, <3>2, <4>2, <4>3, <4>4, <4>5
    <3>. QED  BY <3>1, <3>2
  <2> HIDE DEF new, old
  <2>3. /\ \A d \in ConvId \ {c} : Stored(d)' <=> Stored(d)
        /\ Stored(c)'
    BY <2>1 DEF Stored
  <2>4. ASSUME NEW msg \in Message, Kept(msg) PROVE Kept(msg)'
    <3>0. msg.conv \in ConvId
      BY DEF Message
    <3>1. CASE msg \in lost
      BY <1>2, <3>1 DEF Kept
    <3>2. CASE Stores(msg.conv, msg) /\ msg.conv # c
      BY <2>1, <2>3, <3>0, <3>2 DEF Kept, Stores
    <3>3. CASE Stores(msg.conv, msg) /\ msg.conv = c
      <4>1. \E j \in DOMAIN new : new[j] = msg
        BY <2>2, <3>3 DEF Stores, old
      <4>. QED  BY <2>3, <3>3, <4>1 DEF Kept, Stores, new
    <3>. QED  BY <2>4, <3>1, <3>2, <3>3 DEF Kept
  <2>5. \A i \in DOMAIN batch : batch[i].conv = c => Kept(batch[i])'
    BY <2>2, <2>3 DEF Kept, Stores, new
  <2>6. ASSUME LedgerNeverMixes, \A i \in DOMAIN batch : batch[i].conv = c
        PROVE  LedgerNeverMixes'
    <3>1. \A j \in DOMAIN new : new[j].conv = c
      <4>1. Stored(c) => \A i \in DOMAIN old : old[i].conv = c
        BY <2>6 DEF LedgerNeverMixes, old
      <4>. QED  BY <2>2, <2>6, <4>1
    <3>2. ASSUME NEW d \in ConvId \ {c}, Stored(d)'
          PROVE  \A i \in DOMAIN convs'[d].messages : convs'[d].messages[i].conv = d
      BY <2>1, <2>3, <2>6, <3>2 DEF LedgerNeverMixes
    <3>. QED  BY <3>1, <3>2 DEF LedgerNeverMixes, new
  <2>. QED  BY <1>2, <2>1, <2>3, <2>4, <2>5, <2>6 DEF TypeOK
<1>. QED  BY <1>1, <1>2 DEF AppendToLedger

(* A new name changes no message. *)
LEMMA RenameKeeps ==
  ASSUME TypeOK, NEW c \in ConvId, Rename(c)
  PROVE  /\ convs' \in [ConvId -> Conversation \cup {NotStored}]
         /\ \A d \in ConvId : /\ Stored(d)' <=> Stored(d)
                              /\ Stored(d) => convs'[d].messages = convs[d].messages
         /\ \A msg \in Message : Kept(msg) => Kept(msg)'
<1> DEFINE row == [convs[c] EXCEPT !.title = "given"]
<1>1. convs[c] \in Conversation
  BY StoredType DEF Rename
<1>2. row \in Conversation /\ row.messages = convs[c].messages
  BY <1>1 DEF Conversation, Title
<1>3. convs' = [convs EXCEPT ![c] = row] /\ UNCHANGED lost
  BY DEF Rename
<1> HIDE DEF row
<1>4. \A d \in ConvId : /\ Stored(d)' <=> Stored(d)
                        /\ Stored(d) => convs'[d].messages = convs[d].messages
  BY <1>1, <1>2, <1>3, AbsenceAssumption DEF TypeOK, Stored
<1>. QED  BY <1>2, <1>3, <1>4 DEF TypeOK, Kept, Stores, Message

(* What is deleted counts as lost. *)
LEMMA DeleteKeeps ==
  ASSUME TypeOK, NEW t \in Tab, Delete(t)
  PROVE  /\ convs' \in [ConvId -> Conversation \cup {NotStored}]
         /\ lost' \in SUBSET Message
         /\ \A d \in ConvId : Stored(d)' => Stored(d) /\ convs'[d] = convs[d]
         /\ \A msg \in Message : Kept(msg) => Kept(msg)'
<1> DEFINE c == deleting[t].conv
<1>1. c \in ConvId
  BY DEF TypeOK, Delete, Removal
<1>2. /\ lost' = lost \cup IF Stored(c) THEN ToSet(convs[c].messages) ELSE {}
      /\ convs' = [convs EXCEPT ![c] = NotStored]
  BY DEF Delete
<1> HIDE DEF c
<1>3. Stored(c) => convs[c].messages \in Seq(Message)
  BY <1>1, StoredType DEF Conversation
<1>4. /\ lost' \in SUBSET Message
      /\ Stored(c) => \A i \in DOMAIN convs[c].messages : convs[c].messages[i] \in lost'
      /\ lost \subseteq lost'
  BY <1>2, <1>3, ElementOfSeq DEF TypeOK, ToSet
<1>. QED  BY <1>1, <1>2, <1>4 DEF TypeOK, Kept, Stores, Stored, Message
-----------------------------------------------------------------------------
(* Requests *)

(* A call is in use or not. *)
LEMMA CallType ==
  ASSUME TypeOK, NEW k \in Call
  PROVE  calls[k] # NoCall <=> calls[k] \in Request
BY AbsenceAssumption DEF TypeOK

(* A request in use keeps what it was sent with when one side of it ends; it
   is out of use when both have. *)
LEMMA HandlerEndsFacts ==
  ASSUME TypeOK, NEW k \in Call, calls[k] # NoCall,
         NEW reply \in {"none", "answer", "empty", "error", "refused"},
         HandlerEnds(k, reply)
  PROVE  /\ calls' \in [Call -> Request \cup {NoCall}]
         /\ \A q \in Call \ {k} : calls'[q] = calls[q]
         /\ calls[k].waiting => calls'[k] # NoCall
         /\ calls'[k] # NoCall =>
              /\ calls'[k].tab = calls[k].tab /\ calls'[k].conv = calls[k].conv
              /\ calls'[k].messages = calls[k].messages
              /\ calls'[k].waiting = calls[k].waiting
              /\ calls'[k].server = "done" /\ calls'[k].reply = reply
<1> DEFINE r == [calls[k] EXCEPT !.server = "done", !.reply = reply]
<1>1. calls[k] \in Request
  BY CallType
<1>2. /\ r \in Request /\ r.server = "done" /\ r.reply = reply
      /\ r.tab = calls[k].tab /\ r.conv = calls[k].conv
      /\ r.messages = calls[k].messages /\ r.waiting = calls[k].waiting
  BY <1>1 DEF Request
<1>3. calls' = [calls EXCEPT ![k] = Settled(r)]
  BY DEF HandlerEnds
<1> HIDE DEF r
<1>4. calls'[k] = IF calls[k].waiting THEN r ELSE NoCall
  BY <1>2, <1>3 DEF Settled, TypeOK
<1>. QED  BY <1>2, <1>3, <1>4, AbsenceAssumption DEF TypeOK, Settled

LEMMA ClientEndsFacts ==
  ASSUME TypeOK, NEW k \in Call, Waiting(k), NEW h \in Seq(Message), ClientEnds(k, h)
  PROVE  /\ calls' \in [Call -> Request \cup {NoCall}]
         /\ \A q \in Call \ {k} : calls'[q] = calls[q]
         /\ calls'[k] # NoCall =>
              /\ calls'[k].tab = calls[k].tab /\ calls'[k].conv = calls[k].conv
              /\ calls'[k].messages = calls[k].messages
              /\ ~calls'[k].waiting
              /\ calls'[k].server = calls[k].server /\ calls'[k].reply = calls[k].reply
         /\ calls[k].tab \in Tab
         /\ history' \in [Tab -> Seq(Message)]
         /\ history'[calls[k].tab] = history[calls[k].tab] \o h
         /\ \A t \in Tab \ {calls[k].tab} : history'[t] = history[t]
         /\ busy' \in [Tab -> BOOLEAN] /\ current' \in [Tab -> Call \cup {NoCall}]
         /\ current'[calls[k].tab] = NoCall
         /\ \A t \in Tab \ {calls[k].tab} : current'[t] = current[t]
         /\ \A t \in Tab : busy'[t] <=> current'[t] # NoCall
<1> DEFINE r == [calls[k] EXCEPT !.waiting = FALSE]
<1>1. calls[k] \in Request
  BY CallType DEF Waiting
<1>2. /\ r \in Request /\ r.server = calls[k].server /\ r.reply = calls[k].reply
      /\ r.tab = calls[k].tab /\ r.conv = calls[k].conv
      /\ r.messages = calls[k].messages /\ ~r.waiting
  BY <1>1 DEF Request
<1>3. calls' = [calls EXCEPT ![k] = Settled(r)]
  BY DEF ClientEnds
<1> HIDE DEF r
<1>4. calls'[k] \in {r, NoCall}
  BY <1>3 DEF Settled, TypeOK
<1>5. /\ calls' \in [Call -> Request \cup {NoCall}]
      /\ \A q \in Call \ {k} : calls'[q] = calls[q]
      /\ calls'[k] # NoCall => calls'[k] = r
  BY <1>2, <1>3, <1>4 DEF TypeOK, Settled
<1> DEFINE t == calls[k].tab
<1>6. t \in Tab
  BY <1>1 DEF Request
<1>7. /\ history' = [history EXCEPT ![t] = @ \o h]
      /\ busy' = [busy EXCEPT ![t] = FALSE]
      /\ current' = [current EXCEPT ![t] = NoCall]
  BY DEF ClientEnds
<1>8. history[t] \o h \in Seq(Message)
  BY <1>6, ConcatProperties DEF TypeOK
<1>. QED  BY <1>2, <1>5, <1>6, <1>7, <1>8 DEF TypeOK

(* A request that is sent is new, and the page waits for it. *)
LEMMA StartFetchFacts ==
  ASSUME TypeOK, NEW t \in Tab, NEW k \in Call, NEW retry \in BOOLEAN,
         NEW c \in ConvId, NEW h \in Seq(Message), StartFetch(t, k, retry, c, h)
  PROVE  /\ sends' \in 0..MaxSends
         /\ calls' \in [Call -> Request \cup {NoCall}]
         /\ \A q \in Call \ {k} : calls'[q] = calls[q]
         /\ calls[k] = NoCall /\ calls'[k] # NoCall
         /\ calls'[k].tab = t /\ calls'[k].conv = c /\ calls'[k].messages = h
         /\ calls'[k].server = "prepare" /\ calls'[k].reply = "none"
         /\ calls'[k].waiting
         /\ busy' \in [Tab -> BOOLEAN] /\ current' \in [Tab -> Call \cup {NoCall}]
         /\ current'[t] = k
         /\ \A u \in Tab \ {t} : current'[u] = current[u]
         /\ \A u \in Tab : busy'[u] <=> current'[u] # NoCall
<1> DEFINE r == [tab |-> t, retry |-> retry, conv |-> c, messages |-> h,
                 server |-> "prepare", waiting |-> TRUE, reply |-> "none"]
<1>1. /\ r \in Request
      /\ r.tab = t /\ r.conv = c /\ r.messages = h
      /\ r.server = "prepare" /\ r.reply = "none" /\ r.waiting
  BY DEF Request
<1>2. calls' = [calls EXCEPT ![k] = r]
  BY DEF StartFetch
<1> HIDE DEF r
<1>3. sends' \in 0..MaxSends
  BY ConstantsAssumption DEF TypeOK, StartFetch
<1>4. k # NoCall
  BY ConstantsAssumption
<1>5. /\ calls' \in [Call -> Request \cup {NoCall}]
      /\ \A q \in Call \ {k} : calls'[q] = calls[q]
      /\ calls'[k] = r
  BY <1>1, <1>2 DEF TypeOK
<1>6. calls[k] = NoCall /\ r # NoCall
  BY <1>1, AbsenceAssumption DEF StartFetch
<1>7. /\ busy' = [busy EXCEPT ![t] = TRUE]
      /\ current' = [current EXCEPT ![t] = k]
  BY DEF StartFetch
<1>8. /\ busy' \in [Tab -> BOOLEAN]
      /\ busy'[t] = TRUE /\ \A u \in Tab \ {t} : busy'[u] = busy[u]
  BY <1>7 DEF TypeOK
<1>9. /\ current' \in [Tab -> Call \cup {NoCall}]
      /\ current'[t] = k /\ \A u \in Tab \ {t} : current'[u] = current[u]
  BY <1>7 DEF TypeOK
<1>10. \A u \in Tab : busy'[u] <=> current'[u] # NoCall
  BY <1>4, <1>8, <1>9 DEF TypeOK
<1>. QED  BY <1>1, <1>3, <1>5, <1>6, <1>8, <1>9, <1>10

-----------------------------------------------------------------------------
(* Types *)

LEMMA InitInv == Init => WebChatInv
<1> SUFFICES ASSUME Init PROVE WebChatInv
  OBVIOUS
<1>1. TypeOK
  <2>1. <<>> \in Seq(Message) /\ 0 \in 0..MaxSends
    BY ConstantsAssumption
  <2>. QED  BY <2>1 DEF Init, TypeOK
<1>2. \A t \in Tab : history[t] = <<>> /\ DOMAIN history[t] = {}
  BY DEF Init
<1>3. IdsAreDrawn
  BY DEF Init, IdsAreDrawn, Stored
<1>4. Controllers /\ OwnMessages /\ AnswersKept
  BY <1>2
  DEF Init, Controllers, OwnMessages, PageOwns, CallOwns, LoadsOwn, LedgerNeverMixes, Stored, AnswersKept, ShownAnswersAreStored
<1>5. QuestionsKept
  BY <1>2 DEF Init, QuestionsKept, AnswerFollowsQuestion, Stored, AnsweredKept
<1>. QED  BY <1>1, <1>3, <1>4, <1>5 DEF WebChatInv

(* What a page that sends or retries does: the request carries its history,
   to which a message was added or not, and the conversation that the page
   shows from then on.  A page that was busy is in a hurry from then on, and
   the turns it shows are doubtful, as is every turn such a page sends. *)
LEMMA SendEffects ==
  ASSUME TypeOK, NEW t \in Tab, NEW k \in Call, Send(t, k) \/ Retry(t, k)
  PROVE  \E c \in Addressed(t), retry \in BOOLEAN, h \in Seq(Message) :
           /\ c \in ConvId
           /\ drawn' = drawn \cup {c}
           /\ active' = [active EXCEPT ![t] = c]
           /\ StartFetch(t, k, retry, c, h)
           /\ history' = [history EXCEPT ![t] = h]
           /\ \/ h = history[t]
              \/ \E msg \in Message : /\ msg.role = "user" /\ msg.conv = c
                                      /\ h = Append(history[t], msg)
                                      /\ ~busy[t]
                                      /\ t \in hurried => msg.turn \in doubtful'
           /\ hurried' \in SUBSET Tab /\ hurried \subseteq hurried'
           /\ hurried' \subseteq hurried \cup {t}
           /\ doubtful' \in SUBSET (0..MaxSends) /\ doubtful \subseteq doubtful'
           /\ busy[t] => t \in hurried' /\ Turns(history[t]) \subseteq doubtful'
           /\ ~busy[t] => hurried' = hurried
           /\ UNCHANGED <<convs, retryable, navVars, lost>>
<1>1. \A c \in Addressed(t) : c \in ConvId
  BY DEF Addressed, TypeOK
<1>2. history[t] \in Seq(Message)
  BY DEF TypeOK
<1>3. CASE Retry(t, k)
  <2>1. [history EXCEPT ![t] = history[t]] = history
    BY DEF TypeOK
  <2>2. Turns(history[t]) \in SUBSET (0..MaxSends)
    <3>1. \A i \in DOMAIN history[t] : history[t][i] \in Message
      BY <1>2, ElementOfSeq, LenProperties
    <3>2. \A i \in DOMAIN history[t] : history[t][i].turn \in 0..MaxSends
      BY <3>1 DEF Message
    <3>. QED  BY <3>2 DEF Turns
  <2>3. /\ hurried' = hurried \cup (IF busy[t] THEN {t} ELSE {})
        /\ doubtful' = doubtful \cup (IF busy[t] THEN Turns(history[t]) ELSE {})
    BY <1>3 DEF Retry
  <2>4. /\ hurried' \in SUBSET Tab /\ hurried \subseteq hurried'
        /\ hurried' \subseteq hurried \cup {t}
        /\ doubtful' \in SUBSET (0..MaxSends) /\ doubtful \subseteq doubtful'
        /\ busy[t] => t \in hurried' /\ Turns(history[t]) \subseteq doubtful'
        /\ ~busy[t] => hurried' = hurried
    BY <2>2, <2>3 DEF TypeOK
  <2>5. PICK c \in Addressed(t) :
          /\ drawn' = drawn \cup {c}
          /\ active' = [active EXCEPT ![t] = c]
          /\ StartFetch(t, k, TRUE, c, history[t])
    BY <1>3 DEF Retry
  <2>6. UNCHANGED <<convs, history, retryable, navVars, lost>>
    BY <1>3 DEF Retry
  <2>. QED  BY <1>1, <1>2, <2>1, <2>4, <2>5, <2>6
<1>4. CASE Send(t, k)
  <2>1. PICK c \in Addressed(t) :
          LET msg == [role |-> "user", turn |-> sends + 1, conv |-> c]
          IN  /\ drawn' = drawn \cup {c}
              /\ active' = [active EXCEPT ![t] = c]
              /\ history' = [history EXCEPT ![t] = Append(@, msg)]
              /\ StartFetch(t, k, FALSE, c, Append(history[t], msg))
    BY <1>4 DEF Send
  <2> DEFINE msg == [role |-> "user", turn |-> sends + 1, conv |-> c]
             h == Append(history[t], msg)
  <2>2. sends < MaxSends /\ sends + 1 \in 0..MaxSends
    BY <2>1, ConstantsAssumption DEF StartFetch, TypeOK
  <2>3. msg \in Message /\ msg.role = "user" /\ msg.conv = c /\ msg.turn = sends + 1
    BY <1>1, <2>2 DEF Message
  <2>4. history' = [history EXCEPT ![t] = h] /\ StartFetch(t, k, FALSE, c, h)
    BY <2>1
  <2>5. ~busy[t] /\ UNCHANGED <<convs, retryable, navVars, lost, hurried>>
    BY <1>4 DEF Send
  <2> HIDE DEF msg
  <2>6. h \in Seq(Message) /\ h = Append(history[t], msg)
    BY <1>2, <2>3, AppendProperties
  <2> HIDE DEF h
  <2>7. doubtful' = doubtful \cup (IF t \in hurried THEN {sends + 1} ELSE {})
    BY <1>4 DEF Send
  <2>8. /\ hurried' \in SUBSET Tab
        /\ doubtful' \in SUBSET (0..MaxSends) /\ doubtful \subseteq doubtful'
        /\ t \in hurried => msg.turn \in doubtful'
    BY <2>2, <2>3, <2>5, <2>7 DEF TypeOK
  <2>9. \/ h = history[t]
        \/ \E x \in Message : /\ x.role = "user" /\ x.conv = c
                              /\ h = Append(history[t], x)
                              /\ ~busy[t]
                              /\ t \in hurried => x.turn \in doubtful'
    BY <2>3, <2>5, <2>6, <2>8
  <2>. QED  BY <1>1, <2>1, <2>4, <2>5, <2>6, <2>8, <2>9
<1>. QED  BY <1>3, <1>4

\* A page no longer waits for request q: it adds the text of the answer, or of
\* the failure, to its history, or nothing.
ClientReturns(q) ==
  \E h \in Seq(Message) :
    /\ Waiting(q) /\ ClientEnds(q, h)
    /\ retryable' \in [Tab -> BOOLEAN]
    /\ UNCHANGED <<convs, sends, drawn, active, navVars, lost, hurry>>
    /\ \/ history'[calls[q].tab] = history[calls[q].tab]
       \/ \E msg \in Message :
            /\ calls[q].reply \in {"answer", "error"}
            /\ msg.role = calls[q].reply
            /\ msg.role = "answer" => msg = AnswerTo(calls[q])
            /\ history'[calls[q].tab] = Append(history[calls[q].tab], msg)

(* Every way to end the client side of a call is of that kind. *)
LEMMA ClientEffects ==
  ASSUME TypeOK, Controllers,
         \/ \E k \in Call : Receive(k) \/ FetchFails(k)
         \/ \E t \in Tab : Abort(t)
  PROVE  \E q \in Call : ClientReturns(q)
<1>0. <<>> \in Seq(Message)
  OBVIOUS
<1>1. \A q \in Call :
        Waiting(q) => /\ calls[q] \in Request /\ calls[q].conv \in ConvId
                      /\ calls[q].tab \in Tab /\ calls[q].messages \in Seq(Message)
  BY CallType DEF Waiting, Request
<1>2. ASSUME NEW q \in Call, Waiting(q), ClientEnds(q, <<>>)
      PROVE  history'[calls[q].tab] = history[calls[q].tab]
  <2>1. history'[calls[q].tab] = history[calls[q].tab] \o <<>>
    BY <1>0, <1>2, ClientEndsFacts
  <2>2. history[calls[q].tab] \in Seq(Message)
    BY <1>1, <1>2 DEF TypeOK
  <2>. QED  BY <2>1, <2>2, ConcatEmptySeq
<1>3. ASSUME NEW k \in Call, FetchFails(k)
      PROVE  \E q \in Call : ClientReturns(q)
  <2>1. calls[k].tab \in Tab
    BY <1>1, <1>3 DEF FetchFails
  <2> DEFINE button == retryable[calls[k].tab] \/ ~calls[k].retry
  <2>2. button \in BOOLEAN
    OBVIOUS
  <2>3. retryable' = [retryable EXCEPT ![calls[k].tab] = button]
    BY <1>3 DEF FetchFails
  <2> HIDE DEF button
  <2>4. retryable' \in [Tab -> BOOLEAN]
    BY <2>1, <2>2, <2>3 DEF TypeOK
  <2>. QED  BY <1>0, <1>2, <1>3, <2>4 DEF FetchFails, ClientReturns
<1>4. ASSUME NEW t \in Tab, Abort(t)
      PROVE  \E q \in Call : ClientReturns(q)
  <2>1. current[t] \in Call /\ Waiting(current[t])
    BY <1>4 DEF Abort, Controllers, TypeOK
  <2>2. retryable' \in [Tab -> BOOLEAN]
    BY <1>4 DEF Abort, TypeOK
  <2>. QED  BY <1>0, <1>2, <1>4, <2>1, <2>2 DEF Abort, ClientReturns
<1>5. ASSUME NEW k \in Call, Receive(k)
      PROVE  \E q \in Call : ClientReturns(q)
  <2> DEFINE msg == [role |-> calls[k].reply, turn |-> LastTurn(calls[k].messages),
                     conv |-> calls[k].conv]
  <2>1. /\ Waiting(k)
        /\ UNCHANGED <<convs, sends, drawn, active, retryable, navVars, lost, hurry>>
        /\ \/ calls[k].reply \in {"answer", "error"} /\ ClientEnds(k, <<msg>>)
           \/ ClientEnds(k, <<>>)
    BY <1>5 DEF Receive
  <2>2. retryable' \in [Tab -> BOOLEAN]
    BY <2>1 DEF TypeOK
  <2>3. CASE ClientEnds(k, <<>>)
    BY <1>0, <1>2, <2>1, <2>2, <2>3 DEF ClientReturns
  <2>4. CASE calls[k].reply \in {"answer", "error"} /\ ClientEnds(k, <<msg>>)
    <3>1. LastTurn(calls[k].messages) \in 0..MaxSends
      BY <1>1, <2>1, LastTurnType
    <3>2. /\ msg \in Message /\ msg.role = calls[k].reply
          /\ msg.role = "answer" => msg = AnswerTo(calls[k])
      BY <1>1, <2>1, <2>4, <3>1 DEF Message, AnswerTo
    <3> HIDE DEF msg
    <3>3. <<msg>> \in Seq(Message)
      BY <3>2
    <3>4. history'[calls[k].tab] = history[calls[k].tab] \o <<msg>>
      BY <2>1, <2>4, <3>3, ClientEndsFacts
    <3>5. history'[calls[k].tab] = Append(history[calls[k].tab], msg)
      <4>1. history[calls[k].tab] \in Seq(Message)
        BY <1>1, <2>1 DEF TypeOK
      <4>. QED  BY <3>2, <3>4, <4>1, AppendIsConcat
    <3>. QED  BY <2>1, <2>2, <2>4, <3>2, <3>3, <3>5 DEF ClientReturns
  <2>. QED  BY <2>1, <2>3, <2>4
<1>. QED  BY <1>3, <1>4, <1>5

\* The messages that the ledger has, or had to give up.
KeptMessages == {msg \in Message : Kept(msg)}

(* No step breaks the types, and none loses a message that is kept. *)
LEMMA NextType ==
  ASSUME TypeOK, IdsAreDrawn, Controllers, Next
  PROVE  /\ TypeOK' /\ IdsAreDrawn' /\ Controllers'
         /\ \A msg \in Message : Kept(msg) => Kept(msg)'
<1> USE AbsenceAssumption DEF hurry
<1>0. <<>> \in Seq(Message)
  OBVIOUS
<1>a. /\ \A c \in ConvId : Stored(c) => convs[c].messages \in Seq(Message)
      /\ \A k \in Call : calls[k] # NoCall =>
           /\ calls[k] \in Request /\ calls[k].conv \in ConvId \cap drawn
           /\ calls[k].tab \in Tab /\ calls[k].messages \in Seq(Message)
  BY StoredType, CallType DEF Conversation, Request, IdsAreDrawn
<1>c. \A u \in Tab :
        current[u] # NoCall =>
          /\ current[u] \in Call /\ calls[current[u]] # NoCall
          /\ calls[current[u]].waiting /\ calls[current[u]].tab = u
  BY DEF Controllers, Waiting, TypeOK
<1>b. ASSUME UNCHANGED <<convs, lost>> PROVE \A msg \in Message : Kept(msg) => Kept(msg)'
  BY <1>b DEF Kept, Stores, Stored
<1>1. ASSUME NEW t \in Tab, NEW k \in Call, Send(t, k) \/ Retry(t, k)
      PROVE  TypeOK' /\ IdsAreDrawn' /\ Controllers' /\ UNCHANGED <<convs, lost>>
  <2>1. PICK c \in Addressed(t), retry \in BOOLEAN, h \in Seq(Message) :
          /\ c \in ConvId
          /\ drawn' = drawn \cup {c}
          /\ active' = [active EXCEPT ![t] = c]
          /\ StartFetch(t, k, retry, c, h)
          /\ history' = [history EXCEPT ![t] = h]
          /\ hurried' \in SUBSET Tab /\ doubtful' \in SUBSET (0..MaxSends)
          /\ UNCHANGED <<convs, retryable, navVars, lost>>
    BY <1>1, SendEffects
  <2>3. /\ sends' \in 0..MaxSends
        /\ calls' \in [Call -> Request \cup {NoCall}]
        /\ \A q \in Call \ {k} : calls'[q] = calls[q]
        /\ calls[k] = NoCall /\ calls'[k] # NoCall
        /\ calls'[k].tab = t /\ calls'[k].conv = c /\ calls'[k].waiting
        /\ busy' \in [Tab -> BOOLEAN] /\ current' \in [Tab -> Call \cup {NoCall}]
        /\ current'[t] = k
        /\ \A u \in Tab \ {t} : current'[u] = current[u]
        /\ \A u \in Tab : busy'[u] <=> current'[u] # NoCall
    BY <2>1, StartFetchFacts
  <2>4. TypeOK'
    <3>1. active' \in [Tab -> drawn' \cup {NoConv}]
      BY <2>1 DEF TypeOK
    <3>2. drawn' \in SUBSET ConvId /\ history' \in [Tab -> Seq(Message)]
      BY <2>1 DEF TypeOK
    <3>. QED  BY <2>1, <2>3, <3>1, <3>2 DEF TypeOK, navVars
  <2>5. IdsAreDrawn'
    BY <2>1, <2>3 DEF IdsAreDrawn, Stored, navVars
  <2>6. Controllers'
    <3>1. ASSUME NEW u \in Tab \ {t}, current'[u] # NoCall
          PROVE  calls'[current'[u]] = calls[current[u]] /\ current'[u] = current[u]
      BY <1>c, <2>3, <3>1
    <3>. QED  BY <1>c, <2>3, <3>1 DEF Controllers, Waiting
  <2>. QED  BY <2>1, <2>4, <2>5, <2>6
<1>2. ASSUME NEW k \in Call, NEW reply \in {"none", "answer", "empty", "error", "refused"},
             calls[k] # NoCall, HandlerEnds(k, reply),
             UNCHANGED <<sends, drawn, pageVars, navVars, hurry>>,
             convs' \in [ConvId -> Conversation \cup {NotStored}], lost' \in SUBSET Message,
             \A c \in ConvId : Stored(c)' => Stored(c) \/ c = calls[k].conv
      PROVE  TypeOK' /\ IdsAreDrawn' /\ Controllers'
  <2>1. /\ calls' \in [Call -> Request \cup {NoCall}]
        /\ \A q \in Call \ {k} : calls'[q] = calls[q]
        /\ calls[k].waiting => calls'[k] # NoCall
        /\ calls'[k] # NoCall => /\ calls'[k].tab = calls[k].tab
                                /\ calls'[k].conv = calls[k].conv
                                /\ calls'[k].waiting = calls[k].waiting
    BY <1>2, HandlerEndsFacts
  <2>2. TypeOK'
    BY <1>2, <2>1 DEF TypeOK, pageVars, navVars
  <2>3. IdsAreDrawn'
    BY <1>a, <1>2, <2>1 DEF IdsAreDrawn, pageVars, navVars
  <2>4. Controllers'
    <3>1. current' = current
      BY <1>2 DEF pageVars
    <3>. QED  BY <1>c, <2>1, <3>1 DEF Controllers, Waiting
  <2>. QED  BY <2>2, <2>3, <2>4
<1>3. ASSUME NEW k \in Call, PrepareFails(k) \/ RunEndsUnrecorded(k) \/ HandlerDies(k)
      PROVE  TypeOK' /\ IdsAreDrawn' /\ Controllers' /\ UNCHANGED <<convs, lost>>
  <2>1. /\ calls[k] # NoCall /\ UNCHANGED <<convs, sends, drawn, pageVars, navVars, lost, hurry>>
        /\ \E reply \in {"none", "answer", "empty", "error", "refused"} : HandlerEnds(k, reply)
    BY <1>3 DEF PrepareFails, RunEndsUnrecorded, HandlerDies, At
  <2>. QED  BY <1>2, <2>1 DEF TypeOK, Stored
<1>4. ASSUME NEW k \in Call, RecordUserTurn(k)
      PROVE  /\ TypeOK' /\ IdsAreDrawn' /\ Controllers'
             /\ \A msg \in Message : Kept(msg) => Kept(msg)'
  <2> DEFINE r == [calls[k] EXCEPT !.server = "run"]
  <2>1. calls[k] # NoCall /\ calls[k] \in Request
    BY <1>a, <1>4 DEF RecordUserTurn, At
  <2>2. /\ r \in Request /\ r # NoCall /\ r.tab = calls[k].tab
        /\ r.conv = calls[k].conv /\ r.waiting = calls[k].waiting
    BY <2>1 DEF Request
  <2>3. calls' = [calls EXCEPT ![k] = r]
    BY <1>4 DEF RecordUserTurn
  <2>4. UNCHANGED <<sends, drawn, pageVars, navVars, hurry>>
    BY <1>4 DEF RecordUserTurn
  <2> HIDE DEF r
  <2>5. /\ calls' \in [Call -> Request \cup {NoCall}] /\ calls'[k] = r
        /\ \A q \in Call \ {k} : calls'[q] = calls[q]
    BY <2>2, <2>3 DEF TypeOK
  <2>6. /\ convs' \in [ConvId -> Conversation \cup {NotStored}] /\ lost' \in SUBSET Message
        /\ \A c \in ConvId : Stored(c)' => Stored(c) \/ c = calls[k].conv
        /\ \A msg \in Message : Kept(msg) => Kept(msg)'
    <3> DEFINE batch == TrailingUserMessages(calls[k].messages)
    <3>1. batch \in Seq(Message) /\ calls[k].conv \in ConvId
      BY <1>a, <2>1, TrailingFacts
    <3>2. (batch = <<>> /\ UNCHANGED <<convs, lost>>) \/ AppendToLedger(calls[k].conv, batch)
      BY <1>4 DEF RecordUserTurn
    <3> HIDE DEF batch
    <3>. QED  BY <1>b, <3>1, <3>2, AppendKeeps DEF TypeOK, Stored
  <2>7. TypeOK'
    BY <2>4, <2>5, <2>6 DEF TypeOK, pageVars, navVars
  <2>8. IdsAreDrawn'
    BY <1>a, <2>1, <2>2, <2>4, <2>5, <2>6 DEF IdsAreDrawn, navVars
  <2>9. Controllers'
    <3>1. current' = current
      BY <2>4 DEF pageVars
    <3>. QED  BY <1>c, <2>2, <2>5, <3>1 DEF Controllers, Waiting
  <2>. QED  BY <2>6, <2>7, <2>8, <2>9
<1>5. ASSUME NEW k \in Call, RecordAssistantTurn(k)
      PROVE  /\ TypeOK' /\ IdsAreDrawn' /\ Controllers'
             /\ \A msg \in Message : Kept(msg) => Kept(msg)'
  <2> DEFINE msg == [role |-> "answer", turn |-> LastTurn(calls[k].messages),
                     conv |-> calls[k].conv]
  <2>1. calls[k] # NoCall
    BY <1>5 DEF RecordAssistantTurn, At
  <2>2. msg \in Message
    BY <1>a, <2>1, LastTurnType DEF Message
  <2>3. /\ AppendToLedger(calls[k].conv, <<msg>>) /\ HandlerEnds(k, "answer")
        /\ UNCHANGED <<sends, drawn, pageVars, navVars, hurry>>
    BY <1>5 DEF RecordAssistantTurn
  <2> HIDE DEF msg
  <2>4. <<msg>> \in Seq(Message)
    BY <2>2
  <2>5. /\ convs' \in [ConvId -> Conversation \cup {NotStored}] /\ lost' \in SUBSET Message
        /\ \A c \in ConvId : Stored(c)' => Stored(c) \/ c = calls[k].conv
        /\ \A m \in Message : Kept(m) => Kept(m)'
    BY <1>a, <2>1, <2>3, <2>4, AppendKeeps
  <2>. QED  BY <1>2, <2>1, <2>3, <2>5
<1>6. ASSUME NEW k \in Call, NEW h \in Seq(Message), Waiting(k), ClientEnds(k, h),
             retryable' \in [Tab -> BOOLEAN],
             UNCHANGED <<convs, sends, drawn, active, navVars, lost, hurry>>
      PROVE  TypeOK' /\ IdsAreDrawn' /\ Controllers'
  <2>1. /\ calls' \in [Call -> Request \cup {NoCall}]
        /\ \A q \in Call \ {k} : calls'[q] = calls[q]
        /\ calls'[k] # NoCall => calls'[k].conv = calls[k].conv
        /\ calls[k].tab \in Tab
        /\ history' \in [Tab -> Seq(Message)]
        /\ busy' \in [Tab -> BOOLEAN] /\ current' \in [Tab -> Call \cup {NoCall}]
        /\ current'[calls[k].tab] = NoCall
        /\ \A t \in Tab \ {calls[k].tab} : current'[t] = current[t]
        /\ \A t \in Tab : busy'[t] <=> current'[t] # NoCall
    BY <1>6, ClientEndsFacts
  <2>2. TypeOK'
    BY <1>6, <2>1 DEF TypeOK, navVars
  <2>3. IdsAreDrawn'
    BY <1>6, <2>1 DEF IdsAreDrawn, navVars, Stored, Waiting
  <2>4. Controllers'
    <3>1. ASSUME NEW u \in Tab, current'[u] # NoCall
          PROVE  calls'[current'[u]] = calls[current[u]] /\ current'[u] = current[u]
      BY <1>c, <2>1, <3>1
    <3>. QED  BY <1>c, <3>1 DEF Controllers, Waiting
  <2>. QED  BY <2>2, <2>3, <2>4
<1>7. ASSUME \/ \E k \in Call : Receive(k) \/ FetchFails(k)
             \/ \E t \in Tab : Abort(t)
      PROVE  TypeOK' /\ IdsAreDrawn' /\ Controllers' /\ UNCHANGED <<convs, lost>>
  BY <1>6, <1>7, ClientEffects DEF ClientReturns
<1>8. ASSUME NEW t \in Tab, NewChat(t)
      PROVE  TypeOK' /\ IdsAreDrawn' /\ Controllers' /\ UNCHANGED <<convs, lost>>
  <2>1. PICK c \in ConvId \ drawn : drawn' = drawn \cup {c} /\ Show(t, c, <<>>)
    BY <1>8 DEF NewChat
  <2>2. active' \in [Tab -> drawn' \cup {NoConv}] /\ drawn' \in SUBSET ConvId
    BY <2>1 DEF Show, TypeOK
  <2>3. history' \in [Tab -> Seq(Message)] /\ retryable' \in [Tab -> BOOLEAN]
    BY <1>0, <2>1 DEF Show, TypeOK
  <2>4. UNCHANGED <<convs, sends, busy, current, navVars, calls, lost, hurry>>
    BY <1>8 DEF NewChat
  <2>. QED
    BY <2>1, <2>2, <2>3, <2>4
    DEF TypeOK, navVars, IdsAreDrawn, Stored, Controllers, Waiting
<1>9. ASSUME NEW t \in Tab, ShowSelected(t)
       PROVE  TypeOK' /\ IdsAreDrawn' /\ Controllers' /\ UNCHANGED <<convs, lost>>
  <2>1. opening[t] \in Fetch /\ opening[t] # NoFetch
    BY <1>9 DEF ShowSelected, Opening, TypeOK
  <2>2. opening[t].conv \in drawn /\ opening[t].messages \in Seq(Message)
    BY <2>1 DEF IdsAreDrawn, Fetch
  <2>3. /\ Show(t, opening[t].conv, opening[t].messages)
        /\ opening' = [opening EXCEPT ![t] = NoFetch]
        /\ UNCHANGED <<convs, sends, drawn, busy, current, deleting, calls, lost, hurry>>
    BY <1>9 DEF ShowSelected
  <2>4. active' \in [Tab -> drawn' \cup {NoConv}] /\ opening' \in [Tab -> Fetch \cup {NoFetch}]
    BY <2>2, <2>3 DEF Show, TypeOK
  <2>5. history' \in [Tab -> Seq(Message)] /\ retryable' \in [Tab -> BOOLEAN]
    BY <2>2, <2>3 DEF Show, TypeOK
  <2>6. IdsAreDrawn'
    BY <2>3 DEF IdsAreDrawn, Stored, TypeOK
  <2>. QED
    BY <2>3, <2>4, <2>5, <2>6 DEF TypeOK, Controllers, Waiting
<1>10. ASSUME NEW t \in Tab, ForgetDeleted(t)
       PROVE  TypeOK' /\ IdsAreDrawn' /\ Controllers' /\ UNCHANGED <<convs, lost>>
  <2>1. /\ active' \in [Tab -> drawn \cup {NoConv}]
        /\ history' \in [Tab -> Seq(Message)] /\ retryable' \in [Tab -> BOOLEAN]
    BY <1>0, <1>10 DEF ForgetDeleted, Show, TypeOK
  <2>2. /\ deleting' = [deleting EXCEPT ![t] = NoFetch]
        /\ UNCHANGED <<convs, sends, drawn, busy, current, opening, calls, lost, hurry>>
    BY <1>10 DEF ForgetDeleted
  <2>. QED
    BY <2>1, <2>2 DEF TypeOK, IdsAreDrawn, Stored, Controllers, Waiting
<1>11. ASSUME NEW t \in Tab, opening' \in [Tab -> Fetch \cup {NoFetch}],
              \A u \in Tab : opening'[u] # NoFetch => opening'[u].conv \in drawn,
              UNCHANGED <<convs, sends, drawn, pageVars, deleting, calls, lost, hurry>>
       PROVE  TypeOK' /\ IdsAreDrawn' /\ Controllers' /\ UNCHANGED <<convs, lost>>
  BY <1>11 DEF TypeOK, IdsAreDrawn, Stored, Controllers, Waiting, pageVars
<1>12. ASSUME NEW t \in Tab, NEW c \in ConvId, Select(t, c)
       PROVE  TypeOK' /\ IdsAreDrawn' /\ Controllers' /\ UNCHANGED <<convs, lost>>
  <2> DEFINE f == [conv |-> c, stage |-> "row", messages |-> <<>>]
  <2>1. f \in Fetch /\ f.conv = c
    BY <1>0 DEF Fetch
  <2>2. opening' = [opening EXCEPT ![t] = f] /\ c \in drawn
    BY <1>12 DEF Select, IdsAreDrawn
  <2>3. UNCHANGED <<convs, sends, drawn, pageVars, deleting, calls, lost, hurry>>
    BY <1>12 DEF Select
  <2> HIDE DEF f
  <2>4. /\ opening' \in [Tab -> Fetch \cup {NoFetch}]
        /\ \A u \in Tab : opening'[u] # NoFetch => opening'[u].conv \in drawn
    BY <2>1, <2>2 DEF TypeOK, IdsAreDrawn
  <2>. QED  BY <1>11, <2>3, <2>4
<1>13. ASSUME NEW t \in Tab, GetConversationRow(t)
       PROVE  TypeOK' /\ IdsAreDrawn' /\ Controllers' /\ UNCHANGED <<convs, lost>>
  <2> DEFINE f == IF Stored(opening[t].conv)
                    THEN [opening[t] EXCEPT !.stage = "messages"] ELSE NoFetch
  <2>1. opening[t] \in Fetch /\ opening[t].conv \in drawn
    BY <1>13 DEF GetConversationRow, Opening, TypeOK, IdsAreDrawn
  <2>2. f \in Fetch \cup {NoFetch} /\ (f # NoFetch => f.conv \in drawn)
    BY <2>1 DEF Fetch
  <2>3. opening' = [opening EXCEPT ![t] = f]
    BY <1>13 DEF GetConversationRow
  <2>4. UNCHANGED <<convs, sends, drawn, pageVars, deleting, calls, lost, hurry>>
    BY <1>13 DEF GetConversationRow
  <2> HIDE DEF f
  <2>5. /\ opening' \in [Tab -> Fetch \cup {NoFetch}]
        /\ \A u \in Tab : opening'[u] # NoFetch => opening'[u].conv \in drawn
    BY <2>2, <2>3 DEF TypeOK, IdsAreDrawn
  <2>. QED  BY <1>11, <2>4, <2>5
<1>14. ASSUME NEW t \in Tab, LoadMessages(t)
       PROVE  TypeOK' /\ IdsAreDrawn' /\ Controllers' /\ UNCHANGED <<convs, lost>>
  <2>1. opening[t] \in Fetch /\ opening[t].conv \in drawn
    BY <1>14 DEF LoadMessages, Opening, TypeOK, IdsAreDrawn
  <2> DEFINE c == opening[t].conv
             h == IF Stored(c) THEN convs[c].messages ELSE <<>>
             f == [opening[t] EXCEPT !.stage = "arrived", !.messages = h]
  <2>2. h \in Seq(Message)
    BY <1>0, <1>a, <2>1 DEF TypeOK
  <2>3. opening' = [opening EXCEPT ![t] = f]
    BY <1>14 DEF LoadMessages
  <2>4. f \in Fetch /\ f.conv \in drawn
    <3> HIDE DEF h
    <3>. QED  BY <2>1, <2>2 DEF Fetch
  <2>5. UNCHANGED <<convs, sends, drawn, pageVars, deleting, calls, lost, hurry>>
    BY <1>14 DEF LoadMessages
  <2> HIDE DEF f
  <2>6. /\ opening' \in [Tab -> Fetch \cup {NoFetch}]
        /\ \A u \in Tab : opening'[u] # NoFetch => opening'[u].conv \in drawn
    BY <2>3, <2>4 DEF TypeOK, IdsAreDrawn
  <2>. QED  BY <1>11, <2>5, <2>6
<1>15. ASSUME NEW t \in Tab, NEW c \in ConvId, AskDelete(t, c)
       PROVE  TypeOK' /\ IdsAreDrawn' /\ Controllers' /\ UNCHANGED <<convs, lost>>
  <2>1. [conv |-> c, answered |-> FALSE] \in Removal
    BY DEF Removal
  <2>2. deleting' \in [Tab -> Removal \cup {NoFetch}]
    BY <1>15, <2>1 DEF AskDelete, TypeOK
  <2>3. UNCHANGED <<convs, sends, drawn, pageVars, opening, calls, lost, hurry>>
    BY <1>15 DEF AskDelete
  <2>. QED
    BY <2>2, <2>3 DEF TypeOK, IdsAreDrawn, Stored, Controllers, Waiting, pageVars
<1>16. ASSUME NEW t \in Tab, Delete(t)
       PROVE  /\ TypeOK' /\ IdsAreDrawn' /\ Controllers'
              /\ \A msg \in Message : Kept(msg) => Kept(msg)'
  <2>1. /\ convs' \in [ConvId -> Conversation \cup {NotStored}] /\ lost' \in SUBSET Message
        /\ \A d \in ConvId : Stored(d)' => Stored(d)
        /\ \A msg \in Message : Kept(msg) => Kept(msg)'
    BY <1>16, DeleteKeeps
  <2>2. deleting' \in [Tab -> Removal \cup {NoFetch}]
    <3>1. deleting[t] \in Removal
      BY <1>16 DEF Delete, TypeOK
    <3>2. [deleting[t] EXCEPT !.answered = TRUE] \in Removal
      BY <3>1 DEF Removal
    <3>3. deleting' = [deleting EXCEPT ![t] = [deleting[t] EXCEPT !.answered = TRUE]]
      BY <1>16 DEF Delete
    <3>. QED  BY <3>2, <3>3 DEF TypeOK
  <2>3. UNCHANGED <<sends, drawn, pageVars, opening, calls, hurry>>
    BY <1>16 DEF Delete
  <2>. QED
    BY <2>1, <2>2, <2>3 DEF TypeOK, IdsAreDrawn, Controllers, Waiting, pageVars
<1>17. ASSUME NEW c \in ConvId, Rename(c)
       PROVE  /\ TypeOK' /\ IdsAreDrawn' /\ Controllers'
              /\ \A msg \in Message : Kept(msg) => Kept(msg)'
  <2>1. /\ convs' \in [ConvId -> Conversation \cup {NotStored}]
        /\ \A d \in ConvId : Stored(d)' => Stored(d)
        /\ \A msg \in Message : Kept(msg) => Kept(msg)'
    BY <1>17, RenameKeeps
  <2>2. UNCHANGED <<sends, drawn, pageVars, navVars, calls, lost, hurry>>
    BY <1>17 DEF Rename
  <2>. QED
    BY <2>1, <2>2 DEF TypeOK, IdsAreDrawn, Controllers, Waiting, pageVars, navVars
<1>18. ASSUME NEW t \in Tab, DeleteFails(t)
       PROVE  TypeOK' /\ IdsAreDrawn' /\ Controllers' /\ UNCHANGED <<convs, lost>>
  <2>1. deleting' \in [Tab -> Removal \cup {NoFetch}]
    BY <1>18 DEF DeleteFails, TypeOK
  <2>2. UNCHANGED <<convs, sends, drawn, pageVars, opening, calls, lost, hurry>>
    BY <1>18 DEF DeleteFails
  <2>. QED
    BY <2>1, <2>2 DEF TypeOK, IdsAreDrawn, Stored, Controllers, Waiting, pageVars
<1>. QED
  BY <1>b, <1>1, <1>3, <1>4, <1>5, <1>7, <1>8, <1>9, <1>10, <1>12, <1>13,
     <1>14, <1>15, <1>16, <1>17, <1>18
  DEF Next, Page, Server
-----------------------------------------------------------------------------
(* Messages stay in the conversation they were typed in *)

LEMMA NextOwn ==
  ASSUME TypeOK, IdsAreDrawn, Controllers, OwnMessages, Next
  PROVE  OwnMessages'
<1>0. /\ LedgerNeverMixes
      /\ \A t \in Tab : PageOwns(t) /\ LoadsOwn(t)
      /\ \A k \in Call : CallOwns(k)
  BY DEF OwnMessages
<1>a. ASSUME LedgerNeverMixes', \A t \in Tab : PageOwns(t)' /\ LoadsOwn(t)',
             \A k \in Call : CallOwns(k)'
      PROVE  OwnMessages'
  BY <1>a DEF OwnMessages
<1>1. /\ \A k \in Call :
           calls[k] # NoCall => /\ calls[k].conv \in ConvId
                                /\ calls[k].messages \in Seq(Message)
      /\ \A t \in Tab : opening[t] # NoFetch => /\ opening[t].conv \in ConvId
                                               /\ opening[t].messages \in Seq(Message)
      /\ \A t \in Tab : history[t] \in Seq(Message)
  BY CallType DEF TypeOK, Request, Fetch
<1>2. \A msg \in Message : Kept(msg) => Kept(msg)'
  BY NextType
<1>3. ASSUME NEW t \in Tab, LoadsOwn(t), opening'[t] = opening[t] PROVE LoadsOwn(t)'
  <2>1. ASSUME opening[t] # NoFetch, NEW i \in DOMAIN opening[t].messages
        PROVE  opening[t].messages[i] \in Message
    BY <1>1, <2>1, LenProperties, ElementOfSeq
  <2>. QED  BY <1>2, <1>3, <2>1 DEF LoadsOwn
<1>4. ASSUME UNCHANGED convs, LedgerNeverMixes PROVE LedgerNeverMixes'
  BY <1>4 DEF LedgerNeverMixes, Stored
<1>5. ASSUME NEW t \in Tab, NEW k \in Call, Send(t, k) \/ Retry(t, k)
      PROVE  OwnMessages'
  <2>1. PICK c \in Addressed(t), retry \in BOOLEAN, h \in Seq(Message) :
           /\ c \in ConvId
           /\ active' = [active EXCEPT ![t] = c]
           /\ StartFetch(t, k, retry, c, h)
           /\ history' = [history EXCEPT ![t] = h]
           /\ \/ h = history[t]
              \/ \E msg \in Message : /\ msg.role = "user" /\ msg.conv = c
                                      /\ h = Append(history[t], msg)
           /\ UNCHANGED <<convs, retryable, navVars, lost>>
    BY <1>5, SendEffects
  <2>2. \A i \in DOMAIN history[t] :
          history[t][i].role = "user" => history[t][i].conv = c
    <3>1. \A i \in DOMAIN history[t] : history[t][i].conv \in ConvId
      <4>1. \A i \in DOMAIN history[t] : history[t][i] \in Message
        BY <1>1, LenProperties, ElementOfSeq
      <4>. QED  BY <4>1 DEF Message
    <3>. QED  BY <1>0, <3>1, ConstantsAssumption DEF Addressed, PageOwns
  <2>3. \A i \in DOMAIN h : h[i].role = "user" => h[i].conv = c
    BY <1>1, <2>1, <2>2, AppendedElements
  <2>4. /\ \A q \in Call \ {k} : calls'[q] = calls[q]
        /\ calls'[k].conv = c /\ calls'[k].messages = h
    BY <2>1, StartFetchFacts
  <2>5. \A q \in Call : CallOwns(q)'
    BY <1>0, <2>3, <2>4 DEF CallOwns
  <2>6. \A u \in Tab : PageOwns(u)'
    BY <1>0, <2>1, <2>3 DEF TypeOK, PageOwns
  <2>. QED  BY <1>0, <1>3, <1>4, <1>a, <2>1, <2>5, <2>6 DEF navVars
<1>6. ASSUME NEW k \in Call, calls[k] # NoCall, UNCHANGED <<pageVars, navVars>>,
             \A q \in Call \ {k} : calls'[q] = calls[q],
             calls'[k] # NoCall => /\ calls'[k].conv = calls[k].conv
                                   /\ calls'[k].messages = calls[k].messages,
             LedgerNeverMixes'
      PROVE  OwnMessages'
  <2>1. \A q \in Call : CallOwns(q)'
    BY <1>0, <1>6 DEF CallOwns
  <2>2. \A t \in Tab : PageOwns(t)' /\ LoadsOwn(t)'
    BY <1>0, <1>3, <1>6 DEF PageOwns, pageVars, navVars
  <2>. QED  BY <1>6, <1>a, <2>1, <2>2
<1>7. ASSUME NEW k \in Call, NEW reply \in {"none", "answer", "empty", "error", "refused"},
             calls[k] # NoCall, HandlerEnds(k, reply), UNCHANGED <<pageVars, navVars>>,
             LedgerNeverMixes'
      PROVE  OwnMessages'
  BY <1>6, <1>7, HandlerEndsFacts
<1>8. ASSUME NEW k \in Call, PrepareFails(k) \/ RunEndsUnrecorded(k) \/ HandlerDies(k)
      PROVE  OwnMessages'
  BY <1>0, <1>4, <1>7, <1>8 DEF PrepareFails, RunEndsUnrecorded, HandlerDies, At
<1>9. ASSUME NEW k \in Call, RecordUserTurn(k)
      PROVE  OwnMessages'
  <2> DEFINE r == [calls[k] EXCEPT !.server = "run"]
             batch == TrailingUserMessages(calls[k].messages)
  <2>1. calls[k] # NoCall /\ calls[k] \in Request
    BY <1>9, CallType DEF RecordUserTurn, At
  <2>2. /\ calls' = [calls EXCEPT ![k] = r] /\ UNCHANGED <<pageVars, navVars>>
        /\ (batch = <<>> /\ UNCHANGED <<convs, lost>>) \/ AppendToLedger(calls[k].conv, batch)
    BY <1>9 DEF RecordUserTurn
  <2>3. batch \in Seq(Message) /\ \A i \in DOMAIN batch : batch[i].conv = calls[k].conv
    <3>1. calls[k].messages \in Seq(Message)
      BY <1>1, <2>1
    <3>2. batch \in Seq(Message)
      BY <3>1, TrailingFacts
    <3>3. ASSUME NEW i \in DOMAIN batch PROVE batch[i].conv = calls[k].conv
      <4>1. PICK j \in DOMAIN calls[k].messages : /\ batch[i] = calls[k].messages[j]
                                                  /\ calls[k].messages[j].role = "user"
        BY <3>1, <3>3, TrailingFacts
      <4>. QED  BY <1>0, <2>1, <4>1 DEF CallOwns
    <3>. QED  BY <3>2, <3>3
  <2>4. r.conv = calls[k].conv /\ r.messages = calls[k].messages
    BY <2>1 DEF Request
  <2> HIDE DEF batch, r
  <2>5. LedgerNeverMixes'
    BY <1>0, <1>1, <1>4, <2>1, <2>2, <2>3, AppendKeeps
  <2>6. calls'[k] = r /\ \A q \in Call \ {k} : calls'[q] = calls[q]
    BY <2>2 DEF TypeOK
  <2>. QED  BY <1>6, <2>1, <2>2, <2>4, <2>5, <2>6
<1>10. ASSUME NEW k \in Call, RecordAssistantTurn(k)
       PROVE  OwnMessages'
  <2> DEFINE msg == AnswerTo(calls[k])
  <2>1. calls[k] # NoCall
    BY <1>10 DEF RecordAssistantTurn, At
  <2>2. msg \in Message /\ msg.conv = calls[k].conv
    BY <1>1, <2>1, LastTurnType DEF Message, AnswerTo
  <2>3. /\ AppendToLedger(calls[k].conv, <<msg>>) /\ HandlerEnds(k, "answer")
        /\ UNCHANGED <<pageVars, navVars>>
    BY <1>10 DEF RecordAssistantTurn, AnswerTo
  <2> HIDE DEF msg
  <2>4. <<msg>> \in Seq(Message) /\ \A i \in DOMAIN <<msg>> : <<msg>>[i].conv = calls[k].conv
    BY <2>2
  <2>5. LedgerNeverMixes'
    BY <1>0, <1>1, <2>1, <2>3, <2>4, AppendKeeps
  <2>. QED  BY <1>7, <2>1, <2>3, <2>5
<1>11. ASSUME \/ \E k \in Call : Receive(k) \/ FetchFails(k)
              \/ \E t \in Tab : Abort(t)
       PROVE  OwnMessages'
  <2>1. PICK q \in Call : ClientReturns(q)
    BY <1>11, ClientEffects
  <2> DEFINE u == calls[q].tab
  <2>2. /\ u \in Tab /\ \A t \in Tab \ {u} : history'[t] = history[t]
        /\ \A k \in Call \ {q} : calls'[k] = calls[k]
        /\ calls[q] # NoCall
        /\ calls'[q] # NoCall => /\ calls'[q].conv = calls[q].conv
                                /\ calls'[q].messages = calls[q].messages
        /\ UNCHANGED <<active, convs, opening, lost>>
    BY <2>1, ClientEndsFacts DEF ClientReturns, Waiting, navVars
  <2>3. \/ history'[u] = history[u]
        \/ \E msg \in Message : /\ msg.role # "user"
                                /\ history'[u] = Append(history[u], msg)
    BY <2>1 DEF ClientReturns
  <2>4. \A i \in DOMAIN history'[u] :
          history'[u][i].role = "user" => history'[u][i].conv = active[u]
    <3>1. \A i \in DOMAIN history[u] :
            history[u][i].role = "user" => history[u][i].conv = active[u]
      BY <1>0, <2>2 DEF PageOwns
    <3>2. history[u] \in Seq(Message)
      BY <1>1, <2>2
    <3>3. CASE history'[u] = history[u]
      BY <3>1, <3>3
    <3>4. ASSUME NEW msg \in Message, msg.role # "user", history'[u] = Append(history[u], msg)
          PROVE  \A i \in DOMAIN history'[u] :
                   history'[u][i].role = "user" => history'[u][i].conv = active[u]
      <4> DEFINE m == history[u]
      <4>1. \A i \in DOMAIN Append(m, msg) :
              \/ i \in DOMAIN m /\ Append(m, msg)[i] = m[i]
              \/ i = Len(m) + 1 /\ Append(m, msg)[i] = msg
        BY <3>2, AppendedElements
      <4>. QED  BY <3>1, <3>4, <4>1
    <3>. QED  BY <2>3, <3>3, <3>4
  <2> HIDE DEF u
  <2>5. \A t \in Tab : PageOwns(t)'
    BY <1>0, <2>2, <2>4 DEF PageOwns
  <2>6. \A k \in Call : CallOwns(k)'
    BY <1>0, <2>2 DEF CallOwns
  <2>. QED  BY <1>0, <1>3, <1>4, <1>a, <2>2, <2>5, <2>6
<1>12. ASSUME NEW t \in Tab, NEW c, NEW h \in Seq(Message), Show(t, c, h),
              \A i \in DOMAIN h : h[i].conv = c,
              \A u \in Tab : opening'[u] # NoFetch => opening'[u] = opening[u],
              UNCHANGED <<convs, calls, lost>>
       PROVE  OwnMessages'
  <2>1. \A u \in Tab : PageOwns(u)'
    BY <1>0, <1>12 DEF Show, TypeOK, PageOwns
  <2>2. \A u \in Tab : LoadsOwn(u)'
    <3>1. ASSUME NEW u \in Tab, opening'[u] = NoFetch PROVE LoadsOwn(u)'
      BY <3>1 DEF LoadsOwn
    <3>. QED  BY <1>0, <1>3, <1>12, <3>1
  <2>3. \A k \in Call : CallOwns(k)'
    BY <1>0, <1>12 DEF CallOwns
  <2>. QED  BY <1>0, <1>4, <1>a, <1>12, <2>1, <2>2, <2>3
<1>13. <<>> \in Seq(Message) /\ DOMAIN <<>> = {}
  OBVIOUS
<1>14. ASSUME NEW t \in Tab, NewChat(t) \/ ShowSelected(t) \/ ForgetDeleted(t)
       PROVE  OwnMessages'
  <2>1. CASE NewChat(t)
    BY <1>12, <1>13, <2>1 DEF NewChat, navVars
  <2>2. CASE ShowSelected(t)
    <3>1. \A i \in DOMAIN opening[t].messages :
            opening[t].messages[i].conv = opening[t].conv
      BY <1>0, <2>2 DEF ShowSelected, Opening, LoadsOwn
    <3>2. \A u \in Tab : opening'[u] # NoFetch => opening'[u] = opening[u]
      BY <2>2 DEF ShowSelected, TypeOK
    <3>3. /\ opening[t].messages \in Seq(Message)
          /\ Show(t, opening[t].conv, opening[t].messages)
          /\ UNCHANGED <<convs, calls, lost>>
      BY <1>1, <2>2 DEF ShowSelected, Opening
    <3>. QED  BY <1>12, <3>1, <3>2, <3>3
  <2>3. CASE ForgetDeleted(t)
    <3>1. UNCHANGED <<convs, opening, calls, lost>>
      BY <2>3 DEF ForgetDeleted
    <3>2. CASE UNCHANGED <<active, history, retryable>>
      <4>1. \A u \in Tab : PageOwns(u)' /\ LoadsOwn(u)'
        BY <1>0, <1>3, <3>1, <3>2 DEF PageOwns
      <4>2. \A k \in Call : CallOwns(k)'
        BY <1>0, <3>1 DEF CallOwns
      <4>. QED  BY <1>0, <1>4, <1>a, <3>1, <4>1, <4>2
    <3>3. CASE Show(t, NoConv, <<>>)
      BY <1>12, <1>13, <3>1, <3>3
    <3>. QED  BY <2>3, <3>2, <3>3 DEF ForgetDeleted
  <2>. QED  BY <1>14, <2>1, <2>2, <2>3
<1>15. ASSUME UNCHANGED <<convs, pageVars, calls, lost>>,
              \A u \in Tab : opening'[u] # opening[u] => LoadsOwn(u)'
       PROVE  OwnMessages'
  <2>1. \A u \in Tab : PageOwns(u)' /\ LoadsOwn(u)'
    BY <1>0, <1>3, <1>15 DEF PageOwns, pageVars
  <2>2. \A k \in Call : CallOwns(k)'
    BY <1>0, <1>15 DEF CallOwns
  <2>. QED  BY <1>0, <1>4, <1>a, <1>15, <2>1, <2>2
<1>16. ASSUME NEW t \in Tab, NEW c \in ConvId, Select(t, c) \/ AskDelete(t, c)
       PROVE  OwnMessages'
  <2>1. CASE Select(t, c)
    <3>1. \A u \in Tab : \/ opening'[u] = opening[u]
                         \/ opening'[u].messages = <<>>
      BY <2>1 DEF Select, TypeOK
    <3>. QED  <4>1. ASSUME NEW u \in Tab, opening'[u] # opening[u] PROVE LoadsOwn(u)'
        BY <1>13, <3>1, <4>1 DEF LoadsOwn
      <4>. QED  BY <1>15, <2>1, <4>1 DEF Select
  <2>2. CASE AskDelete(t, c)
    BY <1>15, <2>2 DEF AskDelete
  <2>. QED  BY <1>16, <2>1, <2>2
<1>17. ASSUME NEW t \in Tab, GetConversationRow(t) \/ LoadMessages(t)
       PROVE  OwnMessages'
  <2>1. /\ opening[t] \in Fetch /\ opening[t] # NoFetch
        /\ UNCHANGED <<convs, pageVars, calls, lost>>
    BY <1>17 DEF GetConversationRow, LoadMessages, Opening, TypeOK
  <2>2. CASE GetConversationRow(t)
    <3> DEFINE f == [opening[t] EXCEPT !.stage = "messages"]
    <3>1. f.conv = opening[t].conv /\ f.messages = opening[t].messages
      BY <2>1 DEF Fetch
    <3>2. opening' = [opening EXCEPT ![t] = IF Stored(opening[t].conv) THEN f ELSE NoFetch]
      BY <2>2 DEF GetConversationRow
    <3> HIDE DEF f
    <3>3. \A u \in Tab : \/ opening'[u] \in {opening[u], NoFetch}
                         \/ /\ opening[u] # NoFetch /\ opening'[u].conv = opening[u].conv
                            /\ opening'[u].messages = opening[u].messages
      BY <2>1, <3>1, <3>2 DEF TypeOK
    <3>4. ASSUME NEW u \in Tab, opening'[u] # opening[u], opening'[u] # NoFetch,
                 NEW i \in DOMAIN opening'[u].messages
          PROVE  /\ opening'[u].messages[i].conv = opening'[u].conv
                 /\ Kept(opening[u].messages[i])'
      <4>1. /\ opening[u] # NoFetch /\ opening'[u].conv = opening[u].conv
            /\ opening'[u].messages = opening[u].messages
        BY <3>3, <3>4
      <4>2. opening[u].messages[i] \in Message
        BY <1>1, <3>4, <4>1, LenProperties, ElementOfSeq
      <4>3. opening[u].messages[i].conv = opening[u].conv /\ Kept(opening[u].messages[i])
        BY <1>0, <3>4, <4>1 DEF LoadsOwn
      <4>. QED
        BY <2>1, <4>1, <4>3 DEF Kept, Stores, Stored
    <3>5. \A u \in Tab : opening'[u] # opening[u] => LoadsOwn(u)'
      BY <3>4 DEF LoadsOwn
    <3>. QED  BY <1>15, <2>1, <3>5
  <2>3. CASE LoadMessages(t)
    <3> DEFINE c == opening[t].conv
               h == IF Stored(c) THEN convs[c].messages ELSE <<>>
               f == [opening[t] EXCEPT !.stage = "arrived", !.messages = h]
    <3>1. opening' = [opening EXCEPT ![t] = f]
      BY <2>3 DEF LoadMessages
    <3>2. c \in ConvId /\ f.conv = c /\ f.messages = h
      BY <2>1 DEF Fetch
    <3>3. ASSUME NEW i \in DOMAIN h PROVE h[i].conv = c /\ Kept(h[i])
      <4>1. Stored(c) /\ h = convs[c].messages
        BY <1>13, <3>3
      <4> HIDE DEF c, h
      <4>2. h[i].conv = c
        BY <1>0, <3>2, <3>3, <4>1 DEF LedgerNeverMixes
      <4>. QED  BY <3>3, <4>1, <4>2 DEF Kept, Stores
    <3> HIDE DEF c, h, f
    <3>4. opening'[t] = f /\ \A u \in Tab \ {t} : opening'[u] = opening[u]
      BY <3>1 DEF TypeOK
    <3>5. \A i \in DOMAIN opening'[t].messages :
            /\ opening'[t].messages[i].conv = opening'[t].conv
            /\ Kept(opening[t].messages[i])'
      <4>1. opening'[t].messages = h /\ opening'[t].conv = c
        BY <3>2, <3>4
      <4>. QED  BY <2>1, <3>3, <4>1 DEF Kept, Stores, Stored
    <3>6. LoadsOwn(t)'
      BY <3>5 DEF LoadsOwn
    <3>. QED  BY <1>15, <2>1, <3>4, <3>6
  <2>. QED  BY <1>17, <2>2, <2>3
<1>18. ASSUME NEW t \in Tab, Delete(t)
       PROVE  OwnMessages'
  <2>1. UNCHANGED <<pageVars, opening, calls>>
    BY <1>18 DEF Delete
  <2>2. LedgerNeverMixes'
    BY <1>0, <1>18, DeleteKeeps DEF LedgerNeverMixes
  <2>3. \A u \in Tab : PageOwns(u)' /\ LoadsOwn(u)'
    BY <1>0, <1>3, <2>1 DEF PageOwns, pageVars
  <2>4. \A k \in Call : CallOwns(k)'
    BY <1>0, <2>1 DEF CallOwns
  <2>. QED  BY <1>a, <2>2, <2>3, <2>4
<1>19. ASSUME NEW c \in ConvId, Rename(c)
       PROVE  OwnMessages'
  <2>1. UNCHANGED <<pageVars, navVars, calls>>
    BY <1>19 DEF Rename
  <2>2. LedgerNeverMixes'
    BY <1>0, <1>19, RenameKeeps DEF LedgerNeverMixes
  <2>3. \A u \in Tab : PageOwns(u)' /\ LoadsOwn(u)'
    BY <1>0, <1>3, <2>1 DEF PageOwns, pageVars, navVars
  <2>4. \A k \in Call : CallOwns(k)'
    BY <1>0, <2>1 DEF CallOwns
  <2>. QED  BY <1>a, <2>2, <2>3, <2>4
<1>20. ASSUME NEW t \in Tab, DeleteFails(t)
       PROVE  OwnMessages'
  BY <1>15, <1>20 DEF DeleteFails
<1>. QED
  BY <1>5, <1>8, <1>9, <1>10, <1>11, <1>14, <1>16, <1>17, <1>18, <1>19, <1>20
  DEF Next, Page, Server
-----------------------------------------------------------------------------
(* Answers that were sent are kept *)

LEMMA NextAnswers ==
  ASSUME TypeOK, IdsAreDrawn, Controllers, OwnMessages, AnswersKept, Next
  PROVE  AnswersKept'
<1> DEFINE Shown(m) == \A i \in DOMAIN m : m[i].role = "answer" => m[i] \in KeptMessages'
           SentKept(q) == calls'[q] # NoCall /\ calls'[q].reply = "answer" =>
                            AnswerTo(calls'[q]) \in KeptMessages'
<1>a. ASSUME \A t \in Tab : Shown(history'[t]), \A q \in Call : SentKept(q)
      PROVE  AnswersKept'
  BY <1>a DEF AnswersKept, ShownAnswersAreStored, KeptMessages
<1>1. /\ \A k \in Call :
           calls[k] # NoCall => /\ calls[k].conv \in ConvId
                                /\ calls[k].messages \in Seq(Message)
                                /\ AnswerTo(calls[k]) \in Message
      /\ \A t \in Tab : history[t] \in Seq(Message)
  <2>1. \A k \in Call :
          calls[k] # NoCall => calls[k].conv \in ConvId /\ calls[k].messages \in Seq(Message)
    BY CallType DEF Request
  <2>2. \A k \in Call : calls[k] # NoCall => AnswerTo(calls[k]) \in Message
    BY <2>1, LastTurnType DEF AnswerTo, Message
  <2>. QED  BY <2>1, <2>2 DEF TypeOK
<1>2. KeptMessages \subseteq KeptMessages'
  BY NextType DEF KeptMessages
<1>3. ASSUME NEW t \in Tab PROVE Shown(history[t])
  <2>1. \A i \in DOMAIN history[t] : history[t][i] \in Message
    BY <1>1, LenProperties, ElementOfSeq
  <2>. QED  BY <1>2, <2>1 DEF AnswersKept, ShownAnswersAreStored, KeptMessages
<1>4. ASSUME NEW q \in Call, calls[q] # NoCall, calls[q].reply = "answer"
      PROVE  AnswerTo(calls[q]) \in KeptMessages
  BY <1>1, <1>4 DEF AnswersKept, KeptMessages
<1>5. ASSUME NEW q \in Call,
             calls'[q] # NoCall => /\ calls[q] # NoCall
                                   /\ calls'[q].reply = calls[q].reply
                                   /\ calls'[q].conv = calls[q].conv
                                   /\ calls'[q].messages = calls[q].messages
      PROVE  SentKept(q)
  <2>1. calls'[q] # NoCall => AnswerTo(calls'[q]) = AnswerTo(calls[q])
    BY <1>5 DEF AnswerTo
  <2>. QED  BY <1>2, <1>4, <1>5, <2>1
<1>6. ASSUME NEW t \in Tab, NEW k \in Call, Send(t, k) \/ Retry(t, k)
      PROVE  AnswersKept'
  <2>1. PICK c \in Addressed(t), retry \in BOOLEAN, h \in Seq(Message) :
           /\ c \in ConvId
           /\ StartFetch(t, k, retry, c, h)
           /\ history' = [history EXCEPT ![t] = h]
           /\ \/ h = history[t]
              \/ \E msg \in Message : /\ msg.role = "user"
                                      /\ h = Append(history[t], msg)
    BY <1>6, SendEffects
  <2>2. /\ \A q \in Call \ {k} : calls'[q] = calls[q]
        /\ calls'[k].reply = "none"
    BY <2>1, StartFetchFacts
  <2>3. \A q \in Call : SentKept(q)
    <3>1. \A q \in Call \ {k} : SentKept(q)
      BY <1>5, <2>2
    <3>. QED  BY <2>2, <3>1
  <2>4. Shown(h)
    <3>1. CASE h = history[t]
      BY <1>3, <3>1
    <3>2. ASSUME NEW msg \in Message, msg.role = "user", h = Append(history[t], msg)
          PROVE  Shown(h)
      <4> DEFINE m == history[t]
      <4>1. \A i \in DOMAIN h : \/ i \in DOMAIN m /\ h[i] = m[i]
                                \/ h[i] = msg
        BY <1>1, <3>2, AppendedElements
      <4>2. Shown(m)
        BY <1>3
      <4> HIDE DEF m
      <4>. QED  BY <3>2, <4>1, <4>2
    <3>. QED  BY <2>1, <3>1, <3>2
  <2>5. \A u \in Tab : Shown(history'[u])
    <3>1. history'[t] = h /\ \A u \in Tab \ {t} : history'[u] = history[u]
      BY <2>1 DEF TypeOK
    <3>. QED  BY <1>3, <2>4, <3>1
  <2>. QED  BY <1>a, <2>3, <2>5
<1>7. ASSUME UNCHANGED history, \A q \in Call : SentKept(q)
      PROVE  AnswersKept'
  BY <1>3, <1>7, <1>a
<1>8. ASSUME NEW k \in Call, PrepareFails(k) \/ RunEndsUnrecorded(k) \/ HandlerDies(k)
      PROVE  AnswersKept'
  <2>1. /\ calls[k] # NoCall /\ UNCHANGED history
        /\ \E reply \in {"none", "empty", "error", "refused"} : HandlerEnds(k, reply)
    BY <1>8 DEF PrepareFails, RunEndsUnrecorded, HandlerDies, At, pageVars
  <2>2. /\ \A q \in Call \ {k} : calls'[q] = calls[q]
        /\ calls'[k] # NoCall => calls'[k].reply # "answer"
    BY <2>1, HandlerEndsFacts
  <2>3. \A q \in Call \ {k} : SentKept(q)
    BY <1>5, <2>2
  <2>. QED  BY <1>7, <2>1, <2>2, <2>3
<1>9. ASSUME NEW k \in Call, RecordUserTurn(k)
      PROVE  AnswersKept'
  <2> DEFINE r == [calls[k] EXCEPT !.server = "run"]
  <2>1. /\ calls[k] # NoCall /\ calls[k] \in Request /\ UNCHANGED history
        /\ calls' = [calls EXCEPT ![k] = r]
    BY <1>9, CallType DEF RecordUserTurn, At, pageVars
  <2>2. r.conv = calls[k].conv /\ r.messages = calls[k].messages /\ r.reply = calls[k].reply
    BY <2>1 DEF Request
  <2> HIDE DEF r
  <2>3. calls'[k] = r /\ \A q \in Call \ {k} : calls'[q] = calls[q]
    BY <2>1 DEF TypeOK
  <2>4. \A q \in Call : SentKept(q)
    BY <1>5, <2>1, <2>2, <2>3
  <2>. QED  BY <1>7, <2>1, <2>4
<1>10. ASSUME NEW k \in Call, RecordAssistantTurn(k)
       PROVE  AnswersKept'
  <2> DEFINE msg == AnswerTo(calls[k])
  <2>1. calls[k] # NoCall
    BY <1>10 DEF RecordAssistantTurn, At
  <2>2. msg \in Message /\ msg.conv = calls[k].conv
    BY <1>1, <2>1 DEF AnswerTo
  <2>3. /\ AppendToLedger(calls[k].conv, <<msg>>) /\ HandlerEnds(k, "answer")
        /\ UNCHANGED history
    BY <1>10 DEF RecordAssistantTurn, AnswerTo, pageVars
  <2>4. msg \in KeptMessages'
    <3> HIDE DEF msg
    <3>1. <<msg>> \in Seq(Message) /\ DOMAIN <<msg>> = {1} /\ <<msg>>[1] = msg
      BY <2>2
    <3>2. \A i \in DOMAIN <<msg>> : <<msg>>[i].conv = calls[k].conv
      BY <2>2, <3>1
    <3>3. \A i \in DOMAIN <<msg>> : <<msg>>[i] \in KeptMessages'
      BY <1>1, <2>1, <2>2, <2>3, <3>1, <3>2, AppendKeeps DEF KeptMessages
    <3>. QED  BY <3>1, <3>3
  <2>5. /\ \A q \in Call \ {k} : calls'[q] = calls[q]
        /\ calls'[k] # NoCall => /\ calls'[k].conv = calls[k].conv
                                 /\ calls'[k].messages = calls[k].messages
    BY <2>1, <2>3, HandlerEndsFacts
  <2>6. SentKept(k)
    <3>1. calls'[k] # NoCall => AnswerTo(calls'[k]) = msg
      BY <2>5 DEF AnswerTo
    <3>. QED  BY <2>4, <3>1
  <2>7. \A q \in Call \ {k} : SentKept(q)
    BY <1>5, <2>5
  <2>. QED  BY <1>7, <2>3, <2>6, <2>7
<1>11. ASSUME \/ \E k \in Call : Receive(k) \/ FetchFails(k)
              \/ \E t \in Tab : Abort(t)
       PROVE  AnswersKept'
  <2>1. PICK q \in Call : ClientReturns(q)
    BY <1>11, ClientEffects
  <2> DEFINE u == calls[q].tab
             m == history[u]
  <2>2. /\ u \in Tab /\ \A t \in Tab \ {u} : history'[t] = history[t]
        /\ \A k \in Call \ {q} : calls'[k] = calls[k]
        /\ calls[q] # NoCall
        /\ calls'[q] # NoCall => /\ calls'[q].conv = calls[q].conv
                                 /\ calls'[q].messages = calls[q].messages
                                 /\ calls'[q].reply = calls[q].reply
    BY <2>1, ClientEndsFacts DEF ClientReturns, Waiting
  <2>3. \/ history'[u] = m
        \/ \E msg \in Message :
             /\ msg.role = calls[q].reply
             /\ msg.role = "answer" => msg = AnswerTo(calls[q])
             /\ history'[u] = Append(m, msg)
    BY <2>1 DEF ClientReturns
  <2>4. Shown(history'[u])
    <3>1. Shown(m) /\ m \in Seq(Message)
      BY <1>1, <1>3, <2>2
    <3>2. ASSUME NEW msg \in Message, msg.role = calls[q].reply,
                 msg.role = "answer" => msg = AnswerTo(calls[q]),
                 history'[u] = Append(m, msg)
          PROVE  Shown(history'[u])
      <4>1. msg.role = "answer" => msg \in KeptMessages'
        BY <1>2, <1>4, <2>2, <3>2
      <4>2. \A i \in DOMAIN Append(m, msg) : \/ i \in DOMAIN m /\ Append(m, msg)[i] = m[i]
                                             \/ Append(m, msg)[i] = msg
        BY <3>1, AppendedElements
      <4> HIDE DEF u, m
      <4>. QED  BY <3>1, <3>2, <4>1, <4>2
    <3>. QED  BY <2>3, <3>1, <3>2
  <2>5. \A t \in Tab : Shown(history'[t])
    <3> HIDE DEF u
    <3>. QED  BY <1>3, <2>2, <2>4
  <2>6. \A k \in Call : SentKept(k)
    BY <1>5, <2>2
  <2>. QED  BY <1>a, <2>5, <2>6
<1>12. ASSUME UNCHANGED calls PROVE \A q \in Call : SentKept(q)
  BY <1>5, <1>12
<1>13. ASSUME UNCHANGED <<history, calls>> PROVE AnswersKept'
  BY <1>7, <1>12, <1>13
<1>14. ASSUME NEW t \in Tab, NEW c, NEW h, Show(t, c, h), Shown(h), UNCHANGED calls
       PROVE  AnswersKept'
  <2>1. history'[t] = h /\ \A u \in Tab \ {t} : history'[u] = history[u]
    BY <1>14 DEF Show, TypeOK
  <2>2. \A u \in Tab : Shown(history'[u])
    BY <1>3, <1>14, <2>1
  <2>. QED  BY <1>a, <1>12, <1>14, <2>2
<1>15. Shown(<<>>)
  OBVIOUS
<1>16. ASSUME NEW t \in Tab, NewChat(t) \/ ShowSelected(t) \/ ForgetDeleted(t)
       PROVE  AnswersKept'
  <2>1. CASE NewChat(t)
    BY <1>14, <1>15, <2>1 DEF NewChat
  <2>2. CASE ShowSelected(t)
    <3> DEFINE h == opening[t].messages
    <3>1. opening[t] \in Fetch /\ opening[t] # NoFetch
      BY <2>2 DEF ShowSelected, Opening, TypeOK
    <3>2. \A i \in DOMAIN h : h[i] \in KeptMessages
      <4>1. h \in Seq(Message)
        BY <3>1 DEF Fetch
      <4>2. \A i \in DOMAIN h : Kept(h[i])
        BY <3>1 DEF OwnMessages, LoadsOwn
      <4>3. \A i \in DOMAIN h : h[i] \in Message
        BY <4>1, LenProperties, ElementOfSeq
      <4>. QED  BY <4>2, <4>3 DEF KeptMessages
    <3>3. Show(t, opening[t].conv, h) /\ UNCHANGED calls
      BY <2>2 DEF ShowSelected
    <3> HIDE DEF h
    <3>4. Shown(h)
      BY <1>2, <3>2
    <3>. QED  BY <1>14, <3>3, <3>4
  <2>3. CASE ForgetDeleted(t)
    BY <1>13, <1>14, <1>15, <2>3 DEF ForgetDeleted
  <2>. QED  BY <1>16, <2>1, <2>2, <2>3
<1>17. ASSUME NEW t \in Tab,
              \/ \E c \in ConvId : Select(t, c) \/ AskDelete(t, c)
              \/ GetConversationRow(t) \/ LoadMessages(t) \/ Delete(t) \/ DeleteFails(t)
       PROVE  AnswersKept'
  BY <1>13, <1>17
  DEF Select, AskDelete, GetConversationRow, LoadMessages, Delete, DeleteFails, pageVars
<1>18. ASSUME NEW c \in ConvId, Rename(c)
       PROVE  AnswersKept'
  BY <1>13, <1>18 DEF Rename, pageVars
<1>. QED
  BY <1>6, <1>8, <1>9, <1>10, <1>11, <1>16, <1>17, <1>18
  DEF Next, Page, Server
-----------------------------------------------------------------------------
(* Answers come after what they answer *)

(* An Append of which every answer has its question in the ledger, or has it
   lost or doubtful, keeps the order. *)
LEMMA AppendFollows ==
  ASSUME TypeOK, NEW c \in ConvId, NEW batch \in Seq(Message),
         AppendToLedger(c, batch), AnswerFollowsQuestion, UNCHANGED doubtful,
         \A i \in DOMAIN batch :
           batch[i].role = "answer" /\ batch[i].turn # 0 =>
             \/ \E msg \in Message : /\ msg.role = "user" /\ msg.turn = batch[i].turn
                                     /\ Stores(c, msg) \/ msg \in lost
             \/ batch[i].turn \in doubtful
  PROVE  AnswerFollowsQuestion'
<1>1. CASE lost' = lost \cup ToSet(batch) /\ UNCHANGED convs
  BY <1>1 DEF AnswerFollowsQuestion, Stored
<1>2. CASE convs' = Appended(c, batch) /\ UNCHANGED lost
  <2> DEFINE new == convs'[c].messages
             old == convs[c].messages
  <2>1. /\ \A d \in ConvId \ {c} : convs'[d] = convs[d]
        /\ new = IF Stored(c) THEN old \o batch ELSE batch
    BY <1>2, AppendedFacts
  <2>2. ASSUME Stored(c)
        PROVE  /\ Len(old) \in Nat /\ DOMAIN old = 1..Len(old)
               /\ Len(batch) \in Nat /\ DOMAIN batch = 1..Len(batch)
               /\ DOMAIN new = 1..(Len(old) + Len(batch))
               /\ \A i \in 1..Len(old) : new[i] = old[i]
               /\ \A i \in 1..Len(batch) : new[Len(old) + i] = batch[i]
    <3>1. old \in Seq(Message) /\ new = old \o batch
      BY <2>1, <2>2, StoredType DEF Conversation
    <3> HIDE DEF old, new
    <3>2. new \in Seq(Message) /\ Len(new) = Len(old) + Len(batch)
      BY <3>1, ConcatElements
    <3>3. \A i \in 1..Len(old) : new[i] = old[i]
      BY <3>1, ConcatElements
    <3>4. \A i \in 1..Len(batch) : new[Len(old) + i] = batch[i]
      BY <3>1, ConcatElements
    <3>. QED  BY <3>1, <3>2, <3>3, <3>4, LenProperties
  <2>3. ASSUME NEW i \in DOMAIN new, new[i].role = "answer", new[i].turn # 0
        PROVE  \/ \E j \in 1..(i - 1) : new[j].role = "user" /\ new[j].turn = new[i].turn
               \/ \E msg \in lost : msg.role = "user" /\ msg.turn = new[i].turn
               \/ new[i].turn \in doubtful
    <3>1. CASE ~Stored(c)
      BY <2>1, <2>3, <3>1 DEF Stores
    <3>2. CASE Stored(c)
      <4>1. CASE i \in DOMAIN old
        <5>0. old[i].role = "answer" /\ old[i].turn # 0
          <6> HIDE DEF old, new
          <6>. QED  BY <2>2, <2>3, <3>2, <4>1
        <5>1. \/ \E j \in 1..(i - 1) : old[j].role = "user" /\ old[j].turn = old[i].turn
              \/ \E msg \in lost : msg.role = "user" /\ msg.turn = old[i].turn
              \/ old[i].turn \in doubtful
          BY <3>2, <4>1, <5>0 DEF AnswerFollowsQuestion
        <5> HIDE DEF old, new
        <5>2. \A j \in 1..(i - 1) : j \in 1..Len(old)
          BY <2>2, <3>2, <4>1
        <5>. QED  BY <2>2, <3>2, <4>1, <5>1, <5>2
      <4>2. CASE i \notin DOMAIN old
        <5> HIDE DEF old, new
        <5>1. i - Len(old) \in DOMAIN batch /\ new[i] = batch[i - Len(old)]
          <6>1. i - Len(old) \in 1..Len(batch) /\ Len(old) + (i - Len(old)) = i
            BY <2>2, <2>3, <3>2, <4>2
          <6>. QED  BY <2>2, <3>2, <6>1
        <5>a. CASE new[i].turn \in doubtful
          BY <5>a
        <5>b. SUFFICES ASSUME new[i].turn \notin doubtful
                       PROVE  \/ \E j \in 1..(i - 1) :
                                   new[j].role = "user" /\ new[j].turn = new[i].turn
                              \/ \E msg \in lost :
                                   msg.role = "user" /\ msg.turn = new[i].turn
          BY <5>a
        <5>2. PICK msg \in Message : /\ msg.role = "user" /\ msg.turn = new[i].turn
                                     /\ Stores(c, msg) \/ msg \in lost
          BY <2>3, <5>1, <5>b
        <5>3. ASSUME Stores(c, msg)
              PROVE  \E j \in 1..(i - 1) : new[j].role = "user" /\ new[j].turn = new[i].turn
          <6>1. PICK j \in DOMAIN old : old[j] = msg
            BY <5>3 DEF Stores, old
          <6>2. j \in 1..(i - 1) /\ new[j] = msg
            BY <2>2, <2>3, <3>2, <4>2, <6>1
          <6>. QED  BY <5>2, <6>2
        <5>. QED  BY <5>2, <5>3
      <4>. QED  BY <4>1, <4>2
    <3>. QED  BY <3>1, <3>2
  <2>4. ASSUME NEW d \in ConvId \ {c}, Stored(d)', NEW i \in DOMAIN convs'[d].messages,
               convs'[d].messages[i].role = "answer", convs'[d].messages[i].turn # 0
        PROVE  \/ \E j \in 1..(i - 1) :
                    /\ convs'[d].messages[j].role = "user"
                    /\ convs'[d].messages[j].turn = convs'[d].messages[i].turn
               \/ \E msg \in lost :
                    msg.role = "user" /\ msg.turn = convs'[d].messages[i].turn
               \/ convs'[d].messages[i].turn \in doubtful
    BY <2>1, <2>4 DEF AnswerFollowsQuestion, Stored
  <2>. QED  BY <1>2, <2>3, <2>4 DEF AnswerFollowsQuestion
<1>. QED  BY <1>1, <1>2 DEF AppendToLedger

\* The messages that are kept, or that a page in a hurry was seen with.
AccountedMessages == {msg \in Message : Accounted(msg)}

(* What was doubtful stays so. *)
LEMMA NextDoubtful ==
  ASSUME TypeOK, Next
  PROVE  doubtful \subseteq doubtful'
<1>1. ASSUME NEW t \in Tab, NEW k \in Call, Send(t, k) \/ Retry(t, k)
      PROVE  doubtful \subseteq doubtful'
  BY <1>1, SendEffects
<1>2. CASE UNCHANGED hurry
  BY <1>2 DEF hurry
<1>3. /\ \A t \in Tab, c \in ConvId : Select(t, c) \/ AskDelete(t, c) => UNCHANGED hurry
      /\ \A t \in Tab : Abort(t) \/ NewChat(t) \/ ShowSelected(t) \/ ForgetDeleted(t)
                          \/ DeleteFails(t) \/ GetConversationRow(t) \/ LoadMessages(t)
                          \/ Delete(t) => UNCHANGED hurry
      /\ \A k \in Call : PrepareFails(k) \/ RunEndsUnrecorded(k) \/ HandlerDies(k)
                          \/ RecordUserTurn(k) \/ RecordAssistantTurn(k)
                          \/ Receive(k) \/ FetchFails(k) => UNCHANGED hurry
      /\ \A c \in ConvId : Rename(c) => UNCHANGED hurry
  BY DEF Select, AskDelete, Abort, NewChat, ShowSelected, ForgetDeleted, DeleteFails,
         GetConversationRow, LoadMessages, Delete, PrepareFails, RunEndsUnrecorded,
         HandlerDies, RecordUserTurn, RecordAssistantTurn, Receive, FetchFails, Rename
<1>. QED  BY <1>1, <1>2, <1>3 DEF Next, Page, Server

LEMMA NextQuestions ==
  ASSUME TypeOK, IdsAreDrawn, Controllers, OwnMessages, QuestionsKept, Next
  PROVE  QuestionsKept'
<1> DEFINE Every(m) == \A i \in DOMAIN m : m[i].role = "user" => m[i] \in AccountedMessages'
           Answered(m) ==
             \A i, j \in DOMAIN m : i < j /\ m[i].role = "user" /\ m[j].role # "user" =>
               m[i] \in AccountedMessages'
           CallOk(k) ==
             calls'[k] # NoCall =>
               /\ Answered(calls'[k].messages)
               /\ Recorded(calls'[k]) => Every(calls'[k].messages)
               /\ calls'[k].waiting /\ calls'[k].tab \notin hurried' =>
                    current'[calls'[k].tab] = k
           PageOk(t) ==
             \/ /\ t \notin hurried'
                /\ current'[t] # NoCall => history'[t] = calls'[current'[t]].messages
             \/ Every(history'[t])
<1>a. ASSUME AnswerFollowsQuestion', \A t \in Tab : Answered(history'[t]) /\ PageOk(t),
             \A k \in Call : CallOk(k)
      PROVE  QuestionsKept'
  BY <1>a DEF QuestionsKept, AnsweredKept, AllKept, AccountedMessages
<1>1. /\ AnswerFollowsQuestion
      /\ \A t \in Tab : AnsweredKept(history[t])
      /\ \A k \in Call :
           calls[k] # NoCall =>
             /\ AnsweredKept(calls[k].messages)
             /\ Recorded(calls[k]) => AllKept(calls[k].messages)
             /\ calls[k].waiting /\ calls[k].tab \notin hurried => current[calls[k].tab] = k
      /\ \A t \in Tab :
           \/ /\ t \notin hurried
              /\ current[t] # NoCall => history[t] = calls[current[t]].messages
           \/ AllKept(history[t])
  BY DEF QuestionsKept
<1>2. /\ \A k \in Call :
           calls[k] # NoCall => /\ calls[k].conv \in ConvId /\ calls[k].tab \in Tab
                                /\ calls[k].messages \in Seq(Message)
      /\ \A t \in Tab : history[t] \in Seq(Message)
      /\ \A t \in Tab : current[t] # NoCall =>
           /\ current[t] \in Call /\ calls[current[t]] # NoCall
           /\ calls[current[t]].waiting /\ calls[current[t]].tab = t
  BY CallType DEF Request, Controllers, Waiting, TypeOK
<1>3. /\ AccountedMessages \subseteq AccountedMessages'
      /\ KeptMessages \subseteq AccountedMessages'
  BY NextType, NextDoubtful DEF KeptMessages, AccountedMessages, Accounted
<1>4. ASSUME NEW m \in Seq(Message)
      PROVE  (AllKept(m) => Every(m)) /\ (AnsweredKept(m) => Answered(m))
  <2>1. \A i \in DOMAIN m : m[i] \in Message
    BY LenProperties, ElementOfSeq
  <2>. QED  BY <1>3, <2>1 DEF AllKept, AnsweredKept, AccountedMessages
<1>5. ASSUME UNCHANGED <<convs, lost>> PROVE AnswerFollowsQuestion'
  BY <1>1, <1>5, NextDoubtful DEF AnswerFollowsQuestion, Stored
<1>6. ASSUME NEW m \in Seq(Message), NEW msg \in Message, msg.role = "user", Answered(m)
      PROVE  Answered(Append(m, msg))
  <2> DEFINE s == Append(m, msg)
  <2>1. /\ Len(m) \in Nat /\ DOMAIN m = 1..Len(m) /\ DOMAIN s = 1..(Len(m) + 1)
        /\ \A i \in DOMAIN s : \/ i \in DOMAIN m /\ s[i] = m[i]
                               \/ i = Len(m) + 1 /\ s[i] = msg
    BY AppendedElements
  <2> HIDE DEF s
  <2>2. ASSUME NEW i \in DOMAIN s, NEW j \in DOMAIN s,
               i < j, s[i].role = "user", s[j].role # "user"
        PROVE  s[i] \in AccountedMessages'
    <3>1. j \in DOMAIN m /\ s[j] = m[j]
      BY <1>6, <2>1, <2>2
    <3>2. i \in DOMAIN m /\ s[i] = m[i]
      BY <2>1, <2>2, <3>1
    <3>. QED  BY <1>6, <2>2, <3>1, <3>2
  <2>3. Answered(s)
    BY <2>2
  <2>. QED  BY <2>3 DEF s
<1>7. ASSUME NEW m \in Seq(Message), NEW msg \in Message, msg.role # "user", Every(m)
      PROVE  Answered(Append(m, msg)) /\ Every(Append(m, msg))
  <2> DEFINE s == Append(m, msg)
  <2>1. \A i \in DOMAIN s : \/ i \in DOMAIN m /\ s[i] = m[i]
                            \/ s[i] = msg
    BY AppendedElements
  <2> HIDE DEF s
  <2>2. Answered(s) /\ Every(s)
    BY <1>7, <2>1
  <2>. QED  BY <2>2 DEF s
<1>8. ASSUME NEW t \in Tab, NEW k \in Call, Send(t, k) \/ Retry(t, k)
      PROVE  QuestionsKept'
  <2>1. PICK c \in Addressed(t), retry \in BOOLEAN, h \in Seq(Message) :
           /\ c \in ConvId
           /\ StartFetch(t, k, retry, c, h)
           /\ history' = [history EXCEPT ![t] = h]
           /\ \/ h = history[t]
              \/ \E msg \in Message : /\ msg.role = "user"
                                      /\ h = Append(history[t], msg)
                                      /\ ~busy[t]
                                      /\ t \in hurried => msg.turn \in doubtful'
           /\ hurried \subseteq hurried' /\ hurried' \subseteq hurried \cup {t}
           /\ busy[t] => t \in hurried' /\ Turns(history[t]) \subseteq doubtful'
           /\ ~busy[t] => hurried' = hurried
           /\ UNCHANGED <<convs, lost>>
    BY <1>8, SendEffects
  <2>2. /\ \A q \in Call \ {k} : calls'[q] = calls[q]
        /\ calls[k] = NoCall
        /\ calls'[k].reply = "none" /\ calls'[k].server = "prepare"
        /\ calls'[k].tab = t /\ calls'[k].messages = h
        /\ current'[t] = k /\ \A u \in Tab \ {t} : current'[u] = current[u]
    BY <2>1, StartFetchFacts
  <2>3. busy[t] <=> current[t] # NoCall
    BY DEF TypeOK
  <2>4. Answered(h)
    <3>1. history[t] \in Seq(Message) /\ Answered(history[t])
      BY <1>1, <1>2, <1>4
    <3>. QED  BY <1>6, <2>1, <3>1
  <2>a. ASSUME t \in hurried' PROVE Every(h)
    <3>1. history[t] \in Seq(Message)
      BY <1>2
    <3>2. \A i \in DOMAIN history[t] : history[t][i] \in Message
      BY <3>1, LenProperties, ElementOfSeq
    <3>3. CASE busy[t]
      <4>1. h = history[t] /\ Turns(history[t]) \subseteq doubtful'
        BY <2>1, <3>3
      <4>2. \A i \in DOMAIN h : h[i].role = "user" => h[i].turn \in doubtful'
        BY <4>1 DEF Turns
      <4>. QED  BY <3>2, <4>1, <4>2 DEF AccountedMessages, Accounted
    <3>4. CASE ~busy[t]
      <4>1. t \in hurried
        BY <2>1, <2>a, <3>4
      <4>2. Every(history[t])
        BY <1>1, <1>4, <3>1, <4>1
      <4>3. CASE h = history[t]
        BY <4>2, <4>3
      <4>4. ASSUME NEW msg \in Message, h = Append(history[t], msg), msg.turn \in doubtful'
            PROVE  Every(h)
        <5> DEFINE m == history[t]
        <5>1. \A i \in DOMAIN h : \/ i \in DOMAIN m /\ h[i] = m[i]
                                  \/ h[i] = msg
          BY <3>1, <4>4, AppendedElements
        <5>2. msg \in AccountedMessages' /\ Every(m)
          BY <4>2, <4>4 DEF AccountedMessages, Accounted
        <5> HIDE DEF m
        <5>. QED  BY <5>1, <5>2
      <4>. QED  BY <2>1, <4>1, <4>3, <4>4
    <3>. QED  BY <3>3, <3>4
  <2>5. ASSUME NEW u \in Tab PROVE Answered(history'[u]) /\ PageOk(u)
    <3>1. CASE u = t
      BY <2>1, <2>2, <2>4, <2>a, <3>1 DEF TypeOK
    <3>2. CASE u # t
      <4>1. history'[u] = history[u] /\ current'[u] = current[u]
        BY <2>1, <2>2, <3>2 DEF TypeOK
      <4>2. current[u] # NoCall => calls'[current[u]] = calls[current[u]]
        BY <1>2, <2>2
      <4>3. u \in hurried' => u \in hurried
        BY <2>1, <3>2
      <4>. QED  BY <1>1, <1>2, <1>4, <4>1, <4>2, <4>3
    <3>. QED  BY <3>1, <3>2
  <2>6. ASSUME NEW q \in Call PROVE CallOk(q)
    <3>1. CASE q = k
      BY <2>2, <2>4, <3>1 DEF Recorded
    <3>2. CASE q # k
      <4>1. calls'[q] = calls[q]
        BY <2>2, <3>2
      <4>2. calls[q] # NoCall /\ calls[q].waiting /\ calls[q].tab \notin hurried' =>
              current'[calls[q].tab] = q
        <5>1. SUFFICES ASSUME calls[q] # NoCall, calls[q].waiting,
                              calls[q].tab \notin hurried'
                       PROVE  current'[calls[q].tab] = q
          OBVIOUS
        <5>2. current[calls[q].tab] = q /\ calls[q].tab \in Tab /\ q # NoCall
          BY <1>1, <1>2, <2>1, <5>1, ConstantsAssumption
        <5>3. calls[q].tab # t
          BY <2>1, <2>3, <5>1, <5>2
        <5>. QED  BY <2>2, <5>2, <5>3
      <4>. QED  BY <1>1, <1>2, <1>4, <4>1, <4>2
    <3>. QED  BY <3>1, <3>2
  <2>. QED  BY <1>5, <1>a, <2>1, <2>5, <2>6
<1>9. ASSUME NEW k \in Call, calls[k] # NoCall, UNCHANGED <<pageVars, hurry>>,
             \A q \in Call \ {k} : calls'[q] = calls[q],
             calls[k].waiting => calls'[k] # NoCall,
             calls'[k] # NoCall => /\ calls'[k].tab = calls[k].tab
                                   /\ calls'[k].messages = calls[k].messages
                                   /\ calls'[k].waiting = calls[k].waiting
                                   /\ Recorded(calls'[k]) => Every(calls[k].messages),
             AnswerFollowsQuestion'
      PROVE  QuestionsKept'
  <2>1. history' = history /\ current' = current /\ hurried' = hurried
    BY <1>9 DEF pageVars, hurry
  <2>2. ASSUME NEW u \in Tab PROVE Answered(history'[u]) /\ PageOk(u)
    <3>1. current[u] # NoCall => calls'[current[u]].messages = calls[current[u]].messages
      BY <1>2, <1>9
    <3>. QED  BY <1>1, <1>2, <1>4, <2>1, <3>1
  <2>3. ASSUME NEW q \in Call PROVE CallOk(q)
    <3>1. CASE q = k
      BY <1>1, <1>2, <1>4, <1>9, <2>1, <3>1
    <3>2. CASE q # k
      BY <1>1, <1>2, <1>4, <1>9, <2>1, <3>2
    <3>. QED  BY <3>1, <3>2
  <2>. QED  BY <1>9, <1>a, <2>2, <2>3
<1>10. ASSUME NEW k \in Call, NEW reply \in {"none", "answer", "empty", "error", "refused"},
              calls[k] # NoCall, HandlerEnds(k, reply), UNCHANGED <<pageVars, hurry>>,
              reply \in {"none", "refused"} \/ calls[k].server = "run",
              AnswerFollowsQuestion'
       PROVE  QuestionsKept'
  <2>1. /\ \A q \in Call \ {k} : calls'[q] = calls[q]
        /\ calls[k].waiting => calls'[k] # NoCall
        /\ calls'[k] # NoCall => /\ calls'[k].tab = calls[k].tab
                                 /\ calls'[k].messages = calls[k].messages
                                 /\ calls'[k].waiting = calls[k].waiting
                                 /\ calls'[k].server = "done" /\ calls'[k].reply = reply
    BY <1>10, HandlerEndsFacts
  <2>2. calls'[k] # NoCall /\ Recorded(calls'[k]) => Every(calls[k].messages)
    <3>1. calls'[k] # NoCall /\ Recorded(calls'[k]) => calls[k].server = "run"
      BY <1>10, <2>1 DEF Recorded
    <3>2. calls[k].server = "run" => AllKept(calls[k].messages)
      BY <1>1, <1>10 DEF Recorded
    <3>. QED  BY <1>2, <1>4, <1>10, <3>1, <3>2
  <2>. QED  BY <1>9, <1>10, <2>1, <2>2
<1>11. ASSUME NEW k \in Call, PrepareFails(k) \/ RunEndsUnrecorded(k) \/ HandlerDies(k)
       PROVE  QuestionsKept'
  BY <1>5, <1>10, <1>11 DEF PrepareFails, RunEndsUnrecorded, HandlerDies, At
<1>12. ASSUME NEW k \in Call, RecordUserTurn(k)
       PROVE  QuestionsKept'
  <2> DEFINE r == [calls[k] EXCEPT !.server = "run"]
             m == calls[k].messages
             batch == TrailingUserMessages(m)
  <2>1. /\ calls[k] # NoCall /\ calls[k] \in Request /\ calls[k].conv \in ConvId
        /\ m \in Seq(Message)
    BY <1>2, <1>12, CallType DEF RecordUserTurn, At
  <2>2. /\ calls' = [calls EXCEPT ![k] = r] /\ UNCHANGED <<pageVars, hurry>>
        /\ (batch = <<>> /\ UNCHANGED <<convs, lost>>) \/ AppendToLedger(calls[k].conv, batch)
    BY <1>12 DEF RecordUserTurn
  <2>3. /\ r.tab = calls[k].tab /\ r.messages = m /\ r.waiting = calls[k].waiting
        /\ r # NoCall
    BY <2>1, AbsenceAssumption DEF Request
  <2> HIDE DEF r
  <2>4. calls'[k] = r /\ \A q \in Call \ {k} : calls'[q] = calls[q]
    BY <2>2 DEF TypeOK
  <2>5. /\ batch \in Seq(Message)
        /\ \A i \in DOMAIN batch : batch[i].role = "user" /\ batch[i].conv = calls[k].conv
    <3>1. batch \in Seq(Message)
      BY <2>1, TrailingFacts
    <3>2. ASSUME NEW i \in DOMAIN batch
          PROVE  batch[i].role = "user" /\ batch[i].conv = calls[k].conv
      <4>1. PICK j \in DOMAIN m : batch[i] = m[j] /\ m[j].role = "user"
        BY <2>1, <3>2, TrailingFacts
      <4>. QED  BY <2>1, <4>1 DEF OwnMessages, CallOwns
    <3>. QED  BY <3>1, <3>2
  <2>6. AnswerFollowsQuestion'
    <3> HIDE DEF batch
    <3>. QED  BY <1>1, <1>5, <2>1, <2>2, <2>5, AppendFollows DEF hurry
  <2>7. Every(m)
    <3>1. ASSUME NEW j \in DOMAIN m, m[j].role = "user", j \in 1..Boundary(m)
          PROVE  m[j] \in AccountedMessages'
      <4>1. /\ Boundary(m) \in 0..Len(m) /\ Len(m) \in Nat /\ DOMAIN m = 1..Len(m)
            /\ Boundary(m) # 0 => m[Boundary(m)].role # "user"
        BY <2>1, BoundaryFacts, LenProperties
      <4>2. Boundary(m) \in DOMAIN m /\ j < Boundary(m) /\ m[Boundary(m)].role # "user"
        BY <3>1, <4>1
      <4>3. Answered(m)
        BY <1>1, <1>4, <2>1
      <4> HIDE DEF m
      <4>. QED  BY <3>1, <4>2, <4>3
    <3>2. \A i \in DOMAIN batch : batch[i] \in AccountedMessages'
      <4>1. CASE batch = <<>>
        BY <4>1
      <4>2. CASE AppendToLedger(calls[k].conv, batch)
        <5>1. \A i \in DOMAIN batch : batch[i] \in Message
          BY <2>5, LenProperties, ElementOfSeq
        <5> HIDE DEF batch
        <5>. QED  BY <2>1, <2>5, <4>2, <5>1, AppendKeeps DEF AccountedMessages, Accounted
      <4>. QED  BY <2>2, <4>1, <4>2
    <3>3. \A j \in DOMAIN m :
            j \in 1..Boundary(m) \/ \E i \in DOMAIN batch : batch[i] = m[j]
      BY <2>1, TrailingFacts
    <3> HIDE DEF m, batch
    <3>. QED  BY <3>1, <3>2, <3>3
  <2>. QED  BY <1>9, <2>1, <2>2, <2>3, <2>4, <2>6, <2>7
<1>13. ASSUME NEW k \in Call, RecordAssistantTurn(k)
       PROVE  QuestionsKept'
  <2> DEFINE msg == AnswerTo(calls[k])
             m == calls[k].messages
  <2>1. /\ calls[k] # NoCall /\ calls[k].server = "run"
        /\ calls[k].conv \in ConvId /\ m \in Seq(Message)
    BY <1>2, <1>13 DEF RecordAssistantTurn, At
  <2>2. msg \in Message /\ msg.turn = LastTurn(m)
    BY <2>1, LastTurnType DEF AnswerTo, Message
  <2>3. /\ AppendToLedger(calls[k].conv, <<msg>>) /\ HandlerEnds(k, "answer")
        /\ UNCHANGED <<pageVars, hurry>>
    BY <1>13 DEF RecordAssistantTurn, AnswerTo
  <2>4. msg.turn # 0 =>
          \/ \E q \in Message : /\ q.role = "user" /\ q.turn = msg.turn
                                /\ Stores(calls[k].conv, q) \/ q \in lost
          \/ msg.turn \in doubtful
    <3>1. SUFFICES ASSUME msg.turn # 0, msg.turn \notin doubtful
                   PROVE  \E q \in Message : /\ q.role = "user" /\ q.turn = msg.turn
                                             /\ Stores(calls[k].conv, q) \/ q \in lost
      OBVIOUS
    <3>2. PICK j \in DOMAIN m : m[j].role = "user" /\ msg.turn = m[j].turn
      BY <2>1, <2>2, <3>1, LastTurnFacts
    <3>3. m[j] \in Message
      BY <2>1, LenProperties, ElementOfSeq
    <3>4. m[j].conv = calls[k].conv
      BY <2>1, <3>2 DEF OwnMessages, CallOwns
    <3>5. Kept(m[j])
      BY <1>1, <2>1, <3>1, <3>2 DEF Recorded, AllKept, Accounted
    <3>. QED  BY <3>2, <3>3, <3>4, <3>5 DEF Kept
  <2> HIDE DEF msg
  <2>5. <<msg>> \in Seq(Message) /\ DOMAIN <<msg>> = {1} /\ <<msg>>[1] = msg
    BY <2>2
  <2>6. AnswerFollowsQuestion'
    BY <1>1, <2>1, <2>3, <2>4, <2>5, AppendFollows DEF hurry
  <2>. QED  BY <1>10, <2>1, <2>3, <2>6
<1>14. ASSUME \/ \E k \in Call : Receive(k) \/ FetchFails(k)
              \/ \E t \in Tab : Abort(t)
       PROVE  QuestionsKept'
  <2>1. PICK q \in Call : ClientReturns(q)
    BY <1>14, ClientEffects
  <2> DEFINE u == calls[q].tab
             m == history[u]
  <2>2. /\ u \in Tab /\ \A t \in Tab \ {u} : history'[t] = history[t] /\ current'[t] = current[t]
        /\ current'[u] = NoCall
        /\ \A k \in Call \ {q} : calls'[k] = calls[k]
        /\ calls[q] # NoCall /\ calls[q].waiting
        /\ calls'[q] # NoCall => /\ calls'[q].messages = calls[q].messages
                                 /\ ~calls'[q].waiting
                                 /\ calls'[q].server = calls[q].server
                                 /\ calls'[q].reply = calls[q].reply
        /\ UNCHANGED <<convs, lost, hurried>>
    BY <2>1, ClientEndsFacts DEF ClientReturns, Waiting, hurry
  <2>3. \/ history'[u] = m
        \/ \E msg \in Message : /\ calls[q].reply \in {"answer", "error"}
                                /\ msg.role = calls[q].reply
                                /\ history'[u] = Append(m, msg)
    BY <2>1 DEF ClientReturns
  <2>c. hurried' = hurried
    BY <2>2
  <2>4. u \notin hurried => current[u] = q
    BY <1>1, <2>2
  <2>b. m \in Seq(Message) /\ Answered(m) /\ (u \in hurried => Every(m))
    BY <1>1, <1>2, <1>4, <2>2
  <2>5. Answered(history'[u]) /\ (u \in hurried => Every(history'[u]))
    <3>1. calls[q].reply \in {"answer", "error"} => Every(m)
      <4>1. calls[q].reply \in {"answer", "error"} => AllKept(calls[q].messages)
        BY <1>1, <2>2 DEF Recorded
      <4>2. q # NoCall
        BY ConstantsAssumption
      <4>3. u \notin hurried => history[u] = calls[q].messages \/ AllKept(history[u])
        BY <1>1, <2>2, <2>4, <4>2
      <4>. QED  BY <1>4, <2>b, <4>1, <4>3
    <3>. QED  BY <1>7, <2>3, <2>b, <3>1
  <2> HIDE DEF u
  <2>6. ASSUME NEW t \in Tab PROVE Answered(history'[t]) /\ PageOk(t)
    <3>1. CASE t = u
      BY <2>2, <2>5, <3>1
    <3>2. CASE t # u
      <4>1. history'[t] = history[t] /\ current'[t] = current[t]
        BY <2>2, <3>2
      <4>2. current[t] # NoCall => calls'[current[t]] = calls[current[t]]
        BY <1>2, <2>2, <3>2 DEF u
      <4>. QED  BY <1>1, <1>2, <1>4, <2>c, <4>1, <4>2
    <3>. QED  BY <3>1, <3>2
  <2>7. ASSUME NEW k \in Call PROVE CallOk(k)
    <3>1. CASE k = q
      <4>1. calls'[q] # NoCall /\ Recorded(calls'[q]) => Recorded(calls[q])
        BY <2>2 DEF Recorded
      <4>. QED  BY <1>1, <1>2, <1>4, <2>2, <3>1, <4>1
    <3>2. CASE k # q
      <4>1. calls'[k] = calls[k]
        BY <2>2, <3>2
      <4>2. calls[k] # NoCall /\ calls[k].waiting /\ calls[k].tab \notin hurried =>
              current'[calls[k].tab] = k
        <5>1. calls[k] # NoCall /\ calls[k].waiting /\ calls[k].tab \notin hurried =>
                calls[k].tab # u
          BY <1>1, <2>4, <3>2
        <5>. QED  BY <1>1, <1>2, <2>2, <5>1
      <4>. QED  BY <1>1, <1>2, <1>4, <2>c, <4>1, <4>2
    <3>. QED  BY <3>1, <3>2
  <2>. QED  BY <1>5, <1>a, <2>2, <2>6, <2>7
<1>15. ASSUME UNCHANGED <<calls, current, hurried>>, AnswerFollowsQuestion',
              \A t \in Tab : history'[t] = history[t] \/ Every(history'[t])
       PROVE  QuestionsKept'
  <2>1. ASSUME NEW t \in Tab PROVE Answered(history'[t]) /\ PageOk(t)
    BY <1>1, <1>2, <1>4, <1>15
  <2>2. ASSUME NEW k \in Call PROVE CallOk(k)
    BY <1>1, <1>2, <1>4, <1>15
  <2>. QED  BY <1>15, <1>a, <2>1, <2>2
<1>16. ASSUME NEW t \in Tab, NEW c, NEW h, Show(t, c, h), Every(h)
       PROVE  \A u \in Tab : history'[u] = history[u] \/ Every(history'[u])
  <2>1. history'[t] = h /\ \A u \in Tab \ {t} : history'[u] = history[u]
    BY <1>16 DEF Show, TypeOK
  <2>. QED  BY <1>16, <2>1
<1>17. Every(<<>>)
  OBVIOUS
<1>18. ASSUME NEW t \in Tab, NewChat(t) \/ ShowSelected(t) \/ ForgetDeleted(t)
       PROVE  QuestionsKept'
  <2>1. AnswerFollowsQuestion' /\ UNCHANGED <<calls, current, hurried>>
    BY <1>5, <1>18 DEF NewChat, ShowSelected, ForgetDeleted, hurry
  <2>2. \A u \in Tab : history'[u] = history[u] \/ Every(history'[u])
    <3>1. CASE NewChat(t)
      BY <1>16, <1>17, <3>1 DEF NewChat
    <3>2. CASE ShowSelected(t)
      <4> DEFINE h == opening[t].messages
      <4>1. opening[t] \in Fetch /\ opening[t] # NoFetch
        BY <3>2 DEF ShowSelected, Opening, TypeOK
      <4>2. h \in Seq(Message)
        BY <4>1 DEF Fetch
      <4>3. \A i \in DOMAIN h : h[i] \in Message
        BY <4>2, LenProperties, ElementOfSeq
      <4>4. \A i \in DOMAIN h : h[i] \in KeptMessages
        BY <4>1, <4>3 DEF OwnMessages, LoadsOwn, KeptMessages
      <4>5. Show(t, opening[t].conv, h)
        BY <3>2 DEF ShowSelected
      <4> HIDE DEF h
      <4>6. Every(h)
        BY <1>3, <4>4
      <4>. QED  BY <1>16, <4>5, <4>6
    <3>3. CASE ForgetDeleted(t)
      BY <1>16, <1>17, <3>3 DEF ForgetDeleted
    <3>. QED  BY <1>18, <3>1, <3>2, <3>3
  <2>. QED  BY <1>15, <2>1, <2>2
<1>19. ASSUME NEW t \in Tab,
              \/ \E c \in ConvId : Select(t, c) \/ AskDelete(t, c)
              \/ GetConversationRow(t) \/ LoadMessages(t) \/ DeleteFails(t)
       PROVE  QuestionsKept'
  <2>1. UNCHANGED <<convs, lost, calls, current, history, hurried>>
    BY <1>19
    DEF Select, AskDelete, GetConversationRow, LoadMessages, DeleteFails, pageVars, hurry
  <2>. QED  BY <1>5, <1>15, <2>1
<1>20. ASSUME NEW t \in Tab, Delete(t)
       PROVE  QuestionsKept'
  <2>1. UNCHANGED <<calls, current, history, hurried, doubtful>> /\ lost \subseteq lost'
    BY <1>20 DEF Delete, pageVars, hurry
  <2>2. AnswerFollowsQuestion'
    BY <1>1, <1>20, <2>1, DeleteKeeps DEF AnswerFollowsQuestion
  <2>. QED  BY <1>15, <2>1, <2>2
<1>21. ASSUME NEW c \in ConvId, Rename(c)
       PROVE  QuestionsKept'
  <2>1. UNCHANGED <<calls, current, history, lost, hurried, doubtful>>
    BY <1>21 DEF Rename, pageVars, hurry
  <2>2. AnswerFollowsQuestion'
    BY <1>1, <1>21, <2>1, RenameKeeps DEF AnswerFollowsQuestion
  <2>. QED  BY <1>15, <2>1, <2>2
<1>. QED
  BY <1>8, <1>11, <1>12, <1>13, <1>14, <1>18, <1>19, <1>20, <1>21
  DEF Next, Page, Server
-----------------------------------------------------------------------------
(* The theorems *)

LEMMA StutterInv == ASSUME WebChatInv, UNCHANGED vars PROVE WebChatInv'
<1>1. TypeOK' /\ IdsAreDrawn' /\ Controllers'
  BY DEF WebChatInv, vars, pageVars, navVars, hurry, TypeOK, IdsAreDrawn, Stored,
         Controllers, Waiting
<1>2. OwnMessages' /\ AnswersKept'
  BY DEF WebChatInv, vars, pageVars, navVars, OwnMessages, LedgerNeverMixes, Stored, PageOwns,
         CallOwns, LoadsOwn, Kept, Stores, AnswersKept, ShownAnswersAreStored
<1>3. QuestionsKept <=> QuestionsKept'
  BY DEF vars, pageVars, hurry, QuestionsKept, AnswerFollowsQuestion, Stored, AnsweredKept,
         AllKept, Accounted, Kept, Stores
<1>. QED  BY <1>1, <1>2, <1>3 DEF WebChatInv

(* The inductive invariant holds for any number of tabs, calls and
   conversations, whatever stands for nothing. *)
THEOREM WebChatInvHolds == Spec => []WebChatInv
<1>1. WebChatInv /\ [Next]_vars => WebChatInv'
  BY NextType, NextOwn, NextAnswers, NextQuestions, StutterInv DEF WebChatInv
<1>. QED  BY InitInv, <1>1, PTL DEF Spec

(* Ledger, pages and requests keep their shape; a page is busy exactly while
   it has a controller to abort. *)
THEOREM TypeCorrect == Spec => []TypeOK
BY WebChatInvHolds, PTL DEF WebChatInv

(* A message is only stored in the conversation it was typed in. *)
THEOREM LedgerNeverMixesHolds == Spec => []LedgerNeverMixes
<1>1. WebChatInv => LedgerNeverMixes
  BY DEF WebChatInv, OwnMessages
<1>. QED  BY <1>1, WebChatInvHolds, PTL

(* What a page shows as an answer is kept. *)
THEOREM ShownAnswersAreStoredHolds == Spec => []ShownAnswersAreStored
<1>1. WebChatInv => ShownAnswersAreStored
  BY DEF WebChatInv, AnswersKept
<1>. QED  BY <1>1, WebChatInvHolds, PTL

(* An answer in the ledger comes after the message it answers, unless that
   message is lost or was shown by a page whose user had pressed Reintentar
   during an answer. *)
THEOREM AnswerFollowsQuestionHolds == Spec => []AnswerFollowsQuestion
<1>1. WebChatInv => AnswerFollowsQuestion
  BY DEF WebChatInv, QuestionsKept
<1>. QED  BY <1>1, WebChatInvHolds, PTL

(* No request in flight takes a given name away. *)
THEOREM NameIsKeptHolds == Spec => NameIsKept
<1> DEFINE Named ==
      \A c \in ConvId :
        Stored(c) /\ Stored(c)' /\ convs[c].title = "given" => convs'[c].title = "given"
<1>1. ASSUME UNCHANGED convs PROVE Named
  BY <1>1
<1>2. ASSUME WebChatInv, NEW c \in ConvId, NEW batch \in Seq(Message), AppendToLedger(c, batch)
      PROVE  Named
  BY <1>1, <1>2, AppendedFacts DEF AppendToLedger, WebChatInv
<1>3. ASSUME WebChatInv, Next PROVE Named
  <2>1. /\ \A t \in Tab, k \in Call : Send(t, k) \/ Retry(t, k) => UNCHANGED convs
        /\ \A t \in Tab, c \in ConvId : Select(t, c) \/ AskDelete(t, c) => UNCHANGED convs
        /\ \A t \in Tab : Abort(t) \/ NewChat(t) \/ ShowSelected(t) \/ ForgetDeleted(t)
                            \/ DeleteFails(t) \/ GetConversationRow(t) \/ LoadMessages(t)
                              => UNCHANGED convs
        /\ \A k \in Call : PrepareFails(k) \/ RunEndsUnrecorded(k) \/ HandlerDies(k)
                             \/ Receive(k) \/ FetchFails(k) => UNCHANGED convs
    BY DEF Send, Retry, Select, AskDelete, Abort, NewChat, ShowSelected, ForgetDeleted,
           DeleteFails, GetConversationRow, LoadMessages, PrepareFails, RunEndsUnrecorded, HandlerDies,
           Receive, FetchFails
  <2>2. ASSUME NEW k \in Call, RecordUserTurn(k) \/ RecordAssistantTurn(k) PROVE Named
    <3> DEFINE batch == TrailingUserMessages(calls[k].messages)
               msg == AnswerTo(calls[k])
    <3>1. calls[k].conv \in ConvId /\ calls[k].messages \in Seq(Message)
      BY <1>3, <2>2, CallType DEF RecordUserTurn, RecordAssistantTurn, At, Request, WebChatInv
    <3>2. batch \in Seq(Message) /\ msg \in Message
      BY <3>1, TrailingFacts, LastTurnType DEF AnswerTo, Message
    <3>3. \/ UNCHANGED convs
          \/ AppendToLedger(calls[k].conv, batch)
          \/ AppendToLedger(calls[k].conv, <<msg>>)
      BY <2>2 DEF RecordUserTurn, RecordAssistantTurn, AnswerTo
    <3> HIDE DEF batch, msg
    <3>4. <<msg>> \in Seq(Message)
      BY <3>2
    <3>. QED  BY <1>1, <1>2, <1>3, <3>1, <3>2, <3>3, <3>4
  <2>3. ASSUME NEW t \in Tab, Delete(t) PROVE Named
    BY <1>3, <2>3, DeleteKeeps DEF WebChatInv
  <2>4. ASSUME NEW c \in ConvId, Rename(c) PROVE Named
    BY <1>3, <2>4, StoredType DEF Rename, WebChatInv, TypeOK, Conversation
  <2>. QED  BY <1>1, <1>3, <2>1, <2>2, <2>3, <2>4 DEF Next, Page, Server
<1>4. WebChatInv /\ [Next]_vars => [Named]_vars
  BY <1>3
<1>. QED  BY <1>4, WebChatInvHolds, PTL DEF Spec, NameIsKept
=============================================================================
