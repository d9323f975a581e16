---------------------------- MODULE WebChatProps ----------------------------
(***************************************************************************)
(* The properties of module WebChat.                                       *)
(***************************************************************************)
EXTENDS WebChat

(* The shape of the ledger, of the pages and of the requests; a page is busy
   exactly while it has a controller to abort (app.js:435-438, 503-505). *)
TypeOK ==
  /\ convs \in [ConvId -> Conversation \cup {NotStored}]
  /\ sends \in 0..MaxSends
  /\ drawn \in SUBSET ConvId
  /\ active \in [Tab -> drawn \cup {NoConv}]
  /\ history \in [Tab -> Seq(Message)]
  /\ busy \in [Tab -> BOOLEAN]
  /\ current \in [Tab -> Call \cup {NoCall}]
  /\ retryable \in [Tab -> BOOLEAN]
  /\ opening \in [Tab -> Fetch \cup {NoFetch}]
  /\ deleting \in [Tab -> Removal \cup {NoFetch}]
  /\ calls \in [Call -> Request \cup {NoCall}]
  /\ lost \in SUBSET Message
  /\ hurried \in SUBSET Tab
  /\ doubtful \in SUBSET (0..MaxSends)
  /\ \A t \in Tab : busy[t] <=> current[t] # NoCall

Stores(c, msg) ==
  Stored(c) /\ \E i \in DOMAIN convs[c].messages : convs[c].messages[i] = msg

\* The ledger has msg, or it could not be written or was deleted meanwhile.
Kept(msg) == Stores(msg.conv, msg) \/ msg \in lost

(* recordUserTurn comes before the run and recordAssistantTurn after it
   (server.go:157-166, 203-205, 299), and what has to be recorded is guessed
   from the history (conversations.go:150-167): an answer in the ledger comes
   after the message it answers, whatever other tabs and retries do, unless
   that message could not be written or was deleted meanwhile.  The exception
   are the messages of a tab whose user has pressed an old Reintentar button
   during an answer, which the page allows (app.js:490-498): of two answers on
   their way to one history, the later one may land behind a message that it
   does not answer, and that message then counts as recorded. *)
AnswerFollowsQuestion ==
  \A c \in ConvId :
    Stored(c) =>
      LET m == convs[c].messages
      IN  \A i \in DOMAIN m :
            m[i].role = "answer" /\ m[i].turn # 0 =>
              \/ \E j \in 1..(i - 1) : m[j].role = "user" /\ m[j].turn = m[i].turn
              \/ \E msg \in lost : msg.role = "user" /\ msg.turn = m[i].turn
              \/ m[i].turn \in doubtful

(* README.md:137-139: the id in X-Conversation-ID names the conversation.  A
   message is only stored in the conversation it was typed in, although a page
   can change its conversation while its requests are in flight and although
   a request records again what the history says was not answered. *)
LedgerNeverMixes ==
  \A c \in ConvId :
    Stored(c) =>
      \A i \in DOMAIN convs[c].messages : convs[c].messages[i].conv = c

(* The answer is recorded before the stream ends (server.go:299-301): what a
   page shows as an answer, a page opened later finds in the ledger, unless
   the write failed or the conversation was deleted. *)
ShownAnswersAreStored ==
  \A t \in Tab :
    \A i \in DOMAIN history[t] :
      history[t][i].role = "answer" => Kept(history[t][i])

\* Whatever conversation is stored, sent to or opened had its id drawn.
IdsAreDrawn ==
  /\ \A c \in ConvId : Stored(c) => c \in drawn
  /\ \A k \in Call : calls[k] # NoCall => calls[k].conv \in drawn
  /\ \A t \in Tab : opening[t] # NoFetch => opening[t].conv \in drawn

\* What a page would abort is a call of its own that it waits for.
Controllers ==
  \A t \in Tab :
    current[t] # NoCall => Waiting(current[t]) /\ calls[current[t]].tab = t

\* What a page or a request holds of user messages was typed where it belongs,
\* and a page loads what its conversation holds.
PageOwns(t) ==
  \A i \in DOMAIN history[t] :
    history[t][i].role = "user" => history[t][i].conv = active[t]

CallOwns(k) ==
  calls[k] # NoCall =>
    \A i \in DOMAIN calls[k].messages :
      calls[k].messages[i].role = "user" => calls[k].messages[i].conv = calls[k].conv

LoadsOwn(t) ==
  opening[t] # NoFetch =>
    \A i \in DOMAIN opening[t].messages :
      /\ opening[t].messages[i].conv = opening[t].conv
      /\ Kept(opening[t].messages[i])

OwnMessages ==
  /\ LedgerNeverMixes
  /\ \A t \in Tab : PageOwns(t) /\ LoadsOwn(t)
  /\ \A k \in Call : CallOwns(k)

\* The answer that the handler of a request records.
AnswerTo(r) == [role |-> "answer", turn |-> LastTurn(r.messages), conv |-> r.conv]

\* An answer that has been sent was recorded.
AnswersKept ==
  /\ ShownAnswersAreStored
  /\ \A k \in Call :
       calls[k] # NoCall /\ calls[k].reply = "answer" => Kept(AnswerTo(calls[k]))

\* A message that is kept, or was shown by a tab in a hurry.
Accounted(msg) == Kept(msg) \/ msg.turn \in doubtful

\* The user messages of a history are accounted for; those that something
\* follows are.
AllKept(m) == \A i \in DOMAIN m : m[i].role = "user" => Accounted(m[i])
AnsweredKept(m) ==
  \A i, j \in DOMAIN m :
    i < j /\ m[i].role = "user" /\ m[j].role # "user" => Accounted(m[i])

\* A request has recorded its messages once it runs.
Recorded(r) == r.server = "run" \/ r.reply \in {"answer", "error", "empty"}

\* A page that is not in a hurry waits for one request at a time, and shows
\* what it sent or what it has loaded meanwhile; what any other page shows is
\* accounted for, and so are the messages of a request once it runs.
QuestionsKept ==
  /\ AnswerFollowsQuestion
  /\ \A t \in Tab : AnsweredKept(history[t])
  /\ \A k \in Call :
       calls[k] # NoCall =>
         /\ AnsweredKept(calls[k].messages)
         /\ Recorded(calls[k]) => AllKept(calls[k].messages)
         /\ calls[k].waiting /\ calls[k].tab \notin hurried => current[calls[k].tab] = k
  /\ \A t \in Tab :
       \/ /\ t \notin hurried
          /\ current[t] # NoCall => history[t] = calls[current[t]].messages
       \/ AllKept(history[t])

(* The inductive invariant behind the properties above. *)
WebChatInv ==
  /\ TypeOK
  /\ IdsAreDrawn
  /\ Controllers
  /\ OwnMessages
  /\ AnswersKept
  /\ QuestionsKept

(* The title in the upsert (conversations.go:17-22): a conversation that the
   user renamed keeps its name, whatever requests are in flight. *)
NameIsKept ==
  [][\A c \in ConvId :
       Stored(c) /\ Stored(c)' /\ convs[c].title = "given" =>
         convs'[c].title = "given"]_vars

=============================================================================
