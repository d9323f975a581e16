------------------------------- MODULE WebChat -------------------------------
(***************************************************************************)
(* The conversations of the Web UI: browser tabs that send, retry, abort,  *)
(* open, delete and rename chats (internal/adapters/webui/static/app.js),  *)
(* the handlers that record each turn (internal/adapters/httpapi), and the *)
(* ledger in SQLite (internal/adapters/dbstore/conversations.go).          *)
(*                                                                         *)
(* A message is known by the turn it belongs to: what request n sent,      *)
(* the answer of a run to it, or the text a tab shows for a run that       *)
(* failed.  It also carries the conversation it was written for, which the *)
(* program does not store.  Whatever the run does in between (modules      *)
(* Sessions and Engine), here it answers, says nothing or fails.           *)
(***************************************************************************)
EXTENDS Naturals, Sequences, SequencesExt

CONSTANTS
  Tab,        \* browser tabs
  Call,       \* invocations of sendMessage, each with the handler it reaches
  ConvId,     \* conversation ids randomUUID can draw
  NoConv,     \* activeConvId = null
  NoCall,     \* a Call that is not in use; currentController = null
  NotStored,  \* no row
  NoFetch,    \* no GET or DELETE in flight
  MaxSends    \* bound: requests sent

ASSUME ConstantsAssumption ==
  /\ NoConv \notin ConvId
  /\ NoCall \notin Call
  /\ MaxSends \in Nat

VARIABLES
  convs,      \* tables conversations and messages
  sends,      \* requests sent so far
  drawn,      \* conversation ids drawn so far
  active,     \* activeConvId of each tab
  history,    \* history of each tab
  busy,       \* busy of each tab
  current,    \* currentController of each tab
  retryable,  \* the tab shows a "Reintentar" button
  opening,    \* the GET of selectConversation in flight
  deleting,   \* the DELETE of deleteConversation in flight
  calls,      \* the requests: their client and their server side
  lost,       \* history: messages never written, or deleted
  hurried,    \* history: tabs whose user has pressed Reintentar while busy
  doubtful    \* history: turns these tabs then showed, or have sent since

pageVars == <<active, history, busy, current, retryable>>
navVars == <<opening, deleting>>
hurry == <<hurried, doubtful>>
vars == <<convs, sends, drawn, pageVars, navVars, calls, lost, hurry>>

-----------------------------------------------------------------------------
(* Messages, rows and requests *)

\* Turn 0 is that of a run without a user message.
Message == [role : {"user", "answer", "error"}, turn : 0..MaxSends, conv : ConvId]
Title == {"untitled", "derived", "given"}
Conversation == [title : Title, messages : Seq(Message)]

Fetch == [conv : ConvId, stage : {"row", "messages", "arrived"},
          messages : Seq(Message)]
Removal == [conv : ConvId, answered : BOOLEAN]

Request == [tab : Tab, retry : BOOLEAN, conv : ConvId, messages : Seq(Message),
            server : {"prepare", "run", "done"}, waiting : BOOLEAN,
            reply : {"none", "answer", "empty", "error", "refused"}]

\* What stands for nothing is nothing else.
ASSUME AbsenceAssumption ==
  /\ NotStored \notin Conversation
  /\ NoFetch \notin Fetch \cup Removal
  /\ NoCall \notin Request

Stored(c) == convs[c] # NotStored

\* The index of the last assistant message with text (0: none).
Boundary(m) == SelectLastInSeq(m, LAMBDA msg : msg.role # "user")

MUTTrailingUserMessages_FirstOnly(m) ==
  SubSeq(m, Boundary(m) + 1, IF Boundary(m) < Len(m) THEN Boundary(m) + 1 ELSE 0)

TrailingUserMessages(m) == SubSeq(m, Boundary(m) + 1, Len(m))

\* The turn a run answers.
LastTurn(m) ==
  LET i == SelectLastInSeq(m, LAMBDA msg : msg.role = "user")
  IN  IF i = 0 THEN 0 ELSE m[i].turn

-----------------------------------------------------------------------------
(* The ledger *)

\* Every user message has text here.
DeriveTitle(batch) ==
  IF \E i \in DOMAIN batch : batch[i].role = "user" THEN "derived" ELSE "untitled"

\* An UPDATE finds no row to update.
MUTAppended_NoUpsert(c, batch) ==
  IF convs[c] = NotStored
    THEN convs
    ELSE [convs EXCEPT ![c].messages = @ \o batch]

\* ON CONFLICT DO UPDATE SET title = excluded.title.
MUTAppended_Retitles(c, batch) ==
  [convs EXCEPT ![c] =
     [title |-> DeriveTitle(batch),
      messages |-> (IF @ = NotStored THEN <<>> ELSE @.messages) \o batch]]

\* Append's transaction.  A title is never empty, so a stored one stays.
Appended(c, batch) ==
  [convs EXCEPT ![c] =
     IF Stored(c)
       THEN [title |-> convs[c].title, messages |-> convs[c].messages \o batch]
       ELSE [title |-> DeriveTitle(batch), messages |-> batch]]

\* Append commits, or fails and is only logged: the database, or the context
\* of a client that is gone.
AppendToLedger(c, batch) ==
  \/ /\ convs' = Appended(c, batch)
     /\ UNCHANGED lost
  \/ /\ lost' = lost \cup ToSet(batch)
     /\ UNCHANGED convs

Rename(c) ==
  /\ Stored(c)
  /\ convs' = [convs EXCEPT ![c].title = "given"]
  /\ UNCHANGED <<sends, drawn, pageVars, navVars, calls, lost, hurry>>

-----------------------------------------------------------------------------
(* Sending *)

Init ==
  /\ convs = [c \in ConvId |-> NotStored]
  /\ sends = 0
  /\ drawn = {}
  /\ active = [t \in Tab |-> NoConv]
  /\ history = [t \in Tab |-> <<>>]
  /\ busy = [t \in Tab |-> FALSE]
  /\ current = [t \in Tab |-> NoCall]
  /\ retryable = [t \in Tab |-> FALSE]
  /\ opening = [t \in Tab |-> NoFetch]
  /\ deleting = [t \in Tab |-> NoFetch]
  /\ calls = [k \in Call |-> NoCall]
  /\ lost = {}
  /\ hurried = {}
  /\ doubtful = {}

\* The fetch of sendMessage, with history h of conversation c.
StartFetch(t, k, retry, c, h) ==
  /\ sends < MaxSends
  /\ sends' = sends + 1
  /\ calls[k] = NoCall
  /\ calls' = [calls EXCEPT ![k] =
       [tab |-> t, retry |-> retry, conv |-> c, messages |-> h,
        server |-> "prepare", waiting |-> TRUE, reply |-> "none"]]
  /\ busy' = [busy EXCEPT ![t] = TRUE]
  /\ current' = [current EXCEPT ![t] = k]

\* A tab without a conversation draws an id when it sends.
Addressed(t) == IF active[t] = NoConv THEN ConvId \ drawn ELSE {active[t]}

\* sendMessage(false)
Send(t, k) ==
  /\ ~busy[t]
  /\ \E c \in Addressed(t) :
       LET msg == [role |-> "user", turn |-> sends + 1, conv |-> c]
       IN  /\ drawn' = drawn \cup {c}
           /\ active' = [active EXCEPT ![t] = c]
           /\ history' = [history EXCEPT ![t] = Append(@, msg)]
           /\ StartFetch(t, k, FALSE, c, Append(history[t], msg))
  /\ doubtful' = doubtful \cup (IF t \in hurried THEN {sends + 1} ELSE {})
  /\ UNCHANGED <<convs, retryable, navVars, lost, hurried>>

\* The turns of the user messages of a history.
Turns(m) == {m[i].turn : i \in {j \in DOMAIN m : m[j].role = "user"}}

\* sendMessage(true): the button asks neither for busy nor for a text.
Retry(t, k) ==
  /\ retryable[t]
  /\ \E c \in Addressed(t) :
       /\ drawn' = drawn \cup {c}
       /\ active' = [active EXCEPT ![t] = c]
       /\ StartFetch(t, k, TRUE, c, history[t])
  /\ hurried' = hurried \cup (IF busy[t] THEN {t} ELSE {})
  /\ doubtful' = doubtful \cup (IF busy[t] THEN Turns(history[t]) ELSE {})
  /\ UNCHANGED <<convs, history, retryable, navVars, lost>>

-----------------------------------------------------------------------------
(* The handler *)

At(k, stage) == calls[k] # NoCall /\ calls[k].server = stage

\* A call is over when neither side has anything left to do.
Settled(r) == IF r.server = "done" /\ ~r.waiting THEN NoCall ELSE r

HandlerEnds(k, reply) ==
  calls' = [calls EXCEPT ![k] = Settled([@ EXCEPT !.server = "done", !.reply = reply])]

\* No messages, or Prepare failed: an error before anything was recorded.
PrepareFails(k) ==
  /\ At(k, "prepare")
  /\ HandlerEnds(k, "refused")
  /\ UNCHANGED <<convs, sends, drawn, pageVars, navVars, lost, hurry>>

RecordUserTurn(k) ==
  /\ At(k, "prepare")
  /\ calls[k].messages # <<>>
  /\ LET batch == TrailingUserMessages(calls[k].messages)
     IN  IF batch = <<>>
           THEN UNCHANGED <<convs, lost>>
           ELSE AppendToLedger(calls[k].conv, batch)
  /\ calls' = [calls EXCEPT ![k].server = "run"]
  /\ UNCHANGED <<sends, drawn, pageVars, navVars, hurry>>

\* The run ended with content: the answer is recorded, then the stream ends.
RecordAssistantTurn(k) ==
  /\ At(k, "run")
  /\ AppendToLedger(calls[k].conv,
             <<[role |-> "answer", turn |-> LastTurn(calls[k].messages),
                conv |-> calls[k].conv]>>)
  /\ HandlerEnds(k, "answer")
  /\ UNCHANGED <<sends, drawn, pageVars, navVars, hurry>>

\* The run paused, or failed, or ended with nothing to say.
RunEndsUnrecorded(k) ==
  /\ At(k, "run")
  /\ HandlerEnds(k, "error") \/ HandlerEnds(k, "empty")
  /\ UNCHANGED <<convs, sends, drawn, pageVars, navVars, lost, hurry>>

\* The process dies: the connection breaks without an answer.
HandlerDies(k) ==
  /\ At(k, "prepare") \/ At(k, "run")
  /\ HandlerEnds(k, "none")
  /\ UNCHANGED <<convs, sends, drawn, pageVars, navVars, lost, hurry>>

-----------------------------------------------------------------------------
(* The client side of a call *)

Waiting(k) == calls[k] # NoCall /\ calls[k].waiting

\* The controller outlives its call.
MUTClientEnds_KeepsController(k, h) ==
  LET t == calls[k].tab
  IN  /\ history' = [history EXCEPT ![t] = @ \o h]
      /\ busy' = [busy EXCEPT ![t] = FALSE]
      /\ calls' = [calls EXCEPT ![k] = Settled([@ EXCEPT !.waiting = FALSE])]
      /\ UNCHANGED current

\* finally: setBusyUI(false), with h added to the history.
ClientEnds(k, h) ==
  LET t == calls[k].tab
  IN  /\ history' = [history EXCEPT ![t] = @ \o h]
      /\ busy' = [busy EXCEPT ![t] = FALSE]
      /\ current' = [current EXCEPT ![t] = NoCall]
      /\ calls' = [calls EXCEPT ![k] = Settled([@ EXCEPT !.waiting = FALSE])]

\* The stream ended: its text, an error's text included, joins the history.
Receive(k) ==
  /\ Waiting(k)
  /\ LET r == calls[k]
         msg == [role |-> r.reply, turn |-> LastTurn(r.messages), conv |-> r.conv]
     IN  \/ /\ r.reply \in {"answer", "error"}
            /\ ClientEnds(k, <<msg>>)
         \/ /\ r.reply = "empty"
            /\ ClientEnds(k, <<>>)
  /\ UNCHANGED <<convs, sends, drawn, active, retryable, navVars, lost, hurry>>

\* An HTTP error, or a connection that broke at any time.
FetchFails(k) ==
  /\ Waiting(k)
  /\ ClientEnds(k, <<>>)
  /\ retryable' = [retryable EXCEPT ![calls[k].tab] = @ \/ ~calls[k].retry]
  /\ UNCHANGED <<convs, sends, drawn, active, navVars, lost, hurry>>

\* The send button aborts the call of currentController.
Abort(t) ==
  /\ busy[t]
  /\ current[t] # NoCall
  /\ ClientEnds(current[t], <<>>)
  /\ UNCHANGED <<convs, sends, drawn, active, retryable, navVars, lost, hurry>>

-----------------------------------------------------------------------------
(* Navigation *)

\* The page shows another conversation, c, with the messages h.
Show(t, c, h) ==
  /\ active' = [active EXCEPT ![t] = c]
  /\ history' = [history EXCEPT ![t] = h]
  /\ retryable' = [retryable EXCEPT ![t] = FALSE]

\* The id changes and the history does not.
MUTNewChat_KeepsHistory(t) ==
  /\ ~busy[t]
  /\ \E c \in ConvId \ drawn :
       /\ drawn' = drawn \cup {c}
       /\ Show(t, c, history[t])
  /\ UNCHANGED <<convs, sends, busy, current, navVars, calls, lost, hurry>>

NewChat(t) ==
  /\ ~busy[t]
  /\ \E c \in ConvId \ drawn :
       /\ drawn' = drawn \cup {c}
       /\ Show(t, c, <<>>)
  /\ UNCHANGED <<convs, sends, busy, current, navVars, calls, lost, hurry>>

\* Bound: a tab has one GET or DELETE in flight.
Still(t) == opening[t] = NoFetch /\ deleting[t] = NoFetch

\* selectConversation up to its await.
Select(t, c) ==
  /\ ~busy[t]
  /\ c # active[t]
  /\ Stored(c)
  /\ Still(t)
  /\ opening' = [opening EXCEPT ![t] = [conv |-> c, stage |-> "row", messages |-> <<>>]]
  /\ UNCHANGED <<convs, sends, drawn, pageVars, deleting, calls, lost, hurry>>

Opening(t, stage) == opening[t] # NoFetch /\ opening[t].stage = stage

\* Get's first query: no row, no answer worth showing.
GetConversationRow(t) ==
  /\ Opening(t, "row")
  /\ opening' = [opening EXCEPT ![t] =
                   IF Stored(@.conv) THEN [@ EXCEPT !.stage = "messages"] ELSE NoFetch]
  /\ UNCHANGED <<convs, sends, drawn, pageVars, deleting, calls, lost, hurry>>

\* Get's second query: a conversation deleted since has no messages.
LoadMessages(t) ==
  /\ Opening(t, "messages")
  /\ LET c == opening[t].conv
     IN  opening' = [opening EXCEPT ![t] =
           [@ EXCEPT !.stage = "arrived",
                     !.messages = IF Stored(c) THEN convs[c].messages ELSE <<>>]]
  /\ UNCHANGED <<convs, sends, drawn, pageVars, deleting, calls, lost, hurry>>

\* selectConversation after its await, which does not look at busy again.
ShowSelected(t) ==
  /\ Opening(t, "arrived")
  /\ Show(t, opening[t].conv, opening[t].messages)
  /\ opening' = [opening EXCEPT ![t] = NoFetch]
  /\ UNCHANGED <<convs, sends, drawn, busy, current, deleting, calls, lost, hurry>>

\* deleteConversation up to its request, with the user's consent.
AskDelete(t, c) ==
  /\ ~(busy[t] /\ c = active[t])
  /\ Stored(c)
  /\ Still(t)
  /\ deleting' = [deleting EXCEPT ![t] = [conv |-> c, answered |-> FALSE]]
  /\ UNCHANGED <<convs, sends, drawn, pageVars, opening, calls, lost, hurry>>

\* The row goes and, by ON DELETE CASCADE, its messages; or it is gone already.
Delete(t) ==
  /\ deleting[t] # NoFetch
  /\ ~deleting[t].answered
  /\ LET c == deleting[t].conv
     IN  /\ lost' = lost \cup IF Stored(c) THEN ToSet(convs[c].messages) ELSE {}
         /\ convs' = [convs EXCEPT ![c] = NotStored]
  /\ deleting' = [deleting EXCEPT ![t].answered = TRUE]
  /\ UNCHANGED <<sends, drawn, pageVars, opening, calls, hurry>>

\* The answer arrives, whatever its status, and the page forgets the chat.
ForgetDeleted(t) ==
  /\ deleting[t] # NoFetch
  /\ deleting[t].answered
  /\ IF deleting[t].conv = active[t]
       THEN Show(t, NoConv, <<>>)
       ELSE UNCHANGED <<active, history, retryable>>
  /\ deleting' = [deleting EXCEPT ![t] = NoFetch]
  /\ UNCHANGED <<convs, sends, drawn, busy, current, opening, calls, lost, hurry>>

\* The connection breaks: the page goes on as if nothing had been asked.
DeleteFails(t) ==
  /\ deleting[t] # NoFetch
  /\ deleting' = [deleting EXCEPT ![t] = NoFetch]
  /\ UNCHANGED <<convs, sends, drawn, pageVars, opening, calls, lost, hurry>>

-----------------------------------------------------------------------------
Page(t) ==
  \/ \E k \in Call : Send(t, k) \/ Retry(t, k)
  \/ \E c \in ConvId : Select(t, c) \/ AskDelete(t, c)
  \/ Abort(t) \/ NewChat(t) \/ ShowSelected(t) \/ ForgetDeleted(t)
  \/ DeleteFails(t)

Server(k) ==
  \/ PrepareFails(k) \/ RecordUserTurn(k) \/ RecordAssistantTurn(k)
  \/ RunEndsUnrecorded(k) \/ HandlerDies(k)

Next ==
  \/ \E k \in Call : Server(k) \/ Receive(k) \/ FetchFails(k)
  \/ \E t \in Tab : GetConversationRow(t) \/ LoadMessages(t) \/ Delete(t) \/ Page(t)
  \/ \E c \in ConvId : Rename(c)

Spec == Init /\ [][Next]_vars
=============================================================================
