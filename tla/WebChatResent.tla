---------------------------- MODULE WebChatResent ----------------------------
(***************************************************************************)
(* Module WebChat with a history variable for the turns that a user had    *)
(* sent again with a Reintentar button: every other turn was sent once.    *)
(***************************************************************************)
EXTENDS WebChatProps

VARIABLE resent  \* turns in the histories that retries sent

resentVars == <<vars, resent>>

\* The requests that a step sends by a Reintentar button.
Retries == {k \in Call : calls[k] = NoCall /\ calls'[k] # NoCall /\ calls'[k].retry}

ResentInit == Init /\ resent = {}

ResentNext ==
  /\ Next
  /\ resent' = resent \cup UNION {Turns(calls'[k].messages) : k \in Retries}

ResentSpec == ResentInit /\ [][ResentNext]_resentVars

(* conversations.go:145-149: what is recorded at the beginning of a run "en el
   uso de la Web UI es exactamente el mensaje que el usuario acaba de enviar".
   So a message that the user sent once is recorded once. *)
RecordsOnlyWhatWasSent ==
  \A c \in ConvId :
    Stored(c) =>
      LET m == convs[c].messages
      IN  \A i, j \in DOMAIN m :
            i # j /\ m[i].role = "user" /\ m[i] = m[j] => m[i].turn \in resent
=============================================================================
