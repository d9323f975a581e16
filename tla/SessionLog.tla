----------------------------- MODULE SessionLog -----------------------------
(***************************************************************************)
(* What the session store of the proxy promises to its callers.            *)
(*                                                                         *)
(* A session is a log of checkpoints.  Each checkpoint says which message  *)
(* history the run had answered when it was saved, which tool calls it was *)
(* waiting for (none: the run was complete) and with which final content   *)
(* it was complete, if it had any.  A session is only ever                 *)
(* continued from its latest checkpoint, by a history that extends it and  *)
(* carries an output for every call it waits for; so no pause is answered  *)
(* twice and none is answered with somebody else's outputs.                *)
(***************************************************************************)
EXTENDS Naturals, Sequences, SequencesExt

CONSTANTS
  Sid,      \* session ids
  CallId,   \* ids of tool calls
  Answer,   \* final contents
  NoAnswer  \* no final content

VARIABLES
  log,      \* log[s]: the checkpoints ever saved for session s, oldest first
  live      \* the sessions that still have a row in the store

vars == <<log, live>>

\* The three kinds of message that matter: what the user says, what the
\* assistant answers (with or without tool calls), and the output of one call.
Message == [role : {"user", "assistant", "tool"}, calls : SUBSET CallId,
            text : Answer \cup {NoAnswer}]
History == Seq(Message)

\* A checkpoint: the history it answers, the calls left to the client and the
\* content it answered with.
Checkpoint == [ckpt : History, calls : SUBSET CallId,
               text : Answer \cup {NoAnswer}]

\* The calls that a history m answers after its first n messages.
Answered(m, n) ==
  UNION {m[i].calls : i \in {j \in (n + 1)..Len(m) : m[j].role = "tool"}}

\* History m answers the pause p: it extends it, with every output.
Answers(m, p) ==
  /\ p.calls # {}
  /\ IsStrictPrefix(p.ckpt, m)
  /\ p.calls \subseteq Answered(m, Len(p.ckpt))

Init ==
  /\ log = [s \in Sid |-> <<>>]
  /\ live = {}

\* Saving p may evict any sessions, the saved one included.
Commit(s, p) ==
  /\ log' = [log EXCEPT ![s] = Append(@, p)]
  /\ live' \in SUBSET (live \cup {s})

\* A run that started from nothing saves its first checkpoint.
Create(s, p) ==
  /\ log[s] = <<>>
  /\ Commit(s, p)

\* A resumed run saves the checkpoint that follows the pause it answered.
Advance(s, p) ==
  /\ log[s] # <<>>
  /\ Answers(p.ckpt, Last(log[s]))
  /\ Commit(s, p)

\* The checkpoint saved is the last of the new log (Checkpoint is infinite, so
\* it is named through log' instead of being quantified over).
Next ==
  \E s \in Sid :
    /\ log'[s] # <<>>
    /\ LET p == Last(log'[s])
       IN  /\ p \in Checkpoint
           /\ Create(s, p) \/ Advance(s, p)

Spec == Init /\ [][Next]_vars
=============================================================================
