------------------------------- MODULE Startup -------------------------------
(***************************************************************************)
(* Opening the database (internal/adapters/dbstore: Open, migrate,         *)
(* importLegacy) over the life of an installation: each start applies the  *)
(* migrations that are missing and imports what the former adapters left   *)
(* in .sessions/ and conversations/ into tables that are empty; then the   *)
(* server saves sessions and its users keep and delete conversations.  A   *)
(* process may die at any time, and any statement may fail.                *)
(*                                                                         *)
(* A row is its id.  The ids of legacy files are rows of both sorts, those *)
(* of the program's own rows are others.                                   *)
(***************************************************************************)
EXTENDS Naturals, FiniteSets

CONSTANTS
  Versions,     \* number of embedded migrations
  Notes,        \* readable session notes in .sessions/
  Ledgers,      \* readable ledgers in conversations/
  OwnSessions,  \* session ids the server draws
  OwnConvs,     \* conversation ids the Web UI draws
  MaxSessions,  \* max_sessions
  MaxStarts     \* bound: starts of the process

ASSUME ConstantsAssumption ==
  /\ Versions \in Nat
  /\ IsFiniteSet(Notes) /\ IsFiniteSet(OwnSessions)
  /\ Notes \cap (OwnSessions \cup Ledgers) = {}
  /\ Ledgers \cap OwnConvs = {}
  /\ MaxSessions \in Nat \ {0}
  /\ MaxStarts \in Nat

VARIABLES
  pc,        \* how far Open is, or "down", or "up"
  version,   \* the migration whose turn it is
  todo,      \* the files the import in progress has not visited
  applied,   \* schema_migrations
  sessions,  \* rows of table sessions
  convs,     \* rows of table conversations
  starts,    \* starts so far
  ran,       \* history variable: how often each script was committed
  imports    \* history variable: how often each file was imported

tables == <<applied, sessions, convs>>
vars == <<pc, version, todo, tables, starts, ran, imports>>

Legacy == Notes \cup Ledgers

Init ==
  /\ pc = "down"
  /\ version = 1
  /\ todo = {}
  /\ applied = {}
  /\ sessions = {}
  /\ convs = {}
  /\ starts = 0
  /\ ran = [v \in 1..Versions |-> 0]
  /\ imports = [f \in Legacy |-> 0]

Open ==
  /\ pc = "down"
  /\ starts < MaxStarts
  /\ starts' = starts + 1
  /\ pc' = "migrate"
  /\ version' = 1
  /\ UNCHANGED <<todo, tables, ran, imports>>

\* The script and its row in schema_migrations are two transactions.
MUTMigrate_RecordsLater ==
  /\ pc = "migrate"
  /\ version <= Versions
  /\ \/ applied' = applied \cup {version}
     \/ UNCHANGED applied
  /\ ran' = [ran EXCEPT ![version] = IF version \in applied THEN @ ELSE @ + 1]
  /\ version' = version + 1
  /\ UNCHANGED <<pc, todo, sessions, convs, starts, imports>>

\* One migration, in a transaction of its own; one that is applied is skipped.
Migrate ==
  /\ pc = "migrate"
  /\ version <= Versions
  /\ applied' = applied \cup {version}
  /\ ran' = [ran EXCEPT ![version] = IF version \in applied THEN @ ELSE @ + 1]
  /\ version' = version + 1
  /\ UNCHANGED <<pc, todo, sessions, convs, starts, imports>>

\* The directory is imported whatever the table holds.
MUTStartSessions_Always ==
  /\ pc = "migrate"
  /\ version > Versions
  /\ todo' = Notes
  /\ pc' = "sessions"
  /\ UNCHANGED <<version, tables, starts, ran, imports>>

\* tableEmpty("sessions")
StartSessions ==
  /\ pc = "migrate"
  /\ version > Versions
  /\ todo' = IF sessions = {} THEN Notes ELSE {}
  /\ pc' = "sessions"
  /\ UNCHANGED <<version, tables, starts, ran, imports>>

\* What saveAndEvict leaves when it saves s: the rows that expired are gone,
\* and the oldest as long as there are too many.  The row with the latest
\* last_used_at always stays.
MUTAfterSave_ExpiresAll(s) ==
  {T \in SUBSET (sessions \cup {s}) : Cardinality(T) <= MaxSessions}

AfterSave(s) ==
  {T \in SUBSET (sessions \cup {s}) : T # {} /\ Cardinality(T) <= MaxSessions}

\* insertState: one transaction per note.
ImportSession(f) ==
  /\ pc = "sessions"
  /\ f \in todo
  /\ sessions' \in AfterSave(f)
  /\ imports' = [imports EXCEPT ![f] = @ + 1]
  /\ todo' = todo \ {f}
  /\ UNCHANGED <<pc, version, applied, convs, starts, ran>>

\* The emptiness of one table is taken for that of the database.
MUTStartConversations_OneCheck ==
  /\ pc = "sessions"
  /\ todo = {}
  /\ todo' = IF sessions \subseteq Notes THEN Ledgers \ convs ELSE {}
  /\ pc' = "conversations"
  /\ UNCHANGED <<version, tables, starts, ran, imports>>

\* tableEmpty("conversations")
StartConversations ==
  /\ pc = "sessions"
  /\ todo = {}
  /\ todo' = IF convs = {} THEN Ledgers ELSE {}
  /\ pc' = "conversations"
  /\ UNCHANGED <<version, tables, starts, ran, imports>>

\* insertLegacyConversation: the row and its messages in one transaction.
ImportConversation(f) ==
  /\ pc = "conversations"
  /\ f \in todo
  /\ convs' = convs \cup {f}
  /\ imports' = [imports EXCEPT ![f] = @ + 1]
  /\ todo' = todo \ {f}
  /\ UNCHANGED <<pc, version, applied, sessions, starts, ran>>

Ready ==
  /\ pc = "conversations"
  /\ todo = {}
  /\ pc' = "up"
  /\ UNCHANGED <<version, todo, tables, starts, ran, imports>>

\* An error of Open, which ends the program; or the process dies or is stopped.
Down ==
  /\ pc # "down"
  /\ pc' = "down"
  /\ todo' = {}
  /\ UNCHANGED <<version, tables, starts, ran, imports>>

-----------------------------------------------------------------------------
(* The server at work *)

SaveSession ==
  /\ pc = "up"
  /\ \E s \in OwnSessions \cup sessions : sessions' \in AfterSave(s)
  /\ UNCHANGED <<pc, version, todo, applied, convs, starts, ran, imports>>

\* A page may also go on with an imported conversation that was deleted since.
KeepConversation ==
  /\ pc = "up"
  /\ \E c \in OwnConvs \cup {f \in Ledgers : imports[f] > 0} :
       convs' = convs \cup {c}
  /\ UNCHANGED <<pc, version, todo, applied, sessions, starts, ran, imports>>

DeleteConversation ==
  /\ pc = "up"
  /\ \E c \in convs : convs' = convs \ {c}
  /\ UNCHANGED <<pc, version, todo, applied, sessions, starts, ran, imports>>

Next ==
  \/ Open \/ Migrate \/ StartSessions \/ StartConversations \/ Ready \/ Down
  \/ \E f \in Notes : ImportSession(f)
  \/ \E f \in Ledgers : ImportConversation(f)
  \/ SaveSession \/ KeepConversation \/ DeleteConversation

Spec == Init /\ [][Next]_vars

-----------------------------------------------------------------------------
(* Properties *)

(* The shape of the tables and of the import in progress: what it still has
   to visit is of the kind it imports, and nothing is left of it when the
   server listens or before Open begins. *)
TypeOK ==
  /\ pc \in {"down", "migrate", "sessions", "conversations", "up"}
  /\ version \in 1..(Versions + 1)
  /\ applied \in SUBSET (1..Versions)
  /\ sessions \in SUBSET (Notes \cup OwnSessions)
  /\ Cardinality(sessions) <= MaxSessions
  /\ convs \in SUBSET (Ledgers \cup OwnConvs)
  /\ starts \in 0..MaxStarts
  /\ ran \in [1..Versions -> Nat]
  /\ imports \in [Legacy -> Nat]
  /\ todo \in SUBSET Legacy
  /\ pc = "sessions" => todo \subseteq Notes
  /\ pc = "conversations" => todo \subseteq Ledgers
  /\ pc \notin {"sessions", "conversations"} => todo = {}

(* migrate (db.go:104, migrate.go:31-83): however often the program was
   interrupted, every script is applied once and in order, and nothing is
   imported or served before all of them were. *)
MigratedOnce ==
  /\ \A v \in 1..Versions : ran[v] = IF v \in applied THEN 1 ELSE 0
  /\ \A v \in applied : 1..v \subseteq applied
  /\ pc \in {"sessions", "conversations", "up"} => applied = 1..Versions

(* migrate_test.go:100-139, for either table: a table that holds rows of the
   program's own receives nothing from the legacy directories. *)
OwnDataIsLeftAlone ==
  [][pc # "up" =>
       /\ sessions \cap OwnSessions # {} => sessions' \cap Notes \subseteq sessions
       /\ convs \cap OwnConvs # {} => convs' \cap Ledgers \subseteq convs]_vars

(* migrate.go:109-112 for the sessions: each note is imported "una unica vez"
   whatever is saved or evicted afterwards, because saving a session never
   leaves the table empty. *)
SessionsImportedOnce == \A f \in Notes : imports[f] <= 1

(* The inductive invariant behind the properties above: the migrations before
   the current one are applied, a table that an import still writes to holds
   none of the program's own rows, and an empty table sessions means that no
   note was ever imported. *)
StartupInv ==
  /\ TypeOK
  /\ MigratedOnce
  /\ pc = "migrate" => 1..(version - 1) \subseteq applied
  /\ pc = "sessions" /\ todo # {} => sessions \cap OwnSessions = {}
  /\ pc = "conversations" /\ todo # {} => convs \cap OwnConvs = {}
  /\ sessions = {} => \A f \in Notes : imports[f] = 0
  /\ \A f \in Notes \cap todo : imports[f] = 0
  /\ SessionsImportedOnce
=============================================================================
