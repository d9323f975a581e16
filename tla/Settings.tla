------------------------------ MODULE Settings ------------------------------
(***************************************************************************)
(* The configuration (internal/config, internal/adapters/httpapi/config.go *)
(* and the form of the web page): a process reads its environment and the  *)
(* file .env once, when it starts (Load); GET /api/config shows what it    *)
(* runs with (Values), and PUT /api/config validates a partial override    *)
(* against what it runs with (ValidateOverride) and writes it to the file  *)
(* (WriteEnvFile), where the next start finds it.                          *)
(*                                                                         *)
(* A setting is a pair: the slot of an upstream, 0 for the UPSTREAM_*      *)
(* variables without a number, and a field of it.  Rounds stands for the   *)
(* settings that have a default and a range (build and validate treat all  *)
(* of them as they treat DEBATE_ROUNDS), Other for the lines of the file   *)
(* that the program does not know.  A value is written as it is and read   *)
(* by godotenv, to which quotes, "$" and " #" mean something: ReadBack     *)
(* says what it makes of each value.                                       *)
(***************************************************************************)
EXTENDS Naturals, Sequences, FiniteSets, SequencesExt

CONSTANTS
  MaxUpstreams,   \* defaultMaxUpstreams
  Handler,        \* PUT requests in flight
  Page,           \* browser tabs that show the form
  Text,           \* nonempty values
  Malformed,      \* a value of Text that is no URL and no number
  Default,        \* the value of Text that build supplies for Rounds
  Absent,         \* the value of a setting that is not there
  ReadBack,       \* what godotenv reads where a value of Text was written ...
  Unreadable,     \* ... if it can: of an open quote it cannot
  Environments,   \* what the operating system may set
  InitialFiles,   \* what .env may hold before the first start
  ApiBodies,      \* what API clients may put
  Typed,          \* what users may type into each field of the form
  MaxEdits,       \* bound: fields edited in forms
  MaxSaves,       \* bound: overrides accepted
  MaxStarts       \* bound: starts of the process

Field == {"url", "models", "key"}
Rounds == <<MaxUpstreams + 1, "rounds">>
Other == <<0, "other">>
Key == ((0..MaxUpstreams) \X Field) \cup {Rounds, Other}
Value == Text \cup {""}
Map == [Key -> Value \cup {Absent}]

ASSUME SettingsAssumption ==
  /\ MaxUpstreams \in Nat \ {0}
  /\ Malformed \in Text
  /\ Default \in Text \ {Malformed}
  /\ "" \notin Text
  /\ Absent \notin Value
  /\ Unreadable \notin Value \cup {Absent}
  /\ ReadBack \in [Text -> Value \cup {Unreadable}]
  /\ Environments \subseteq Map
  /\ InitialFiles \subseteq Map
  /\ ApiBodies \subseteq Map
  /\ Typed \in [Key -> SUBSET Value]
  /\ MaxEdits \in Nat /\ MaxSaves \in Nat /\ MaxStarts \in Nat

VARIABLES
  osEnv,      \* the environment the process is started with
  file,       \* .env: its settings, and whether a line of it cannot be parsed
  up,         \* the proxy runs
  env,        \* os.LookupEnv of the running process, which cfg was built from
  form,       \* the fields of the form of a page
  pc,         \* where a PUT handler is
  body,       \* its override, without blank API keys
  lines,      \* the file as it read it
  edits, saves, starts,
  promised,   \* history: the file at the start and the saves since, in order
  disturbed,  \* history: since the start two saves overlapped, or one was cut
  altered     \* history: since the start a save has blanked a URL, models or
              \* Rounds, or written a value that is not read back as it is

handlers == <<pc, body, lines>>
history == <<promised, disturbed, altered>>
vars == <<osEnv, file, up, env, form, handlers, edits, saves, starts, history>>

-----------------------------------------------------------------------------
(* Resolving a configuration *)

Blank(v) == v \in {Absent, ""}
Nothing == [k \in Key |-> Absent]
Overlay(f, g) == [k \in Key |-> IF g[k] # Absent THEN g[k] ELSE f[k]]

HasUrl(f, n) == ~Blank(f[<<n, "url">>])

\* The slots that give an upstream: an indexed first one hides the legacy one.
Slots(f) ==
  {n \in 1..MaxUpstreams : HasUrl(f, n)}
    \cup {n \in {0} : HasUrl(f, 0) /\ ~HasUrl(f, 1)}

\* resolveUpstreams: the slot of each upstream, in order and without gaps.
Upstreams(f) ==
  [i \in 1..Cardinality(Slots(f)) |->
     CHOOSE n \in Slots(f) : Cardinality({m \in Slots(f) : m < n}) = i - 1]

\* validateUpstreams
ValidUpstream(f, n) ==
  /\ f[<<n, "url">>] # Malformed
  /\ ~Blank(f[<<n, "models">>])

\* validate: the settings with a range.
InRange(f) == f[Rounds] # Malformed

\* build and validate.
Builds(f) ==
  /\ Slots(f) # {}
  /\ \A n \in Slots(f) : ValidUpstream(f, n)
  /\ InRange(f)

\* Upstream i of the configuration appears as slot i, wherever it came from.
Values(f) ==
  [k \in Key |->
     IF k = Rounds THEN IF Blank(f[k]) THEN Default ELSE f[k]
     ELSE IF k[2] \notin {"url", "models"} THEN Absent
     ELSE IF k[1] = 0 THEN IF Blank(f[k]) THEN "" ELSE f[k]
     ELSE IF k[1] \in DOMAIN Upstreams(f) THEN f[<<Upstreams(f)[k[1]], k[2]>>]
     ELSE Absent]

\* ValidateOverride of the running configuration, ValidateValues.
ValidOverride(b) == Builds(Overlay(Overlay(env, Values(env)), b))

\* putConfig: a blank API key is not part of the override.
Kept(b) == [k \in Key |-> IF k[2] = "key" /\ b[k] = "" THEN Absent ELSE b[k]]

\* godotenv.Load: one value that it cannot read and it reads none of the file.
Readable(f) == \A k \in Key : f[k] \in Text => ReadBack[f[k]] # Unreadable
AsRead(f) == [k \in Key |-> IF f[k] \in Text THEN ReadBack[f[k]] ELSE f[k]]

\* What Load finds at the next start: .env does not override the environment.
Loaded == Overlay(AsRead(file.settings), osEnv)
Starts == ~file.garbled /\ Readable(file.settings) /\ Builds(Loaded)

-----------------------------------------------------------------------------
(* The process and its file *)

EmptyFile == [settings |-> Nothing, garbled |-> FALSE]

Init ==
  /\ osEnv \in Environments
  /\ file \in {[settings |-> f, garbled |-> FALSE] : f \in InitialFiles}
  /\ Starts
  /\ up = TRUE
  /\ env = Loaded
  /\ form = [p \in Page |-> Nothing]
  /\ pc = [h \in Handler |-> "idle"]
  /\ body = [h \in Handler |-> Nothing]
  /\ lines = [h \in Handler |-> EmptyFile]
  /\ edits = 0 /\ saves = 0 /\ starts = 1
  /\ promised = file.settings
  /\ disturbed = FALSE
  /\ altered = FALSE

Forget(h) ==
  /\ pc' = [pc EXCEPT ![h] = "idle"]
  /\ body' = [body EXCEPT ![h] = Nothing]
  /\ lines' = [lines EXCEPT ![h] = EmptyFile]

MUTStop_LeavesRequests ==
  /\ up
  /\ up' = FALSE
  /\ UNCHANGED <<osEnv, file, env, form, handlers, edits, saves, starts, history>>

\* A signal: Shutdown waits for the requests.
Stop ==
  /\ up
  /\ \A h \in Handler : pc[h] = "idle"
  /\ up' = FALSE
  /\ UNCHANGED <<osEnv, file, env, form, handlers, edits, saves, starts, history>>

\* The process is killed, whatever its requests were doing.
Crash ==
  /\ up
  /\ \E h \in Handler : pc[h] # "idle"
  /\ up' = FALSE
  /\ pc' = [h \in Handler |-> "idle"]
  /\ body' = [h \in Handler |-> Nothing]
  /\ lines' = [h \in Handler |-> EmptyFile]
  /\ disturbed' = (disturbed \/ \E h \in Handler : pc[h] = "truncated")
  /\ UNCHANGED <<osEnv, file, env, form, edits, saves, starts, promised, altered>>

\* Load.  A start that fails exits and leaves everything as it was.
Start ==
  /\ ~up
  /\ starts < MaxStarts
  /\ Starts
  /\ starts' = starts + 1
  /\ up' = TRUE
  /\ env' = Loaded
  /\ promised' = file.settings
  /\ disturbed' = FALSE
  /\ altered' = FALSE
  /\ UNCHANGED <<osEnv, file, form, handlers, edits, saves>>

\* Nobody but the user mends a file that the proxy does not start with.
Mend ==
  /\ ~up
  /\ starts < MaxStarts
  /\ ~Starts
  /\ file' \in {[settings |-> f, garbled |-> FALSE] : f \in InitialFiles}
  /\ promised' = file'.settings
  /\ disturbed' = FALSE
  /\ UNCHANGED <<osEnv, up, env, form, handlers, edits, saves, starts, altered>>

-----------------------------------------------------------------------------
(* The form *)

FormKey == ((1..MaxUpstreams) \X Field) \cup {Rounds}

\* loadConfig when the page is loaded: keys are not shown.
LoadForm(p) ==
  /\ up
  /\ form' = [form EXCEPT ![p] =
       [k \in Key |->
          IF k \notin FormKey THEN Absent
          ELSE IF Values(env)[k] = Absent THEN "" ELSE Values(env)[k]]]
  /\ UNCHANGED <<osEnv, file, up, env, handlers, edits, saves, starts, history>>

Edit(p) ==
  /\ form[p] # Nothing
  /\ edits < MaxEdits
  /\ edits' = edits + 1
  /\ \E k \in FormKey : \E v \in Typed[k] :
       /\ v # form[p][k]
       /\ form' = [form EXCEPT ![p][k] = v]
  /\ UNCHANGED <<osEnv, file, up, env, handlers, saves, starts, history>>

\* saveConfig: empty fields are not sent.
FormBody(p) == [k \in Key |-> IF form[p][k] = "" THEN Absent ELSE form[p][k]]

-----------------------------------------------------------------------------
(* PUT /api/config *)

MUTPut_Unvalidated(h, b) ==
  /\ up
  /\ pc[h] = "idle"
  /\ saves < MaxSaves
  /\ b # Nothing
  /\ saves' = saves + 1
  /\ pc' = [pc EXCEPT ![h] = "accepted"]
  /\ body' = [body EXCEPT ![h] = Kept(b)]
  /\ UNCHANGED <<osEnv, file, up, env, form, lines, edits, starts, history>>

MUTPut_KeepsBlankKeys(h, b) ==
  /\ up
  /\ pc[h] = "idle"
  /\ saves < MaxSaves
  /\ b # Nothing
  /\ ValidOverride(b)
  /\ saves' = saves + 1
  /\ pc' = [pc EXCEPT ![h] = "accepted"]
  /\ body' = [body EXCEPT ![h] = b]
  /\ UNCHANGED <<osEnv, file, up, env, form, lines, edits, starts, history>>

\* An override that is empty or not valid is answered with an error and
\* changes nothing.
Put(h, b) ==
  /\ up
  /\ pc[h] = "idle"
  /\ saves < MaxSaves
  /\ b # Nothing
  /\ ValidOverride(Kept(b))
  /\ saves' = saves + 1
  /\ pc' = [pc EXCEPT ![h] = "accepted"]
  /\ body' = [body EXCEPT ![h] = Kept(b)]
  /\ UNCHANGED <<osEnv, file, up, env, form, lines, edits, starts, history>>

\* WriteEnvFile, its three effects.  Nothing keeps two of them apart.
ReadLines(h) ==
  /\ pc[h] = "accepted"
  /\ pc' = [pc EXCEPT ![h] = "read"]
  /\ lines' = [lines EXCEPT ![h] = file]
  /\ disturbed' = (disturbed \/ \E g \in Handler : pc[g] \in {"read", "truncated"})
  /\ UNCHANGED <<osEnv, file, up, env, form, body, edits, saves, starts,
                 promised, altered>>

\* os.WriteFile opens the file with O_TRUNC ...
Truncate(h) ==
  /\ pc[h] = "read"
  /\ pc' = [pc EXCEPT ![h] = "truncated"]
  /\ file' = EmptyFile
  /\ UNCHANGED <<osEnv, up, env, form, body, lines, edits, saves, starts, history>>

MUTContent_BodyOnly(h) ==
  [settings |-> body[h], garbled |-> lines[h].garbled]

\* Lines that set a key of the override are replaced, the others stay, and
\* what is left of the override is appended.
Content(h) ==
  [settings |-> Overlay(lines[h].settings, body[h]),
   garbled |-> lines[h].garbled]

\* new, and what old holds from slot n on.
Spliced(new, old, n, g) ==
  [settings |-> Overlay(new.settings,
                        [k \in Key |-> IF k[1] >= n THEN old.settings[k] ELSE Absent]),
   garbled |-> g]

\* What a file holds after new was written over old from its first byte: the
\* last lines of a longer old one remain, and count, since the last setting of
\* a name does; the line where new ends may be one that cannot be parsed.
Overwritten(new, old) ==
  IF old = EmptyFile
    THEN {new}
    ELSE {new} \cup
         {Spliced(new, old, n, g) : n \in 1..(MaxUpstreams + 2), g \in BOOLEAN}

\* What is not a blank URL, models or Rounds and reads back as it was written.
Plain(b) ==
  \A k \in Key :
    /\ k[2] # "key" => b[k] # ""
    /\ b[k] \in Text => ReadBack[b[k]] = b[k]

\* ... and writes it from its first byte.
Write(h) ==
  /\ pc[h] = "truncated"
  /\ file' \in Overwritten(Content(h), file)
  /\ promised' = Overlay(promised, body[h])
  /\ altered' = (altered \/ ~Plain(body[h]))
  /\ Forget(h)
  /\ UNCHANGED <<osEnv, up, env, form, edits, saves, starts, disturbed>>

\* An error of the file system.
WriteFails(h) ==
  /\ pc[h] \in {"accepted", "read", "truncated"}
  /\ disturbed' = (disturbed \/ pc[h] = "truncated")
  /\ Forget(h)
  /\ UNCHANGED <<osEnv, file, up, env, form, edits, saves, starts, promised,
                 altered>>

-----------------------------------------------------------------------------

Next ==
  \/ Stop \/ Crash \/ Start \/ Mend
  \/ \E p \in Page : LoadForm(p) \/ Edit(p)
  \/ \E h \in Handler :
       \/ \E p \in Page : Put(h, FormBody(p))
       \/ \E b \in ApiBodies : Put(h, b)
       \/ ReadLines(h) \/ Truncate(h) \/ Write(h) \/ WriteFails(h)

Spec == Init /\ [][Next]_vars
=============================================================================
