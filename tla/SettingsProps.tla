--------------------------- MODULE SettingsProps ---------------------------
(***************************************************************************)
(* The properties of module Settings.                                      *)
(***************************************************************************)
EXTENDS Settings

File == [settings : Map, garbled : BOOLEAN]

(* The types of the configuration's state. *)
TypeOK ==
  /\ osEnv \in Environments
  /\ file \in File
  /\ up \in BOOLEAN
  /\ env \in Map
  /\ form \in [Page -> Map]
  /\ pc \in [Handler -> {"idle", "accepted", "read", "truncated"}]
  /\ body \in [Handler -> Map]
  /\ lines \in [Handler -> File]
  /\ edits \in Nat /\ saves \in Nat /\ starts \in Nat
  /\ promised \in Map
  /\ disturbed \in BOOLEAN
  /\ altered \in BOOLEAN

\* No save is between its truncation and its write.
Whole == \A h \in Handler : pc[h] # "truncated"

(* WriteEnvFile (config.go:561-604): as long as no two saves overlap and none
   is cut short, the file holds what it held when the process started, lines
   of others included, with every save since then applied in order. *)
LoneSavesCompose ==
  ~disturbed /\ Whole => file = [settings |-> promised, garbled |-> FALSE]

\* The running configuration is numbered the way GET /api/config shows it:
\* its first upstream is UPSTREAM_1, no slot between two is empty, and the
\* environment sets nothing of its own.
Explicit ==
  /\ osEnv = Nothing
  /\ Slots(env) = 1..Cardinality(Slots(env))

(* ValidateOverride (config.go:188-198) looks at what the process runs with,
   never at the file, so that of two saves neither is checked against the
   other, and at the values it was sent, not at what godotenv will read where
   they are written.  From an explicit configuration any number of saves
   leaves a file that the proxy starts with, if they blank nothing and every
   value they write reads back as it is.  (Without one of these conditions the
   promise of config.go:189-191, to validate the configuration that a restart
   will give, is not kept.) *)
SavesRestart ==
  Explicit /\ up /\ ~disturbed /\ ~altered /\ Whole => Starts

\* APIKeysSet: the badge of upstream i of configuration f.
KeySet(f, i) == ~Blank(f[<<Upstreams(f)[i], "key">>])

\* An upstream that has a key and stays where it is has one after a restart.
KeysStay ==
  \A i \in DOMAIN Upstreams(env) :
    /\ i \in DOMAIN Upstreams(Loaded)
    /\ env[<<Upstreams(env)[i], "url">>] = Loaded[<<Upstreams(Loaded)[i], "url">>]
    /\ KeySet(env, i)
    => KeySet(Loaded, i)

(* putConfig (httpapi/config.go:23-24) and the form (app.js:1000-1002): a blank
   API key keeps the current one, from an explicit configuration and under the
   same conditions. *)
KeysAreKept ==
  Explicit /\ up /\ ~disturbed /\ ~altered /\ Whole => KeysStay

-----------------------------------------------------------------------------
(* The inductive invariant *)

\* The saves between their reading and their writing.
Holding == {h \in Handler : pc[h] \in {"read", "truncated"}}

Promise == [settings |-> promised, garbled |-> FALSE]

\* The proxy runs with what builds, and only then has requests.
Running ==
  /\ up => Builds(env)
  /\ ~up => \A h \in Handler : pc[h] = "idle"

\* Undisturbed, a save has the file for itself and read all of it.
Alone ==
  ~disturbed =>
    /\ \A g, h \in Holding : g = h
    /\ \A h \in Holding : lines[h] = Promise /\ (pc[h] = "truncated" => file = EmptyFile)
    /\ Whole => file = Promise

\* What is written was validated, and blanks no API key.
Validated ==
  \A h \in Handler :
    /\ pc[h] # "idle" => ValidOverride(body[h])
    /\ \A k \in Key : k[2] = "key" => body[h][k] # ""

\* The saves together keep what the process runs with, and build.
Restartable ==
  Explicit /\ up /\ ~altered =>
    /\ Readable(promised)
    /\ Builds(AsRead(promised))
    /\ \A k \in Key : ~Blank(env[k]) => ~Blank(AsRead(promised)[k])

(* The inductive invariant behind the three properties above. *)
SettingsInv == TypeOK /\ Running /\ Alone /\ Validated /\ Restartable

-----------------------------------------------------------------------------
(* What the documents say and the code does not do. *)

(* httpapi/config.go:23-24: "Una API key vacia se interpreta como 'conservar
   la actual' (no se sobrescribe ni se blanquea)". *)
BlankKeyKeepsTheKey ==
  up /\ ~disturbed /\ ~altered /\ Whole => KeysStay
=============================================================================
