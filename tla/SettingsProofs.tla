--------------------------- MODULE SettingsProofs ---------------------------
(***************************************************************************)
(* Proofs about module Settings, for any number of upstreams, requests and *)
(* pages, any environment, files and overrides.                            *)
(***************************************************************************)
EXTENDS SettingsProps, DataFacts, FiniteSetTheorems, TLAPS

-----------------------------------------------------------------------------
(* Maps of settings *)

(* Overriding a map gives a map. *)
LEMMA OverlayType ==
  ASSUME NEW f \in Map, NEW g \in Map
  PROVE  /\ Overlay(f, g) \in Map
         /\ \A k \in Key : Overlay(f, g)[k] = IF g[k] # Absent THEN g[k] ELSE f[k]
BY DEF Overlay, Map

LEMMA NothingType ==
  /\ Nothing \in Map /\ EmptyFile \in File
  /\ \A k \in Key : Nothing[k] = Absent
  /\ \A f \in Map : Overlay(f, Nothing) = f
<1>1. Nothing \in Map /\ \A k \in Key : Nothing[k] = Absent
  BY DEF Nothing, Map
<1>2. EmptyFile \in File
  BY <1>1 DEF EmptyFile, File
<1>3. ASSUME NEW f \in Map PROVE Overlay(f, Nothing) = f
  BY <1>1 DEF Overlay, Map
<1>. QED  BY <1>1, <1>2, <1>3

(* The settings of a slot are keys; so is Rounds. *)
LEMMA KeysOf ==
  /\ \A n \in 0..MaxUpstreams, x \in Field : <<n, x>> \in Key
  /\ Rounds \in Key /\ Other \in Key
BY DEF Key

LEMMA MaxType == MaxUpstreams \in Nat /\ MaxUpstreams > 0
<1>1. MaxUpstreams \in Nat \ {0}
  BY Zenon, SettingsAssumption
<1>. QED  BY <1>1

(* The numbered slots. *)
LEMMA Numbered ==
  /\ 1 \in 1..MaxUpstreams
  /\ \A n \in 1..MaxUpstreams : n \in 0..MaxUpstreams /\ n # 0
  /\ \A n \in 0..MaxUpstreams : n # 0 => n \in 1..MaxUpstreams
  /\ \A c \in Nat : 1..c # {} => 1 \in 1..c
BY MaxType

(* At most MaxUpstreams + 1 slots give an upstream. *)
LEMMA SlotsType ==
  ASSUME NEW f
  PROVE  /\ Slots(f) \subseteq 0..MaxUpstreams
         /\ IsFiniteSet(Slots(f)) /\ Cardinality(Slots(f)) \in Nat
<1>1. Slots(f) \subseteq 0..MaxUpstreams /\ MaxUpstreams \in Nat
  BY MaxType DEF Slots
<1>2. IsFiniteSet(0..MaxUpstreams)
  BY <1>1, FS_Interval
<1>. QED  BY <1>1, <1>2, FS_Subset, FS_CardinalityType

(* The form's fields have values. *)
LEMMA ValuesOfText ==
  /\ "" \in Value /\ Default \in Value /\ Absent \notin Value /\ Absent # ""
BY SettingsAssumption DEF Value

(* Each upstream has a slot. *)
LEMMA UpstreamSlots ==
  ASSUME NEW f, NEW i \in DOMAIN Upstreams(f)
  PROVE  Upstreams(f)[i] \in Slots(f) /\ Upstreams(f)[i] \in 0..MaxUpstreams
<1> DEFINE S == Slots(f)
<1>1. S \in SUBSET Nat /\ (\A n \in S : n <= MaxUpstreams) /\ MaxUpstreams \in Nat
  BY SlotsType, MaxType
<1>2. i \in 1..Cardinality(S)
  BY DEF Upstreams
<1>3. Upstreams(f)[i] = CHOOSE n \in S : Cardinality({m \in S : m < n}) = i - 1
  BY <1>2 DEF Upstreams
<1> HIDE DEF S
<1>4. Upstreams(f)[i] \in S
  BY <1>1, <1>2, <1>3, RankExists
<1>. QED  BY <1>4, SlotsType DEF S

(* The slots 1..c come first, in order, whatever slots follow them. *)
LEMMA FirstSlots ==
  ASSUME NEW f, NEW c \in Nat, 1..c \subseteq Slots(f), 0 \notin Slots(f),
         NEW i \in 1..c
  PROVE  i \in DOMAIN Upstreams(f) /\ Upstreams(f)[i] = i
<1> DEFINE S == Slots(f)
           below(n) == {m \in S : m < n}
<1>1. /\ S \subseteq 1..MaxUpstreams /\ IsFiniteSet(S) /\ Cardinality(S) \in Nat
      /\ MaxUpstreams \in Nat
  <2>1. \A n \in S : n \in 0..MaxUpstreams /\ n # 0
    BY SlotsType
  <2> HIDE DEF S
  <2>2. S \subseteq 1..MaxUpstreams
    BY <2>1, MaxType
  <2>. QED  BY <2>2, SlotsType, MaxType DEF S
<1>2. \A n \in 1..c : Cardinality(1..n) = n /\ Cardinality(1..(n - 1)) = n - 1
  BY FS_Interval
<1>3. ASSUME NEW n \in 1..c PROVE Cardinality(below(n)) = n - 1
  <2>1. below(n) = 1..(n - 1)
    BY <1>1
  <2>. QED  BY <1>2, <2>1
<1>4. ASSUME NEW n \in S, n > i PROVE Cardinality(below(n)) # i - 1
  <2>1. 1..i \subseteq below(n)
    BY <1>1, <1>4
  <2>2. IsFiniteSet(below(n)) /\ Cardinality(below(n)) \in Nat
    BY <1>1, FS_Subset, FS_CardinalityType
  <2>3. Cardinality(1..i) <= Cardinality(below(n))
    <3> HIDE DEF below
    <3>. QED  BY <2>1, <2>2, FS_Subset
  <2>. QED  BY <1>2, <2>2, <2>3
<1>5. ASSUME NEW n \in S, Cardinality(below(n)) = i - 1 PROVE n = i
  <2>1. CASE n > i
    BY <1>4, <1>5, <2>1
  <2>2. CASE n < i
    <3>1. n \in 1..c
      BY <1>1, <2>2
    <3>. QED  BY <1>3, <1>5, <2>2, <3>1
  <2>. QED  BY <1>1, <2>1, <2>2
<1>6. i \in S /\ Cardinality(below(i)) = i - 1
  BY <1>3
<1>7. (CHOOSE n \in S : Cardinality(below(n)) = i - 1) = i
  <2> HIDE DEF S, below
  <2>. QED  BY <1>5, <1>6
<1>8. c <= Cardinality(S)
  <2>1. Cardinality(1..c) = c
    BY FS_Interval
  <2>2. 1..c \in SUBSET S
    OBVIOUS
  <2> HIDE DEF S
  <2>3. Cardinality(1..c) <= Cardinality(S)
    BY <1>1, <2>2, FS_Subset
  <2>. QED  BY <2>1, <2>3
<1>9. i \in 1..Cardinality(S)
  BY <1>1, <1>8
<1>. QED  BY <1>7, <1>9 DEF Upstreams

-----------------------------------------------------------------------------
(* Type correctness *)

(* What a running process shows of its configuration. *)
LEMMA ValuesType ==
  ASSUME NEW f \in Map
  PROVE  /\ Values(f) \in Map
         /\ Values(f)[Rounds] # Absent
<1>1. ASSUME NEW k \in Key PROVE Values(f)[k] \in Value \cup {Absent}
  <2>1. f[k] \in Value \cup {Absent}
    BY DEF Map
  <2>2. ASSUME k[2] \in {"url", "models"}, k[1] \in DOMAIN Upstreams(f)
        PROVE  f[<<Upstreams(f)[k[1]], k[2]>>] \in Value \cup {Absent}
    <3>1. <<Upstreams(f)[k[1]], k[2]>> \in Key
      BY <2>2, UpstreamSlots, KeysOf DEF Field
    <3>. QED  BY <3>1 DEF Map
  <2>. QED  BY <2>1, <2>2, ValuesOfText DEF Values
<1>2. Values(f) = [k \in Key |-> Values(f)[k]]
  BY DEF Values
<1>3. Values(f)[Rounds] # Absent
  <2>1. Values(f)[Rounds] = IF Blank(f[Rounds]) THEN Default ELSE f[Rounds]
    BY KeysOf DEF Values
  <2>. QED  BY <2>1, ValuesOfText DEF Blank
<1>. QED  BY <1>1, <1>2, <1>3 DEF Map

(* Without its blank keys an override is still one. *)
LEMMA KeptType ==
  ASSUME NEW b \in Map
  PROVE  Kept(b) \in Map /\ \A k \in Key : k[2] = "key" => Kept(b)[k] # ""
BY ValuesOfText DEF Kept, Map

(* What may be found in a file after a write is a file. *)
LEMMA OverwrittenType ==
  ASSUME NEW new \in File, NEW old \in File
  PROVE  Overwritten(new, old) \subseteq File
<1>1. new.settings \in Map /\ old.settings \in Map
  BY DEF File
<1>2. ASSUME NEW n \in 1..(MaxUpstreams + 2), NEW g \in BOOLEAN
      PROVE  Spliced(new, old, n, g) \in File
  <2> DEFINE rest == [k \in Key |-> IF k[1] >= n THEN old.settings[k] ELSE Absent]
  <2>1. rest \in Map
    BY <1>1 DEF Map
  <2>2. Overlay(new.settings, rest) \in Map
    <3> HIDE DEF rest
    <3>. QED  BY <1>1, <2>1, OverlayType
  <2>. QED  BY <2>2 DEF File, Spliced
<1>. QED  BY <1>2 DEF Overwritten

(* The assumptions about the sets of maps. *)
LEMMA MapsOf ==
  Environments \subseteq Map /\ InitialFiles \subseteq Map /\ ApiBodies \subseteq Map
BY Zenon, SettingsAssumption

LEMMA ReadBackType ==
  /\ \A v \in Text : ReadBack[v] \in Value \cup {Unreadable} /\ v \in Value
  /\ Unreadable \notin Value /\ Absent \notin Value
BY SettingsAssumption DEF Value

(* A file of which every value can be read gives a map. *)
LEMMA AsReadType ==
  ASSUME NEW f \in Map, Readable(f)
  PROVE  AsRead(f) \in Map
<1>1. ASSUME NEW k \in Key
      PROVE  (IF f[k] \in Text THEN ReadBack[f[k]] ELSE f[k]) \in Value \cup {Absent}
  BY ReadBackType DEF Map, Readable
<1>. QED  BY <1>1 DEF AsRead, Map

(* Values that read back as they are change a file as they change what is
   read of it. *)
LEMMA AsReadOverlay ==
  ASSUME NEW p \in Map, NEW b \in Map, Readable(p), Plain(b)
  PROVE  /\ Readable(Overlay(p, b))
         /\ AsRead(Overlay(p, b)) = Overlay(AsRead(p), b)
<1>1. \A k \in Key : b[k] \in Text => ReadBack[b[k]] = b[k]
  BY DEF Plain
<1>2. \A k \in Key : Overlay(p, b)[k] = IF b[k] # Absent THEN b[k] ELSE p[k]
  BY OverlayType
<1>3. ASSUME NEW k \in Key
      PROVE  (IF Overlay(p, b)[k] \in Text THEN ReadBack[Overlay(p, b)[k]]
                                           ELSE Overlay(p, b)[k])
              = IF b[k] # Absent THEN b[k] ELSE AsRead(p)[k]
  BY <1>1, <1>2 DEF AsRead
<1>4. AsRead(Overlay(p, b)) = Overlay(AsRead(p), b)
  BY <1>3 DEF AsRead, Overlay
<1>5. Readable(Overlay(p, b))
  BY <1>1, <1>2, ReadBackType DEF Readable
<1>. QED  BY <1>4, <1>5

LEMMA LoadedType == TypeOK /\ Readable(file.settings) => Loaded \in Map
<1> SUFFICES ASSUME TypeOK, Readable(file.settings) PROVE Loaded \in Map
  OBVIOUS
<1>1. file.settings \in Map /\ osEnv \in Map
  BY MapsOf DEF TypeOK, File
<1>2. AsRead(file.settings) \in Map
  BY <1>1, AsReadType
<1>. QED  BY <1>1, <1>2, OverlayType DEF Loaded

LEMMA FormBodyType ==
  ASSUME TypeOK, NEW p \in Page
  PROVE  FormBody(p) \in Map
BY DEF FormBody, TypeOK, Map

LEMMA InitType == Init => TypeOK
<1> SUFFICES ASSUME Init PROVE TypeOK
  OBVIOUS
<1>1. osEnv \in Map /\ file \in File /\ file.settings \in Map
  <2>1. PICK f \in InitialFiles : file = [settings |-> f, garbled |-> FALSE]
    BY DEF Init
  <2>2. osEnv \in Environments
    BY DEF Init
  <2>. QED  BY <2>1, <2>2, MapsOf DEF File
<1>2. Loaded \in Map
  <2>1. AsRead(file.settings) \in Map
    BY <1>1, AsReadType DEF Init, Starts
  <2>. QED  BY <1>1, <2>1, OverlayType DEF Loaded
<1>. QED  BY <1>1, <1>2, NothingType DEF Init, TypeOK

LEMMA ForgetType ==
  ASSUME TypeOK, NEW h \in Handler, Forget(h)
  PROVE  /\ pc' \in [Handler -> {"idle", "accepted", "read", "truncated"}]
         /\ body' \in [Handler -> Map]
         /\ lines' \in [Handler -> File]
BY NothingType DEF TypeOK, Forget

LEMMA NextType == TypeOK /\ [Next]_vars => TypeOK'
<1> SUFFICES ASSUME TypeOK, [Next]_vars PROVE TypeOK'
  OBVIOUS
<1> USE DEF handlers, history
<1>1. CASE Stop
  BY <1>1 DEF Stop, TypeOK
<1>2. CASE Crash
  BY <1>2, NothingType DEF Crash, TypeOK
<1>3. CASE Start
  <2>1. file.settings \in Map
    BY DEF TypeOK, File
  <2>2. starts + 1 \in Nat /\ Loaded \in Map
    BY <1>3, LoadedType DEF TypeOK, Start, Starts
  <2>3. starts' \in Nat /\ env' \in Map /\ promised' \in Map
    BY <1>3, <2>1, <2>2 DEF Start
  <2>. QED  BY <1>3, <2>3 DEF Start, TypeOK
<1>4. CASE Mend
  <2>1. file' \in File /\ file'.settings \in Map
    <3>1. PICK f \in InitialFiles : file' = [settings |-> f, garbled |-> FALSE]
      BY <1>4 DEF Mend
    <3>. QED  BY <3>1, MapsOf DEF File
  <2>. QED  BY <1>4, <2>1 DEF Mend, TypeOK
<1>5. ASSUME NEW p \in Page, LoadForm(p) PROVE TypeOK'
  <2> DEFINE shown == [k \in Key |->
                         IF k \notin FormKey THEN Absent
                         ELSE IF Values(env)[k] = Absent THEN "" ELSE Values(env)[k]]
  <2>1. Values(env) \in Map
    BY ValuesType DEF TypeOK
  <2>2. shown \in Map
    BY <2>1, ValuesOfText DEF Map
  <2>3. form' = [form EXCEPT ![p] = shown]
    BY <1>5 DEF LoadForm
  <2> HIDE DEF shown
  <2>4. form' \in [Page -> Map]
    BY <2>2, <2>3 DEF TypeOK
  <2>. QED  BY <1>5, <2>4 DEF LoadForm, TypeOK
<1>6. ASSUME NEW p \in Page, Edit(p) PROVE TypeOK'
  <2>1. PICK k \in FormKey, v \in Value : form' = [form EXCEPT ![p][k] = v]
    <3>1. PICK k \in FormKey : \E v \in Typed[k] : form' = [form EXCEPT ![p][k] = v]
      BY <1>6 DEF Edit
    <3>2. k \in Key
      BY <3>1, KeysOf DEF FormKey, Key
    <3>3. Typed[k] \subseteq Value
      BY <3>2, SettingsAssumption
    <3>. QED  BY <3>1, <3>3
  <2>2. form[p] \in Map
    BY DEF TypeOK
  <2>3. [form[p] EXCEPT ![k] = v] \in Map
    BY <2>1, <2>2 DEF Map
  <2>4. form' \in [Page -> Map]
    BY <2>1, <2>3 DEF TypeOK
  <2>. QED  BY <1>6, <2>4 DEF Edit, TypeOK
<1>7. ASSUME NEW h \in Handler, NEW b \in Map, Put(h, b) PROVE TypeOK'
  <2>1. Kept(b) \in Map
    BY KeptType
  <2>. QED  BY <1>7, <2>1 DEF Put, TypeOK
<1>8. ASSUME NEW h \in Handler, ReadLines(h) PROVE TypeOK'
  BY <1>8 DEF ReadLines, TypeOK
<1>9. ASSUME NEW h \in Handler, Truncate(h) PROVE TypeOK'
  BY <1>9, NothingType DEF Truncate, TypeOK
<1>10. ASSUME NEW h \in Handler, Write(h) PROVE TypeOK'
  <2>1. lines[h].settings \in Map /\ lines[h].garbled \in BOOLEAN /\ body[h] \in Map
    BY DEF TypeOK, File
  <2>2. Content(h) \in File
    BY <2>1, OverlayType DEF Content, File
  <2>3. file' \in File
    BY <1>10, <2>2, OverwrittenType DEF Write, TypeOK
  <2>4. promised' \in Map
    BY <1>10, <2>1, OverlayType DEF Write, TypeOK
  <2>5. altered' \in BOOLEAN
    BY <1>10 DEF Write, TypeOK
  <2>6. Forget(h) /\ UNCHANGED <<osEnv, up, env, form, edits, saves, starts, disturbed>>
    BY <1>10 DEF Write
  <2>. QED  BY <2>3, <2>4, <2>5, <2>6, ForgetType DEF TypeOK
<1>11. ASSUME NEW h \in Handler, WriteFails(h) PROVE TypeOK'
  <2>1. /\ Forget(h) /\ disturbed' \in BOOLEAN
        /\ UNCHANGED <<osEnv, file, up, env, form, edits, saves, starts, promised, altered>>
    BY <1>11 DEF WriteFails, TypeOK
  <2>. QED  BY <2>1, ForgetType DEF TypeOK
<1>12. CASE UNCHANGED vars
  BY <1>12 DEF vars, TypeOK
<1>. QED
  BY <1>1, <1>2, <1>3, <1>4, <1>5, <1>6, <1>7, <1>8, <1>9, <1>10, <1>11, <1>12,
     FormBodyType, MapsOf DEF Next

-----------------------------------------------------------------------------
(* A save keeps what the process runs with *)

(* p holds all that e sets, and b blanks nothing: if e with b is accepted,
   p with b builds, and holds all that e sets. *)
LEMMA SaveBuilds ==
  ASSUME NEW e \in Map, NEW p \in Map, NEW b \in Map,
         Slots(e) = 1..Cardinality(Slots(e)), Builds(e), Builds(p),
         \A k \in Key : ~Blank(e[k]) => ~Blank(p[k]),
         Builds(Overlay(Overlay(e, Values(e)), b)),
         \A k \in Key : b[k] # ""
  PROVE  /\ Builds(Overlay(p, b))
         /\ \A k \in Key : ~Blank(e[k]) => ~Blank(Overlay(p, b)[k])
<1> DEFINE q == Overlay(p, b)
           v == Overlay(Overlay(e, Values(e)), b)
           c == Cardinality(Slots(e))
<1>1. \A k \in Key : q[k] = IF b[k] # Absent THEN b[k] ELSE p[k]
  BY OverlayType
<1>2. \A k \in Key : v[k] = IF b[k] # Absent THEN b[k]
                            ELSE IF Values(e)[k] # Absent THEN Values(e)[k] ELSE e[k]
  <2>1. Values(e) \in Map
    BY ValuesType
  <2>2. /\ Overlay(e, Values(e)) \in Map
        /\ \A k \in Key : Overlay(e, Values(e))[k] =
             IF Values(e)[k] # Absent THEN Values(e)[k] ELSE e[k]
    BY <2>1, OverlayType
  <2> DEFINE o == Overlay(e, Values(e))
  <2>3. \A k \in Key : Overlay(o, b)[k] = IF b[k] # Absent THEN b[k] ELSE o[k]
    <3> HIDE DEF o
    <3>. QED  BY <2>2, OverlayType DEF o
  <2>. QED  BY <2>2, <2>3
<1>3. \A k \in Key : /\ ~Blank(e[k]) \/ ~Blank(p[k]) => ~Blank(q[k])
                     /\ b[k] # Absent => ~Blank(b[k])
  BY <1>1 DEF Blank
<1>4. \A f : \A n \in 1..MaxUpstreams : n \in Slots(f) <=> HasUrl(f, n)
  BY DEF Slots
<1>5. c \in Nat /\ 1 \in Slots(e)
  <2>1. c \in Nat
    BY SlotsType
  <2>2. Slots(e) = 1..c /\ Slots(e) # {}
    BY DEF Builds
  <2> HIDE DEF c
  <2>. QED  BY Zenon, <2>1, <2>2, Numbered
<1> HIDE DEF q, v
<1>6. HasUrl(e, 1) /\ HasUrl(q, 1)
  <2>1. HasUrl(e, 1)
    BY <1>4, <1>5, Numbered
  <2>2. <<1, "url">> \in Key
    BY KeysOf, Numbered DEF Field
  <2>. QED  BY <1>3, <2>1, <2>2 DEF HasUrl
<1>7. 1 \in Slots(q) /\ 0 \notin Slots(q)
  <2>1. 1 \in Slots(q)
    BY <1>4, <1>6, Numbered
  <2>2. 0 \notin Slots(q)
    BY Zenon, <1>6, Numbered DEF Slots
  <2>. QED  BY <2>1, <2>2
<1>8. ASSUME NEW n \in Slots(q) PROVE ValidUpstream(q, n)
  <2>1. n \in 1..MaxUpstreams /\ HasUrl(q, n)
    <3>1. n \in 0..MaxUpstreams /\ n # 0
      BY <1>7, SlotsType
    <3>2. n \in 1..MaxUpstreams
      BY <3>1, Numbered
    <3>. QED  BY <1>4, <3>2
  <2> DEFINE url == <<n, "url">>
             models == <<n, "models">>
  <2>2. url \in Key /\ models \in Key
    <3>1. n \in 0..MaxUpstreams /\ "url" \in Field /\ "models" \in Field
      BY <2>1, Numbered DEF Field
    <3>. QED  BY <3>1, KeysOf
  <2>3. ASSUME b[url] # Absent PROVE ValidUpstream(v, n) /\ v[url] = b[url]
    <3>1. v[url] = b[url] /\ ~Blank(b[url])
      BY <1>2, <1>3, <2>2, <2>3
    <3>2. n \in Slots(v)
      BY <1>4, <2>1, <3>1 DEF HasUrl
    <3>. QED  BY <3>1, <3>2 DEF Builds, v
  <2>4. ASSUME HasUrl(p, n) PROVE ValidUpstream(p, n)
    BY <1>4, <2>1, <2>4 DEF Builds
  <2>5. q[url] # Malformed
    <3>1. CASE b[url] # Absent
      BY <1>1, <2>2, <2>3, <3>1 DEF ValidUpstream
    <3>2. CASE b[url] = Absent
      BY <1>1, <2>1, <2>2, <2>4, <3>2 DEF HasUrl, ValidUpstream
    <3>. QED  BY <3>1, <3>2
  <2>6. ~Blank(q[models])
    <3>1. CASE b[models] # Absent
      BY <1>1, <1>3, <2>2, <3>1
    <3>2. CASE b[models] = Absent /\ HasUrl(p, n)
      BY <1>1, <2>2, <2>4, <3>2 DEF ValidUpstream
    <3>3. CASE b[models] = Absent /\ ~HasUrl(p, n)
      <4>1. b[url] # Absent
        BY <1>1, <2>1, <2>2, <3>3 DEF HasUrl
      <4>2. ~Blank(v[models])
        BY <2>3, <4>1 DEF ValidUpstream
      <4>3. n \notin 1..c
        <5>1. ~HasUrl(e, n)
          BY <2>2, <3>3 DEF HasUrl
        <5>. QED  BY <1>4, <2>1, <5>1
      <4>4. Values(e)[models] = Absent
        <5>1. DOMAIN Upstreams(e) = 1..c
          BY DEF Upstreams
        <5>2. models[1] = n /\ models[2] = "models" /\ models # Rounds /\ n # 0
          BY <2>1, Numbered DEF Rounds
        <5>. QED  BY <2>2, <4>3, <5>1, <5>2 DEF Values
      <4>5. v[models] = e[models]
        BY <1>2, <2>2, <3>3, <4>4
      <4>. QED  BY <1>3, <2>2, <4>2, <4>5
    <3>. QED  BY <3>1, <3>2, <3>3
  <2>. QED  BY <2>5, <2>6 DEF ValidUpstream
<1>9. InRange(q)
  <2>1. v[Rounds] # Malformed /\ p[Rounds] # Malformed
    BY DEF Builds, InRange, v
  <2>. QED  BY <1>1, <1>2, <2>1, KeysOf DEF InRange
<1>10. Builds(q)
  BY <1>7, <1>8, <1>9 DEF Builds
<1>. QED  BY <1>3, <1>10 DEF q

-----------------------------------------------------------------------------
(* The inductive invariant *)

\* What the parts of the invariant speak of.
LEMMA Steps ==
  ASSUME [Next]_vars
  PROVE  \/ Stop \/ Crash \/ Start \/ Mend
         \/ UNCHANGED <<osEnv, file, up, env, handlers, history>>
         \/ \E h \in Handler :
              \/ \E b \in {FormBody(p) : p \in Page} \cup ApiBodies : Put(h, b)
              \/ ReadLines(h) \/ Truncate(h) \/ Write(h) \/ WriteFails(h)
BY DEF Next, vars, handlers, history, LoadForm, Edit

(* A save that ends, however it ends. *)
LEMMA ForgetFacts ==
  ASSUME TypeOK, NEW h \in Handler, Forget(h)
  PROVE  /\ \A g \in Handler : pc'[g] = IF g = h THEN "idle" ELSE pc[g]
         /\ \A g \in Handler : body'[g] = IF g = h THEN Nothing ELSE body[g]
         /\ \A g \in Handler : lines'[g] = IF g = h THEN EmptyFile ELSE lines[g]
BY DEF TypeOK, Forget

LEMMA RunningStep == TypeOK /\ Running /\ [Next]_vars => Running'
<1> SUFFICES ASSUME TypeOK, Running, [Next]_vars PROVE Running'
  OBVIOUS
<1> USE DEF handlers, history
<1>1. CASE Stop
  BY <1>1 DEF Stop, Running
<1>2. CASE Crash
  BY <1>2 DEF Crash, Running
<1>3. CASE Start
  <2>1. up' = TRUE /\ env' = Loaded /\ Builds(Loaded)
    BY <1>3 DEF Start, Starts
  <2>2. Builds(env')
    BY <2>1
  <2>. QED  BY <2>1, <2>2 DEF Running
<1>4. CASE Mend
  BY <1>4 DEF Mend, Running
<1>5. CASE UNCHANGED <<osEnv, file, up, env, handlers, history>>
  BY <1>5 DEF Running
<1>6. ASSUME NEW h \in Handler, NEW b, Put(h, b) PROVE Running'
  BY <1>6 DEF Put, Running
<1>7. ASSUME NEW h \in Handler,
             ReadLines(h) \/ Truncate(h) \/ Write(h) \/ WriteFails(h)
      PROVE  Running'
  <2>1. pc[h] # "idle" /\ up' = up /\ env' = env
    BY <1>7 DEF ReadLines, Truncate, Write, WriteFails
  <2>. QED  BY <2>1 DEF Running
<1>. QED  BY <1>1, <1>2, <1>3, <1>4, <1>5, <1>6, <1>7, Steps

LEMMA AloneStep == TypeOK /\ Running /\ Alone /\ [Next]_vars => Alone'
<1> SUFFICES ASSUME TypeOK, Running, Alone, [Next]_vars, ~disturbed' PROVE Alone'
  BY DEF Alone
<1> USE DEF handlers, history
<1> DEFINE Held(s) == s \in {"read", "truncated"}
<1>a. \A h \in Handler : (h \in Holding <=> Held(pc[h])) /\ (h \in Holding' <=> Held(pc'[h]))
  BY DEF Holding
<1>b. Holding \subseteq Handler /\ Holding' \subseteq Handler
  BY DEF Holding
<1>c. ASSUME Holding' = {}, file' = Promise' PROVE Alone'
  BY <1>c DEF Alone
<1>d. ASSUME \A h \in Handler : pc[h] = "idle" PROVE Holding = {} /\ Whole
  BY <1>d DEF Holding, Whole
<1>1. CASE Stop
  BY <1>1 DEF Stop, Alone, Holding, Whole, Promise
<1>2. CASE Crash
  <2>1. \A h \in Handler : pc[h] # "truncated"
    BY <1>2 DEF Crash
  <2>2. ~disturbed /\ file' = file /\ promised' = promised
    BY <1>2 DEF Crash
  <2>3. file' = Promise'
    BY <2>1, <2>2 DEF Alone, Whole, Promise
  <2>4. \A h \in Handler : pc'[h] = "idle"
    BY <1>2 DEF Crash
  <2>. QED  BY <1>c, <2>3, <2>4 DEF Holding
<1>3. CASE Start
  <2>1. file.garbled = FALSE /\ file' = file /\ promised' = file.settings
    BY <1>3 DEF Start, Starts, TypeOK, File
  <2>2. file' = Promise'
    BY <2>1 DEF TypeOK, File, Promise
  <2>3. \A h \in Handler : pc'[h] = "idle"
    BY <1>3 DEF Start, Running
  <2>. QED  BY <1>c, <2>2, <2>3 DEF Holding
<1>4. CASE Mend
  <2>1. PICK f \in InitialFiles : file' = [settings |-> f, garbled |-> FALSE]
    BY <1>4 DEF Mend
  <2>2. promised' = f
    BY <1>4, <2>1 DEF Mend
  <2>3. file' = Promise'
    BY <2>1, <2>2 DEF Promise
  <2>4. \A h \in Handler : pc'[h] = "idle"
    BY <1>4 DEF Mend, Running
  <2>. QED  BY <1>c, <2>3, <2>4 DEF Holding
<1>5. CASE UNCHANGED <<osEnv, file, up, env, handlers, history>>
  BY <1>5 DEF Alone, Holding, Whole, Promise
<1>6. ASSUME NEW h \in Handler, NEW b, Put(h, b) PROVE Alone'
  <2>1. /\ \A g \in Handler : pc'[g] = IF g = h THEN "accepted" ELSE pc[g]
        /\ pc[h] = "idle"
        /\ lines' = lines /\ file' = file /\ promised' = promised /\ ~disturbed
    BY <1>6 DEF Put, TypeOK
  <2>2. Holding' = Holding
    BY <1>a, <1>b, <2>1
  <2>3. Whole' <=> Whole
    BY <2>1 DEF Whole
  <2>. QED  BY <1>b, <2>1, <2>2, <2>3 DEF Alone, Promise
<1>7. ASSUME NEW h \in Handler, ReadLines(h) PROVE Alone'
  <2>1. /\ \A g \in Handler : pc'[g] = IF g = h THEN "read" ELSE pc[g]
        /\ lines'[h] = file /\ file' = file /\ promised' = promised /\ ~disturbed
        /\ \A g \in Handler : ~Held(pc[g])
    BY <1>7 DEF ReadLines, TypeOK
  <2>2. \A g \in Holding' : g = h
    BY <1>a, <1>b, <2>1
  <2>3. Whole
    BY <2>1 DEF Whole
  <2>4. file = Promise /\ Promise' = Promise
    BY <2>1, <2>3 DEF Alone, Promise
  <2>. QED  BY <2>1, <2>2, <2>4 DEF Alone
<1>8. ASSUME NEW h \in Handler, Truncate(h) PROVE Alone'
  <2>1. /\ \A g \in Handler : pc'[g] = IF g = h THEN "truncated" ELSE pc[g]
        /\ pc[h] = "read" /\ file' = EmptyFile
        /\ lines' = lines /\ promised' = promised /\ ~disturbed
    BY <1>8 DEF Truncate, TypeOK
  <2>2. h \in Holding /\ Holding' = Holding
    BY <1>a, <1>b, <2>1
  <2>3. ~Whole'
    BY <2>1 DEF Whole
  <2>. QED  BY <2>1, <2>2, <2>3 DEF Alone, Promise
<1>9. ASSUME NEW h \in Handler, Write(h) PROVE Alone'
  <2>1. pc[h] = "truncated" /\ ~disturbed /\ Forget(h)
    BY <1>9 DEF Write
  <2>2. h \in Holding /\ file = EmptyFile /\ lines[h] = Promise
    BY <1>a, <2>1 DEF Alone
  <2>3. file' = Content(h) /\ promised' = Overlay(promised, body[h])
    <3>1. Overwritten(Content(h), file) = {Content(h)}
      <4>1. file = EmptyFile
        BY <2>2
      <4>. QED  BY <4>1 DEF Overwritten
    <3>. QED  BY <1>9, <3>1 DEF Write
  <2>4. file' = Promise'
    BY <2>2, <2>3 DEF Content, Promise
  <2>5. \A g \in Handler : g # h => ~Held(pc[g])
    BY <1>a, <2>1, <2>2 DEF Alone
  <2>6. Holding' = {}
    BY <1>a, <1>b, <2>1, <2>5, ForgetFacts
  <2>. QED  BY <1>c, <2>4, <2>6
<1>10. ASSUME NEW h \in Handler, WriteFails(h) PROVE Alone'
  <2>1. /\ pc[h] # "truncated" /\ ~disturbed /\ Forget(h)
        /\ file' = file /\ promised' = promised
    BY <1>10 DEF WriteFails
  <2>2. /\ Holding' \subseteq Holding
        /\ \A g \in Holding' : pc'[g] = pc[g] /\ lines'[g] = lines[g]
    BY <1>a, <1>b, <2>1, ForgetFacts
  <2>3. Whole' <=> Whole
    BY <2>1, ForgetFacts DEF Whole
  <2>. QED  BY <2>1, <2>2, <2>3 DEF Alone, Promise
<1>. QED  BY <1>1, <1>2, <1>3, <1>4, <1>5, <1>6, <1>7, <1>8, <1>9, <1>10, Steps

LEMMA ValidatedStep == TypeOK /\ Running /\ Validated /\ [Next]_vars => Validated'
<1> SUFFICES ASSUME TypeOK, Running, Validated, [Next]_vars PROVE Validated'
  OBVIOUS
<1> USE DEF handlers, history
<1> DEFINE Good(e, s, b) ==
             /\ s # "idle" => Builds(Overlay(Overlay(e, Values(e)), b))
             /\ \A k \in Key : k[2] = "key" => b[k] # ""
<1>a. \A h \in Handler : Good(env, pc[h], body[h])
  BY DEF Validated, ValidOverride
<1>b. SUFFICES \A h \in Handler : Good(env', pc'[h], body'[h])
  BY DEF Validated, ValidOverride
<1>c. \A e : Good(e, "idle", Nothing)
  BY NothingType, ValuesOfText
<1>1. CASE Stop
  BY <1>1, <1>a DEF Stop
<1>2. CASE Crash
  <2>1. \A h \in Handler : pc'[h] = "idle" /\ body'[h] = Nothing
    BY <1>2 DEF Crash
  <2> HIDE DEF Good
  <2>. QED  BY <1>c, <2>1
<1>3. CASE Start
  <2>1. \A h \in Handler : pc'[h] = "idle" /\ body'[h] = body[h]
    BY <1>3 DEF Start, Running
  <2>. QED  BY <1>a, <2>1
<1>4. CASE Mend
  <2>1. env' = env /\ pc' = pc /\ body' = body
    BY <1>4 DEF Mend
  <2>. QED  BY <1>a, <2>1
<1>5. CASE UNCHANGED <<osEnv, file, up, env, handlers, history>>
  BY <1>5, <1>a
<1>6. ASSUME NEW h \in Handler, NEW b \in Map, Put(h, b)
      PROVE  \A g \in Handler : Good(env', pc'[g], body'[g])
  <2>1. /\ env' = env
        /\ \A g \in Handler : pc'[g] = IF g = h THEN "accepted" ELSE pc[g]
        /\ \A g \in Handler : body'[g] = IF g = h THEN Kept(b) ELSE body[g]
    BY <1>6 DEF Put, TypeOK
  <2>2. Builds(Overlay(Overlay(env, Values(env)), Kept(b)))
    BY <1>6 DEF Put, ValidOverride
  <2>3. \A k \in Key : k[2] = "key" => Kept(b)[k] # ""
    BY KeptType
  <2>4. Good(env, "accepted", Kept(b))
    BY <2>2, <2>3
  <2> HIDE DEF Good
  <2>. QED  BY <1>a, <2>1, <2>4
<1>7. ASSUME NEW h \in Handler, ReadLines(h) \/ Truncate(h)
      PROVE  \A g \in Handler : Good(env', pc'[g], body'[g])
  <2>1. /\ env' = env /\ body' = body /\ pc[h] # "idle"
        /\ \A g \in Handler : g # h => pc'[g] = pc[g]
    BY <1>7 DEF ReadLines, Truncate, TypeOK
  <2>. QED  BY <1>a, <2>1
<1>8. ASSUME NEW h \in Handler, Write(h) \/ WriteFails(h)
      PROVE  \A g \in Handler : Good(env', pc'[g], body'[g])
  <2>1. env' = env /\ Forget(h)
    BY <1>8 DEF Write, WriteFails
  <2> HIDE DEF Good
  <2>. QED  BY <1>a, <1>c, <2>1, ForgetFacts
<1>9. ASSUME NEW b \in {FormBody(p) : p \in Page} \cup ApiBodies PROVE b \in Map
  BY FormBodyType, MapsOf
<1>. QED  BY <1>1, <1>2, <1>3, <1>4, <1>5, <1>6, <1>7, <1>8, <1>9, Steps

(* Restartable, of its variables. *)
LEMMA RestartableDef ==
  /\ Restartable <=>
       (osEnv = Nothing /\ Slots(env) = 1..Cardinality(Slots(env)) /\ up /\ ~altered =>
          /\ Readable(promised) /\ Builds(AsRead(promised))
          /\ \A k \in Key : ~Blank(env[k]) => ~Blank(AsRead(promised)[k]))
  /\ Restartable' <=>
       (osEnv' = Nothing /\ Slots(env') = 1..Cardinality(Slots(env')) /\ up' /\ ~altered' =>
          /\ Readable(promised') /\ Builds(AsRead(promised'))
          /\ \A k \in Key : ~Blank(env'[k]) => ~Blank(AsRead(promised')[k]))
BY DEF Restartable, Explicit

LEMMA RestartableStep ==
  TypeOK /\ Running /\ Validated /\ Restartable /\ [Next]_vars => Restartable'
<1> SUFFICES ASSUME TypeOK, Running, Validated, Restartable, [Next]_vars
             PROVE  Restartable'
  OBVIOUS
<1> USE DEF handlers, history
<1>a. ASSUME UNCHANGED <<osEnv, up, env, promised, altered>> PROVE Restartable'
  BY <1>a DEF Restartable, Explicit
<1>b. ASSUME ~up' PROVE Restartable'
  BY <1>b DEF Restartable
<1>1. CASE Stop
  BY <1>1, <1>b DEF Stop
<1>2. CASE Crash
  BY <1>2, <1>b DEF Crash
<1>3. CASE Start
  <2> SUFFICES ASSUME osEnv' = Nothing
               PROVE  /\ Readable(promised') /\ Builds(AsRead(promised'))
                      /\ \A k \in Key : ~Blank(env'[k]) => ~Blank(AsRead(promised')[k])
    BY RestartableDef
  <2>1. /\ osEnv = Nothing /\ env' = Loaded /\ promised' = file.settings
        /\ Readable(file.settings) /\ Builds(Loaded)
    BY <1>3 DEF Start, Starts
  <2>2. Loaded = AsRead(file.settings)
    <3>1. AsRead(file.settings) \in Map
      BY <2>1, AsReadType DEF TypeOK, File
    <3>. QED  BY <2>1, <3>1, NothingType DEF Loaded
  <2>3. Readable(promised') /\ AsRead(promised') = Loaded
    BY <2>1, <2>2
  <2>. QED  BY <2>1, <2>3
<1>4. CASE Mend
  BY <1>4, <1>b DEF Mend
<1>5. CASE UNCHANGED <<osEnv, file, up, env, handlers, history>>
  BY <1>5, <1>a
<1>6. ASSUME NEW h \in Handler, NEW b, Put(h, b) PROVE Restartable'
  BY <1>6, <1>a DEF Put
<1>7. ASSUME NEW h \in Handler, ReadLines(h) \/ Truncate(h) \/ WriteFails(h)
      PROVE  Restartable'
  BY <1>7, <1>a DEF ReadLines, Truncate, WriteFails
<1>8. ASSUME NEW h \in Handler, Write(h) PROVE Restartable'
  <2>1. /\ osEnv' = osEnv /\ up' = up /\ env' = env
        /\ promised' = Overlay(promised, body[h])
        /\ pc[h] = "truncated"
        /\ altered' = (altered \/ ~Plain(body[h]))
    BY <1>8 DEF Write
  <2> SUFFICES ASSUME osEnv = Nothing, Slots(env) = 1..Cardinality(Slots(env)),
                      up, ~altered'
               PROVE  /\ Readable(Overlay(promised, body[h]))
                      /\ Builds(AsRead(Overlay(promised, body[h])))
                      /\ \A k \in Key : ~Blank(env[k])
                           => ~Blank(AsRead(Overlay(promised, body[h]))[k])
    BY <2>1, RestartableDef
  <2>2. /\ Readable(promised) /\ Builds(AsRead(promised))
        /\ \A k \in Key : ~Blank(env[k]) => ~Blank(AsRead(promised)[k])
    BY <2>1, RestartableDef
  <2>3. Plain(body[h]) /\ \A k \in Key : body[h][k] # ""
    BY <2>1 DEF Validated, Plain
  <2>4. Builds(Overlay(Overlay(env, Values(env)), body[h]))
    BY <2>1 DEF Validated, ValidOverride
  <2>5. Builds(env) /\ env \in Map /\ promised \in Map /\ body[h] \in Map
    BY DEF Running, TypeOK
  <2>6. AsRead(promised) \in Map
    BY <2>2, <2>5, AsReadType
  <2>7. /\ Readable(Overlay(promised, body[h]))
        /\ AsRead(Overlay(promised, body[h])) = Overlay(AsRead(promised), body[h])
    BY <2>2, <2>3, <2>5, AsReadOverlay
  <2>8. /\ Builds(Overlay(AsRead(promised), body[h]))
        /\ \A k \in Key : ~Blank(env[k]) => ~Blank(Overlay(AsRead(promised), body[h])[k])
    BY <2>2, <2>3, <2>4, <2>5, <2>6, SaveBuilds
  <2>. QED  BY <2>7, <2>8
<1>. QED  BY <1>1, <1>2, <1>3, <1>4, <1>5, <1>6, <1>7, <1>8, Steps

LEMMA InitInv == Init => SettingsInv
<1> SUFFICES ASSUME Init PROVE SettingsInv
  OBVIOUS
<1>1. TypeOK
  BY InitType
<1>2. Running
  BY DEF Init, Running, Starts
<1>3. file = Promise /\ Loaded = env
  <2>1. file \in File /\ file.garbled = FALSE /\ promised = file.settings
    BY <1>1 DEF Init, TypeOK
  <2>. QED  BY <2>1 DEF Init, File, Promise
<1>4. Alone
  BY <1>3 DEF Init, Alone, Holding
<1>5. Validated
  BY NothingType, ValuesOfText DEF Init, Validated
<1>6. /\ Readable(promised)
      /\ osEnv = Nothing => Loaded = AsRead(promised)
  <2>1. Readable(promised) /\ promised \in Map /\ file.settings = promised
    BY <1>1, <1>3 DEF Init, Starts, Promise, TypeOK
  <2>2. AsRead(promised) \in Map
    BY <2>1, AsReadType
  <2>. QED  BY <2>1, <2>2, NothingType DEF Loaded
<1>7. Restartable
  <2>1. Builds(Loaded)
    BY DEF Init, Starts
  <2>. QED  BY <1>3, <1>6, <2>1, RestartableDef
<1>. QED  BY <1>1, <1>2, <1>4, <1>5, <1>7 DEF SettingsInv

(* Whatever the saves, the crashes and the starts do, in whatever order, the
   invariant holds that the three properties below rest on. *)
THEOREM SettingsInvHolds == Spec => []SettingsInv
<1>1. SettingsInv /\ [Next]_vars => SettingsInv'
  BY NextType, RunningStep, AloneStep, ValidatedStep, RestartableStep DEF SettingsInv
<1>. QED  BY <1>1, InitInv, PTL DEF Spec

(* The state of the configuration has its types. *)
THEOREM TypeCorrect == Spec => []TypeOK
<1>1. SettingsInv => TypeOK
  BY DEF SettingsInv
<1>. QED  BY <1>1, SettingsInvHolds, PTL

(* Saves that do not overlap and are not cut short compose in order
   (WriteEnvFile, config.go:561-604). *)
THEOREM LoneSavesComposeHolds == Spec => []LoneSavesCompose
<1>1. SettingsInv => LoneSavesCompose
  BY DEF SettingsInv, Alone, Promise, LoneSavesCompose
<1>. QED  BY <1>1, SettingsInvHolds, PTL

(* Undisturbed, and with no setting of the environment's own, the next start
   finds what is read of the promised settings. *)
LEMMA NextStart ==
  ASSUME SettingsInv, Explicit, up, ~altered, ~disturbed, Whole
  PROVE  /\ Readable(file.settings) /\ Loaded = AsRead(promised)
         /\ file.garbled = FALSE
<1>1. file = Promise /\ osEnv = Nothing /\ promised \in Map
  BY DEF SettingsInv, Alone, Explicit, TypeOK
<1>2. Readable(promised)
  BY DEF SettingsInv, Restartable
<1>3. AsRead(promised) \in Map
  BY <1>1, <1>2, AsReadType
<1>. QED  BY <1>1, <1>2, <1>3, NothingType DEF Loaded, Promise

(* Validating every override against the running configuration alone is
   enough, where the configuration is explicit and the saves blank nothing and
   write only what reads back as it is: the file that any number of them leave
   can be read and starts the proxy (ValidateOverride, config.go:188-198). *)
THEOREM SavesRestartHolds == Spec => []SavesRestart
<1>1. SettingsInv => SavesRestart
  <2> SUFFICES ASSUME SettingsInv, Explicit, up, ~disturbed, ~altered, Whole
               PROVE  Starts
    BY DEF SavesRestart
  <2>1. Builds(AsRead(promised))
    BY DEF SettingsInv, Restartable
  <2>. QED  BY <2>1, NextStart DEF Starts
<1>. QED  BY <1>1, SettingsInvHolds, PTL

(* From an explicit configuration no save takes the API key of an upstream
   that keeps its place (putConfig, httpapi/config.go:23-24). *)
THEOREM KeysAreKeptHolds == Spec => []KeysAreKept
<1>1. SettingsInv => KeysAreKept
  <2> SUFFICES ASSUME SettingsInv, Explicit, up, ~disturbed, ~altered, Whole,
                      NEW i \in DOMAIN Upstreams(env), KeySet(env, i)
               PROVE  KeySet(Loaded, i)
    BY DEF KeysAreKept, KeysStay
  <2> DEFINE c == Cardinality(Slots(env))
             q == AsRead(promised)
  <2>1. Loaded = q
    BY NextStart
  <2>2. \A k \in Key : ~Blank(env[k]) => ~Blank(q[k])
    BY DEF SettingsInv, Restartable
  <2> HIDE DEF q
  <2>3. Slots(env) = 1..c /\ c \in Nat /\ i \in 1..c
    BY SlotsType DEF Explicit, Upstreams
  <2>4. \A n \in 1..c : n \in 1..MaxUpstreams /\ HasUrl(env, n) /\ <<n, "url">> \in Key
    <3> SUFFICES ASSUME NEW n \in Slots(env)
                 PROVE  n \in 1..MaxUpstreams /\ HasUrl(env, n) /\ <<n, "url">> \in Key
      BY <2>3
    <3>1. n \in 0..MaxUpstreams /\ n # 0
      <4>1. n \in 1..c
        BY <2>3
      <4>2. n # 0
        <5> HIDE DEF c
        <5>. QED  BY <2>3, <4>1
      <4>. QED  BY <4>2, SlotsType
    <3>2. n \in 1..MaxUpstreams
      BY <3>1, Numbered
    <3>3. HasUrl(env, n)
      BY <3>1 DEF Slots
    <3>. QED  BY <3>1, <3>2, <3>3, KeysOf DEF Field
  <2>5. 1..c \subseteq Slots(q) /\ 0 \notin Slots(q) /\ 0 \notin Slots(env)
    <3>1. \A n \in 1..c : HasUrl(q, n)
      BY <2>2, <2>4 DEF HasUrl
    <3>2. 1 \in 1..c
      <4> HIDE DEF c
      <4>. QED  BY <2>3
    <3>3. HasUrl(q, 1) /\ HasUrl(env, 1)
      BY <2>4, <3>1, <3>2
    <3>4. 0 \notin Slots(q) /\ 0 \notin Slots(env)
      BY Zenon, <3>3, Numbered DEF Slots
    <3>5. \A n \in 1..c : n \in Slots(q)
      BY <2>4, <3>1 DEF Slots
    <3>. QED  BY <3>4, <3>5
  <2>6. Upstreams(env)[i] = i /\ Upstreams(q)[i] = i
    <3> HIDE DEF c
    <3>1. 1..c \subseteq Slots(env)
      BY <2>3
    <3>. QED  BY <2>3, <2>5, <3>1, FirstSlots
  <2>7. <<i, "key">> \in Key
    BY <2>3, <2>4, Numbered, KeysOf DEF Field
  <2>8. ~Blank(env[<<i, "key">>])
    BY <2>6 DEF KeySet
  <2>9. ~Blank(q[<<i, "key">>])
    BY <2>2, <2>7, <2>8
  <2>. QED  BY <2>1, <2>6, <2>9 DEF KeySet
<1>. QED  BY <1>1, SettingsInvHolds, PTL
=============================================================================
