----------------------------- MODULE MCSettings -----------------------------
(***************************************************************************)
(* Values for module Settings: files and overrides as sets of triples, a   *)
(* slot, a field and a value.                                              *)
(***************************************************************************)
EXTENDS SettingsProps, TLC

Of(triples) ==
  [k \in Key |->
     LET vs == {t[3] : t \in {u \in triples : <<u[1], u[2]>> = k}}
     IN  IF vs = {} THEN Absent ELSE CHOOSE v \in vs : TRUE]

Slot(n, url, key) ==
  {<<n, "url", url>>, <<n, "models", "m">>, <<n, "key", key>>}

Files ==
  {Of(Slot(0, "a", "k")),
   Of(Slot(1, "b$", "k") \cup {<<0, "other", "m">>}),
   Of(Slot(1, "a", "k") \cup Slot(2, "b", "k")),
   Of(Slot(2, "b", "k"))}

Bodies ==
  {Of({<<1, "url", "b">>, <<1, "key", "">>}),
   Of({<<2, "url", "b">>, <<2, "models", "m">>}),
   Of({<<2, "models", "">>}),
   Of({<<1, "url", "">>})}

\* "b$" stands for a URL that ends in "$x", "'a" for one with an open quote.
Godotenv ==
  [v \in Text |-> IF v = "b$" THEN "b" ELSE IF v = "'a" THEN Unreadable ELSE v]

Entries ==
  [k \in Key |->
     IF k = Rounds THEN {"", Default, Malformed}
     ELSE CASE k[2] = "url" -> {"", "a", "b", "b$", "'a", Malformed}
            [] k[2] = "models" -> {"", "m", "'a"}
            [] OTHER -> {"", "k"}]

LegacyFiles == {Of(Slot(0, "a", "k")), Of(Slot(1, "a", "k"))}
NoBodies == {}

NoEnvironment == {Of({})}
SomeEnvironment == {Of({}), Of({<<1, "url", "b">>, <<1, "models", "m">>})}

Symmetry == Permutations(Handler) \cup Permutations(Page)
=============================================================================
