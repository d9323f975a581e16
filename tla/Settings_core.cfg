SPECIFICATION Spec
CONSTANTS
  MaxUpstreams = 2
  Handler = {h1, h2}
  Page = {p1}
  Text = {"a", "b", "m", "k", "bad", "b$", "'a"}
  Malformed = "bad"
  Default = "m"
  Absent = Absent
  Unreadable = Unreadable
  ReadBack <- Godotenv
  Environments <- SomeEnvironment
  InitialFiles <- Files
  ApiBodies <- Bodies
  Typed <- Entries
  MaxEdits = 1
  MaxSaves = 2
  MaxStarts = 2
SYMMETRY Symmetry
CHECK_DEADLOCK FALSE
INVARIANTS
  SettingsInv
  LoneSavesCompose
  SavesRestart
  KeysAreKept
