SPECIFICATION Spec
CONSTANTS
  MaxUpstreams = 2
  Handler = {h1}
  Page = {p1}
  Text = {"a", "b", "m", "k", "bad", "b$", "'a"}
  Malformed = "bad"
  Default = "m"
  Absent = Absent
  Unreadable = Unreadable
  ReadBack <- Godotenv
  Environments <- NoEnvironment
  InitialFiles <- LegacyFiles
  ApiBodies <- NoBodies
  Typed <- Entries
  MaxEdits = 0
  MaxSaves = 1
  MaxStarts = 2
CHECK_DEADLOCK FALSE
INVARIANTS
  BlankKeyKeepsTheKey
