SPECIFICATION Spec
CONSTANTS
  Versions = 2
  Notes = {n1, n2}
  Ledgers = {l1, l2}
  OwnSessions = {s1, s2}
  OwnConvs = {c1}
  MaxSessions = 2
  MaxStarts = 3
CHECK_DEADLOCK FALSE
INVARIANTS
  StartupInv
  MigratedOnce
  SessionsImportedOnce
PROPERTIES
  OwnDataIsLeftAlone
