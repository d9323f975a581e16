SPECIFICATION Spec
CONSTANTS
  Handler = {h1, h2}
  Sid = {s1, s2}
  CallId = {c1, c2}
  CallSet = {{c1, c2}}
  Answer = {a1, a2}
  NoAnswer = NoAnswer
  NoHandler = NoHandler
  NoSid = NoSid
  NoRow = NoRow
  TTL = 1
  MaxSessions = 1
  OldestFirst = FALSE
  MaxLen = 4
  MaxClock = 2
SYMMETRY Symmetry
INVARIANTS
  OneRunPerSession
  ResumedRowIsCurrent
  TurnHistoryFollowsCheckpoints
  SessionsInv
  TableBounded
PROPERTIES
  ImplementsSessionLog
  EvictsOldest
