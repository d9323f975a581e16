SPECIFICATION RaceSpec
CONSTANTS
  Handler = {h1, h2}
  Sid = {s1, s2}
  CallId = {c1}
  CallSet = {{c1}}
  Answer = {a1}
  NoAnswer = NoAnswer
  NoHandler = NoHandler
  NoSid = NoSid
  NoRow = NoRow
  TTL = 1
  MaxSessions = 2
  OldestFirst = TRUE
  MaxLen = 3
  MaxClock = 0
INVARIANTS
  NoDoubleExecution
