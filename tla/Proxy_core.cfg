SPECIFICATION FairProxySpec
CONSTANTS
  Handler = {h1, h2}
  Sid = {s1, s2}
  CallId = {c1}
  CallSet = {{c1}}
  Answer = {a1}
  NoAnswer = NoAnswer
  NoHandler = NoHandler
  NoSid = NoSid
  NoRow = NoRow
  TTL = 1
  MaxSessions = 1
  OldestFirst = TRUE
  MaxLen = 3
  MaxClock = 1
  Task = {t1, t2}
  Text = {x}
  t1 = t1
  t2 = t2
  Plan <- TwoTasks
CHECK_DEADLOCK FALSE
INVARIANTS
  EngineContinuesRow
PROPERTIES
  RunsImplementRunLog
  RequestsEnd
