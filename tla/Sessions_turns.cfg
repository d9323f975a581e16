SPECIFICATION Spec
CONSTANTS
  Handler = {h1}
  Sid = {s1, s2, s3}
  CallId = {c1}
  CallSet = {}
  Answer = {a1, a2}
  NoAnswer = NoAnswer
  NoHandler = NoHandler
  NoSid = NoSid
  NoRow = NoRow
  TTL = 1
  MaxSessions = 3
  OldestFirst = TRUE
  MaxLen = 3
  MaxClock = 0
INVARIANTS
  TurnHistoryIsOfThisConversation
