SPECIFICATION FairSpec
CONSTANTS
  MaxToolRoundsPerPhase = 1
  CallId = {c1, c2}
  NoId = NoId
  Indices = {0, 1, 2}
  Missing = Missing
  ToolModes = {"none", "auto", "disabled"}
  Pieces = {"text", "marker", "bare"}
  DebateEnabled = TRUE
  DebateRounds = 2
  Obedient = FALSE
  MaxLines = 3
  NoRow = NoRow
CHECK_DEADLOCK FALSE
INVARIANTS
  RoundInv
  CallsAssembled
  FailedDebateKeepsOriginal
PROPERTIES
  RoundEnds
  ImplementsEngineRound
