SPECIFICATION FairSpec
CONSTANTS
  MaxDecompositionDepth = 2
  MaxToolRoundsPerPhase = 2
  CallId = {c1, c2}
  IndexSets = {{0, 1}}
  ToolModes = {"none", "auto", "disabled"}
  Texts = {"text", "marker", "bare"}
  DebateEnabled = TRUE
  Obedient = TRUE
  NoRow = NoRow
  MaxSubtasks = 2
  MaxFailures = 1
CHECK_DEADLOCK FALSE
INVARIANTS
  EngineInv
  PlanCoversTree
  ResultsFollowLeaves
  ConversationIsWhole
  RoundsBounded
  NoMarkerWithoutTools
PROPERTIES
  ImplementsRunLog
  RunCompletes
