SPECIFICATION Spec
CONSTANTS
  Tab = {t1}
  Call = {k1, k2}
  ConvId = {a, b}
  NoConv = NoConv
  NoCall = NoCall
  NotStored = NotStored
  NoFetch = NoFetch
  MaxSends = 3
CHECK_DEADLOCK FALSE
SYMMETRY Symmetry
INVARIANTS
  WebChatInv
  AnswerFollowsQuestion
  LedgerNeverMixes
  ShownAnswersAreStored
PROPERTIES
  NameIsKept
