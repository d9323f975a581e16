SPECIFICATION FairSpec
CONSTANTS
  N = 2
  a = a
  b = b
  Model = {a, b}
  Declared <- OneEach
  Default = a
  Request = {r1, r2}
  TTL = 2
  Timeout = 1
  Loadable = {b}
  Nil = Nil
CHECK_DEADLOCK FALSE
INVARIANTS
  ModelsInv
  ListedIsRecent
  SteadyIsListed
PROPERTIES
  EveryRequestEnds
