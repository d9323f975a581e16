SPECIFICATION ResentSpec
CONSTANTS
  Tab = {t1}
  Call = {k1, k2}
  ConvId = {a, b}
  NoConv = NoConv
  NoCall = NoCall
  NotStored = NotStored
  NoFetch = NoFetch
  MaxSends = 2
CHECK_DEADLOCK FALSE
INVARIANTS
  RecordsOnlyWhatWasSent
