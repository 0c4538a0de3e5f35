SPECIFICATION FairSpec
CONSTANTS
  Writers = {w1}
  Flushers = {f1}
  MaxLsa = 3
  PackPages = 1
  ClientMode = "ASYNC"
  MayFail = TRUE
  MayStop = TRUE
  FlushWhileStop = FALSE
INVARIANT
  StopsInSync
PROPERTIES
  FlushReturns
  Delivered
  WritersStop
CHECK_DEADLOCK FALSE
