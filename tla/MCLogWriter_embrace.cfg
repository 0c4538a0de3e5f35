SPECIFICATION FairSpec
CONSTANTS
  Writers = {w1}
  Flushers = {f1}
  MaxLsa = 3
  PackPages = 2
  ClientMode = "SYNC"
  MayFail = FALSE
  MayStop = TRUE
  FlushWhileStop = TRUE
PROPERTY
  FlushReturns
CHECK_DEADLOCK FALSE
