SPECIFICATION Spec
CONSTANTS
  Writers = {w1, w2}
  Flushers = {f1, f2}
  MaxLsa = 2
  PackPages = 2
  ClientMode = "SYNC"
  MayFail = TRUE
  MayStop = FALSE
  FlushWhileStop = FALSE
SYMMETRY Symmetry
INVARIANTS
  FetchedIsDurable
  SyncCopied
  NoLostEndSignal
  NoneFetchingAfter
