\* All three ways to commit, no crash: nothing but group commit needs a timeout.
SPECIFICATION FairSpec
CONSTANTS
  Trans = {t1, t2}
  PageSize = 2
  MaxLsa = 6
  MaxToflush = 3
  MaxPrior = 5
  UpdateLens = {1}
  CommitLen = 1
  Configs = {"normal", "group", "direct"}
  MaxCrash = 0
  Null = Null
  Eof = Eof
INVARIANT
  DirectSurvives
PROPERTIES
  CommitReturns
  AckedBecomesDurable
CHECK_DEADLOCK FALSE
