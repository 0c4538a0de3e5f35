\* Normal commit: does the client hear of a commit only once it is durable?
SPECIFICATION Spec
CONSTANTS
  Trans = {t1, t2}
  PageSize = 2
  MaxLsa = 14
  MaxToflush = 3
  MaxPrior = 2
  UpdateLens = {1, 2}
  CommitLen = 1
  Configs = {"normal"}
  MaxCrash = 0
  Null = Null
  Eof = Eof
INVARIANT
  AckedSurvives
