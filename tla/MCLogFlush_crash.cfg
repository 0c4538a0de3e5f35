\* Two transactions, pages of two slots, records that span up to three pages, a
\* page buffer of three pages (flushes inside a record) and a crash.
SPECIFICATION Spec
CONSTANTS
  Trans = {t1, t2}
  PageSize = 2
  MaxLsa = 14
  MaxToflush = 3
  MaxPrior = 2
  UpdateLens = {1, 5}
  CommitLen = 1
  Configs = {"normal"}
  MaxCrash = 1
  Null = Null
  Eof = Eof
SYMMETRY Symmetry
INVARIANTS
  TypeOK
  RecoveryReadsPrefix
  FlushedSurvives
  WalRule
  AckedOrNext
  NoLostRequest
  AppendIsConsistent
PROPERTIES
  ImplementsDurableLog
