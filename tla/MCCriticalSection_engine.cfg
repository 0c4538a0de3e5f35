SPECIFICATION FairSpec
CONSTANTS
  Threads = {t1, t2, t3}
  NoThread = NoThread
  MaxNest = 2
  FreeCallers = FALSE
INVARIANTS
  NoLostWakeup
PROPERTIES
  Refinement
  Drains
