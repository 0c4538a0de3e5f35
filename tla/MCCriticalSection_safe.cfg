SPECIFICATION Spec
CONSTANTS
  Threads = {t1, t2, t3}
  NoThread = NoThread
  MaxNest = 2
  FreeCallers = TRUE
SYMMETRY Symmetry
INVARIANT
  QueueDiscipline
