SPECIFICATION Spec
CONSTANTS
  j1 = j1
  t1 = t1
  None = None
  Jobs = {j1}
  Threads = {t1}
  ThreadsMax = 1
  PipeCap = 2
  CreateMayFail = FALSE
  MayWait = TRUE
PROPERTIES
  WaitEnds
