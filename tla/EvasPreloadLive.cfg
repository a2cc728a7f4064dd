SPECIFICATION Spec
CONSTANTS
  j1 = j1
  j2 = j2
  t1 = t1
  t2 = t2
  None = None
  Jobs = {j1, j2}
  Threads = {t1, t2}
  ThreadsMax = 1
  PipeCap = 2
  CreateMayFail = FALSE
  MayWait = FALSE
PROPERTIES
  ThreadsJoined
  ImplementsPreloadJobs
