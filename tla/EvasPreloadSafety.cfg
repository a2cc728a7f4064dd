SPECIFICATION SafeSpec
CONSTANTS
  j1 = j1
  j2 = j2
  j3 = j3
  t1 = t1
  t2 = t2
  t3 = t3
  None = None
  Jobs = {j1, j2, j3}
  Threads = {t1, t2, t3}
  ThreadsMax = 2
  PipeCap = 2
  CreateMayFail = FALSE
  MayWait = TRUE
SYMMETRY Symmetry
INVARIANTS
  TypeOK
  NoStrandedJob
  NoFreedWorkInUse
  OncePerJob
PROPERTIES
  ReportIsFinal
  ImplementsPreloadJobsSafely
