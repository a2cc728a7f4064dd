SPECIFICATION Spec
CONSTANTS
  e1 = e1
  e2 = e2
  o1 = o1
  o2 = o2
  k1 = k1
  st1 = st1
  None = None
  Entries = {e1, e2}
  Objects = {o1, o2}
  Keys = {k1}
  Stamps = {st1}
  Limits = {0, 2}
  Programs <- AnswerPrograms
PROPERTIES
  UsesPreloadJobs
  PreloadAnswered
  ShutdownEnds
