SPECIFICATION SafeSpec
CONSTANTS
  e1 = e1
  e2 = e2
  e3 = e3
  o1 = o1
  o2 = o2
  k1 = k1
  k2 = k2
  st1 = st1
  st2 = st2
  None = None
  Entries = {e1, e2, e3}
  Objects = {o1, o2}
  Keys = {k1, k2}
  Stamps = {st1, st2}
  Limits = {0, 2}
  Programs <- SafePrograms
SYMMETRY Symmetry
INVARIANTS
  TypeOK
  NoUseAfterFree
  CountsExact
  ListsExact
  TargetsMatch
