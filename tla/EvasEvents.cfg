SPECIFICATION Spec
CONSTANTS
  o1 = o1
  o2 = o2
  p1 = p1
  p2 = p2
  NoObject = NoObject
  Objects = {o1, o2}
  Points = {p1, p2}
  Kinds <- Pairs
  Busy = {"down", "up", "del", "free"}
  FrozenFeeds = {"in", "move"}
  MaxDowns = 2
  MaxGrabs = 2
  MaxNest = 1
INVARIANTS
  TypeOK
  NoUseAfterFree
  PressesPaired
  HoverExact
PROPERTIES
  HolderKeepsPointer
