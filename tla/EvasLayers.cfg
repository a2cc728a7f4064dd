SPECIFICATION Spec
CONSTANTS
  s1 = s1
  s2 = s2
  r1 = r1
  NoObject = NoObject
  NoLayer = NoLayer
  Objects <- MCObjects
  Smarts <- MCSmarts
  Numbers <- MCNumbers
  MaxDepth = 2
  MaxRef = 1
  Held <- MCHeld
SYMMETRY MCAlike
INVARIANTS
  TypeOK
  InOneList
  NothingDangles
PROPERTIES
  OrderKept
