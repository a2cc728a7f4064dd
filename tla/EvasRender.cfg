SPECIFICATION Spec
CONSTANTS
  o1 = o1
  o2 = o2
  o3 = o3
  NoObject = NoObject
  Objects = {o1, o2, o3}
  Cells = {0, 1, 2}
  Output = {1, 2}
  Exposed <- OneDamage
  Programs <- Careful
SYMMETRY Symmetry
INVARIANTS
  TypeOK
  RenderedIsCurrent
  KeptStateSound
