SPECIFICATION Spec
CONSTANTS
  Width = 4
  Height = 3
  Environments <- MCEnvironments
INVARIANTS
  TypeOK
  RedrawsExact
  ShownIsCurrent
PROPERTIES
  CallsEnd
