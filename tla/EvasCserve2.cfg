SPECIFICATION Spec
CONSTANTS
  c1 = c1
  c2 = c2
  h1 = h1
  h2 = h2
  h3 = h3
  p1 = p1
  p2 = p2
  f1 = f1
  f2 = f2
  i1 = i1
  i2 = i2
  i3 = i3
  r1 = r1
  r2 = r2
  r3 = r3
  r4 = r4
  w1 = w1
  w2 = w2
  op1 = op1
  op2 = op2
  None = None
  Clients = {c1, c2}
  Handles = {h1, h2}
  Paths = {p1, p2}
  Opts = {op1, op2}
  Files = {f1, f2}
  Images = {i1, i2, i3}
  Requests = {r1, r2, r3, r4}
  Workers = {w1, w2}
  Unsent = {}
  MaxWorkers = 2
  MaxUnused = 1
  Owner <- TwoClients
  Trouble = {}
SYMMETRY Alike
INVARIANTS
  TypeOK
  NoUseAfterFree
  NoRequestMeansLoaded
  RequestsMatch
  ReferencesMatch
  NobodyStalls
