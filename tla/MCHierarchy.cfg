SPECIFICATION Spec
CONSTANTS
  root = root
  p1 = p1
  a = a
  b = b
  c = c
  NoOrg = NoOrg
  NoOne = NoOne
  Slugs = {a, b, c}
  People = {root, p1}
  Root = root
  Guests = {p1}
  DepthLimit = 1
  BoundRoles <- OneRole
  Sessions = {s1, s2}
INVARIANTS
  TypeOK
  ClosureIsTreeOrder
  DepthWithinCap
PROPERTY OnlyOverlapsSlip
SYMMETRY Alike
CHECK_DEADLOCK FALSE
