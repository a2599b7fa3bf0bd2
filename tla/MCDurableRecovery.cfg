CONSTANTS
  x1 = x1  x2 = x2
  r1 = r1  r2 = r2
  a1 = a1  a2 = a2  a3 = a3
  c1 = c1  c2 = c2  c3 = c3
  None = None
  Clients = {x1, x2}
  Recoveries = {r1}
  Actors = {a1, a2, a3}
  Candidates = {c1}
  FreeRoles <- MCFreeRoles
  MaxKeys = 6
  Draft <- MCDraft
  RolesOf <- MCRolesOf
SPECIFICATION Spec
SYMMETRY Symmetry
INVARIANTS
  TypeOK
  StoreConsistent
  EvidenceHolds
PROPERTIES
  ImplementsLifecycle
  ExpiredPlanIsFrozen
CHECK_DEADLOCK FALSE
