CONSTANTS
  x1 = x1  x2 = x2  a1 = a1  a2 = a2  i1 = i1  r1 = r1  r2 = r2
  c1 = c1  c2 = c2  c3 = c3  c4 = c4  q = q  g = g
  h1 = h1  h2 = h2  h3 = h3  d1 = d1  d2 = d2
  None = None
  Clients = {x1}
  Actors = {a1, a2}
  Managers = {a2}
  Disruptions = {i1}
  Recoveries = {r1}
  Candidates = {c1, c2}
  Solved <- MCSolved
  Scheduled <- MCScheduled
  Legal = {c1, c4}
  Needs <- MCNeeds
  Resources = {q, g}
  HoldIds = {h1, h2}
  Deployments = {d1}
  Ttl = 1
  MaxTime = 2
  MaxVersion = 7
SPECIFICATION Spec
SYMMETRY Symmetry
INVARIANT DeployedPlanIsApproved
CHECK_DEADLOCK FALSE
