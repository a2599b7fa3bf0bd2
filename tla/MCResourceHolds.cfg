\* Two tenants, two recoveries, two resources and two holds over three ticks:
\* enough for a hold to expire, be replaced, and the replacement be released.
\* No symmetry, as it would not be sound for the liveness property.
CONSTANTS
  t1 = t1  t2 = t2  r1 = r1  r2 = r2  a = a  b = b  o1 = o1  o2 = o2  h1 = h1  h2 = h2
  Tenants = {t1, t2}
  Recoveries = {a, b}
  Candidates = {c1}
  Owners = {o1, o2}
  Resources = {r1, r2}
  HoldIds = {h1, h2}
  MinTtl = 1
  MaxTtl = 2
  MaxTime = 3
  None = None
SPECIFICATION FairSpec
INVARIANTS TypeOK IndexExact NoDoubleBooking ConflictIsReal
PROPERTY EveryHoldEnds
