SPECIFICATION Spec
CONSTANTS
  p1 = p1
  p2 = p2
  r1 = r1
  r2 = r2
  u1 = u1
  u2 = u2
  u3 = u3
  Referrers = {r1, r2}
  Users = {u1, u2, u3}
  Processes = {p1, p2}
  Cap = 2
  Milestones = {1, 2}
  MaxFailures = 1
SYMMETRY Symmetry
INVARIANTS TypeOK CapHolds OneGranter NoMilestoneMissed
CHECK_DEADLOCK FALSE
