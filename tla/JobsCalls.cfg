SPECIFICATION Spec
CONSTANTS
  Jobs = 3
  Callers = {a, b}
  Enqueuers = {a}
  Controllers = {b}
  Workers = {w}
  Owner <- LastIsOthers
  Ops <- LastIsControlled
  GlobalCap = 3
  TenantCap = 1
  MaxLosses = 1
INVARIANTS
  TypeOK
  SlotsMatch
PROPERTIES
  EndedForGood
  PlainSettles
