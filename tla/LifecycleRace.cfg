SPECIFICATION Spec
CONSTANTS
  Callers = {a, b}
  Schedulers = {b}
  Node <- OneNode
  Postgres = FALSE
  Grace = 1
  Pack = 10
  Charges <- SmallCharges
  MaxInflow = 10
  Crashes = TRUE
INVARIANTS
  SuspendedAfterGrace
  
PROPERTIES
  PhaseSteps
