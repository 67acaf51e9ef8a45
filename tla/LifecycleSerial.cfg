SPECIFICATION Spec
CONSTANTS
  Callers = {a}
  Schedulers = {a}
  Node <- OneNode
  Postgres = TRUE
  Grace = 2
  Pack = 10
  Charges <- SmallCharges
  MaxInflow = 20
  Crashes = FALSE
PROPERTIES
  GraceIsFull
  CreditRestores
  GraceEnds
