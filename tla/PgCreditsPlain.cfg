SPECIFICATION Spec
CONSTANTS
  Callers = {a}
  NoKey = NoKey
  Keys <- PlainKeys
  Call <- PlainOps
  MaxTime = 2
  RlsEnforced = FALSE
INVARIANTS
  Reconciles
  PaidCreditsSurvive
  GrantsLastTheirTtl
