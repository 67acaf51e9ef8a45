SPECIFICATION Spec
CONSTANTS
  Callers = {a, b}
  NoKey = NoKey
  Keys <- AllKeys
  Call <- AllOps
  MaxTime = 1
  RlsEnforced = FALSE
INVARIANTS
  TypeOK
  WithinBalance
  LedgerMatchesWallet
  ChargedOncePerKey
  AcknowledgedIsPosted
PROPERTY
  ImplementsAccount
