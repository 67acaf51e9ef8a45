SPECIFICATION Spec
CONSTANTS
  o1 = o1
  s1 = s1
  s2 = s2
  Usage <- Reports
  Senders = {s1, s2}
  Sweepers = {o1}
  Cost <- PaidCosts
  Limit = 2
  MaxStops = 1
  Keys <- LedgerKeys
  Call <- Ledger
INVARIANTS UsageChargedOnce RatingIsBacked
PROPERTIES ChargedIsRated UsageSettles
CHECK_DEADLOCK FALSE
