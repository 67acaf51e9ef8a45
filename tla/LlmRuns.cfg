SPECIFICATION ChargingSpec
CONSTANTS
  s1 = s1
  o1 = o1
  Usage <- Reports
  Senders = {s1}
  Sweepers = {o1}
  MaxStops = 1
  Cost <- PaidCosts
  Limit = 1
  Runs = {"build"}
  Dir <- OneDir
  MaxSteps = 2
  MaxAttempts = 2
  Recovery = 3
  MaxOutages = 1
  Keys <- LedgerKeys
  Call <- Ledger
INVARIANTS CallsArePaid
CHECK_DEADLOCK FALSE
