SPECIFICATION Spec
CONSTANTS
  p1 = p1
  p2 = p2
  b1 = b1
  b2 = b2
  Procs = {p1, p2}
  Bots = {b1, b2}
  MaxBots = 1
  Calls = {"start", "stop", "restart", "status", "monitor"}
  MaxBoxes = 2
  MaxFaults = 1
SYMMETRY Symmetry
INVARIANTS  StoppedIsPaid PaidOnce 
CHECK_DEADLOCK FALSE
