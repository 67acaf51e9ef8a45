SPECIFICATION Spec
CONSTANTS
  p1 = p1
  p2 = p2
  b1 = b1
  Procs = {p1, p2}
  Bots = {b1}
  MaxBots = 2
  Calls = {"start"}
  MaxBoxes = 2
  MaxFaults = 0
SYMMETRY Symmetry
INVARIANTS OneSandboxPerBot
CHECK_DEADLOCK FALSE
