SPECIFICATION Spec
CONSTANTS
  Clients = {c}
  Workers = {w1, w2}
  Jobs = 3
  UserOf <- OneUser
  MaxBots = 1
  Capacity <- OneSmall
  MaxQueued = 2
  MaxAttempts = 2
  Prompt = TRUE
  MaxCrashes = 1
INVARIANTS
  OwnerWorks
  SealedWhileNeeded
PROPERTIES
  JobSettles
  ImplementsBoard
\* Requests are bounded, and a fleet that is full waits.
CHECK_DEADLOCK FALSE
