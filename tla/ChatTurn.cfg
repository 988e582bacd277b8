SPECIFICATION TurnSpec
CONSTANTS
  Threads = {t1}
  Deletable = {}
  Workers = {w1, w2}
  CallerRoles = {"user"}
  Clients = {c1}
  Endpoints <- MCEndpoints
  MaxMessages = 4
  WINDOW_ROUNDS = 1
  MaxFaults = 1
  CanRestart = TRUE
  Null = Null
SYMMETRY WorkerSymmetry
INVARIANTS TurnHasNoGap EditIsSibling
PROPERTY WindowKept
CHECK_DEADLOCK FALSE
