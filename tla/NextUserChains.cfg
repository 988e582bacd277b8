SPECIFICATION TurnSpec
CONSTANTS
  Threads = {t1}
  Deletable = {}
  Workers = {w1, w2}
  CallerRoles = {"user"}
  Clients = {c1}
  Endpoints <- MCEndpoints
  MaxMessages = 4
  WINDOW_ROUNDS = 3
  MaxFaults = 0
  CanRestart = FALSE
  Null = Null
SYMMETRY WorkerSymmetry
INVARIANTS NextUserChains
CHECK_DEADLOCK FALSE
