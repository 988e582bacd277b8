SPECIFICATION TurnSpec
CONSTANTS
  Threads = {t1}
  Deletable = {}
  Workers = {w1, w2}
  CallerRoles = {"user"}
  Clients = {c1}
  Endpoints <- MCEndpoints
  MaxMessages = 3
  WINDOW_ROUNDS = 1
  MaxFaults = 0
  CanRestart = FALSE
  Null = Null
SYMMETRY WorkerSymmetry
PROPERTIES ReplyKept
CHECK_DEADLOCK FALSE
