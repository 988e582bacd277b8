SPECIFICATION FairSpec
CONSTANTS
  Threads = {t1}
  Deletable = {t1}
  Workers = {w1, w2}
  CallerRoles = {"user"}
  MaxMessages = 3
  WINDOW_ROUNDS = 1
  MaxFaults = 1
  CanRestart = TRUE
  Null = Null
INVARIANTS ReadStable ToldOnce DeletedStaysEmpty
PROPERTIES ImplementsLog WritesSettle
CHECK_DEADLOCK FALSE
