SPECIFICATION Spec
CONSTANTS
  Threads = {k1}
  Users = {u1, u2}
  Docs = {d1}
  Keys = {q1}
  Null = Null
  TTL = 1
  MaxTime = 2
  MaxSearches = 1
  MaxFaults = 1
INVARIANTS SearchFinds
CHECK_DEADLOCK FALSE
