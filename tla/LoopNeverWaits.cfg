SPECIFICATION Spec
CONSTANTS
  Docs = {d1, d2}
  Chats = {c1, c2}
  Formats <- MCFormats
  MaxBatches = 2
  MaxFaults = 1
  Absent = Absent
  Deleted = Deleted
  Null = Null
INVARIANT LoopNeverWaits
CHECK_DEADLOCK FALSE
