SPECIFICATION FairSpec
CONSTANTS
  Docs = {d1, d2}
  Chats = {c1}
  Formats <- MCFormats
  MaxBatches = 2
  MaxFaults = 1
  Absent = Absent
  Deleted = Deleted
  Null = Null
INVARIANTS VectorsFollowRow XpExact
PROPERTIES RequestsSettle
CHECK_DEADLOCK FALSE
