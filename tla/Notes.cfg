SPECIFICATION BothSpec
CONSTANTS
  NoteIds = {n1, n2}
  Requests = {r1, r2}
  Overviews = {o1, o2}
  Urls = {u}
  n1 = n1
  n2 = n2
  u = u
  Contents <- MCContents
  Blank = ""
  LinksOf <- MCLinksOf
  Calls <- MCCalls
  MaxCalls = 3
  MaxCopies = 3
  MaxFaults = 1
  Absent = Absent
  Deleted = Deleted
  Null = Null
INVARIANTS CopiesFollowNote FilesFollowRow
PROPERTIES RequestsEnd GenerationEnds
CHECK_DEADLOCK FALSE
