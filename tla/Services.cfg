SPECIFICATION ServicesSpec
CONSTANTS
  MissionIds = {m1}
  Requests = {r1, r2}
  MaxSteps = 2
  Calls <- MCCalls
  CacheFaults = TRUE
  Absent = Absent
  Deleted = Deleted
  Null = Null
  Users = {u1, u2}
  ShellCalls = {k1, k2}
  Dirs = {home, d1}
  Home = home
  MaxSessions = 1
  MaxShellCalls = 3
  MaxFaults = 1
  MaxAffinity = 9
  Week = 2
  MaxMoodHistory = 2
  MaxTransactions = 4
  Decks = {d2}
  Cards = {c1, c2}
  Qualities = {2, 3, 5}
  MaxReviews = 3
  MaxCardCalls = 5
  Artifacts = {a1, a2, a3}
  foreign = a3
  ArtifactOwner <- MCOwner
  ArtifactThreads = {p1}
  Local = TRUE
  Autocreate = TRUE
  MaxArtifactRequests = 4
  Threads = {t1, t2}
  MaxStoreCalls = 3
  MaxStoreFaults = 2
INVARIANTS StatsHonest ProgressFollowsSteps StateFollowsEvents CardFollowsReviews ArtifactsFormHistories StoreRecovers
PROPERTIES TogglesKept ShellKept
SYMMETRY SlotSymmetry
CHECK_DEADLOCK FALSE
