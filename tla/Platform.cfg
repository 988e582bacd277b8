SPECIFICATION PlatformSpec
CONSTANTS
  Users = {u1, u2}
  Providers = {"openai", "openrouter"}
  Hub = {m1, m2}
  u1 = u1
  m1 = m1
  m2 = m2
  p1 = p1
  p2 = p2
  Params = {p1, p2}
  Overrides = {Null}
  Bodies <- MCBodies
  ProviderOf <- MCProviderOf
  ModelOf <- MCModelOf
  Saved <- MCSaved
  Default = m2
  EnvKeys = {"openrouter"}
  Calls = {c1, c2}
  Null = Null
  MaxCalls = 2
  MaxUpdates = 1
  MaxFaults = 1
  Queries = {q1, q2}
  MaxTime = 2
  MaxWebCalls = 3
  Conversations = {t1, t2}
  MaxMemories = 3
  Emails = {e1, e2}
  Identities = {g, h}
  MaxAccounts = 2
  MaxAccountCalls = 5
  MaxTokens = 3
  MaxSessionCalls = 2
  MaxSeconds = 5
  Servers = {s1}
  MaxConnections = 3
  MaxMcpCalls = 5
  Places = {l1, l2}
  MaxActions = 4
  Projects = {"p"}
  MaxChats = 3
  CallLimit = 2
  Enforced = TRUE
  MaxWebSearches = 1
  WindowLength = 1
  Interval = 1
  OwnerOf <- MCOwner
  ForgetLimit = 2
  MaxRuns = 2
  EmailOf <- MCEmailOf
  SessionRequests = {"q1"}
  Sockets = {"s1"}
  AccessSeconds = 2
  RefreshSeconds = 3
  MaxRequests = 1
  LimitSeconds = 1
  Commands <- MCCommands
  MaxSpeeches = 3
INVARIANTS ChatRunsAsSet WebCallsBounded MemoriesKept IdentityKeepsAccount RevokedStaysOut ToolsOfTheSession ControlsAccounted VoiceLoadedOnce
SYMMETRY CallSymmetry
CHECK_DEADLOCK FALSE
