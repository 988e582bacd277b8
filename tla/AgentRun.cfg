SPECIFICATION FairSpec
CONSTANTS
  MaxContext = 4
  MaxRounds = 2
  Window = 2
  found = found
  Contents = {found, failed}
  ToolError = failed
  MaxCalls = 2
  MaxPieces = 2
  Batch = 2
  QueueSize = 2
  Pasts <- MCPasts
  Shown <- MCShown
  Callers = {"chat", "edit", "socket", "automation"}
  MaxFaults = 1
  MaxLost = 1
INVARIANTS CallsAnswered QuestionInContext SocketInOrder
PROPERTIES TurnEnds
CHECK_DEADLOCK FALSE
