SPECIFICATION BPSpec
CONSTANTS
  Modules = {"core", "view"}
  Labels = {"F1", "F2"}
  Handlers <- MCHandlers
  MaxMoves = 1
  ForgeN = 5
  EarlierLogs <- MCEarlierLogs
INVARIANTS
  HandlerKeepsItsSession
  BusyFlagAccount
  NothingWorksUnattended
CHECK_DEADLOCK FALSE
