CONSTANTS
  MaxBlock = 7
  MaxWindowSize = 8
  MinWindowSize = 2
  MaxAttempts = 2
  Actions = {1, 2}
  ActionKinds <- MCKinds
  MaxActions = 2
  MaxCommitAttempts = 2
  MaxReorgs = 1
  FeeAsset = "N"
  ActionGroups <- MCGroups
  Ledgers <- MCLedgers
  QuoteAsset = "USD"
  Prices <- MCPrices
  MaxClock = 2
SPECIFICATION ServicesSpec
INVARIANTS
  ServicesTypeOK
  LogsInOrder
  ReturnsWholeRange
  GivesUpAtFloor
  ReportIsActual
  
  NothingPassedOver
  NeverOlderThanClaimed
  MaterializedIsCurrent
  AvailableAgrees
CHECK_DEADLOCK FALSE
