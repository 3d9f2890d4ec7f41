CONSTANTS
  Codes <- MCCodes
  Overlooked <- MCBenign
  Expected <- MCExpected
  WarningLimit = 2
  WindowSize = 2
  Anchor = 5
  Frontier = 5
  Reports <- MCReports
  Aftermath <- MCAftermath
  MaxRuns = 4
  MaxOthers = 0
  MaxFaults = 0
  Campaigns = {1, 2}
  Interval = 2
  Target = 11
  MaxPerChild = 2
  Modes <- MCExecute
  MaxInvocations = 2
  OneLineSummary = FALSE
  MaxBatch = 2
  Prefixes = {1, 2}
  MaxBatches = 2
  FirstActivity = 0
  FirstPostFork = 2
  RebuildInterval = 1
  MaxBackfill = 2
  MaxBackfills = 2
  FirstAllowed = 1
  MaxSpan = 1
  Reasons = {1}
  Sought <- MCSought
  MaxProbes = 2
  Tools = {"supervisor"}
SPECIFICATION Spec
INVARIANT
  CleanChildAccepted
CHECK_DEADLOCK FALSE
