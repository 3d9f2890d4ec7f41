SPECIFICATION Spec
CONSTANTS
  Txs = {1, 2}
  Logs = {"log1"}
  ActionFamilies = {"LP"}
  Shape <- Repaired
  Procs = {p1}
  Overlap = FALSE
  Unscanned = FALSE
  Histories = {{1}}
PROPERTIES
  RebuildPurgesRepaired
