SPECIFICATION Spec
CONSTANTS
  Txs = {1, 2, 3}
  Logs = {"log1", "log2"}
  ActionFamilies = {"LP"}
  Shape <- Assorted
  Procs = {p1}
  Overlap = FALSE
  Unscanned = FALSE
  Histories = {{2}, {1, 2}}
INVARIANTS
  TypeOK
  
  
PROPERTIES
  RebuildStaysInWindow
