SPECIFICATION Spec
CONSTANTS
  Txs = {1, 2}
  Logs = {"log1", "log2"}
  ActionFamilies = {"LP"}
  Shape <- ActionAndPayment
  Procs = {p1, p2}
  Overlap = TRUE
  Unscanned = FALSE
  Histories = {{1}}
SYMMETRY Symmetry
INVARIANTS
  FeePaidOnce
  
  
