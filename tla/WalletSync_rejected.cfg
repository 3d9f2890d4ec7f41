SPECIFICATION Spec
CONSTANTS
  Syncs = {s1, s2}
  Families = {TRANSFERS}
  Supported = {TRANSFERS}
  FamilyLists <- Single
  MaxLength = 1
  MaxBlock = 1
  CursorAttempts = 2
SYMMETRY Symmetry
CHECK_DEADLOCK FALSE
INVARIANTS
  RejectedIsFailed
