SPECIFICATION Spec
CONSTANTS
  Syncs = {s1, s2}
  Families = {TRANSFERS, DEX, NATIVE}
  Supported = {TRANSFERS, DEX}
  FamilyLists <- MainFirst
  MaxLength = 2
  MaxBlock = 1
  CursorAttempts = 2
CHECK_DEADLOCK FALSE
INVARIANTS
  CompletedIsPersisted
PROPERTIES
  SyncSettles
