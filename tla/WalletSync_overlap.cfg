SPECIFICATION Spec
CONSTANTS
  Syncs = {s1, s2}
  Families = {TRANSFERS}
  Supported = {TRANSFERS}
  FamilyLists <- OneFamily
  MaxLength = 2
  MaxBlock = 2
  CursorAttempts = 2
SYMMETRY Symmetry
CHECK_DEADLOCK FALSE
INVARIANTS
  TypeOK
  CursorSound
  HashNamesHighWater
  CompletedReachesEnd
PROPERTIES
  ImplementsCoverage
