SPECIFICATION MCSpec
CONSTANTS
  Requests = {1, 2, 3}
  Scopes = {1, 2}
  RelationLocks = TRUE
CHECK_DEADLOCK FALSE
INVARIANTS
  TypeOK
  MutualExclusion
PROPERTIES
  ImplementsIdeal
  NoSyncAdmittedDuringRebuild
  ReservationAnswered
