SPECIFICATION GraceSpec
CONSTANTS
  watchdog = watchdog
  client = client
  stopper = stopper
  closing = closing
  Op = {watchdog, client, closing}
  Kind <- MCKind
  Shutdown = closing
  Absent = Absent
  MayHang = TRUE
  MayRefuse = TRUE
  MayMeddle = TRUE
  MayKill = TRUE
INVARIANTS
  OffWhenStopped UserSettingsKept NeverSavesSherd OnlyAbandonedOverlap
PROPERTIES ShutdownReturns
CHECK_DEADLOCK FALSE
