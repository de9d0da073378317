SPECIFICATION Spec
CONSTANTS
  watchdog = watchdog
  client = client
  stopper = stopper
  closing = closing
  Op = {watchdog, client, closing}
  Kind <- MCKind
  Shutdown = closing
  Absent = Absent
  MayHang = TRUE
  MayRefuse = FALSE
  MayMeddle = FALSE
  MayKill = FALSE
INVARIANTS TakeTurns
CHECK_DEADLOCK FALSE
