SPECIFICATION LiveSpec
CONSTANTS
  r1 = r1  r2 = r2
  i1 = i1  i2 = i2  i3 = i3
  Req = {r1, r2}
  Id = {i1, i2, i3}
  Earlier = {i1}
  NoId = NoId
  MaxRetries = 1
  HealthPolls = 2
  MissesToReady = 2
  Serves <- DesktopsAreSandboxes
  Cap = 2
  MaxRestarts = 1
INVARIANTS OneMachinePerCreate DestroyedIsGone CreatedIsTracked CleanupReportsTruth
PROPERTY RequestsEnd
CHECK_DEADLOCK FALSE
