SPECIFICATION Spec
CONSTANTS
  a = a  b = b  c = c
  t1 = t1
  k1 = k1  k2 = k2  k3 = k3
  Node = {a, b, c}
  NoNode = NoNode
  Task = {t1}
  Author <- MCAuthor
  EmptyPayload = {}
  Relay <- Star
  Call = {k1, k3}
  CallNode <- RetryCallNode
  CallTask <- MCCallTask
  NoCall = NoCall
  All = All
  MayDuplicate = FALSE
  MayLag = FALSE
  Stoppable = {}
  Worker = {}
CHECK_DEADLOCK FALSE
INVARIANT OkMeansMine
