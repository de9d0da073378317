SPECIFICATION LiveSpec
CONSTANTS
  a = a  b = b  c = c
  t1 = t1
  k1 = k1  k2 = k2  k3 = k3
  Node = {a, b, c}
  NoNode = NoNode
  Task = {t1}
  Author <- MCAuthor
  EmptyPayload = {}
  Relay <- Line
  Call = {k1, k2}
  CallNode <- OwnCallNode
  CallTask <- MCCallTask
  NoCall = NoCall
  All = All
  MayDuplicate = TRUE
  MayLag = FALSE
  Stoppable = {b}
  Worker = {b}
CHECK_DEADLOCK FALSE
INVARIANTS OneOwner
PROPERTIES FollowsLifecycle ClaimTaskReturns
