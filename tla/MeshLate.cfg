SPECIFICATION Spec
CONSTANTS
  a = a  b = b  c = c  d = d
  xa = xa  xb = xb  xc = xc  xd = xd
  g1 = g1  g2 = g2
  NoNode = NoNode  NoAddr = NoAddr
  Node = {a, b}
  Addr = {xa, xb}
  Bindable <- OwnAddress
  Linked <- Pair
  Id = {g1, g2}
  Task = {g1}
  Capacity = 1
  MayExpire = TRUE
  MaxHops = 2
  StaleAfter = 2
  DisconnectAfter = 3
  AnnounceEvery = 1
  MaxAnnounce = 2
  Ticking = TRUE
  MaxFaults = 1
  MayStop = {b}
  Stored = {b}
  Broadcaster = {a}
  Caller = {b}
  MaxStarts = 2
  MaxCalls = 1
INVARIANTS DeliveredOnce
