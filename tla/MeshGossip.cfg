SPECIFICATION GossipSpec
CONSTANTS
  a = a  b = b  c = c  d = d
  xa = xa  xb = xb  xc = xc  xd = xd
  g1 = g1  g2 = g2
  NoNode = NoNode  NoAddr = NoAddr
  Node = {a, b, c, d}
  Addr = {xa, xb, xc, xd}
  Bindable <- OwnAddress
  Linked <- TriangleWithTail
  Id = {g1, g2}
  Task = {g1, g2}
  Capacity = 1
  MayExpire = FALSE
  MaxHops = 2
  StaleAfter = 2
  DisconnectAfter = 3
  AnnounceEvery = 2
  MaxAnnounce = 2
  Ticking = FALSE
  MaxFaults = 0
  MayStop = {}
  Stored = {}
  Broadcaster = {a}
  Caller = {}
  MaxStarts = 1
  MaxCalls = 0
INVARIANTS FiltersConsistent DeliveredOnce
CHECK_DEADLOCK FALSE
PROPERTIES GossipReaches GossipEnds
