SPECIFICATION LiveSpec
CONSTANTS
  a = a  b = b  c = c  d = d
  xa = xa  xb = xb  xc = xc  xd = xd
  g1 = g1  g2 = g2
  NoNode = NoNode  NoAddr = NoAddr
  Node = {a, b, c}
  Addr = {xa, xb, xc}
  Bindable <- OwnAddress
  Linked <- Pair
  Id = {g1}
  Task = {}
  Capacity = 1
  MayExpire = TRUE
  MaxHops = 2
  StaleAfter = 2
  DisconnectAfter = 3
  AnnounceEvery = 1
  MaxAnnounce = 2
  Ticking = TRUE
  MaxFaults = 0
  MayStop = {b}
  Stored = {}
  Broadcaster = {}
  Caller = {c}
  MaxStarts = 1
  MaxCalls = 1
INVARIANTS NoFalseAlarm
PROPERTIES ConnectedByHandshake SilentPeerDropped
