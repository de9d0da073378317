SPECIFICATION LiveSpec
CONSTANTS
  Home = Home
  Device = {1, 2}
  Sherd = {0, 1, 2}
  CanHost = {1, 2}
  Refused = {2}
  Foreign = {Home}
  NoNet = NoNet
  Off = Off
  Signal <- PairSignal
  RoamMargin = 30
  w = w  c = c
  Runner = {w, c}
  Watchdog = w
  Handled = {1, 2}
  Failing = {1, 2}
  MaxUpsets = 1
INVARIANTS TypeOK
PROPERTIES HigherKeepsItsLink PairLoopsEnd MeshForms ComesToRest LinksComeTrue
