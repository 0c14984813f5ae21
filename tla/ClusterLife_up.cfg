SPECIFICATION LifeSpec
CONSTANTS
  a = a
  b = b
  inn = inn
  shed = shed
  hub = hub
  Clusters = {a, b}
  Boxes = {inn}
  Bare = {hub, shed}
  Hub = hub
  Uses <- MCUses
  Blanket = {b}
  far = far
  lan = lan
  A = A
  B = B
  Machines = {far, lan}
  Tunneled = {far}
  Types <- MCTypes
  Usable <- MCUsable
  PerType = {A}
  Docker = {A}
  MaxWorkers = 2
INVARIANTS LifeTypeOK LastOneRemoves UpKeepsSurvivors
PROPERTIES OthersAreSpared AddSparesTunnels
CHECK_DEADLOCK FALSE
