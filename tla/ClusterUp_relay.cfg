SPECIFICATION Spec
CONSTANTS
  far = far
  lan = lan
  A = A
  B = B
  Machines = {far}
  Tunneled = {far}
  Types <- MCRelayTypes
  Usable <- MCRelayUsable
  PerType = {}
  Docker = {B}
  MaxWorkers = 2
PROPERTIES CleanupSparesRelay
CHECK_DEADLOCK FALSE
