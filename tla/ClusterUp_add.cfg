SPECIFICATION Spec
CONSTANTS
  far = far
  lan = lan
  A = A
  B = B
  Machines = {lan}
  Tunneled = {}
  Types <- MCOneType
  Usable <- MCOneUsable
  PerType = {}
  Docker = {A}
  MaxWorkers = 2
PROPERTIES AddSparesRegistered
CHECK_DEADLOCK FALSE
