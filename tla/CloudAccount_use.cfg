SPECIFICATION Spec
CONSTANTS
  c1 = c1
  c2 = c2
  c3 = c3
  Cmds = {c1, c2, c3}
  Kinds <- MCKinds
  After <- MCAfter
  Aws = {1}
  Gcp = {2}
  Count <- MCCount
  Vms = {1, 2, 3, 4}
  Mortal = {1, 3}
  Boxed = {"build"}
  Workers = 1
  Spots = {1, 2}
CHECK_DEADLOCK FALSE
INVARIANTS TypeOK PlaceholderMeansIndex DownSkipsNone FailedProvisionEndsItsOwn ContainersAreListed
PROPERTIES RollbackSparesOthers InstancesStayKnown
