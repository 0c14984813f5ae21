SPECIFICATION Spec
CONSTANTS
  Tasks = {t1}
  Pids = {p1}
  Nobody = Nobody
  NoPid = NoPid
  MaxInbox = 2
INVARIANT CancelLeavesNothing
CHECK_DEADLOCK FALSE
