SPECIFICATION FairSpec
CONSTANTS
  Tasks = {t1}
  Pids = {p1, p2}
  Nobody = Nobody
  NoPid = NoPid
  MaxInbox = 2
INVARIANTS TypeOK CleanUnwind NoStaleEntry Reachable
PROPERTIES CancelEndsTask CancelKillsTracked StopEnds
CHECK_DEADLOCK FALSE
