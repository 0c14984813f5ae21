SPECIFICATION FairSpec
CONSTANTS
  Callers = {c1}
  MaxJobs = 1
INVARIANT OverIsDone
CHECK_DEADLOCK FALSE
