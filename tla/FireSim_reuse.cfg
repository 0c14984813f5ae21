SPECIFICATION FireSpec
CONSTANTS
  r1 = r1
  r2 = r2
  Runs = {r1, r2}
  MaxSims = 2
  Attempts = 2
  MaxFaults = 2
  Builds = {1, 2}
  BuildIds = {1, 2}
  Pulls = 2
  Parallelism = 1
  Plans <- MCPlans
INVARIANT SuccessMeansPassed
CHECK_DEADLOCK FALSE
