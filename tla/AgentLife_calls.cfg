SPECIFICATION AgentSpec
CONSTANTS
  Callers = {c1, c2}
  MaxJobs = 3
  w1 = w1
  w2 = w2
  Workers = {w1, w2}
  Clis = {"claude", "codex", "agy"}
  MaxPrompts = 3
  Retries = 2
  MaxCrashes = 1
  MaxIds = 2
INVARIANTS AgentTypeOK
PROPERTIES DoneIsCurrent ResultIsReported EachAnswerOnce
CHECK_DEADLOCK FALSE
