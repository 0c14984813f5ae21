SPECIFICATION Spec
CONSTANTS
  Tags = {a, b, c}
  Vals = {small, large, huge}
  Size <- MCSize
  Budgets = {2, 4}
  Absent = Absent
  Torn = Torn
SYMMETRY Symmetry
INVARIANTS TypeOK Accounting NothingEscapes
PROPERTIES RecentSurvives IsLossyStore
CHECK_DEADLOCK FALSE
