SPECIFICATION Spec
CONSTANTS
  Offsets <- MCOffsets
  Lag = 2
  Residual = 2
  Generations <- MCGenerations
  Settlements <- MCSettlements
  Lookahead = 1
  CalendarTs = {2, 4}
  CursorTs = {0, 3, 5}
INVARIANTS
  NeverLate
  SettlesExactly
PROPERTIES
  AllSettled
CHECK_DEADLOCK FALSE
