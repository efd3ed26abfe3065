SPECIFICATION Spec
CONSTANTS
  NumAccounts = 2
  Cards = {1}
  External <- MCExternal
  Period = 2
  Rates = {1}
  Fee = 1
  Scenarios <- MCScenarios
INVARIANTS
  BookInvariant
  BufferFloor
PROPERTIES
  ImplementsScan
  FeeOncePerCrossing
CHECK_DEADLOCK FALSE
