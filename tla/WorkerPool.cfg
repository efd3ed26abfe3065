SPECIFICATION Spec
CONSTANTS
  NumThreads = 4
  NumSpenders = 6
  NumDays = 2
INVARIANTS
  ThreadInvariant
  JobIsCurrent
  RemainingExact
PROPERTIES
  ShutsDown
CHECK_DEADLOCK FALSE
