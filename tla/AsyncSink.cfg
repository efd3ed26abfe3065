SPECIFICATION FairSpec
CONSTANTS
  NumSpans = 5
  MaxQueued = 2
INVARIANTS
  PrefixWritten
PROPERTIES
  FailStop
  AlwaysEnds
CHECK_DEADLOCK FALSE
