SPECIFICATION Spec
CONSTANTS
  Absent = {noTable}
  Configs = {"a", "b"}
  Builds = {1, 2}
  Stream <- TwoStreams
  MaxRuns = 4
  MaxKills = 2
  MaxServer = 1
  MaxTamper = 1
INVARIANTS
  JournalBounded
  DurableInvariant
  ResumesOwnRows
PROPERTIES
  StreamEndsExact
  EventuallyComplete
CHECK_DEADLOCK FALSE
