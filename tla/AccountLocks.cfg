SPECIFICATION Spec
CONSTANTS
  Threads = {t1, t2, t3}
  NumAccounts = 2
  Invalid = 99
  MaxTransfers = 2
INVARIANTS
  Exclusive
  NoCircularWait
PROPERTIES
  AllComplete
CHECK_DEADLOCK FALSE
