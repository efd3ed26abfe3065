SPECIFICATION Spec
CONSTANTS
  End = 7
  Day = 2
  Month = 5
  MaxPayments = 2
  Registry <- MCRegistry
  Join <- MCJoin
  Close <- MCClose
  HomesOf <- MCHomesOf
  StreetOf <- MCStreetOf
  RingOf <- MCRingOf
  Usages <- MCUsages
  Payments <- MCPayments
  Senders <- MCSenders
  DailyCap <- MCDailyCap
  MonthlyCap <- MCMonthlyCap
  Us = {1, 2}
INVARIANTS
  CausalOrder
  RecordsExact
