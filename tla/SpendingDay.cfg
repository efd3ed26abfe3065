SPECIFICATION Spec
CONSTANTS
  Days = 15
  \* Months of 6, 3 and 7 days: the cycle day exists in the first and the third only.
  MonthStarts = {0, 6, 9, 16}
  CycleDay = 4
  Grace = 2
  MinPayment = 2
  MinPct = 40
  LateFee = 1
  Interest = 1
  EarlyDays = 0
  LateDays = {2}
  Delays = {1}
  Settlement = 9
  SettleTail = 6
  Compaction = 2
  Limit = 6
  Deaths = {3, 99}
  Autopays = {"full", "minimum", "manual"}
  FirstPaydays = {1, 4}
  PayPeriod = 5
  Salary = 3
  Amounts = {1, 5}
  MaxPurchases = 2
  LagDays = 5
INVARIANTS
  BilledExactly
  FeesEarned
  PostedInTime
