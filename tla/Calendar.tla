------------------------------ MODULE Calendar ------------------------------
(***************************************************************************)
(* Calendar arithmetic (primitives/time/calendar), the window and the      *)
(* almanac of the Social Security pay dates.  Time is in minutes since the *)
(* first of January 2021, a Friday; days are counted from there.  The      *)
(* leap-year rule is that of the years 1901 to 2099.                       *)
(***************************************************************************)
EXTENDS Draws

CONSTANTS WindowStart, WindowDays

Day == 1440
WindowEnd == WindowStart + WindowDays * Day
\* clipHalfOpen
InWindow(ts) == WindowStart <= ts /\ ts < WindowEnd

(* ------------------------------ the calendar --------------------------- *)

EpochYear == 2021
DayOf(ts) == ts \div Day
YearStart(y) == 365 * (y - EpochYear) + ((y - EpochYear) \div 4)
DaysInMonth(y, m) ==
  CASE m \in {4, 6, 9, 11} -> 30 [] m = 2 -> IF y % 4 = 0 THEN 29 ELSE 28 [] OTHER -> 31
DaysBeforeMonth(y) ==
  LET f[m \in 1 .. 13] == IF m = 1 THEN 0 ELSE f[m - 1] + DaysInMonth(y, m - 1) IN f

\* makeTime
DayNumber(y, m, dom) == YearStart(y) + DaysBeforeMonth(y)[m] + dom - 1
MakeTime(y, m, dom) == Day * DayNumber(y, m, dom)

\* toCalendarDate
YearOfDay(n) ==
  CHOOSE y \in EpochYear + (n \div 366) - 1 .. EpochYear + (n \div 366) + 2 : YearStart(y) <= n /\ n < YearStart(y + 1)
\* The date of the n-th day of year y; before holds the days before each month.
DateOf(y, n, before) ==
  LET m == CHOOSE x \in 1 .. 12 : before[x] <= n /\ n < before[x + 1]
  IN [year |-> y, month |-> m, day |-> n - before[m] + 1]
DateIn(y, n) == DateOf(y, n - YearStart(y), DaysBeforeMonth(y))
ToCalendarDate(ts) == DateIn(YearOfDay(DayOf(ts)), DayOf(ts))

YearOf(ts) == YearOfDay(DayOf(ts))
Weekday(ts) == (DayOf(ts) + 4) % 7         \* Monday is 0
IsWeekend(ts) == Weekday(ts) >= 5

FirstOfMonth(c) == MakeTime(c.year, c.month, 1)
MonthStart(ts) == FirstOfMonth(ToCalendarDate(ts))

\* addMonths: the day of the month is clamped to the month it lands in.
Clamped(y, m, dom) == MakeTime(y, m, Lesser(dom, DaysInMonth(y, m)))
MonthsAfter(c, n) ==
  LET total == 12 * c.year + c.month - 1 + n IN Clamped(total \div 12, 1 + (total % 12), c.day)
AddMonths(ts, n) == MonthsAfter(ToCalendarDate(ts), n) + (ts % Day)

\* monthStarts: the first of every month that overlaps the window.
MonthStarts ==
  SelectSeq([k \in 1 .. (WindowDays \div 28) + 2 |-> AddMonths(MonthStart(WindowStart), k - 1)], LAMBDA ts : ts < WindowEnd)

(* ------------------------------ the almanac ---------------------------- *)

SsaCohort(birthDay) == IF birthDay <= 10 THEN 0 ELSE IF birthDay <= 20 THEN 1 ELSE 2

\* nthWeekdayOfMonth, as the set of that day or nothing.
NthWeekdayOfMonth(y, m, weekday, n) ==
  LET in(dom) == IF dom > DaysInMonth(y, m) THEN {} ELSE {MakeTime(y, m, dom)}
  IN in(1 + ((weekday - Weekday(MakeTime(y, m, 1))) % 7) + 7 * (n - 1))
LastWeekdayOfMonth(y, m, weekday) ==
  LET upto(last) == last - Day * ((Weekday(last) - weekday) % 7)
  IN upto(MakeTime(y, m, DaysInMonth(y, m)))

\* A holiday with a fixed date that falls on a Saturday is observed on Friday,
\* one on a Sunday on Monday.
Observed(ts) == CASE Weekday(ts) = 5 -> ts - Day [] Weekday(ts) = 6 -> ts + Day [] OTHER -> ts
ObservedFixedHoliday(y, m, dom) == Observed(MakeTime(y, m, dom))
FederalHolidays(y) ==
  {ObservedFixedHoliday(y, x[1], x[2]) : x \in {<<1, 1>>, <<6, 19>>, <<7, 4>>, <<11, 11>>, <<12, 25>>}}
  \cup {LastWeekdayOfMonth(y, 5, 0)}
  \cup UNION {NthWeekdayOfMonth(y, x[1], x[2], x[3]) :
                x \in {<<1, 0, 3>>, <<2, 0, 3>>, <<9, 0, 1>>, <<10, 0, 2>>, <<11, 3, 4>>}}

\* ssaCyclePaymentDate: the second, third or fourth Wednesday by the cohort of
\* the birth day, back over weekends and holidays.
BankDay(ts) == ~IsWeekend(ts) /\ ts \notin FederalHolidays(YearOf(ts))
BackToBankDay(from) == from - Day * Least({k \in 0 .. 7 : BankDay(from - Day * k)})
SsaCyclePaymentDate(y, m, cohort) ==
  LET wednesday == NthWeekdayOfMonth(y, m, 2, cohort + 2)
  IN BackToBankDay(IF wednesday = {} THEN LastWeekdayOfMonth(y, m, 2) ELSE The(wednesday))
SsaPayDates(cohort) ==
  LET in(c) == SsaCyclePaymentDate(c.year, c.month, cohort)
  IN [i \in DOMAIN MonthStarts |-> in(ToCalendarDate(MonthStarts[i]))]

\* The next given weekday on or after an instant, at midnight.
NextWeekdayOnOrAfter(ts, weekday) ==
  LET midnight == Day * DayOf(ts) IN midnight + Day * ((weekday - Weekday(midnight)) % 7)
=============================================================================
