------------------------------- MODULE Income -------------------------------
(***************************************************************************)
(* Money that comes in by itself: paychecks over the jobs of a working     *)
(* life (activity/recurring, income/salary), government benefits           *)
(* (channels/government), the revenue of the self-employed                 *)
(* (income/revenue), and rent, which runs on the same machinery of tenures *)
(* (recurring/lease, income/rent).                                         *)
(*                                                                         *)
(* Accounts of customers are posting indices, other parties are numbers    *)
(* past them.  Amounts are in cents, rates in percent.  tls are the        *)
(* timelines of the world, d the policy of the draws.                      *)
(***************************************************************************)
EXTENDS People

CONSTANTS
  Owned,               \* the accounts of each person, the primary one first
  BusinessOf, BrokerageOf,   \* each person's business and brokerage account, a set of at most one
  Employers, PayrollDraws,   \* the pool, and the draws of each employer's payroll
  Landlords, LandlordType,
  Clients, Platforms, Processors, OwnerBusinesses, Brokerages, Depositories,
  Ssa, DisabilityOffice,
  WageScale(_), PriceScale(_),   \* the indices of a year
  MaxPayments          \* bound on the payments of one flow in a month

People == DOMAIN Owned
PersonOrder == [p \in 1 .. Len(Owned) |-> p]
HasAccount(p) == Owned[p] # <<>>
Primary(p) == Owned[p][1]

Row(src, dst, amount, ts, chan) == [src |-> src, dst |-> dst, amount |-> amount, ts |-> ts, chan |-> chan]

\* auditKey: rows of one channel only tie on its first four fields, the funds key.
RowBefore(a, b) ==
  \/ a.ts < b.ts
  \/ a.ts = b.ts /\ a.src < b.src
  \/ a.ts = b.ts /\ a.src = b.src /\ a.dst < b.dst
  \/ a.ts = b.ts /\ a.src = b.src /\ a.dst = b.dst /\ a.amount < b.amount
SortTransfers(rows) == SortSeq(rows, RowBefore)

(* ------------------------------- payroll ------------------------------- *)

\* samplePayrollProfile.  x holds the draws of the employer.
Profile(x) ==
  LET weekday == IF x.cadence \in {"weekly", "biweekly"} /\ x.offDay THEN 3 ELSE 4
      anchor == NextWeekdayOnOrAfter(MakeTime(2025, 1, 1), weekday)
  IN [cadence |-> x.cadence, weekday |-> weekday, lag |-> x.lag,
      anchor |-> IF x.cadence = "biweekly" /\ x.otherWeek THEN anchor + 7 * Day ELSE anchor,
      semimonthly |-> IF x.early THEN <<1, 15>> ELSE <<15, 31>>, monthlyDay |-> x.monthlyDay]
Payrolls == [e \in DOMAIN PayrollDraws |-> Profile(PayrollDraws[e])]

RollWeekend(ts) == CASE Weekday(ts) = 5 -> ts - Day [] Weekday(ts) = 6 -> ts - 2 * Day [] OTHER -> ts
FinalizePayDate(ts, profile) == RollWeekend(RollWeekend(ts) + profile.lag * Day)

Lattice(from, step, end) == [k \in 1 .. (IF from >= end THEN 0 ELSE 1 + (end - 1 - from) \div step) |-> from + (k - 1) * step]
MonthDate(month, dom) ==
  LET c == ToCalendarDate(month) IN MakeTime(c.year, c.month, Lesser(dom, DaysInMonth(c.year, c.month)))
MonthsFrom(start, end) == [k \in 1 .. 2 + (end - start) \div (28 * Day) |-> AddMonths(MonthStart(start), k - 1)]

\* (mutant: the fortnights are counted from the first pay day of the window)
ScheduledUnaligned(profile, start, end) ==
  Lattice(NextWeekdayOnOrAfter(start, profile.weekday), (IF profile.cadence = "weekly" THEN 7 ELSE 14) * Day, end)

\* The dates before they are rolled.  The biweekly lattice keeps the parity of
\* its anchor in every era, before the anchor too.
Scheduled(profile, start, end) ==
  LET first == NextWeekdayOnOrAfter(start, profile.weekday)
      gap == (first - NextWeekdayOnOrAfter(profile.anchor, profile.weekday)) \div Day
      days == IF profile.cadence = "semimonthly" THEN profile.semimonthly ELSE <<profile.monthlyDay>>
  IN CASE profile.cadence = "weekly" -> Lattice(first, 7 * Day, end)
       [] profile.cadence = "biweekly" -> Lattice(IF gap % 14 = 0 THEN first ELSE first + 7 * Day, 14 * Day, end)
       [] OTHER -> Concat(LAMBDA month : [k \in DOMAIN days |-> MonthDate(month, days[k])], MonthsFrom(start, end))

\* paydatesForProfile
Paydates(profile, start, end) ==
  LET all == Scheduled(profile, start, end)
  IN IF end <= start THEN <<>>
     ELSE SelectSeq([k \in DOMAIN all |-> FinalizePayDate(all[k], profile)], LAMBDA ts : start <= ts /\ ts < end)

PayPeriodsInYear(profile, y) ==
  CASE profile.cadence = "semimonthly" -> 24 [] profile.cadence = "monthly" -> 12
    [] OTHER -> Greater(1, Len(Paydates(profile, MakeTime(y, 1, 1), MakeTime(y + 1, 1, 1))))
Periods == [e \in DOMAIN Payrolls |->
              [y \in YearOf(WindowStart) .. YearOf(WindowEnd) |-> PayPeriodsInYear(Payrolls[e], y)]]

(* ------------------------------- tenures ------------------------------- *)

JobTenure == <<548, 1461>>       \* days: 1.5 to 4 years
LeaseTenure == <<1096, 2922>>    \* 3 to 8 years
SampleTenureDays(d, k, range) == UniformInt(d, k, range[1], range[2] + 1)

\* sampleBackdatedInterval: the anchor falls somewhere within the tenure.
BackdatedInterval(d, k, anchor, range) ==
  LET tenure == SampleTenureDays(d, k, range)
      start == anchor - Day * UniformInt(d, k + 1, 0, tenure)
  IN [start |-> start, end |-> start + Day * tenure]
ForwardInterval(d, k, start, range) == [start |-> start, end |-> start + Day * SampleTenureDays(d, k, range)]

\* pickSizedDifferent
PickDifferent(d, k, pool, current) ==
  IF Len(pool) = 1 THEN pool[1] ELSE PickOne(d, k, SelectSeq(pool, LAMBDA x : x # current))

AnniversariesPassed(start, now) ==
  LET s == ToCalendarDate(start)
      n == ToCalendarDate(now)
  IN Greater(0, n.year - s.year - IF n.month < s.month \/ (n.month = s.month /\ n.day < s.day) THEN 1 ELSE 0)

\* compoundGrowth: one seeded raise for every full year since start.
CompoundGrowth(d, p, amount, start, now, raise) ==
  Fold(LAMBDA x, i : (x * (100 + UniformInt(d, p + i, raise[1], raise[2]))) \div 100, amount,
       [i \in 1 .. AnniversariesPassed(start, now) |-> i])

(* ------------------------------ employment ----------------------------- *)

SalaryRaise == <<-2, 6>>
SwitchBump == <<-5, 20>>

\* EmploymentInitializer
FirstJob(d, p, anchor) ==
  BackdatedInterval(d, p, anchor, JobTenure)
    @@ [employer |-> PickOne(d, p, Employers), annual |-> 12 * UniformInt(d, p, 200000, 600001)]

\* EmploymentAdvancer: the salary so far, with a bump.
NextJob(d, p, job) ==
  ForwardInterval(d, p + 1, job.end, JobTenure)
    @@ [employer |-> PickDifferent(d, p, Employers, job.employer),
        annual |-> (CompoundGrowth(d, p, job.annual, job.start, job.end, SalaryRaise)
                      * (100 + UniformInt(d, p, SwitchBump[1], SwitchBump[2]))) \div 100]

\* The interval in which payroll is active.
PayrollActive(tl) ==
  [start |-> Greater(WindowStart, PayrollStart(tl)), end |-> Lesser(WindowEnd, Lesser(tl.retirement, tl.death))]

\* The jobs of pay(): one after the other until one outlasts the interval.
JobsOf(d, p, tl) ==
  LET active == PayrollActive(tl)
      job[i \in 1 .. 1 + (WindowDays \div JobTenure[1]) + 1] ==
        IF i = 1 THEN FirstJob(d, p, active.start) ELSE NextJob(d, p, job[i - 1])
      last == Least({i \in DOMAIN job : job[i].end >= active.end})
  IN IF active.end <= active.start THEN <<>> ELSE SubSeq(job, 1, last)

\* SalaryCalculator
Paycheck(d, p, job, payDate) ==
  (Greater(5000, CompoundGrowth(d, p, job.annual, job.start, payDate, SalaryRaise)
                   \div Periods[job.employer][YearOf(payDate)]) * WageScale(YearOf(payDate))) \div 100

\* jittered: the lag, then up to a number of days, then an hour and a minute.
Jittered(d, k, base, lag, offsetMax, from, to) ==
  base + lag * Day + (IF offsetMax > 0 THEN UniformInt(d, k, 0, offsetMax) ELSE 0) * Day
       + 60 * UniformInt(d, k, from, to) + UniformInt(d, k + 1, 0, 60)

\* payJob
PayJob(d, p, tl, job) ==
  LET active == PayrollActive(tl)
      payroll == Payrolls[job.employer]
      dates == Paydates(payroll, Greater(active.start, job.start), Lesser(active.end, job.end))
      row(k) == Row(job.employer, Primary(p), Paycheck(d, p, job, dates[k]),
                    Jittered(d, p + k, dates[k], payroll.lag, 0, 6, 12), "salary")
  IN SelectSeq([k \in DOMAIN dates |-> row(k)], LAMBDA r : InWindow(r.ts))

Selected(d, p) == HasAccount(p) /\ Coin(d, p)
Pay(d, p, tl) == Concat(LAMBDA job : PayJob(d, p, tl, job), JobsOf(d, p, tl))

\* generateSalaryTxns
SalaryRows(d, tls) ==
  IF Employers = <<>> THEN <<>>
  ELSE SortTransfers(Concat(LAMBDA p : IF Selected(d, p) THEN Pay(d, p, tls[p]) ELSE <<>>, PersonOrder))

(* ------------------------------- benefits ------------------------------ *)

DisabilityEligible(persona) == persona \notin {"retiree", "student"}

\* select: retirement by the timeline, from the claiming date on; disability by
\* the seed persona, from the window start on.
BenefitOnset(program, tl) == IF program = "retirement" THEN Greater(WindowStart, tl.retirement) ELSE WindowStart
Recipients(d, tls, program) ==
  SelectSeq(PersonOrder,
            LAMBDA p : /\ HasAccount(p) /\ Coin(d, p)
                       /\ IF program = "retirement" THEN tls[p].retirement < WindowEnd
                          ELSE DisabilityEligible(tls[p].seed))
BenefitAmount(d, p, program) ==
  IF program = "retirement" THEN UniformInt(d, p, 90000, 400001) ELSE UniformInt(d, p, 50000, 300001)

\* MonthlyDepositEmitter::emit
BenefitRows(d, tls, program) ==
  LET source == IF program = "retirement" THEN Ssa ELSE DisabilityOffice
      chan == IF program = "retirement" THEN "socialSecurity" ELSE "disability"
      deposit(p, m) ==
        LET ts == SsaPayDates(SsaCohort(tls[p].dob.day))[m] + 60 * UniformInt(d, p + m, 6, 10) + UniformInt(d, m, 0, 60)
        IN IF ts < BenefitOnset(program, tls[p]) \/ ~InWindow(ts) \/ ts >= tls[p].death THEN <<>>
           ELSE <<Row(source, Primary(p), (BenefitAmount(d, p, program) * WageScale(YearOf(ts))) \div 100, ts, chan)>>
  IN SortTransfers(Concat(LAMBDA m : Concat(LAMBDA p : deposit(p, m), Recipients(d, tls, program)), Indices(MonthStarts)))

(* ------------------------------- revenue ------------------------------- *)

\* A flow: the counterparties it picks, the payments of a month, floor and median
\* in dollars, the hours and first day of its business-day window, its channel and
\* the lattice its amounts are snapped to.
Flow(counts, payments, median) == [counts |-> counts, payments |-> payments, median |-> median]
NoFlow == [counts |-> <<0, 0>>, payments |-> <<0, 0>>, median |-> 0]
RevenueProfile(persona) ==
  LET none == [client |-> NoFlow, platform |-> NoFlow, settlement |-> NoFlow, ownerDraw |-> NoFlow,
               investment |-> NoFlow, cashTakings |-> NoFlow]
  IN CASE persona = "freelancer" ->
            [none EXCEPT !.client = Flow(<<2, 5>>, <<1, 4>>, 1400), !.platform = Flow(<<1, 2>>, <<1, 4>>, 425),
                         !.ownerDraw = Flow(<<1, 1>>, <<1, 2>>, 1800), !.cashTakings = Flow(<<1, 1>>, <<1, 4>>, 450)]
       [] persona = "smallBusiness" ->
            [client |-> Flow(<<2, 6>>, <<0, 3>>, 2600), platform |-> Flow(<<1, 2>>, <<0, 3>>, 950),
             settlement |-> Flow(<<1, 1>>, <<4, 12>>, 680), ownerDraw |-> Flow(<<1, 1>>, <<1, 2>>, 3400),
             investment |-> NoFlow, cashTakings |-> Flow(<<1, 1>>, <<4, 10>>, 2800)]
       [] persona = "highNetWorth" ->
            [none EXCEPT !.ownerDraw = Flow(<<1, 1>>, <<1, 2>>, 6000), !.investment = Flow(<<1, 1>>, <<1, 3>>, 12000)]
       [] persona = "retiree" ->
            [none EXCEPT !.ownerDraw = Flow(<<1, 1>>, <<1, 1>>, 1100), !.investment = Flow(<<1, 1>>, <<1, 2>>, 400)]
       [] persona = "salaried" -> [none EXCEPT !.cashTakings = Flow(<<1, 1>>, <<2, 4>>, 200)]
       [] persona = "student" -> [none EXCEPT !.cashTakings = Flow(<<1, 1>>, <<1, 3>>, 140)]

Rule(floor, hours, startDay, chan, roundTo) ==
  [floor |-> floor, hours |-> hours, startDay |-> startDay, chan |-> chan, roundTo |-> roundTo]
RuleOf(flow) ==
  CASE flow = "client" -> Rule(75, <<8, 17>>, 0, "clientAchCredit", 0)
    [] flow = "platform" -> Rule(25, <<6, 11>>, 0, "platformPayout", 0)
    [] flow = "settlement" -> Rule(20, <<5, 9>>, 0, "cardSettlement", 0)
    [] flow = "ownerDraw" -> Rule(100, <<10, 17>>, 8, "ownerDraw", 0)
    [] flow = "investment" -> Rule(250, <<7, 15>>, 0, "investmentInflow", 0)
    [] flow = "cashTakings" -> Rule(100, <<9, 17>>, 0, "cashDeposit", 1000)
Flows == <<"client", "platform", "settlement", "ownerDraw", "investment", "cashTakings">>

\* choiceK and the sources of a flow, drawn once a person; a person's own
\* business and brokerage come before the pools.
SourcesOf(d, p, flow, f) ==
  LET pool == CASE flow = "client" -> Clients [] flow = "platform" -> Platforms [] flow = "settlement" -> Processors
                [] flow = "ownerDraw" -> OwnerBusinesses [] flow = "investment" -> Brokerages
                [] flow = "cashTakings" -> Depositories
      own == CASE flow = "ownerDraw" -> BusinessOf[p] [] flow = "investment" -> BrokerageOf[p] [] OTHER -> {}
      k == UniformInt(d, p, Greater(1, f.counts[1]), Greater(1, f.counts[2]) + 1)
  IN IF own # {} THEN <<The(own)>>
     ELSE IF f = NoFlow \/ pool = <<>> \/ ~Coin(d, p) THEN <<>>
     ELSE PickK(d, pool, k)

\* applyFallback: a person without any source gets the one of the persona.
FallbackSources(d, p, persona, flow) ==
  CASE persona = "freelancer" /\ flow = "client" -> PickK(d, Clients, UniformInt(d, p, 1, 3))
    [] persona = "smallBusiness" /\ flow = "ownerDraw" /\ BusinessOf[p] = {} -> PickK(d, OwnerBusinesses, 1)
    [] persona = "highNetWorth" /\ flow = "investment" -> PickK(d, Brokerages, 1)
    [] OTHER -> <<>>
\* assign
RevenuePlan(d, p, persona) ==
  LET drawn == [i \in DOMAIN Flows |-> SourcesOf(d, p, Flows[i], RevenueProfile(persona)[Flows[i]])]
  IN IF \E i \in DOMAIN Flows : drawn[i] # <<>> THEN drawn
     ELSE [i \in DOMAIN Flows |-> FallbackSources(d, p, persona, Flows[i])]
RevenueAccount(p, persona) ==
  IF persona \in {"freelancer", "smallBusiness"} /\ BusinessOf[p] # {} THEN The(BusinessOf[p]) ELSE Primary(p)
FlowTarget(p, persona, flow) == IF flow \in {"ownerDraw", "investment"} THEN Primary(p) ELSE RevenueAccount(p, persona)

\* businessDayTs: attempts until one is no weekend (the policy gives at most two
\* outcomes), then the next business day at the first hour.
BusinessDayTs(d, k, month, hours, startDay, endDay) ==
  LET attempt(i) == month + Day * UniformInt(d, k + i, startDay, endDay)
                      + 60 * UniformInt(d, k + i, hours[1], hours[2] + 1) + UniformInt(d, k + i + 1, 0, 60)
      hits == SelectSeq(<<attempt(0), attempt(1)>>, LAMBDA ts : ~IsWeekend(ts))
      first == month + Day * UniformInt(d, k, startDay, endDay)
      rolled == CASE Weekday(first) = 5 -> first + 2 * Day [] Weekday(first) = 6 -> first + Day [] OTHER -> first
  IN IF hits # <<>> THEN hits[1] ELSE rolled + 60 * hours[1] + UniformInt(d, k, 0, 60)

\* append: the wage index, then the lattice of the bills.
RevenueAmount(d, k, median, rule, y) ==
  LET scaled == (UniformInt(d, k, 100 * rule.floor, 300 * median + 1) * WageScale(y)) \div 100
      bills == ((scaled + rule.roundTo \div 2) \div rule.roundTo) * rule.roundTo
  IN IF rule.roundTo = 0 THEN scaled ELSE Greater(rule.floor * WageScale(y), bills)

FlowRows(d, p, persona, month, flow, sources) ==
  LET f == RevenueProfile(persona)[flow]
      rule == RuleOf(flow)
      n == Lesser(MaxPayments, UniformInt(d, p, f.payments[1], f.payments[2] + 1))
      row(k) == Row(PickOne(d, k, sources), FlowTarget(p, persona, flow),
                    RevenueAmount(d, k, f.median, rule, YearOf(month)),
                    BusinessDayTs(d, p + k, month, rule.hours, rule.startDay, 28), rule.chan)
  IN IF sources = <<>> THEN <<>>
     ELSE SelectSeq([k \in 1 .. n |-> row(k)], LAMBDA r : InWindow(r.ts))

QuietMonth(d, k) == Coin(d, k) /\ Coin(d, k + 1)

\* runPerson and runMonth: a month counts while the person is alive and still the
\* persona the plan was made for.
RevenueOf(d, p, tl) ==
  LET plan == RevenuePlan(d, p, tl.seed)
      month(m) == IF ~AliveAt(tl, MonthStarts[m]) \/ PersonaAt(tl, MonthStarts[m]) # tl.seed \/ QuietMonth(d, m) THEN <<>>
                  ELSE Concat(LAMBDA i : FlowRows(d, p, tl.seed, MonthStarts[m], Flows[i], plan[i]), Indices(Flows))
  IN IF ~HasAccount(p) THEN <<>> ELSE Concat(month, Indices(MonthStarts))
RevenueRows(d, tls) == SortTransfers(Concat(LAMBDA p : RevenueOf(d, p, tls[p]), PersonOrder))

(* --------------------------------- rent -------------------------------- *)

RentRaise == <<-1, 5>>
FirstLease(d, p) ==
  BackdatedInterval(d, p, WindowStart, LeaseTenure)
    @@ [landlord |-> PickOne(d, p, Landlords), base |-> UniformInt(d, p, 60000, 250001)]
NextLease(d, p, lease) ==
  ForwardInterval(d, p + 1, lease.end, LeaseTenure)
    @@ [landlord |-> PickDifferent(d, p, Landlords, lease.landlord), base |-> UniformInt(d, p + 1, 60000, 250001)]

\* The lease in force at a month start: leases follow one another until one lasts
\* beyond it.
LeaseAt(d, p, month) ==
  LET lease[i \in 1 .. 2 + WindowDays \div LeaseTenure[1]] ==
        IF i = 1 THEN FirstLease(d, p) ELSE NextLease(d, p, lease[i - 1])
  IN lease[Least({i \in DOMAIN lease : month < lease[i].end})]

\* RentRouter::pick
RentChannel(d, k, type) ==
  CASE type = "individual" -> PickOne(d, k, <<"rentP2p", "rentCheck", "rentAch", "rent">>)
    [] type = "llcSmall" -> PickOne(d, k, <<"rentAch", "rentCheck", "rentP2p">>)
    [] type = "corporate" -> PickOne(d, k, <<"rentPortal", "rentAch">>)
    [] OTHER -> "rent"
CalculateRent(d, p, lease, month) ==
  (Greater(100, CompoundGrowth(d, p, lease.base, lease.start, month, RentRaise)) * PriceScale(YearOf(month))) \div 100

\* generateRentTxns: a tenant who is dead at the month start pays no more.
RentOf(d, p, tl, month) ==
  LET lease == LeaseAt(d, p, month)
      r == Row(Primary(p), lease.landlord, CalculateRent(d, p, lease, month),
               Jittered(d, p, month, 0, 6, 7, 22), RentChannel(d, p, LandlordType[lease.landlord]))
  IN IF AliveAt(tl, month) /\ InWindow(r.ts) THEN <<r>> ELSE <<>>
RentRows(d, tls) ==
  IF Landlords = <<>> THEN <<>>
  ELSE SortTransfers(Concat(LAMBDA m : Concat(LAMBDA p : IF Selected(d, p) THEN RentOf(d, p, tls[p], m) ELSE <<>>,
                                              PersonOrder), MonthStarts))
=============================================================================
