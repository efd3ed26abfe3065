---------------------------- MODULE SpendingDay -----------------------------
(***************************************************************************)
(* The day loop of the spending simulator (DayDriver::runDay inside        *)
(* Session::advance), with the card lifecycle it drives: base replay up to *)
(* the start of the day, the payday clock, emission against the frozen     *)
(* ledger, settlement of the day's batch, the postings that have matured,  *)
(* the statement closes of the day and the postings those made.  A window  *)
(* of the session is a month: at its end the rows are taken and the        *)
(* watermark finalizedThrough_ moves.                                      *)
(*                                                                         *)
(* One spender with one card and one funding account.  The spender's       *)
(* purchases, the disputes and the payments are the random inputs.         *)
(***************************************************************************)
EXTENDS Integers, Sequences, FiniteSets, SequencesExt, FiniteSetsExt

(***************************************************************************)
(* The credit-card lifecycle: CardCycleDriver keeps, for each card, the    *)
(* purchases it was handed, a ladder of statement closes and a Session.    *)
(* A close bills the purchases of its cycle, samples their disputes,       *)
(* charges interest, drafts the payment and the late fee.  What it books   *)
(* waits in pendingLedgerPostings_ until the ledger decides on it.         *)
(*                                                                         *)
(* A card with the ledger it posts to is a record, every operation an      *)
(* operator on it; the random draws (disputes, payment amount and time)    *)
(* are parameters.  An instant is a day and one of the Ticks times of day  *)
(* that the lifecycle tells apart.  Cards interact through the ledger      *)
(* only, so one card is modelled; day 0 is a Monday.                       *)
(***************************************************************************)

CONSTANTS Days,          \* days of the window
          MonthStarts,   \* the first days of the months, day 0 among them, and of
                         \* the month after the window
          CycleDay,      \* Terms::cycleDay
          Grace,         \* BillingTerms::graceDays
          MinPayment,    \* BillingTerms::minPaymentDollars
          MinPct,        \* BillingTerms::minPaymentPct, in percent
          LateFee,       \* BillingTerms::lateFee
          Interest,      \* the interest of a cycle that carried debt
          EarlyDays,     \* a manual payment is 0 .. EarlyDays early ...
          LateDays,      \* ... or one of LateDays late
          Delays,        \* days from a purchase to its refund or chargeback
          Settlement,    \* kSettlementDays: death to account closure
          SettleTail,    \* kCardSettleTailDays
          Compaction,    \* kPurchaseCompactionThreshold
          Limit,         \* the card's credit limit
          LagDays        \* kCardFinalizationLagDays

Ticks == 7
Instant(day, tick) == day * Ticks + tick
DayOf(ts) == ts \div Ticks
Morning == 1      \* 10:00, late fees
Noon == 2         \* autopay
Cutoff == 3       \* 17:00, the due time
Evening == 4      \* a manual payment after the cutoff
CloseTime == 5    \* 23:30
LateNight == 6    \* 23:45, interest; and a purchase after the close
WindowEnd == Instant(Days, 0)

\* The places of a sequence by the times given for them, equal times by place.
Earlier(times) ==
  {p \in (DOMAIN times) \X (DOMAIN times) :
     times[p[1]] < times[p[2]] \/ (times[p[1]] = times[p[2]] /\ p[1] < p[2])}

\* The items of s at the places S, in the order before.
Ordered(s, S, before) ==
  [j \in 1 .. Cardinality(S) |->
     s[CHOOSE n \in S : Cardinality({m \in S : <<m, n>> \in before}) = j - 1]]

ByTime(rows) == Ordered(rows, DOMAIN rows, Earlier([n \in DOMAIN rows |-> rows[n].ts]))
Kept(s, S) == Ordered(s, S, Earlier([n \in DOMAIN s |-> n]))

SumOf(numbers) ==
  LET sum[n \in 0 .. Len(numbers)] == IF n = 0 THEN 0 ELSE sum[n - 1] + numbers[n]
  IN  sum[Len(numbers)]
Total(rows) == SumOf([n \in DOMAIN rows |-> rows[n].amt])

(* ------------------------------ the calendar --------------------------- *)

\* statementCloseDates, then ensureSession's truncation: the closes at the
\* cycle day of each month (the last day of a shorter one) that are inside the
\* window and before cardServiceEnd.
ServiceEnd(death) == death + Settlement - SettleTail

NextMonth(m) == Min({n \in MonthStarts : n > m})
ClampDay(m) == Min({CycleDay, NextMonth(m) - m})

CloseDay(m) == m + ClampDay(m) - 1
Months == MonthStarts \ {Max(MonthStarts)}

CloseDates(death) ==
  {Instant(CloseDay(m), CloseTime) :
     m \in {n \in Months : CloseDay(n) < Days /\ CloseDay(n) < ServiceEnd(death)}}

\* The dates in order.
Closes(death) ==
  LET closes == CloseDates(death)
  IN [j \in 1 .. Cardinality(closes) |->
        CHOOSE c \in closes : Cardinality({e \in closes : e < c}) = j - 1]

\* resolveDueDate: a Saturday or a Sunday moves to the Monday.
ResolveDueDate(due) ==
  LET wd == DayOf(due) % 7
  IN due + Ticks * (CASE wd = 5 -> 2 [] wd = 6 -> 1 [] OTHER -> 0)

DueOf(close) == Instant(DayOf(close) + Grace, Cutoff)
IsOnTime(when, due) == when <= ResolveDueDate(due)

\* samplePaymentTime.  A manual payment falls on a day of EarlyDays .. LateDays
\* around the due day, before or after its cutoff.
PaymentTimes(due, autopay) ==
  LET cutoff == ResolveDueDate(due)
      dueDay == DayOf(cutoff)
      late  == {LET s == Instant(dueDay + d, t) IN IF s <= cutoff THEN s + Ticks ELSE s :
                  d \in LateDays, t \in {Morning, Evening}}
      early == {LET s == Instant(dueDay - d, t) IN IF s > cutoff THEN s - Ticks ELSE s :
                  d \in 0 .. EarlyDays, t \in {Morning, Evening}}
  IN IF autopay THEN {Instant(dueDay, Noon)} ELSE late \cup early

MinimumDue(statement) == Max({MinPayment, (MinPct * statement) \div 100})

\* draftPayment and samplePaymentAmount: what the holder intends to pay.  A
\* partial payment lies between the minimum and the statement.
PaymentAmounts(autopay, statement) ==
  LET min == MinimumDue(statement)
  IN CASE autopay = "full"    -> {statement}
       [] autopay = "minimum" -> {min}
       [] OTHER -> {0, min, Max({min, (min + statement) \div 2}), statement}

(* ------------------------------ the ledger ----------------------------- *)

\* The postings of one card: ledger_->transferAt.  cash is the funding
\* account's, owed what the card has drawn of its limit.  The payer of a credit is the
\* merchant, who is outside this model and taken to have the money.
Accepts(c, row) ==
  CASE row.kind = "payment"                -> c.cash >= row.amt
    [] row.kind \in {"interest", "fee", "purchase"} -> c.owed + row.amt <= Limit
    [] row.kind = "credit"                 -> TRUE

Delta(row) == IF row.kind \in {"payment", "credit"} THEN row.amt ELSE -row.amt
Net(rows) == SumOf([n \in DOMAIN rows |-> Delta(rows[n])])

PostToLedger(c, row) ==
  [c EXCEPT !.owed = @ - Delta(row),
            !.cash = IF row.kind = "payment" THEN @ - row.amt ELSE @]

\* An accepted lifecycle row: out_ and deferredBalanceEvents.
Accept(c, row) ==
  [PostToLedger(c, row) EXCEPT !.emitted = Append(@, row), !.deferred = Append(@, row)]

(* ------------------------------ the session ---------------------------- *)

Row(kind, amt, ts, cycle) == [kind |-> kind, amt |-> amt, ts |-> ts, cycle |-> cycle]

Book(c, row, feeOnReject) ==
  [c EXCEPT !.pending = Append(@, [row |-> row, feeOnReject |-> feeOnReject])]

\* postLateFee: 10:00 of the day after the resolved due date.
FeeTime(close) == Instant(DayOf(ResolveDueDate(DueOf(close))) + 1, Morning)

PostLateFee(c, close) ==
  IF FeeTime(close) >= WindowEnd THEN c
  ELSE Book(c, Row("fee", LateFee, FeeTime(close), close), FALSE)

\* DisputeSampler::buildCredit: nine hours or more after the purchase's time
\* of day, Delays later; nothing at or past the window's end.
CreditTime(purchase, delay) == purchase.ts + Ticks * delay + Noon

\* One purchase of collectPurchases, its dispute drawn as delay (0: none).  A
\* credit inside the cycle is decided now, a later one when it matures.
CollectOne(c, purchase, delay, close) ==
  LET credit == Row("credit", purchase.amt, CreditTime(purchase, delay), close)
  IN IF delay = 0 \/ credit.ts >= WindowEnd THEN c
     ELSE IF credit.ts < close THEN Accept(c, credit)
     ELSE Book(c, credit, FALSE)

\* How many purchases the close takes: the cursor moves over the prefix that
\* is dated before it.
BilledCount(c, close) ==
  LET late == {i \in c.cursor + 1 .. Len(c.indices) : c.indices[i].ts >= close}
  IN IF late = {} THEN Len(c.indices) - c.cursor ELSE Min(late) - 1 - c.cursor

Billed(c, close) == SubSeq(c.indices, c.cursor + 1, c.cursor + BilledCount(c, close))

\* The disputes drawn for a close, one delay or none per purchase it bills.
Disputes(c, close) == [1 .. BilledCount(c, close) -> Delays \cup {0}]

CollectPurchases(c, close, disputes) ==
  LET billed == Billed(c, close)
      collected[n \in 0 .. Len(billed)] ==
        IF n = 0 THEN c ELSE CollectOne(collected[n - 1], billed[n], disputes[n], close)
  IN [collected[Len(billed)] EXCEPT !.cursor = @ + Len(billed)]

InCycle(row, start, close) == row.ts >= start /\ row.ts < close

\* integrateBalance: the events are summed as they stand; the average debt is
\* positive iff the integral below is negative.
IntegrateBalance(opening, events, start, close) ==
  LET inside == Kept(events, {n \in DOMAIN events : InCycle(events[n], start, close)})
  IN [ending |-> opening + Net(inside),
      integral |-> opening * (close - start)
                     + SumOf([n \in DOMAIN inside |-> Delta(inside[n]) * (close - inside[n].ts)])]

\* Session::run up to the payment: the purchases and the deferred events of
\* the cycle are integrated and the interest is booked.
Statement(c, close, disputes) ==
  LET start == c.prior
      billed == Billed(c, close)
      collected == CollectPurchases(c, close, disputes)
      deferred == collected.deferred
      due == {n \in DOMAIN deferred : InCycle(deferred[n], start, close)}
      snapshot == IntegrateBalance(c.balance, billed \o Kept(deferred, due), start, close)
      drained == [collected EXCEPT !.deferred = Kept(deferred, (DOMAIN deferred) \ due),
                                   !.balance = snapshot.ending]
  IN IF c.inGrace \/ snapshot.integral >= 0 THEN drained
     ELSE Book(drained, Row("interest", Interest, close + LateNight - CloseTime, close), FALSE)

\* Session::run: the rest, from the statement s, with the payment drawn as
\* pay.  A statement of zero restores grace.  Only a payment that would have
\* been in time carries the late fee its rejection costs; any other is charged
\* the fee at once.  A late fee of zero is none.
Owed(s) == Max({0, -s.balance})
ChargesLate == LateFee > 0

Bill(s, close, pay) ==
  LET onTime == IsOnTime(pay.when, DueOf(close))
      paidOnTime == pay.amt >= MinimumDue(Owed(s)) /\ onTime
      paid == IF pay.amt <= 0 \/ pay.when >= WindowEnd THEN s
              ELSE Book(s, Row("payment", pay.amt, pay.when, close), paidOnTime /\ ChargesLate)
      charged == IF paidOnTime \/ ~ChargesLate THEN paid ELSE PostLateFee(paid, close)
  IN IF Owed(s) = 0 THEN [s EXCEPT !.inGrace = TRUE]
     ELSE [charged EXCEPT !.inGrace = pay.amt >= Owed(s) /\ onTime]

\* The payments the holder may draw for a statement.
Payments(s, close) ==
  IF Owed(s) = 0 THEN {[amt |-> 0, when |-> 0]}
  ELSE [amt : PaymentAmounts(s.autopay, Owed(s)),
        when : PaymentTimes(DueOf(close), s.autopay # "manual")]

\* (mutant: the optimistic grace survives the rejection)
DecideKeepsGrace(c, p) ==
  LET noted == [c EXCEPT !.log = Append(@, [row |-> p.row, accepted |-> Accepts(c, p.row)])]
  IN IF Accepts(c, p.row) THEN Accept(noted, p.row)
     ELSE IF p.feeOnReject THEN PostLateFee(noted, p.row.cycle)
     ELSE noted

\* advanceLedgerTo: the matured postings, oldest first.  A rejected payment
\* ends the grace period and may book its late fee, which is due later.
Decide(c, p) ==
  LET noted == [c EXCEPT !.log = Append(@, [row |-> p.row, accepted |-> Accepts(c, p.row)])]
      rejected == [noted EXCEPT !.inGrace = FALSE]
  IN IF Accepts(c, p.row) THEN Accept(noted, p.row)
     ELSE IF p.row.kind # "payment" THEN noted
     ELSE IF p.feeOnReject THEN PostLateFee(rejected, p.row.cycle)
     ELSE rejected

Due(c, bound) == {n \in DOMAIN c.pending : c.pending[n].row.ts < bound}
Matured(c, bound) ==
  Ordered(c.pending, Due(c, bound), Earlier([n \in DOMAIN c.pending |-> c.pending[n].row.ts]))

AdvanceOnce(c, bound) ==
  LET matured == Matured(c, bound)
      waiting == Kept(c.pending, (DOMAIN c.pending) \ Due(c, bound))
      decided[n \in 0 .. Len(matured)] ==
        IF n = 0 THEN [c EXCEPT !.pending = waiting] ELSE Decide(decided[n - 1], matured[n])
  IN decided[Len(matured)]

\* The loop: a second round takes the late fees the first one booked behind a
\* coarse bound, and a late fee books nothing.
AdvanceLedgerTo(c, bound) == AdvanceOnce(AdvanceOnce(c, bound), bound)

(* ------------------------------ the driver ----------------------------- *)

\* ingestPurchases: the day's rows are appended, the new part in time order.
IngestPurchases(c, rows) ==
  [c EXCEPT !.indices = @ \o ByTime(rows)]

\* (mutant: the buffer is compacted but the cursor is not rebased)
CompactKeepsCursor(c) ==
  [c EXCEPT !.indices = SubSeq(@, c.cursor + 1, Len(@)),
            !.cursor = Min({@, Len(c.indices) - @})]

\* compactConsumedPurchases: the consumed prefix is dropped and the cursor
\* rebased, once the prefix is large or half of the buffer.
Compact(c) ==
  IF c.cursor = 0 \/ (c.cursor < Compaction /\ c.cursor < (Len(c.indices) + 1) \div 2) THEN c
  ELSE [c EXCEPT !.indices = SubSeq(@, c.cursor + 1, Len(@)), !.cursor = 0]

\* The close that the end of this day must run: the session is made by the
\* first purchase the driver is handed.
NextClose(c) == c.closes[c.closed + 1]
MustClose(c, bound) ==
  c.ready /\ c.closed < Len(c.closes) /\ NextClose(c) < Min({bound, WindowEnd})

\* One turn of closeCyclesUpTo, s being the statement of the close.
CloseCycle(s, pay) ==
  LET close == NextClose(s)
  IN Compact([Bill(s, close, pay) EXCEPT !.prior = close, !.closed = @ + 1])

\* ensureSession; cash and owed are the ledger's, log (what the ledger decided)
\* is history for the properties.
NewCard(death, autopay, cash) ==
  [indices |-> <<>>, cursor |-> 0, closes |-> Closes(death), closed |-> 0, prior |-> 0,
   balance |-> 0, inGrace |-> TRUE, deferred |-> <<>>, pending |-> <<>>, ready |-> FALSE,
   emitted |-> <<>>, log |-> <<>>, autopay |-> autopay, cash |-> cash, owed |-> 0]

-----------------------------------------------------------------------------

CONSTANTS Deaths,        \* days the owner may die on
          Autopays,      \* subset of {"full", "minimum", "manual"}
          FirstPaydays,  \* the first payday in the window ...
          PayPeriod,     \* ... and the days between two
          Salary,
          Amounts,       \* a purchase's amount
          MaxPurchases   \* bound: purchases of a run

\* The calendar has a close of each month, and no two are further apart than
\* the session waits for them.
ASSUME CalendarAssumption ==
  /\ Days \in Nat \ {0} /\ CycleDay \in Nat \ {0} /\ LagDays \in Nat
  /\ 0 \in MonthStarts
  /\ \E last \in MonthStarts : last \in Nat /\ Days <= last /\ MonthStarts \subseteq 0 .. last
  /\ CloseDay(0) <= LagDays
  /\ \A m \in Months : NextMonth(m) \in Months => CloseDay(NextMonth(m)) <= CloseDay(m) + LagDays

\* A payment, its late fee and a dispute fall between the close and the closure
\* of the owner's accounts.
ASSUME TermsAssumption ==
  /\ {Grace, MinPayment, MinPct, LateFee, Interest, EarlyDays, Settlement, SettleTail,
      Compaction, Limit} \subseteq Nat
  /\ EarlyDays < Grace /\ Grace >= 2 /\ Grace + 3 <= SettleTail
  /\ LateDays \subseteq Nat /\ \A d \in LateDays : Grace + 2 + d <= SettleTail
  /\ Delays \subseteq Nat \ {0} /\ \A d \in Delays : d < Settlement

ASSUME SpenderAssumption ==
  /\ Deaths \subseteq Int /\ Salary \in Nat /\ Amounts \subseteq Nat /\ MaxPurchases \in Nat
  /\ PayPeriod \in Nat \ {0} /\ FirstPaydays \subseteq 0 .. PayPeriod - 1

VARIABLES day,        \* nextDayIndex_
          phase,      \* where runDay is: "spend", "close", "done"
          death, firstPay,
          card,       \* the card, its session and the ledger
          baseIdx,    \* state.baseIdx(): paydays replayed so far
          since,      \* daysSincePayday
          bought,     \* purchases so far, for the bound
          through,    \* finalizedThrough_, a day
          statements  \* history: what each close billed

vars == <<day, phase, death, firstPay, card, baseIdx, since, bought, through, statements>>

Tomorrow == Instant(day + 1, 0)
MonthEnds == MonthStarts \cup {Days}
Paydays == {firstPay + k * PayPeriod : k \in 0 .. Days} \cap 0 .. Days - 1

\* warmStartDaysSincePaydayFor: the clock as if paydays had come before.
\* inferCycleDays reads the gap of the first two paydays.
WarmStart(first) ==
  LET dEmit == (PayPeriod - (first % PayPeriod)) % PayPeriod
  IN IF dEmit = 0 THEN 0 ELSE dEmit - 1

Init ==
  /\ day = 0 /\ phase = "spend" /\ baseIdx = 0 /\ bought = 0 /\ through = 0
  /\ statements = <<>>
  /\ death \in Deaths /\ firstPay \in FirstPaydays
  /\ since = WarmStart(firstPay)
  /\ \E a \in Autopays : card = NewCard(death, a, 0)

\* advanceLedgerToDay: base rows strictly before the start of the day.
BaseBefore(d) == Cardinality({p \in Paydays : p < d})
ReplayBase(c) == [c EXCEPT !.cash = @ + Salary * (BaseBefore(day) - baseIdx)]

\* The purchases a spender tries on a day: SpenderEmissionLoop::run.  The dead
\* try none.
Tries ==
  LET one == [kind : {"purchase"}, amt : Amounts,
              ts : {Instant(day, Morning), Instant(day, LateNight)}, cycle : {0}]
  IN IF day >= death THEN {<<>>}
     ELSE {<<>>} \cup UNION {[1 .. n -> one] : n \in 1 .. Min({2, MaxPurchases - bought})}

\* tryEmit decides each row against the ledger as the day began;
\* appendAcceptedDayPostings then settles the batch row by row in time order
\* and keeps what the ledger takes.
Emit(c, tries) == Kept(tries, {n \in DOMAIN tries : Accepts(c, tries[n])})
SettleOne(acc, row) ==
  IF Accepts(acc.c, row) THEN [c |-> PostToLedger(acc.c, row), kept |-> Append(acc.kept, row)]
  ELSE acc
Settle(c, rows) ==
  LET sorted == ByTime(rows)
      settled[n \in 0 .. Len(sorted)] ==
        IF n = 0 THEN [c |-> c, kept |-> <<>>] ELSE SettleOne(settled[n - 1], sorted[n])
  IN settled[Len(sorted)]

\* runDay up to the close of the day.
Spend ==
  /\ phase = "spend" /\ day < Days
  /\ \E tries \in Tries :
       LET opened == ReplayBase(card)
           settled == Settle(opened, Emit(opened, tries))
           handed == IngestPurchases(settled.c, settled.kept)
       IN /\ card' = AdvanceLedgerTo([handed EXCEPT !.ready = @ \/ settled.kept # <<>>], Tomorrow)
          /\ bought' = bought + Len(settled.kept)
  /\ baseIdx' = BaseBefore(day)
  /\ since' = IF day \in Paydays THEN 0 ELSE since + 1
  /\ phase' = "close"
  /\ UNCHANGED <<day, death, firstPay, through, statements>>

\* tickDay: one turn of closeCyclesUpTo.
Close ==
  /\ phase = "close" /\ MustClose(card, Tomorrow)
  /\ LET close == NextClose(card)
     IN \E disputes \in Disputes(card, close) :
        \E s \in {Statement(card, close, disputes)} :
        \E pay \in Payments(s, close) :
          /\ card' = CloseCycle(s, pay)
          /\ statements' = Append(statements, [close |-> close, owed |-> Owed(s), pay |-> pay])
  /\ UNCHANGED <<day, phase, death, firstPay, baseIdx, since, bought, through>>

\* (mutant: the session finalizes all it has simulated)
FinalizedThroughNoLag(simulated) == simulated

\* Session::advance: rows can still arrive for the last LagDays.
FinalizedThrough(simulated) == Max({through, simulated - LagDays})

\* The second advanceLedgerTo, then the next day.  At the end of a window
\* bufferTransactions takes the emitted rows and drainFinalized moves the
\* watermark.
EndDay ==
  /\ phase = "close" /\ ~MustClose(card, Tomorrow)
  /\ LET posted == AdvanceLedgerTo(card, Tomorrow)
         ends == day + 1 \in MonthEnds
     IN /\ card' = IF ends THEN [posted EXCEPT !.emitted = <<>>] ELSE posted
        /\ through' = IF ends THEN FinalizedThrough(day + 1) ELSE through
  /\ day' = day + 1
  /\ phase' = IF day + 1 = Days THEN "finish" ELSE "spend"
  /\ UNCHANGED <<death, firstPay, baseIdx, since, bought, statements>>

\* Session::finish and drainResidual: the remaining closes (there are none
\* left, tickDay ran them) and every remaining posting.
Finish ==
  /\ phase = "finish"
  /\ card' = AdvanceLedgerTo(card, WindowEnd)
  /\ through' = Days
  /\ phase' = "done"
  /\ UNCHANGED <<day, death, firstPay, baseIdx, since, bought, statements>>

Done == phase = "done" /\ UNCHANGED vars

Next == Spend \/ Close \/ EndDay \/ Finish \/ Done

Spec == Init /\ [][Next]_vars

-----------------------------------------------------------------------------
(* Properties *)

\* The day loop, the cursors of the card and the balances keep their ranges.
TypeOK ==
  /\ day \in 0 .. Days /\ phase \in {"spend", "close", "finish", "done"}
  /\ card.cursor \in 0 .. Len(card.indices) /\ card.closed \in 0 .. Len(card.closes)
  /\ card.cash \in Nat /\ since \in Nat /\ through \in 0 .. Days

Unbilled == SubSeq(card.indices, card.cursor + 1, Len(card.indices))

\* StatementExact: the session keeps its own balance, and the clearing ledger
\* keeps the card's.  What the session has billed, what it has deferred and
\* what it has not billed yet always add up to what the ledger says is owed:
\* no event is lost by the compaction, billed twice, or billed without having
\* posted (session.cpp 97-150, card_cycle_driver.cpp 207-257).
StatementExact ==
  card.owed = -card.balance + Total(Unbilled) - Net(card.deferred)

\* NoneStranded: an event is deferred, or a purchase unbilled, only if it is
\* dated in the open cycle or later.  integrateBalance skips anything older,
\* so such an event would never be billed (statement.cpp 46-50).
NoneStranded ==
  /\ \A i \in DOMAIN card.deferred : card.deferred[i].ts >= card.prior
  /\ \A i \in DOMAIN Unbilled : Unbilled[i].ts >= card.prior

\* The late fees of a statement among decisions or waiting postings.
FeesAmong(rows, close) ==
  {n \in DOMAIN rows : rows[n].row.kind = "fee" /\ rows[n].row.cycle = close}
Fees(close) ==
  Cardinality(FeesAmong(card.log, close)) + Cardinality(FeesAmong(card.pending, close))
Met(s) ==
  \E i \in DOMAIN card.log :
     LET l == card.log[i]
     IN /\ l.accepted /\ l.row.kind = "payment" /\ l.row.cycle = s.close
        /\ l.row.amt >= MinimumDue(s.owed) /\ IsOnTime(l.row.ts, DueOf(s.close))

\* FeeIffMissed: once a statement's due date has passed, it has been charged
\* one late fee if the ledger took no payment of the minimum in time, and none
\* if it did; a payment that was drafted in time and could not be funded
\* counts as missed (session.cpp 82-92, 302-311).
FeeIffMissed ==
  \A i \in DOMAIN statements :
     LET s == statements[i]
     IN (s.owed > 0 /\ phase = "spend" /\ Instant(day, 0) > ResolveDueDate(DueOf(s.close))
           /\ FeeTime(s.close) < WindowEnd)
        => Fees(s.close) = IF Met(s) THEN 0 ELSE 1

\* GraceEarned: a card in its grace period owed nothing at its last close, or
\* its statement is paid in full and in time by a payment that the ledger took
\* or is still to decide (session.cpp 84-94, 302-306).  A payment due past the
\* window is never posted.
GraceEarned ==
  (card.inGrace /\ statements # <<>> /\ Last(statements).owed > 0) =>
     LET s == Last(statements)
         pays(row) == /\ row.kind = "payment" /\ row.cycle = s.close
                      /\ row.amt >= s.owed /\ IsOnTime(row.ts, DueOf(s.close))
     IN \/ \E i \in DOMAIN card.pending : pays(card.pending[i].row)
        \/ \E i \in DOMAIN card.log : card.log[i].accepted /\ pays(card.log[i].row)
        \/ s.pay.when >= WindowEnd

\* ServiceEnds: nothing posts to a card once its owner's accounts are closed:
\* the last close leaves room for the latest payment and fee
\* (card_cycle_driver.hpp 26-31).
Rows == {card.emitted[i] : i \in DOMAIN card.emitted}
          \cup {card.pending[i].row : i \in DOMAIN card.pending}
ServiceEnds == \A r \in Rows : DayOf(r.ts) < death + Settlement

\* AheadOfWatermark: a row the cards emit is never dated before the watermark
\* the session has finalized, so bufferTransactions never throws; a dispute
\* credit is made at the close, as much as a cycle after its date
\* (session.cpp 159-164, kCardFinalizationLagDays).
AheadOfWatermark == \A i \in DOMAIN card.emitted : DayOf(card.emitted[i].ts) >= through

\* WithinLimit: the ledger's decisions are kept: the card never draws more
\* than its limit, though the day's rows were each checked against the morning's
\* balance (spender_emission_driver.cpp 258-262).
WithinLimit == card.owed <= Limit

\* PaydayClock: at emission time the clock says how long ago the person was
\* last paid, on the days before the first payday of the window too
\* (warm_start.hpp 79-92, day_driver.cpp 183-194).
PaydayClock == phase = "close" => since = (day - firstPay) % PayPeriod

\* AllDecided: a run ends with every close of the window run and every row
\* they booked decided: nothing is dated past the window, and the tail of the
\* last statement is not left in the queue (session.cpp 208, 234, 266-313).
AllDecided == phase = "done" => card.pending = <<>> /\ ~MustClose(card, WindowEnd)

\* Every purchase, credit and charge reaches one statement and one decision of the
\* ledger (CardCycleDriver, Session of the card, pendingLedgerPostings_).
BilledExactly == TypeOK /\ StatementExact /\ NoneStranded /\ AllDecided

\* The late fee and the grace period follow from what the ledger took by the due
\* time, not from what was drafted (Session::decide, closeCycle).
FeesEarned == FeeIffMissed /\ GraceEarned

\* Rows post inside the owner's service and the limit, ahead of the watermark, and
\* on the spender's own payday clock (runDay, advance).
PostedInTime == ServiceEnds /\ AheadOfWatermark /\ WithinLimit /\ PaydayClock
=============================================================================
