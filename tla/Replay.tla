------------------------------- MODULE Replay -------------------------------
(***************************************************************************)
(* ChronoReplayAccumulator (transfers/legit/ledger/posting) as operators   *)
(* on an accumulator: queued rows are settled against the clearing book in *)
(* clock order, an unfunded row is retried at its account's next inbound   *)
(* or blindly, and the bank's fees and interest become rows of their own.  *)
(*                                                                         *)
(* A row is a posting with `audit`, the rank of its remaining audit fields *)
(* in the replay order.                                                    *)
(***************************************************************************)
EXTENDS Clearing

CONSTANTS CardLike,      \* channels::isCardLike
          Retryable,     \* channels::isRetryable
          CureChannels,  \* the channels that cure whoever pays
          CardCure, DebitCure, CardPadding, DebitPadding,
          FirstBlind, SecondBlind,    \* ReplayFundingBehavior
          DailyCap, DayLength

ASSUME ReplayAssumption ==
  /\ CardLike \cap Retryable = {}
  /\ {CardPadding, DebitPadding, FirstBlind, SecondBlind} \subseteq Nat \ {0}
  /\ CardCure \in Nat /\ DebitCure \in Nat
  /\ DailyCap \in Nat /\ DayLength \in Nat \ {0}

\* entity::gl::incomeAccountFor: accounts of the bank's own, that of the deposit fees
\* before that of the credit-line interest.
IncomeAccountFor(chan) == IF chan = "overdraftFee" THEN -3 ELSE -2

AuditKey(r) == <<r.ts, r.src, r.dst, r.amount, r.audit>>
FundsLess(r, s) ==
  \E k \in 1 .. 5 : /\ AuditKey(r)[k] < AuditKey(s)[k]
                    /\ \A j \in 1 .. (k - 1) : AuditKey(r)[j] = AuditKey(s)[j]

\* The items in the order `before`, a set of pairs of their places.
Arranged(items, before) ==
  [j \in DOMAIN items |->
     items[CHOOSE n \in DOMAIN items :
             Cardinality({m \in DOMAIN items : <<m, n>> \in before}) = j - 1]]

\* Rows that compare equal are identical; here they keep their order.
ReplayOrder(rows) ==
  {p \in (DOMAIN rows) \X (DOMAIN rows) :
     \/ FundsLess(rows[p[1]], rows[p[2]])
     \/ ~FundsLess(rows[p[2]], rows[p[1]]) /\ p[1] < p[2]}
SortForReplay(rows) == Arranged(rows, ReplayOrder(rows))

\* std::lower_bound in rows in clock order: how many lie before the bound.
SliceTo(rows, boundExcl) == Cardinality({n \in DOMAIN rows : rows[n].ts < boundExcl})

IsCureInbound(r) == r.src \in ExternalKeys \/ r.chan \in CureChannels

MaxAttemptsFor(chan) == IF chan \in Retryable THEN 2 ELSE 1
CureFor(chan) == IF chan \in CardLike THEN CardCure ELSE DebitCure
PaddingFor(chan) == IF chan \in CardLike THEN CardPadding ELSE DebitPadding
BlindDelayFor(tries) == IF tries = 0 THEN FirstBlind ELSE SecondBlind

\* The accumulator.  coins are the draws of its random lane that
\* come up heads.
NewAccumulator(book, emit, coins) ==
  [book |-> book, emit |-> emit, coins |-> coins, draws |-> 0,
   pending |-> {}, next |-> 0, retry |-> 0, txns |-> << >>,
   drops |-> << >>, declined |-> << >>, taps |-> {}, inbound |-> << >>]
-----------------------------------------------------------------------------
\* The sink.  The book has been debited by the time it is called.

\* (mutant: the budget is per account, the day is forgotten)
FeeTapsEver(a, e) == {t \in a.taps : t[1] = e.acct}

FeeTapsToday(a, e) == {t \in a.taps : t[1] = e.acct /\ t[2] = e.ts \div DayLength}

FeeBudgetAllows(a, e) ==
  e.chan = "overdraftFee" => Cardinality(FeeTapsToday(a, e)) < DailyCap

\* An overdraft fee is a row one instant after the debit that caused it.
OnLiquidityEvent(a, e) ==
  IF ~FeeBudgetAllows(a, e) THEN a
  ELSE LET fee == e.chan = "overdraftFee"
           row == [src |-> e.acct, dst |-> IncomeAccountFor(e.chan), amount |-> e.amount,
                   chan |-> e.chan, audit |-> 0, ts |-> e.ts + IF fee THEN 1 ELSE 0]
       IN  [a EXCEPT !.txns = Append(@, row),
                     !.taps = IF fee
                              THEN @ \cup {<<e.acct, e.ts \div DayLength,
                                             Cardinality(FeeTapsToday(a, e))>>}
                              ELSE @]

OnLiquidityEvents(a, events) ==
  LET after[n \in 0 .. Len(events)] ==
        IF n = 0 THEN a ELSE OnLiquidityEvent(after[n - 1], events[n])
  IN  after[Len(events)]
-----------------------------------------------------------------------------
\* Cure windows.  Of inbound those rows are indexed that may cure, in the order they
\* stand.  std::upper_bound takes the first instant after the row: whatever is
\* indexed beyond the slice is later than every row of the slice.
Cures(a, r) ==
  {n \in DOMAIN a.inbound : /\ IsCureInbound(a.inbound[n])
                            /\ a.inbound[n].dst = r.src /\ a.inbound[n].ts > r.ts}
FindFutureCure(a, r) ==
  LET first == CHOOSE n \in Cures(a, r) : \A m \in Cures(a, r) : n <= m
  IN  IF Cures(a, r) # {} /\ a.inbound[first].ts <= r.ts + CureFor(r.chan)
      THEN a.inbound[first].ts ELSE 0

MayRetryBlind(r, tries) ==
  r.chan \in Retryable /\ tries < MaxAttemptsFor(r.chan)

\* The instant of the retry, 0 for none, and the draws taken to decide it.
ResolveRetryTimestamp(a, r, tries) ==
  LET cure == FindFutureCure(a, r) IN
  IF cure # 0 THEN [ts |-> cure + PaddingFor(r.chan), draws |-> a.draws]
  ELSE IF ~MayRetryBlind(r, tries) THEN [ts |-> 0, draws |-> a.draws]
  ELSE [ts    |-> IF a.draws + 1 \in a.coins THEN r.ts + BlindDelayFor(tries) ELSE 0,
        draws |-> a.draws + 1]

TerminalReason(chan) ==
  IF chan \in CardLike THEN "instantDecline"
  ELSE IF chan \in Retryable THEN "terminal" ELSE "insufficientFunds"

Dropped(a, reason, r) ==
  [a EXCEPT !.drops = Append(@, [reason |-> reason, audit |-> r.audit])]

\* Every unfunded pass is one declined attempt; then the row is retried or
\* dropped.  A retry sorts after every row of its instant (late).
Unfunded(a, item) ==
  LET r     == item.row
      retry == ResolveRetryTimestamp(a, r, item.tries)
      b     == [a EXCEPT !.declined = Append(@, r), !.draws = retry.draws]
  IN  IF retry.ts = 0 THEN Dropped(b, TerminalReason(r.chan), r)
      ELSE IF item.tries + 1 > MaxAttemptsFor(r.chan) THEN Dropped(b, "exhausted", r)
      ELSE [b EXCEPT !.pending = @ \cup
               {[ts |-> retry.ts, late |-> 1, seq |-> a.retry,
                 tries |-> item.tries + 1, row |-> [r EXCEPT !.ts = retry.ts]]},
             !.retry = @ + 1]
-----------------------------------------------------------------------------
\* The queue.

QueueKey(i) == <<i.ts, i.late, i.seq>>
QueueLess(i, j) ==
  \E k \in 1 .. 3 : /\ QueueKey(i)[k] < QueueKey(j)[k]
                    /\ \A m \in 1 .. (k - 1) : QueueKey(i)[m] = QueueKey(j)[m]
Top(a) == CHOOSE i \in a.pending : \A j \in a.pending \ {i} : QueueLess(i, j)

\* One turn of drainPending: interest first, then the row.
SettleTop(a) ==
  LET item    == Top(a)
      r       == item.row
      popped  == [a EXCEPT !.pending = @ \ {item}]
      accrued == [OnLiquidityEvents(popped, AccrueEvents(a.book, item.ts))
                    EXCEPT !.book = Accrue(@, item.ts)]
      outcome == Decision(accrued.book, r)
      posted  == [OnLiquidityEvents(accrued, TransferEvents(accrued.book, r))
                    EXCEPT !.book = TransferAt(@, r)]
  IN  IF outcome = "accepted" THEN [posted EXCEPT !.txns = Append(@, r)]
      ELSE IF outcome = "unfunded" THEN Unfunded(posted, item)
      ELSE Dropped(posted, outcome, r)

DrainTurn(a, boundExcl) ==
  IF a.pending # {} /\ Top(a).ts < boundExcl THEN SettleTop(a) ELSE a

\* A row is taken off the queue at most three times (MaxAttemptsFor).
DrainPending(a, boundExcl) ==
  LET turns == 3 * Cardinality(a.pending)
      drained[n \in 0 .. turns] ==
        IF n = 0 THEN a ELSE DrainTurn(drained[n - 1], boundExcl)
  IN  drained[turns]

Enqueue(a, items) ==
  [a EXCEPT !.pending = @ \cup {[ts |-> items[k].ts, late |-> 0, seq |-> a.next + k,
                                 tries |-> 0, row |-> items[k]] : k \in DOMAIN items},
            !.next = @ + Len(items)]

\* extendChunk for a span of the run: its bound is never the end of time, so
\* no closing accrual follows.
ExtendChunk(a, items, lookahead, boundExcl) ==
  LET indexed == [a EXCEPT !.inbound = items \o lookahead,
                           !.book.emit = a.emit]
  IN  [DrainPending(Enqueue(indexed, items), boundExcl) EXCEPT !.inbound = << >>]

\* takeSettledBefore: what leaves, and what stays.
SettledBefore(a, boundExcl) ==
  SubSeq(SortForReplay(a.txns), 1, SliceTo(SortForReplay(a.txns), boundExcl))

\* (mutant: what leaves is copied, not moved)
KeptEverything(a, boundExcl) == [a EXCEPT !.txns = SortForReplay(@)]

KeptFrom(a, boundExcl) ==
  [a EXCEPT !.txns = SubSeq(SortForReplay(@), SliceTo(SortForReplay(@), boundExcl) + 1, Len(@))]

\* drainDeclined and appendDeclinedSpan: stable in the instant.
ClockOrder(rows) ==
  {p \in (DOMAIN rows) \X (DOMAIN rows) :
     \/ rows[p[1]].ts < rows[p[2]].ts
     \/ rows[p[1]].ts = rows[p[2]].ts /\ p[1] < p[2]}
DeclinedSpan(a) == Arranged(a.declined, ClockOrder(a.declined))
=============================================================================
