--------------------------- MODULE SettlementFold ---------------------------
(***************************************************************************)
(* The settlement fold: the rows of a run are settled span by span through *)
(* one accumulator (LedgerReplay::replayChunked, postFraudChunkedMerged    *)
(* and phase B of WindowedTransferDriver).  Each span settles its own      *)
(* slice, sees the rows up to its lookahead bound, and hands on what has   *)
(* settled before its end.                                                 *)
(***************************************************************************)
EXTENDS Replay

CONSTANTS Channels,   \* channels::Tag, the channels that occur
          Streams,    \* the runs considered: candidate rows, fraud rows, and
                      \* emitLiquidityEvents (before fraud yes, after it no)
          Coins,      \* the outcomes of the random lane considered
          Seeds,      \* the opening balances of each account
          Schedules,  \* span bounds, from the start of the run to its end
          Lookahead   \* lookaheadDays

Postings ==
  [src : Int, dst : Int, amount : Int, chan : Channels, audit : Int, ts : Int]

ASSUME ChannelsAssumption == {"overdraftFee", "locInterest"} \subseteq Channels
\* audit tells the rows of a run apart; those the bank makes have none (0).
ASSUME StreamsAssumption ==
  \A st \in Streams :
    /\ st.cand \in Seq(Postings) /\ st.fraud \in Seq(Postings) /\ st.emit \in BOOLEAN
    /\ \A n \in DOMAIN st.cand : st.cand[n].audit > 0
    /\ \A n \in DOMAIN st.fraud : st.fraud[n].audit > 0
    /\ \A m, n \in DOMAIN st.cand : st.cand[m].audit = st.cand[n].audit => m = n
    /\ \A m, n \in DOMAIN st.fraud : st.fraud[m].audit = st.fraud[n].audit => m = n
    /\ \A m \in DOMAIN st.cand, n \in DOMAIN st.fraud : st.cand[m].audit # st.fraud[n].audit
ASSUME SeedsAssumption ==
  Seeds \in [Accounts -> [cash : Int, fee : Int, type : Protections, buffer : Int,
                          rate : Int, burden : Int, limit : Int]]
ASSUME SchedulesAssumption ==
  /\ \A s \in Schedules : s \in Seq(Int) /\ s # << >> /\ \A j \in 1 .. Len(s) - 1 : s[j] <= s[j + 1]
  /\ Lookahead \in Nat

VARIABLES cand, fraud, sched,  \* the run: two sorted streams and a schedule
          k,                   \* the span to settle next
          acc, out, declined

run == <<cand, fraud, sched>>
vars == <<run, k, acc, out, declined>>

\* The bounds of a schedule (chunk::Schedule::partition).
RunEnd(s) == s[Len(s)]
SpanCount(s) == Len(s) - 1

\* (mutant: the lookahead is counted from the start of the span)
LookaheadFromStart(s, j) == IF s[j] + Lookahead < RunEnd(s) THEN s[j] + Lookahead ELSE RunEnd(s)

LookaheadBoundExcl(s, j) ==
  LET la == s[j + 1] + Lookahead IN IF la < RunEnd(s) THEN la ELSE RunEnd(s)

Between(rows, from, boundExcl) ==
  SubSeq(rows, SliceTo(rows, from) + 1, SliceTo(rows, boundExcl))
From(rows, from) == SubSeq(rows, SliceTo(rows, from) + 1, Len(rows))

\* The rows of span j, and those it may look at: in the last span everything
\* that is left.
SpanItems(s, j) ==
  SortForReplay(Between(cand, s[j], s[j + 1]) \o Between(fraud, s[j], s[j + 1]))
Ahead(rows, s, j) ==
  IF j = SpanCount(s) THEN From(rows, s[j + 1])
  ELSE Between(rows, s[j + 1], LookaheadBoundExcl(s, j))

\* Phase B looks at the candidates, then at the fraud rows.
SpanLookahead(s, j) == Ahead(cand, s, j) \o Ahead(fraud, s, j)

Opening == LET seed == [i \in Accounts |-> Seeds[i]] IN OpeningBook(seed)

Init ==
  /\ \E st \in Streams, c \in Coins :
       /\ cand = SortForReplay(st.cand) /\ fraud = SortForReplay(st.fraud)
       /\ acc = NewAccumulator(Opening, st.emit, c)
  /\ sched \in Schedules
  /\ k = 1 /\ out = << >> /\ declined = << >>

SettleSpan ==
  /\ k <= SpanCount(sched)
  /\ LET bound == sched[k + 1]
         a     == ExtendChunk(acc, SpanItems(sched, k), SpanLookahead(sched, k), bound)
     IN  /\ acc' = [KeptFrom(a, bound) EXCEPT !.declined = << >>]
         /\ out' = out \o SettledBefore(a, bound)
         /\ declined' = declined \o DeclinedSpan(a)
  /\ k' = k + 1
  /\ UNCHANGED run

Next == SettleSpan

Spec == Init /\ [][Next]_vars
-----------------------------------------------------------------------------
Done == k > SpanCount(sched)
Count(rows, id) == Cardinality({n \in DOMAIN rows : rows[n].audit = id})
Queued(id) == Cardinality({i \in acc.pending : i.row.audit = id})
Consumed(rows, id) ==
  Cardinality({n \in DOMAIN rows :
                 rows[n].audit = id /\ sched[1] <= rows[n].ts /\ rows[n].ts < sched[k]})

\* Every row handed to the accumulator has exactly one fate: settled once,
\* dropped once, or still queued once, however often it was retried and
\* whichever span it was retried in; a row not yet handed over has none.
OneFate ==
  \A id \in {cand[n].audit : n \in DOMAIN cand} \cup {fraud[n].audit : n \in DOMAIN fraud} :
    Count(out, id) + Count(acc.txns, id) + Count(acc.drops, id) + Queued(id)
      = Consumed(cand, id) + Consumed(fraud, id)

\* The stream that leaves is in replay order across spans and the declined
\* attempts in clock order, every row in the window of its span, and nothing
\* still held is due before the next span: no row can arrive late.
NoLateRow ==
  /\ \A m, n \in DOMAIN declined : m < n => declined[m].ts <= declined[n].ts
  /\ \A m, n \in DOMAIN out : m < n => ~FundsLess(out[n], out[m])
  /\ \A n \in DOMAIN out : out[n].ts < sched[k]
  /\ \A n \in DOMAIN acc.txns : acc.txns[n].ts >= sched[k]
  /\ \A i \in acc.pending : i.ts >= sched[k]

\* No row is attempted more often than its channel allows, even when the
\* attempts are spread over spans.
AttemptsBounded ==
  \A n \in DOMAIN declined :
    Count(declined, declined[n].audit) <= 1 + MaxAttemptsFor(declined[n].chan)

\* What the rows settled so far move on account i.
Settled == out \o acc.txns
Effect(r, i) == (IF r.dst = i THEN r.amount ELSE 0) - (IF r.src = i THEN r.amount ELSE 0)
Moves(rows, i) ==
  LET sum[n \in 0 .. Len(rows)] == IF n = 0 THEN 0 ELSE sum[n - 1] + Effect(rows[n], i)
  IN  sum[Len(rows)]

\* No day of account i has used up its budget of fee rows.
WithinBudget(i) ==
  /\ DailyCap > 0
  /\ \A t \in acc.taps :
       t[1] = i => Cardinality({u \in acc.taps : u[1] = i /\ u[2] = t[2]}) < DailyCap

\* Every change of a balance is a row: the book the fold leaves is the opening
\* book moved by the rows settled, the bank's own charges included (onLiquidityEvent
\* makes each a row).  A fee over the daily budget is debited without a row, so
\* an account whose budget is used up may hold less, and none ever holds more.
RowsExplainBook ==
  \A i \in Accounts :
    LET explained == Opening.cash[i] + Moves(Settled, i)
    IN  /\ acc.book.cash[i] <= explained
        /\ WithinBudget(i) => acc.book.cash[i] = explained

\* The same run settled as a single span.
Single == <<sched[1], RunEnd(sched)>>
Whole == ExtendChunk(NewAccumulator(Opening, acc.emit, acc.coins), SpanItems(Single, 1),
                     SpanLookahead(Single, 1), RunEnd(sched))

\* The rows that may cure account i stand in clock order in what each span but the
\* last looks at.  findFutureCure searches them as if they did; phase B puts the
\* candidates ahead of the fraud rows, so a later salary may hide an earlier refund.
CuresInOrder(s) ==
  \A j \in 1 .. SpanCount(s) - 1 :
    LET ahead == SpanLookahead(s, j)
        cures == {n \in DOMAIN ahead : IsCureInbound(ahead[n])}
    IN  \A m, n \in cures :
          m < n /\ ahead[m].dst = ahead[n].dst => ahead[m].ts <= ahead[n].ts

\* The clamp at the run end (Schedule::partition) keeps no row from the lookahead of a
\* span; the last span, and a single one, see what lies behind the run end.
LookaheadUncut(s) ==
  \A j \in 1 .. SpanCount(s) - 1 :
    /\ Between(cand, RunEnd(s), s[j + 1] + Lookahead) = << >>
    /\ Between(fraud, RunEnd(s), s[j + 1] + Lookahead) = << >>

\* The rows settled and the attempts declined do not depend on the size of the
\* spans (tests/test_chunk_invariance.cpp), under the two conditions above: without
\* either one the code does not keep this promise, and the comment in
\* postFraudChunkedMerged that the order of the lookahead is irrelevant is wrong.
ChunkSizeInvariant ==
  Done /\ CuresInOrder(sched) /\ LookaheadUncut(sched) =>
    /\ out = SettledBefore(Whole, RunEnd(sched))
    /\ declined = DeclinedSpan(Whole)

\* No row is lost, settled twice, retried for ever or handed on late
\* (ChronoReplayAccumulator: extendChunk, drainPending, takeSettledBefore).
FatesExact == OneFate /\ AttemptsBounded /\ NoLateRow
=============================================================================
