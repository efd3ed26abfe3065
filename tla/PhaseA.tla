------------------------------- MODULE PhaseA -------------------------------
(***************************************************************************)
(* Phase A of the windowed run: the spending Session simulates the run     *)
(* window by window and finalizes rows behind a watermark                  *)
(* (activity/spending/simulator/session), and WindowedTransferDriver       *)
(* stages them with its other sources and settles each span once its       *)
(* lookahead is covered (pipeline/stages/transfers/windowed_driver).       *)
(*                                                                         *)
(* Time is in days.  A row is its instant, the day it was generated on and *)
(* where it comes from; the fold of a span is the call made to it          *)
(* (SettlementFold models what the call does).                             *)
(***************************************************************************)
EXTENDS Integers, Sequences, SequencesExt, FiniteSets

CONSTANTS
  Offsets,       \* how far from its day a generated row may be dated
  Lag,           \* kCardFinalizationLagDays
  Residual,      \* how far before the end the closing card cycles may date
  Generations,   \* the generation schedules: window bounds, the whole market
  Settlements,   \* the settlement schedules: span bounds, the same range
  Lookahead,     \* settlement.lookaheadDays
  CalendarTs,    \* the instants of the calendar source's rows
  CursorTs       \* the instants of the cursor source's rows

\* No row is dated back by more than the finalization lag, neither by a day of
\* the run nor by the cycles that finish() closes.
ASSUME DatesAssumption ==
  /\ Lag \in Nat /\ Residual \in 0 .. Lag
  /\ Offsets \subseteq Int /\ \A o \in Offsets : -Lag <= o
ASSUME GenerationsAssumption ==
  \A s \in Generations :
    s \in Seq(Int) /\ Len(s) >= 2 /\ \A k \in 1 .. (Len(s) - 1) : s[k] < s[k + 1]
\* Both schedules partition the run's window.
ASSUME SettlementsAssumption ==
  /\ Lookahead \in Nat
  /\ \A s \in Settlements :
       /\ s \in Seq(Int) /\ Len(s) >= 2 /\ \A k \in 1 .. (Len(s) - 1) : s[k] < s[k + 1]
       /\ \A m \in Generations : s[1] = m[1] /\ s[Len(s)] = m[Len(m)]
ASSUME SourcesAssumption ==
  /\ CalendarTs \subseteq Int /\ IsFiniteSet(CalendarTs)
  /\ CursorTs \subseteq Int /\ IsFiniteSet(CursorTs)

VARIABLES gen, settle, g,  \* the two schedules, and the window to advance
          nextDay, finalizedThrough, pending, generated,  \* the Session
          coverage, stage, cursor, span,                  \* the driver
          calls,           \* the extendChunk calls made
          status

schedules == <<gen, settle>>
session == <<nextDay, finalizedThrough, pending, generated>>
driver == <<coverage, stage, cursor, span, calls>>
vars == <<schedules, g, session, driver, status>>

None == 1000               \* no row that day
Start == gen[1]
MarketEnd == gen[Len(gen)]
SpanCount == Len(settle) - 1

\* The replay order.
Key(r) == <<r.ts, r.day, r.src>>
Before(r, s) == \E i \in 1 .. 3 : /\ Key(r)[i] < Key(s)[i]
                                  /\ \A j \in 1 .. (i - 1) : Key(r)[j] = Key(s)[j]
Sorted(S) == [n \in 1 .. Cardinality(S) |->
                CHOOSE r \in S : Cardinality({s \in S : Before(s, r)}) = n - 1]
In(S, from, boundExcl) == {r \in S : from <= r.ts /\ r.ts < boundExcl}
External(src, Ts) == {[ts |-> t, day |-> t, src |-> src] : t \in Ts}

Init ==
  /\ gen \in Generations /\ settle \in Settlements /\ g = 1
  /\ nextDay = Start /\ finalizedThrough = Start /\ pending = {} /\ generated = {}
  /\ coverage = Start /\ stage = << >> /\ cursor = CursorTs /\ span = 1
  /\ calls = << >> /\ status = "running"
-----------------------------------------------------------------------------
\* Session.

\* The rows of the simulated days: at most one a day, dated at an offset from
\* it (a statement close dates a dispute back to a purchase of the cycle before
\* it, never before the run).
DayRows(days) ==
  LET Row(d, o) == [ts |-> d + o, day |-> d, src |-> 0]
      Dates     == [days -> Offsets \cup {None}]
  IN  {{Row(d, c[d]) : d \in {x \in days : c[x] # None}} :
         c \in {f \in Dates : \A d \in days : f[d] = None \/ d + f[d] >= Start}}

\* bufferTransactions throws on a row behind the watermark.
Late(rows) == \E r \in rows : r.ts < finalizedThrough

\* (mutant: the window just simulated is taken as final)
FinalBoundNoLag(windowEnd) == windowEnd

\* advance() finalizes up to the lag behind the window it simulated, and never
\* moves the watermark back.
FinalBound(windowEnd) ==
  IF windowEnd - Lag > finalizedThrough THEN windowEnd - Lag ELSE finalizedThrough
-----------------------------------------------------------------------------
\* The driver.

\* stagePreRows: the finalized rows with those of the other sources for the
\* same interval, appended to the stage.
Staged(rows, from, to) ==
  stage \o Sorted(rows \cup In(External(1, CalendarTs), from, to)
                       \cup {r \in External(2, cursor) : r.ts < to})

LookaheadBoundExcl(j) ==
  LET la == settle[j + 1] + Lookahead IN IF la < MarketEnd THEN la ELSE MarketEnd

\* (mutant: a span is settled as soon as its own rows are there)
CoveredBySpan(j, cov, finished) == finished \/ (j # SpanCount /\ settle[j + 1] <= cov)

\* (mutant: the last span waits for coverage of its lookahead)
CoveredByLookahead(j, cov, finished) == j # SpanCount /\ LookaheadBoundExcl(j) <= cov

\* The last span waits for the end of the generation, any other for coverage of
\* its lookahead.
Covered(j, cov, finished) ==
  finished \/ (j # SpanCount /\ LookaheadBoundExcl(j) <= cov)

\* sliceTo: the number of rows before the first one at or after the bound, from a row
\* on (lower_bound: it is only right on rows in order).
SliceTo(rows, from, boundExcl) ==
  CHOOSE n \in from .. Len(rows) :
    /\ \A i \in (from + 1) .. n : rows[i].ts < boundExcl
    /\ n = Len(rows) \/ boundExcl <= rows[n + 1].ts

SpanBegin(rows, j) == SliceTo(rows, 0, settle[j])
SpanEnd(rows, j) == SliceTo(rows, SpanBegin(rows, j), settle[j + 1])
LookEnd(rows, j) == IF j = SpanCount THEN Len(rows)
                    ELSE SliceTo(rows, SpanEnd(rows, j), LookaheadBoundExcl(j))

Call(rows, j) ==
  [items |-> SubSeq(rows, SpanBegin(rows, j) + 1, SpanEnd(rows, j)),
   look  |-> SubSeq(rows, SpanEnd(rows, j) + 1, LookEnd(rows, j)),
   bound |-> settle[j + 1]]

\* The spans that can be settled now, in order.
Ready(cov, finished) ==
  {j \in span .. SpanCount : \A i \in span .. j : Covered(i, cov, finished)}

\* settlePreSpans: every span that is covered is settled and its rows erased
\* from the stage.
SettlePreSpans(rows, cov, finished) ==
  LET n == Cardinality(Ready(cov, finished)) IN
  /\ calls' = calls \o [i \in 1 .. n |-> Call(rows, span + i - 1)]
  /\ span' = span + n
  /\ stage' = IF n = 0 THEN rows
              ELSE SubSeq(rows, SpanEnd(rows, span + n - 1) + 1, Len(rows))

\* feedFinalized.
Feed(rows, bound, finished) ==
  /\ pending' = {r \in rows : r.ts >= bound}
  /\ finalizedThrough' = bound
  /\ IF bound > finalizedThrough
     THEN /\ coverage' = bound
          /\ cursor' = {t \in cursor : t >= bound}
          /\ \E all \in {Staged(In(rows, finalizedThrough, bound), finalizedThrough, bound)} :
               SettlePreSpans(all, bound, finished)
     ELSE /\ UNCHANGED <<coverage, cursor>>
          /\ SettlePreSpans(stage, coverage, finished)

Advance ==
  /\ status = "running" /\ g < Len(gen)
  /\ \E rows \in DayRows(gen[g] .. (gen[g + 1] - 1)) :
       /\ generated' = generated \cup rows
       /\ IF Late(rows)
          THEN /\ status' = "threw"
               /\ UNCHANGED <<finalizedThrough, pending, driver>>
          ELSE /\ Feed(pending \cup rows, FinalBound(gen[g + 1]), FALSE)
               /\ UNCHANGED status
  /\ g' = g + 1 /\ nextDay' = gen[g + 1]
  /\ UNCHANGED schedules

\* finish(): the rows of the card cycles still open, then everything up to the
\* end of the market.
Finish ==
  /\ status = "running" /\ nextDay = MarketEnd
  /\ \E rows \in {{}} \cup {{[ts |-> MarketEnd - o, day |-> MarketEnd, src |-> 0]} :
                               o \in {x \in 0 .. Residual : MarketEnd - x >= Start}} :
       /\ generated' = generated \cup rows
       /\ IF Late(rows)
          THEN status' = "threw" /\ UNCHANGED <<finalizedThrough, pending, driver>>
          ELSE /\ Feed(pending \cup rows, MarketEnd, TRUE)
               /\ status' = "done"
  /\ UNCHANGED <<schedules, g, nextDay>>

Next == Advance \/ Finish

Spec == Init /\ [][Next]_vars /\ WF_vars(Next)
-----------------------------------------------------------------------------
\* Everything the run produced inside the market, in order, as the full-range
\* replay has it before it settles the first span.
Everything ==
  LET S == In(generated \cup External(1, CalendarTs) \cup External(2, CursorTs),
              Start, MarketEnd)
  IN  SubSeq(Sorted(S), 1, Cardinality(S))

\* A row dated back by no more than the lag is never behind the watermark: the
\* session does not throw, whatever the generation windows are.
NeverLate == status # "threw"

\* Each settlement span is settled with exactly the rows and the lookahead of
\* the full-range replay: the output does not depend on the generation windows.
SameAsFullRange ==
  LET all == Everything IN \A j \in DOMAIN calls : calls[j] = Call(all, j)

\* The stage holds nothing that was already settled and nothing that may still
\* be preceded by a later row: it is bounded by the window of the open spans.  (A
\* source's row from before the market goes with the first span.)
StageExact ==
  /\ \A n \in DOMAIN stage : /\ span > 1 => settle[span] <= stage[n].ts
                              /\ stage[n].ts < coverage
  /\ \A r \in pending : r.ts >= coverage

\* Every span is settled in the end, and every row of the market by one call.
AllSettled ==
  <>(status = "done" /\ span = SpanCount + 1
       /\ FlattenSeq([j \in DOMAIN calls |-> calls[j].items]) = Everything)

\* The spans are settled with the rows of the full-range replay, and the stage
\* holds exactly the rows between what is settled and what is covered
\* (stagePreRows, settlePreSpans).
SettlesExactly == SameAsFullRange /\ StageExact
=============================================================================
