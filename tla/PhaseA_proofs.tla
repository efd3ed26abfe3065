--------------------------- MODULE PhaseA_proofs ---------------------------
(***************************************************************************)
(* Phase A for every market, every division of it into generation windows  *)
(* and settlement spans, every lookahead and every dating of the rows      *)
(* within the finalization lag: no row is ever late, and each span is      *)
(* settled with the rows and the lookahead of a run that generates the     *)
(* whole range first.                                                      *)
(***************************************************************************)
EXTENDS PhaseA, InductionLemmas, SequenceTheorems, FiniteSetTheorems, TLAPS

\* The watermark is behind the next window by the lag, or still at the start.
Watermark ==
  status = "running" =>
    \/ finalizedThrough <= Start
    \/ finalizedThrough <= gen[g] - Lag

IndInv ==
  /\ gen \in Generations /\ g \in 1 .. Len(gen) /\ nextDay = gen[g]
  /\ finalizedThrough \in Int
  /\ Watermark
  /\ NeverLate
-----------------------------------------------------------------------------
\* The bounds of a generation schedule are days, in ascending order.
LEMMA Bounds ==
  ASSUME gen \in Generations
  PROVE  /\ Len(gen) \in Nat /\ Len(gen) >= 2
         /\ \A k \in 1 .. Len(gen) : gen[k] \in Int
         /\ \A k \in 1 .. (Len(gen) - 1) : gen[k] < gen[k + 1]
         /\ Start \in Int /\ MarketEnd \in Int
BY GenerationsAssumption DEF Start, MarketEnd

\* A simulated row is dated from a day of its window by an allowed offset, and
\* never before the run.
LEMMA RowDates ==
  ASSUME NEW days, NEW rows \in DayRows(days), NEW r \in rows
  PROVE  r.ts >= Start /\ \E d \in days, o \in Offsets : r.ts = d + o
<1>1. PICK c \in [days -> Offsets \cup {None}] :
        /\ \A d \in days : c[d] = None \/ d + c[d] >= Start
        /\ rows = {[ts |-> d + c[d], day |-> d, src |-> 0] :
                     d \in {x \in days : c[x] # None}}
  BY DEF DayRows
<1>2. PICK d \in days : c[d] # None /\ r = [ts |-> d + c[d], day |-> d, src |-> 0]
  BY <1>1
<1> QED BY <1>1, <1>2

\* The watermark after a window, whatever it was before.
LEMMA FinalBoundStep ==
  ASSUME IndInv, status = "running", g < Len(gen)
  PROVE  /\ FinalBound(gen[g + 1]) \in Int
         /\ \/ FinalBound(gen[g + 1]) <= Start
            \/ FinalBound(gen[g + 1]) <= gen[g + 1] - Lag
<1>1. gen[g] \in Int /\ gen[g + 1] \in Int /\ gen[g] < gen[g + 1] /\ Start \in Int
  BY Bounds DEF IndInv
<1> QED BY <1>1, DatesAssumption DEF FinalBound, IndInv, Watermark

\* A window that is simulated feeds its rows, none of them late.
LEMMA AdvanceFeeds ==
  ASSUME IndInv, Advance
  PROVE  \E rows \in DayRows(gen[g] .. (gen[g + 1] - 1)) :
           /\ ~Late(rows) /\ generated' = generated \cup rows
           /\ Feed(pending \cup rows, FinalBound(gen[g + 1]), FALSE)
           /\ status' = status
<1> USE DEF IndInv
<1>1. status = "running" /\ g < Len(gen)
  BY DEF Advance
<1>2. PICK rows \in DayRows(gen[g] .. (gen[g + 1] - 1)) :
        /\ generated' = generated \cup rows
        /\ IF Late(rows) THEN status' = "threw"
           ELSE Feed(pending \cup rows, FinalBound(gen[g + 1]), FALSE) /\ status' = status
  BY DEF Advance
<1>3. ~Late(rows)
  <2>1. gen[g] \in Int /\ gen[g + 1] \in Int /\ Start \in Int
    BY <1>1, Bounds
  <2> SUFFICES ASSUME NEW r \in rows PROVE ~(r.ts < finalizedThrough)
    BY DEF Late
  <2>2. PICK d \in gen[g] .. (gen[g + 1] - 1), o \in Offsets : r.ts = d + o /\ r.ts >= Start
    BY RowDates
  <2>3. r.ts \in Int /\ r.ts >= gen[g] - Lag /\ r.ts >= Start
    BY <2>1, <2>2, DatesAssumption
  <2> QED BY <1>1, <2>1, <2>3, DatesAssumption DEF Watermark
<1> QED BY <1>2, <1>3

\* So does the end of the run.
LEMMA FinishFeeds ==
  ASSUME IndInv, Finish
  PROVE  \E rows \in {{}} \cup {{[ts |-> MarketEnd - o, day |-> MarketEnd, src |-> 0]} :
                                  o \in {x \in 0 .. Residual : MarketEnd - x >= Start}} :
           /\ ~Late(rows) /\ generated' = generated \cup rows
           /\ Feed(pending \cup rows, MarketEnd, TRUE)
           /\ status' = "done"
<1> USE DEF IndInv
<1>1. status = "running" /\ nextDay = MarketEnd
  BY DEF Finish
<1>2. PICK rows \in {{}} \cup {{[ts |-> MarketEnd - o, day |-> MarketEnd, src |-> 0]} :
                                 o \in {x \in 0 .. Residual : MarketEnd - x >= Start}} :
        /\ generated' = generated \cup rows
        /\ IF Late(rows) THEN status' = "threw"
           ELSE Feed(pending \cup rows, MarketEnd, TRUE) /\ status' = "done"
  BY DEF Finish
<1>3. MarketEnd \in Int /\ Start \in Int /\ gen[g] = MarketEnd
  BY <1>1, Bounds
<1>4. ~Late(rows)
  <2> SUFFICES ASSUME NEW r \in rows PROVE ~(r.ts < finalizedThrough)
    BY DEF Late
  <2>1. PICK o \in 0 .. Residual : r.ts = MarketEnd - o /\ MarketEnd - o >= Start
    BY <1>2
  <2> QED BY <1>1, <1>3, <2>1, DatesAssumption DEF Watermark
<1> QED BY <1>2, <1>4

\* The watermark stays behind the window that comes next.
LEMMA AdvanceStep == ASSUME IndInv, Advance PROVE IndInv'
<1> USE DEF IndInv
<1>1. /\ status = "running" /\ g < Len(gen) /\ g' = g + 1 /\ nextDay' = gen[g + 1]
      /\ gen' = gen
  BY DEF Advance, schedules
<1>2. finalizedThrough' = FinalBound(gen[g + 1]) /\ status' = status
  BY AdvanceFeeds DEF Feed
<1>3. g + 1 \in 1 .. Len(gen)
  BY <1>1, Bounds
<1> QED BY <1>1, <1>2, <1>3, FinalBoundStep DEF Watermark, NeverLate, Start

\* Nothing is late at the end of the run either.
LEMMA FinishStep == ASSUME IndInv, Finish PROVE IndInv'
<1> USE DEF IndInv
<1>1. gen' = gen /\ g' = g /\ nextDay' = nextDay
  BY DEF Finish, schedules
<1>2. MarketEnd \in Int
  BY Bounds
<1>3. finalizedThrough' = MarketEnd /\ status' = "done"
  BY FinishFeeds DEF Feed
<1> QED BY <1>1, <1>2, <1>3 DEF Watermark, NeverLate

\* The watermark stays behind the next window.
THEOREM SpecIndInv == Spec => []IndInv
<1>1. Init => IndInv
  BY Bounds DEF Init, IndInv, Watermark, NeverLate, Start
<1>2. IndInv /\ [Next]_vars => IndInv'
  <2> SUFFICES ASSUME IndInv, [Next]_vars PROVE IndInv'
    OBVIOUS
  <2>1. CASE Advance
    BY <2>1, AdvanceStep
  <2>2. CASE Finish
    BY <2>2, FinishStep
  <2>3. CASE UNCHANGED vars
    BY <2>3 DEF vars, schedules, session, IndInv, Watermark, NeverLate, Start
  <2> QED BY <2>1, <2>2, <2>3 DEF Next
<1> QED BY <1>1, <1>2, PTL DEF Spec

\* bufferTransactions never throws: a row dated back by no more than the lag is
\* never behind the watermark, whatever the generation windows are.
THEOREM NoLateRows == Spec => []NeverLate
<1>1. IndInv => NeverLate
  BY DEF IndInv
<1> QED BY <1>1, SpecIndInv, PTL

-----------------------------------------------------------------------------
\* Rows in replay order.

Row == [ts : Int, day : Int, src : Int]

\* The replay order of two rows: by instant, then by day, then by source.
LEMMA BeforeIs ==
  ASSUME NEW r \in Row, NEW s \in Row
  PROVE  Before(r, s) <=> \/ r.ts < s.ts
                          \/ r.ts = s.ts /\ r.day < s.day
                          \/ r.ts = s.ts /\ r.day = s.day /\ r.src < s.src
<1>1. /\ Key(r)[1] = r.ts /\ Key(r)[2] = r.day /\ Key(r)[3] = r.src
      /\ Key(s)[1] = s.ts /\ Key(s)[2] = s.day /\ Key(s)[3] = s.src
  BY DEF Key
<1> DEFINE At(i) == /\ Key(r)[i] < Key(s)[i]
                    /\ \A j \in 1 .. (i - 1) : Key(r)[j] = Key(s)[j]
<1>2. Before(r, s) <=> At(1) \/ At(2) \/ At(3)
  <2>1. \A i : i \in 1 .. 3 <=> i \in {1, 2, 3}
    OBVIOUS
  <2> QED BY <2>1 DEF Before
<1>3. At(1) <=> r.ts < s.ts
  BY <1>1
<1>4. At(2) <=> r.ts = s.ts /\ r.day < s.day
  <2>1. \A j : j \in 1 .. (2 - 1) <=> j = 1
    OBVIOUS
  <2> QED BY <1>1, <2>1
<1>5. At(3) <=> r.ts = s.ts /\ r.day = s.day /\ r.src < s.src
  <2>1. \A j : j \in 1 .. (3 - 1) <=> j \in {1, 2}
    OBVIOUS
  <2> QED BY <1>1, <2>1
<1> HIDE DEF At
<1> QED BY <1>2, <1>3, <1>4, <1>5

\* It is a strict order of all rows, and follows the instants.
LEMMA BeforeOrder ==
  ASSUME NEW r \in Row, NEW s \in Row
  PROVE  /\ ~Before(r, r)
         /\ r = s \/ Before(r, s) \/ Before(s, r)
         /\ ~(Before(r, s) /\ Before(s, r))
         /\ r.ts < s.ts => Before(r, s)
         /\ Before(r, s) => r.ts <= s.ts
         /\ \A t \in Row : Before(r, s) /\ Before(s, t) => Before(r, t)
<1>1. \A x \in Row : x.ts \in Int /\ x.day \in Int /\ x.src \in Int
  BY DEF Row
<1>2. r = s \/ r.ts # s.ts \/ r.day # s.day \/ r.src # s.src
  BY DEF Row
<1>3. ~Before(r, r)
  BY <1>1, BeforeIs
<1>4. r = s \/ Before(r, s) \/ Before(s, r)
  BY <1>1, <1>2, BeforeIs
<1>5. /\ ~(Before(r, s) /\ Before(s, r))
      /\ r.ts < s.ts => Before(r, s)
      /\ Before(r, s) => r.ts <= s.ts
  BY <1>1, BeforeIs
<1>6. ASSUME NEW t \in Row, Before(r, s), Before(s, t) PROVE Before(r, t)
  BY <1>1, <1>6, BeforeIs
<1> QED BY <1>3, <1>4, <1>5, <1>6

\* The rows of S before r.
Prior(S, r) == {s \in S : Before(s, r)}

\* A row's place in a finite set of rows follows the order.
LEMMA Places ==
  ASSUME NEW S \in SUBSET Row, IsFiniteSet(S)
  PROVE  /\ Cardinality(S) \in Nat
         /\ \A r : IsFiniteSet(Prior(S, r)) /\ Cardinality(Prior(S, r)) \in Nat
         /\ \A r \in S : Cardinality(Prior(S, r)) < Cardinality(S)
         /\ \A r, s \in S : Before(r, s) =>
              Cardinality(Prior(S, r)) < Cardinality(Prior(S, s))
<1>1. Cardinality(S) \in Nat
  BY FS_CardinalityType
<1>2. ASSUME NEW r PROVE IsFiniteSet(Prior(S, r)) /\ Cardinality(Prior(S, r)) \in Nat
  <2>1. Prior(S, r) \in SUBSET S
    BY DEF Prior
  <2>2. IsFiniteSet(Prior(S, r))
    BY <2>1, FS_Subset
  <2> QED BY <2>2, FS_CardinalityType
<1>3. ASSUME NEW r \in S PROVE Cardinality(Prior(S, r)) < Cardinality(S)
  <2>1. Prior(S, r) \in SUBSET S /\ Prior(S, r) # S
    BY BeforeOrder DEF Prior
  <2>2. /\ Cardinality(Prior(S, r)) <= Cardinality(S)
        /\ Cardinality(Prior(S, r)) # Cardinality(S)
    BY <2>1, FS_Subset
  <2> QED BY <1>1, <1>2, <2>2
<1>4. ASSUME NEW r \in S, NEW s \in S, Before(r, s)
      PROVE  Cardinality(Prior(S, r)) < Cardinality(Prior(S, s))
  <2>1. r \in Row /\ s \in Row
    OBVIOUS
  <2>2. Prior(S, r) \in SUBSET Prior(S, s)
    BY <1>4, <2>1, BeforeOrder DEF Prior
  <2>3. r \in Prior(S, s) /\ r \notin Prior(S, r)
    BY <1>4, <2>1, BeforeOrder DEF Prior
  <2>4. /\ Cardinality(Prior(S, r)) <= Cardinality(Prior(S, s))
        /\ Cardinality(Prior(S, r)) # Cardinality(Prior(S, s))
    BY <1>2, <2>2, <2>3, FS_Subset
  <2> QED BY <1>2, <2>4
<1> QED BY <1>1, <1>2, <1>3, <1>4

\* Every place is some row's.
LEMMA PlaceTaken ==
  ASSUME NEW S \in SUBSET Row, IsFiniteSet(S), NEW k \in 1 .. Cardinality(S)
  PROVE  \E r \in S : Cardinality(Prior(S, r)) = k - 1
<1>1. PICK n \in Nat : n = Cardinality(S)
  BY Places
<1>2. PICK T : T = 0 .. n - 1
  OBVIOUS
<1>3. IsFiniteSet(T) /\ Cardinality(T) = n
  BY <1>2, FS_Interval
<1>4. PICK f : f = [r \in S |-> Cardinality(Prior(S, r))]
  OBVIOUS
<1>5. f \in [S -> T]
  <2>1. \A r \in S : Cardinality(Prior(S, r)) \in Nat /\ Cardinality(Prior(S, r)) < n
    BY <1>1, Places
  <2>2. \A r \in S : Cardinality(Prior(S, r)) \in T
    BY <1>2, <2>1
  <2> QED BY <1>4, <2>2
<1>6. \A r, s \in S : f[r] = f[s] => r = s
  <2> SUFFICES ASSUME NEW r \in S, NEW s \in S, f[r] = f[s] PROVE r = s
    OBVIOUS
  <2>1. Cardinality(Prior(S, r)) = Cardinality(Prior(S, s)) /\ Cardinality(Prior(S, r)) \in Nat
    BY <1>4, Places
  <2>2. ~Before(r, s) /\ ~Before(s, r)
    BY <2>1, Places
  <2>3. r \in Row /\ s \in Row
    OBVIOUS
  <2>4. r = s \/ Before(r, s) \/ Before(s, r)
    BY <2>3, BeforeOrder
  <2> QED BY <2>2, <2>4
<1>7. f \in Injection(S, T)
  BY <1>5, <1>6 DEF Injection, IsInjective
<1>8. f \in Surjection(S, T)
  BY <1>1, <1>3, <1>7, FS_Injection
<1>9. k - 1 \in T
  BY <1>1, <1>2
<1>10. PICK r \in S : f[r] = k - 1
  BY <1>8, <1>9 DEF Surjection
<1> QED BY <1>4, <1>10

\* The sorted sequence: every row at its place.
LEMMA SortedIs ==
  ASSUME NEW S \in SUBSET Row, IsFiniteSet(S), NEW q, q = Sorted(S)
  PROVE  /\ q \in Seq(S) /\ Len(q) = Cardinality(S) /\ Cardinality(S) \in Nat
         /\ \A n \in 1 .. Cardinality(S) :
              q[n] \in S /\ Cardinality(Prior(S, q[n])) = n - 1
         /\ \A n \in 1 .. Cardinality(S), r \in S :
              Cardinality(Prior(S, r)) = n - 1 => q[n] = r
<1>1. PICK c \in Nat : c = Cardinality(S)
  BY Places
<1> DEFINE at(n) == CHOOSE r \in S : Cardinality(Prior(S, r)) = n - 1
<1>2. q = [n \in 1 .. c |-> at(n)]
  BY <1>1 DEF Sorted, Prior
<1>3. ASSUME NEW n \in 1 .. c PROVE at(n) \in S /\ Cardinality(Prior(S, at(n))) = n - 1
  <2>1. \E r \in S : Cardinality(Prior(S, r)) = n - 1
    BY <1>1, PlaceTaken
  <2> QED BY <2>1
<1> HIDE DEF at
<1>4. q \in Seq(S) /\ Len(q) = c
  BY <1>2, <1>3
<1>5. \A n \in 1 .. c : q[n] \in S /\ Cardinality(Prior(S, q[n])) = n - 1
  BY <1>2, <1>3
<1>6. ASSUME NEW n \in 1 .. c, NEW r \in S, Cardinality(Prior(S, r)) = n - 1 PROVE q[n] = r
  <2>1. PICK x \in S : x = q[n] /\ Cardinality(Prior(S, x)) = Cardinality(Prior(S, r))
    BY <1>5, <1>6
  <2>2. Cardinality(Prior(S, x)) \in Nat
    BY Places
  <2>3. ~Before(x, r) /\ ~Before(r, x)
    BY <2>1, <2>2, Places
  <2>4. x \in Row /\ r \in Row
    OBVIOUS
  <2> QED BY <2>1, <2>3, <2>4, BeforeOrder
<1> QED BY <1>1, <1>4, <1>5, <1>6

\* Rows that all precede others: sorted together, the former come first.
LEMMA SortedSplit ==
  ASSUME NEW A \in SUBSET Row, IsFiniteSet(A), NEW B \in SUBSET Row, IsFiniteSet(B),
         \A a \in A, b \in B : a.ts < b.ts
  PROVE  Sorted(A \cup B) = Sorted(A) \o Sorted(B)
<1>1. PICK S : S = A \cup B
  OBVIOUS
<1>2. PICK m \in Nat : m = Cardinality(A)
  BY Places
<1>3. PICK n \in Nat : n = Cardinality(B)
  BY Places
<1>4. \A a \in A, b \in B : Before(a, b) /\ ~Before(b, a) /\ a # b
  <2> SUFFICES ASSUME NEW a \in A, NEW b \in B PROVE Before(a, b) /\ ~Before(b, a) /\ a # b
    OBVIOUS
  <2>1. a \in Row /\ b \in Row /\ a.ts < b.ts
    OBVIOUS
  <2> QED BY <2>1, BeforeOrder
<1>5. S \in SUBSET Row /\ IsFiniteSet(S) /\ Cardinality(S) = m + n
  <2>1. A \cap B = {}
    BY <1>4
  <2>2. IsFiniteSet(A \cup B) /\ Cardinality(A \cup B) = m + n - Cardinality(A \cap B)
    BY <1>2, <1>3, FS_Union
  <2>3. Cardinality(A \cap B) = 0
    BY <2>1, FS_EmptySet
  <2> QED BY <1>1, <2>2, <2>3
<1>6. \A r \in A : Prior(S, r) = Prior(A, r)
  BY <1>1, <1>4 DEF Prior
<1>7. ASSUME NEW r \in B PROVE Cardinality(Prior(S, r)) = m + Cardinality(Prior(B, r))
  <2>1. Prior(S, r) = A \cup Prior(B, r)
    BY <1>1, <1>4 DEF Prior
  <2>2. A \cap Prior(B, r) = {}
    BY <1>4 DEF Prior
  <2>3. IsFiniteSet(Prior(B, r)) /\ Cardinality(Prior(B, r)) \in Nat
    BY Places
  <2>4. Cardinality(A \cup Prior(B, r)) =
          m + Cardinality(Prior(B, r)) - Cardinality(A \cap Prior(B, r))
    BY <1>2, <2>3, FS_Union
  <2>5. Cardinality(A \cap Prior(B, r)) = 0
    BY <2>2, FS_EmptySet
  <2> QED BY <2>1, <2>3, <2>4, <2>5
<1>8. PICK u : u = Sorted(A)
  OBVIOUS
<1>9. PICK v : v = Sorted(B)
  OBVIOUS
<1>10. PICK w : w = Sorted(S)
  OBVIOUS
<1>11. /\ u \in Seq(A) /\ Len(u) = m
       /\ \A k \in 1 .. m : u[k] \in A /\ Cardinality(Prior(A, u[k])) = k - 1
  BY <1>2, <1>8, SortedIs
<1>12. /\ v \in Seq(B) /\ Len(v) = n
       /\ \A k \in 1 .. n : v[k] \in B /\ Cardinality(Prior(B, v[k])) = k - 1
  BY <1>3, <1>9, SortedIs
<1>13. /\ w \in Seq(S) /\ Len(w) = m + n
       /\ \A k \in 1 .. m + n, r \in S : Cardinality(Prior(S, r)) = k - 1 => w[k] = r
  BY <1>5, <1>10, SortedIs
<1>14. u \in Seq(Row) /\ v \in Seq(Row) /\ w \in Seq(Row)
  BY <1>5, <1>11, <1>12, <1>13
<1>15. PICK q : q = u \o v
  OBVIOUS
<1>16. /\ q \in Seq(Row) /\ Len(q) = m + n
       /\ \A i \in 1 .. m + n : q[i] = IF i <= m THEN u[i] ELSE v[i - m]
  BY <1>11, <1>12, <1>14, <1>15, ConcatProperties
<1>17. ASSUME NEW i \in 1 .. m + n PROVE q[i] = w[i]
  <2>1. CASE i <= m
    <3>1. i \in 1 .. m
      BY <2>1
    <3>2. PICK r \in A : r = u[i] /\ Cardinality(Prior(A, r)) = i - 1
      BY <1>11, <3>1
    <3>3. r \in S /\ Cardinality(Prior(S, r)) = i - 1
      BY <1>1, <1>6, <3>2
    <3>4. w[i] = r
      BY <1>13, <3>3
    <3> QED BY <1>16, <2>1, <3>2, <3>4
  <2>2. CASE ~(i <= m)
    <3>1. PICK k : k = i - m
      OBVIOUS
    <3>2. k \in 1 .. n /\ m + (k - 1) = i - 1
      BY <2>2, <3>1
    <3>3. PICK r \in B : r = v[k] /\ Cardinality(Prior(B, r)) = k - 1
      BY <1>12, <3>2
    <3>4. Cardinality(Prior(S, r)) = m + (k - 1)
      BY <1>7, <3>3
    <3>5. r \in S /\ Cardinality(Prior(S, r)) = i - 1
      BY <1>1, <3>2, <3>4
    <3>6. w[i] = r
      BY <1>13, <3>5
    <3> QED BY <1>16, <2>2, <3>1, <3>3, <3>6
  <2> QED BY <2>1, <2>2
<1>18. q = w
  <2>1. Len(q) = Len(w) /\ \A i \in 1 .. Len(q) : q[i] = w[i]
    BY <1>13, <1>16, <1>17
  <2> QED BY <1>14, <1>16, <2>1, SeqEqual
<1> QED BY <1>1, <1>8, <1>9, <1>10, <1>15, <1>18

\* sliceTo on such a sequence: the rows before the bound come first.
LEMMA SliceAt ==
  ASSUME NEW A \in SUBSET Row, IsFiniteSet(A), NEW B \in SUBSET Row, IsFiniteSet(B),
         NEW x \in Int, NEW from \in Nat, from <= Cardinality(A),
         \A a \in A : a.ts < x, \A b \in B : x <= b.ts
  PROVE  SliceTo(Sorted(A \cup B), from, x) = Cardinality(A)
<1>1. \A r \in A \cup B : r.ts \in Int
  BY DEF Row
<1>2. PICK m \in Nat : m = Cardinality(A)
  BY Places
<1>3. PICK n \in Nat : n = Cardinality(B)
  BY Places
<1>4. PICK u : u = Sorted(A)
  OBVIOUS
<1>5. PICK v : v = Sorted(B)
  OBVIOUS
<1>6. PICK q : q = Sorted(A \cup B)
  OBVIOUS
<1>7. q = u \o v
  <2>1. \A a \in A, b \in B : a.ts < b.ts
    BY <1>1
  <2> QED BY <1>4, <1>5, <1>6, <2>1, SortedSplit
<1>8. u \in Seq(A) /\ Len(u) = m /\ \A k \in 1 .. m : u[k] \in A
  BY <1>2, <1>4, SortedIs
<1>9. v \in Seq(B) /\ Len(v) = n /\ \A k \in 1 .. n : v[k] \in B
  BY <1>3, <1>5, SortedIs
<1>10. u \in Seq(Row) /\ v \in Seq(Row)
  BY <1>8, <1>9
<1>11. /\ Len(q) = m + n
       /\ \A i \in 1 .. m + n : q[i] = IF i <= m THEN u[i] ELSE v[i - m]
  BY <1>7, <1>8, <1>9, <1>10, ConcatProperties
<1>12. \A i \in 1 .. m : q[i].ts < x
  BY <1>8, <1>11
<1>13. ASSUME NEW i \in m + 1 .. m + n PROVE x <= q[i].ts /\ ~(q[i].ts < x)
  <2>1. PICK k : k = i - m
    OBVIOUS
  <2>2. k \in 1 .. n /\ ~(i <= m) /\ i \in 1 .. m + n
    BY <2>1
  <2>3. q[i] = v[k]
    BY <1>11, <2>1, <2>2
  <2>4. q[i] \in B
    BY <1>9, <2>2, <2>3
  <2> QED BY <1>1, <2>4
<1> DEFINE Cut(c) == /\ \A i \in (from + 1) .. c : q[i].ts < x
                     /\ c = Len(q) \/ x <= q[c + 1].ts
<1>14. m \in from .. Len(q) /\ Cut(m)
  <2>1. m \in from .. Len(q)
    BY <1>2, <1>11
  <2>2. \A i \in (from + 1) .. m : q[i].ts < x
    BY <1>12
  <2>3. m = Len(q) \/ x <= q[m + 1].ts
    <3>1. CASE n = 0
      BY <1>11, <3>1
    <3>2. CASE n # 0
      <4>1. m + 1 \in m + 1 .. m + n
        BY <3>2
      <4> QED BY <1>13, <4>1
    <3> QED BY <3>1, <3>2
  <2> QED BY <2>1, <2>2, <2>3
<1>15. ASSUME NEW c \in from .. Len(q), Cut(c) PROVE c = m
  <2>1. c \in Nat /\ c <= m + n
    BY <1>11
  <2>2. ~(c < m)
    <3>1. SUFFICES ASSUME c < m PROVE FALSE
      OBVIOUS
    <3>2. c + 1 \in 1 .. m /\ c # Len(q)
      BY <1>11, <2>1, <3>1
    <3>3. q[c + 1].ts < x /\ x <= q[c + 1].ts
      BY <1>12, <1>15, <3>2
    <3>4. PICK y : y = q[c + 1]
      OBVIOUS
    <3>5. y \in A
      BY <1>8, <1>11, <3>2, <3>4
    <3> QED BY <1>1, <3>3, <3>4, <3>5
  <2>3. ~(m < c)
    <3>1. SUFFICES ASSUME m < c PROVE FALSE
      OBVIOUS
    <3>2. c \in (from + 1) .. c /\ c \in m + 1 .. m + n
      BY <1>2, <2>1, <3>1
    <3> QED BY <1>13, <1>15, <3>2
  <2> QED BY <2>1, <2>2, <2>3
<1>16. SliceTo(q, from, x) = CHOOSE c \in from .. Len(q) : Cut(c)
  BY DEF SliceTo
<1> HIDE DEF Cut
<1> QED BY <1>2, <1>6, <1>14, <1>15, <1>16

-----------------------------------------------------------------------------
\* The slices of rows in order.

\* The middle one of three sequences.
LEMMA MiddleSlice ==
  ASSUME NEW X, NEW a \in Seq(X), NEW m \in Seq(X), NEW c \in Seq(X)
  PROVE  SubSeq((a \o m) \o c, Len(a) + 1, Len(a) + Len(m)) = m
<1>1. PICK k \in Nat : k = Len(a)
  BY LenProperties
<1>2. PICK n \in Nat : n = Len(m)
  BY LenProperties
<1>3. PICK l \in Nat : l = Len(c)
  BY LenProperties
<1>4. PICK p : p = a \o m
  OBVIOUS
<1>5. /\ p \in Seq(X) /\ Len(p) = k + n
      /\ \A i \in 1 .. k + n : p[i] = IF i <= k THEN a[i] ELSE m[i - k]
  BY <1>1, <1>2, <1>4, ConcatProperties
<1>6. PICK q : q = p \o c
  OBVIOUS
<1>7. /\ q \in Seq(X) /\ Len(q) = (k + n) + l
      /\ \A i \in 1 .. (k + n) + l : q[i] = IF i <= k + n THEN p[i] ELSE c[i - (k + n)]
  BY <1>3, <1>5, <1>6, ConcatProperties
<1>8. PICK d : d = SubSeq(q, k + 1, k + n)
  OBVIOUS
<1>9. \A i \in k + 1 .. k + n : q[i] \in X
  <2> TAKE i \in k + 1 .. k + n
  <2>1. i \in 1 .. Len(q)
    BY <1>7
  <2> QED BY <1>7, <2>1, ElementOfSeq
<1>10. k + 1 \in Int /\ k + n \in Int
  OBVIOUS
<1>11. /\ d \in Seq(X)
       /\ Len(d) = IF k + 1 <= k + n THEN k + n - (k + 1) + 1 ELSE 0
       /\ \A i \in 1 .. k + n - (k + 1) + 1 : d[i] = q[k + 1 + i - 1]
  BY <1>8, <1>9, <1>10, SubSeqProperties
<1>12. k + n - (k + 1) + 1 = n /\ Len(d) = n
  BY <1>11
<1>13. ASSUME NEW i \in 1 .. n PROVE d[i] = m[i]
  <2>1. PICK j : j = k + i
    OBVIOUS
  <2>2. /\ j \in 1 .. k + n /\ ~(j <= k) /\ j - k = i /\ k + 1 + i - 1 = j
        /\ j \in 1 .. (k + n) + l /\ j <= k + n
    BY <2>1
  <2>3. d[i] = q[j]
    BY <1>11, <1>12, <2>2
  <2>4. q[j] = p[j]
    BY <1>7, <2>2
  <2>5. p[j] = m[i]
    BY <1>5, <2>2
  <2> QED BY <2>3, <2>4, <2>5
<1>14. d = m
  <2>1. Len(d) = Len(m) /\ \A i \in 1 .. Len(d) : d[i] = m[i]
    BY <1>2, <1>12, <1>13
  <2> QED BY <1>11, <2>1, SeqEqual
<1> QED BY <1>1, <1>2, <1>4, <1>6, <1>8, <1>14

\* The rows of S before x, and those from x on.
Up(S, x) == {r \in S : r.ts < x}
From(S, x) == {r \in S : x <= r.ts}

\* Parts of a finite set of rows.
LEMMA Parts ==
  ASSUME NEW S \in SUBSET Row, IsFiniteSet(S), NEW x \in Int, NEW y \in Int
  PROVE  /\ Up(S, x) \in SUBSET Row /\ IsFiniteSet(Up(S, x)) /\ Cardinality(Up(S, x)) \in Nat
         /\ From(S, x) \in SUBSET Row /\ IsFiniteSet(From(S, x))
         /\ In(S, x, y) \in SUBSET Row /\ IsFiniteSet(In(S, x, y))
         /\ S = Up(S, x) \cup From(S, x)
         /\ x <= y => /\ Up(S, y) = Up(S, x) \cup In(S, x, y)
                      /\ From(S, x) = In(S, x, y) \cup From(S, y)
                      /\ Cardinality(Up(S, x)) <= Cardinality(Up(S, y))
<1>1. \A r \in S : r.ts \in Int
  BY DEF Row
<1>2. Up(S, x) \in SUBSET S /\ From(S, x) \in SUBSET S /\ In(S, x, y) \in SUBSET S
      /\ Up(S, y) \in SUBSET S
  BY DEF Up, From, In
<1>3. /\ IsFiniteSet(Up(S, x)) /\ IsFiniteSet(From(S, x)) /\ IsFiniteSet(In(S, x, y))
      /\ IsFiniteSet(Up(S, y))
  BY <1>2, FS_Subset
<1>4. Cardinality(Up(S, x)) \in Nat
  BY <1>3, FS_CardinalityType
<1>5. S = Up(S, x) \cup From(S, x)
  BY <1>1 DEF Up, From
<1>6. ASSUME x <= y
      PROVE  /\ Up(S, y) = Up(S, x) \cup In(S, x, y)
             /\ From(S, x) = In(S, x, y) \cup From(S, y)
  BY <1>1, <1>6 DEF Up, From, In
<1>7. ASSUME x <= y PROVE Cardinality(Up(S, x)) <= Cardinality(Up(S, y))
  <2>1. Up(S, x) \in SUBSET Up(S, y)
    BY <1>6, <1>7
  <2> QED BY <1>3, <2>1, FS_Subset
<1> QED BY <1>2, <1>3, <1>4, <1>5, <1>6, <1>7

\* sliceTo counts the rows before its bound.
LEMMA SliceCount ==
  ASSUME NEW S \in SUBSET Row, IsFiniteSet(S), NEW x \in Int,
         NEW from \in Nat, from <= Cardinality(Up(S, x))
  PROVE  SliceTo(Sorted(S), from, x) = Cardinality(Up(S, x))
<1>1. PICK A : A = Up(S, x)
  OBVIOUS
<1>2. PICK B : B = From(S, x)
  OBVIOUS
<1>3. /\ A \in SUBSET Row /\ IsFiniteSet(A) /\ B \in SUBSET Row /\ IsFiniteSet(B)
      /\ S = A \cup B
  BY <1>1, <1>2, Parts
<1>4. (\A a \in A : a.ts < x) /\ \A b \in B : x <= b.ts
  BY <1>1, <1>2 DEF Up, From
<1>5. from <= Cardinality(A)
  BY <1>1
<1>6. SliceTo(Sorted(A \cup B), from, x) = Cardinality(A)
  BY <1>3, <1>4, <1>5, SliceAt
<1> QED BY <1>1, <1>3, <1>6

\* The rows between two such places are the rows between the bounds, in order.
LEMMA SliceRange ==
  ASSUME NEW S \in SUBSET Row, IsFiniteSet(S), NEW x \in Int, NEW y \in Int, x <= y
  PROVE  /\ SubSeq(Sorted(S), Cardinality(Up(S, x)) + 1, Cardinality(Up(S, y)))
              = Sorted(In(S, x, y))
         /\ SubSeq(Sorted(S), Cardinality(Up(S, x)) + 1, Len(Sorted(S)))
              = Sorted(From(S, x))
<1>1. PICK A : A = Up(S, x)
  OBVIOUS
<1>2. PICK M : M = In(S, x, y)
  OBVIOUS
<1>3. PICK C : C = From(S, y)
  OBVIOUS
<1>4. PICK D : D = From(S, x)
  OBVIOUS
<1>5. /\ A \in SUBSET Row /\ IsFiniteSet(A) /\ M \in SUBSET Row /\ IsFiniteSet(M)
      /\ C \in SUBSET Row /\ IsFiniteSet(C) /\ D \in SUBSET Row /\ IsFiniteSet(D)
      /\ S = A \cup D /\ D = M \cup C /\ Up(S, y) = A \cup M
  BY <1>1, <1>2, <1>3, <1>4, Parts
<1>6. /\ \A r \in S : r.ts \in Int
      /\ \A r \in A : r.ts < x
      /\ \A r \in M : x <= r.ts /\ r.ts < y
      /\ \A r \in C : y <= r.ts
      /\ \A r \in D : x <= r.ts
  BY <1>1, <1>2, <1>3, <1>4 DEF Up, From, In, Row
<1>7. PICK E : E = A \cup M
  OBVIOUS
<1>8. /\ E \in SUBSET Row /\ IsFiniteSet(E) /\ S = E \cup C
      /\ \A e \in E, c \in C : e.ts < c.ts
      /\ \A a \in A, m \in M : a.ts < m.ts
      /\ \A a \in A, d \in D : a.ts < d.ts
  <2>1. IsFiniteSet(A \cup M)
    BY <1>5, FS_Union
  <2>2. \A e \in E, c \in C : e.ts < c.ts
    BY <1>5, <1>6, <1>7
  <2>3. \A a \in A, d \in D : a.ts < d.ts
    BY <1>5, <1>6
  <2> QED BY <1>5, <1>7, <2>1, <2>2, <2>3
<1>9. PICK q : q = Sorted(S)
  OBVIOUS
<1>10. PICK a : a = Sorted(A)
  OBVIOUS
<1>11. PICK m : m = Sorted(M)
  OBVIOUS
<1>12. PICK c : c = Sorted(C)
  OBVIOUS
<1>13. PICK d : d = Sorted(D)
  OBVIOUS
<1>14. PICK e : e = Sorted(E)
  OBVIOUS
<1>15. /\ a \in Seq(Row) /\ Len(a) = Cardinality(A)
       /\ m \in Seq(Row) /\ c \in Seq(Row) /\ d \in Seq(Row)
       /\ e \in Seq(Row) /\ Len(e) = Cardinality(E)
  <2>1. a \in Seq(A) /\ Len(a) = Cardinality(A)
    BY <1>5, <1>10, SortedIs
  <2>2. m \in Seq(M)
    BY <1>5, <1>11, SortedIs
  <2>3. c \in Seq(C)
    BY <1>5, <1>12, SortedIs
  <2>4. d \in Seq(D)
    BY <1>5, <1>13, SortedIs
  <2>5. e \in Seq(E) /\ Len(e) = Cardinality(E)
    BY <1>8, <1>14, SortedIs
  <2> QED BY <1>5, <1>8, <2>1, <2>2, <2>3, <2>4, <2>5
<1>16. e = a \o m /\ q = e \o c /\ q = a \o d
  <2>1. e = a \o m
    BY <1>5, <1>7, <1>8, <1>10, <1>11, <1>14, SortedSplit
  <2>2. q = e \o c
    BY <1>5, <1>8, <1>9, <1>12, <1>14, SortedSplit
  <2>3. q = a \o d
    BY <1>5, <1>8, <1>9, <1>10, <1>13, SortedSplit
  <2> QED BY <2>1, <2>2, <2>3
<1>17. Len(e) = Len(a) + Len(m) /\ Len(q) = Len(a) + Len(d) /\ q \in Seq(Row)
  BY <1>15, <1>16, ConcatProperties
<1>18. SubSeq(q, Len(a) + 1, Len(a) + Len(m)) = m
  <2>1. SubSeq((a \o m) \o c, Len(a) + 1, Len(a) + Len(m)) = m
    BY <1>15, MiddleSlice
  <2>2. (a \o m) \o c = q
    BY <1>16
  <2> QED BY <2>1, <2>2
<1>19. SubSeq(q, Len(a) + 1, Len(a) + Len(d)) = d
  <2>1. << >> \in Seq(Row)
    BY EmptySeq
  <2>2. (a \o d) \o << >> = q
    BY <1>16, <1>17, ConcatEmptySeq
  <2>3. SubSeq((a \o d) \o << >>, Len(a) + 1, Len(a) + Len(d)) = d
    BY <1>15, <2>1, MiddleSlice
  <2> QED BY <2>2, <2>3
<1>20. Cardinality(Up(S, y)) = Cardinality(E)
  BY <1>5, <1>7
<1> QED BY <1>1, <1>2, <1>4, <1>9, <1>11, <1>13, <1>15, <1>17, <1>18, <1>19, <1>20

\* The bounds of a schedule ascend.
LEMMA Ascending ==
  ASSUME NEW s \in Seq(Int), \A k \in 1 .. (Len(s) - 1) : s[k] < s[k + 1]
  PROVE  \A i, j \in 1 .. Len(s) : i <= j => s[i] <= s[j]
<1>1. PICK N \in Nat : N = Len(s)
  BY LenProperties
<1>2. \A k \in 1 .. N : s[k] \in Int
  BY <1>1, ElementOfSeq
<1> SUFFICES ASSUME NEW i \in 1 .. N, NEW j \in 1 .. N, i <= j PROVE s[i] <= s[j]
  BY <1>1
<1> DEFINE T == {n \in Nat : i + n <= N => s[i] <= s[i + n]}
<1>3. 0 \in T
  <2>1. i + 0 = i /\ s[i] \in Int
    BY <1>2
  <2> QED BY <2>1
<1>4. ASSUME NEW n \in Nat, n \in T PROVE n + 1 \in T
  <2> SUFFICES ASSUME i + (n + 1) <= N PROVE s[i] <= s[i + (n + 1)]
    OBVIOUS
  <2>1. PICK k : k = i + n
    OBVIOUS
  <2>2. k \in 1 .. N - 1 /\ k \in 1 .. N /\ k + 1 \in 1 .. N /\ k + 1 = i + (n + 1)
    BY <2>1
  <2>3. s[i] <= s[k]
    BY <1>4, <2>1, <2>2
  <2>4. s[k] < s[k + 1]
    BY <1>1, <2>2
  <2>5. s[i] \in Int /\ s[k] \in Int /\ s[k + 1] \in Int
    BY <1>2, <2>2
  <2> QED BY <2>2, <2>3, <2>4, <2>5
<1> HIDE DEF T
<1>5. PICK n \in Nat : n = j - i
  OBVIOUS
<1>6. n \in T
  BY <1>3, <1>4, SetInduction
<1>7. i + n = j
  BY <1>5
<1>8. i + n <= N => s[i] <= s[i + n]
  BY <1>6 DEF T
<1>9. i + n <= N
  BY <1>7
<1>10. s[i] <= s[i + n]
  BY <1>8, <1>9
<1> QED BY <1>7, <1>10

\* The two schedules divide the same range.
Scheduled == gen \in Generations /\ settle \in Settlements

\* The bounds of the settlement spans and of their lookahead.
LEMMA SpanBounds ==
  ASSUME Scheduled
  PROVE  /\ SpanCount \in Nat \ {0}
         /\ \A j \in 1 .. SpanCount + 1 :
              settle[j] \in Int /\ Start <= settle[j] /\ settle[j] <= MarketEnd
         /\ \A i, j \in 1 .. SpanCount + 1 : i <= j => settle[i] <= settle[j]
         /\ settle[1] = Start /\ settle[SpanCount + 1] = MarketEnd
         /\ \A j \in 2 .. SpanCount + 1 : Start < settle[j]
         /\ \A j \in 1 .. SpanCount :
              /\ LookaheadBoundExcl(j) \in Int
              /\ settle[j + 1] <= LookaheadBoundExcl(j) /\ LookaheadBoundExcl(j) <= MarketEnd
         /\ Start \in Int /\ MarketEnd \in Int
         /\ \A k \in 1 .. Len(gen) : gen[k] <= MarketEnd
<1>1. /\ settle \in Seq(Int) /\ Len(settle) >= 2
      /\ \A k \in 1 .. (Len(settle) - 1) : settle[k] < settle[k + 1]
      /\ settle[1] = gen[1] /\ settle[Len(settle)] = gen[Len(gen)]
  BY SettlementsAssumption DEF Scheduled
<1>2. PICK c \in Nat \ {0} : c = SpanCount /\ Len(settle) = c + 1
  <2>1. Len(settle) \in Nat
    BY <1>1, LenProperties
  <2>2. PICK n \in Nat : n = Len(settle) /\ n >= 2
    BY <1>1, <2>1
  <2>3. SpanCount = n - 1 /\ n - 1 \in Nat \ {0} /\ Len(settle) = (n - 1) + 1
    BY <2>2 DEF SpanCount
  <2> QED BY <2>3
<1>3. \A j \in 1 .. c + 1 : settle[j] \in Int
  BY <1>1, <1>2, ElementOfSeq
<1>4. \A i, j \in 1 .. c + 1 : i <= j => settle[i] <= settle[j]
  BY <1>1, <1>2, Ascending
<1>5. settle[1] = Start /\ settle[c + 1] = MarketEnd
  BY <1>1, <1>2 DEF Start, MarketEnd
<1>6. 1 \in 1 .. c + 1 /\ 2 \in 1 .. c + 1 /\ c + 1 \in 1 .. c + 1
  OBVIOUS
<1>7. Start \in Int /\ MarketEnd \in Int
  BY <1>3, <1>5, <1>6
<1>8. \A j \in 1 .. c + 1 : Start <= settle[j] /\ settle[j] <= MarketEnd
  BY <1>4, <1>5, <1>6
<1>9. ASSUME NEW j \in 2 .. c + 1 PROVE Start < settle[j]
  <2>1. settle[1] < settle[2]
    BY <1>1, <1>2
  <2>2. settle[2] <= settle[j] /\ settle[2] \in Int /\ settle[j] \in Int
    BY <1>3, <1>4, <1>6
  <2> QED BY <1>5, <1>7, <2>1, <2>2
<1>10. ASSUME NEW j \in 1 .. c
       PROVE  /\ LookaheadBoundExcl(j) \in Int
              /\ settle[j + 1] <= LookaheadBoundExcl(j) /\ LookaheadBoundExcl(j) <= MarketEnd
  <2>1. PICK x \in Int : x = settle[j + 1] /\ x <= MarketEnd
    BY <1>3, <1>8
  <2> QED BY <1>7, <2>1, SettlementsAssumption DEF LookaheadBoundExcl
<1>11. ASSUME NEW k \in 1 .. Len(gen) PROVE gen[k] <= MarketEnd
  <2>1. /\ gen \in Seq(Int) /\ Len(gen) \in Nat /\ Len(gen) >= 2
        /\ \A i \in 1 .. (Len(gen) - 1) : gen[i] < gen[i + 1]
    BY GenerationsAssumption, LenProperties DEF Scheduled
  <2>2. Len(gen) \in 1 .. Len(gen) /\ k <= Len(gen)
    BY <2>1
  <2>3. gen[k] <= gen[Len(gen)]
    BY <2>1, <2>2, Ascending
  <2> QED BY <2>3 DEF MarketEnd
<1> QED BY <1>2, <1>3, <1>4, <1>5, <1>7, <1>8, <1>9, <1>10, <1>11

\* What a call takes from a set of rows: those of the span, and those it looks at.
LookRows(S, j) == IF j = SpanCount THEN From(S, settle[j + 1])
                  ELSE In(S, settle[j + 1], LookaheadBoundExcl(j))
CallOf(S, j) == [items |-> Sorted(In(S, settle[j], settle[j + 1])),
                 look  |-> Sorted(LookRows(S, j)),
                 bound |-> settle[j + 1]]

\* The slices of the sorted rows are those rows, and end where the span does.
LEMMA CallIs ==
  ASSUME NEW S \in SUBSET Row, IsFiniteSet(S), Scheduled, NEW j \in 1 .. SpanCount
  PROVE  /\ Call(Sorted(S), j) = CallOf(S, j)
         /\ SpanEnd(Sorted(S), j) = Cardinality(Up(S, settle[j + 1]))
<1>1. PICK x \in Int : x = settle[j]
  BY SpanBounds
<1>2. PICK y \in Int : y = settle[j + 1]
  BY SpanBounds
<1>3. x <= y
  <2>1. j \in 1 .. SpanCount + 1 /\ j + 1 \in 1 .. SpanCount + 1 /\ j <= j + 1
    BY SpanBounds
  <2> QED BY <1>1, <1>2, <2>1, SpanBounds
<1>4. PICK q : q = Sorted(S)
  OBVIOUS
<1>5. PICK b \in Nat : b = Cardinality(Up(S, x))
  BY Parts
<1>6. PICK e \in Nat : e = Cardinality(Up(S, y))
  BY Parts
<1>7. b <= e
  BY <1>3, <1>5, <1>6, Parts
<1>8. SpanBegin(q, j) = b
  <2>1. 0 <= Cardinality(Up(S, x))
    BY <1>5
  <2>2. SliceTo(Sorted(S), 0, x) = Cardinality(Up(S, x))
    BY <2>1, SliceCount
  <2> QED BY <1>1, <1>4, <1>5, <2>2 DEF SpanBegin
<1>9. SpanEnd(q, j) = e
  <2>1. b <= Cardinality(Up(S, y))
    BY <1>6, <1>7
  <2>2. SliceTo(Sorted(S), b, y) = Cardinality(Up(S, y))
    BY <2>1, SliceCount
  <2> QED BY <1>2, <1>4, <1>6, <1>8, <2>2 DEF SpanEnd
<1>10. SubSeq(q, b + 1, e) = Sorted(In(S, x, y))
  BY <1>3, <1>4, <1>5, <1>6, SliceRange
<1>11. SubSeq(q, e + 1, LookEnd(q, j)) = Sorted(LookRows(S, j))
  <2>1. CASE j = SpanCount
    <3>1. LookEnd(q, j) = Len(q) /\ LookRows(S, j) = From(S, y)
      BY <1>2, <2>1 DEF LookEnd, LookRows
    <3>2. y <= y
      OBVIOUS
    <3>3. SubSeq(Sorted(S), Cardinality(Up(S, y)) + 1, Len(Sorted(S))) = Sorted(From(S, y))
      BY <3>2, SliceRange
    <3> QED BY <1>4, <1>6, <3>1, <3>3
  <2>2. CASE j # SpanCount
    <3>1. PICK z \in Int : z = LookaheadBoundExcl(j) /\ y <= z
      BY <1>2, SpanBounds
    <3>2. PICK l \in Nat : l = Cardinality(Up(S, z)) /\ e <= l
      BY <1>6, <3>1, Parts
    <3>3. e <= Cardinality(Up(S, z))
      BY <3>2
    <3>4. SliceTo(Sorted(S), e, z) = Cardinality(Up(S, z))
      BY <3>3, SliceCount
    <3>5. LookEnd(q, j) = l /\ LookRows(S, j) = In(S, y, z)
      BY <1>2, <1>4, <1>9, <2>2, <3>1, <3>2, <3>4 DEF LookEnd, LookRows
    <3>6. SubSeq(Sorted(S), Cardinality(Up(S, y)) + 1, Cardinality(Up(S, z)))
            = Sorted(In(S, y, z))
      BY <3>1, SliceRange
    <3> QED BY <1>4, <1>6, <3>2, <3>5, <3>6
  <2> QED BY <2>1, <2>2
<1> QED BY <1>1, <1>2, <1>4, <1>6, <1>8, <1>9, <1>10, <1>11 DEF Call, CallOf

\* What the slices leave: the rows that are not before the end of the span.
LEMMA RestIs ==
  ASSUME NEW S \in SUBSET Row, IsFiniteSet(S), Scheduled, NEW j \in 1 .. SpanCount
  PROVE  SubSeq(Sorted(S), SpanEnd(Sorted(S), j) + 1, Len(Sorted(S)))
           = Sorted(From(S, settle[j + 1]))
<1>1. PICK y \in Int : y = settle[j + 1]
  BY SpanBounds
<1>2. SpanEnd(Sorted(S), j) = Cardinality(Up(S, y))
  BY <1>1, CallIs
<1>3. y <= y
  OBVIOUS
<1>4. SubSeq(Sorted(S), Cardinality(Up(S, y)) + 1, Len(Sorted(S))) = Sorted(From(S, y))
  BY <1>3, SliceRange
<1> QED BY <1>1, <1>2, <1>4

-----------------------------------------------------------------------------
\* The rows of the market, those that have come in and those that are open.

\* The rows of the market when G was generated, those that have come in before cov,
\* and those of them that are not settled when span k is the next one.
Market(G) == In(G \cup External(1, CalendarTs) \cup External(2, CursorTs), Start, MarketEnd)
ArrivedBy(G, cov) ==
  {r \in G \cup {c \in External(1, CalendarTs) : Start <= c.ts} \cup External(2, CursorTs) :
     Start < cov /\ r.ts < cov}
OpenRows(G, cov, k) == {r \in ArrivedBy(G, cov) : k > 1 => settle[k] <= r.ts}

\* The rows of a source are finitely many.
LEMMA SourceRows ==
  ASSUME NEW src \in Int, NEW Ts \in SUBSET Int, IsFiniteSet(Ts)
  PROVE  External(src, Ts) \in SUBSET Row /\ IsFiniteSet(External(src, Ts))
<1>1. PICK f : f = [t \in Ts |-> [ts |-> t, day |-> t, src |-> src]]
  OBVIOUS
<1>2. f \in Surjection(Ts, External(src, Ts))
  BY <1>1 DEF External, Surjection
<1>3. IsFiniteSet(External(src, Ts))
  BY <1>2, FS_Surjection
<1> QED BY <1>3 DEF External, Row

\* So are the rows of the market, and the open ones.
LEMMA RowSets ==
  ASSUME NEW G \in SUBSET Row, IsFiniteSet(G), NEW cov, NEW k
  PROVE  /\ Market(G) \in SUBSET Row /\ IsFiniteSet(Market(G))
         /\ OpenRows(G, cov, k) \in SUBSET Row /\ IsFiniteSet(OpenRows(G, cov, k))
<1>1. PICK C : C = External(1, CalendarTs)
  OBVIOUS
<1>2. PICK D : D = External(2, CursorTs)
  OBVIOUS
<1>3. C \in SUBSET Row /\ IsFiniteSet(C) /\ D \in SUBSET Row /\ IsFiniteSet(D)
  BY <1>1, <1>2, SourcesAssumption, SourceRows
<1>4. PICK W : W = G \cup C \cup D
  OBVIOUS
<1>5. W \in SUBSET Row /\ IsFiniteSet(W)
  <2>1. IsFiniteSet(G \cup C)
    BY <1>3, FS_Union
  <2>2. IsFiniteSet((G \cup C) \cup D)
    BY <1>3, <2>1, FS_Union
  <2> QED BY <1>3, <1>4, <2>2
<1>6. Market(G) \in SUBSET W /\ OpenRows(G, cov, k) \in SUBSET W
  BY <1>1, <1>2, <1>4 DEF Market, In, OpenRows, ArrivedBy
<1> QED BY <1>5, <1>6, FS_Subset

\* The spans that are ready are the next ones, and all of them are covered.
LEMMA ReadyIs ==
  ASSUME Scheduled, span \in 1 .. SpanCount + 1, NEW cov, NEW fin,
         NEW n, n = Cardinality(Ready(cov, fin))
  PROVE  /\ n \in Nat /\ span + n \in 1 .. SpanCount + 1
         /\ \A j \in span .. span + n - 1 : Covered(j, cov, fin)
<1>1. PICK c \in Nat \ {0} : c = SpanCount
  BY SpanBounds
<1>2. PICK S : S = Ready(cov, fin)
  OBVIOUS
<1>3. /\ S \in SUBSET (0 .. c)
      /\ \A j \in S : j \in span .. c /\ \A i \in span .. j : i \in S /\ Covered(i, cov, fin)
  <2>1. \A j \in S : j \in span .. c /\ \A i \in span .. j : Covered(i, cov, fin)
    BY <1>1, <1>2 DEF Ready
  <2>2. span \in Nat
    BY <1>1
  <2>3. ASSUME NEW j \in S, NEW i \in span .. j PROVE i \in S
    <3>1. i \in span .. c
      BY <1>1, <2>1, <2>2, <2>3
    <3>2. \A k \in span .. i : k \in span .. j
      BY <2>1, <2>2, <2>3
    <3>3. \A k \in span .. i : Covered(k, cov, fin)
      BY <2>1, <3>2
    <3> QED BY <1>1, <1>2, <3>1, <3>3 DEF Ready
  <2> QED BY <2>1, <2>2, <2>3
<1>4. CASE S = {}
  <2>1. n = 0
    BY <1>2, <1>4, FS_EmptySet
  <2> QED BY <1>1, <2>1
<1>5. CASE S # {}
  <2>1. PICK m \in S : \A k \in S : k <= m
    BY <1>3, <1>5, Greatest
  <2>2. m \in Nat /\ span \in Nat /\ span <= m /\ m <= c
    BY <1>1, <1>3, <2>1
  <2>3. S = span .. m
    <3>1. \A j \in S : j \in span .. m
      BY <1>3, <2>1, <2>2
    <3>2. \A i \in span .. m : i \in S
      BY <1>3, <2>1
    <3> QED BY <3>1, <3>2
  <2>4. Cardinality(span .. m) = m - span + 1
    BY <2>2, FS_Interval
  <2>5. n = m - span + 1
    BY <1>2, <2>3, <2>4
  <2>6. n \in Nat /\ span + n = m + 1
    BY <2>2, <2>5
  <2>7. \A j \in span .. m : Covered(j, cov, fin)
    BY <1>3, <2>3
  <2>8. span + n - 1 = m
    BY <2>2, <2>5
  <2> QED BY <1>1, <2>2, <2>6, <2>7, <2>8
<1> QED BY <1>4, <1>5

\* A span that is covered takes the same rows from the stage as from the market.
LEMMA SameCall ==
  ASSUME Scheduled, NEW G \in SUBSET Row, IsFiniteSet(G), \A r \in G : Start <= r.ts,
         NEW cov \in Int, Start <= cov, cov <= MarketEnd,
         NEW fin, fin => cov = MarketEnd,
         NEW k \in 1 .. SpanCount, NEW j \in 1 .. SpanCount, k <= j, Covered(j, cov, fin)
  PROVE  CallOf(OpenRows(G, cov, k), j) = CallOf(Market(G), j) /\ settle[j + 1] <= cov
<1>1. PICK Y : Y = OpenRows(G, cov, k)
  OBVIOUS
<1>2. PICK M : M = Market(G)
  OBVIOUS
<1>3. Y \in SUBSET Row /\ M \in SUBSET Row
  BY <1>1, <1>2, RowSets
<1>4. /\ Start \in Int /\ MarketEnd \in Int
      /\ settle[j] \in Int /\ settle[k] \in Int /\ settle[j + 1] \in Int
      /\ Start <= settle[j] /\ settle[k] <= settle[j] /\ settle[j] <= settle[j + 1]
      /\ settle[j + 1] <= MarketEnd
  <2>1. j \in 1 .. SpanCount + 1 /\ k \in 1 .. SpanCount + 1 /\ j + 1 \in 1 .. SpanCount + 1
        /\ j <= j + 1
    BY SpanBounds
  <2> QED BY <2>1, SpanBounds
<1>5. /\ settle[j + 1] <= cov
      /\ j # SpanCount => /\ LookaheadBoundExcl(j) \in Int /\ LookaheadBoundExcl(j) <= cov
                          /\ settle[j + 1] <= LookaheadBoundExcl(j)
      /\ j = SpanCount => settle[j + 1] = MarketEnd /\ cov = MarketEnd
  <2>1. /\ LookaheadBoundExcl(j) \in Int /\ settle[j + 1] <= LookaheadBoundExcl(j)
        /\ LookaheadBoundExcl(j) <= MarketEnd /\ settle[SpanCount + 1] = MarketEnd
    BY SpanBounds
  <2>2. fin \/ (j # SpanCount /\ LookaheadBoundExcl(j) <= cov)
    BY DEF Covered
  <2>3. CASE fin
    BY <1>4, <2>1, <2>3
  <2>4. CASE j # SpanCount /\ LookaheadBoundExcl(j) <= cov
    BY <1>4, <2>1, <2>4
  <2> QED BY <2>2, <2>3, <2>4
<1>6. ASSUME NEW r \in Row, settle[j] <= r.ts, r.ts < cov PROVE r \in Y <=> r \in M
  <2>1. r.ts \in Int
    BY DEF Row
  <2>2. Start <= r.ts /\ r.ts < MarketEnd /\ Start < cov /\ settle[k] <= r.ts
    BY <1>4, <1>6, <2>1
  <2> QED BY <1>1, <1>2, <1>6, <2>2 DEF OpenRows, ArrivedBy, Market, In
<1>7. In(Y, settle[j], settle[j + 1]) = In(M, settle[j], settle[j + 1])
  <2>1. ASSUME NEW r \in Row, settle[j] <= r.ts, r.ts < settle[j + 1] PROVE r \in Y <=> r \in M
    <3>1. r.ts \in Int
      BY DEF Row
    <3>2. r.ts < cov
      BY <1>4, <1>5, <2>1, <3>1
    <3> QED BY <1>6, <2>1, <3>2
  <2> QED BY <1>3, <2>1 DEF In
<1>8. LookRows(Y, j) = LookRows(M, j)
  <2>1. CASE j = SpanCount
    <3>1. ASSUME NEW r \in Row, settle[j + 1] <= r.ts PROVE r \notin Y /\ r \notin M
      <4>1. r.ts \in Int
        BY DEF Row
      <4>2. ~(r.ts < cov) /\ ~(r.ts < MarketEnd)
        BY <1>4, <1>5, <2>1, <3>1, <4>1
      <4> QED BY <1>1, <1>2, <4>2 DEF OpenRows, ArrivedBy, Market, In
    <3>2. From(Y, settle[j + 1]) = From(M, settle[j + 1])
      BY <1>3, <3>1 DEF From
    <3> QED BY <2>1, <3>2 DEF LookRows
  <2>2. CASE j # SpanCount
    <3>1. PICK z \in Int : z = LookaheadBoundExcl(j) /\ z <= cov
      BY <1>5, <2>2
    <3>2. ASSUME NEW r \in Row, settle[j + 1] <= r.ts, r.ts < z PROVE r \in Y <=> r \in M
      <4>1. r.ts \in Int
        BY DEF Row
      <4>2. settle[j] <= r.ts /\ r.ts < cov
        BY <1>4, <3>1, <3>2, <4>1
      <4> QED BY <1>6, <4>2
    <3>3. In(Y, settle[j + 1], z) = In(M, settle[j + 1], z)
      BY <1>3, <3>2 DEF In
    <3> QED BY <2>2, <3>1, <3>3 DEF LookRows
  <2> QED BY <2>1, <2>2
<1> QED BY <1>1, <1>2, <1>5, <1>7, <1>8 DEF CallOf

CallSet == [items : Seq(Row), look : Seq(Row), bound : Int]

\* Rows in order are a sequence of rows.
LEMMA SortedType ==
  ASSUME NEW S \in SUBSET Row, IsFiniteSet(S)
  PROVE  Sorted(S) \in Seq(Row)
<1>1. PICK q : q = Sorted(S)
  OBVIOUS
<1>2. q \in Seq(S)
  BY <1>1, SortedIs
<1> QED BY <1>1, <1>2

\* What a call takes are rows in order.
LEMMA CallType ==
  ASSUME Scheduled, NEW S \in SUBSET Row, IsFiniteSet(S), NEW j \in 1 .. SpanCount
  PROVE  CallOf(S, j) \in CallSet
<1>1. PICK x \in Int : x = settle[j]
  BY SpanBounds
<1>2. PICK y \in Int : y = settle[j + 1]
  BY SpanBounds
<1>3. Sorted(In(S, x, y)) \in Seq(Row)
  BY Parts, SortedType
<1>4. Sorted(LookRows(S, j)) \in Seq(Row)
  <2>1. CASE j = SpanCount
    <3>1. LookRows(S, j) = From(S, y)
      BY <1>2, <2>1 DEF LookRows
    <3>2. Sorted(From(S, y)) \in Seq(Row)
      BY Parts, SortedType
    <3> QED BY <3>1, <3>2
  <2>2. CASE j # SpanCount
    <3>1. PICK z \in Int : z = LookaheadBoundExcl(j)
      BY SpanBounds
    <3>2. LookRows(S, j) = In(S, y, z)
      BY <1>2, <2>2, <3>1 DEF LookRows
    <3>3. Sorted(In(S, y, z)) \in Seq(Row)
      BY Parts, SortedType
    <3> QED BY <3>2, <3>3
  <2> QED BY <2>1, <2>2
<1> QED BY <1>1, <1>2, <1>3, <1>4 DEF CallOf, CallSet

\* settlePreSpans on the rows that are open: the spans that it settles are settled as
\* in the full range, and the rows that are open then stay.
LEMMA SettleStep ==
  ASSUME Scheduled, NEW G \in SUBSET Row, IsFiniteSet(G), \A r \in G : Start <= r.ts,
         NEW cov \in Int, Start <= cov, cov <= MarketEnd,
         NEW fin, fin => cov = MarketEnd,
         span \in 1 .. SpanCount + 1, span > 1 => settle[span] <= cov,
         calls \in Seq(CallSet), Len(calls) = span - 1,
         SettlePreSpans(Sorted(OpenRows(G, cov, span)), cov, fin)
  PROVE  /\ span' \in 1 .. SpanCount + 1 /\ span <= span'
         /\ span' > 1 => settle[span'] <= cov
         /\ stage' = Sorted(OpenRows(G, cov, span'))
         /\ calls' \in Seq(CallSet) /\ Len(calls') = span' - 1
         /\ \A j \in 1 .. span - 1 : calls'[j] = calls[j]
         /\ \A j \in span .. span' - 1 :
              calls'[j] = CallOf(Market(G), j) /\ Covered(j, cov, fin)
<1>1. PICK n : n = Cardinality(Ready(cov, fin))
  OBVIOUS
<1>2. PICK k \in 1 .. SpanCount + 1 : k = span
  OBVIOUS
<1>3. PICK c \in Nat \ {0} : c = SpanCount
  BY SpanBounds
<1>4. /\ n \in Nat /\ k + n \in 1 .. c + 1
      /\ \A j \in k .. k + n - 1 : Covered(j, cov, fin)
  BY <1>1, <1>2, <1>3, ReadyIs
<1>5. PICK Y : Y = OpenRows(G, cov, k)
  OBVIOUS
<1>6. Y \in SUBSET Row /\ IsFiniteSet(Y) /\ Market(G) \in SUBSET Row /\ IsFiniteSet(Market(G))
  BY <1>5, RowSets
<1>7. PICK rows : rows = Sorted(Y)
  OBVIOUS
<1>8. /\ calls' = calls \o [i \in 1 .. n |-> Call(rows, k + i - 1)]
      /\ span' = k + n
      /\ stage' = IF n = 0 THEN rows
                  ELSE SubSeq(rows, SpanEnd(rows, k + n - 1) + 1, Len(rows))
  BY <1>1, <1>2, <1>5, <1>7 DEF SettlePreSpans
<1>9. ASSUME NEW j \in k .. k + n - 1
      PROVE  /\ j \in 1 .. c /\ Covered(j, cov, fin) /\ settle[j + 1] <= cov
             /\ Call(rows, j) = CallOf(Market(G), j) /\ Call(rows, j) \in CallSet
  <2>1. j \in 1 .. c /\ k \in 1 .. c /\ k <= j
    BY <1>3, <1>4
  <2>2. Covered(j, cov, fin)
    BY <1>4
  <2>3. CallOf(Y, j) = CallOf(Market(G), j) /\ settle[j + 1] <= cov
    BY <1>3, <1>5, <2>1, <2>2, SameCall
  <2>4. Call(rows, j) = CallOf(Y, j)
    BY <1>3, <1>6, <1>7, <2>1, CallIs
  <2>5. CallOf(Y, j) \in CallSet
    BY <1>3, <1>6, <2>1, CallType
  <2> QED BY <2>1, <2>2, <2>3, <2>4, <2>5
<1>10. PICK new : new = [i \in 1 .. n |-> Call(rows, k + i - 1)]
  OBVIOUS
<1>11. new \in Seq(CallSet) /\ Len(new) = n
  <2>1. \A i \in 1 .. n : Call(rows, k + i - 1) \in CallSet
    <3> TAKE i \in 1 .. n
    <3>1. PICK j : j = k + i - 1
      OBVIOUS
    <3>2. j \in k .. k + n - 1
      BY <1>3, <1>4, <3>1
    <3> QED BY <1>9, <3>1, <3>2
  <2> DEFINE call(i) == Call(rows, k + i - 1)
  <2>2. new = [i \in 1 .. n |-> call(i)] /\ \A i \in 1 .. n : call(i) \in CallSet
    BY <1>10, <2>1
  <2> HIDE DEF call
  <2> QED BY <1>4, <2>2
<1>12. PICK all : all = calls \o new
  OBVIOUS
<1>13. /\ all \in Seq(CallSet) /\ Len(all) = (k - 1) + n
       /\ \A i \in 1 .. (k - 1) + n : all[i] = IF i <= k - 1 THEN calls[i] ELSE new[i - (k - 1)]
  <2>1. PICK m \in Nat : m = Len(calls) /\ m = k - 1
    BY <1>2, <1>3
  <2>2. /\ all \in Seq(CallSet) /\ Len(all) = Len(calls) + Len(new)
        /\ \A i \in 1 .. Len(calls) + Len(new) :
             all[i] = IF i <= Len(calls) THEN calls[i] ELSE new[i - Len(calls)]
    BY <1>11, <1>12, ConcatProperties
  <2> QED BY <1>11, <2>1, <2>2
<1>14. calls' = all /\ span' = k + n /\ k - 1 \in Nat
  BY <1>3, <1>8, <1>10, <1>12
<1>15. \A j \in 1 .. k - 1 : all[j] = calls[j]
  BY <1>4, <1>13, <1>14
<1>16. ASSUME NEW j \in k .. k + n - 1 PROVE all[j] = CallOf(Market(G), j)
  <2>1. PICK i : i = j - (k - 1)
    OBVIOUS
  <2>2. i \in 1 .. n /\ j \in 1 .. (k - 1) + n /\ ~(j <= k - 1) /\ k + i - 1 = j
    BY <1>3, <1>4, <2>1
  <2>3. all[j] = new[i]
    BY <1>13, <2>1, <2>2
  <2>4. new[i] = Call(rows, j)
    BY <1>10, <2>2
  <2> QED BY <1>9, <2>3, <2>4
<1>17. /\ k + n > 1 => settle[k + n] <= cov
       /\ stage' = Sorted(OpenRows(G, cov, k + n))
  <2>1. CASE n = 0
    BY <1>2, <1>5, <1>7, <1>8, <2>1
  <2>2. CASE n # 0
    <3>1. PICK j : j = k + n - 1
      OBVIOUS
    <3>2. j \in k .. k + n - 1 /\ j + 1 = k + n /\ j \in 1 .. c /\ k + n > 1
      BY <1>3, <1>4, <2>2, <3>1
    <3>3. PICK y \in Int : y = settle[j + 1] /\ y <= cov
      <4>1. settle[j + 1] \in Int /\ settle[j + 1] <= cov
        BY <1>3, <1>9, <3>2, SpanBounds
      <4> QED BY <4>1
    <3>4. SubSeq(rows, SpanEnd(rows, j) + 1, Len(rows)) = Sorted(From(Y, y))
      BY <1>3, <1>6, <1>7, <3>2, <3>3, RestIs
    <3>5. settle[k] \in Int /\ settle[k] <= y
      <4>1. k \in 1 .. c + 1 /\ k + n \in 1 .. c + 1 /\ k <= k + n
        BY <1>3, <1>4
      <4>2. settle[k] \in Int /\ settle[k] <= settle[k + n]
        BY <1>3, <4>1, SpanBounds
      <4> QED BY <3>2, <3>3, <4>2
    <3>6. From(Y, y) = OpenRows(G, cov, k + n)
      <4>1. \A r \in Y : r.ts \in Int
        BY <1>6 DEF Row
      <4>2. \A r \in ArrivedBy(G, cov) : r.ts \in Int
        <5>1. OpenRows(G, cov, 0) \in SUBSET Row
          BY RowSets
        <5>2. ArrivedBy(G, cov) = OpenRows(G, cov, 0)
          BY DEF OpenRows
        <5> QED BY <5>1, <5>2 DEF Row
      <4>3. \A r \in ArrivedBy(G, cov) : y <= r.ts => settle[k] <= r.ts
        BY <3>3, <3>5, <4>2
      <4>4. y = settle[k + n]
        BY <3>2, <3>3
      <4> QED BY <1>5, <3>2, <4>3, <4>4 DEF From, OpenRows
    <3>7. stage' = SubSeq(rows, SpanEnd(rows, j) + 1, Len(rows))
      BY <1>8, <2>2, <3>1
    <3>8. settle[k + n] <= cov
      BY <3>2, <3>3
    <3> QED BY <3>4, <3>6, <3>7, <3>8
  <2> QED BY <2>1, <2>2
<1>18. k <= k + n /\ Len(all) = (k + n) - 1
  BY <1>3, <1>4, <1>13
<1>19. span' \in 1 .. SpanCount + 1 /\ span <= span'
  BY <1>2, <1>3, <1>4, <1>14, <1>18
<1>20. (span' > 1 => settle[span'] <= cov) /\ stage' = Sorted(OpenRows(G, cov, span'))
  BY <1>14, <1>17
<1>21. calls' \in Seq(CallSet) /\ Len(calls') = span' - 1
  BY <1>13, <1>14, <1>18
<1>22. \A j \in 1 .. span - 1 : calls'[j] = calls[j]
  BY <1>2, <1>14, <1>15
<1>23. \A j \in span .. span' - 1 : calls'[j] = CallOf(Market(G), j) /\ Covered(j, cov, fin)
  BY <1>2, <1>4, <1>14, <1>16
<1> QED BY <1>19, <1>20, <1>21, <1>22, <1>23

-----------------------------------------------------------------------------
\* The invariant of the driver, and the steps that preserve it.

\* What the driver and the session hold between two windows: the watermark is how far
\* the driver has come, the session keeps the rows from it on, the stage holds the
\* rows before it that are not settled, and the spans before the next one were settled
\* with the rows they would have been settled with had all of them been there.
SettleInv ==
  /\ settle \in Settlements
  /\ generated \in SUBSET Row /\ IsFiniteSet(generated) /\ \A r \in generated : Start <= r.ts
  /\ coverage \in Int /\ coverage = finalizedThrough
  /\ Start <= coverage /\ coverage <= MarketEnd
  /\ pending = From(generated, coverage)
  /\ cursor = {t \in CursorTs : Start < coverage => coverage <= t}
  /\ span \in 1 .. SpanCount + 1 /\ (span > 1 => settle[span] <= coverage)
  /\ stage = Sorted(OpenRows(generated, coverage, span))
  /\ calls \in Seq(CallSet) /\ Len(calls) = span - 1
  /\ \A j \in 1 .. span - 1 : calls[j] = CallOf(Market(generated), j)
  /\ status = "running" => \A j \in 1 .. span - 1 :
                             j # SpanCount /\ LookaheadBoundExcl(j) <= coverage

\* New rows from the watermark on: the calls already made are those of the market with
\* them.
LEMMA OldCalls ==
  ASSUME Scheduled, NEW G \in SUBSET Row, NEW new \in SUBSET Row, NEW w \in Int,
         \A r \in new : w <= r.ts,
         NEW j \in 1 .. SpanCount, j # SpanCount, LookaheadBoundExcl(j) <= w
  PROVE  CallOf(Market(G), j) = CallOf(Market(G \cup new), j)
<1>1. PICK z \in Int : z = LookaheadBoundExcl(j) /\ z <= w
  BY SpanBounds
<1>2. PICK y \in Int : y = settle[j + 1] /\ y <= z
  BY <1>1, SpanBounds
<1>3. PICK x : x = settle[j]
  OBVIOUS
<1>4. \A r \in new : ~(r.ts < y) /\ ~(r.ts < z)
  BY <1>1, <1>2 DEF Row
<1>5. PICK M : M = Market(G)
  OBVIOUS
<1>6. PICK N : N = Market(G \cup new)
  OBVIOUS
<1>7. \A r : r \notin new => (r \in M <=> r \in N)
  BY <1>5, <1>6 DEF Market, In
<1>8. \A r \in M : r \in N
  BY <1>5, <1>6 DEF Market, In
<1>9. In(M, x, y) = In(N, x, y) /\ In(M, y, z) = In(N, y, z)
  BY <1>4, <1>7, <1>8 DEF In
<1>10. LookRows(M, j) = In(M, y, z) /\ LookRows(N, j) = In(N, y, z)
  BY <1>1, <1>2 DEF LookRows
<1> QED BY <1>2, <1>3, <1>5, <1>6, <1>9, <1>10 DEF CallOf

\* The rows that feedFinalized hands to settlePreSpans, the stage with those of the
\* new interval, are the open rows up to its bound.
LEMMA StagedIs ==
  ASSUME Scheduled, SettleInv, NEW new \in SUBSET Row, IsFiniteSet(new),
         \A r \in new : coverage <= r.ts,
         NEW bound \in Int, coverage < bound, bound <= MarketEnd
  PROVE  Staged(In(pending \cup new, coverage, bound), coverage, bound)
           = Sorted(OpenRows(generated \cup new, bound, span))
<1> USE DEF SettleInv
<1>1. PICK w \in Int : w = coverage /\ Start <= w /\ w < bound
  OBVIOUS
<1>2. Start \in Int /\ MarketEnd \in Int
  BY SpanBounds
<1>3. PICK k \in 1 .. SpanCount + 1 : k = span /\ (k > 1 => settle[k] <= w)
  BY <1>1
<1>4. settle[k] \in Int /\ (k > 1 => Start < settle[k])
  <2>1. k > 1 => k \in 2 .. SpanCount + 1
    BY <1>3, SpanBounds
  <2> QED BY <2>1, SpanBounds
<1>5. PICK C : C = External(1, CalendarTs)
  OBVIOUS
<1>6. PICK D : D = External(2, CursorTs)
  OBVIOUS
<1>7. C \in SUBSET Row /\ IsFiniteSet(C) /\ D \in SUBSET Row /\ IsFiniteSet(D)
  BY <1>5, <1>6, SourcesAssumption, SourceRows
<1>8. PICK L : L = {r \in External(2, cursor) : r.ts < bound}
  OBVIOUS
<1>9. L = {r \in D : r.ts < bound /\ (Start < w => w <= r.ts)}
  BY <1>1, <1>6, <1>8 DEF External
<1>10. PICK P : P = In(pending \cup new, w, bound)
  OBVIOUS
<1>11. P = In(generated \cup new, w, bound)
  <2>1. \A r \in generated : r.ts \in Int
    BY DEF Row
  <2>2. pending = {r \in generated : w <= r.ts}
    BY <1>1 DEF From
  <2> QED BY <1>10, <2>2 DEF In
<1>12. PICK N : N = P \cup In(C, w, bound) \cup L
  OBVIOUS
<1>13. N \in SUBSET Row /\ IsFiniteSet(N)
  <2>1. IsFiniteSet(generated \cup new)
    BY FS_Union
  <2>2. P \in SUBSET (generated \cup new) /\ In(C, w, bound) \in SUBSET C /\ L \in SUBSET D
    BY <1>9, <1>11 DEF In
  <2>3. IsFiniteSet(P) /\ IsFiniteSet(In(C, w, bound)) /\ IsFiniteSet(L)
    BY <1>7, <2>1, <2>2, FS_Subset
  <2>4. IsFiniteSet(P \cup In(C, w, bound))
    BY <2>3, FS_Union
  <2>5. IsFiniteSet((P \cup In(C, w, bound)) \cup L)
    BY <2>3, <2>4, FS_Union
  <2> QED BY <1>7, <1>12, <2>2, <2>5
<1>14. PICK X : X = OpenRows(generated, w, k)
  OBVIOUS
<1>15. X \in SUBSET Row /\ IsFiniteSet(X)
  BY <1>14, RowSets
<1>16. \A x \in X, n \in N : x.ts < n.ts
  <2> SUFFICES ASSUME NEW x \in X, NEW n \in N PROVE x.ts < n.ts
    OBVIOUS
  <2>1. x.ts \in Int /\ n.ts \in Int
    BY <1>13, <1>15 DEF Row
  <2>2. Start < w /\ x.ts < w
    BY <1>14 DEF OpenRows, ArrivedBy
  <2>3. w <= n.ts
    BY <1>9, <1>11, <1>12, <2>2 DEF In
  <2> QED BY <1>1, <2>1, <2>2, <2>3
<1>17. X \cup N = OpenRows(generated \cup new, bound, k)
  <2>1. PICK G : G = generated \cup new
    OBVIOUS
  <2>2. \A r \in G \cup C \cup D : r.ts \in Int
    BY <1>7, <2>1 DEF Row
  <2>3. \A r \in G : Start <= r.ts
    BY <1>1, <1>2, <2>1, <2>2
  <2>4. \A r \in generated : r.ts < w \/ r \in In(G, w, bound) \/ ~(r.ts < bound)
    BY <1>1, <2>1, <2>2 DEF In
  <2>5. ASSUME NEW r \in X PROVE r \in OpenRows(G, bound, k)
    <3>1. r.ts \in Int
      BY <1>15 DEF Row
    <3>2. Start < w /\ r.ts < w /\ (k > 1 => settle[k] <= r.ts)
      BY <1>14 DEF OpenRows, ArrivedBy
    <3>3. Start < bound /\ r.ts < bound
      BY <1>1, <1>2, <3>1, <3>2
    <3>4. r \in generated \/ (r \in C /\ Start <= r.ts) \/ r \in D
      BY <1>5, <1>6, <1>14 DEF OpenRows, ArrivedBy
    <3> QED BY <1>5, <1>6, <2>1, <3>2, <3>3, <3>4 DEF OpenRows, ArrivedBy
  <2>6. ASSUME NEW r \in N PROVE r \in OpenRows(G, bound, k)
    <3>1. r \in G \cup C \cup D /\ r.ts \in Int /\ r.ts < bound
      BY <1>9, <1>11, <1>12, <2>1, <2>2 DEF In
    <3>2. r \in C /\ r \notin G /\ r \notin D => Start <= r.ts
      BY <1>1, <1>2, <1>9, <1>11, <1>12, <2>1, <3>1 DEF In
    <3>3. Start < bound
      BY <1>1, <1>2
    <3>4. k > 1 => settle[k] <= r.ts
      <4> SUFFICES ASSUME k > 1 PROVE settle[k] <= r.ts
        OBVIOUS
      <4>1. Start < w
        BY <1>1, <1>2, <1>3, <1>4
      <4>2. w <= r.ts
        BY <1>9, <1>11, <1>12, <4>1 DEF In
      <4> QED BY <1>1, <1>3, <1>4, <3>1, <4>2
    <3> QED BY <1>5, <1>6, <3>1, <3>2, <3>3, <3>4 DEF OpenRows, ArrivedBy
  <2>7. ASSUME NEW r \in OpenRows(G, bound, k) PROVE r \in X \cup N
    <3>1. /\ r.ts < bound /\ (k > 1 => settle[k] <= r.ts)
          /\ r \in G \/ (r \in C /\ Start <= r.ts) \/ r \in D
      BY <1>5, <1>6 DEF OpenRows, ArrivedBy
    <3>2. r.ts \in Int
      BY <2>2, <3>1
    <3>3. CASE Start < w /\ r.ts < w
      <4>1. r \in G => r \in generated
        BY <1>1, <2>1, <3>2, <3>3
      <4> QED BY <1>5, <1>6, <1>14, <3>1, <3>3, <4>1 DEF OpenRows, ArrivedBy
    <3>4. CASE ~(Start < w /\ r.ts < w)
      <4>1. Start < w => w <= r.ts
        BY <1>1, <3>2, <3>4
      <4>2. r \in G => w <= r.ts
        BY <1>1, <1>2, <2>3, <3>2, <4>1
      <4>3. Start <= r.ts => w <= r.ts
        BY <1>1, <1>2, <3>2, <4>1
      <4> QED BY <1>9, <1>11, <1>12, <2>1, <3>1, <4>1, <4>2, <4>3 DEF In
    <3> QED BY <3>3, <3>4
  <2> QED BY <2>1, <2>5, <2>6, <2>7
<1>18. Sorted(X \cup N) = Sorted(X) \o Sorted(N)
  BY <1>13, <1>15, <1>16, SortedSplit
<1>19. Staged(P, w, bound) = stage \o Sorted(N)
  BY <1>5, <1>8, <1>12 DEF Staged
<1>20. stage = Sorted(X)
  BY <1>1, <1>3, <1>14
<1> QED BY <1>1, <1>3, <1>10, <1>17, <1>18, <1>19, <1>20

\* What feedFinalized does, in both of its branches: it hands the open rows up to its
\* bound to settlePreSpans.
LEMMA FeedIs ==
  ASSUME Scheduled, SettleInv, NEW new \in SUBSET Row, IsFiniteSet(new),
         \A r \in new : coverage <= r.ts,
         NEW bound \in Int, coverage <= bound, bound <= MarketEnd,
         NEW fin, Feed(pending \cup new, bound, fin)
  PROVE  /\ pending' = From(generated \cup new, bound)
         /\ coverage' = bound /\ finalizedThrough' = bound
         /\ cursor' = {t \in CursorTs : Start < bound => bound <= t}
         /\ SettlePreSpans(Sorted(OpenRows(generated \cup new, bound, span)), bound, fin)
<1>1. /\ coverage \in Int /\ coverage = finalizedThrough /\ Start <= coverage
      /\ pending = From(generated, coverage)
      /\ cursor = {t \in CursorTs : Start < coverage => coverage <= t}
      /\ stage = Sorted(OpenRows(generated, coverage, span))
      /\ generated \in SUBSET Row
  BY DEF SettleInv
<1>2. Start \in Int
  BY SpanBounds
<1>3. /\ pending' = {r \in pending \cup new : r.ts >= bound} /\ finalizedThrough' = bound
      /\ IF bound > finalizedThrough
         THEN /\ coverage' = bound
              /\ cursor' = {t \in cursor : t >= bound}
              /\ SettlePreSpans(Staged(In(pending \cup new, finalizedThrough, bound),
                                       finalizedThrough, bound), bound, fin)
         ELSE /\ coverage' = coverage /\ cursor' = cursor
              /\ SettlePreSpans(stage, coverage, fin)
  BY DEF Feed
<1>4. pending' = From(generated \cup new, bound)
  <2>1. \A r \in generated \cup new : r.ts \in Int
    BY <1>1 DEF Row
  <2>2. \A r \in generated : bound <= r.ts => r \in pending
    BY <1>1, <2>1 DEF From
  <2>3. \A r \in pending : r \in generated
    BY <1>1 DEF From
  <2> QED BY <1>3, <2>1, <2>2, <2>3 DEF From
<1>5. CASE coverage < bound
  <2>1. /\ coverage' = bound
        /\ cursor' = {t \in cursor : t >= bound}
        /\ SettlePreSpans(Staged(In(pending \cup new, coverage, bound), coverage, bound),
                          bound, fin)
    BY <1>1, <1>3, <1>5
  <2>2. Staged(In(pending \cup new, coverage, bound), coverage, bound)
          = Sorted(OpenRows(generated \cup new, bound, span))
    BY <1>5, StagedIs
  <2>3. cursor' = {t \in CursorTs : Start < bound => bound <= t}
    <3>1. \A t \in CursorTs : t \in Int
      BY SourcesAssumption
    <3>2. Start < bound
      BY <1>1, <1>2, <1>5
    <3> QED BY <1>1, <1>5, <2>1, <3>1, <3>2
  <2> QED BY <1>3, <1>4, <2>1, <2>2, <2>3
<1>6. CASE coverage = bound
  <2>1. coverage' = bound /\ cursor' = cursor /\ SettlePreSpans(stage, bound, fin)
    BY <1>1, <1>3, <1>6
  <2>2. OpenRows(generated \cup new, bound, span) = OpenRows(generated, bound, span)
    <3>1. \A r \in new : ~(r.ts < bound)
      BY <1>6 DEF Row
    <3> QED BY <3>1 DEF OpenRows, ArrivedBy
  <2>3. stage = Sorted(OpenRows(generated \cup new, bound, span))
    BY <1>1, <1>6, <2>2
  <2> QED BY <1>1, <1>3, <1>4, <1>6, <2>1, <2>3
<1> QED BY <1>1, <1>5, <1>6

\* A window that is fed keeps the invariant.
LEMMA FeedStep ==
  ASSUME Scheduled, SettleInv, status = "running",
         NEW new \in SUBSET Row, IsFiniteSet(new),
         \A r \in new : coverage <= r.ts,
         NEW bound \in Int, coverage <= bound, bound <= MarketEnd,
         NEW fin, fin => bound = MarketEnd,
         Feed(pending \cup new, bound, fin),
         gen' = gen, settle' = settle, generated' = generated \cup new,
         status' = "running" => ~fin
  PROVE  SettleInv'
<1>1. PICK G : G = generated \cup new
  OBVIOUS
<1>2. Start \in Int /\ MarketEnd \in Int
  BY SpanBounds
<1>3. /\ settle \in Settlements /\ span \in 1 .. SpanCount + 1
      /\ generated \in SUBSET Row /\ IsFiniteSet(generated)
      /\ coverage \in Int /\ Start <= coverage
      /\ span > 1 => settle[span] <= coverage
      /\ calls \in Seq(CallSet) /\ Len(calls) = span - 1
  BY DEF SettleInv
<1>4. G \in SUBSET Row /\ IsFiniteSet(G) /\ \A r \in G : Start <= r.ts
  <2>1. IsFiniteSet(generated \cup new)
    BY <1>3, FS_Union
  <2>2. \A r \in generated : Start <= r.ts
    BY DEF SettleInv
  <2>3. \A r \in new : Start <= r.ts
    <3>1. \A r \in new : r.ts \in Int
      BY DEF Row
    <3> QED BY <1>2, <1>3, <3>1
  <2> QED BY <1>1, <1>3, <2>1, <2>2, <2>3
<1>5. /\ pending' = From(G, bound)
      /\ coverage' = bound /\ finalizedThrough' = bound
      /\ cursor' = {t \in CursorTs : Start < bound => bound <= t}
      /\ SettlePreSpans(Sorted(OpenRows(G, bound, span)), bound, fin)
  BY <1>1, FeedIs
<1>6. Start <= bound /\ (span > 1 => settle[span] <= bound)
  <2>1. settle[span] \in Int
    BY <1>3, SpanBounds
  <2> QED BY <1>2, <1>3, <2>1
<1>7. /\ span' \in 1 .. SpanCount + 1 /\ span <= span'
      /\ span' > 1 => settle[span'] <= bound
      /\ stage' = Sorted(OpenRows(G, bound, span'))
      /\ calls' \in Seq(CallSet) /\ Len(calls') = span' - 1
      /\ \A j \in 1 .. span - 1 : calls'[j] = calls[j]
      /\ \A j \in span .. span' - 1 :
           calls'[j] = CallOf(Market(G), j) /\ Covered(j, bound, fin)
  BY <1>3, <1>4, <1>5, <1>6, SettleStep
<1>8. \A j \in 1 .. span - 1 : j \in 1 .. SpanCount /\ j # SpanCount
                               /\ LookaheadBoundExcl(j) <= coverage
  <2>1. SpanCount \in Nat
    BY SpanBounds
  <2> QED BY <1>3, <2>1 DEF SettleInv
<1>9. \A j \in 1 .. span - 1 : calls[j] = CallOf(Market(G), j)
  <2> TAKE j \in 1 .. span - 1
  <2>1. j \in 1 .. SpanCount /\ j # SpanCount /\ LookaheadBoundExcl(j) <= coverage
    BY <1>8
  <2>2. CallOf(Market(generated), j) = CallOf(Market(generated \cup new), j)
    BY <1>3, <2>1, OldCalls
  <2>3. calls[j] = CallOf(Market(generated), j)
    BY DEF SettleInv
  <2> QED BY <1>1, <2>2, <2>3
<1>10. \A j \in 1 .. span' - 1 : calls'[j] = CallOf(Market(G), j)
  <2> TAKE j \in 1 .. span' - 1
  <2>1. j \in 1 .. span - 1 \/ j \in span .. span' - 1
    <3>1. SpanCount \in Nat
      BY SpanBounds
    <3>2. PICK a \in Int : a = span
      BY <1>3, <3>1
    <3>3. PICK b \in Int : b = span'
      BY <1>7, <3>1
    <3>4. j \in 1 .. b - 1
      BY <3>3
    <3>5. j \in 1 .. a - 1 \/ j \in a .. b - 1
      BY <3>4
    <3> QED BY <3>2, <3>3, <3>5
  <2> QED BY <1>7, <1>9, <2>1
<1>11. ASSUME ~fin, NEW j \in 1 .. span' - 1 PROVE j # SpanCount /\ LookaheadBoundExcl(j) <= bound
  <2>1. SpanCount \in Nat
    BY SpanBounds
  <2>2. CASE j \in 1 .. span - 1
    <3>1. j \in 1 .. SpanCount /\ j # SpanCount /\ LookaheadBoundExcl(j) <= coverage
      BY <1>8, <2>2
    <3>2. LookaheadBoundExcl(j) \in Int
      BY <3>1, SpanBounds
    <3> QED BY <1>3, <3>1, <3>2
  <2>3. CASE j \in span .. span' - 1
    BY <1>7, <1>11, <2>3 DEF Covered
  <2>4. PICK a \in Int : a = span
    BY <1>3, <2>1
  <2>5. PICK b \in Int : b = span'
    BY <1>7, <2>1
  <2>6. j \in 1 .. b - 1
    BY <2>5
  <2>7. j \in 1 .. a - 1 \/ j \in a .. b - 1
    BY <2>6
  <2>8. j \in 1 .. span - 1 \/ j \in span .. span' - 1
    BY <2>4, <2>5, <2>7
  <2> QED BY <2>2, <2>3, <2>8
<1>12. /\ Start' = Start /\ MarketEnd' = MarketEnd /\ SpanCount' = SpanCount
       /\ generated' = G
  BY <1>1 DEF Start, MarketEnd, SpanCount
<1>13. ASSUME NEW j PROVE LookaheadBoundExcl(j)' = LookaheadBoundExcl(j)
  BY <1>12 DEF LookaheadBoundExcl
<1>14. Market(generated)' = Market(G)
  BY <1>12 DEF Market, In, External
<1>15. ASSUME NEW j PROVE CallOf(Market(generated), j)' = CallOf(Market(G), j)
  BY <1>12, <1>13, <1>14 DEF CallOf, LookRows, From, In
<1>16. OpenRows(generated, coverage, span)' = OpenRows(G, bound, span')
  BY <1>5, <1>12 DEF OpenRows, ArrivedBy, External
<1>17. Sorted(OpenRows(generated, coverage, span))' = Sorted(OpenRows(G, bound, span'))
  BY <1>16
<1>18. From(generated, coverage)' = From(G, bound)
  BY <1>5, <1>12 DEF From
<1>19. /\ settle' \in Settlements
       /\ generated' \in SUBSET Row /\ IsFiniteSet(generated') /\ \A r \in generated' : Start' <= r.ts
       /\ coverage' \in Int /\ coverage' = finalizedThrough'
       /\ Start' <= coverage' /\ coverage' <= MarketEnd'
       /\ pending' = From(generated, coverage)'
       /\ cursor' = {t \in CursorTs : Start' < coverage' => coverage' <= t}
  BY <1>3, <1>4, <1>5, <1>6, <1>12, <1>18
<1>20. /\ span' \in 1 .. SpanCount' + 1 /\ (span' > 1 => settle'[span'] <= coverage')
       /\ stage' = Sorted(OpenRows(generated, coverage, span))'
       /\ calls' \in Seq(CallSet) /\ Len(calls') = span' - 1
  BY <1>5, <1>7, <1>12, <1>17
<1>21. \A j \in 1 .. span' - 1 : calls'[j] = CallOf(Market(generated), j)'
  BY <1>10, <1>15
<1>22. status' = "running" => \A j \in 1 .. span' - 1 :
                                j # SpanCount' /\ LookaheadBoundExcl(j)' <= coverage'
  BY <1>5, <1>11, <1>12, <1>13
<1> QED BY <1>19, <1>20, <1>21, <1>22 DEF SettleInv

\* The rows that some days produce are finitely many.
LEMMA DayRowsType ==
  ASSUME NEW days \in SUBSET Int, IsFiniteSet(days), NEW rows \in DayRows(days)
  PROVE  rows \in SUBSET Row /\ IsFiniteSet(rows)
<1>1. PICK c \in [days -> Offsets \cup {None}] :
        rows = {[ts |-> d + c[d], day |-> d, src |-> 0] : d \in {x \in days : c[x] # None}}
  BY DEF DayRows
<1>2. PICK D : D = {x \in days : c[x] # None}
  OBVIOUS
<1>3. D \in SUBSET days /\ IsFiniteSet(D)
  <2>1. D \in SUBSET days
    BY <1>2
  <2> QED BY <2>1, FS_Subset
<1>4. \A d \in D : c[d] \in Int /\ d \in Int
  BY <1>2, DatesAssumption
<1>5. PICK f : f = [d \in D |-> [ts |-> d + c[d], day |-> d, src |-> 0]]
  OBVIOUS
<1>6. rows = {[ts |-> d + c[d], day |-> d, src |-> 0] : d \in D}
  BY <1>1, <1>2
<1>7. f \in Surjection(D, rows)
  BY <1>5, <1>6 DEF Surjection
<1>8. IsFiniteSet(rows)
  BY <1>3, <1>7, FS_Surjection
<1>9. \A d \in D : [ts |-> d + c[d], day |-> d, src |-> 0] \in Row
  BY <1>4 DEF Row
<1> QED BY <1>6, <1>8, <1>9

\* A simulated window keeps what the driver and the session hold.
LEMMA AdvanceSettles == ASSUME IndInv, SettleInv, Advance PROVE SettleInv'
<1>1. /\ status = "running" /\ g < Len(gen) /\ gen' = gen /\ settle' = settle
      /\ gen \in Generations /\ g \in 1 .. Len(gen) /\ settle \in Settlements
      /\ finalizedThrough \in Int
  BY DEF Advance, schedules, IndInv, SettleInv
<1>2. /\ coverage \in Int /\ coverage = finalizedThrough
      /\ Start <= coverage /\ coverage <= MarketEnd
  BY DEF SettleInv
<1>3. Scheduled
  BY <1>1 DEF Scheduled
<1>4. gen[g] \in Int /\ gen[g + 1] \in Int /\ Start \in Int /\ MarketEnd \in Int
  BY <1>1, Bounds
<1>5. PICK days : days = gen[g] .. (gen[g + 1] - 1)
  OBVIOUS
<1>6. PICK bound : bound = FinalBound(gen[g + 1])
  OBVIOUS
<1>7. PICK rows \in DayRows(days) :
        /\ ~Late(rows) /\ generated' = generated \cup rows
        /\ Feed(pending \cup rows, bound, FALSE) /\ status' = status
  BY <1>5, <1>6, AdvanceFeeds
<1>8. rows \in SUBSET Row /\ IsFiniteSet(rows)
  <2>1. PICK a \in Int, b \in Int : a = gen[g] /\ b = gen[g + 1] - 1
    BY <1>4
  <2>2. days = a .. b
    BY <1>5, <2>1
  <2>3. IsFiniteSet(a .. b)
    BY FS_Interval
  <2>4. a .. b \in SUBSET Int
    OBVIOUS
  <2> QED BY <1>7, <2>2, <2>3, <2>4, DayRowsType
<1>9. \A r \in rows : coverage <= r.ts
  <2>1. \A r \in rows : r.ts \in Int
    BY <1>8 DEF Row
  <2> QED BY <1>2, <1>7, <2>1 DEF Late
<1>10. bound \in Int /\ coverage <= bound /\ bound <= MarketEnd
  <2>1. gen[g + 1] <= MarketEnd
    <3>1. g + 1 \in 1 .. Len(gen)
      BY <1>1, Bounds
    <3> QED BY <1>3, <3>1, SpanBounds
  <2> QED BY <1>2, <1>4, <1>6, <2>1, DatesAssumption DEF FinalBound
<1> QED BY <1>1, <1>3, <1>7, <1>8, <1>9, <1>10, FeedStep

\* So does the end of the run.
LEMMA FinishSettles == ASSUME IndInv, SettleInv, Finish PROVE SettleInv'
<1>1. /\ status = "running" /\ gen' = gen /\ settle' = settle
      /\ gen \in Generations /\ settle \in Settlements
  BY DEF Finish, schedules, IndInv, SettleInv
<1>2. /\ coverage \in Int /\ coverage = finalizedThrough
      /\ Start <= coverage /\ coverage <= MarketEnd
  BY DEF SettleInv
<1>3. Scheduled
  BY <1>1 DEF Scheduled
<1>4. Start \in Int /\ MarketEnd \in Int
  BY <1>1, Bounds
<1>5. PICK rows \in {{}} \cup {{[ts |-> MarketEnd - o, day |-> MarketEnd, src |-> 0]} :
                                 o \in {x \in 0 .. Residual : MarketEnd - x >= Start}} :
        /\ ~Late(rows) /\ generated' = generated \cup rows
        /\ Feed(pending \cup rows, MarketEnd, TRUE) /\ status' = "done"
  BY FinishFeeds
<1>6. rows \in SUBSET Row /\ IsFiniteSet(rows)
  <2>1. CASE rows = {}
    BY <2>1, FS_EmptySet
  <2>2. CASE rows # {}
    <3>1. PICK o \in 0 .. Residual : rows = {[ts |-> MarketEnd - o, day |-> MarketEnd, src |-> 0]}
      BY <1>5, <2>2
    <3>2. [ts |-> MarketEnd - o, day |-> MarketEnd, src |-> 0] \in Row
      BY <1>4, DatesAssumption DEF Row
    <3> QED BY <3>1, <3>2, FS_Singleton
  <2> QED BY <2>1, <2>2
<1>7. \A r \in rows : coverage <= r.ts
  <2>1. \A r \in rows : r.ts \in Int
    BY <1>6 DEF Row
  <2> QED BY <1>2, <1>5, <2>1 DEF Late
<1>8. PICK bound \in Int : bound = MarketEnd
  BY <1>4
<1>9. Feed(pending \cup rows, bound, TRUE) /\ status' # "running"
  BY <1>5, <1>8
<1>10. coverage <= bound /\ bound <= MarketEnd
  BY <1>2, <1>8
<1> QED BY <1>1, <1>3, <1>5, <1>6, <1>7, <1>8, <1>9, <1>10, FeedStep

\* Before the first window nothing has come in.
LEMMA InitSettles == ASSUME Init PROVE SettleInv
<1>1. /\ gen \in Generations /\ settle \in Settlements
      /\ finalizedThrough = Start /\ pending = {} /\ generated = {}
      /\ coverage = Start /\ stage = << >> /\ cursor = CursorTs /\ span = 1
      /\ calls = << >>
  BY DEF Init
<1>2. /\ Start \in Int /\ MarketEnd \in Int /\ Start <= MarketEnd
      /\ SpanCount \in Nat \ {0}
  <2>1. Scheduled
    BY <1>1 DEF Scheduled
  <2>2. Start \in Int /\ MarketEnd \in Int /\ SpanCount \in Nat \ {0}
    BY <2>1, SpanBounds
  <2>3. 1 \in 1 .. SpanCount + 1
    BY <2>2
  <2>4. settle[1] \in Int /\ Start <= settle[1] /\ settle[1] <= MarketEnd
    BY <2>1, <2>3, SpanBounds
  <2> QED BY <2>2, <2>4
<1>3. OpenRows(generated, coverage, span) = {}
  BY <1>1, <1>2 DEF OpenRows, ArrivedBy
<1>4. Sorted({}) = << >>
  <2>1. PICK q : q = Sorted({})
    OBVIOUS
  <2>2. IsFiniteSet({}) /\ Cardinality({}) = 0
    BY FS_EmptySet
  <2>3. q \in Seq({}) /\ Len(q) = 0
    BY <2>1, <2>2, SortedIs
  <2>4. q = << >>
    BY <2>3
  <2> QED BY <2>1, <2>4
<1>5. << >> \in Seq(CallSet) /\ Len(<< >>) = 0
  BY EmptySeq
<1>6. /\ IsFiniteSet({}) /\ From({}, coverage) = {}
      /\ cursor = {t \in CursorTs : Start < coverage => coverage <= t}
  BY <1>1, <1>2, FS_EmptySet DEF From
<1>7. span - 1 = 0 /\ span \in 1 .. SpanCount + 1 /\ ~(span > 1)
  BY <1>1, <1>2
<1> QED BY <1>1, <1>2, <1>3, <1>4, <1>5, <1>6, <1>7 DEF SettleInv

\* The run in full range is what the market produced, in order.
LEMMA EverythingIs ==
  ASSUME generated \in SUBSET Row, IsFiniteSet(generated)
  PROVE  Everything = Sorted(Market(generated))
<1>1. PICK M : M = Market(generated)
  OBVIOUS
<1>2. M \in SUBSET Row /\ IsFiniteSet(M)
  BY <1>1, RowSets
<1>3. PICK q : q = Sorted(M)
  OBVIOUS
<1>4. q \in Seq(M) /\ Len(q) = Cardinality(M)
  BY <1>2, <1>3, SortedIs
<1>5. SubSeq(q, 1, Len(q)) = q
  BY <1>4, SubSeqFull
<1>6. Everything = SubSeq(q, 1, Len(q))
  BY <1>1, <1>3, <1>4 DEF Everything, Market
<1> QED BY <1>1, <1>3, <1>5, <1>6

\* The inductive invariant gives what the driver promises.
LEMMA InvSettles == ASSUME IndInv, SettleInv PROVE SettlesExactly
<1>1. Scheduled /\ generated \in SUBSET Row /\ IsFiniteSet(generated)
  BY DEF Scheduled, IndInv, SettleInv
<1>2. PICK M : M = Market(generated)
  OBVIOUS
<1>3. M \in SUBSET Row /\ IsFiniteSet(M) /\ Everything = Sorted(M)
  BY <1>1, <1>2, RowSets, EverythingIs
<1>4. SameAsFullRange
  <2>1. DOMAIN calls = 1 .. span - 1
    BY LenProperties DEF SettleInv
  <2>2. ASSUME NEW j \in 1 .. span - 1 PROVE calls[j] = Call(Everything, j)
    <3>1. PICK c \in Nat : c = SpanCount
      BY <1>1, SpanBounds
    <3>2. j \in 1 .. SpanCount
      <4>1. span \in 1 .. c + 1
        BY <3>1 DEF SettleInv
      <4> QED BY <3>1, <4>1
    <3>3. Call(Sorted(M), j) = CallOf(M, j)
      BY <1>1, <1>3, <3>2, CallIs
    <3>4. calls[j] = CallOf(Market(generated), j)
      BY DEF SettleInv
    <3> QED BY <1>2, <1>3, <3>3, <3>4
  <2> QED BY <2>1, <2>2 DEF SameAsFullRange
<1>5. StageExact
  <2>1. PICK Y : Y = OpenRows(generated, coverage, span)
    OBVIOUS
  <2>2. Y \in SUBSET Row /\ IsFiniteSet(Y)
    BY <1>1, <2>1, RowSets
  <2>3. PICK q : q = Sorted(Y)
    OBVIOUS
  <2>4. q \in Seq(Y) /\ Len(q) = Cardinality(Y) /\ \A n \in 1 .. Cardinality(Y) : q[n] \in Y
    BY <2>2, <2>3, SortedIs
  <2>5. stage = q
    BY <2>1, <2>3 DEF SettleInv
  <2>6. DOMAIN stage = 1 .. Cardinality(Y)
    BY <2>4, <2>5, LenProperties
  <2>7. \A n \in DOMAIN stage : /\ span > 1 => settle[span] <= stage[n].ts
                                /\ stage[n].ts < coverage
    <3>1. \A r \in Y : (span > 1 => settle[span] <= r.ts) /\ r.ts < coverage
      BY <2>1 DEF OpenRows, ArrivedBy
    <3> QED BY <2>4, <2>5, <2>6, <3>1
  <2>8. \A r \in pending : r.ts >= coverage
    <3>1. pending = From(generated, coverage) /\ coverage \in Int
      BY DEF SettleInv
    <3>2. \A r \in generated : r.ts \in Int
      BY <1>1 DEF Row
    <3> QED BY <3>1, <3>2 DEF From
  <2> QED BY <2>7, <2>8 DEF StageExact
<1> QED BY <1>4, <1>5 DEF SettlesExactly

\* Whatever the generation windows, the settlement spans, the lookahead and the rows:
\* each span is settled with the rows and the lookahead it would have in a run that
\* generates the whole range first, and the stage holds only what is still open.
THEOREM SettlesAsFullRange == Spec => []SettlesExactly
<1>1. Init => SettleInv
  BY InitSettles
<1>2. IndInv /\ SettleInv /\ [Next]_vars => SettleInv'
  <2> SUFFICES ASSUME IndInv, SettleInv, [Next]_vars PROVE SettleInv'
    OBVIOUS
  <2>1. CASE Advance
    BY <2>1, AdvanceSettles
  <2>2. CASE Finish
    BY <2>2, FinishSettles
  <2>3. CASE UNCHANGED vars
    BY <2>3 DEF vars, schedules, session, driver, SettleInv, OpenRows, ArrivedBy, Market, CallOf,
       LookRows, LookaheadBoundExcl, SpanCount, MarketEnd, Start
  <2> QED BY <2>1, <2>2, <2>3 DEF Next
<1>3. IndInv /\ SettleInv => SettlesExactly
  BY InvSettles
<1>4. Spec => []IndInv
  BY SpecIndInv
<1> QED BY <1>1, <1>2, <1>3, <1>4, PTL DEF Spec
=============================================================================
