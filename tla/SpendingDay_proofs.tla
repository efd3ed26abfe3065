------------------------- MODULE SpendingDay_proofs -------------------------
(***************************************************************************)
(* The day loop and the card lifecycle for every calendar, every set of    *)
(* terms and every spender: what is billed adds up to what the ledger says *)
(* is owed, no event is stranded or left undecided, every row is dated     *)
(* inside the owner's service, ahead of the watermark, and a late fee is   *)
(* charged for each statement missed and for no other.                     *)
(***************************************************************************)
EXTENDS SpendingDay, InductionLemmas

-----------------------------------------------------------------------------
(* Picking and sorting rows *)

\* p picks the places S of s in the order R.
PicksInOrder(p, S, n, R) ==
  /\ Picks(p, Cardinality(S), n, S)
  /\ \A i, j \in 1 .. Cardinality(S) : i < j => <<p[i], p[j]>> \in R

\* t holds the items of s that p picks.
Taken(t, s, p, S, R) ==
  /\ PicksInOrder(p, S, Len(s), R)
  /\ \A j \in 1 .. Cardinality(S) : t[j] = s[p[j]]

\* What Ordered returns: the items at the places S, each once, in the given order.
LEMMA OrderedIs ==
  ASSUME NEW X, NEW s \in Seq(X), NEW S \in SUBSET (1 .. Len(s)), NEW R, StrictOrder(R, S)
  PROVE  /\ Len(s) \in Nat /\ Cardinality(S) \in Nat /\ IsFiniteSet(S)
         /\ Ordered(s, S, R) \in Seq(X) /\ Len(Ordered(s, S, R)) = Cardinality(S)
         /\ \E p : Taken(Ordered(s, S, R), s, p, S, R)
<1>1. PICK N \in Nat : N = Len(s) /\ DOMAIN s = 1 .. N /\ \A n \in 1 .. N : s[n] \in X
  BY LenProperties, ElementOfSeq
<1>2. S \subseteq 1 .. N
  BY <1>1
<1>3. IsFiniteSet(S)
  <2>1. IsFiniteSet(1 .. N)
    BY <1>1, FS_Interval
  <2> QED BY <1>2, <2>1, FS_Subset
<1>4. PICK K \in Nat : K = Cardinality(S)
  BY <1>3, FS_CardinalityType
<1> DEFINE at(j) == CHOOSE n \in S : Cardinality(Preceding(S, R, n)) = j - 1
<1>5. ASSUME NEW j \in 1 .. K PROVE at(j) \in S /\ Cardinality(Preceding(S, R, at(j))) = j - 1
  <2>1. \E n \in S : Cardinality(Preceding(S, R, n)) = j - 1
    BY <1>3, <1>4, OrderPlaceTaken
  <2> QED BY <2>1
<1>6. Ordered(s, S, R) = [j \in 1 .. K |-> s[at(j)]]
  BY <1>4 DEF Ordered, Preceding
<1> HIDE DEF at
<1> DEFINE p == [j \in 1 .. K |-> at(j)]
<1>7. \A j \in 1 .. K : p[j] = at(j) /\ p[j] \in S /\ Cardinality(Preceding(S, R, p[j])) = j - 1
  BY <1>5
<1>8. p \in [1 .. K -> 1 .. N] /\ \A j \in 1 .. K : Ordered(s, S, R)[j] = s[p[j]]
  BY <1>2, <1>5, <1>6
<1> HIDE DEF p
<1>9. \A i, j \in 1 .. K : p[i] = p[j] => i = j
  <2> SUFFICES ASSUME NEW i \in 1 .. K, NEW j \in 1 .. K, p[i] = p[j] PROVE i = j
    OBVIOUS
  <2>1. i - 1 = j - 1
    BY <1>7
  <2> QED BY <2>1
<1>10. ASSUME NEW m \in S, NEW n \in S,
              Cardinality(Preceding(S, R, m)) = Cardinality(Preceding(S, R, n))
       PROVE  m = n
  <2>1. Cardinality(Preceding(S, R, m)) \in Nat
    BY <1>3, OrderPlaces
  <2>2. <<m, n>> \notin R /\ <<n, m>> \notin R
    BY <1>3, <1>10, <2>1, OrderPlaces
  <2> QED BY <2>2 DEF StrictOrder
<1>11. ASSUME NEW m \in S PROVE \E i \in 1 .. K : p[i] = m
  <2>1. PICK r \in Nat : r = Cardinality(Preceding(S, R, m)) /\ r < K
    BY <1>3, <1>4, OrderPlaces
  <2>2. PICK i : i = r + 1
    OBVIOUS
  <2>3. i \in 1 .. K /\ i - 1 = r
    BY <2>1, <2>2
  <2>4. p[i] \in S /\ Cardinality(Preceding(S, R, p[i])) = r
    BY <1>7, <2>3
  <2> QED BY <1>10, <2>1, <2>3, <2>4
<1>12. ASSUME NEW i \in 1 .. K, NEW j \in 1 .. K, i < j PROVE <<p[i], p[j]>> \in R
  <2>1. PICK x \in S, y \in S : x = p[i] /\ y = p[j]
    BY <1>7
  <2>2. Cardinality(Preceding(S, R, x)) = i - 1 /\ Cardinality(Preceding(S, R, y)) = j - 1
    BY <1>7, <2>1
  <2>3. ~(Cardinality(Preceding(S, R, y)) < Cardinality(Preceding(S, R, x))) /\ x # y
    BY <1>12, <2>2
  <2>4. <<y, x>> \notin R
    BY <1>3, <2>3, OrderPlaces
  <2> QED BY <2>1, <2>3, <2>4 DEF StrictOrder
<1>13. Picks(p, K, N, S)
  <2>1. \A m \in 1 .. N : m \in S <=> \E i \in 1 .. K : p[i] = m
    BY <1>7, <1>11
  <2> QED BY <1>8, <1>9, <2>1 DEF Picks
<1>14. PicksInOrder(p, S, N, R)
  BY <1>4, <1>12, <1>13 DEF PicksInOrder
<1>15. Ordered(s, S, R) \in Seq(X) /\ Len(Ordered(s, S, R)) = K
  <2>1. \A j \in 1 .. K : s[at(j)] \in X
    BY <1>1, <1>2, <1>5
  <2> QED BY <1>6, <2>1
<1>16. Taken(Ordered(s, S, R), s, p, S, R)
  BY <1>1, <1>4, <1>8, <1>14 DEF Taken
<1> QED BY <1>1, <1>3, <1>4, <1>15, <1>16

\* The order of given times, equal times by place.
LEMMA EarlierStrict ==
  ASSUME NEW N \in Nat, NEW times \in [1 .. N -> Int], NEW S \in SUBSET (1 .. N)
  PROVE  /\ StrictOrder(Earlier(times), S)
         /\ \A m, n : <<m, n>> \in Earlier(times) =>
              m \in 1 .. N /\ n \in 1 .. N /\ times[m] <= times[n]
<1>1. \A m, n \in 1 .. N :
        <<m, n>> \in Earlier(times) <=> times[m] < times[n] \/ (times[m] = times[n] /\ m < n)
  BY DEF Earlier
<1>2. \A m, n : <<m, n>> \in Earlier(times) => m \in 1 .. N /\ n \in 1 .. N
  BY DEF Earlier
<1>3. \A m \in 1 .. N : times[m] \in Int /\ m \in Int
  OBVIOUS
<1>4. ASSUME NEW x \in S PROVE <<x, x>> \notin Earlier(times)
  BY <1>1, <1>3
<1>5. ASSUME NEW x \in S, NEW y \in S, x # y
      PROVE  <<x, y>> \in Earlier(times) \/ <<y, x>> \in Earlier(times)
  BY <1>1, <1>3, <1>5
<1>6. ASSUME NEW x \in S, NEW y \in S, NEW z \in S,
             <<x, y>> \in Earlier(times), <<y, z>> \in Earlier(times)
      PROVE  <<x, z>> \in Earlier(times)
  <2>1. PICK a \in Int, b \in Int, c \in Int : a = times[x] /\ b = times[y] /\ c = times[z]
    BY <1>3
  <2>2. x \in 1 .. N /\ y \in 1 .. N /\ z \in 1 .. N
    OBVIOUS
  <2>3. (a < b \/ (a = b /\ x < y)) /\ (b < c \/ (b = c /\ y < z))
    BY <1>1, <1>6, <2>1, <2>2
  <2>4. a < c \/ (a = c /\ x < z)
    BY <2>2, <2>3
  <2> QED BY <1>1, <2>1, <2>2, <2>4
<1>7. StrictOrder(Earlier(times), S)
  BY <1>4, <1>5, <1>6 DEF StrictOrder
<1>8. \A m, n : <<m, n>> \in Earlier(times) => times[m] <= times[n]
  BY <1>1, <1>2, <1>3
<1> QED BY <1>2, <1>7, <1>8

\* The items at the places S, in the order they stand.
LEMMA KeptIs ==
  ASSUME NEW X, NEW s \in Seq(X), NEW S \in SUBSET (1 .. Len(s))
  PROVE  /\ Kept(s, S) \in Seq(X)
         /\ Cardinality(S) \in Nat /\ Len(Kept(s, S)) = Cardinality(S)
         /\ \E p : /\ Picks(p, Cardinality(S), Len(s), S)
                   /\ \A i, j \in 1 .. Cardinality(S) : i < j => p[i] < p[j]
                   /\ \A j \in 1 .. Cardinality(S) : Kept(s, S)[j] = s[p[j]]
<1>1. PICK N \in Nat : N = Len(s) /\ DOMAIN s = 1 .. N
  BY LenProperties
<1>2. PICK times : times = [n \in DOMAIN s |-> n]
  OBVIOUS
<1>3. times \in [1 .. N -> Int] /\ \A n \in 1 .. N : times[n] = n
  BY <1>1, <1>2
<1>4. PICK R : R = Earlier(times)
  OBVIOUS
<1>5. StrictOrder(R, S) /\ \A m, n : <<m, n>> \in R =>
        m \in 1 .. N /\ n \in 1 .. N /\ times[m] <= times[n]
  BY <1>1, <1>3, <1>4, EarlierStrict
<1>6. Kept(s, S) = Ordered(s, S, R)
  BY <1>2, <1>4 DEF Kept
<1>7. PICK p : /\ PicksInOrder(p, S, Len(s), R)
               /\ \A j \in 1 .. Cardinality(S) : Ordered(s, S, R)[j] = s[p[j]]
  <2>1. PICK p : Taken(Ordered(s, S, R), s, p, S, R)
    BY <1>5, OrderedIs
  <2> QED BY <2>1 DEF Taken
<1>8. /\ Cardinality(S) \in Nat
      /\ Ordered(s, S, R) \in Seq(X) /\ Len(Ordered(s, S, R)) = Cardinality(S)
  BY <1>5, OrderedIs
<1>9. Picks(p, Cardinality(S), Len(s), S)
  BY <1>7 DEF PicksInOrder
<1>10. ASSUME NEW i \in 1 .. Cardinality(S), NEW j \in 1 .. Cardinality(S), i < j
       PROVE  p[i] < p[j]
  <2>1. <<p[i], p[j]>> \in R
    BY <1>7, <1>10 DEF PicksInOrder
  <2>2. p[i] \in 1 .. N /\ p[j] \in 1 .. N /\ p[i] <= p[j]
    BY <1>3, <1>5, <2>1
  <2>3. p[i] # p[j]
    BY <1>9, <1>10 DEF Picks
  <2> QED BY <2>2, <2>3
<1> QED BY <1>6, <1>7, <1>8, <1>9, <1>10

\* So every item kept is one of S, and every one of S is kept.
LEMMA KeptFrom ==
  ASSUME NEW X, NEW s \in Seq(X), NEW S \in SUBSET (1 .. Len(s))
  PROVE  /\ Kept(s, S) \in Seq(X) /\ Len(Kept(s, S)) \in Nat
         /\ \A j \in 1 .. Len(Kept(s, S)) : \E n \in S : Kept(s, S)[j] = s[n]
         /\ \A n \in S : \E j \in 1 .. Len(Kept(s, S)) : Kept(s, S)[j] = s[n]
<1>1. PICK K \in Nat : K = Cardinality(S) /\ Len(Kept(s, S)) = K
  BY KeptIs
<1>2. PICK p : Picks(p, K, Len(s), S) /\ \A j \in 1 .. K : Kept(s, S)[j] = s[p[j]]
  BY <1>1, KeptIs
<1>3. \A j \in 1 .. K : p[j] \in S
  BY <1>2 DEF Picks
<1>4. \A n \in S : \E j \in 1 .. K : p[j] = n
  BY <1>2 DEF Picks
<1>5. Kept(s, S) \in Seq(X)
  BY KeptIs
<1>6. PICK t : t = Kept(s, S)
  OBVIOUS
<1>7. \A j \in 1 .. K : \E n \in S : t[j] = s[n]
  BY <1>2, <1>3, <1>6
<1>8. \A n \in S : \E j \in 1 .. K : t[j] = s[n]
  BY <1>2, <1>4, <1>6
<1> QED BY <1>1, <1>5, <1>6, <1>7, <1>8

-----------------------------------------------------------------------------
(* Sums of amounts *)

Kinds == {"purchase", "payment", "interest", "fee", "credit"}
AnyRow == [kind : Kinds, amt : Nat, ts : Int, cycle : Int]

\* What each row changes.
Deltas(rows) == [n \in 1 .. Len(rows) |-> Delta(rows[n])]

LEMMA DeltaInt == \A r \in AnyRow : Delta(r) \in Int
BY DEF AnyRow, Delta

\* SumOf adds up a sequence of numbers.
LEMMA SumOfIs ==
  ASSUME NEW N \in Nat, NEW e \in [1 .. N -> Int]
  PROVE  IsSum(N, e, SumOf(e)) /\ SumOf(e) \in Int
<1>1. Len(e) = N
  OBVIOUS
<1>2. PICK h : SumRun(N, e, h)
  BY SumRunExists
<1>3. /\ h \in [0 .. N -> Int] /\ h[0] = 0
      /\ \A n \in 1 .. N : h[n] = h[n - 1] + e[n]
  BY <1>2 DEF SumRun
<1> DEFINE Def(f) == f = [n \in 0 .. N |-> IF n = 0 THEN 0 ELSE f[n - 1] + e[n]]
           g == CHOOSE f : Def(f)
<1>4. Def(h)
  <2>1. ASSUME NEW n \in 0 .. N
        PROVE  h[n] = IF n = 0 THEN 0 ELSE h[n - 1] + e[n]
    <3>1. n = 0 \/ n \in 1 .. N
      OBVIOUS
    <3> QED BY <1>3, <3>1
  <2>2. h = [n \in 0 .. N |-> h[n]]
    BY <1>3
  <2> QED BY <2>1, <2>2
<1>5. Def(g)
  <2> HIDE DEF Def
  <2> QED BY <1>4
<1>6. SumOf(e) = g[N]
  BY <1>1 DEF SumOf
<1> HIDE DEF g
<1>7. g[0] = 0 /\ \A n \in 1 .. N : g[n] = g[n - 1] + e[n]
  <2>1. ASSUME NEW n \in 1 .. N PROVE n \in 0 .. N /\ n # 0
    OBVIOUS
  <2> QED BY <1>5, <2>1
<1> HIDE DEF Def
<1> DEFINE S == {n \in 0 .. N : g[n] = h[n]}
<1>8. 0 \in S
  BY <1>3, <1>7
<1>9. ASSUME NEW n \in 0 .. N - 1, n \in S PROVE n + 1 \in S
  <2>1. PICK m : m = n + 1
    OBVIOUS
  <2>2. m \in 1 .. N /\ m \in 0 .. N /\ m - 1 = n
    BY <2>1
  <2>3. g[m] = g[n] + e[m] /\ h[m] = h[n] + e[m]
    BY <1>3, <1>7, <2>2
  <2>4. g[n] = h[n]
    BY <1>9
  <2> QED BY <2>1, <2>2, <2>3, <2>4
<1> HIDE DEF S
<1>10. N \in S
  <2>1. 0 .. N \subseteq S
    BY <1>8, <1>9, BoundedInduction
  <2> QED BY <2>1
<1>11. SumOf(e) = h[N]
  BY <1>6, <1>10 DEF S
<1>12. h[N] \in Int
  BY <1>3
<1> QED BY <1>2, <1>11, <1>12 DEF IsSum

\* Net is the sum of what the rows change, and no other number is.
LEMMA NetIs ==
  ASSUME NEW rows \in Seq(AnyRow)
  PROVE  /\ Len(rows) \in Nat /\ Deltas(rows) \in [1 .. Len(rows) -> Int]
         /\ Net(rows) \in Int /\ IsSum(Len(rows), Deltas(rows), Net(rows))
         /\ \A v : IsSum(Len(rows), Deltas(rows), v) => Net(rows) = v
<1>1. PICK N \in Nat : N = Len(rows) /\ DOMAIN rows = 1 .. N /\ \A n \in 1 .. N : rows[n] \in AnyRow
  BY LenProperties, ElementOfSeq
<1>2. PICK e : e = Deltas(rows)
  OBVIOUS
<1>3. e \in [1 .. N -> Int]
  BY <1>1, <1>2, DeltaInt DEF Deltas
<1>4. Net(rows) = SumOf(e)
  BY <1>1, <1>2 DEF Net, Deltas
<1>5. IsSum(N, e, SumOf(e)) /\ SumOf(e) \in Int
  BY <1>3, SumOfIs
<1>6. ASSUME NEW v, IsSum(N, e, v) PROVE Net(rows) = v
  BY <1>4, <1>5, <1>6, SumUnique
<1> QED BY <1>1, <1>2, <1>3, <1>4, <1>5, <1>6

\* t is s with u after it.
Continues(t, s, u) ==
  /\ t \in Seq(AnyRow) /\ s \in Seq(AnyRow) /\ u \in Seq(AnyRow)
  /\ Len(t) = Len(s) + Len(u)
  /\ \A n \in 1 .. Len(s) : t[n] = s[n]
  /\ \A n \in 1 .. Len(u) : t[Len(s) + n] = u[n]

\* Two sequences put together change what both change.
LEMMA NetContinued ==
  ASSUME NEW t, NEW s, NEW u, Continues(t, s, u)
  PROVE  Net(t) = Net(s) + Net(u)
<1>1. t \in Seq(AnyRow) /\ s \in Seq(AnyRow) /\ u \in Seq(AnyRow)
  BY DEF Continues
<1>2. PICK M \in Nat, N \in Nat : M = Len(s) /\ N = Len(u)
  BY <1>1, LenProperties
<1>3. Len(t) = M + N
  BY <1>2 DEF Continues
<1>4. PICK g, h : g = Deltas(s) /\ h = Deltas(u)
  OBVIOUS
<1>5. PICK e : e = Deltas(t)
  OBVIOUS
<1>6. \A n \in 1 .. M : e[n] = g[n]
  <2>1. \A n \in 1 .. M : n \in 1 .. M + N /\ t[n] = s[n]
    BY <1>2 DEF Continues
  <2> QED BY <1>2, <1>3, <1>4, <1>5, <2>1 DEF Deltas
<1>7. \A n \in 1 .. N : e[M + n] = h[n]
  <2>1. \A n \in 1 .. N : M + n \in 1 .. M + N /\ t[M + n] = u[n]
    BY <1>2 DEF Continues
  <2> QED BY <1>2, <1>3, <1>4, <1>5, <2>1 DEF Deltas
<1>8. PICK x, y : x = Net(s) /\ y = Net(u)
  OBVIOUS
<1>9. IsSum(M, g, x) /\ IsSum(N, h, y)
  BY <1>1, <1>2, <1>4, <1>8, NetIs
<1>10. IsSum(M + N, e, x + y)
  BY <1>6, <1>7, <1>9, SumConcat
<1> QED BY <1>1, <1>3, <1>5, <1>8, <1>10, NetIs

LEMMA NetConcat ==
  ASSUME NEW s \in Seq(AnyRow), NEW u \in Seq(AnyRow)
  PROVE  Net(s \o u) = Net(s) + Net(u)
<1>1. PICK t : t = s \o u
  OBVIOUS
<1>2. Continues(t, s, u)
  BY <1>1, ConcatProperties DEF Continues
<1> QED BY <1>1, <1>2, NetContinued

LEMMA NetNone == Net(<< >>) = 0
<1>1. PICK s \in Seq(AnyRow) : s = << >> /\ Len(s) = 0
  BY EmptySeq
<1>2. PICK e : e = Deltas(s)
  OBVIOUS
<1>3. IsSum(0, e, 0)
  <2>1. \A n \in 1 .. 0 : e[n] = 0
    OBVIOUS
  <2> QED BY <2>1, SumZero
<1> QED BY <1>1, <1>2, <1>3, NetIs

LEMMA NetAppend ==
  ASSUME NEW s \in Seq(AnyRow), NEW r \in AnyRow
  PROVE  Net(Append(s, r)) = Net(s) + Delta(r)
<1>1. PICK N \in Nat : N = Len(s)
  BY LenProperties
<1>2. PICK t : t = Append(s, r)
  OBVIOUS
<1>3. t \in Seq(AnyRow) /\ Len(t) = N + 1 /\ t[N + 1] = r /\ \A n \in 1 .. N : t[n] = s[n]
  BY <1>1, <1>2, AppendProperties
<1>4. PICK g, e : g = Deltas(s) /\ e = Deltas(t)
  OBVIOUS
<1>5. PICK x \in Int, d \in Int : x = Net(s) /\ d = Delta(r)
  BY NetIs, DeltaInt
<1>6. PICK h : h = [n \in 1 .. 1 |-> d]
  OBVIOUS
<1>7. IsSum(1, h, d)
  <2>1. PICK f : f = [n \in 0 .. 1 |-> IF n = 0 THEN 0 ELSE d]
    OBVIOUS
  <2>2. f \in [0 .. 1 -> Int] /\ f[0] = 0 /\ f[1] = d
    BY <2>1
  <2>3. ASSUME NEW n \in 1 .. 1 PROVE h[n] \in Int /\ f[n] = f[n - 1] + h[n]
    <3>1. n = 1 /\ n - 1 = 0 /\ h[n] = d
      BY <1>6
    <3> QED BY <2>2, <3>1
  <2>4. SumRun(1, h, f)
    BY <2>2, <2>3 DEF SumRun
  <2> QED BY <2>2, <2>4 DEF IsSum
<1>8. \A n \in 1 .. N : e[n] = g[n]
  BY <1>1, <1>3, <1>4 DEF Deltas
<1>9. \A n \in 1 .. 1 : e[N + n] = h[n]
  <2>1. ASSUME NEW n \in 1 .. 1 PROVE e[N + n] = h[n]
    <3>1. n = 1 /\ N + n = N + 1 /\ N + 1 \in 1 .. N + 1 /\ h[n] = d
      BY <1>6
    <3>2. e[N + 1] = d
      BY <1>3, <1>4, <1>5, <3>1 DEF Deltas
    <3> QED BY <3>1, <3>2
  <2> QED BY <2>1
<1>10. IsSum(N, g, x)
  BY <1>1, <1>4, <1>5, NetIs
<1>11. IsSum(N + 1, e, x + d)
  BY <1>7, <1>8, <1>9, <1>10, SumConcat
<1> QED BY <1>2, <1>3, <1>4, <1>5, <1>11, NetIs

\* The rows kept and the rows left change what all change.
LEMMA NetKept ==
  ASSUME NEW s \in Seq(AnyRow), NEW S \in SUBSET (1 .. Len(s))
  PROVE  Net(s) = Net(Kept(s, S)) + Net(Kept(s, (1 .. Len(s)) \ S))
<1>1. PICK N \in Nat : N = Len(s)
  BY LenProperties
<1>2. PICK g : g = Deltas(s) /\ g \in [1 .. N -> Int]
  BY <1>1, NetIs
<1>3. ASSUME NEW A \in SUBSET (1 .. Len(s))
      PROVE  IsSum(N, Masked(N, g, A), Net(Kept(s, A)))
  <2>1. PICK t \in Seq(AnyRow), K \in Nat : t = Kept(s, A) /\ K = Cardinality(A) /\ Len(t) = K
    BY KeptIs
  <2>2. PICK p : Picks(p, K, Len(s), A) /\ \A j \in 1 .. K : Kept(s, A)[j] = s[p[j]]
    BY <2>1, KeptIs
  <2>3. Picks(p, K, N, A) /\ \A j \in 1 .. K : t[j] = s[p[j]]
    BY <1>1, <2>1, <2>2
  <2>4. PICK h : h = Deltas(t)
    OBVIOUS
  <2>5. \A n \in 1 .. K : h[n] = g[p[n]]
    <3>1. \A n \in 1 .. K : p[n] \in 1 .. N
      BY <2>3 DEF Picks
    <3> QED BY <1>1, <1>2, <2>1, <2>3, <2>4, <3>1 DEF Deltas
  <2>6. PICK v : v = Net(t)
    OBVIOUS
  <2>7. IsSum(K, h, v)
    BY <2>1, <2>4, <2>6, NetIs
  <2>8. IsSum(N, Masked(N, g, A), v)
    BY <1>2, <2>3, <2>5, <2>7, SumPicked, ZenonT(30)
  <2> QED BY <2>1, <2>6, <2>8
<1>4. PICK T : T = (1 .. Len(s)) \ S
  OBVIOUS
<1>5. PICK u, v : u = Net(Kept(s, S)) /\ v = Net(Kept(s, T))
  OBVIOUS
<1>6. IsSum(N, Masked(N, g, S), u) /\ IsSum(N, Masked(N, g, T), v)
  BY <1>3, <1>4, <1>5
<1>7. \A n \in 1 .. N : n \in T <=> n \notin S
  BY <1>1, <1>4
<1>8. IsSum(N, g, u + v)
  BY <1>2, <1>6, <1>7, SumParts
<1> QED BY <1>1, <1>2, <1>4, <1>5, <1>8, NetIs

\* Keeping all the rows, in any order, changes nothing of what they change.
LEMMA NetArranged ==
  ASSUME NEW s \in Seq(AnyRow), NEW R, StrictOrder(R, 1 .. Len(s))
  PROVE  Net(Ordered(s, 1 .. Len(s), R)) = Net(s)
<1>1. PICK N \in Nat : N = Len(s)
  BY LenProperties
<1>2. PICK g : g = Deltas(s) /\ g \in [1 .. N -> Int]
  BY <1>1, NetIs
<1>3. PICK A : A = 1 .. Len(s)
  OBVIOUS
<1>4. A \in SUBSET (1 .. Len(s)) /\ StrictOrder(R, A)
  BY <1>3
<1>5. PICK t \in Seq(AnyRow), K \in Nat : t = Ordered(s, A, R) /\ K = Cardinality(A) /\ Len(t) = K
  BY <1>4, OrderedIs
<1>6. PICK p : Taken(Ordered(s, A, R), s, p, A, R)
  BY <1>4, OrderedIs
<1>7. Picks(p, K, N, A) /\ \A j \in 1 .. K : t[j] = s[p[j]]
  BY <1>1, <1>5, <1>6 DEF Taken, PicksInOrder
<1>8. PICK h : h = Deltas(t)
  OBVIOUS
<1>9. \A n \in 1 .. K : h[n] = g[p[n]]
  <2>1. \A n \in 1 .. K : p[n] \in 1 .. N
    BY <1>7 DEF Picks
  <2> QED BY <1>1, <1>2, <1>5, <1>7, <1>8, <2>1 DEF Deltas
<1>10. PICK v : v = Net(t)
  OBVIOUS
<1>11. IsSum(K, h, v)
  BY <1>5, <1>8, <1>10, NetIs
<1>12. PICK q : q = Masked(N, g, A) /\ IsSum(N, q, v)
  <2>1. IsSum(N, Masked(N, g, A), v)
    BY <1>2, <1>7, <1>9, <1>11, SumPicked, ZenonT(30)
  <2> QED BY <2>1
<1>13. \A n \in 1 .. N : g[n] = q[n]
  BY <1>1, <1>3, <1>12 DEF Masked
<1>14. IsSum(N, g, v)
  BY <1>12, <1>13, SumSame
<1> QED BY <1>1, <1>2, <1>3, <1>5, <1>10, <1>14, NetIs

\* Purchases change what they cost.
LEMMA TotalIsNet ==
  ASSUME NEW s \in Seq(AnyRow), \A n \in 1 .. Len(s) : s[n].kind = "purchase"
  PROVE  Total(s) = -Net(s) /\ Total(s) \in Int
<1>1. PICK N \in Nat : N = Len(s) /\ DOMAIN s = 1 .. N /\ \A n \in 1 .. N : s[n] \in AnyRow
  BY LenProperties, ElementOfSeq
<1>2. PICK a : a = [n \in 1 .. N |-> s[n].amt]
  OBVIOUS
<1>3. a \in [1 .. N -> Int]
  BY <1>1, <1>2 DEF AnyRow
<1>4. Total(s) = SumOf(a)
  BY <1>1, <1>2 DEF Total
<1>5. PICK u \in Int : u = Total(s) /\ IsSum(N, a, u)
  BY <1>3, <1>4, SumOfIs
<1>6. PICK v, d : v \in Int /\ d = Deltas(s) /\ v = Net(s) /\ IsSum(N, d, v)
  BY <1>1, NetIs
<1>7. \A n \in 1 .. N : a[n] \in Int /\ d[n] = -a[n]
  BY <1>1, <1>2, <1>3, <1>6 DEF Deltas, Delta
<1>8. PICK z : z = [n \in 1 .. N |-> 0]
  OBVIOUS
<1>9. \A n \in 1 .. N : z[n] = a[n] + d[n] /\ z[n] = 0
  BY <1>7, <1>8
<1>10. IsSum(N, z, u + v) /\ IsSum(N, z, 0)
  BY <1>5, <1>6, <1>9, SumAdd, SumZero
<1>11. u + v = 0
  BY <1>6, <1>10, SumUnique
<1>12. v \in Int /\ v = Net(s)
  BY <1>6
<1>13. u = Total(s)
  BY <1>5
<1> QED BY <1>11, <1>12, <1>13

-----------------------------------------------------------------------------
(* The calendar *)

LEMMA MinPair ==
  ASSUME NEW a \in Int, NEW b \in Int
  PROVE  Min({a, b}) = IF a <= b THEN a ELSE b
<1> DEFINE m == IF a <= b THEN a ELSE b
           P(x) == x \in {a, b} /\ \A y \in {a, b} : x <= y
<1>1. P(m) /\ \A x : P(x) => x = m
  OBVIOUS
<1>2. Min({a, b}) = CHOOSE x \in {a, b} : \A y \in {a, b} : x <= y
  BY DEF Min
<1> QED BY <1>1, <1>2

LEMMA MaxPair ==
  ASSUME NEW a \in Int, NEW b \in Int
  PROVE  Max({a, b}) = IF a <= b THEN b ELSE a
<1> DEFINE m == IF a <= b THEN b ELSE a
           P(x) == x \in {a, b} /\ \A y \in {a, b} : x >= y
<1>1. P(m) /\ \A x : P(x) => x = m
  OBVIOUS
<1>2. Max({a, b}) = CHOOSE x \in {a, b} : \A y \in {a, b} : x >= y
  BY DEF Max
<1> QED BY <1>1, <1>2

\* The least number of a set.
LEMMA MinIs ==
  ASSUME NEW S \in SUBSET Nat, S # {}
  PROVE  Min(S) \in S /\ \A x \in S : Min(S) <= x
<1>1. PICK m \in S : \A k \in S : m <= k
  BY LeastNat
<1>2. Min(S) = CHOOSE x \in S : \A y \in S : x <= y
  BY DEF Min
<1> QED BY <1>1, <1>2

\* The months, and the last month start, which is past the window.
LEMMA MonthsAre ==
         /\ \E last \in Nat : /\ Days <= last /\ last \in MonthStarts
                              /\ Months = {m \in MonthStarts : m < last}
         /\ MonthStarts \subseteq Nat /\ 0 \in Months
<1>1. PICK last \in MonthStarts : last \in Nat /\ Days <= last /\ MonthStarts \subseteq 0 .. last
  BY CalendarAssumption
<1>2. \A m \in MonthStarts : m \in Nat /\ m <= last
  BY <1>1
<1>3. Max(MonthStarts) = last
  <2>1. Max(MonthStarts) = CHOOSE x \in MonthStarts : \A y \in MonthStarts : x >= y
    BY DEF Max
  <2>2. last \in MonthStarts /\ \A y \in MonthStarts : last >= y
    BY <1>1, <1>2
  <2>3. \A x \in MonthStarts : (\A y \in MonthStarts : x >= y) => x = last
    BY <1>1, <1>2
  <2> QED BY <2>1, <2>2, <2>3
<1>4. ASSUME NEW m \in MonthStarts PROVE m # last <=> m < last
  BY <1>1, <1>2
<1>5. Months = {m \in MonthStarts : m < last}
  BY <1>3, <1>4 DEF Months
<1>6. 0 < last /\ 0 \in MonthStarts
  BY <1>1, CalendarAssumption
<1> QED BY <1>1, <1>2, <1>5, <1>6

\* A month closes on one of its days.
LEMMA CloseDayIs ==
  ASSUME NEW m \in Months
  PROVE  /\ m \in Nat /\ CloseDay(m) \in Nat /\ NextMonth(m) \in MonthStarts /\ NextMonth(m) \in Nat
         /\ m <= CloseDay(m) /\ CloseDay(m) < NextMonth(m)
         /\ \A n \in MonthStarts : n > m => NextMonth(m) <= n
<1>1. PICK last \in Nat : /\ Days <= last /\ last \in MonthStarts
                          /\ Months = {n \in MonthStarts : n < last}
  BY MonthsAre
<1>2. m \in Nat /\ m < last
  BY <1>1, MonthsAre
<1>3. PICK S : S = {n \in MonthStarts : n > m}
  OBVIOUS
<1>4. S \in SUBSET Nat /\ S # {}
  BY <1>1, <1>2, <1>3, MonthsAre
<1>5. PICK next \in S : next = NextMonth(m) /\ \A n \in S : next <= n
  <2>1. NextMonth(m) = Min(S)
    BY <1>3 DEF NextMonth
  <2> QED BY <1>4, <2>1, MinIs
<1>6. next \in Nat /\ next > m /\ next \in MonthStarts
  BY <1>3, <1>4, <1>5
<1>7. CycleDay \in Nat \ {0}
  BY CalendarAssumption
<1>8. ClampDay(m) = IF CycleDay <= next - m THEN CycleDay ELSE next - m
  BY <1>2, <1>5, <1>6, <1>7, MinPair DEF ClampDay
<1>9. CloseDay(m) \in Nat /\ m <= CloseDay(m) /\ CloseDay(m) < next
  BY <1>2, <1>6, <1>7, <1>8 DEF CloseDay
<1> QED BY <1>2, <1>3, <1>5, <1>6, <1>9

\* The closes of a card: in order, on days of the window and of the owner's
\* service, and none too long after the one before.
Ladder(closes, died) ==
  /\ closes \in Seq(Int)
  /\ \A j \in 1 .. Len(closes) :
       \E d \in Nat : closes[j] = Instant(d, CloseTime) /\ d < Days /\ d < ServiceEnd(died)
  /\ \A i, j \in 1 .. Len(closes) : i < j => closes[i] < closes[j]
  /\ Len(closes) # 0 => closes[1] <= Instant(LagDays, CloseTime)
  /\ \A j \in 1 .. Len(closes) - 1 : closes[j + 1] <= closes[j] + Ticks * LagDays

LEMMA ClosesAre ==
  ASSUME NEW died \in Int
  PROVE  Ladder(Closes(died), died)
<1>1. PICK last \in Nat : /\ Days <= last /\ last \in MonthStarts
                          /\ Months = {n \in MonthStarts : n < last}
  BY MonthsAre
<1>2. PICK S : S = CloseDates(died)
  OBVIOUS
<1>3. PICK end \in Int : end = ServiceEnd(died)
  BY TermsAssumption DEF ServiceEnd
<1>4. Days \in Nat /\ LagDays \in Nat
  BY CalendarAssumption
<1>5. PICK N \in Nat : N = 7 * Days
  BY <1>4
<1>6. \A c : c \in S <=> \E m \in Months : /\ c = CloseDay(m) * 7 + 5 /\ CloseDay(m) \in Nat
                                           /\ CloseDay(m) < Days /\ CloseDay(m) < end
  BY <1>2, <1>3, CloseDayIs DEF CloseDates, Instant, Ticks, CloseTime
<1>7. S \in SUBSET (0 .. N)
  BY <1>4, <1>5, <1>6
<1>8. PICK K \in Nat : K = Cardinality(S) /\ IsFiniteSet(S)
  BY <1>7, FiniteUpTo
<1>9. PICK L : L = Closes(died)
  OBVIOUS
<1> DEFINE at(j) == CHOOSE c \in S : Cardinality(Below(S, c)) = j - 1
<1>10. L = [j \in 1 .. K |-> at(j)]
  BY <1>2, <1>8, <1>9 DEF Closes, Below
<1>11. \A j \in 1 .. K : at(j) \in S /\ Cardinality(Below(S, at(j))) = j - 1
  <2> TAKE j \in 1 .. K
  <2>1. \E c \in S : Cardinality(Below(S, c)) = j - 1
    BY <1>7, <1>8, Ranked
  <2> QED BY <2>1
<1> HIDE DEF at
<1>12. \A j \in 1 .. K : L[j] = at(j) /\ L[j] \in S /\ L[j] \in Int
  <2>1. \A j \in 1 .. K : L[j] = at(j)
    BY <1>10
  <2>2. \A c \in S : c \in Int
    BY <1>7
  <2> QED BY <1>11, <2>1, <2>2
<1>13. L \in Seq(Int) /\ Len(L) = K
  <2>1. \A j \in 1 .. K : at(j) \in Int
    BY <1>12
  <2> QED BY <1>10, <2>1
<1>14. ASSUME NEW x \in S, NEW y \in S, x < y
       PROVE  Cardinality(Below(S, x)) < Cardinality(Below(S, y))
  <2>1. x \in Int /\ y \in Int /\ \A z \in S : z \in Int
    BY <1>7
  <2>2. Below(S, x) \in SUBSET Below(S, y) /\ x \in Below(S, y) /\ x \notin Below(S, x)
    <3>1. ASSUME NEW z \in Below(S, x) PROVE z \in Below(S, y)
      BY <1>14, <2>1 DEF Below
    <3>2. x \in Below(S, y) /\ x \notin Below(S, x)
      BY <1>14, <2>1 DEF Below
    <3> QED BY <3>1, <3>2
  <2>3. IsFiniteSet(Below(S, x)) /\ IsFiniteSet(Below(S, y))
    <3>1. Below(S, x) \in SUBSET S /\ Below(S, y) \in SUBSET S
      BY DEF Below
    <3> QED BY <1>8, <3>1, FS_Subset
  <2>4. Cardinality(Below(S, x)) \in Nat /\ Cardinality(Below(S, y)) \in Nat
    BY <2>3, FS_CardinalityType
  <2>5. /\ Cardinality(Below(S, x)) <= Cardinality(Below(S, y))
        /\ Cardinality(Below(S, x)) # Cardinality(Below(S, y))
    BY <2>2, <2>3, FS_Subset
  <2> QED BY <2>4, <2>5
<1>15. \A i, j \in 1 .. K : L[i] < L[j] <=> i < j
  <2> TAKE i, j \in 1 .. K
  <2>1. PICK x \in S, y \in S : /\ x = L[i] /\ y = L[j] /\ x \in Int /\ y \in Int
                                /\ Cardinality(Below(S, x)) = i - 1
                                /\ Cardinality(Below(S, y)) = j - 1
    BY <1>11, <1>12
  <2>2. x < y \/ x = y \/ y < x
    BY <2>1
  <2>3. (x < y => i - 1 < j - 1) /\ (y < x => j - 1 < i - 1) /\ (x = y => i - 1 = j - 1)
    BY <1>14, <2>1
  <2> QED BY <2>1, <2>2, <2>3
<1>16. ASSUME NEW c \in S PROVE \E j \in 1 .. K : L[j] = c
  <2>1. PICK j \in 1 .. K : j = Cardinality(Below(S, c)) + 1
    BY <1>7, <1>8, RankRange
  <2>2. Cardinality(Below(S, c)) \in Int
    <3>1. Below(S, c) \in SUBSET (0 .. N)
      BY <1>7, FiniteUpTo
    <3> QED BY <3>1, FiniteUpTo
  <2>3. Cardinality(Below(S, at(j))) = Cardinality(Below(S, c)) /\ at(j) \in S
    BY <1>11, <2>1, <2>2
  <2>4. at(j) = c
    BY <1>7, <2>3, RankUnique
  <2> QED BY <1>12, <2>4
<1>17. ASSUME NEW m \in Months, NEW j \in 1 .. K, NEW i \in 0 .. j - 1,
              i # 0 => L[i] < CloseDay(m) * 7 + 5,
              CloseDay(m) * 7 + 5 < L[j]
       PROVE  \E k \in i + 1 .. j - 1 : L[k] = CloseDay(m) * 7 + 5
  <2>1. PICK d \in Nat : L[j] = d * 7 + 5 /\ d < Days /\ d < end
    <3>1. L[j] \in S
      BY <1>12
    <3> QED BY <1>6, <3>1
  <2>2. PICK c \in Nat : c = CloseDay(m)
    BY CloseDayIs
  <2>3. c < Days /\ c < end
    BY <1>3, <1>4, <1>17, <2>1, <2>2
  <2>4. c * 7 + 5 \in S
    BY <1>6, <2>2, <2>3
  <2>5. PICK k \in 1 .. K : L[k] = c * 7 + 5
    BY <1>16, <2>4
  <2>6. k < j
    BY <1>15, <1>17, <2>2, <2>5
  <2>7. i # 0 => i < k
    <3> SUFFICES ASSUME i # 0 PROVE i < k
      OBVIOUS
    <3>1. i \in 1 .. K
      OBVIOUS
    <3> QED BY <1>15, <1>17, <2>2, <2>5, <3>1
  <2> QED BY <2>2, <2>5, <2>6, <2>7
<1>18. \A j \in 1 .. K : \E d \in Nat : L[j] = Instant(d, CloseTime) /\ d < Days /\ d < end
  <2>1. \A j \in 1 .. K : \E m \in Months : /\ L[j] = CloseDay(m) * 7 + 5 /\ CloseDay(m) \in Nat
                                            /\ CloseDay(m) < Days /\ CloseDay(m) < end
    BY <1>6, <1>12
  <2> QED BY <2>1 DEF Instant, Ticks, CloseTime
<1>19. K # 0 => L[1] <= Instant(LagDays, CloseTime)
  <2> SUFFICES ASSUME K # 0 PROVE L[1] <= Instant(LagDays, CloseTime)
    OBVIOUS
  <2>1. PICK m : m = 0 /\ m \in Months
    BY MonthsAre
  <2>2. PICK c \in Nat : c = CloseDay(m) /\ c <= LagDays
    BY <2>1, CloseDayIs, CalendarAssumption
  <2>3. PICK i, j : i = 0 /\ j = 1 /\ j \in 1 .. K /\ i \in 0 .. j - 1
    OBVIOUS
  <2>4. ~(c * 7 + 5 < L[1])
    <3> SUFFICES ASSUME c * 7 + 5 < L[1] PROVE FALSE
      OBVIOUS
    <3>1. \E k \in i + 1 .. j - 1 : L[k] = CloseDay(m) * 7 + 5
      BY <1>17, <2>1, <2>2, <2>3
    <3> QED BY <2>3, <3>1
  <2>5. L[1] \in Int
    BY <1>12
  <2> QED BY <1>4, <2>2, <2>4, <2>5 DEF Instant, Ticks, CloseTime
<1>20. ASSUME NEW i \in 1 .. K - 1 PROVE L[i + 1] <= L[i] + Ticks * LagDays
  <2>1. PICK j \in 1 .. K : j = i + 1
    OBVIOUS
  <2>2. i \in 1 .. K /\ L[i] < L[j] /\ L[i] \in S /\ L[j] \in S /\ L[i] \in Int /\ L[j] \in Int
    BY <1>12, <1>15, <2>1
  <2>3. PICK m \in Months : L[i] = CloseDay(m) * 7 + 5
    BY <1>6, <2>2
  <2>4. PICK n \in Months : L[j] = CloseDay(n) * 7 + 5
    BY <1>6, <2>2
  <2>5. PICK c \in Nat, e \in Nat, next \in Nat :
          c = CloseDay(m) /\ e = CloseDay(n) /\ next = NextMonth(m)
    BY CloseDayIs
  <2>6. /\ m \in Nat /\ n \in Nat /\ m <= c /\ c < next /\ next \in MonthStarts
        /\ n <= e /\ e < NextMonth(n) /\ NextMonth(n) \in Nat
        /\ \A q \in MonthStarts : q > m => next <= q
        /\ \A q \in MonthStarts : q > n => NextMonth(n) <= q
    BY <2>5, CloseDayIs
  <2>7. c < e
    BY <2>2, <2>3, <2>4, <2>5
  <2>8. m \in MonthStarts /\ n \in MonthStarts /\ n < last
    BY <1>1
  <2>9. m < n
    <3>1. ~(n < m)
      <4> SUFFICES ASSUME n < m PROVE FALSE
        OBVIOUS
      <4>1. NextMonth(n) <= m
        BY <2>6, <2>8
      <4> QED BY <2>6, <2>7, <4>1
    <3>2. n # m
      BY <2>5, <2>7
    <3> QED BY <2>6, <3>1, <3>2
  <2>10. next <= n /\ next \in Months
    BY <1>1, <2>6, <2>8, <2>9
  <2>11. PICK x \in Nat : x = CloseDay(next) /\ next <= x /\ x <= c + LagDays
    <3>1. CloseDay(next) \in Nat /\ next <= CloseDay(next)
      BY <2>10, CloseDayIs
    <3>2. CloseDay(next) <= c + LagDays
      BY <2>5, <2>10, CalendarAssumption
    <3> QED BY <3>1, <3>2
  <2>12. ~(x * 7 + 5 < L[j])
    <3> SUFFICES ASSUME x * 7 + 5 < L[j] PROVE FALSE
      OBVIOUS
    <3>1. L[i] < x * 7 + 5 /\ i \in 0 .. j - 1
      BY <2>1, <2>3, <2>5, <2>6, <2>11
    <3>2. \E k \in i + 1 .. j - 1 : L[k] = CloseDay(next) * 7 + 5
      BY <1>17, <2>10, <2>11, <3>1
    <3> QED BY <2>1, <3>2
  <2>13. L[j] <= L[i] + 7 * LagDays
    BY <1>4, <2>2, <2>3, <2>5, <2>11, <2>12
  <2> QED BY <2>1, <2>13 DEF Ticks
<1>21. \A i, j \in 1 .. K : i < j => L[i] < L[j]
  BY <1>15
<1>22. \A j \in 1 .. K :
         \E d \in Nat : L[j] = Instant(d, CloseTime) /\ d < Days /\ d < ServiceEnd(died)
  BY <1>3, <1>18
<1> QED BY <1>9, <1>13, <1>19, <1>20, <1>21, <1>22 DEF Ladder

-----------------------------------------------------------------------------
(* The card *)

Waiting == [row : AnyRow, feeOnReject : BOOLEAN]
Decisions == [row : AnyRow, accepted : BOOLEAN]
Cards ==
  [indices : Seq(AnyRow), cursor : Nat, closes : Seq(Int), closed : Nat, prior : Int,
   balance : Int, inGrace : BOOLEAN, deferred : Seq(AnyRow), pending : Seq(Waiting),
   ready : BOOLEAN, emitted : Seq(AnyRow), log : Seq(Decisions), autopay : Autopays,
   cash : Int, owed : Int]

\* A row of the lifecycle, inside the owner's service.
Charge(r, died) ==
  r \in AnyRow /\ r.kind # "purchase" /\ DayOf(r.ts) < died + Settlement

\* A posting that waits: the payment that costs a late fee falls before the fee.
Booked(p, died) ==
  /\ p \in Waiting /\ Charge(p.row, died) /\ p.row.ts < WindowEnd
  /\ p.feeOnReject => /\ p.row.kind = "payment" /\ p.row.ts < FeeTime(p.row.cycle)
                      /\ DayOf(p.row.cycle) < ServiceEnd(died)

\* What every operation keeps of a card: the funds, and the dates of its rows,
\* deferred from lo on, waiting from low on, emitted from day w on.
Sheet(c, lo, low, w, died) ==
  /\ c \in Cards /\ c.cash >= 0 /\ c.owed <= Limit
  /\ \A i \in 1 .. Len(c.deferred) : c.deferred[i].ts >= lo
  /\ \A i \in 1 .. Len(c.emitted) : Charge(c.emitted[i], died) /\ DayOf(c.emitted[i].ts) >= w
  /\ \A i \in 1 .. Len(c.pending) : Booked(c.pending[i], died) /\ c.pending[i].row.ts >= low

SameSession(c, d) ==
  /\ d.indices = c.indices /\ d.cursor = c.cursor /\ d.closes = c.closes /\ d.closed = c.closed
  /\ d.prior = c.prior /\ d.balance = c.balance /\ d.ready = c.ready /\ d.autopay = c.autopay

\* A posting moves what is owed by what it defers.
Posts(c, d) ==
  SameSession(c, d) /\ d.owed + Net(d.deferred) = c.owed + Net(c.deferred)

\* The waiting postings of d are those of c, and perhaps a fee after from.
MayFee(c, d, from) ==
  \/ d.pending = c.pending
  \/ \E p \in Waiting : /\ d.pending = Append(c.pending, p)
                        /\ p.row.kind = "fee" /\ ~p.feeOnReject /\ p.row.ts > from

LEMMA CardFields ==
  ASSUME NEW c \in Cards
  PROVE  /\ c.indices \in Seq(AnyRow) /\ c.cursor \in Nat /\ c.closes \in Seq(Int)
         /\ c.closed \in Nat /\ c.prior \in Int /\ c.balance \in Int /\ c.inGrace \in BOOLEAN
         /\ c.deferred \in Seq(AnyRow) /\ c.pending \in Seq(Waiting) /\ c.ready \in BOOLEAN
         /\ c.emitted \in Seq(AnyRow) /\ c.log \in Seq(Decisions) /\ c.autopay \in Autopays
         /\ c.cash \in Int /\ c.owed \in Int
BY DEF Cards

\* The terms are numbers.
LEMMA Terms ==
  /\ Days \in Nat \ {0} /\ LagDays \in Nat /\ Grace \in Nat /\ MinPayment \in Nat
  /\ MinPct \in Nat /\ LateFee \in Nat /\ Interest \in Nat /\ EarlyDays \in Nat
  /\ Settlement \in Nat /\ SettleTail \in Nat /\ Compaction \in Nat /\ Limit \in Nat
  /\ WindowEnd \in Int
BY CalendarAssumption, TermsAssumption DEF WindowEnd, Instant, Ticks

\* A due time moves by two days at most.
LEMMA ResolveIs ==
  ASSUME NEW due \in Int
  PROVE  /\ ResolveDueDate(due) \in Int
         /\ ResolveDueDate(due) = due \/ ResolveDueDate(due) = due + 7
              \/ ResolveDueDate(due) = due + 14
BY DEF ResolveDueDate, Ticks, DayOf

\* The late fee is dated after the due time, and that after the close.
LEMMA FeeTimeIs ==
  ASSUME NEW close \in Int
  PROVE  /\ DayOf(close) \in Int /\ DueOf(close) \in Int /\ FeeTime(close) \in Int
         /\ ResolveDueDate(DueOf(close)) \in Int
         /\ DueOf(close) = (DayOf(close) + Grace) * 7 + 3
         /\ ResolveDueDate(DueOf(close)) >= DueOf(close)
         /\ DayOf(ResolveDueDate(DueOf(close))) \in DayOf(close) + Grace .. DayOf(close) + Grace + 2
         /\ ResolveDueDate(DueOf(close)) = DayOf(ResolveDueDate(DueOf(close))) * 7 + 3
         /\ FeeTime(close) > ResolveDueDate(DueOf(close)) /\ FeeTime(close) > close
         /\ DayOf(FeeTime(close)) <= DayOf(close) + Grace + 3
<1>1. PICK d \in Int : d = DayOf(close) /\ close <= d * 7 + 6
  BY DEF DayOf, Ticks
<1>2. Grace \in Nat
  BY Terms
<1>3. PICK u \in Int : u = DueOf(close) /\ u = (d + Grace) * 7 + 3
  BY <1>1, <1>2 DEF DueOf, Instant, Ticks, Cutoff
<1>4. PICK r \in Int : r = ResolveDueDate(DueOf(close)) /\ (r = u \/ r = u + 7 \/ r = u + 14)
  BY <1>3, ResolveIs
<1>5. PICK e \in Int : e = DayOf(r) /\ e \in d + Grace .. d + Grace + 2 /\ r = e * 7 + 3
  BY <1>2, <1>3, <1>4 DEF DayOf, Ticks
<1>6. PICK f \in Int : f = FeeTime(close) /\ f = (e + 1) * 7 + 1
  BY <1>4, <1>5 DEF FeeTime, Instant, Ticks, Morning
<1>7. DayOf(f) = e + 1
  BY <1>6 DEF DayOf, Ticks
<1>8. f > r /\ f > close /\ e + 1 <= d + Grace + 3 /\ r >= u
  <2>1. e >= d + Grace /\ e <= d + Grace + 2
    BY <1>1, <1>2, <1>5
  <2>2. f > r
    BY <1>5, <1>6
  <2>3. f = 7 * e + 8 /\ 7 * e >= 7 * d
    BY <1>1, <1>2, <1>5, <1>6, <2>1
  <2>4. f > close
    BY <1>1, <1>6, <2>3
  <2>5. r >= u
    BY <1>3, <1>4
  <2> QED BY <1>1, <1>2, <1>5, <2>1, <2>2, <2>4, <2>5
<1>9. DayOf(r) \in d + Grace .. d + Grace + 2 /\ r = DayOf(r) * 7 + 3
  BY <1>5
<1>10. DayOf(f) <= d + Grace + 3
  BY <1>7, <1>8
<1> QED BY <1>1, <1>3, <1>4, <1>6, <1>8, <1>9, <1>10

LEMMA AcceptIs ==
  ASSUME NEW c, NEW lo \in Int, NEW low, NEW w, NEW died, Sheet(c, lo, low, w, died),
         NEW r, Charge(r, died), r.ts >= lo, DayOf(r.ts) >= w, Accepts(c, r)
  PROVE  /\ Sheet(Accept(c, r), lo, low, w, died) /\ Posts(c, Accept(c, r))
         /\ Accept(c, r).pending = c.pending /\ Accept(c, r).inGrace = c.inGrace
         /\ Accept(c, r).log = c.log
<1>1. c \in Cards /\ r \in AnyRow /\ r.kind # "purchase"
  BY DEF Sheet, Charge
<1>2. /\ c.emitted \in Seq(AnyRow) /\ c.deferred \in Seq(AnyRow) /\ c.cash \in Int /\ c.owed \in Int
  BY <1>1, CardFields
<1>3. r.kind \in Kinds /\ r.amt \in Nat /\ r.ts \in Int
  BY <1>1 DEF AnyRow
<1>4. PICK d : d = Accept(c, r)
  OBVIOUS
<1>5. /\ d = [c EXCEPT !.owed = c.owed - Delta(r),
                       !.cash = IF r.kind = "payment" THEN c.cash - r.amt ELSE c.cash,
                       !.emitted = Append(c.emitted, r), !.deferred = Append(c.deferred, r)]
  BY <1>1, <1>4 DEF Accept, PostToLedger, Cards
<1>6. /\ d.owed = c.owed - Delta(r)
      /\ d.cash = IF r.kind = "payment" THEN c.cash - r.amt ELSE c.cash
      /\ d.emitted = Append(c.emitted, r) /\ d.deferred = Append(c.deferred, r)
      /\ d.pending = c.pending /\ d.inGrace = c.inGrace /\ d.log = c.log
      /\ SameSession(c, d)
  BY <1>1, <1>5 DEF Cards, SameSession
<1>7. Delta(r) \in Int /\ Delta(r) = IF r.kind \in {"payment", "credit"} THEN r.amt ELSE -r.amt
  BY <1>3 DEF Delta
<1>8. d \in Cards
  <2>1. Append(c.emitted, r) \in Seq(AnyRow) /\ Append(c.deferred, r) \in Seq(AnyRow)
    BY <1>1, <1>2, AppendProperties
  <2>2. d.owed \in Int /\ d.cash \in Int
    BY <1>2, <1>3, <1>6, <1>7, SMTT(20)
  <2> QED BY <1>1, <1>5, <1>6, <2>1, <2>2 DEF Cards
<1>9. d.cash >= 0 /\ d.owed <= Limit
  <2>1. c.cash >= 0 /\ c.owed <= Limit
    BY DEF Sheet
  <2>2. r.kind = "payment" => c.cash >= r.amt
    BY DEF Accepts
  <2>3. r.kind \in {"interest", "fee"} => c.owed + r.amt <= Limit
    BY DEF Accepts
  <2>4. r.kind \in {"payment", "interest", "fee", "credit"}
    BY <1>1, <1>3 DEF Kinds
  <2>5. c.cash \in Int /\ c.owed \in Int /\ r.amt \in Nat /\ Limit \in Nat
    BY <1>2, <1>3, Terms
  <2>6. PICK amt \in Nat, paid \in Int, k \in Kinds :
          /\ amt = r.amt /\ paid = Delta(r) /\ k = r.kind
          /\ paid = IF k \in {"payment", "credit"} THEN amt ELSE -amt
    BY <1>7, <2>4, <2>5 DEF Kinds
  <2>7. CASE k = "payment"
    <3>1. d.owed = c.owed - amt /\ d.cash = c.cash - amt
      BY <1>6, <2>6, <2>7
    <3> QED BY <2>1, <2>2, <2>5, <2>6, <2>7, <3>1
  <2>8. CASE k = "credit"
    <3>1. d.owed = c.owed - amt /\ d.cash = c.cash
      BY <1>6, <2>6, <2>8
    <3> QED BY <2>1, <2>5, <2>6, <3>1
  <2>9. CASE k \in {"interest", "fee"}
    <3>1. d.owed = c.owed - (-amt) /\ d.cash = c.cash
      BY <1>6, <2>6, <2>9
    <3> QED BY <2>1, <2>3, <2>5, <2>6, <2>9, <3>1
  <2> QED BY <2>4, <2>6, <2>7, <2>8, <2>9
<1>10. \A i \in 1 .. Len(d.deferred) : d.deferred[i].ts >= lo
  <2>1. Len(d.deferred) = Len(c.deferred) + 1 /\ Len(c.deferred) \in Nat
        /\ d.deferred[Len(c.deferred) + 1] = r
        /\ \A i \in 1 .. Len(c.deferred) : d.deferred[i] = c.deferred[i]
    BY <1>1, <1>2, <1>6, AppendProperties
  <2>2. \A i \in 1 .. Len(c.deferred) : c.deferred[i].ts >= lo
    BY DEF Sheet
  <2>3. \A i \in 1 .. Len(c.deferred) + 1 : i \in 1 .. Len(c.deferred) \/ i = Len(c.deferred) + 1
    BY <2>1
  <2> QED BY <2>1, <2>2, <2>3
<1>11. \A i \in 1 .. Len(d.emitted) : Charge(d.emitted[i], died) /\ DayOf(d.emitted[i].ts) >= w
  <2>1. Len(d.emitted) = Len(c.emitted) + 1 /\ Len(c.emitted) \in Nat
        /\ d.emitted[Len(c.emitted) + 1] = r
        /\ \A i \in 1 .. Len(c.emitted) : d.emitted[i] = c.emitted[i]
    BY <1>1, <1>2, <1>6, AppendProperties
  <2>2. \A i \in 1 .. Len(c.emitted) : Charge(c.emitted[i], died) /\ DayOf(c.emitted[i].ts) >= w
    BY DEF Sheet
  <2>3. \A i \in 1 .. Len(c.emitted) + 1 : i \in 1 .. Len(c.emitted) \/ i = Len(c.emitted) + 1
    BY <2>1
  <2> QED BY <2>1, <2>2, <2>3
<1>12. \A i \in 1 .. Len(d.pending) : Booked(d.pending[i], died) /\ d.pending[i].row.ts >= low
  BY <1>6 DEF Sheet
<1>13. Sheet(d, lo, low, w, died)
  BY <1>8, <1>9, <1>10, <1>11, <1>12 DEF Sheet
<1>14. d.owed + Net(d.deferred) = c.owed + Net(c.deferred)
  <2>1. Net(d.deferred) = Net(c.deferred) + Delta(r) /\ Net(c.deferred) \in Int
    BY <1>1, <1>2, <1>6, NetAppend, NetIs
  <2> QED BY <1>2, <1>6, <1>7, <2>1
<1> QED BY <1>4, <1>6, <1>13, <1>14 DEF Posts

LEMMA BookIs ==
  ASSUME NEW c, NEW lo, NEW low \in Int, NEW w, NEW died, Sheet(c, lo, low, w, died),
         NEW r, NEW f \in BOOLEAN, Booked([row |-> r, feeOnReject |-> f], died), r.ts >= low
  PROVE  /\ Sheet(Book(c, r, f), lo, low, w, died) /\ Posts(c, Book(c, r, f))
         /\ Book(c, r, f).pending = Append(c.pending, [row |-> r, feeOnReject |-> f])
         /\ Book(c, r, f).inGrace = c.inGrace /\ Book(c, r, f).log = c.log
<1>1. c \in Cards
  BY DEF Sheet
<1>2. c.pending \in Seq(Waiting)
  BY <1>1, CardFields
<1>3. PICK p \in Waiting : p = [row |-> r, feeOnReject |-> f]
  BY DEF Booked
<1>4. PICK d : d = Book(c, r, f)
  OBVIOUS
<1>5. d = [c EXCEPT !.pending = Append(c.pending, p)]
  BY <1>1, <1>3, <1>4 DEF Book, Cards
<1>6. /\ d.pending = Append(c.pending, p) /\ SameSession(c, d)
      /\ d.owed = c.owed /\ d.cash = c.cash /\ d.emitted = c.emitted /\ d.deferred = c.deferred
      /\ d.inGrace = c.inGrace /\ d.log = c.log
  BY <1>1, <1>5 DEF Cards, SameSession
<1>7. d \in Cards
  <2>1. Append(c.pending, p) \in Seq(Waiting)
    BY <1>2, <1>3, AppendProperties
  <2> QED BY <1>1, <1>5, <2>1 DEF Cards
<1>8. \A i \in 1 .. Len(d.pending) : Booked(d.pending[i], died) /\ d.pending[i].row.ts >= low
  <2>1. Len(d.pending) = Len(c.pending) + 1 /\ Len(c.pending) \in Nat
        /\ d.pending[Len(c.pending) + 1] = p
        /\ \A i \in 1 .. Len(c.pending) : d.pending[i] = c.pending[i]
    BY <1>2, <1>3, <1>6, AppendProperties
  <2>2. \A i \in 1 .. Len(c.pending) : Booked(c.pending[i], died) /\ c.pending[i].row.ts >= low
    BY DEF Sheet
  <2>3. \A i \in 1 .. Len(c.pending) + 1 : i \in 1 .. Len(c.pending) \/ i = Len(c.pending) + 1
    BY <2>1
  <2>4. Booked(p, died) /\ p.row.ts >= low
    BY <1>3
  <2> QED BY <2>1, <2>2, <2>3, <2>4
<1>9. Sheet(d, lo, low, w, died)
  BY <1>6, <1>7, <1>8 DEF Sheet
<1>10. Posts(c, d)
  BY <1>6 DEF Posts
<1> QED BY <1>3, <1>4, <1>6, <1>9, <1>10

LEMMA PostLateFeeIs ==
  ASSUME NEW c, NEW lo, NEW low \in Int, NEW w, NEW died \in Int, Sheet(c, lo, low, w, died),
         NEW close \in Int, DayOf(close) < ServiceEnd(died), FeeTime(close) >= low
  PROVE  /\ Sheet(PostLateFee(c, close), lo, low, w, died) /\ Posts(c, PostLateFee(c, close))
         /\ PostLateFee(c, close).inGrace = c.inGrace /\ PostLateFee(c, close).log = c.log
         /\ \/ PostLateFee(c, close).pending = c.pending
            \/ \E p \in Waiting :
                 /\ PostLateFee(c, close).pending = Append(c.pending, p)
                 /\ p.row.kind = "fee" /\ ~p.feeOnReject /\ p.row.ts = FeeTime(close)
<1>1. CASE FeeTime(close) >= WindowEnd
  BY <1>1 DEF PostLateFee, Posts, SameSession
<1>2. CASE ~(FeeTime(close) >= WindowEnd)
  <2>1. PICK r : r = Row("fee", LateFee, FeeTime(close), close)
    OBVIOUS
  <2>2. /\ r \in AnyRow /\ r.kind = "fee" /\ r.ts = FeeTime(close) /\ r.ts \in Int
    BY <2>1, FeeTimeIs, Terms DEF Row, AnyRow, Kinds
  <2>3. DayOf(r.ts) < died + Settlement
    <3>1. DayOf(r.ts) <= DayOf(close) + Grace + 3 /\ DayOf(close) \in Int
      BY <2>2, FeeTimeIs
    <3>2. DayOf(close) < died + Settlement - SettleTail /\ Grace + 3 <= SettleTail
      BY TermsAssumption DEF ServiceEnd
    <3>3. DayOf(r.ts) \in Int
      BY <2>2 DEF DayOf, Ticks
    <3> QED BY <3>1, <3>2, <3>3, Terms
  <2>4. PICK p \in Waiting : p = [row |-> r, feeOnReject |-> FALSE]
    BY <2>2 DEF Waiting
  <2>5. Booked(p, died)
    BY <1>2, <2>2, <2>3, <2>4, Terms DEF Booked, Charge
  <2>6. PostLateFee(c, close) = Book(c, r, FALSE)
    BY <1>2, <2>1 DEF PostLateFee
  <2>7. r.ts >= low
    BY <2>2
  <2>8. PICK f \in BOOLEAN : f = FALSE
    OBVIOUS
  <2>9. Booked([row |-> r, feeOnReject |-> f], died)
    BY <2>4, <2>5, <2>8
  <2>10. /\ Sheet(Book(c, r, f), lo, low, w, died) /\ Posts(c, Book(c, r, f))
        /\ Book(c, r, f).pending = Append(c.pending, [row |-> r, feeOnReject |-> f])
        /\ Book(c, r, f).inGrace = c.inGrace /\ Book(c, r, f).log = c.log
    BY <2>7, <2>9, BookIs
  <2>11. p.row.kind = "fee" /\ ~p.feeOnReject /\ p.row.ts = FeeTime(close)
    BY <2>2, <2>4
  <2> QED BY <2>4, <2>6, <2>8, <2>10, <2>11
<1> QED BY <1>1, <1>2

-----------------------------------------------------------------------------
(* The ledger's decisions *)

\* The decision is noted.
Noted(c, p) == [c EXCEPT !.log = Append(@, [row |-> p.row, accepted |-> Accepts(c, p.row)])]

LEMMA NotedIs ==
  ASSUME NEW c, NEW lo, NEW low, NEW w, NEW died, Sheet(c, lo, low, w, died),
         NEW p \in Waiting, p.row.kind # "purchase"
  PROVE  /\ Sheet(Noted(c, p), lo, low, w, died) /\ Posts(c, Noted(c, p))
         /\ Noted(c, p).pending = c.pending /\ Noted(c, p).inGrace = c.inGrace
         /\ Noted(c, p).log = Append(c.log, [row |-> p.row, accepted |-> Accepts(c, p.row)])
         /\ Accepts(c, p.row) \in BOOLEAN
         /\ Accepts(Noted(c, p), p.row) = Accepts(c, p.row)
         /\ [Noted(c, p) EXCEPT !.inGrace = FALSE].pending = c.pending
         /\ [Noted(c, p) EXCEPT !.inGrace = FALSE].log = Noted(c, p).log
         /\ Sheet([Noted(c, p) EXCEPT !.inGrace = FALSE], lo, low, w, died)
         /\ Posts(c, [Noted(c, p) EXCEPT !.inGrace = FALSE])
<1>1. c \in Cards /\ p.row \in AnyRow
  BY DEF Sheet, Waiting
<1>2. p.row.kind \in Kinds
  BY <1>1 DEF AnyRow
<1>3. PICK a : a = Accepts(c, p.row)
  OBVIOUS
<1>4. a \in BOOLEAN
  <2>1. CASE p.row.kind = "payment"
    BY <1>3, <2>1 DEF Accepts
  <2>2. CASE p.row.kind = "interest" \/ p.row.kind = "fee"
    <3>1. p.row.kind \in {"interest", "fee", "purchase"} /\ p.row.kind # "payment" /\ p.row.kind # "credit"
      BY <2>2
    <3>2. a = (c.owed + p.row.amt <= Limit)
      BY <1>3, <3>1 DEF Accepts
    <3> QED BY <3>2
  <2>3. CASE p.row.kind = "credit"
    BY <1>3, <2>3 DEF Accepts
  <2> QED BY <1>2, <2>1, <2>2, <2>3 DEF Kinds
<1>5. PICK l \in Decisions : l = [row |-> p.row, accepted |-> a]
  BY <1>1, <1>4 DEF Decisions
<1>6. PICK d : d = Noted(c, p)
  OBVIOUS
<1>7. d = [c EXCEPT !.log = Append(c.log, l)]
  BY <1>1, <1>3, <1>5, <1>6 DEF Noted, Cards
<1>8. /\ d.log = Append(c.log, l) /\ SameSession(c, d) /\ d.pending = c.pending
      /\ d.owed = c.owed /\ d.cash = c.cash /\ d.emitted = c.emitted /\ d.deferred = c.deferred
      /\ d.inGrace = c.inGrace
  BY <1>1, <1>7 DEF Cards, SameSession
<1>9. d \in Cards
  <2>1. c.log \in Seq(Decisions)
    BY <1>1, CardFields
  <2>2. Append(c.log, l) \in Seq(Decisions)
    BY <2>1, AppendProperties
  <2> QED BY <1>1, <1>7, <2>2 DEF Cards
<1>10. Sheet(d, lo, low, w, died) /\ Posts(c, d)
  BY <1>8, <1>9 DEF Sheet, Posts
<1>11. Accepts(d, p.row) = a
  BY <1>2, <1>3, <1>8 DEF Accepts, Kinds
<1>12. PICK e : e = [d EXCEPT !.inGrace = FALSE]
  OBVIOUS
<1>13. /\ e \in Cards /\ SameSession(c, e) /\ e.pending = c.pending /\ e.log = d.log
       /\ e.owed = c.owed /\ e.cash = c.cash /\ e.emitted = c.emitted /\ e.deferred = c.deferred
  BY <1>8, <1>9, <1>12 DEF Cards, SameSession
<1>14. Sheet(e, lo, low, w, died) /\ Posts(c, e)
  BY <1>13 DEF Sheet, Posts
<1> QED BY <1>3, <1>4, <1>5, <1>6, <1>8, <1>10, <1>11, <1>12, <1>13, <1>14

LEMMA PostsTwice ==
  ASSUME NEW c, NEW d, NEW e, Posts(c, d), Posts(d, e)
  PROVE  Posts(c, e)
BY DEF Posts, SameSession

\* A decision keeps the sheet; it books a late fee only for a payment in time.
LEMMA DecideIs ==
  ASSUME NEW c, NEW lo \in Int, NEW low \in Int, NEW w \in Int, NEW died \in Int,
         Sheet(c, lo, low, w, died), lo <= low, 7 * w <= low,
         NEW p, Booked(p, died), p.row.ts >= low
  PROVE  /\ Sheet(Decide(c, p), lo, low, w, died) /\ Posts(c, Decide(c, p))
         /\ MayFee(c, Decide(c, p), p.row.ts)
         /\ ~p.feeOnReject => Decide(c, p).pending = c.pending
<1>1. p \in Waiting /\ Charge(p.row, died) /\ p.row \in AnyRow /\ p.row.kind # "purchase"
  BY DEF Booked, Charge
<1>2. p.row.ts \in Int /\ p.row.cycle \in Int /\ p.row.ts >= lo
  BY <1>1 DEF AnyRow
<1>3. DayOf(p.row.ts) >= w
  BY <1>2 DEF DayOf, Ticks
<1>4. PICK b : b = Noted(c, p)
  OBVIOUS
<1>5. /\ Sheet(b, lo, low, w, died) /\ Posts(c, b) /\ b.pending = c.pending
      /\ Accepts(b, p.row) = Accepts(c, p.row) /\ Accepts(c, p.row) \in BOOLEAN
  BY <1>1, <1>4, NotedIs
<1>6. PICK e : e = [b EXCEPT !.inGrace = FALSE]
  OBVIOUS
<1>7. Sheet(e, lo, low, w, died) /\ Posts(c, e) /\ e.pending = c.pending
  <2>1. /\ [Noted(c, p) EXCEPT !.inGrace = FALSE].pending = c.pending
        /\ Sheet([Noted(c, p) EXCEPT !.inGrace = FALSE], lo, low, w, died)
        /\ Posts(c, [Noted(c, p) EXCEPT !.inGrace = FALSE])
    BY ONLY Sheet(c, lo, low, w, died), <1>1, p \in Waiting, NotedIs
  <2>2. e = [Noted(c, p) EXCEPT !.inGrace = FALSE]
    BY <1>4, <1>6
  <2> QED BY ONLY <2>1, <2>2
<1>8. Decide(c, p) = IF Accepts(c, p.row) THEN Accept(b, p.row)
                     ELSE IF p.row.kind # "payment" THEN b
                     ELSE IF p.feeOnReject THEN PostLateFee(e, p.row.cycle)
                     ELSE e
  BY <1>4, <1>6 DEF Decide, Noted
<1>9. CASE Accepts(c, p.row)
  <2>1. Decide(c, p) = Accept(b, p.row)
    BY <1>8, <1>9
  <2>4. PICK r : r = p.row
    OBVIOUS
  <2>5. Charge(r, died) /\ r.ts >= lo /\ DayOf(r.ts) >= w /\ Accepts(b, r)
    BY <1>1, <1>2, <1>3, <1>5, <1>9, <2>4
  <2>2. /\ Sheet(Accept(b, r), lo, low, w, died) /\ Posts(b, Accept(b, r))
        /\ Accept(b, r).pending = b.pending
    BY <1>5, <2>5, AcceptIs
  <2>3. Posts(c, Accept(b, r))
    BY <1>5, <2>2, PostsTwice
  <2> QED BY <1>5, <2>1, <2>2, <2>3, <2>4 DEF MayFee
<1>10. CASE ~Accepts(c, p.row) /\ p.row.kind # "payment"
  <2>1. ~p.feeOnReject
    BY <1>10 DEF Booked
  <2>2. Decide(c, p) = b
    BY <1>8, <1>10, <2>1
  <2> QED BY <1>5, <2>2 DEF MayFee
<1>11. CASE ~Accepts(c, p.row) /\ p.row.kind = "payment" /\ p.feeOnReject
  <2>1. Decide(c, p) = PostLateFee(e, p.row.cycle)
    BY <1>8, <1>11
  <2>2. DayOf(p.row.cycle) < ServiceEnd(died) /\ p.row.ts < FeeTime(p.row.cycle)
    BY <1>11 DEF Booked
  <2>3. FeeTime(p.row.cycle) \in Int
    BY <1>2, FeeTimeIs
  <2>4. FeeTime(p.row.cycle) >= low
    BY <1>2, <2>2, <2>3
  <2>5. PICK k \in Int : k = p.row.cycle
    BY <1>2
  <2>6. /\ Sheet(PostLateFee(e, k), lo, low, w, died) /\ Posts(e, PostLateFee(e, k))
        /\ \/ PostLateFee(e, k).pending = e.pending
           \/ \E q \in Waiting : /\ PostLateFee(e, k).pending = Append(e.pending, q)
                                 /\ q.row.kind = "fee" /\ ~q.feeOnReject /\ q.row.ts = FeeTime(k)
    <3>1. DayOf(k) < ServiceEnd(died) /\ FeeTime(k) >= low
      BY <2>2, <2>4, <2>5
    <3> QED BY <1>7, <3>1, PostLateFeeIs
  <2>7. Posts(c, PostLateFee(e, k))
    BY <1>7, <2>6, PostsTwice
  <2>8. MayFee(c, PostLateFee(e, k), p.row.ts)
    BY <1>2, <1>7, <2>2, <2>3, <2>5, <2>6 DEF MayFee
  <2> QED BY <1>11, <2>1, <2>5, <2>6, <2>7, <2>8
<1>12. CASE ~Accepts(c, p.row) /\ p.row.kind = "payment" /\ ~p.feeOnReject
  <2>1. Decide(c, p) = e
    BY <1>8, <1>12
  <2> QED BY <1>7, <2>1 DEF MayFee
<1> QED BY <1>5, <1>9, <1>10, <1>11, <1>12

\* g decides the postings due, one after the other.
Deciding(g, base, matured, N) ==
  g[0] = base /\ \A n \in 0 .. N - 1 : g[n + 1] = Decide(g[n], matured[n + 1])

LEMMA DecidingRun ==
  ASSUME NEW base, NEW matured, NEW N \in Nat
  PROVE  LET decided[n \in 0 .. N] ==
               IF n = 0 THEN base ELSE Decide(decided[n - 1], matured[n])
         IN  Deciding(decided, base, matured, N)
<1> DEFINE Turn(d, n) == Decide(d, matured[n])
           Def(f, m) == f = [n \in 0 .. m |-> IF n = 0 THEN base ELSE Turn(f[n - 1], n)]
           Run(f, m) == /\ f = [n \in 0 .. m |-> f[n]] /\ f[0] = base
                        /\ \A n \in 1 .. m : f[n] = Turn(f[n - 1], n)
           S == {m \in Nat : \E f : Run(f, m)}
<1> HIDE DEF Turn
<1>1. 0 \in S
  <2>1. Run([n \in 0 .. 0 |-> base], 0)
    OBVIOUS
  <2> HIDE DEF Run
  <2> QED BY <2>1
<1>2. ASSUME NEW m \in Nat, m \in S PROVE m + 1 \in S
  <2>1. PICK f : Run(f, m)
    BY <1>2
  <2> DEFINE g == [n \in 0 .. m + 1 |-> IF n = m + 1 THEN Turn(f[m], m + 1) ELSE f[n]]
  <2>2. ASSUME NEW n \in 1 .. m + 1 PROVE g[n] = Turn(g[n - 1], n)
    <3>1. CASE n = m + 1
      BY <3>1
    <3>2. CASE n # m + 1
      <4>1. n \in 1 .. m /\ n - 1 # m + 1 /\ n - 1 \in 0 .. m + 1
        BY <3>2
      <4>2. g[n] = f[n] /\ g[n - 1] = f[n - 1]
        BY <3>2, <4>1
      <4> QED BY <2>1, <4>1, <4>2
    <3> QED BY <3>1, <3>2
  <2>3. g = [n \in 0 .. m + 1 |-> g[n]] /\ g[0] = base
    BY <2>1
  <2>4. Run(g, m + 1)
    BY <2>2, <2>3
  <2> HIDE DEF Run, g
  <2> QED BY <2>4
<1> HIDE DEF S
<1>3. N \in S
  BY <1>1, <1>2, SetInduction
<1>4. PICK h : Run(h, N)
  BY <1>3 DEF S
<1>5. Def(h, N)
  <2>1. ASSUME NEW n \in 0 .. N
        PROVE  h[n] = IF n = 0 THEN base ELSE Turn(h[n - 1], n)
    <3>1. n = 0 \/ n \in 1 .. N
      OBVIOUS
    <3> QED BY <1>4, <3>1
  <2>2. h = [n \in 0 .. N |-> h[n]]
    BY <1>4
  <2> QED BY <2>1, <2>2
<1> DEFINE g == CHOOSE f : Def(f, N)
<1>6. Def(g, N)
  <2> HIDE DEF Def
  <2> QED BY <1>5
<1>7. g = CHOOSE f : f = [n \in 0 .. N |-> IF n = 0 THEN base ELSE Decide(f[n - 1], matured[n])]
  BY DEF Turn
<1> HIDE DEF g
<1>8. g[0] = base /\ \A n \in 0 .. N - 1 : g[n + 1] = Turn(g[n], n + 1)
  <2>1. ASSUME NEW n \in 0 .. N - 1 PROVE n + 1 \in 0 .. N /\ n + 1 # 0 /\ (n + 1) - 1 = n
    OBVIOUS
  <2> QED BY <1>6, <2>1
<1>9. Deciding(g, base, matured, N)
  BY <1>8 DEF Deciding, Turn
<1> QED BY <1>7, <1>9

\* u holds the items of s at the places S, each once.
Parted(u, s, S) ==
  \E p : Picks(p, Len(u), Len(s), S) /\ \A j \in 1 .. Len(u) : u[j] = s[p[j]]

\* One round of the ledger: g decides what is due of the waiting postings of c.
Round(g, c, matured, waiting, bound) ==
  /\ matured \in Seq(Waiting) /\ waiting \in Seq(Waiting)
  /\ Due(c, bound) \subseteq 1 .. Len(c.pending)
  /\ Parted(matured, c.pending, Due(c, bound))
  /\ Parted(waiting, c.pending, (1 .. Len(c.pending)) \ Due(c, bound))
  /\ Deciding(g, [c EXCEPT !.pending = waiting], matured, Len(matured))
  /\ AdvanceOnce(c, bound) = g[Len(matured)]

LEMMA RoundIs ==
  ASSUME NEW c \in Cards, NEW bound \in Int
  PROVE  \E g, matured, waiting : Round(g, c, matured, waiting, bound)
<1>1. PICK s \in Seq(Waiting), N \in Nat :
        s = c.pending /\ N = Len(s) /\ DOMAIN s = 1 .. N /\ \A i \in 1 .. N : s[i] \in Waiting
  <2>1. c.pending \in Seq(Waiting)
    BY CardFields
  <2> QED BY <2>1, LenProperties, ElementOfSeq
<1>2. PICK D \in SUBSET (1 .. Len(s)) : D = Due(c, bound)
  BY <1>1 DEF Due
<1>3. PICK E \in SUBSET (1 .. Len(s)) : E = (1 .. Len(s)) \ D
  OBVIOUS
<1>4. PICK waiting \in Seq(Waiting) : waiting = Kept(s, E) /\ Parted(waiting, s, E)
  <2>1. /\ Kept(s, E) \in Seq(Waiting) /\ Len(Kept(s, E)) = Cardinality(E)
    BY KeptIs
  <2>2. PICK p : /\ Picks(p, Cardinality(E), Len(s), E)
                 /\ \A j \in 1 .. Cardinality(E) : Kept(s, E)[j] = s[p[j]]
    BY KeptIs
  <2>3. PICK u : u = Kept(s, E)
    OBVIOUS
  <2>4. Picks(p, Len(u), Len(s), E) /\ \A j \in 1 .. Len(u) : u[j] = s[p[j]]
    BY <2>1, <2>2, <2>3
  <2> QED BY <2>1, <2>3, <2>4 DEF Parted
<1>5. PICK times : times = [n \in 1 .. N |-> s[n].row.ts]
  OBVIOUS
<1>6. times \in [1 .. N -> Int]
  BY <1>1, <1>5 DEF Waiting, AnyRow
<1>7. PICK R : R = Earlier(times) /\ StrictOrder(R, D)
  BY <1>1, <1>6, EarlierStrict
<1>8. PICK matured \in Seq(Waiting) : matured = Matured(c, bound) /\ Parted(matured, s, D)
  <2>1. Matured(c, bound) = Ordered(s, D, R)
    BY <1>1, <1>2, <1>5, <1>7 DEF Matured
  <2>2. Ordered(s, D, R) \in Seq(Waiting) /\ Len(Ordered(s, D, R)) = Cardinality(D)
    BY <1>7, OrderedIs
  <2>3. PICK p : Taken(Ordered(s, D, R), s, p, D, R)
    BY <1>7, OrderedIs
  <2>4. PICK u : u = Ordered(s, D, R)
    OBVIOUS
  <2>5. Picks(p, Len(u), Len(s), D) /\ \A j \in 1 .. Len(u) : u[j] = s[p[j]]
    BY <2>2, <2>3, <2>4 DEF Taken, PicksInOrder
  <2> QED BY <2>1, <2>2, <2>4, <2>5 DEF Parted
<1>9. PICK base : base = [c EXCEPT !.pending = waiting]
  OBVIOUS
<1>10. PICK M \in Nat : M = Len(matured)
  BY LenProperties
<1> DEFINE g == CHOOSE f : f = [n \in 0 .. M |-> IF n = 0 THEN base ELSE Decide(f[n - 1], matured[n])]
<1>11. Deciding(g, base, matured, M)
  BY <1>10, DecidingRun
<1>12. waiting = Kept(c.pending, (DOMAIN c.pending) \ Due(c, bound))
  BY <1>1, <1>2, <1>3, <1>4
<1>13. AdvanceOnce(c, bound) = g[M]
  BY <1>8, <1>9, <1>10, <1>12 DEF AdvanceOnce
<1> HIDE DEF g
<1>14. Round(g, c, matured, waiting, bound)
  BY <1>1, <1>2, <1>3, <1>4, <1>8, <1>9, <1>10, <1>11, <1>13 DEF Round
<1> QED BY <1>14

\* Every posting that waits is due at bound or later, or may cost no fee.
NoFeeBefore(c, bound) ==
  \A i \in 1 .. Len(c.pending) : c.pending[i].row.ts >= bound \/ ~c.pending[i].feeOnReject

LEMMA AdvanceOnceIs ==
  ASSUME NEW c, NEW lo \in Int, NEW low \in Int, NEW w \in Int, NEW died \in Int,
         Sheet(c, lo, low, w, died), lo <= low, 7 * w <= low, NEW bound \in Int
  PROVE  /\ Sheet(AdvanceOnce(c, bound), lo, low, w, died) /\ Posts(c, AdvanceOnce(c, bound))
         /\ NoFeeBefore(AdvanceOnce(c, bound), bound)
         /\ NoFeeBefore(c, bound) =>
              \A i \in 1 .. Len(AdvanceOnce(c, bound).pending) :
                AdvanceOnce(c, bound).pending[i].row.ts >= bound
<1>1. c \in Cards
  BY DEF Sheet
<1>2. PICK g, matured, waiting : Round(g, c, matured, waiting, bound)
  BY <1>1, RoundIs
<1>3. PICK s \in Seq(Waiting), N \in Nat :
        s = c.pending /\ N = Len(s) /\ DOMAIN s = 1 .. N
        /\ \A i \in 1 .. N : s[i] \in Waiting /\ Booked(s[i], died) /\ s[i].row.ts >= low
  <2>1. c.pending \in Seq(Waiting)
    BY <1>1, CardFields
  <2>2. \A i \in 1 .. Len(c.pending) : Booked(c.pending[i], died) /\ c.pending[i].row.ts >= low
    BY DEF Sheet
  <2> QED BY <2>1, <2>2, LenProperties, ElementOfSeq
<1>4. matured \in Seq(Waiting) /\ waiting \in Seq(Waiting)
  BY <1>2 DEF Round
<1>5. PICK M \in Nat : M = Len(matured)
  BY <1>4, LenProperties
<1>6. \A i \in 1 .. N : i \in Due(c, bound) <=> s[i].row.ts < bound
  BY <1>3 DEF Due
<1>7. \A j \in 1 .. M :
        /\ Booked(matured[j], died) /\ matured[j].row.ts >= low
        /\ NoFeeBefore(c, bound) => ~matured[j].feeOnReject
  <2>1. PICK p : /\ Picks(p, M, N, Due(c, bound)) /\ \A j \in 1 .. M : matured[j] = s[p[j]]
    BY <1>2, <1>3, <1>5 DEF Round, Parted
  <2>2. \A j \in 1 .. M : p[j] \in 1 .. N /\ p[j] \in Due(c, bound)
    BY <2>1 DEF Picks
  <2>3. NoFeeBefore(c, bound) => \A i \in 1 .. N : s[i].row.ts < bound => ~s[i].feeOnReject
    <3> SUFFICES ASSUME NoFeeBefore(c, bound), NEW i \in 1 .. N, s[i].row.ts < bound
                 PROVE  ~s[i].feeOnReject
      OBVIOUS
    <3>1. s[i].row.ts \in Int
      BY <1>3 DEF Waiting, AnyRow
    <3>2. s[i].row.ts >= bound \/ ~s[i].feeOnReject
      BY <1>3 DEF NoFeeBefore
    <3>3. ~(s[i].row.ts >= bound)
      BY <3>1
    <3> QED BY <3>2, <3>3
  <2> QED BY <1>3, <1>6, <2>1, <2>2, <2>3
<1>8. \A j \in 1 .. Len(waiting) : /\ Booked(waiting[j], died) /\ waiting[j].row.ts >= low
                                   /\ waiting[j].row.ts >= bound
  <2>1. PICK p : /\ Picks(p, Len(waiting), N, (1 .. Len(c.pending)) \ Due(c, bound))
                 /\ \A j \in 1 .. Len(waiting) : waiting[j] = s[p[j]]
    BY <1>2, <1>3 DEF Round, Parted
  <2>2. Len(waiting) \in Nat
    BY <1>4, LenProperties
  <2>3. \A j \in 1 .. Len(waiting) : p[j] \in 1 .. N /\ p[j] \notin Due(c, bound)
    BY <2>1 DEF Picks
  <2>4. \A i \in 1 .. N : s[i].row.ts \in Int
    BY <1>3 DEF Waiting, AnyRow
  <2>5. \A i \in 1 .. N : i \notin Due(c, bound) => s[i].row.ts >= bound
    BY <1>6, <2>4
  <2>6. ASSUME NEW j \in 1 .. Len(waiting)
        PROVE  /\ Booked(waiting[j], died) /\ waiting[j].row.ts >= low
               /\ waiting[j].row.ts >= bound
    <3>1. PICK i \in 1 .. N : waiting[j] = s[i] /\ i \notin Due(c, bound)
      BY <2>1, <2>3
    <3> QED BY <1>3, <2>5, <3>1
  <2> QED BY <2>6
<1>9. PICK base : base = [c EXCEPT !.pending = waiting]
  OBVIOUS
<1>10. base.pending = waiting /\ Sheet(base, lo, low, w, died) /\ Posts(c, base)
  <2>1. /\ base.pending = waiting /\ base.owed = c.owed /\ base.cash = c.cash
        /\ base.emitted = c.emitted /\ base.deferred = c.deferred /\ SameSession(c, base)
        /\ base \in Cards
    BY <1>1, <1>4, <1>9 DEF Cards, SameSession
  <2> QED BY <1>8, <2>1 DEF Sheet, Posts
<1>11. Deciding(g, base, matured, M) /\ AdvanceOnce(c, bound) = g[M]
  BY <1>2, <1>5, <1>9 DEF Round
<1> DEFINE Good(d) == /\ Sheet(d, lo, low, w, died) /\ Posts(c, d) /\ NoFeeBefore(d, bound)
                      /\ NoFeeBefore(c, bound) => d.pending = waiting
           S == {n \in 0 .. M : Good(g[n])}
<1>12. 0 \in S
  <2>1. NoFeeBefore(base, bound)
    BY <1>8, <1>10 DEF NoFeeBefore
  <2>2. Good(base) /\ g[0] = base
    BY <1>10, <1>11, <2>1 DEF Deciding
  <2> HIDE DEF Good
  <2> QED BY <2>2
<1>13. ASSUME NEW n \in 0 .. M - 1, n \in S PROVE n + 1 \in S
  <2>1. PICK d : d = g[n]
    OBVIOUS
  <2>2. /\ Sheet(d, lo, low, w, died) /\ Posts(c, d) /\ NoFeeBefore(d, bound)
        /\ NoFeeBefore(c, bound) => d.pending = waiting
    BY <1>13, <2>1
  <2>3. PICK q : q = matured[n + 1]
    OBVIOUS
  <2>4. Booked(q, died) /\ q.row.ts >= low /\ (NoFeeBefore(c, bound) => ~q.feeOnReject)
    <3>1. n + 1 \in 1 .. M
      OBVIOUS
    <3> QED BY <1>7, <2>3, <3>1
  <2>5. PICK e : e = Decide(d, q)
    OBVIOUS
  <2>6. /\ Sheet(e, lo, low, w, died) /\ Posts(d, e) /\ MayFee(d, e, q.row.ts)
        /\ ~q.feeOnReject => e.pending = d.pending
    BY <2>2, <2>4, <2>5, DecideIs
  <2>7. Posts(c, e)
    BY <2>2, <2>6, PostsTwice
  <2>8. NoFeeBefore(e, bound)
    <3>1. CASE e.pending = d.pending
      BY <2>2, <3>1 DEF NoFeeBefore
    <3>2. CASE e.pending # d.pending
      <4>1. PICK p \in Waiting : e.pending = Append(d.pending, p) /\ ~p.feeOnReject
        BY <2>6, <3>2 DEF MayFee
      <4>2. d.pending \in Seq(Waiting)
        BY <2>2, CardFields DEF Sheet
      <4>3. Len(e.pending) = Len(d.pending) + 1 /\ Len(d.pending) \in Nat
            /\ e.pending[Len(d.pending) + 1] = p
            /\ \A i \in 1 .. Len(d.pending) : e.pending[i] = d.pending[i]
        BY <4>1, <4>2, AppendProperties
      <4>4. \A i \in 1 .. Len(d.pending) + 1 : i \in 1 .. Len(d.pending) \/ i = Len(d.pending) + 1
        BY <4>3
      <4> QED BY <2>2, <4>1, <4>3, <4>4 DEF NoFeeBefore
    <3> QED BY <3>1, <3>2
  <2>9. NoFeeBefore(c, bound) => e.pending = waiting
    BY <2>2, <2>4, <2>6
  <2>10. Good(e)
    BY <2>6, <2>7, <2>8, <2>9
  <2>11. g[n + 1] = e
    BY <1>11, <2>1, <2>3, <2>5 DEF Deciding
  <2> HIDE DEF Good
  <2>12. n + 1 \in 0 .. M
    OBVIOUS
  <2> QED BY <2>10, <2>11, <2>12
<1> HIDE DEF S
<1>14. M \in S
  <2>1. 0 .. M \subseteq S
    BY <1>12, <1>13, BoundedInduction
  <2> QED BY <2>1
<1>15. PICK d : d = AdvanceOnce(c, bound)
  OBVIOUS
<1>16. Good(d)
  <2> HIDE DEF Good
  <2> QED BY <1>11, <1>14, <1>15 DEF S
<1>17. NoFeeBefore(c, bound) => \A i \in 1 .. Len(d.pending) : d.pending[i].row.ts >= bound
  BY <1>8, <1>16
<1> QED BY <1>15, <1>16, <1>17

\* The loop decides everything dated before its bound.
LEMMA AdvanceIs ==
  ASSUME NEW c, NEW lo \in Int, NEW low \in Int, NEW w \in Int, NEW died \in Int,
         Sheet(c, lo, low, w, died), lo <= low, 7 * w <= low, NEW bound \in Int
  PROVE  /\ Sheet(AdvanceLedgerTo(c, bound), lo, low, w, died)
         /\ Posts(c, AdvanceLedgerTo(c, bound))
         /\ \A i \in 1 .. Len(AdvanceLedgerTo(c, bound).pending) :
              AdvanceLedgerTo(c, bound).pending[i].row.ts >= bound
<1>1. PICK d : d = AdvanceOnce(c, bound)
  OBVIOUS
<1>2. Sheet(d, lo, low, w, died) /\ Posts(c, d) /\ NoFeeBefore(d, bound)
  BY <1>1, AdvanceOnceIs
<1>3. PICK e : e = AdvanceOnce(d, bound)
  OBVIOUS
<1>4. /\ Sheet(e, lo, low, w, died) /\ Posts(d, e)
      /\ \A i \in 1 .. Len(e.pending) : e.pending[i].row.ts >= bound
  BY <1>2, <1>3, AdvanceOnceIs
<1>5. AdvanceLedgerTo(c, bound) = e
  BY <1>1, <1>3 DEF AdvanceLedgerTo
<1> QED BY <1>2, <1>4, <1>5, PostsTwice

\* With nothing waiting nothing happens.
LEMMA AdvanceNothing ==
  ASSUME NEW c \in Cards, c.pending = << >>, NEW bound \in Int
  PROVE  AdvanceLedgerTo(c, bound) = c
<1>1. PICK g, matured, waiting : Round(g, c, matured, waiting, bound)
  BY RoundIs
<1>2. Len(c.pending) = 0
  OBVIOUS
<1>3. \A u \in Seq(Waiting) : \A S : Parted(u, c.pending, S) => u = << >> /\ Len(u) = 0
  <2> SUFFICES ASSUME NEW u \in Seq(Waiting), NEW S, Parted(u, c.pending, S)
               PROVE  u = << >> /\ Len(u) = 0
    OBVIOUS
  <2>1. PICK p : Picks(p, Len(u), 0, S)
    BY <1>2 DEF Parted
  <2>2. \A i \in 1 .. Len(u) : p[i] \in 1 .. 0
    BY <2>1 DEF Picks
  <2>3. Len(u) \in Nat
    BY LenProperties
  <2>4. Len(u) = 0
    BY <2>2, <2>3
  <2> QED BY <2>4, EmptySeq
<1>4. matured = << >> /\ Len(matured) = 0 /\ waiting = << >>
  BY <1>1, <1>3 DEF Round
<1>5. [c EXCEPT !.pending = << >>] = c
  BY DEF Cards
<1>6. AdvanceOnce(c, bound) = c
  BY <1>1, <1>4, <1>5 DEF Round, Deciding
<1> QED BY <1>6 DEF AdvanceLedgerTo

-----------------------------------------------------------------------------
(* The purchases of a close *)

\* g collects the purchases billed, one after the other.
Collecting(g, base, billed, disputes, close, N) ==
  g[0] = base /\ \A n \in 0 .. N - 1 : g[n + 1] = CollectOne(g[n], billed[n + 1], disputes[n + 1], close)

LEMMA CollectingRun ==
  ASSUME NEW base, NEW billed, NEW disputes, NEW close, NEW N \in Nat
  PROVE  LET collected[n \in 0 .. N] ==
               IF n = 0 THEN base ELSE CollectOne(collected[n - 1], billed[n], disputes[n], close)
         IN  Collecting(collected, base, billed, disputes, close, N)
<1> DEFINE Turn(d, n) == CollectOne(d, billed[n], disputes[n], close)
           Def(f, m) == f = [n \in 0 .. m |-> IF n = 0 THEN base ELSE Turn(f[n - 1], n)]
           Run(f, m) == /\ f = [n \in 0 .. m |-> f[n]] /\ f[0] = base
                        /\ \A n \in 1 .. m : f[n] = Turn(f[n - 1], n)
           S == {m \in Nat : \E f : Run(f, m)}
<1> HIDE DEF Turn
<1>1. 0 \in S
  <2>1. Run([n \in 0 .. 0 |-> base], 0)
    OBVIOUS
  <2> HIDE DEF Run
  <2> QED BY <2>1
<1>2. ASSUME NEW m \in Nat, m \in S PROVE m + 1 \in S
  <2>1. PICK f : Run(f, m)
    BY <1>2
  <2> DEFINE g == [n \in 0 .. m + 1 |-> IF n = m + 1 THEN Turn(f[m], m + 1) ELSE f[n]]
  <2>2. ASSUME NEW n \in 1 .. m + 1 PROVE g[n] = Turn(g[n - 1], n)
    <3>1. CASE n = m + 1
      BY <3>1
    <3>2. CASE n # m + 1
      <4>1. n \in 1 .. m /\ n - 1 # m + 1 /\ n - 1 \in 0 .. m + 1
        BY <3>2
      <4>2. g[n] = f[n] /\ g[n - 1] = f[n - 1]
        BY <3>2, <4>1
      <4> QED BY <2>1, <4>1, <4>2
    <3> QED BY <3>1, <3>2
  <2>3. g = [n \in 0 .. m + 1 |-> g[n]] /\ g[0] = base
    BY <2>1
  <2>4. Run(g, m + 1)
    BY <2>2, <2>3
  <2> HIDE DEF Run, g
  <2> QED BY <2>4
<1> HIDE DEF S
<1>3. N \in S
  BY <1>1, <1>2, SetInduction
<1>4. PICK h : Run(h, N)
  BY <1>3 DEF S
<1>5. Def(h, N)
  <2>1. ASSUME NEW n \in 0 .. N
        PROVE  h[n] = IF n = 0 THEN base ELSE Turn(h[n - 1], n)
    <3>1. n = 0 \/ n \in 1 .. N
      OBVIOUS
    <3> QED BY <1>4, <3>1
  <2>2. h = [n \in 0 .. N |-> h[n]]
    BY <1>4
  <2> QED BY <2>1, <2>2
<1> DEFINE g == CHOOSE f : Def(f, N)
<1>6. Def(g, N)
  <2> HIDE DEF Def
  <2> QED BY <1>5
<1>7. g = CHOOSE f : f = [n \in 0 .. N |-> IF n = 0 THEN base ELSE CollectOne(f[n - 1], billed[n], disputes[n], close)]
  BY DEF Turn
<1> HIDE DEF g
<1>8. g[0] = base /\ \A n \in 0 .. N - 1 : g[n + 1] = Turn(g[n], n + 1)
  <2>1. ASSUME NEW n \in 0 .. N - 1 PROVE n + 1 \in 0 .. N /\ n + 1 # 0 /\ (n + 1) - 1 = n
    OBVIOUS
  <2> QED BY <1>6, <2>1
<1>9. Collecting(g, base, billed, disputes, close, N)
  BY <1>8 DEF Collecting, Turn
<1> QED BY <1>7, <1>9

\* A part of a sequence of rows.
LEMMA PartIs ==
  ASSUME NEW s \in Seq(AnyRow), NEW a \in 0 .. Len(s), NEW b \in a .. Len(s)
  PROVE  /\ SubSeq(s, a + 1, b) \in Seq(AnyRow) /\ Len(SubSeq(s, a + 1, b)) = b - a
         /\ \A n \in 1 .. b - a : SubSeq(s, a + 1, b)[n] = s[a + n]
<1>1. PICK N \in Nat : N = Len(s) /\ \A n \in 1 .. N : s[n] \in AnyRow
  BY LenProperties, ElementOfSeq
<1>2. PICK m \in Int : m = a + 1
  OBVIOUS
<1>3. \A i \in m .. b : s[i] \in AnyRow
  BY <1>1, <1>2
<1>4. PICK t : t = SubSeq(s, m, b)
  OBVIOUS
<1>5. /\ t \in Seq(AnyRow) /\ Len(t) = IF m <= b THEN b - m + 1 ELSE 0
      /\ \A n \in 1 .. b - m + 1 : t[n] = s[m + n - 1]
  BY <1>3, <1>4, SubSeqProperties
<1>6. Len(t) = b - a
  BY <1>2, <1>5
<1>7. \A n \in 1 .. b - a : t[n] = s[a + n]
  <2>1. ASSUME NEW n \in 1 .. b - a PROVE t[n] = s[a + n]
    <3>1. n \in 1 .. b - m + 1 /\ m + n - 1 = a + n
      BY <1>2
    <3> QED BY <1>5, <3>1
  <2> QED BY <2>1
<1> QED BY <1>2, <1>4, <1>5, <1>6, <1>7

Purchase(r, died) == r \in AnyRow /\ r.kind = "purchase" /\ DayOf(r.ts) < died

\* The card holds purchases in time order.
Indexed(c, died) ==
  /\ c.cursor <= Len(c.indices)
  /\ \A i \in 1 .. Len(c.indices) : Purchase(c.indices[i], died)
  /\ \A i, j \in 1 .. Len(c.indices) : i <= j => c.indices[i].ts <= c.indices[j].ts

\* A close takes the purchases dated before it, and leaves those dated later.
LEMMA BilledIs ==
  ASSUME NEW c \in Cards, NEW died, Indexed(c, died), NEW close \in Int
  PROVE  /\ BilledCount(c, close) \in 0 .. Len(c.indices) - c.cursor
         /\ c.cursor \in Nat /\ Len(c.indices) \in Nat /\ c.indices \in Seq(AnyRow)
         /\ \A i \in c.cursor + 1 .. c.cursor + BilledCount(c, close) : c.indices[i].ts < close
         /\ \A i \in c.cursor + BilledCount(c, close) + 1 .. Len(c.indices) : c.indices[i].ts >= close
<1>1. PICK s \in Seq(AnyRow), N \in Nat, u \in Nat :
        s = c.indices /\ N = Len(s) /\ u = c.cursor /\ u <= N /\ \A n \in 1 .. N : s[n] \in AnyRow
  <2>1. c.indices \in Seq(AnyRow) /\ c.cursor \in Nat
    BY CardFields
  <2>2. c.cursor <= Len(c.indices)
    BY DEF Indexed
  <2> QED BY <2>1, <2>2, LenProperties, ElementOfSeq
<1>2. \A n \in 1 .. N : s[n].ts \in Int
  BY <1>1 DEF AnyRow
<1>3. \A i, j \in 1 .. N : i <= j => s[i].ts <= s[j].ts
  BY <1>1 DEF Indexed
<1>4. PICK late : late = {i \in u + 1 .. N : s[i].ts >= close}
  OBVIOUS
<1>5. BilledCount(c, close) = IF late = {} THEN N - u ELSE Min(late) - 1 - u
  BY <1>1, <1>4 DEF BilledCount
<1>6. PICK k : k = BilledCount(c, close)
  OBVIOUS
<1>7. CASE late = {}
  <2>1. k = N - u
    BY <1>5, <1>6, <1>7
  <2>2. \A i \in u + 1 .. N : s[i].ts < close
    BY <1>1, <1>2, <1>4, <1>7, SMTT(20)
  <2> QED BY <1>1, <1>6, <2>1, <2>2, SMTT(20)
<1>8. CASE late # {}
  <2>1. late \in SUBSET Nat
    BY <1>4
  <2>2. PICK m \in late : m = Min(late) /\ \A x \in late : m <= x
    BY <1>8, <2>1, MinIs
  <2>3. m \in u + 1 .. N /\ s[m].ts >= close
    BY <1>4, <2>2
  <2>4. k = m - 1 - u /\ k \in 0 .. N - u /\ u + k + 1 = m
    <3>1. k = m - 1 - u
      BY <1>5, <1>6, <1>8, <2>2
    <3>2. m \in Int /\ u + 1 <= m /\ m <= N
      BY <1>1, <2>3
    <3>3. k \in Int /\ 0 <= k /\ k <= N - u /\ u + k + 1 = m
      BY <3>1, <3>2
    <3>4. N - u \in Int
      OBVIOUS
    <3>5. k \in 0 .. N - u
      BY <3>3, <3>4
    <3> QED BY <3>1, <3>3, <3>5
  <2>5. \A i \in u + 1 .. u + k : s[i].ts < close
    <3>1. ASSUME NEW i \in u + 1 .. u + k PROVE s[i].ts < close
      <4>1. i \in u + 1 .. N /\ i < m /\ i \in 1 .. N
        BY <2>3, <2>4
      <4>2. i \notin late
        BY <2>2, <2>3, <4>1
      <4> QED BY <1>2, <1>4, <4>1, <4>2
    <3> QED BY <3>1
  <2>6. \A i \in u + k + 1 .. N : s[i].ts >= close
    <3>1. ASSUME NEW i \in u + k + 1 .. N PROVE s[i].ts >= close
      <4>1. i \in 1 .. N /\ m \in 1 .. N /\ m <= i
        BY <2>3, <2>4
      <4>2. s[m].ts <= s[i].ts /\ s[m].ts \in Int /\ s[i].ts \in Int
        BY <1>2, <1>3, <4>1
      <4> QED BY <2>3, <4>2
    <3> QED BY <3>1
  <2> QED BY <1>1, <1>6, <2>4, <2>5, <2>6
<1> QED BY <1>7, <1>8

\* One purchase keeps the sheet: its credit is decided in the cycle or waits.
LEMMA CollectOneIs ==
  ASSUME NEW c, NEW lo \in Int, NEW close \in Int, NEW w \in Int, NEW died \in Int,
         Sheet(c, lo, close, w, died), NEW r, Purchase(r, died), r.ts >= lo, DayOf(r.ts) >= w,
         NEW delay \in Delays \cup {0}
  PROVE  /\ Sheet(CollectOne(c, r, delay, close), lo, close, w, died)
         /\ Posts(c, CollectOne(c, r, delay, close))
         /\ CollectOne(c, r, delay, close).inGrace = c.inGrace
         /\ CollectOne(c, r, delay, close).log = c.log
<1>1. PICK q : q = Row("credit", r.amt, CreditTime(r, delay), close)
  OBVIOUS
<1>2. CollectOne(c, r, delay, close) =
        IF delay = 0 \/ q.ts >= WindowEnd THEN c
        ELSE IF q.ts < close THEN Accept(c, q) ELSE Book(c, q, FALSE)
  BY <1>1 DEF CollectOne
<1>3. delay \in Nat /\ (delay # 0 => delay < Settlement)
  BY TermsAssumption
<1>4. r \in AnyRow /\ r.ts \in Int /\ r.amt \in Nat
  BY DEF Purchase, AnyRow
<1>5. q.ts = r.ts + 7 * delay + 2 /\ q.kind = "credit" /\ q.amt = r.amt /\ q.cycle = close
  BY <1>1, <1>3, <1>4 DEF CreditTime, Row, Ticks, Noon
<1>6. q \in AnyRow
  <2>1. q.ts \in Int
    BY <1>3, <1>4, <1>5
  <2> QED BY <1>1, <1>4, <1>5, <2>1 DEF Row, AnyRow, Kinds
<1>7. q.ts \in Int /\ q.ts >= r.ts
  BY <1>3, <1>4, <1>5
<1>8. q.ts >= lo /\ DayOf(q.ts) >= w
  BY <1>4, <1>7 DEF DayOf, Ticks
<1>9. CASE delay = 0 \/ q.ts >= WindowEnd
  BY <1>2, <1>9 DEF Posts, SameSession
<1>10. CASE delay # 0 /\ ~(q.ts >= WindowEnd)
  <2>1. DayOf(q.ts) < died + Settlement
    <3>1. DayOf(r.ts) \in Int /\ DayOf(r.ts) < died /\ r.ts <= DayOf(r.ts) * 7 + 6
      BY <1>4 DEF Purchase, DayOf, Ticks
    <3>2. q.ts <= (DayOf(r.ts) + delay) * 7 + 8
      BY <1>3, <1>4, <1>5, <3>1
    <3>3. DayOf(q.ts) <= DayOf(r.ts) + delay + 1 /\ DayOf(q.ts) \in Int
      BY <1>3, <1>7, <3>1, <3>2 DEF DayOf, Ticks
    <3> QED BY <1>3, <1>10, <3>1, <3>3, Terms
  <2>2. Charge(q, died)
    BY <1>5, <1>6, <2>1 DEF Charge
  <2>3. CASE q.ts < close
    <3>1. Accepts(c, q)
      BY <1>5 DEF Accepts
    <3>2. /\ Sheet(Accept(c, q), lo, close, w, died) /\ Posts(c, Accept(c, q))
          /\ Accept(c, q).inGrace = c.inGrace /\ Accept(c, q).log = c.log
      BY <1>8, <2>2, <3>1, AcceptIs
    <3> QED BY <1>2, <1>10, <2>3, <3>2
  <2>4. CASE ~(q.ts < close)
    <3>1. PICK f \in BOOLEAN : f = FALSE
      OBVIOUS
    <3>2. [row |-> q, feeOnReject |-> f] \in Waiting
      BY <1>6 DEF Waiting
    <3>3. Booked([row |-> q, feeOnReject |-> f], died)
      BY <1>7, <1>10, <2>2, <3>1, <3>2, Terms DEF Booked
    <3>4. q.ts >= close
      BY <1>7, <2>4
    <3>5. /\ Sheet(Book(c, q, f), lo, close, w, died) /\ Posts(c, Book(c, q, f))
          /\ Book(c, q, f).inGrace = c.inGrace /\ Book(c, q, f).log = c.log
      BY <3>3, <3>4, BookIs
    <3> QED BY <1>2, <1>10, <2>4, <3>1, <3>5
  <2> QED BY <2>3, <2>4
<1> QED BY <1>9, <1>10


\* All rows kept are the rows, none kept is none.
LEMMA NetKeptAll ==
  ASSUME NEW s \in Seq(AnyRow)
  PROVE  Net(Kept(s, 1 .. Len(s))) = Net(s)
<1>1. PICK A \in SUBSET (1 .. Len(s)) : A = 1 .. Len(s)
  OBVIOUS
<1>2. PICK B \in SUBSET (1 .. Len(s)) : B = (1 .. Len(s)) \ A
  OBVIOUS
<1>3. B = {}
  BY <1>1, <1>2
<1>4. Kept(s, B) \in Seq(AnyRow) /\ Len(Kept(s, B)) = 0
  BY <1>3, KeptIs, FS_EmptySet
<1>5. Kept(s, B) = << >>
  BY <1>4, EmptySeq
<1>6. PICK u \in Int : u = Net(Kept(s, A))
  BY KeptIs, NetIs
<1>7. Net(s) = u + Net(Kept(s, B))
  BY <1>2, <1>6, NetKept
<1> QED BY <1>1, <1>5, <1>6, <1>7, NetNone

LEMMA KeptNone ==
  ASSUME NEW X, NEW s \in Seq(X)
  PROVE  Kept(s, {}) = << >>
<1>1. PICK B \in SUBSET (1 .. Len(s)) : B = {}
  OBVIOUS
<1>2. Kept(s, B) \in Seq(X) /\ Len(Kept(s, B)) = 0
  BY <1>1, KeptIs, FS_EmptySet
<1> QED BY <1>1, <1>2, EmptySeq

\* The purchases not billed yet.
UnbilledOf(c) == SubSeq(c.indices, c.cursor + 1, Len(c.indices))

LEMMA UnbilledIs ==
  ASSUME NEW c \in Cards, c.cursor <= Len(c.indices)
  PROVE  /\ UnbilledOf(c) \in Seq(AnyRow) /\ c.indices \in Seq(AnyRow)
         /\ c.cursor \in Nat /\ Len(c.indices) \in Nat
         /\ Len(UnbilledOf(c)) = Len(c.indices) - c.cursor
         /\ \A n \in 1 .. Len(c.indices) - c.cursor :
              UnbilledOf(c)[n] = c.indices[c.cursor + n]
<1>1. PICK s \in Seq(AnyRow), N \in Nat, u \in Nat : s = c.indices /\ N = Len(s) /\ u = c.cursor
  BY CardFields, LenProperties
<1>2. u \in 0 .. N /\ N \in u .. N
  BY <1>1
<1>3. /\ SubSeq(s, u + 1, N) \in Seq(AnyRow) /\ Len(SubSeq(s, u + 1, N)) = N - u
      /\ \A n \in 1 .. N - u : SubSeq(s, u + 1, N)[n] = s[u + n]
  BY <1>1, <1>2, PartIs
<1> QED BY <1>1, <1>3 DEF UnbilledOf

\* What a close leaves of the session while it bills: d has billed k more than c.
Billing(c, d, k) ==
  /\ d.indices = c.indices /\ d.cursor = c.cursor + k /\ d.closes = c.closes
  /\ d.closed = c.closed /\ d.prior = c.prior /\ d.ready = c.ready /\ d.autopay = c.autopay
  /\ d.inGrace = c.inGrace /\ d.log = c.log

LEMMA CollectIs ==
  ASSUME NEW c, NEW lo \in Int, NEW close \in Int, NEW w \in Int, NEW died \in Int,
         Sheet(c, lo, close, w, died), Indexed(c, died),
         \A i \in c.cursor + 1 .. Len(c.indices) : c.indices[i].ts >= lo /\ DayOf(c.indices[i].ts) >= w,
         NEW disputes \in Disputes(c, close)
  PROVE  /\ Billed(c, close) \in Seq(AnyRow) /\ Len(Billed(c, close)) = BilledCount(c, close)
         /\ \A n \in 1 .. BilledCount(c, close) : Billed(c, close)[n] = c.indices[c.cursor + n]
         /\ Sheet(CollectPurchases(c, close, disputes), lo, close, w, died)
         /\ Billing(c, CollectPurchases(c, close, disputes), BilledCount(c, close))
         /\ CollectPurchases(c, close, disputes).balance = c.balance
         /\ CollectPurchases(c, close, disputes).owed
              + Net(CollectPurchases(c, close, disputes).deferred) = c.owed + Net(c.deferred)
<1>1. c \in Cards
  BY DEF Sheet
<1>2. PICK s \in Seq(AnyRow), N \in Nat, u \in Nat, k \in Nat :
        s = c.indices /\ N = Len(s) /\ u = c.cursor /\ k = BilledCount(c, close) /\ u + k <= N
  <2>1. /\ BilledCount(c, close) \in 0 .. Len(c.indices) - c.cursor
        /\ c.cursor \in Nat /\ Len(c.indices) \in Nat /\ c.indices \in Seq(AnyRow)
    BY <1>1, BilledIs
  <2> QED BY <2>1, SMTT(20)
<1>3. PICK billed \in Seq(AnyRow) :
        billed = Billed(c, close) /\ Len(billed) = k /\ \A n \in 1 .. k : billed[n] = s[u + n]
  <2>1. PICK v \in Nat : v = u + k
    OBVIOUS
  <2>2. u \in 0 .. N /\ v \in u .. N /\ v - u = k
    BY <1>2, <2>1
  <2>3. /\ SubSeq(s, u + 1, v) \in Seq(AnyRow) /\ Len(SubSeq(s, u + 1, v)) = v - u
        /\ \A n \in 1 .. v - u : SubSeq(s, u + 1, v)[n] = s[u + n]
    BY <1>2, <2>2, PartIs
  <2>4. Billed(c, close) = SubSeq(s, u + 1, v)
    BY <1>2, <2>1 DEF Billed
  <2> QED BY <2>2, <2>3, <2>4
<1>4. ASSUME NEW n \in 1 .. k
      PROVE  /\ Purchase(billed[n], died) /\ billed[n].ts >= lo /\ DayOf(billed[n].ts) >= w
             /\ disputes[n] \in Delays \cup {0}
  <2>1. u + n \in u + 1 .. N /\ u + n \in 1 .. N
    BY <1>2, SMTT(20)
  <2>2. Purchase(s[u + n], died) /\ s[u + n].ts >= lo /\ DayOf(s[u + n].ts) >= w
    BY <1>2, <2>1 DEF Indexed
  <2>3. disputes \in [1 .. k -> Delays \cup {0}]
    BY <1>2 DEF Disputes
  <2> QED BY <1>3, <2>2, <2>3
<1> DEFINE B == Billed(c, close)
           g == CHOOSE f : f = [n \in 0 .. Len(B) |->
                                  IF n = 0 THEN c ELSE CollectOne(f[n - 1], B[n], disputes[n], close)]
<1>5. Collecting(g, c, billed, disputes, close, k)
  <2>1. Collecting(g, c, B, disputes, close, Len(B))
    <3>1. Len(B) \in Nat
      BY <1>3
    <3> HIDE DEF B
    <3> QED BY <3>1, CollectingRun
  <2> HIDE DEF g
  <2> QED BY <1>3, <2>1
<1>6. PICK d : d = CollectPurchases(c, close, disputes)
  OBVIOUS
<1>7. d = [g[k] EXCEPT !.cursor = @ + k]
  <2>1. d = [g[Len(B)] EXCEPT !.cursor = @ + Len(B)]
    BY <1>6 DEF CollectPurchases
  <2> HIDE DEF g
  <2> QED BY <1>3, <2>1
<1> HIDE DEF g, B
<1> DEFINE Good(e) == /\ Sheet(e, lo, close, w, died) /\ Posts(c, e)
                      /\ e.inGrace = c.inGrace /\ e.log = c.log
           S == {n \in 0 .. k : Good(g[n])}
<1>8. 0 \in S
  <2>1. Good(c) /\ g[0] = c
    BY <1>5 DEF Collecting, Posts, SameSession
  <2> HIDE DEF Good
  <2> QED BY <2>1
<1>9. ASSUME NEW n \in 0 .. k - 1, n \in S PROVE n + 1 \in S
  <2>1. PICK e, m, r, delay : e = g[n] /\ m = n + 1 /\ r = billed[m] /\ delay = disputes[m]
    OBVIOUS
  <2>2. Sheet(e, lo, close, w, died) /\ Posts(c, e) /\ e.inGrace = c.inGrace /\ e.log = c.log
    BY <1>9, <2>1
  <2>3. m \in 1 .. k
    BY <2>1
  <2>4. Purchase(r, died) /\ r.ts >= lo /\ DayOf(r.ts) >= w /\ delay \in Delays \cup {0}
    BY <1>4, <2>1, <2>3
  <2>5. PICK h : h = CollectOne(e, r, delay, close)
    OBVIOUS
  <2>6. /\ Sheet(h, lo, close, w, died) /\ Posts(e, h) /\ h.inGrace = e.inGrace /\ h.log = e.log
    BY <2>2, <2>4, <2>5, CollectOneIs
  <2>7. Posts(c, h)
    BY <2>2, <2>6, PostsTwice
  <2>8. Good(h)
    BY <2>2, <2>6, <2>7
  <2>9. g[n + 1] = h
    BY <1>5, <2>1, <2>5 DEF Collecting
  <2> HIDE DEF Good
  <2>10. n + 1 \in 0 .. k
    OBVIOUS
  <2> QED BY <2>8, <2>9, <2>10
<1> HIDE DEF S
<1>10. k \in S
  <2>1. 0 .. k \subseteq S
    BY <1>8, <1>9, BoundedInduction
  <2> QED BY <2>1
<1>11. PICK e : e = g[k]
  OBVIOUS
<1>12. Good(e)
  <2> HIDE DEF Good
  <2> QED BY <1>10, <1>11 DEF S
<1>13. e \in Cards /\ SameSession(c, e)
  BY <1>12 DEF Sheet, Posts
<1>14. d = [e EXCEPT !.cursor = u + k] /\ u + k \in Nat
  <2>1. e.cursor = u
    BY <1>2, <1>13 DEF SameSession
  <2>2. d = [e EXCEPT !.cursor = e.cursor + k]
    BY <1>7, <1>11
  <2> QED BY <2>1, <2>2
<1>15. /\ d \in Cards /\ d.cursor = u + k /\ d.owed = e.owed /\ d.cash = e.cash
       /\ d.emitted = e.emitted /\ d.deferred = e.deferred /\ d.pending = e.pending
       /\ d.inGrace = e.inGrace /\ d.log = e.log /\ d.indices = e.indices /\ d.closes = e.closes
       /\ d.closed = e.closed /\ d.prior = e.prior /\ d.balance = e.balance /\ d.ready = e.ready
       /\ d.autopay = e.autopay
  BY <1>13, <1>14 DEF Cards
<1>16. Sheet(d, lo, close, w, died)
  <2>1. Sheet(e, lo, close, w, died)
    BY <1>12
  <2> QED BY <1>15, <2>1 DEF Sheet
<1>17. Billing(c, d, k)
  BY <1>2, <1>12, <1>13, <1>15 DEF SameSession, Billing
<1>18. d.balance = c.balance /\ d.owed + Net(d.deferred) = c.owed + Net(c.deferred)
  <2>1. e.owed + Net(e.deferred) = c.owed + Net(c.deferred)
    BY <1>12 DEF Posts
  <2> QED BY <1>13, <1>15, <2>1 DEF SameSession
<1> QED BY <1>2, <1>3, <1>6, <1>16, <1>17, <1>18

-----------------------------------------------------------------------------
(* The statement *)

\* What the session has billed, deferred and not billed yet is what is owed.
ExactNet(c) == c.owed + c.balance + Net(UnbilledOf(c)) + Net(c.deferred) = 0

\* The purchases not billed are dated in the open cycle, and none before day w.
InOpenCycle(c, lo, w) ==
  \A i \in c.cursor + 1 .. Len(c.indices) : c.indices[i].ts >= lo /\ DayOf(c.indices[i].ts) >= w

\* A close of the card: on a day of the window and of the owner's service.
CloseOn(close, died) ==
  \E d \in Nat : close = Instant(d, CloseTime) /\ d < Days /\ d < ServiceEnd(died)

LEMMA CloseOnIs ==
  ASSUME NEW close, NEW died \in Int, CloseOn(close, died)
  PROVE  /\ close \in Int /\ close >= 0 /\ close = DayOf(close) * 7 + 5 /\ DayOf(close) \in Nat
         /\ DayOf(close) < Days /\ DayOf(close) < ServiceEnd(died)
         /\ DayOf(close) + SettleTail < died + Settlement /\ close + 1 < WindowEnd
         /\ DayOf(close + 1) = DayOf(close)
<1>1. PICK d \in Nat : close = d * 7 + 5 /\ d < Days /\ d < ServiceEnd(died)
  BY DEF CloseOn, Instant, CloseTime, Ticks
<1>2. DayOf(close) = d /\ DayOf(close + 1) = d
  BY <1>1 DEF DayOf, Ticks
<1>3. d + SettleTail < died + Settlement
  BY <1>1, Terms DEF ServiceEnd
<1>4. close + 1 < WindowEnd
  BY <1>1, Terms DEF WindowEnd, Instant, Ticks
<1> QED BY <1>1, <1>2, <1>3, <1>4

\* Before the interest: everything of the cycle is in the balance.
Drained(c, close, disputes) ==
  LET start == c.prior
      collected == CollectPurchases(c, close, disputes)
      deferred == collected.deferred
      due == {n \in DOMAIN deferred : InCycle(deferred[n], start, close)}
      snapshot == IntegrateBalance(c.balance, Billed(c, close) \o Kept(deferred, due), start, close)
  IN [collected EXCEPT !.deferred = Kept(deferred, (DOMAIN deferred) \ due),
                       !.balance = snapshot.ending]

LEMMA DrainedIs ==
  ASSUME NEW c, NEW close \in Int, NEW w \in Int, NEW died \in Int,
         Sheet(c, c.prior, close, w, died), Indexed(c, died), InOpenCycle(c, c.prior, w),
         ExactNet(c), NEW disputes \in Disputes(c, close)
  PROVE  /\ Sheet(Drained(c, close, disputes), close, close, w, died)
         /\ Billing(c, Drained(c, close, disputes), BilledCount(c, close))
         /\ ExactNet(Drained(c, close, disputes))
<1>1. c \in Cards /\ c.cursor <= Len(c.indices)
  BY DEF Sheet, Indexed
<1>2. PICK lo \in Int, bal \in Int, owed \in Int : lo = c.prior /\ bal = c.balance /\ owed = c.owed
  BY <1>1, CardFields
<1>3. PICK s \in Seq(AnyRow), N \in Nat, u \in Nat, k \in Nat :
        /\ s = c.indices /\ N = Len(s) /\ u = c.cursor /\ k = BilledCount(c, close) /\ u + k <= N
        /\ \A i \in u + 1 .. u + k : s[i].ts < close
  <2>1. /\ BilledCount(c, close) \in 0 .. Len(c.indices) - c.cursor
        /\ c.cursor \in Nat /\ Len(c.indices) \in Nat /\ c.indices \in Seq(AnyRow)
        /\ \A i \in c.cursor + 1 .. c.cursor + BilledCount(c, close) : c.indices[i].ts < close
    BY <1>1, BilledIs
  <2>2. PICK v \in Nat, m \in Nat, q \in Nat :
          v = c.cursor /\ m = Len(c.indices) /\ q = BilledCount(c, close) /\ q \in 0 .. m - v
    BY <2>1
  <2>3. v + q <= m
    BY <2>2
  <2> QED BY <2>1, <2>2, <2>3
<1>3a. u + k <= N
  BY <1>3
<1>4. PICK b, d, B :
        b = CollectPurchases(c, close, disputes) /\ d = Drained(c, close, disputes) /\ B = Billed(c, close)
  OBVIOUS
<1>5. /\ B \in Seq(AnyRow) /\ Len(B) = k /\ \A n \in 1 .. k : B[n] = s[u + n]
      /\ Sheet(b, lo, close, w, died) /\ Billing(c, b, k) /\ b.balance = bal
      /\ b.owed + Net(b.deferred) = owed + Net(c.deferred)
  <2>1. \A i \in c.cursor + 1 .. Len(c.indices) : c.indices[i].ts >= lo /\ DayOf(c.indices[i].ts) >= w
    BY <1>2 DEF InOpenCycle
  <2>2. Sheet(c, lo, close, w, died)
    BY <1>2
  <2>3. /\ Billed(c, close) \in Seq(AnyRow) /\ Len(Billed(c, close)) = BilledCount(c, close)
        /\ \A n \in 1 .. BilledCount(c, close) : Billed(c, close)[n] = c.indices[c.cursor + n]
        /\ Sheet(CollectPurchases(c, close, disputes), lo, close, w, died)
        /\ Billing(c, CollectPurchases(c, close, disputes), BilledCount(c, close))
        /\ CollectPurchases(c, close, disputes).balance = c.balance
        /\ CollectPurchases(c, close, disputes).owed
              + Net(CollectPurchases(c, close, disputes).deferred) = c.owed + Net(c.deferred)
    BY <2>1, <2>2, CollectIs
  <2> QED BY <1>2, <1>3, <1>4, <2>3
<1>6. b \in Cards
  BY <1>5 DEF Sheet
<1>7. PICK f \in Seq(AnyRow), M \in Nat :
        f = b.deferred /\ M = Len(f) /\ DOMAIN f = 1 .. M /\ \A n \in 1 .. M : f[n] \in AnyRow
  <2>1. b.deferred \in Seq(AnyRow)
    BY <1>6, CardFields
  <2> QED BY <2>1, LenProperties, ElementOfSeq
<1>8. \A n \in 1 .. M : f[n].ts >= lo
  BY <1>5, <1>7 DEF Sheet
<1>9. PICK due \in SUBSET (1 .. Len(f)) : due = {n \in DOMAIN f : InCycle(f[n], lo, close)}
  BY <1>7
<1>10. PICK later \in SUBSET (1 .. Len(f)) : later = (1 .. Len(f)) \ due
  OBVIOUS
<1>11. PICK F \in Seq(AnyRow), R \in Seq(AnyRow) : F = Kept(f, due) /\ R = Kept(f, later)
  BY KeptIs
<1>12. PICK E \in Seq(AnyRow) : E = B \o F
  BY <1>5, <1>11, ConcatProperties
<1>13. PICK J : J = IntegrateBalance(bal, E, lo, close).ending
  OBVIOUS
<1>14. d = [b EXCEPT !.deferred = R, !.balance = J]
  <2>1. (DOMAIN f) \ due = later
    BY <1>7, <1>10
  <2>2. due = {n \in DOMAIN b.deferred : InCycle(b.deferred[n], c.prior, close)}
    BY <1>2, <1>7, <1>9
  <2> QED BY <1>2, <1>4, <1>7, <1>11, <1>12, <1>13, <2>1, <2>2 DEF Drained
<1>15. J = bal + Net(E)
  <2>1. PICK L \in Nat : L = Len(E) /\ DOMAIN E = 1 .. L
    BY LenProperties
  <2>2. ASSUME NEW n \in 1 .. L PROVE InCycle(E[n], lo, close)
    <3>1. PICK K \in Nat : K = Len(F)
      BY LenProperties
    <3>2. L = k + K /\ E[n] = IF n <= k THEN B[n] ELSE F[n - k]
      <4>1. /\ Len(B \o F) = Len(B) + Len(F)
            /\ \A i \in 1 .. Len(B) + Len(F) :
                 (B \o F)[i] = IF i <= Len(B) THEN B[i] ELSE F[i - Len(B)]
        BY <1>5, ConcatProperties
      <4> QED BY <1>5, <1>12, <2>1, <3>1, <4>1
    <3>3. CASE n <= k
      <4>1. n \in 1 .. k /\ u + n \in u + 1 .. u + k /\ u + n \in u + 1 .. N
        BY <1>3a, <3>3
      <4>2. E[n] = s[u + n] /\ s[u + n].ts < close
        BY <1>3, <1>5, <3>2, <3>3, <4>1
      <4>3. s[u + n].ts >= lo
        BY <1>2, <1>3, <4>1 DEF InOpenCycle
      <4> QED BY <4>2, <4>3 DEF InCycle
    <3>4. CASE ~(n <= k)
      <4>1. n - k \in 1 .. K
        BY <3>2, <3>4, SMTT(20)
      <4>2. PICK m \in due : F[n - k] = f[m]
        BY <1>11, <3>1, <4>1, KeptFrom
      <4> QED BY <1>9, <3>2, <3>4, <4>2
    <3> QED BY <3>3, <3>4
  <2>3. {n \in DOMAIN E : InCycle(E[n], lo, close)} = 1 .. Len(E)
    BY <2>1, <2>2
  <2>4. J = bal + Net(Kept(E, 1 .. Len(E)))
    BY <1>13, <2>3 DEF IntegrateBalance
  <2> QED BY <2>4, NetKeptAll
<1>16. PICK x \in Int, y \in Int, z \in Int :
         x = Net(B) /\ y = Net(F) /\ z = Net(R)
  BY <1>5, <1>11, NetIs
<1>17. J = bal + x + y /\ J \in Int
  <2>1. Net(E) = x + y
    BY <1>5, <1>12, <1>16, NetConcat
  <2> QED BY <1>15, <2>1
<1>18. Net(f) = y + z
  <2>1. Net(f) = Net(Kept(f, due)) + Net(Kept(f, (1 .. Len(f)) \ due))
    BY NetKept
  <2> QED BY <1>10, <1>11, <1>16, <2>1
<1>19. /\ d \in Cards /\ d.deferred = R /\ d.balance = J /\ d.owed = b.owed /\ d.cash = b.cash
       /\ d.emitted = b.emitted /\ d.pending = b.pending /\ d.indices = b.indices
       /\ d.cursor = b.cursor /\ d.closes = b.closes /\ d.closed = b.closed /\ d.prior = b.prior
       /\ d.ready = b.ready /\ d.autopay = b.autopay /\ d.inGrace = b.inGrace /\ d.log = b.log
  BY <1>6, <1>11, <1>14, <1>17 DEF Cards
<1>20. Sheet(d, close, close, w, died)
  <2>1. ASSUME NEW j \in 1 .. Len(d.deferred) PROVE d.deferred[j].ts >= close
    <3>1. PICK m \in later : R[j] = f[m]
      BY <1>11, <1>19, KeptFrom, SMTT(20)
    <3>2. m \in 1 .. M /\ m \notin due
      BY <1>7, <1>10
    <3>3. f[m].ts \in Int /\ f[m].ts >= lo
      BY <1>7, <1>8, <3>2 DEF AnyRow
    <3>4. ~InCycle(f[m], lo, close)
      BY <1>7, <1>9, <3>2
    <3>5. f[m].ts >= close
      BY <3>3, <3>4 DEF InCycle
    <3> QED BY <1>19, <3>1, <3>5
  <2> QED BY <1>5, <1>19, <2>1 DEF Sheet
<1>21. Billing(c, d, k) /\ d.indices = s /\ d.cursor = u + k
  BY <1>3, <1>5, <1>19 DEF Billing
<1>22. ExactNet(d)
  <2>1. PICK p \in Seq(AnyRow), q \in Seq(AnyRow) : p = UnbilledOf(c) /\ q = UnbilledOf(d)
    BY <1>1, <1>3, <1>19, <1>21, UnbilledIs
  <2>2. Len(p) = N - u /\ \A n \in 1 .. N - u : p[n] = s[u + n]
    BY <1>1, <1>3, <2>1, UnbilledIs
  <2>3. Len(q) = N - (u + k) /\ \A n \in 1 .. N - (u + k) : q[n] = s[u + k + n]
    <3>1. d.cursor <= Len(d.indices)
      BY <1>3, <1>21
    <3>2. /\ Len(UnbilledOf(d)) = Len(d.indices) - d.cursor
          /\ \A n \in 1 .. Len(d.indices) - d.cursor : UnbilledOf(d)[n] = d.indices[d.cursor + n]
      BY <1>19, <3>1, UnbilledIs
    <3> QED BY <1>3, <1>21, <2>1, <3>2
  <2>4. Continues(p, B, q)
    <3>1. Len(p) = Len(B) + Len(q)
      <4>1. Len(p) = N - u /\ Len(q) = N - (u + k) /\ Len(B) = k
        BY <1>5, <2>2, <2>3
      <4>2. N - u = k + (N - (u + k))
        OBVIOUS
      <4> QED BY <4>1, <4>2
    <3>2. \A n \in 1 .. Len(B) : p[n] = B[n]
      <4>1. \A n \in 1 .. k : n \in 1 .. N - u
        BY <1>3a
      <4> QED BY <1>5, <2>2, <4>1
    <3>3. \A n \in 1 .. Len(q) : p[Len(B) + n] = q[n]
      <4>1. ASSUME NEW n \in 1 .. N - (u + k) PROVE p[k + n] = q[n]
        <5>1. k + n \in 1 .. N - u /\ u + (k + n) = u + k + n
          BY <1>3a
        <5> QED BY <2>2, <2>3, <5>1
      <4> QED BY <1>5, <2>3, <4>1
    <3> QED BY <1>5, <2>1, <3>1, <3>2, <3>3 DEF Continues
  <2>5. PICK pp \in Int, qq \in Int : pp = Net(p) /\ qq = Net(q)
    BY <2>1, NetIs
  <2>6. pp = x + qq
    BY <1>16, <2>4, <2>5, NetContinued
  <2>7. PICK v \in Int, t \in Int : v = Net(c.deferred) /\ t = b.owed
    <3>1. c.deferred \in Seq(AnyRow) /\ b.owed \in Int
      BY <1>1, <1>6, CardFields
    <3> QED BY <3>1, NetIs
  <2>8. owed + bal + pp + v = 0
    BY <1>2, <2>1, <2>5, <2>7 DEF ExactNet
  <2>9. t + (y + z) = owed + v
    BY <1>5, <1>7, <1>18, <2>7
  <2>10. t + (bal + x + y) + qq + z = 0
    BY <2>6, <2>8, <2>9
  <2> QED BY <1>16, <1>17, <1>19, <2>1, <2>5, <2>7, <2>10, <1>11 DEF ExactNet
<1> QED BY <1>3, <1>4, <1>20, <1>21, <1>22

\* A close brings the balance up to what is owed and may charge interest.
LEMMA StatementIs ==
  ASSUME NEW c, NEW close, NEW w \in Int, NEW died \in Int, CloseOn(close, died),
         Sheet(c, c.prior, close, w, died), Indexed(c, died), InOpenCycle(c, c.prior, w),
         ExactNet(c), NEW disputes \in Disputes(c, close)
  PROVE  /\ Sheet(Statement(c, close, disputes), close, close, w, died)
         /\ Billing(c, Statement(c, close, disputes), BilledCount(c, close))
         /\ ExactNet(Statement(c, close, disputes))
<1>1. close \in Int /\ close + 1 < WindowEnd /\ DayOf(close + 1) < died + Settlement
  BY CloseOnIs, Terms
<1>2. PICK d : d = Drained(c, close, disputes)
  OBVIOUS
<1>3. Sheet(d, close, close, w, died) /\ Billing(c, d, BilledCount(c, close)) /\ ExactNet(d)
  BY <1>1, <1>2, DrainedIs
<1>4. PICK r : r = Row("interest", Interest, close + LateNight - CloseTime, close)
  OBVIOUS
<1>5. Statement(c, close, disputes) = d \/ Statement(c, close, disputes) = Book(d, r, FALSE)
  BY <1>2, <1>4 DEF Statement, Drained
<1>6. close + LateNight - CloseTime = close + 1
  BY <1>1 DEF LateNight, CloseTime
<1>7. r \in AnyRow /\ r.kind = "interest" /\ r.ts = close + 1
  BY <1>1, <1>4, <1>6, Terms DEF Row, AnyRow, Kinds
<1>8. PICK f \in BOOLEAN : f = FALSE
  OBVIOUS
<1>9. Booked([row |-> r, feeOnReject |-> f], died)
  <2>1. [row |-> r, feeOnReject |-> f] \in Waiting
    BY <1>7 DEF Waiting
  <2> QED BY <1>1, <1>7, <1>8, <2>1 DEF Booked, Charge
<1>10. PICK e : e = Book(d, r, f)
  OBVIOUS
<1>11. /\ Sheet(e, close, close, w, died) /\ Posts(d, e) /\ e.inGrace = d.inGrace /\ e.log = d.log
  <2>1. r.ts >= close
    BY <1>1, <1>7
  <2> QED BY <1>1, <1>3, <1>9, <1>10, <2>1, BookIs
<1>12. Billing(c, e, BilledCount(c, close))
  BY <1>3, <1>11 DEF Billing, Posts, SameSession
<1>13. ExactNet(e)
  <2>1. UnbilledOf(e) = UnbilledOf(d) /\ e.balance = d.balance
    BY <1>11 DEF Posts, SameSession, UnbilledOf
  <2>2. e.owed + Net(e.deferred) = d.owed + Net(d.deferred)
    BY <1>11 DEF Posts
  <2>3. d \in Cards /\ e \in Cards
    BY <1>3, <1>11 DEF Sheet
  <2>4. /\ d.owed \in Int /\ d.balance \in Int /\ e.owed \in Int
        /\ Net(d.deferred) \in Int /\ Net(e.deferred) \in Int
    <3>1. d.deferred \in Seq(AnyRow) /\ e.deferred \in Seq(AnyRow)
      BY <2>3, CardFields
    <3> QED BY <2>3, <3>1, CardFields, NetIs
  <2>5. Net(UnbilledOf(d)) \in Int
    <3>1. PICK k \in Nat : k = BilledCount(c, close) /\ c.cursor \in Nat /\ Len(c.indices) \in Nat
                           /\ c.cursor + k <= Len(c.indices)
      <4>1. /\ BilledCount(c, close) \in 0 .. Len(c.indices) - c.cursor
            /\ c.cursor \in Nat /\ Len(c.indices) \in Nat
        BY <1>1, BilledIs DEF Sheet
      <4> QED BY <4>1
    <3>2. d.cursor <= Len(d.indices)
      BY <1>3, <3>1 DEF Billing
    <3> QED BY <2>3, <3>2, UnbilledIs, NetIs
  <2> QED BY <1>3, <2>1, <2>2, <2>4, <2>5 DEF ExactNet
<1> QED BY <1>3, <1>5, <1>8, <1>10, <1>11, <1>12, <1>13

-----------------------------------------------------------------------------
(* The payment *)

LEMMA OwedIs ==
  ASSUME NEW s \in Cards
  PROVE  Owed(s) \in Nat /\ (s.balance = 0 => Owed(s) = 0)
<1>1. PICK b \in Int : b = -s.balance /\ (s.balance = 0 => b = 0)
  BY CardFields
<1>2. Owed(s) = IF 0 <= b THEN b ELSE 0
  BY <1>1, MaxPair DEF Owed
<1> QED BY <1>1, <1>2

LEMMA MinimumDueIs ==
  ASSUME NEW x \in Nat
  PROVE  MinimumDue(x) \in Nat
<1>1. PICK m \in Nat, a \in Nat : m = MinPct /\ a = MinPayment
  BY Terms
<1>2. PICK y \in Nat : y = m * x
  OBVIOUS
<1>3. PICK z \in Nat : z = y \div 100
  OBVIOUS
<1>4. MinimumDue(x) = Max({a, z})
  BY <1>1, <1>2, <1>3 DEF MinimumDue
<1> QED BY <1>4, MaxPair

\* What the holder may intend to pay, and when: after the close, before the
\* owner's accounts are closed.
LEMMA PaymentIs ==
  ASSUME NEW s \in Cards, NEW died \in Int, NEW close, CloseOn(close, died),
         Owed(s) # 0, NEW pay \in Payments(s, close)
  PROVE  /\ pay.amt \in Nat /\ pay.when \in Int /\ pay.when >= close
         /\ DayOf(pay.when) < died + Settlement
<1>1. PICK d \in Nat : /\ d = DayOf(close) /\ close = d * 7 + 5 /\ close \in Int
                       /\ d + SettleTail < died + Settlement
  BY CloseOnIs
<1>2. PICK o \in Nat : o = Owed(s)
  BY OwedIs
<1>3. PICK auto \in BOOLEAN : auto = (s.autopay # "manual")
  OBVIOUS
<1>4. pay.amt \in PaymentAmounts(s.autopay, o) /\ pay.when \in PaymentTimes(DueOf(close), auto)
  BY <1>2, <1>3 DEF Payments
<1>5. pay.amt \in Nat
  <2>1. PICK m \in Nat : m = MinimumDue(o)
    BY MinimumDueIs
  <2>2. PICK h \in Nat : h = (m + o) \div 2
    OBVIOUS
  <2>3. Max({m, h}) \in Nat
    BY MaxPair
  <2>4. PICK x \in Nat : x = Max({m, h})
    BY <2>3
  <2>5. CASE s.autopay = "full"
    BY <1>4, <2>5 DEF PaymentAmounts
  <2>6. CASE s.autopay = "minimum"
    BY <1>4, <2>1, <2>6 DEF PaymentAmounts
  <2>7. CASE s.autopay # "full" /\ s.autopay # "minimum"
    <3>1. PaymentAmounts(s.autopay, o) = {0, m, x, o}
      BY <2>1, <2>2, <2>4, <2>7 DEF PaymentAmounts
    <3> QED BY <1>4, <3>1
  <2> QED BY <2>5, <2>6, <2>7
<1>6. PICK cutoff \in Int, e \in Int :
        /\ cutoff = ResolveDueDate(DueOf(close)) /\ e = DayOf(cutoff) /\ cutoff = e * 7 + 3
        /\ e \in d + Grace .. d + Grace + 2
  BY <1>1, FeeTimeIs
<1>7. /\ Grace \in Nat /\ SettleTail \in Nat /\ EarlyDays \in Nat /\ EarlyDays < Grace /\ Grace >= 2
      /\ Grace + 3 <= SettleTail
      /\ \A x \in LateDays : x \in Nat /\ Grace + 2 + x <= SettleTail
  BY Terms, TermsAssumption
<1>6a. cutoff = 7 * e + 3
  BY <1>6
<1>6b. d + Grace <= e /\ e <= d + Grace + 2 /\ Grace >= 2 /\ EarlyDays < Grace
  BY <1>6, <1>7
<1>6c. d + 1 <= e - 1 /\ e + 1 <= d + SettleTail
  BY <1>6b, <1>7
<1> DEFINE when == pay.when
<1>8. \E f \in Int, t \in 0 .. 6 : when = f * 7 + t /\ d + 1 <= f /\ f <= d + SettleTail
  <2>1. CASE auto
    <3>1. when = Instant(e, Noon)
      BY <1>4, <1>6, <2>1 DEF PaymentTimes
    <3>2. when = e * 7 + 2 /\ 2 \in 0 .. 6
      BY <3>1 DEF Instant, Ticks, Noon
    <3>3. d + 1 <= e /\ e <= d + SettleTail
      BY <1>6c, <1>7
    <3> QED BY <3>2, <3>3
  <2>2. ASSUME NEW x \in LateDays, NEW t \in {Morning, Evening},
               when = LET at == Instant(e + x, t) IN IF at <= cutoff THEN at + Ticks ELSE at
        PROVE  \E f \in Int, u \in 0 .. 6 : when = f * 7 + u /\ d + 1 <= f /\ f <= d + SettleTail
    <3>1. t \in {1, 4} /\ x \in Nat /\ Grace + 2 + x <= SettleTail
      BY <1>7, <2>2 DEF Morning, Evening
    <3>2. PICK at \in Int : at = (e + x) * 7 + t
      BY <3>1
    <3>2a. at = 7 * e + 7 * x + t /\ t \in 0 .. 6 /\ x \in Int
      BY <3>1, <3>2
    <3>3. when = IF at <= cutoff THEN at + 7 ELSE at
      BY <2>2, <3>2 DEF Instant, Ticks
    <3>4. CASE at <= cutoff
      <4>1. x = 0
        BY <1>6a, <3>1, <3>2a, <3>4
      <4>2. when = (e + 1) * 7 + t /\ e + 1 \in Int /\ t \in 0 .. 6
        BY <3>2a, <3>3, <3>4, <4>1
      <4>3. d + 1 <= e + 1 /\ e + 1 <= d + SettleTail
        BY <1>6, <1>7
      <4> QED BY <4>2, <4>3
    <3>5. CASE ~(at <= cutoff)
      <4>1. when = (e + x) * 7 + t /\ e + x \in Int /\ t \in 0 .. 6
        BY <3>2, <3>2a, <3>3, <3>5
      <4>2. d + 1 <= e + x /\ e + x <= d + SettleTail
        BY <1>6, <1>7, <3>1
      <4> QED BY <4>1, <4>2
    <3> QED BY <3>4, <3>5
  <2>3. ASSUME NEW x \in 0 .. EarlyDays, NEW t \in {Morning, Evening},
               when = LET at == Instant(e - x, t) IN IF at > cutoff THEN at - Ticks ELSE at
        PROVE  \E f \in Int, u \in 0 .. 6 : when = f * 7 + u /\ d + 1 <= f /\ f <= d + SettleTail
    <3>1. t \in {1, 4} /\ x \in Nat /\ x < Grace
      BY <1>7, <2>3 DEF Morning, Evening
    <3>2. PICK at \in Int : at = (e - x) * 7 + t
      BY <3>1
    <3>2a. at = 7 * e - 7 * x + t /\ t \in 0 .. 6 /\ x \in Int
      BY <3>1, <3>2
    <3>3. when = IF at > cutoff THEN at - 7 ELSE at
      BY <2>3, <3>2 DEF Instant, Ticks
    <3>4. CASE at > cutoff
      <4>1. x = 0
        BY <1>6a, <3>1, <3>2a, <3>4
      <4>2. when = (e - 1) * 7 + t /\ e - 1 \in Int /\ t \in 0 .. 6
        BY <3>2a, <3>3, <3>4, <4>1
      <4>3. d + 1 <= e - 1 /\ e - 1 <= d + SettleTail
        BY <1>6, <1>7
      <4> QED BY <4>2, <4>3
    <3>5. CASE ~(at > cutoff)
      <4>1. when = (e - x) * 7 + t /\ e - x \in Int /\ t \in 0 .. 6
        BY <3>2, <3>2a, <3>3, <3>5
      <4>2. d + 1 <= e - x /\ e - x <= d + SettleTail
        BY <1>6, <1>7, <3>1
      <4> QED BY <4>1, <4>2
    <3> QED BY <3>4, <3>5
  <2>4. CASE ~auto
    <3>1. \/ \E x \in LateDays, t \in {Morning, Evening} :
               when = LET at == Instant(e + x, t) IN IF at <= cutoff THEN at + Ticks ELSE at
          \/ \E x \in 0 .. EarlyDays, t \in {Morning, Evening} :
               when = LET at == Instant(e - x, t) IN IF at > cutoff THEN at - Ticks ELSE at
      BY <1>4, <1>6, <2>4 DEF PaymentTimes
    <3> QED BY <2>2, <2>3, <3>1
  <2> QED BY <2>1, <2>4
<1> HIDE DEF when
<1>9. PICK f \in Int : \E t \in 0 .. 6 : when = f * 7 + t /\ d + 1 <= f /\ f <= d + SettleTail
  BY <1>8
<1>10. PICK t \in 0 .. 6 : when = f * 7 + t /\ d + 1 <= f /\ f <= d + SettleTail
  BY <1>9
<1>11. when \in Int /\ when >= close /\ DayOf(when) = f
  BY <1>1, <1>10 DEF DayOf, Ticks
<1>12. DayOf(when) < died + Settlement
  BY <1>1, <1>7, <1>10, <1>11, Terms
<1> QED BY <1>5, <1>11, <1>12 DEF when

\* The payment and the late fee wait until their time.
LEMMA BillIs ==
  ASSUME NEW s, NEW died \in Int, NEW close, CloseOn(close, died), NEW w,
         Sheet(s, close, close, w, died), NEW pay \in Payments(s, close)
  PROVE  Sheet(Bill(s, close, pay), close, close, w, died) /\ Posts(s, Bill(s, close, pay))
<1>1. close \in Int /\ DayOf(close) < ServiceEnd(died)
  BY CloseOnIs
<1>2. s \in Cards
  BY DEF Sheet
<1>3. ASSUME NEW e, Sheet(e, close, close, w, died), Posts(s, e), NEW grace \in BOOLEAN
      PROVE  /\ Sheet([e EXCEPT !.inGrace = grace], close, close, w, died)
             /\ Posts(s, [e EXCEPT !.inGrace = grace])
  <2>1. e \in Cards
    BY <1>3 DEF Sheet
  <2>2. PICK h : h = [e EXCEPT !.inGrace = grace]
    OBVIOUS
  <2>3. /\ h \in Cards /\ h.owed = e.owed /\ h.cash = e.cash /\ h.emitted = e.emitted
        /\ h.deferred = e.deferred /\ h.pending = e.pending /\ SameSession(e, h)
    BY <2>1, <2>2 DEF Cards, SameSession
  <2>4. Sheet(h, close, close, w, died)
    BY <1>3, <2>3 DEF Sheet
  <2>5. Posts(e, h)
    BY <2>3 DEF Posts
  <2> QED BY <1>3, <2>2, <2>4, <2>5, PostsTwice
<1>4. Posts(s, s)
  BY DEF Posts, SameSession
<1>5. CASE Owed(s) = 0
  <2>1. Bill(s, close, pay) = [s EXCEPT !.inGrace = TRUE]
    BY <1>5 DEF Bill
  <2>2. PICK grace \in BOOLEAN : grace = TRUE
    OBVIOUS
  <2> QED BY <1>3, <1>4, <2>1, <2>2
<1>6. CASE Owed(s) # 0
  <2>1. /\ pay.amt \in Nat /\ pay.when \in Int /\ pay.when >= close
        /\ DayOf(pay.when) < died + Settlement
    BY <1>2, <1>6, PaymentIs
  <2>2. PICK onTime \in BOOLEAN : onTime = IsOnTime(pay.when, DueOf(close))
    <3>1. PICK x \in Int : x = ResolveDueDate(DueOf(close))
      BY <1>1, FeeTimeIs
    <3>2. IsOnTime(pay.when, DueOf(close)) = (pay.when <= x)
      BY <3>1 DEF IsOnTime
    <3>3. (pay.when <= x) \in BOOLEAN
      BY <2>1
    <3> QED BY <3>2, <3>3
  <2>3. PICK inTime \in BOOLEAN : inTime = (pay.amt >= MinimumDue(Owed(s)) /\ onTime)
    OBVIOUS
  <2>4. PICK r : r = Row("payment", pay.amt, pay.when, close)
    OBVIOUS
  <2>5. r \in AnyRow /\ r.kind = "payment" /\ r.ts = pay.when /\ r.cycle = close
    BY <1>1, <2>1, <2>4 DEF Row, AnyRow, Kinds
  <2>5a. PICK fees \in BOOLEAN : fees = ChargesLate
    <3>1. ChargesLate \in BOOLEAN
      BY DEF ChargesLate
    <3> QED BY <3>1, Zenon
  <2>5b. PICK fined \in BOOLEAN : fined = (inTime /\ fees)
    OBVIOUS
  <2>6. PICK paid : paid = IF pay.amt <= 0 \/ pay.when >= WindowEnd THEN s ELSE Book(s, r, fined)
    OBVIOUS
  <2>7. Sheet(paid, close, close, w, died) /\ Posts(s, paid)
    <3>1. CASE pay.amt <= 0 \/ pay.when >= WindowEnd
      BY <1>4, <2>6, <3>1
    <3>2. CASE ~(pay.amt <= 0 \/ pay.when >= WindowEnd)
      <4>1. PICK p \in Waiting : p = [row |-> r, feeOnReject |-> fined]
        BY <2>5 DEF Waiting
      <4>2. p.row = r /\ p.feeOnReject = fined
        BY <4>1
      <4>3. fined => r.ts < FeeTime(close)
        <5> SUFFICES ASSUME fined PROVE r.ts < FeeTime(close)
          OBVIOUS
        <5>1. IsOnTime(pay.when, DueOf(close))
          BY <2>2, <2>3, <2>5b
        <5>2. PICK x \in Int, y \in Int : /\ x = ResolveDueDate(DueOf(close)) /\ y = FeeTime(close)
                                          /\ y > x
          BY <1>1, FeeTimeIs
        <5>3. pay.when <= x
          BY <5>1, <5>2 DEF IsOnTime
        <5> QED BY <2>1, <2>5, <5>2, <5>3
      <4>4. r.ts < WindowEnd
        BY <2>1, <2>5, <3>2, Terms
      <4>5. Charge(r, died)
        BY <2>1, <2>5 DEF Charge
      <4>6. Booked(p, died)
        BY <1>1, <2>5, <4>2, <4>3, <4>4, <4>5 DEF Booked
      <4>7. Booked([row |-> r, feeOnReject |-> fined], died) /\ r.ts >= close
        BY <2>1, <2>5, <4>1, <4>6
      <4>8. Sheet(Book(s, r, fined), close, close, w, died) /\ Posts(s, Book(s, r, fined))
        BY <1>1, <4>7, BookIs
      <4> QED BY <2>6, <3>2, <4>8
    <3> QED BY <3>1, <3>2
  <2>8. PICK charged : charged = IF inTime \/ ~fees THEN paid ELSE PostLateFee(paid, close)
    OBVIOUS
  <2>9. Sheet(charged, close, close, w, died) /\ Posts(s, charged)
    <3>1. FeeTime(close) >= close
      <4>1. PICK y \in Int : y = FeeTime(close) /\ y > close
        BY <1>1, FeeTimeIs
      <4> QED BY <1>1, <4>1
    <3>2. PICK e : e = PostLateFee(paid, close)
      OBVIOUS
    <3>3. Sheet(e, close, close, w, died) /\ Posts(paid, e)
      BY <1>1, <2>7, <3>1, <3>2, PostLateFeeIs
    <3>4. Posts(s, e)
      BY <2>7, <3>3, PostsTwice
    <3> QED BY <2>7, <2>8, <3>2, <3>3, <3>4
  <2>10. PICK grace \in BOOLEAN : grace = (pay.amt >= Owed(s) /\ onTime)
    OBVIOUS
  <2>11. Bill(s, close, pay) = [charged EXCEPT !.inGrace = grace]
    BY <1>6, <2>2, <2>3, <2>4, <2>5a, <2>5b, <2>6, <2>8, <2>10 DEF Bill
  <2> QED BY <1>3, <2>9, <2>11
<1> QED BY <1>5, <1>6

-----------------------------------------------------------------------------
(* One close *)

\* e holds what b holds, but for purchases billed.
SameRows(b, e) ==
  /\ e.closes = b.closes /\ e.closed = b.closed /\ e.prior = b.prior /\ e.balance = b.balance
  /\ e.inGrace = b.inGrace /\ e.deferred = b.deferred /\ e.pending = b.pending
  /\ e.ready = b.ready /\ e.emitted = b.emitted /\ e.log = b.log /\ e.autopay = b.autopay
  /\ e.cash = b.cash /\ e.owed = b.owed /\ UnbilledOf(e) = UnbilledOf(b)
  /\ \A i \in 1 .. Len(e.indices) : \E j \in 1 .. Len(b.indices) : e.indices[i] = b.indices[j]

LEMMA CompactIs ==
  ASSUME NEW b \in Cards, NEW died, Indexed(b, died)
  PROVE  Compact(b) \in Cards /\ Indexed(Compact(b), died) /\ SameRows(b, Compact(b))
<1>1. CASE Compact(b) = b
  BY <1>1 DEF SameRows
<1>2. CASE Compact(b) # b
  <2>1. PICK s \in Seq(AnyRow), N \in Nat, u \in Nat :
          s = b.indices /\ N = Len(s) /\ u = b.cursor /\ u <= N
    BY CardFields, LenProperties DEF Indexed
  <2>2. PICK t \in Seq(AnyRow) :
          /\ t = SubSeq(s, u + 1, N) /\ Len(t) = N - u /\ \A n \in 1 .. N - u : t[n] = s[u + n]
    <3>1. u \in 0 .. N /\ N \in u .. N
      BY <2>1
    <3> QED BY <2>1, <3>1, PartIs
  <2>3. PICK e : e = Compact(b)
    OBVIOUS
  <2>4. e = [b EXCEPT !.indices = t, !.cursor = 0]
    BY <1>2, <2>1, <2>2, <2>3 DEF Compact
  <2>5. /\ e \in Cards /\ e.indices = t /\ e.cursor = 0
        /\ e.closes = b.closes /\ e.closed = b.closed /\ e.prior = b.prior /\ e.balance = b.balance
        /\ e.inGrace = b.inGrace /\ e.deferred = b.deferred /\ e.pending = b.pending
        /\ e.ready = b.ready /\ e.emitted = b.emitted /\ e.log = b.log /\ e.autopay = b.autopay
        /\ e.cash = b.cash /\ e.owed = b.owed
    BY <2>4 DEF Cards
  <2>6. UnbilledOf(e) = UnbilledOf(b)
    <3>1. UnbilledOf(b) = t
      BY <2>1, <2>2 DEF UnbilledOf
    <3>2. UnbilledOf(e) = SubSeq(t, 1, Len(t))
      BY <2>5 DEF UnbilledOf
    <3> QED BY <3>1, <3>2, SubSeqFull
  <2>7. \A i \in 1 .. Len(t) : u + i \in 1 .. N /\ t[i] = s[u + i]
    <3>1. u <= N
      BY <2>1
    <3>2. \A i \in 1 .. N - u : u + i \in 1 .. N
      BY <3>1
    <3> QED BY <2>2, <3>2
  <2>8. Indexed(e, died)
    <3>1. \A i \in 1 .. Len(t) : Purchase(t[i], died)
      BY <2>1, <2>7 DEF Indexed
    <3>2. ASSUME NEW i \in 1 .. Len(t), NEW j \in 1 .. Len(t), i <= j PROVE t[i].ts <= t[j].ts
      <4>1. u + i <= u + j
        BY <2>1, <3>2
      <4>2. s[u + i].ts <= s[u + j].ts
        BY <2>1, <2>7, <4>1 DEF Indexed
      <4> QED BY <2>7, <4>2
    <3>3. 0 <= Len(t)
      BY LenProperties
    <3> QED BY <2>5, <3>1, <3>2, <3>3 DEF Indexed
  <2>9. SameRows(b, e)
    BY <2>1, <2>5, <2>6, <2>7 DEF SameRows
  <2> QED BY <2>3, <2>5, <2>8, <2>9
<1> QED BY <1>1, <1>2

\* What a close leaves: the next cycle open, everything before it billed.
Closed(c, n, close, w, died) ==
  /\ Sheet(n, close, close, w, died) /\ Indexed(n, died) /\ ExactNet(n)
  /\ n.prior = close /\ n.closed = c.closed + 1 /\ n.closes = c.closes
  /\ n.ready = c.ready /\ n.autopay = c.autopay
  /\ \A i \in 1 .. Len(n.indices) : \E j \in 1 .. Len(c.indices) : n.indices[i] = c.indices[j]
  /\ \A i \in 1 .. Len(UnbilledOf(n)) :
       \E j \in c.cursor + 1 .. Len(c.indices) :
         UnbilledOf(n)[i] = c.indices[j] /\ c.indices[j].ts >= close

LEMMA CloseCycleIs ==
  ASSUME NEW c, NEW close, NEW w \in Int, NEW died \in Int, CloseOn(close, died),
         close = NextClose(c),
         Sheet(c, c.prior, close, w, died), Indexed(c, died), InOpenCycle(c, c.prior, w),
         ExactNet(c), NEW disputes \in Disputes(c, close),
         NEW s, s = Statement(c, close, disputes), NEW pay \in Payments(s, close)
  PROVE  Closed(c, CloseCycle(s, pay), close, w, died)
<1>1. c \in Cards /\ close \in Int /\ c.closed \in Nat
  BY CloseOnIs, CardFields DEF Sheet
<1>2. PICK u \in Nat, N \in Nat, k \in Nat :
        /\ u = c.cursor /\ N = Len(c.indices) /\ k = BilledCount(c, close)
        /\ \A i \in u + k + 1 .. N : c.indices[i].ts >= close
        /\ u + k <= N /\ c.indices \in Seq(AnyRow)
  <2>1. /\ BilledCount(c, close) \in 0 .. Len(c.indices) - c.cursor
        /\ c.cursor \in Nat /\ Len(c.indices) \in Nat /\ c.indices \in Seq(AnyRow)
        /\ \A i \in c.cursor + BilledCount(c, close) + 1 .. Len(c.indices) : c.indices[i].ts >= close
    BY <1>1, BilledIs
  <2>2. PICK v \in Nat, m \in Nat, q \in Nat :
          v = c.cursor /\ m = Len(c.indices) /\ q = BilledCount(c, close) /\ q \in 0 .. m - v
    BY <2>1
  <2>3. v + q <= m
    BY <2>2
  <2> QED BY <2>1, <2>2, <2>3
<1>3. Sheet(s, close, close, w, died) /\ Billing(c, s, k) /\ ExactNet(s) /\ s \in Cards
  BY <1>2, StatementIs DEF Sheet
<1>4. s.indices = c.indices /\ s.cursor = u + k /\ s.closes = c.closes /\ s.closed = c.closed
      /\ s.ready = c.ready /\ s.autopay = c.autopay
  BY <1>2, <1>3 DEF Billing
<1>5. PICK b : b = Bill(s, close, pay)
  OBVIOUS
<1>6. Sheet(b, close, close, w, died) /\ Posts(s, b) /\ b \in Cards
  <2>1. Sheet(b, close, close, w, died) /\ Posts(s, b)
    BY <1>3, <1>5, BillIs
  <2> QED BY <2>1 DEF Sheet
<1>7. /\ b.indices = c.indices /\ b.cursor = u + k /\ b.closes = c.closes /\ b.closed = c.closed
      /\ b.ready = c.ready /\ b.autopay = c.autopay /\ b.balance = s.balance
      /\ b.owed + Net(b.deferred) = s.owed + Net(s.deferred)
  BY <1>4, <1>6 DEF Posts, SameSession
<1>8. PICK e : e = [b EXCEPT !.prior = close, !.closed = @ + 1]
  OBVIOUS
<1>9. /\ e \in Cards /\ e.prior = close /\ e.closed = c.closed + 1 /\ e.closes = c.closes
      /\ e.indices = c.indices /\ e.cursor = u + k /\ e.balance = b.balance
      /\ e.deferred = b.deferred /\ e.pending = b.pending /\ e.ready = c.ready
      /\ e.emitted = b.emitted /\ e.autopay = c.autopay /\ e.cash = b.cash /\ e.owed = b.owed
  <2>1. e = [b EXCEPT !.prior = close, !.closed = c.closed + 1]
    BY <1>6, <1>7, <1>8
  <2>2. c.closed + 1 \in Nat
    BY <1>1
  <2> QED BY <1>1, <1>6, <1>7, <2>1, <2>2 DEF Cards
<1>10. Sheet(e, close, close, w, died) /\ Indexed(e, died)
  <2>1. Sheet(e, close, close, w, died)
    BY <1>6, <1>9 DEF Sheet
  <2>2. Indexed(e, died)
    BY <1>2, <1>9 DEF Indexed
  <2> QED BY <2>1, <2>2
<1>11. PICK n : n = Compact(e)
  OBVIOUS
<1>12. n \in Cards /\ Indexed(n, died) /\ SameRows(e, n)
  BY <1>9, <1>10, <1>11, CompactIs
<1>13. CloseCycle(s, pay) = n
  <2>1. NextClose(s) = close
    BY <1>4 DEF NextClose
  <2> QED BY <1>5, <1>8, <1>11, <2>1 DEF CloseCycle
<1>14. Sheet(n, close, close, w, died)
  BY <1>10, <1>12 DEF Sheet, SameRows
<1>15. UnbilledOf(n) = UnbilledOf(s)
  <2>1. UnbilledOf(e) = UnbilledOf(s)
    BY <1>4, <1>9 DEF UnbilledOf
  <2> QED BY <1>12, <2>1 DEF SameRows
<1>16. ExactNet(n)
  <2>1. n.owed = b.owed /\ n.balance = s.balance /\ n.deferred = b.deferred
    BY <1>7, <1>9, <1>12 DEF SameRows
  <2>2. /\ s.owed \in Int /\ s.balance \in Int /\ b.owed \in Int
        /\ Net(s.deferred) \in Int /\ Net(b.deferred) \in Int /\ Net(UnbilledOf(s)) \in Int
    <3>1. s.deferred \in Seq(AnyRow) /\ b.deferred \in Seq(AnyRow)
      BY <1>3, <1>6, CardFields
    <3>2. s.cursor <= Len(s.indices)
      BY <1>2, <1>4
    <3>3. UnbilledOf(s) \in Seq(AnyRow)
      BY <1>3, <3>2, UnbilledIs
    <3> QED BY <1>3, <1>6, <3>1, <3>3, CardFields, NetIs
  <2>3. s.owed + s.balance + Net(UnbilledOf(s)) + Net(s.deferred) = 0
    BY <1>3 DEF ExactNet
  <2>4. b.owed + Net(b.deferred) = s.owed + Net(s.deferred)
    BY <1>7
  <2>5. b.owed + s.balance + Net(UnbilledOf(s)) + Net(b.deferred) = 0
    BY <2>2, <2>3, <2>4
  <2> QED BY <1>15, <2>1, <2>5 DEF ExactNet
<1>17. \A i \in 1 .. Len(UnbilledOf(n)) :
         \E j \in c.cursor + 1 .. Len(c.indices) :
           UnbilledOf(n)[i] = c.indices[j] /\ c.indices[j].ts >= close
  <2>1. s.cursor <= Len(s.indices)
    BY <1>2, <1>4
  <2>2. /\ Len(UnbilledOf(s)) = N - (u + k)
        /\ \A i \in 1 .. N - (u + k) : UnbilledOf(s)[i] = c.indices[u + k + i]
    <3>1. /\ Len(UnbilledOf(s)) = Len(s.indices) - s.cursor
          /\ \A i \in 1 .. Len(s.indices) - s.cursor : UnbilledOf(s)[i] = s.indices[s.cursor + i]
      BY <1>3, <2>1, UnbilledIs
    <3> QED BY <1>2, <1>4, <3>1
  <2>3. ASSUME NEW i \in 1 .. N - (u + k)
        PROVE  \E j \in u + 1 .. N : UnbilledOf(s)[i] = c.indices[j] /\ c.indices[j].ts >= close
    <3>1. u + k + i \in u + 1 .. N /\ u + k + i \in u + k + 1 .. N
      OBVIOUS
    <3>2. UnbilledOf(s)[i] = c.indices[u + k + i] /\ c.indices[u + k + i].ts >= close
      BY <1>2, <2>2, <3>1
    <3> QED BY <3>1, <3>2
  <2> QED BY <1>2, <1>15, <2>2, <2>3
<1>18. /\ n.prior = close /\ n.closed = c.closed + 1 /\ n.closes = c.closes
       /\ n.ready = c.ready /\ n.autopay = c.autopay
       /\ \A i \in 1 .. Len(n.indices) : \E j \in 1 .. Len(c.indices) : n.indices[i] = c.indices[j]
  BY <1>9, <1>12 DEF SameRows
<1> QED BY <1>12, <1>13, <1>14, <1>16, <1>17, <1>18 DEF Closed

\* A card that nothing has happened to yet.
Fresh(c) ==
  c.deferred = << >> /\ c.pending = << >> /\ c.emitted = << >> /\ c.inGrace = TRUE /\ c.balance = 0

\* A close that is over before the first purchase bills nothing.
LEMMA FreshClose ==
  ASSUME NEW c \in Cards, NEW died \in Int, Indexed(c, died), Fresh(c), NEW close \in Int,
         \A i \in c.cursor + 1 .. Len(c.indices) : c.indices[i].ts >= close,
         NEW disputes, NEW s, s = Statement(c, close, disputes), NEW pay, close = NextClose(c)
  PROVE  Fresh(CloseCycle(s, pay))
<1>1. PICK N \in Nat, u \in Nat : N = Len(c.indices) /\ u = c.cursor /\ u <= N
  BY CardFields, LenProperties DEF Indexed
<1>2. BilledCount(c, close) = 0
  <2>1. PICK k \in Int : /\ k = BilledCount(c, close) /\ k \in 0 .. N - u
                         /\ \A i \in u + 1 .. u + k : c.indices[i].ts < close
    BY <1>1, BilledIs
  <2>2. CASE k >= 1
    <3>1. u + 1 \in u + 1 .. u + k /\ u + 1 \in u + 1 .. N
      BY <1>1, <2>1, <2>2
    <3>2. c.indices[u + 1].ts < close /\ c.indices[u + 1].ts >= close
      BY <1>1, <2>1, <3>1
    <3>3. c.indices[u + 1].ts \in Int
      <4>1. u + 1 \in 1 .. N
        BY <1>1, <3>1
      <4>2. Purchase(c.indices[u + 1], died)
        BY <1>1, <4>1 DEF Indexed
      <4> QED BY <4>2 DEF Purchase, AnyRow
    <3> QED BY <3>2, <3>3
  <2> QED BY <2>1, <2>2
<1>3. Billed(c, close) = << >> /\ Len(Billed(c, close)) = 0
  <2>1. Billed(c, close) = SubSeq(c.indices, u + 1, u)
    BY <1>1, <1>2 DEF Billed
  <2>2. u + 1 \in Int /\ u \in Int /\ u < u + 1
    OBVIOUS
  <2>3. Billed(c, close) = << >>
    BY <2>1, <2>2, SubSeqEmpty
  <2> QED BY <2>3
<1>4. PICK b : b = CollectPurchases(c, close, disputes)
  OBVIOUS
<1>5. b = [c EXCEPT !.cursor = @ + 0]
  <2> DEFINE B == Billed(c, close)
             g == CHOOSE f : f = [n \in 0 .. Len(B) |->
                                    IF n = 0 THEN c ELSE CollectOne(f[n - 1], B[n], disputes[n], close)]
  <2>1. Collecting(g, c, B, disputes, close, Len(B))
    <3>1. Len(B) \in Nat
      BY <1>3
    <3> HIDE DEF B
    <3> QED BY <3>1, CollectingRun
  <2>2. b = [g[Len(B)] EXCEPT !.cursor = @ + Len(B)]
    BY <1>4 DEF CollectPurchases
  <2> HIDE DEF g
  <2>3. g[0] = c
    BY <2>1 DEF Collecting
  <2> QED BY <1>3, <2>2, <2>3
<1>6. b.deferred = << >> /\ b.pending = << >> /\ b.emitted = << >> /\ b.inGrace /\ b \in Cards
  <2>1. c.cursor + 0 \in Nat
    BY <1>1
  <2> QED BY <1>5, <2>1 DEF Cards, Fresh
<1>7. PICK d : d = Drained(c, close, disputes)
  OBVIOUS
<1>8. /\ d \in Cards /\ d.deferred = << >> /\ d.pending = << >> /\ d.emitted = << >>
      /\ d.inGrace = TRUE /\ d.balance = 0
  <2>1. PICK none \in Seq(AnyRow) : none = << >> /\ Len(none) = 0 /\ DOMAIN none = {}
    <3>1. PICK none \in Seq(AnyRow) : none = << >>
      BY EmptySeq
    <3>2. Len(none) = 0 /\ DOMAIN none = {}
      BY <3>1
    <3> QED BY <3>1, <3>2
  <2>2. PICK due : due = {n \in DOMAIN none : InCycle(none[n], c.prior, close)} /\ due = {}
    BY <2>1
  <2>3. (DOMAIN none) \ due = {}
    BY <2>1
  <2>4. Kept(none, {}) = none
    BY <2>1, KeptNone
  <2>5. none \o none = none
    BY <2>1, ConcatEmptySeq
  <2>6. IntegrateBalance(c.balance, none, c.prior, close).ending = 0
    <3>1. {n \in DOMAIN none : InCycle(none[n], c.prior, close)} = {}
      BY <2>1
    <3>2. IntegrateBalance(c.balance, none, c.prior, close).ending = c.balance + Net(Kept(none, {}))
      BY <3>1 DEF IntegrateBalance
    <3> QED BY <2>1, <2>4, <3>2, NetNone DEF Fresh
  <2>7. d = [b EXCEPT !.deferred = none, !.balance = 0]
    <3>1. b.deferred = none /\ Billed(c, close) = none
      BY <1>3, <1>6, <2>1
    <3> QED BY <1>4, <1>7, <2>2, <2>3, <2>4, <2>5, <2>6, <3>1 DEF Drained
  <2>8. b.inGrace = TRUE
    <3>1. b.inGrace = c.inGrace
      BY <1>5 DEF Cards
    <3>2. c.inGrace = TRUE
      BY DEF Fresh
    <3> QED BY <3>1, <3>2
  <2>9. 0 \in Int
    OBVIOUS
  <2>10. d \in Cards
    BY <1>6, <2>1, <2>7, <2>9 DEF Cards
  <2>11. /\ d.deferred = none /\ d.pending = b.pending /\ d.emitted = b.emitted
         /\ d.inGrace = b.inGrace /\ d.balance = 0
    BY <1>6, <2>7 DEF Cards
  <2> QED BY <1>6, <2>1, <2>8, <2>10, <2>11
<1>9. s = d
  BY <1>7 DEF Statement, Drained, Fresh
<1>10. Owed(s) = 0
  BY <1>8, <1>9, OwedIs
<1>11. PICK e : e = [Bill(s, close, pay) EXCEPT !.prior = close, !.closed = @ + 1]
  OBVIOUS
<1>12. /\ e.deferred = << >> /\ e.pending = << >> /\ e.emitted = << >>
       /\ e.inGrace = TRUE /\ e.balance = 0
  <2>1. Bill(s, close, pay) = [s EXCEPT !.inGrace = TRUE]
    BY <1>10 DEF Bill
  <2> QED BY <1>8, <1>9, <1>11, <2>1 DEF Cards
<1>13. NextClose(s) = close
  <2>1. s.closes = c.closes /\ s.closed = c.closed
    <3>1. b.closes = c.closes /\ b.closed = c.closed
      BY <1>5 DEF Cards
    <3>2. d.closes = b.closes /\ d.closed = b.closed
      BY <1>4, <1>6, <1>7 DEF Drained, Cards
    <3> QED BY <1>9, <3>1, <3>2
  <2> QED BY <2>1 DEF NextClose
<1>14. CloseCycle(s, pay) = Compact(e)
  BY <1>11, <1>13 DEF CloseCycle
<1>15. /\ Compact(e).deferred = e.deferred /\ Compact(e).pending = e.pending
       /\ Compact(e).emitted = e.emitted /\ Compact(e).inGrace = e.inGrace
       /\ Compact(e).balance = e.balance
  BY <1>8, <1>9, <1>11 DEF Compact, Bill, Cards
<1> QED BY <1>12, <1>14, <1>15 DEF Fresh

-----------------------------------------------------------------------------
(* The purchases of a day *)

\* g settles the rows, one after the other.
Settling(g, base, sorted, N) ==
  g[0] = base /\ \A n \in 0 .. N - 1 : g[n + 1] = SettleOne(g[n], sorted[n + 1])

LEMMA SettlingRun ==
  ASSUME NEW base, NEW sorted, NEW N \in Nat
  PROVE  LET settled[n \in 0 .. N] ==
               IF n = 0 THEN base ELSE SettleOne(settled[n - 1], sorted[n])
         IN  Settling(settled, base, sorted, N)
<1> DEFINE Turn(d, n) == SettleOne(d, sorted[n])
           Def(f, m) == f = [n \in 0 .. m |-> IF n = 0 THEN base ELSE Turn(f[n - 1], n)]
           Run(f, m) == /\ f = [n \in 0 .. m |-> f[n]] /\ f[0] = base
                        /\ \A n \in 1 .. m : f[n] = Turn(f[n - 1], n)
           S == {m \in Nat : \E f : Run(f, m)}
<1> HIDE DEF Turn
<1>1. 0 \in S
  <2>1. Run([n \in 0 .. 0 |-> base], 0)
    OBVIOUS
  <2> HIDE DEF Run
  <2> QED BY <2>1
<1>2. ASSUME NEW m \in Nat, m \in S PROVE m + 1 \in S
  <2>1. PICK f : Run(f, m)
    BY <1>2
  <2> DEFINE g == [n \in 0 .. m + 1 |-> IF n = m + 1 THEN Turn(f[m], m + 1) ELSE f[n]]
  <2>2. ASSUME NEW n \in 1 .. m + 1 PROVE g[n] = Turn(g[n - 1], n)
    <3>1. CASE n = m + 1
      BY <3>1
    <3>2. CASE n # m + 1
      <4>1. n \in 1 .. m /\ n - 1 # m + 1 /\ n - 1 \in 0 .. m + 1
        BY <3>2
      <4>2. g[n] = f[n] /\ g[n - 1] = f[n - 1]
        BY <3>2, <4>1
      <4> QED BY <2>1, <4>1, <4>2
    <3> QED BY <3>1, <3>2
  <2>3. g = [n \in 0 .. m + 1 |-> g[n]] /\ g[0] = base
    BY <2>1
  <2>4. Run(g, m + 1)
    BY <2>2, <2>3
  <2> HIDE DEF Run, g
  <2> QED BY <2>4
<1> HIDE DEF S
<1>3. N \in S
  BY <1>1, <1>2, SetInduction
<1>4. PICK h : Run(h, N)
  BY <1>3 DEF S
<1>5. Def(h, N)
  <2>1. ASSUME NEW n \in 0 .. N
        PROVE  h[n] = IF n = 0 THEN base ELSE Turn(h[n - 1], n)
    <3>1. n = 0 \/ n \in 1 .. N
      OBVIOUS
    <3> QED BY <1>4, <3>1
  <2>2. h = [n \in 0 .. N |-> h[n]]
    BY <1>4
  <2> QED BY <2>1, <2>2
<1> DEFINE g == CHOOSE f : Def(f, N)
<1>6. Def(g, N)
  <2> HIDE DEF Def
  <2> QED BY <1>5
<1>7. g = CHOOSE f : f = [n \in 0 .. N |-> IF n = 0 THEN base ELSE SettleOne(f[n - 1], sorted[n])]
  BY DEF Turn
<1> HIDE DEF g
<1>8. g[0] = base /\ \A n \in 0 .. N - 1 : g[n + 1] = Turn(g[n], n + 1)
  <2>1. ASSUME NEW n \in 0 .. N - 1 PROVE n + 1 \in 0 .. N /\ n + 1 # 0 /\ (n + 1) - 1 = n
    OBVIOUS
  <2> QED BY <1>6, <2>1
<1>9. Settling(g, base, sorted, N)
  BY <1>8 DEF Settling, Turn
<1> QED BY <1>7, <1>9

\* Rows sorted by time are the same rows.
LEMMA ByTimeIs ==
  ASSUME NEW rows \in Seq(AnyRow)
  PROVE  /\ ByTime(rows) \in Seq(AnyRow) /\ Len(ByTime(rows)) = Len(rows)
         /\ Net(ByTime(rows)) = Net(rows)
         /\ \A i \in 1 .. Len(rows) : \E n \in 1 .. Len(rows) : ByTime(rows)[i] = rows[n]
         /\ \A i, j \in 1 .. Len(rows) : i <= j => ByTime(rows)[i].ts <= ByTime(rows)[j].ts
<1>1. PICK N \in Nat : N = Len(rows) /\ DOMAIN rows = 1 .. N /\ \A n \in 1 .. N : rows[n] \in AnyRow
  BY LenProperties, ElementOfSeq
<1>2. PICK times : times = [n \in 1 .. N |-> rows[n].ts]
  OBVIOUS
<1>3. times \in [1 .. N -> Int] /\ \A n \in 1 .. N : times[n] = rows[n].ts
  BY <1>1, <1>2 DEF AnyRow
<1>4. PICK A \in SUBSET (1 .. Len(rows)) : A = 1 .. Len(rows)
  OBVIOUS
<1>5. PICK R : R = Earlier(times)
  OBVIOUS
<1>6. StrictOrder(R, A) /\ \A m, n : <<m, n>> \in R =>
        m \in 1 .. N /\ n \in 1 .. N /\ times[m] <= times[n]
  BY <1>1, <1>3, <1>4, <1>5, EarlierStrict
<1>7. ByTime(rows) = Ordered(rows, A, R)
  BY <1>1, <1>2, <1>4, <1>5 DEF ByTime
<1>8. PICK t \in Seq(AnyRow) : t = ByTime(rows) /\ Len(t) = Cardinality(A)
  BY <1>6, <1>7, OrderedIs
<1>9. Cardinality(A) = N
  <2>1. Cardinality(1 .. N) = N
    BY FS_Interval
  <2> QED BY <1>1, <1>4, <2>1
<1>10. PICK p : Taken(Ordered(rows, A, R), rows, p, A, R)
  BY <1>6, OrderedIs
<1>11. /\ Picks(p, N, N, A) /\ \A i, j \in 1 .. N : i < j => <<p[i], p[j]>> \in R
       /\ \A j \in 1 .. N : t[j] = rows[p[j]]
  BY <1>1, <1>7, <1>8, <1>9, <1>10 DEF Taken, PicksInOrder
<1>12. \A j \in 1 .. N : p[j] \in 1 .. N
  BY <1>11 DEF Picks
<1>13. Net(t) = Net(rows)
  BY <1>4, <1>6, <1>7, <1>8, NetArranged
<1>14. \A i \in 1 .. N : \E n \in 1 .. N : t[i] = rows[n]
  BY <1>11, <1>12
<1>15. ASSUME NEW i \in 1 .. N, NEW j \in 1 .. N, i <= j PROVE t[i].ts <= t[j].ts
  <2>1. CASE i = j
    <3>1. t[i].ts \in Int
      BY <1>1, <1>11, <1>12 DEF AnyRow
    <3> QED BY <2>1, <3>1
  <2>2. CASE i < j
    <3>1. times[p[i]] <= times[p[j]]
      BY <1>6, <1>11, <2>2
    <3> QED BY <1>3, <1>11, <1>12, <3>1
  <2> QED BY <1>15, <2>1, <2>2
<1> QED BY <1>1, <1>8, <1>9, <1>13, <1>14, <1>15

\* d is c after the purchases rows were drawn.
Drawn(c, d, rows) ==
  /\ SameSession(c, d) /\ d.deferred = c.deferred /\ d.pending = c.pending
  /\ d.emitted = c.emitted /\ d.inGrace = c.inGrace /\ d.log = c.log
  /\ d.owed + Net(rows) = c.owed

\* The purchases of day d.
Bought(rows, d, died) ==
  /\ rows \in Seq(AnyRow)
  /\ \A i \in 1 .. Len(rows) : /\ Purchase(rows[i], died)
                               /\ rows[i].ts >= Instant(d, 0) /\ rows[i].ts < Instant(d + 1, 0)

LEMMA SettleOneIs ==
  ASSUME NEW c, NEW b, NEW kept, NEW lo, NEW low, NEW w, NEW died, NEW d,
         Sheet(b, lo, low, w, died), Drawn(c, b, kept), Bought(kept, d, died), c.owed \in Int,
         NEW r, Purchase(r, died), r.ts >= Instant(d, 0), r.ts < Instant(d + 1, 0)
  PROVE  LET acc == SettleOne([c |-> b, kept |-> kept], r)
         IN  /\ Sheet(acc.c, lo, low, w, died) /\ Drawn(c, acc.c, acc.kept)
             /\ Bought(acc.kept, d, died)
<1> DEFINE acc == SettleOne([c |-> b, kept |-> kept], r)
<1>1. b \in Cards /\ r \in AnyRow /\ r.kind = "purchase" /\ r.amt \in Nat
  BY DEF Sheet, Purchase, AnyRow
<1>2. CASE ~Accepts(b, r)
  <2>1. acc.c = b /\ acc.kept = kept
    BY <1>2 DEF SettleOne
  <2> QED BY <2>1
<1>3. CASE Accepts(b, r)
  <2>1. acc.c = PostToLedger(b, r) /\ acc.kept = Append(kept, r)
    BY <1>3 DEF SettleOne
  <2>2. b.owed + r.amt <= Limit
    BY <1>1, <1>3 DEF Accepts
  <2>3. Delta(r) = -r.amt
    BY <1>1 DEF Delta
  <2>4. PICK e : e = PostToLedger(b, r)
    OBVIOUS
  <2>5. b.owed \in Int /\ b.cash \in Int
    BY <1>1, CardFields
  <2>6. e = [b EXCEPT !.owed = b.owed + r.amt]
    <3>1. b.owed - Delta(r) = b.owed + r.amt
      BY <1>1, <2>3, <2>5
    <3>2. e = [b EXCEPT !.owed = b.owed - Delta(r), !.cash = b.cash]
      BY <1>1, <2>4 DEF PostToLedger
    <3>3. [b EXCEPT !.owed = b.owed - Delta(r), !.cash = b.cash] = [b EXCEPT !.owed = b.owed - Delta(r)]
      BY <1>1 DEF Cards
    <3> QED BY <3>1, <3>2, <3>3
  <2>7. b.owed + r.amt \in Int
    BY <1>1, <2>5
  <2>8. /\ e \in Cards /\ e.owed = b.owed + r.amt /\ e.cash = b.cash /\ e.emitted = b.emitted
        /\ e.deferred = b.deferred /\ e.pending = b.pending /\ e.log = b.log
        /\ SameSession(b, e)
    BY <1>1, <2>6, <2>7 DEF Cards, SameSession
  <2>9. e.inGrace = b.inGrace
    BY <1>1, <2>6 DEF Cards
  <2>10. Sheet(e, lo, low, w, died)
    BY <2>2, <2>8 DEF Sheet
  <2>11. kept \in Seq(AnyRow)
    BY DEF Bought
  <2>12. e.owed + Net(Append(kept, r)) = c.owed
    <3>1. Net(Append(kept, r)) = Net(kept) + Delta(r) /\ Net(kept) \in Int
      BY <1>1, <2>11, NetAppend, NetIs
    <3>2. b.owed + Net(kept) = c.owed
      BY DEF Drawn
    <3> QED BY <1>1, <2>3, <2>5, <2>8, <3>1, <3>2
  <2>13. Drawn(c, e, Append(kept, r))
    BY <2>8, <2>9, <2>12 DEF Drawn, SameSession
  <2>14. Bought(Append(kept, r), d, died)
    <3>1. /\ Append(kept, r) \in Seq(AnyRow) /\ Len(Append(kept, r)) = Len(kept) + 1
          /\ Len(kept) \in Nat /\ Append(kept, r)[Len(kept) + 1] = r
          /\ \A i \in 1 .. Len(kept) : Append(kept, r)[i] = kept[i]
      BY <1>1, <2>11, AppendProperties
    <3>2. \A i \in 1 .. Len(kept) + 1 : i \in 1 .. Len(kept) \/ i = Len(kept) + 1
      BY <3>1
    <3>3. \A i \in 1 .. Len(kept) : /\ Purchase(kept[i], died)
                                    /\ kept[i].ts >= Instant(d, 0) /\ kept[i].ts < Instant(d + 1, 0)
      BY DEF Bought
    <3>4. PICK t : t = Append(kept, r)
      OBVIOUS
    <3>5. \A i \in 1 .. Len(t) : /\ Purchase(t[i], died)
                                 /\ t[i].ts >= Instant(d, 0) /\ t[i].ts < Instant(d + 1, 0)
      BY <3>1, <3>2, <3>3, <3>4
    <3> QED BY <3>1, <3>4, <3>5 DEF Bought
  <2> QED BY <2>1, <2>4, <2>10, <2>13, <2>14
<1> QED BY <1>2, <1>3

\* The batch is settled row by row; what is kept has been drawn.
LEMMA SettleIs ==
  ASSUME NEW c, NEW lo, NEW low, NEW w, NEW died, NEW d \in Int,
         Sheet(c, lo, low, w, died), NEW rows, Bought(rows, d, died)
  PROVE  /\ Sheet(Settle(c, rows).c, lo, low, w, died) /\ Drawn(c, Settle(c, rows).c, Settle(c, rows).kept)
         /\ Bought(Settle(c, rows).kept, d, died)
<1>1. c \in Cards /\ c.owed \in Int /\ rows \in Seq(AnyRow)
  BY CardFields DEF Sheet, Bought
<1>2. PICK N \in Nat, sorted \in Seq(AnyRow) :
        N = Len(rows) /\ sorted = ByTime(rows) /\ Len(sorted) = N
  BY <1>1, LenProperties, ByTimeIs
<1>3. \A i \in 1 .. N : /\ Purchase(sorted[i], died) /\ sorted[i].ts >= Instant(d, 0)
                        /\ sorted[i].ts < Instant(d + 1, 0)
  <2>1. \A i \in 1 .. N : \E n \in 1 .. N : sorted[i] = rows[n]
    BY <1>1, <1>2, ByTimeIs
  <2>2. \A i \in 1 .. N : /\ Purchase(rows[i], died) /\ rows[i].ts >= Instant(d, 0)
                          /\ rows[i].ts < Instant(d + 1, 0)
    BY <1>2 DEF Bought
  <2> QED BY <2>1, <2>2
<1>4. PICK base : base = [c |-> c, kept |-> << >>]
  OBVIOUS
<1> DEFINE B == ByTime(rows)
           g == CHOOSE f : f = [n \in 0 .. Len(B) |->
                                  IF n = 0 THEN [c |-> c, kept |-> << >>] ELSE SettleOne(f[n - 1], B[n])]
<1>5. Settling(g, base, sorted, N)
  <2>1. Settling(g, [c |-> c, kept |-> << >>], B, Len(B))
    <3>1. Len(B) \in Nat
      BY <1>2
    <3> HIDE DEF B
    <3> QED BY <3>1, SettlingRun
  <2> HIDE DEF g
  <2> QED BY <1>2, <1>4, <2>1
<1>6. Settle(c, rows) = g[N]
  <2>1. Settle(c, rows) = g[Len(B)]
    BY DEF Settle
  <2> HIDE DEF g
  <2> QED BY <1>2, <2>1
<1> HIDE DEF g, B
<1> DEFINE Good(acc) == /\ acc = [c |-> acc.c, kept |-> acc.kept]
                        /\ Sheet(acc.c, lo, low, w, died) /\ Drawn(c, acc.c, acc.kept)
                        /\ Bought(acc.kept, d, died)
           S == {n \in 0 .. N : Good(g[n])}
<1>7. 0 \in S
  <2>1. g[0] = base /\ base.c = c /\ base.kept = << >>
    BY <1>4, <1>5 DEF Settling
  <2>2. PICK none \in Seq(AnyRow) : none = << >> /\ Len(none) = 0
    BY EmptySeq
  <2>3. Bought(none, d, died)
    BY <2>2 DEF Bought
  <2>4. Drawn(c, c, none)
    BY <1>1, <2>2, NetNone DEF Drawn, SameSession
  <2>5. Good(base)
    BY <1>4, <2>1, <2>2, <2>3, <2>4
  <2> HIDE DEF Good
  <2> QED BY <2>1, <2>5
<1>8. ASSUME NEW n \in 0 .. N - 1, n \in S PROVE n + 1 \in S
  <2>1. PICK b, kept, m, r : b = g[n].c /\ kept = g[n].kept /\ m = n + 1 /\ r = sorted[m]
    OBVIOUS
  <2>2. /\ g[n] = [c |-> b, kept |-> kept] /\ Sheet(b, lo, low, w, died) /\ Drawn(c, b, kept)
        /\ Bought(kept, d, died)
    BY <1>8, <2>1
  <2>3. m \in 1 .. N
    BY <2>1
  <2>4. Purchase(r, died) /\ r.ts >= Instant(d, 0) /\ r.ts < Instant(d + 1, 0)
    BY <1>3, <2>1, <2>3
  <2>5. PICK acc : acc = SettleOne([c |-> b, kept |-> kept], r)
    OBVIOUS
  <2>6. Sheet(acc.c, lo, low, w, died) /\ Drawn(c, acc.c, acc.kept) /\ Bought(acc.kept, d, died)
    BY <1>1, <2>2, <2>4, <2>5, SettleOneIs
  <2>7. acc = [c |-> acc.c, kept |-> acc.kept]
    <3>1. acc = [c |-> PostToLedger(b, r), kept |-> Append(kept, r)] \/ acc = [c |-> b, kept |-> kept]
      BY <2>5 DEF SettleOne
    <3> QED BY <3>1
  <2>8. Good(acc)
    BY <2>6, <2>7
  <2>9. g[n + 1] = acc
    BY <1>5, <2>1, <2>2, <2>5 DEF Settling
  <2> HIDE DEF Good
  <2>10. n + 1 \in 0 .. N
    OBVIOUS
  <2> QED BY <2>8, <2>9, <2>10
<1> HIDE DEF S
<1>9. N \in S
  <2>1. 0 .. N \subseteq S
    BY <1>7, <1>8, BoundedInduction
  <2> QED BY <2>1
<1>10. PICK acc : acc = g[N]
  OBVIOUS
<1>11. Good(acc)
  <2> HIDE DEF Good
  <2> QED BY <1>9, <1>10 DEF S
<1> QED BY <1>6, <1>10, <1>11

\* The rows handed to the driver: the new part in time order, after the old.
LEMMA IngestIs ==
  ASSUME NEW c \in Cards, NEW died, NEW d \in Int, Indexed(c, died), NEW rows, Bought(rows, d, died),
         \A i \in 1 .. Len(c.indices) : c.indices[i].ts < Instant(d, 0)
  PROVE  LET e == IngestPurchases(c, rows)
         IN  /\ e = [c EXCEPT !.indices = c.indices \o ByTime(rows)]
             /\ e \in Cards /\ Indexed(e, died)
             /\ Net(UnbilledOf(e)) = Net(UnbilledOf(c)) + Net(rows)
             /\ \A i \in 1 .. Len(e.indices) : e.indices[i].ts < Instant(d + 1, 0)
             /\ \A i \in 1 .. Len(UnbilledOf(e)) :
                  \/ UnbilledOf(e)[i].ts >= Instant(d, 0)
                  \/ \E j \in 1 .. Len(UnbilledOf(c)) : UnbilledOf(e)[i] = UnbilledOf(c)[j]
             /\ c.indices = << >> =>
                  \A i \in 1 .. Len(UnbilledOf(e)) : UnbilledOf(e)[i].ts >= Instant(d, 0)
             /\ c.indices = << >> /\ rows = << >> => e.indices = << >>
<1>1. PICK s \in Seq(AnyRow), N \in Nat, u \in Nat :
        s = c.indices /\ N = Len(s) /\ u = c.cursor /\ \A n \in 1 .. N : s[n] \in AnyRow
  <2>1. c.indices \in Seq(AnyRow) /\ c.cursor \in Nat
    BY CardFields
  <2> QED BY <2>1, LenProperties, ElementOfSeq
<1>2. u <= N
  BY <1>1 DEF Indexed
<1>3. rows \in Seq(AnyRow)
  BY DEF Bought
<1>4. PICK t \in Seq(AnyRow), M \in Nat : t = ByTime(rows) /\ M = Len(rows) /\ Len(t) = M
  BY <1>3, ByTimeIs, LenProperties
<1>5. PICK dawn \in Int, dusk \in Int : dawn = Instant(d, 0) /\ dusk = Instant(d + 1, 0) /\ dawn < dusk
  BY DEF Instant, Ticks
<1>6. \A i \in 1 .. M : Purchase(t[i], died) /\ t[i].ts >= dawn /\ t[i].ts < dusk
  <2>1. \A i \in 1 .. M : \E n \in 1 .. M : t[i] = rows[n]
    <3>1. \A i \in 1 .. Len(rows) : \E n \in 1 .. Len(rows) : ByTime(rows)[i] = rows[n]
      BY ONLY <1>3, ByTimeIs
    <3> QED BY ONLY <1>4, <3>1
  <2>2. \A i \in 1 .. M : Purchase(rows[i], died) /\ rows[i].ts >= dawn /\ rows[i].ts < dusk
    BY <1>4, <1>5 DEF Bought
  <2> QED BY <2>1, <2>2
<1>7. \A i, j \in 1 .. M : i <= j => t[i].ts <= t[j].ts
  BY <1>3, <1>4, ByTimeIs
<1>8. PICK a \in Seq(AnyRow) :
        /\ a = s \o t /\ Len(a) = N + M
        /\ \A i \in 1 .. N + M : a[i] = IF i <= N THEN s[i] ELSE t[i - N]
  <2>1. /\ s \o t \in Seq(AnyRow) /\ Len(s \o t) = Len(s) + Len(t)
        /\ \A i \in 1 .. Len(s) + Len(t) : (s \o t)[i] = IF i <= Len(s) THEN s[i] ELSE t[i - Len(s)]
    BY ConcatProperties
  <2>2. PICK a : a = s \o t
    OBVIOUS
  <2>3. a \in Seq(AnyRow) /\ Len(a) = N + M
    BY <1>1, <1>4, <2>1, <2>2
  <2>4. \A i \in 1 .. N + M : a[i] = IF i <= N THEN s[i] ELSE t[i - N]
    <3>1. Len(s) = N /\ Len(t) = M
      BY <1>1, <1>4
    <3> QED BY ONLY <2>1, <2>2, <3>1
  <2> QED BY <2>2, <2>3, <2>4
<1>9. PICK e : e = IngestPurchases(c, rows)
  OBVIOUS
<1>10. e = [c EXCEPT !.indices = c.indices \o ByTime(rows)] /\ e = [c EXCEPT !.indices = a]
  BY <1>1, <1>4, <1>8, <1>9 DEF IngestPurchases
<1>11. e \in Cards /\ e.indices = a /\ e.cursor = u
  BY <1>1, <1>10 DEF Cards
<1>12. ASSUME NEW i \in 1 .. N + M
       PROVE  \/ i \in 1 .. N /\ a[i] = s[i]
              \/ i - N \in 1 .. M /\ a[i] = t[i - N] /\ i > N
  BY <1>8
<1>13. \A i \in 1 .. N : Purchase(s[i], died) /\ s[i].ts < dawn /\ s[i].ts \in Int
  BY <1>1, <1>5 DEF Indexed, AnyRow
<1>14. \A i \in 1 .. M : t[i].ts \in Int
  BY <1>6 DEF Purchase, AnyRow
<1>15. Indexed(e, died)
  <2>1. \A i \in 1 .. N + M : Purchase(a[i], died)
    BY <1>6, <1>12, <1>13
  <2>2. ASSUME NEW i \in 1 .. N + M, NEW j \in 1 .. N + M, i <= j PROVE a[i].ts <= a[j].ts
    <3>1. CASE i \in 1 .. N /\ j \in 1 .. N
      <4>1. a[i] = s[i] /\ a[j] = s[j]
        BY <1>8, <3>1
      <4>2. s[i].ts <= s[j].ts
        BY <1>1, <2>2, <3>1 DEF Indexed
      <4> QED BY <4>1, <4>2
    <3>2. CASE i \in 1 .. N /\ j > N
      <4>1. a[i] = s[i] /\ j - N \in 1 .. M /\ a[j] = t[j - N]
        BY <1>12, <3>2
      <4>2. PICK x \in Int, y \in Int : x = s[i].ts /\ y = t[j - N].ts /\ x < dawn /\ y >= dawn
        BY <1>6, <1>13, <1>14, <3>2, <4>1
      <4>3. x <= y
        BY <4>2
      <4> QED BY <4>1, <4>2, <4>3
    <3>3. CASE i > N /\ j > N
      <4>1. i - N \in 1 .. M /\ a[i] = t[i - N] /\ j - N \in 1 .. M /\ a[j] = t[j - N]
        BY <1>12, <3>3
      <4>2. i - N <= j - N
        BY <2>2
      <4> QED BY <1>7, <4>1, <4>2
    <3>4. (i \in 1 .. N \/ i > N) /\ (j \in 1 .. N \/ j > N) /\ ~(i > N /\ j \in 1 .. N)
      BY <2>2
    <3> QED BY <3>1, <3>2, <3>3, <3>4
  <2>3. u <= N + M
    BY <1>2
  <2> QED BY <1>8, <1>11, <2>1, <2>2, <2>3 DEF Indexed
<1>16. \A i \in 1 .. N + M : a[i].ts < dusk
  <2>1. ASSUME NEW i \in 1 .. N + M PROVE a[i].ts < dusk
    <3>1. CASE i \in 1 .. N /\ a[i] = s[i]
      BY <1>5, <1>13, <3>1
    <3>2. CASE i - N \in 1 .. M /\ a[i] = t[i - N]
      BY <1>6, <3>2
    <3> QED BY <1>12, <3>1, <3>2
  <2> QED BY <2>1
<1>17. PICK p \in Seq(AnyRow), q \in Seq(AnyRow) :
         /\ p = UnbilledOf(c) /\ Len(p) = N - u /\ \A n \in 1 .. N - u : p[n] = s[u + n]
         /\ q = UnbilledOf(e) /\ Len(q) = N + M - u /\ \A n \in 1 .. N + M - u : q[n] = a[u + n]
  <2>1. /\ UnbilledOf(c) \in Seq(AnyRow) /\ Len(UnbilledOf(c)) = N - u
        /\ \A n \in 1 .. N - u : UnbilledOf(c)[n] = s[u + n]
    BY <1>1, <1>2, UnbilledIs
  <2>2. e.cursor <= Len(e.indices)
    BY <1>2, <1>8, <1>11
  <2>3. /\ UnbilledOf(e) \in Seq(AnyRow) /\ Len(UnbilledOf(e)) = Len(e.indices) - e.cursor
        /\ \A n \in 1 .. Len(e.indices) - e.cursor : UnbilledOf(e)[n] = e.indices[e.cursor + n]
    BY <1>11, <2>2, UnbilledIs
  <2> QED BY <1>8, <1>11, <2>1, <2>3
<1>18. ASSUME NEW n \in 1 .. N - u PROVE n \in 1 .. N + M - u /\ q[n] = p[n]
  <2>1. n \in 1 .. N + M - u /\ u + n \in 1 .. N + M /\ u + n <= N
    BY <1>2
  <2> QED BY <1>8, <1>17, <2>1
<1>19. ASSUME NEW n \in 1 .. M PROVE N - u + n \in 1 .. N + M - u /\ q[N - u + n] = t[n]
  <2>1. /\ N - u + n \in 1 .. N + M - u /\ u + (N - u + n) = N + n
        /\ N + n \in 1 .. N + M /\ ~(N + n <= N) /\ (N + n) - N = n
    BY <1>2
  <2> QED BY <1>8, <1>17, <2>1
<1>20. Continues(q, p, t)
  <2>1. Len(q) = Len(p) + Len(t)
    BY <1>2, <1>4, <1>17
  <2> QED BY <1>4, <1>17, <1>18, <1>19, <2>1 DEF Continues
<1>21. Net(q) = Net(p) + Net(rows)
  BY <1>3, <1>4, <1>20, NetContinued, ByTimeIs
<1>22. ASSUME NEW i \in 1 .. Len(q)
       PROVE  \/ q[i].ts >= dawn /\ i > N - u
              \/ i \in 1 .. N - u /\ q[i] = p[i]
  <2>1. CASE i <= N - u
    <3>1. i \in 1 .. N - u
      BY <1>2, <2>1
    <3> QED BY <1>18, <3>1
  <2>2. CASE ~(i <= N - u)
    <3>1. i \in Int /\ i <= N + M - u
      BY <1>17
    <3>2. PICK n \in Int : n = i - (N - u)
      BY <3>1
    <3>3. n \in 1 .. M /\ N - u + n = i
      BY <2>2, <3>1, <3>2
    <3>4. q[i] = t[n] /\ t[n].ts >= dawn
      BY <1>6, <1>19, <3>3
    <3>5. i > N - u
      BY <2>2, <3>1
    <3> QED BY <3>4, <3>5
  <2> QED BY <2>1, <2>2
<1>23. c.indices = << >> => \A i \in 1 .. Len(q) : q[i].ts >= dawn
  <2> SUFFICES ASSUME c.indices = << >>, NEW i \in 1 .. Len(q) PROVE q[i].ts >= dawn
    OBVIOUS
  <2>1. N = 0
    BY <1>1
  <2>2. ~(i \in 1 .. N - u)
    BY <2>1
  <2> QED BY <1>22, <2>2
<1>24. c.indices = << >> /\ rows = << >> => e.indices = << >>
  <2> SUFFICES ASSUME c.indices = << >>, rows = << >> PROVE a = << >>
    BY <1>11
  <2>1. Len(a) = 0
    BY <1>1, <1>4, <1>8
  <2> QED BY <2>1, EmptySeq
<1>25. \A i \in 1 .. Len(q) :
         q[i].ts >= dawn \/ \E j \in 1 .. Len(p) : q[i] = p[j]
  BY <1>17, <1>22
<1>26. \A i \in 1 .. Len(e.indices) : e.indices[i].ts < Instant(d + 1, 0)
  BY <1>5, <1>8, <1>11, <1>16
<1>27. /\ Net(UnbilledOf(e)) = Net(UnbilledOf(c)) + Net(rows)
       /\ \A i \in 1 .. Len(UnbilledOf(e)) :
            \/ UnbilledOf(e)[i].ts >= Instant(d, 0)
            \/ \E j \in 1 .. Len(UnbilledOf(c)) : UnbilledOf(e)[i] = UnbilledOf(c)[j]
       /\ c.indices = << >> =>
            \A i \in 1 .. Len(UnbilledOf(e)) : UnbilledOf(e)[i].ts >= Instant(d, 0)
  BY <1>5, <1>17, <1>21, <1>23, <1>25
<1>28. e \in Cards
  BY <1>11
<1> QED BY <1>9, <1>10, <1>15, <1>24, <1>26, <1>27, <1>28

\* Paydays come, none goes.
LEMMA BaseIs ==
  /\ \A d : BaseBefore(d) \in Nat
  /\ \A d \in Int : BaseBefore(d) <= BaseBefore(d + 1)
<1>1. Days \in Nat
  BY Terms
<1>2. IsFiniteSet(Paydays) /\ \A p \in Paydays : p \in Int
  <2>1. Paydays \in SUBSET (0 .. Days)
    BY <1>1 DEF Paydays
  <2> QED BY <1>1, <2>1, FiniteUpTo
<1>3. ASSUME NEW d PROVE IsFiniteSet({p \in Paydays : p < d}) /\ BaseBefore(d) \in Nat
  <2>1. {p \in Paydays : p < d} \in SUBSET Paydays
    OBVIOUS
  <2>2. IsFiniteSet({p \in Paydays : p < d})
    BY <1>2, <2>1, FS_Subset
  <2> QED BY <2>2, FS_CardinalityType DEF BaseBefore
<1>4. ASSUME NEW d \in Int PROVE BaseBefore(d) <= BaseBefore(d + 1)
  <2>1. {p \in Paydays : p < d} \in SUBSET {p \in Paydays : p < d + 1}
    BY <1>2
  <2>2. Cardinality({p \in Paydays : p < d}) <= Cardinality({p \in Paydays : p < d + 1})
    BY <1>3, <2>1, FS_Subset
  <2> QED BY <2>2 DEF BaseBefore
<1> QED BY <1>3, <1>4

LEMMA ReplayIs ==
  ASSUME NEW c, NEW lo, NEW low, NEW w, NEW died, Sheet(c, lo, low, w, died),
         baseIdx \in Nat, baseIdx <= BaseBefore(day)
  PROVE  /\ Sheet(ReplayBase(c), lo, low, w, died) /\ Drawn(c, ReplayBase(c), << >>)
         /\ ReplayBase(c).indices = c.indices
<1>1. c \in Cards /\ c.cash \in Int /\ c.cash >= 0 /\ c.owed \in Int
  BY CardFields DEF Sheet
<1>2. PICK paid \in Nat : paid = Salary * (BaseBefore(day) - baseIdx)
  <2>1. PICK k \in Nat : k = BaseBefore(day) - baseIdx
    BY BaseIs
  <2>2. PICK y \in Nat : y = Salary
    BY SpenderAssumption
  <2>3. y * k \in Nat
    OBVIOUS
  <2> QED BY <2>1, <2>2, <2>3
<1>3. PICK x \in Int : x = c.cash + paid /\ x >= 0
  BY <1>1
<1>4. PICK e : e = ReplayBase(c)
  OBVIOUS
<1>5. e = [c EXCEPT !.cash = x]
  BY <1>2, <1>3, <1>4 DEF ReplayBase
<1>6. /\ e \in Cards /\ e.owed = c.owed /\ e.cash = x /\ e.emitted = c.emitted
      /\ e.deferred = c.deferred /\ e.pending = c.pending /\ e.log = c.log
      /\ SameSession(c, e)
  BY <1>1, <1>5 DEF Cards, SameSession
<1>7. e.inGrace = c.inGrace
  BY <1>1, <1>5 DEF Cards
<1>8. Sheet(e, lo, low, w, died)
  BY <1>3, <1>6 DEF Sheet
<1>9. Drawn(c, e, << >>)
  BY <1>1, <1>6, <1>7, NetNone DEF Drawn
<1> QED BY <1>4, <1>6, <1>8, <1>9 DEF SameSession

\* What the spender tries is bought on the day, and what is emitted is tried.
LEMMA EmitIs ==
  ASSUME day \in 0 .. Days - 1, death \in Int, NEW tries \in Tries, NEW c
  PROVE  Bought(Emit(c, tries), day, death)
<1>1. day \in Int
  BY Terms
<1>2. tries \in Seq(AnyRow) /\ \A i \in 1 .. Len(tries) :
        /\ Purchase(tries[i], death)
        /\ tries[i].ts >= Instant(day, 0) /\ tries[i].ts < Instant(day + 1, 0)
  <2>1. CASE tries = << >>
    <3>1. tries \in Seq(AnyRow) /\ Len(tries) = 0
      BY <2>1, EmptySeq
    <3> QED BY <3>1
  <2>2. CASE tries # << >>
    <3> DEFINE one == [kind : {"purchase"}, amt : Amounts,
                       ts : {Instant(day, Morning), Instant(day, LateNight)}, cycle : {0}]
    <3>1. ~(day >= death) /\ \E n \in 1 .. Min({2, MaxPurchases - bought}) : tries \in [1 .. n -> one]
      BY <2>2 DEF Tries
    <3>2. PICK n \in Int : n >= 1 /\ tries \in [1 .. n -> one]
      BY <3>1
    <3>3. ASSUME NEW r \in one
          PROVE  Purchase(r, death) /\ r.ts >= Instant(day, 0) /\ r.ts < Instant(day + 1, 0)
      <4>1. r.kind = "purchase" /\ r.amt \in Amounts /\ r.cycle = 0
            /\ (r.ts = day * 7 + 1 \/ r.ts = day * 7 + 6)
            /\ r = [kind |-> r.kind, amt |-> r.amt, ts |-> r.ts, cycle |-> r.cycle]
        BY DEF Instant, Ticks, Morning, LateNight
      <4>2. r.ts \in Int /\ DayOf(r.ts) = day
        <5>1. PICK x \in Int : x = r.ts /\ (x = day * 7 + 1 \/ x = day * 7 + 6)
          BY <1>1, <4>1
        <5>2. x \div 7 = day
          BY <1>1, <5>1
        <5> QED BY <5>1, <5>2 DEF DayOf, Ticks
      <4>3. r.amt \in Nat /\ r.kind \in Kinds /\ r.cycle \in Int
        <5>1. Amounts \subseteq Nat
          BY SpenderAssumption
        <5>2. r.amt \in Nat
          BY <4>1, <5>1
        <5> QED BY <4>1, <5>2 DEF Kinds
      <4>4. r \in AnyRow
        BY <4>1, <4>2, <4>3 DEF AnyRow
      <4>5. DayOf(r.ts) < death
        BY <1>1, <3>1, <4>2
      <4>6. r.ts >= Instant(day, 0) /\ r.ts < Instant(day + 1, 0)
        BY <1>1, <4>1 DEF Instant, Ticks
      <4> QED BY <4>1, <4>4, <4>5, <4>6 DEF Purchase
    <3> HIDE DEF one
    <3>4. \A i \in 1 .. n : tries[i] \in one
      BY <3>2
    <3>5. \A i \in 1 .. n : tries[i] \in AnyRow
      BY <3>3, <3>4 DEF Purchase
    <3>6. tries \in Seq(AnyRow) /\ Len(tries) = n
      BY <3>2, <3>5
    <3> QED BY <3>3, <3>4, <3>6
  <2> QED BY <2>1, <2>2
<1>3. PICK S \in SUBSET (1 .. Len(tries)) : S = {n \in DOMAIN tries : Accepts(c, tries[n])}
  BY <1>2, LenProperties
<1>4. PICK t : t = Emit(c, tries) /\ t = Kept(tries, S)
  BY <1>3 DEF Emit
<1>5. t \in Seq(AnyRow) /\ \A j \in 1 .. Len(t) : \E n \in S : t[j] = tries[n]
  <2>1. tries \in Seq(AnyRow)
    BY <1>2
  <2>2. /\ Kept(tries, S) \in Seq(AnyRow)
        /\ \A j \in 1 .. Len(Kept(tries, S)) : \E n \in S : Kept(tries, S)[j] = tries[n]
    BY <2>1, KeptFrom
  <2> QED BY <1>4, <2>2
<1>6. ASSUME NEW j \in 1 .. Len(t)
      PROVE  /\ Purchase(t[j], death)
             /\ t[j].ts >= Instant(day, 0) /\ t[j].ts < Instant(day + 1, 0)
  <2>1. PICK n \in 1 .. Len(tries) : t[j] = tries[n]
    BY <1>5
  <2> QED BY <1>2, <2>1
<1>7. Bought(t, day, death)
  BY <1>5, <1>6 DEF Bought
<1> QED BY <1>4, <1>7

-----------------------------------------------------------------------------
(* The invariant *)

\* The card of an owner who dies on the day died: the closes run so far, the
\* purchases in order, what is owed billed or to be billed, and no purchase of a
\* closed cycle left.
Held(c, died) ==
  /\ c.closes = Closes(died) /\ c.closed <= Len(c.closes)
  /\ c.prior = IF c.closed = 0 THEN 0 ELSE c.closes[c.closed]
  /\ Indexed(c, died) /\ ExactNet(c)
  /\ \A i \in 1 .. Len(UnbilledOf(c)) : UnbilledOf(c)[i].ts >= c.prior
  /\ c.ready \/ (Fresh(c) /\ c.indices = << >> /\ c.closed = 0)

\* Before the spending of day d: everything up to it has been closed and decided.
AtDawn(c, d, w, died) ==
  /\ Sheet(c, c.prior, Instant(d, 0), w, died) /\ c.prior <= Instant(d, 0)
  /\ ~MustClose(c, Instant(d, 0))
  /\ \A i \in 1 .. Len(c.indices) : c.indices[i].ts < Instant(d, 0)

\* Between the spending and the end of day d: no posting is older than the day
\* or the last close, and none is due while a close is.  The closes that were
\* over before the first purchase find the card fresh.
AtDusk(c, d, w, died) ==
  /\ Sheet(c, c.prior, Instant(d, 0), w, died) /\ Sheet(c, c.prior, c.prior, w, died)
  /\ MustClose(c, Instant(d + 1, 0)) => Sheet(c, c.prior, Instant(d + 1, 0), w, died)
  /\ c.prior < Instant(d + 1, 0)
  /\ \A i \in 1 .. Len(c.indices) : c.indices[i].ts < Instant(d + 1, 0)
  /\ MustClose(c, Instant(d, 0)) =>
       Fresh(c) /\ \A i \in 1 .. Len(UnbilledOf(c)) : UnbilledOf(c)[i].ts >= Instant(d, 0)

\* After the window.
AtEnd(c, w, died) ==
  /\ Sheet(c, c.prior, WindowEnd, w, died) /\ c.pending = << >> /\ c.emitted = << >>
  /\ ~MustClose(c, WindowEnd)

\* The clock x days after a payday: so many periods and the days since.
OnClock(x) == since \in 0 .. PayPeriod - 1 /\ \E q \in Int : x = PayPeriod * q + since

\* The clock before the spending of day d.
ClockAt(d) == (d = 0 /\ firstPay = 0 /\ since = 0) \/ OnClock(d - 1 - firstPay)

IndInv ==
  /\ death \in Deaths /\ firstPay \in FirstPaydays
  /\ day \in 0 .. Days /\ since \in Nat /\ through \in 0 .. Days
  /\ baseIdx \in Nat /\ baseIdx <= BaseBefore(day)
  /\ phase \in {"spend", "close", "finish", "done"}
  /\ Held(card, death)
  /\ phase = "spend" => day < Days /\ AtDawn(card, day, through, death) /\ ClockAt(day)
  /\ phase = "close" => day < Days /\ AtDusk(card, day, through, death) /\ OnClock(day - firstPay)
  /\ phase \in {"finish", "done"} => day = Days /\ AtEnd(card, through, death)
  /\ phase # "done" => through = 0 \/ through <= day - LagDays

\* The postings that wait may be later than the sheet says.
LEMMA SheetPending ==
  ASSUME NEW c, NEW lo, NEW low, NEW w, NEW died, Sheet(c, lo, low, w, died), NEW low2,
         \A i \in 1 .. Len(c.pending) : c.pending[i].row.ts >= low2
  PROVE  Sheet(c, lo, low2, w, died)
BY DEF Sheet

LEMMA SheetLow ==
  ASSUME NEW c, NEW lo, NEW low \in Int, NEW w, NEW died, Sheet(c, lo, low, w, died),
         NEW low2 \in Int, low2 <= low
  PROVE  Sheet(c, lo, low2, w, died)
<1>1. c \in Cards
  BY DEF Sheet
<1>2. c.pending \in Seq(Waiting) /\ Len(c.pending) \in Nat
  BY <1>1, CardFields, LenProperties
<1>3. ASSUME NEW i \in 1 .. Len(c.pending) PROVE c.pending[i].row.ts >= low2
  <2>1. c.pending[i] \in Waiting
    BY <1>2, ElementOfSeq
  <2>2. c.pending[i].row.ts \in Int
    BY <2>1 DEF Waiting, AnyRow
  <2>3. c.pending[i].row.ts >= low
    BY DEF Sheet
  <2> QED BY <2>2, <2>3
<1> QED BY <1>3, SheetPending

\* Where the card stands on its ladder: the next close is a close of a day, after
\* the last one, and not longer after it than the session waits.
LEMMA NextCloseIs ==
  ASSUME NEW c, NEW died \in Int, c \in Cards, c.closes = Closes(died),
         c.prior = IF c.closed = 0 THEN 0 ELSE c.closes[c.closed],
         c.closed <= Len(c.closes)
  PROVE  /\ c.prior \in Int /\ c.prior >= 0 /\ c.closed \in Nat /\ Len(c.closes) \in Nat
         /\ c.closed < Len(c.closes) =>
              /\ CloseOn(NextClose(c), died) /\ c.prior < NextClose(c)
              /\ c.prior >= 7 * (DayOf(NextClose(c)) - LagDays)
<1>1. Ladder(c.closes, died) /\ LagDays \in Nat
  BY ClosesAre, Terms
<1>2. PICK N \in Nat : N = Len(c.closes) /\ c.closes \in Seq(Int) /\ \A n \in 1 .. N : c.closes[n] \in Int
  <2>1. c.closes \in Seq(Int)
    BY <1>1 DEF Ladder
  <2> QED BY <2>1, LenProperties, ElementOfSeq
<1>3. PICK k \in Nat : k = c.closed /\ k <= N
  BY <1>2, CardFields
<1>4. ASSUME NEW j \in 1 .. N PROVE CloseOn(c.closes[j], died)
  BY <1>1, <1>2 DEF Ladder, CloseOn
<1>5. ASSUME NEW j \in 1 .. N
      PROVE  c.closes[j] >= 0 /\ c.closes[j] = DayOf(c.closes[j]) * 7 + 5 /\ DayOf(c.closes[j]) \in Nat
  <2>1. PICK x : x = c.closes[j]
    OBVIOUS
  <2>2. CloseOn(x, died)
    BY <1>4, <2>1
  <2>3. x >= 0 /\ x = DayOf(x) * 7 + 5 /\ DayOf(x) \in Nat
    BY <2>2, CloseOnIs
  <2> QED BY <2>1, <2>3
<1>6. c.prior \in Int /\ c.prior >= 0
  <2>1. CASE k = 0
    BY <1>3, <2>1
  <2>2. CASE k # 0
    <3>1. k \in 1 .. N
      BY <1>3, <2>2
    <3>2. c.closes[k] \in Int /\ c.closes[k] >= 0
      BY <1>2, <1>5, <3>1
    <3> QED BY <1>3, <2>2, <3>2
  <2> QED BY <2>1, <2>2
<1>7. ASSUME k < N
      PROVE  /\ CloseOn(NextClose(c), died) /\ c.prior < NextClose(c)
             /\ c.prior >= 7 * (DayOf(NextClose(c)) - LagDays)
  <2>1. k + 1 \in 1 .. N
    BY <1>7
  <2>2. PICK y : y = c.closes[k + 1] /\ y = NextClose(c)
    BY <1>3 DEF NextClose
  <2>3. y \in Int /\ y >= 0 /\ y = DayOf(y) * 7 + 5 /\ DayOf(y) \in Nat
    BY <1>2, <1>5, <2>1, <2>2
  <2>4. CASE k = 0
    <3>0. y = c.closes[1] /\ Len(c.closes) # 0
      <4>1. k + 1 = 1 /\ N # 0
        BY <2>1, <2>4
      <4> QED BY <1>2, <2>2, <4>1
    <3>1. y <= Instant(LagDays, CloseTime)
      BY <1>1, <3>0 DEF Ladder
    <3>2. y <= LagDays * 7 + 5
      BY <3>1 DEF Instant, Ticks, CloseTime
    <3>3. c.prior = 0
      BY <1>3, <2>4
    <3>4. 0 < y /\ 0 >= 7 * (DayOf(y) - LagDays)
      BY <1>1, <2>3, <3>2
    <3>5. CloseOn(y, died)
      BY <1>4, <2>1, <2>2
    <3> QED BY <2>2, <3>3, <3>4, <3>5
  <2>5. CASE k # 0
    <3>1. k \in 1 .. N /\ k \in 1 .. N - 1 /\ k < k + 1
      BY <1>7, <2>5
    <3>2. PICK x : x = c.closes[k] /\ x = c.prior
      BY <1>3, <2>5
    <3>3. x \in Int /\ x = DayOf(x) * 7 + 5 /\ DayOf(x) \in Nat
      BY <1>2, <1>5, <3>1, <3>2
    <3>4. x < y /\ y <= x + Ticks * LagDays
      BY <1>1, <1>2, <2>1, <2>2, <3>1, <3>2 DEF Ladder
    <3>5. x >= 7 * (DayOf(y) - LagDays)
      BY <1>1, <2>3, <3>3, <3>4 DEF Ticks
    <3> QED BY <1>4, <2>1, <2>2, <3>2, <3>4, <3>5
  <2> QED BY <2>4, <2>5
<1> QED BY <1>2, <1>3, <1>6, <1>7

-----------------------------------------------------------------------------
(* The spending of a day *)

\* The card handed the purchases of day d, before the ledger advances.
Handed(c, r, d, w, died) ==
  /\ Sheet(r, c.prior, Instant(d, 0), w, died) /\ Indexed(r, died) /\ ExactNet(r)
  /\ r.closes = c.closes /\ r.closed = c.closed /\ r.prior = c.prior
  /\ r.log = c.log /\ r.pending = c.pending /\ r.inGrace = c.inGrace
  /\ \A i \in 1 .. Len(r.indices) : r.indices[i].ts < Instant(d + 1, 0)
  /\ \A i \in 1 .. Len(UnbilledOf(r)) : UnbilledOf(r)[i].ts >= c.prior
  /\ c.ready => r.ready
  /\ ~c.ready => /\ Fresh(r)
                 /\ \A i \in 1 .. Len(UnbilledOf(r)) : UnbilledOf(r)[i].ts >= Instant(d, 0)
                 /\ r.ready \/ r.indices = << >>

LEMMA HandedIs ==
  ASSUME NEW c, NEW w \in Int, death \in Int, day \in 0 .. Days - 1,
         baseIdx \in Nat, baseIdx <= BaseBefore(day),
         Held(c, death), AtDawn(c, day, w, death), NEW tries \in Tries,
         NEW opened, opened = ReplayBase(c),
         NEW settled, settled = Settle(opened, Emit(opened, tries)),
         NEW r, r = [IngestPurchases(settled.c, settled.kept)
                       EXCEPT !.ready = @ \/ settled.kept # << >>]
  PROVE  Handed(c, r, day, w, death)
<1> DEFINE D == Instant(day, 0)
<1>1. day \in Int /\ D \in Int /\ D = 7 * day /\ Instant(day + 1, 0) = D + 7
  <2>1. day \in Int
    BY Terms
  <2> QED BY <2>1 DEF Instant, Ticks
<1> HIDE DEF D
<1>2. Sheet(c, c.prior, D, w, death) /\ c.prior <= D /\ \A i \in 1 .. Len(c.indices) : c.indices[i].ts < D
  BY DEF AtDawn, D
<1>3. Sheet(opened, c.prior, D, w, death) /\ Drawn(c, opened, << >>) /\ opened.indices = c.indices
  BY <1>2, ReplayIs
<1>4. Bought(Emit(opened, tries), day, death)
  BY EmitIs
<1>5. PICK b, kept : b = settled.c /\ kept = settled.kept
  OBVIOUS
<1>6. Sheet(b, c.prior, D, w, death) /\ Drawn(opened, b, kept) /\ Bought(kept, day, death)
  BY <1>1, <1>3, <1>4, <1>5, SettleIs
<1>7. SameSession(c, opened) /\ SameSession(opened, b)
  BY <1>3, <1>6 DEF Drawn
<1>8. /\ b.indices = c.indices /\ b.cursor = c.cursor /\ b.closes = c.closes /\ b.closed = c.closed
      /\ b.prior = c.prior /\ b.balance = c.balance /\ b.ready = c.ready
  BY <1>7 DEF SameSession
<1>9. b.deferred = c.deferred /\ b.pending = c.pending /\ b.emitted = c.emitted /\ b.inGrace = c.inGrace
  BY <1>3, <1>6 DEF Drawn
<1>10. c \in Cards /\ b \in Cards /\ opened \in Cards
  BY <1>2, <1>3, <1>6 DEF Sheet
<1>11. kept \in Seq(AnyRow) /\ Net(kept) \in Int
  <2>1. kept \in Seq(AnyRow)
    BY <1>6 DEF Bought
  <2> QED BY <2>1, NetIs
<1>12. b.owed + Net(kept) = c.owed /\ b.owed \in Int /\ c.owed \in Int
  <2>1. opened.owed + Net(<< >>) = c.owed /\ b.owed + Net(kept) = opened.owed
    BY <1>3, <1>6 DEF Drawn
  <2>2. opened.owed \in Int /\ b.owed \in Int /\ c.owed \in Int
    BY <1>10, CardFields
  <2> QED BY <2>1, <2>2, NetNone
<1>13. Indexed(b, death)
  BY <1>8 DEF Held, Indexed
<1>14. UnbilledOf(b) = UnbilledOf(c)
  BY <1>8 DEF UnbilledOf
<1>15. PICK e : e = IngestPurchases(b, kept)
  OBVIOUS
<1>16. /\ e = [b EXCEPT !.indices = b.indices \o ByTime(kept)]
       /\ e \in Cards /\ Indexed(e, death)
       /\ Net(UnbilledOf(e)) = Net(UnbilledOf(c)) + Net(kept)
       /\ \A i \in 1 .. Len(e.indices) : e.indices[i].ts < Instant(day + 1, 0)
       /\ \A i \in 1 .. Len(UnbilledOf(e)) :
            \/ UnbilledOf(e)[i].ts >= D
            \/ \E j \in 1 .. Len(UnbilledOf(c)) : UnbilledOf(e)[i] = UnbilledOf(c)[j]
       /\ c.indices = << >> =>
            \A i \in 1 .. Len(UnbilledOf(e)) : UnbilledOf(e)[i].ts >= D
       /\ c.indices = << >> /\ kept = << >> => e.indices = << >>
  <2>1. \A i \in 1 .. Len(b.indices) : b.indices[i].ts < Instant(day, 0)
    BY <1>2, <1>8 DEF D
  <2>2. LET i2 == IngestPurchases(b, kept)
        IN  /\ i2 = [b EXCEPT !.indices = b.indices \o ByTime(kept)]
            /\ i2 \in Cards /\ Indexed(i2, death)
            /\ Net(UnbilledOf(i2)) = Net(UnbilledOf(b)) + Net(kept)
            /\ \A i \in 1 .. Len(i2.indices) : i2.indices[i].ts < Instant(day + 1, 0)
            /\ \A i \in 1 .. Len(UnbilledOf(i2)) :
                 \/ UnbilledOf(i2)[i].ts >= Instant(day, 0)
                 \/ \E j \in 1 .. Len(UnbilledOf(b)) : UnbilledOf(i2)[i] = UnbilledOf(b)[j]
            /\ b.indices = << >> =>
                 \A i \in 1 .. Len(UnbilledOf(i2)) : UnbilledOf(i2)[i].ts >= Instant(day, 0)
            /\ b.indices = << >> /\ kept = << >> => i2.indices = << >>
    BY ONLY <1>1, <1>6, <1>10, <1>13, <2>1, IngestIs, SMTT(20)
  <2>3. /\ e = [b EXCEPT !.indices = b.indices \o ByTime(kept)]
        /\ e \in Cards /\ Indexed(e, death)
        /\ \A i \in 1 .. Len(e.indices) : e.indices[i].ts < Instant(day + 1, 0)
    BY ONLY <1>15, <2>2
  <2>4. Net(UnbilledOf(e)) = Net(UnbilledOf(c)) + Net(kept)
    BY ONLY <1>14, <1>15, <2>2
  <2>5. \A i \in 1 .. Len(UnbilledOf(e)) :
          \/ UnbilledOf(e)[i].ts >= D
          \/ \E j \in 1 .. Len(UnbilledOf(c)) : UnbilledOf(e)[i] = UnbilledOf(c)[j]
    BY ONLY <1>14, <1>15, <2>2 DEF D
  <2>6. /\ c.indices = << >> => \A i \in 1 .. Len(UnbilledOf(e)) : UnbilledOf(e)[i].ts >= D
        /\ c.indices = << >> /\ kept = << >> => e.indices = << >>
    BY ONLY <1>8, <1>15, <2>2 DEF D
  <2> QED BY ONLY <2>3, <2>4, <2>5, <2>6
<1>17. r = [e EXCEPT !.ready = @ \/ kept # << >>]
  BY <1>5, <1>15
<1>18. /\ e.cursor = b.cursor /\ e.closes = b.closes /\ e.closed = b.closed
       /\ e.prior = b.prior /\ e.balance = b.balance /\ e.deferred = b.deferred
       /\ e.pending = b.pending /\ e.ready = b.ready /\ e.emitted = b.emitted
       /\ e.inGrace = b.inGrace /\ e.cash = b.cash /\ e.owed = b.owed
  BY <1>10, <1>16 DEF Cards
<1>19. /\ r.indices = e.indices /\ r.cursor = e.cursor /\ r.closes = e.closes /\ r.closed = e.closed
       /\ r.prior = e.prior /\ r.balance = e.balance /\ r.deferred = e.deferred
       /\ r.pending = e.pending /\ r.emitted = e.emitted
       /\ r.inGrace = e.inGrace /\ r.cash = e.cash /\ r.owed = e.owed
  BY <1>16, <1>17 DEF Cards
<1>20. (r.ready <=> (e.ready \/ kept # << >>)) /\ r.ready \in BOOLEAN
  BY <1>16, <1>17 DEF Cards
<1>21. r \in Cards
  BY <1>16, <1>17 DEF Cards
<1>22. Sheet(r, c.prior, D, w, death)
  <2>1. /\ r.cash = b.cash /\ r.owed = b.owed /\ r.deferred = b.deferred
        /\ r.emitted = b.emitted /\ r.pending = b.pending
    BY <1>18, <1>19
  <2>2. Sheet(b, c.prior, D, w, death)
    BY <1>6
  <2> QED BY ONLY <1>21, <2>1, <2>2 DEF Sheet
<1>23. Indexed(r, death)
  BY <1>16, <1>19 DEF Indexed
<1>24. UnbilledOf(r) = UnbilledOf(e)
  BY <1>19 DEF UnbilledOf
<1>25. ExactNet(r)
  <2>1. c.owed + c.balance + Net(UnbilledOf(c)) + Net(c.deferred) = 0
    BY DEF Held, ExactNet
  <2>2. c.cursor <= Len(c.indices)
    BY DEF Held, Indexed
  <2>3. UnbilledOf(c) \in Seq(AnyRow) /\ c.deferred \in Seq(AnyRow) /\ c.balance \in Int
    BY <1>10, <2>2, UnbilledIs, CardFields
  <2>4. Net(UnbilledOf(c)) \in Int /\ Net(c.deferred) \in Int
    BY <2>3, NetIs
  <2>5. Net(UnbilledOf(r)) = Net(UnbilledOf(c)) + Net(kept)
    BY <1>16, <1>24
  <2>6. r.owed = b.owed /\ r.balance = c.balance /\ r.deferred = c.deferred
    BY <1>8, <1>9, <1>18, <1>19
  <2>7. b.owed + c.balance + (Net(UnbilledOf(c)) + Net(kept)) + Net(c.deferred) = 0
    <3>1. PICK u \in Int : u = Net(UnbilledOf(c))
      BY <2>4
    <3>2. PICK v \in Int : v = Net(c.deferred)
      BY <2>4
    <3>3. PICK m \in Int : m = Net(kept)
      BY <1>11
    <3>4. b.owed + m = c.owed /\ c.owed + c.balance + u + v = 0
      BY <1>12, <2>1, <3>1, <3>2, <3>3
    <3>5. b.owed + c.balance + (u + m) + v = 0
      BY <1>12, <2>3, <3>4
    <3> QED BY <3>1, <3>2, <3>3, <3>5
  <2> QED BY <2>5, <2>6, <2>7 DEF ExactNet
<1>26. \A i \in 1 .. Len(UnbilledOf(r)) : UnbilledOf(r)[i].ts >= c.prior
  <2> SUFFICES ASSUME NEW i \in 1 .. Len(UnbilledOf(r)) PROVE UnbilledOf(r)[i].ts >= c.prior
    OBVIOUS
  <2>1. PICK x : x = UnbilledOf(r)[i]
    OBVIOUS
  <2>2. CASE x.ts >= D
    <3>1. r.cursor <= Len(r.indices)
      BY <1>23 DEF Indexed
    <3>2. UnbilledOf(r) \in Seq(AnyRow)
      BY <1>21, <3>1, UnbilledIs
    <3>3. x \in AnyRow
      BY <2>1, <3>2, ElementOfSeq
    <3>4. x.ts \in Int /\ c.prior \in Int
      BY <1>10, <3>3, CardFields DEF AnyRow
    <3> QED BY <1>1, <1>2, <2>1, <2>2, <3>4
  <2>3. CASE \E j \in 1 .. Len(UnbilledOf(c)) : x = UnbilledOf(c)[j]
    BY <2>1, <2>3 DEF Held
  <2> QED BY <1>16, <1>24, <2>1, <2>2, <2>3
<1>27. ASSUME ~c.ready
       PROVE  /\ Fresh(r)
              /\ \A i \in 1 .. Len(UnbilledOf(r)) : UnbilledOf(r)[i].ts >= D
              /\ r.ready \/ r.indices = << >>
  <2>1. Fresh(c) /\ c.indices = << >>
    BY <1>27 DEF Held
  <2>2. Fresh(r)
    BY <1>8, <1>9, <1>18, <1>19, <2>1 DEF Fresh
  <2>3. r.ready \/ r.indices = << >>
    BY <1>16, <1>19, <1>20, <2>1
  <2> QED BY <1>16, <1>24, <2>1, <2>2, <2>3
<1>28. c.ready => r.ready
  BY <1>8, <1>18, <1>20
<1>29. r.closes = c.closes /\ r.closed = c.closed /\ r.prior = c.prior
  BY <1>8, <1>18, <1>19
<1>29a. r.log = c.log /\ r.pending = c.pending /\ r.inGrace = c.inGrace
  <2>1. e.log = b.log /\ r.log = e.log
    BY <1>10, <1>16, <1>17 DEF Cards
  <2>2. b.log = c.log
    BY <1>3, <1>6 DEF Drawn
  <2> QED BY <1>9, <1>18, <1>19, <2>1, <2>2
<1>30. \A i \in 1 .. Len(r.indices) : r.indices[i].ts < Instant(day + 1, 0)
  BY <1>16, <1>19
<1> QED BY <1>22, <1>23, <1>25, <1>26, <1>27, <1>28, <1>29, <1>29a, <1>30 DEF Handed, D

\* The ledger decides what is due: the card is as it should be at dusk.
LEMMA SpendIs ==
  ASSUME NEW c, NEW w \in Int, NEW died \in Int, NEW d \in 0 .. Days - 1, 7 * w <= Instant(d, 0),
         Held(c, died), AtDawn(c, d, w, died), NEW r, Handed(c, r, d, w, died),
         NEW n, n = AdvanceLedgerTo(r, Instant(d + 1, 0))
  PROVE  Held(n, died) /\ AtDusk(n, d, w, died)
<1> DEFINE D == Instant(d, 0)
<1>1. d \in Int /\ D \in Int /\ Instant(d + 1, 0) = D + 7
  BY Terms DEF Instant, Ticks
<1>2. Sheet(r, c.prior, D, w, died) /\ c.prior <= D
  BY DEF Handed, AtDawn
<1>3. c \in Cards /\ r \in Cards /\ c.prior \in Int
  <2>1. c \in Cards /\ r \in Cards
    BY <1>2 DEF Sheet, AtDawn
  <2> QED BY <2>1, CardFields
<1> HIDE DEF D
<1>4. /\ Sheet(n, c.prior, D, w, died) /\ Posts(r, n)
      /\ \A i \in 1 .. Len(n.pending) : n.pending[i].row.ts >= Instant(d + 1, 0)
  <2>1. Instant(d + 1, 0) \in Int /\ 7 * w <= D
    BY <1>1 DEF D
  <2> QED BY <1>1, <1>2, <1>3, <2>1, AdvanceIs
<1>5. /\ n.indices = r.indices /\ n.cursor = r.cursor /\ n.closes = c.closes /\ n.closed = c.closed
      /\ n.prior = c.prior /\ n.balance = r.balance /\ n.ready = r.ready
  BY <1>4 DEF Posts, SameSession, Handed
<1>6. UnbilledOf(n) = UnbilledOf(r)
  BY <1>5 DEF UnbilledOf
<1>7. n \in Cards
  BY <1>4 DEF Sheet
<1>8. ASSUME ~c.ready PROVE n = r
  <2>1. r.pending = << >>
    BY <1>8 DEF Handed, Fresh
  <2>2. Instant(d + 1, 0) \in Int
    BY <1>1
  <2> QED BY <1>3, <2>1, <2>2, AdvanceNothing
<1>9. Indexed(n, died)
  BY <1>5 DEF Indexed, Handed
<1>10. ExactNet(n)
  <2>1. r.owed + r.balance + Net(UnbilledOf(r)) + Net(r.deferred) = 0
    BY DEF Handed, ExactNet
  <2>2. r.cursor <= Len(r.indices)
    BY DEF Handed, Indexed
  <2>3. UnbilledOf(r) \in Seq(AnyRow) /\ r.deferred \in Seq(AnyRow) /\ r.balance \in Int /\ r.owed \in Int
    BY <1>3, <2>2, UnbilledIs, CardFields
  <2>4. n.deferred \in Seq(AnyRow) /\ n.owed \in Int
    BY <1>7, CardFields
  <2>5. Net(UnbilledOf(r)) \in Int /\ Net(r.deferred) \in Int /\ Net(n.deferred) \in Int
    BY <2>3, <2>4, NetIs
  <2>6. n.owed + Net(n.deferred) = r.owed + Net(r.deferred)
    BY <1>4 DEF Posts
  <2>7. n.owed + r.balance + Net(UnbilledOf(r)) + Net(n.deferred) = 0
    <3>1. PICK u \in Int : u = Net(UnbilledOf(r))
      BY <2>5
    <3>2. PICK v \in Int : v = Net(r.deferred)
      BY <2>5
    <3>3. PICK m \in Int : m = Net(n.deferred)
      BY <2>5
    <3>4. n.owed + m = r.owed + v /\ r.owed + r.balance + u + v = 0
      BY <2>1, <2>6, <3>1, <3>2, <3>3
    <3>5. r.owed \in Int /\ r.balance \in Int /\ n.owed \in Int
      BY <2>3, <2>4
    <3>6. n.owed + r.balance + u + m = 0
      BY <3>4, <3>5
    <3> QED BY <3>1, <3>3, <3>6
  <2> QED BY <1>5, <1>6, <2>7 DEF ExactNet
<1>11. Held(n, died)
  <2>1. n.closes = Closes(died) /\ n.closed <= Len(n.closes)
        /\ n.prior = IF n.closed = 0 THEN 0 ELSE n.closes[n.closed]
    BY <1>5 DEF Held
  <2>2. \A i \in 1 .. Len(UnbilledOf(n)) : UnbilledOf(n)[i].ts >= n.prior
    BY <1>5, <1>6 DEF Handed
  <2>3. n.ready \/ (Fresh(n) /\ n.indices = << >> /\ n.closed = 0)
    <3>1. CASE c.ready
      BY <1>5, <3>1 DEF Handed
    <3>2. CASE ~c.ready
      <4>1. c.closed = 0
        BY <3>2 DEF Held
      <4>2. Fresh(r) /\ (r.ready \/ r.indices = << >>)
        BY <3>2 DEF Handed
      <4> QED BY <1>5, <1>8, <3>2, <4>1, <4>2
    <3> QED BY <3>1, <3>2
  <2> QED BY <1>9, <1>10, <2>1, <2>2, <2>3 DEF Held
<1>12. Sheet(n, n.prior, D, w, died)
  BY <1>4, <1>5
<1>13. Sheet(n, n.prior, D + 7, w, died)
  BY <1>1, <1>4, <1>12, SheetPending
<1>14. Sheet(n, n.prior, n.prior, w, died) /\ n.prior < D + 7
  <2>1. n.prior \in Int /\ n.prior <= D + 7 /\ n.prior < D + 7 /\ D + 7 \in Int
    BY <1>1, <1>2, <1>3, <1>5
  <2> QED BY <1>13, <2>1, SheetLow
<1>15. ASSUME MustClose(n, D) PROVE Fresh(n) /\ \A i \in 1 .. Len(UnbilledOf(n)) : UnbilledOf(n)[i].ts >= D
  <2>1. ~MustClose(c, D)
    BY DEF AtDawn, D
  <2>2. n.closed < Len(n.closes) /\ NextClose(n) < Min({D, WindowEnd}) /\ NextClose(n) = NextClose(c)
    BY <1>5, <1>15 DEF MustClose, NextClose
  <2>3. ~c.ready
    BY <1>5, <2>1, <2>2 DEF MustClose
  <2> QED BY <1>6, <1>8, <2>3 DEF Handed, D
<1>16. \A i \in 1 .. Len(n.indices) : n.indices[i].ts < D + 7
  BY <1>1, <1>5 DEF Handed
<1> QED BY <1>1, <1>11, <1>12, <1>13, <1>14, <1>15, <1>16 DEF AtDusk, D

-----------------------------------------------------------------------------
(* The closes and the end of a day *)

LEMMA MustCloseIs ==
  ASSUME NEW c, NEW bound \in Int, NextClose(c) \in Int
  PROVE  MustClose(c, bound) <=>
           /\ c.ready /\ c.closed < Len(c.closes)
           /\ NextClose(c) < bound /\ NextClose(c) < WindowEnd
<1>1. PICK e \in Int : e = WindowEnd
  BY Terms
<1>2. PICK x \in Int : x = NextClose(c)
  OBVIOUS
<1>3. Min({bound, e}) = IF bound <= e THEN bound ELSE e
  BY <1>1, MinPair
<1>4. x < Min({bound, e}) <=> x < bound /\ x < e
  <2>1. x < (IF bound <= e THEN bound ELSE e) <=> x < bound /\ x < e
    BY <1>1, <1>2
  <2> QED BY <1>3, <2>1
<1> QED BY <1>1, <1>2, <1>4 DEF MustClose

\* Where a card stands at its next close: everything of the cycle is in, and a
\* close that was over before the day finds the card fresh.
LEMMA CloseStands ==
  ASSUME NEW c, NEW w \in Nat, NEW died \in Int, NEW d \in 0 .. Days - 1, w = 0 \/ w <= d - LagDays,
         Held(c, died), AtDusk(c, d, w, died), MustClose(c, Instant(d + 1, 0)),
         NEW close, close = NextClose(c)
  PROVE  /\ c \in Cards /\ c.prior \in Int /\ CloseOn(close, died) /\ c.prior < close
         /\ Sheet(c, c.prior, close, w, died) /\ InOpenCycle(c, c.prior, w)
         /\ close < Instant(d, 0) =>
              /\ Fresh(c)
              /\ \A i \in c.cursor + 1 .. Len(c.indices) :
                   c.indices[i].ts \in Int /\ c.indices[i].ts >= Instant(d, 0)
<1> DEFINE D == Instant(d, 0)
<1>1. d \in Int /\ D \in Int /\ D = 7 * d /\ Instant(d + 1, 0) = D + 7 /\ D >= 0
  BY Terms DEF Instant, Ticks
<1>2. c \in Cards /\ LagDays \in Nat
  BY Terms DEF AtDusk, Sheet
<1>3. /\ c.closes = Closes(died) /\ c.closed <= Len(c.closes) /\ Indexed(c, died) /\ ExactNet(c)
      /\ c.prior = IF c.closed = 0 THEN 0 ELSE c.closes[c.closed]
  BY DEF Held
<1>4. c.prior \in Int /\ c.prior >= 0 /\ c.closed \in Nat /\ Len(c.closes) \in Nat
  BY <1>2, <1>3, NextCloseIs
<1>5. close = NextClose(c)
  OBVIOUS
<1>6. c.ready /\ c.closed < Len(c.closes)
  BY DEF MustClose
<1>7. CloseOn(close, died) /\ c.prior < close /\ c.prior >= 7 * (DayOf(close) - LagDays)
  BY <1>2, <1>3, <1>5, <1>6, NextCloseIs
<1>8. close \in Int /\ close = DayOf(close) * 7 + 5 /\ DayOf(close) \in Nat
  BY <1>7, CloseOnIs
<1>9. close < D + 7 /\ close < WindowEnd
  BY <1>1, <1>5, <1>8, MustCloseIs
<1>10. MustClose(c, D) <=> close < D
  BY <1>1, <1>5, <1>6, <1>8, <1>9, MustCloseIs
<1> HIDE DEF D
<1>11. Sheet(c, c.prior, D + 7, w, died)
  BY <1>1 DEF AtDusk
<1>12. Sheet(c, c.prior, close, w, died)
  <2>1. close <= D + 7 /\ D + 7 \in Int
    BY <1>1, <1>8, <1>9
  <2> QED BY <1>8, <1>11, <2>1, SheetLow
<1>13. close < D => Fresh(c) /\ \A i \in 1 .. Len(UnbilledOf(c)) : UnbilledOf(c)[i].ts >= D
  BY <1>10 DEF AtDusk, D
<1>14. close >= D => DayOf(close) = d
  BY <1>1, <1>8, <1>9
<1>15. PICK lo \in Int : /\ lo >= 7 * w
                         /\ close < D => lo = D
                         /\ \A i \in 1 .. Len(UnbilledOf(c)) : UnbilledOf(c)[i].ts >= lo
  <2>1. CASE close < D
    <3>1. D >= 7 * w
      BY <1>1, <1>2
    <3> QED BY <1>1, <1>13, <2>1, <3>1
  <2>2. CASE close >= D
    <3>1. c.prior >= 7 * (d - LagDays)
      BY <1>7, <1>14, <2>2
    <3>2. c.prior >= 7 * w
      BY <1>1, <1>2, <1>4, <3>1
    <3>3. \A i \in 1 .. Len(UnbilledOf(c)) : UnbilledOf(c)[i].ts >= c.prior
      BY DEF Held
    <3>4. ~(close < D)
      BY <1>1, <1>8, <2>2
    <3> QED BY <1>4, <3>2, <3>3, <3>4
  <2> QED BY <1>1, <1>8, <2>1, <2>2
<1>16. ASSUME NEW i \in c.cursor + 1 .. Len(c.indices)
       PROVE  /\ c.indices[i].ts \in Int /\ c.indices[i].ts >= c.prior /\ c.indices[i].ts >= lo
              /\ DayOf(c.indices[i].ts) >= w
  <2>1. c.cursor <= Len(c.indices)
    BY <1>3 DEF Indexed
  <2>2. /\ c.cursor \in Nat /\ Len(c.indices) \in Nat /\ c.indices \in Seq(AnyRow)
        /\ Len(UnbilledOf(c)) = Len(c.indices) - c.cursor
        /\ \A m \in 1 .. Len(c.indices) - c.cursor : UnbilledOf(c)[m] = c.indices[c.cursor + m]
    BY <1>2, <2>1, UnbilledIs
  <2>3. PICK m : m = i - c.cursor
    OBVIOUS
  <2>4. m \in 1 .. Len(c.indices) - c.cursor /\ c.cursor + m = i /\ i \in 1 .. Len(c.indices)
    <3>1. c.cursor \in Nat /\ Len(c.indices) \in Nat
      BY <2>2
    <3> QED BY <2>3, <3>1, SMTT(20)
  <2>5. PICK x : x = c.indices[i]
    OBVIOUS
  <2>6. x = UnbilledOf(c)[m] /\ m \in 1 .. Len(UnbilledOf(c))
    BY <2>2, <2>4, <2>5
  <2>7. x.ts >= c.prior
    BY <2>6 DEF Held
  <2>8. x.ts >= lo
    BY <1>15, <2>6
  <2>9. x.ts \in Int
    <3>1. x \in AnyRow
      BY <2>2, <2>4, <2>5, ElementOfSeq
    <3> QED BY <3>1 DEF AnyRow
  <2>10. DayOf(x.ts) >= w
    <3>1. x.ts >= 7 * w
      BY <1>15, <2>8, <2>9
    <3> QED BY <2>9, <3>1 DEF DayOf, Ticks
  <2> QED BY <2>5, <2>7, <2>8, <2>9, <2>10
<1>17. InOpenCycle(c, c.prior, w)
  BY <1>16 DEF InOpenCycle
<1> QED BY <1>2, <1>4, <1>7, <1>12, <1>13, <1>15, <1>16, <1>17 DEF D

\* One close: the card stays as it should be at dusk.
LEMMA CloseIs ==
  ASSUME NEW c, NEW w \in Nat, NEW died \in Int, NEW d \in 0 .. Days - 1, w = 0 \/ w <= d - LagDays,
         Held(c, died), AtDusk(c, d, w, died), MustClose(c, Instant(d + 1, 0)),
         NEW disputes \in Disputes(c, NextClose(c)),
         NEW s, s = Statement(c, NextClose(c), disputes), NEW pay \in Payments(s, NextClose(c)),
         NEW n, n = CloseCycle(s, pay)
  PROVE  Held(n, died) /\ AtDusk(n, d, w, died)
<1> DEFINE D == Instant(d, 0)
<1>1. d \in Int /\ D \in Int /\ D = 7 * d /\ Instant(d + 1, 0) = D + 7 /\ D >= 0
  BY Terms DEF Instant, Ticks
<1>2. c \in Cards /\ LagDays \in Nat
  BY Terms DEF AtDusk, Sheet
<1>3. /\ c.closes = Closes(died) /\ c.closed <= Len(c.closes) /\ Indexed(c, died) /\ ExactNet(c)
      /\ c.prior = IF c.closed = 0 THEN 0 ELSE c.closes[c.closed]
  BY DEF Held
<1>4. c.prior \in Int /\ c.prior >= 0 /\ c.closed \in Nat /\ Len(c.closes) \in Nat
  BY <1>2, <1>3, NextCloseIs
<1>5. PICK close : close = NextClose(c)
  OBVIOUS
<1>6. c.ready /\ c.closed < Len(c.closes)
  BY DEF MustClose
<1>7. /\ CloseOn(close, died) /\ c.prior < close
      /\ Sheet(c, c.prior, close, w, died) /\ InOpenCycle(c, c.prior, w)
      /\ close < D =>
           /\ Fresh(c)
           /\ \A i \in c.cursor + 1 .. Len(c.indices) :
                c.indices[i].ts \in Int /\ c.indices[i].ts >= D
  BY <1>5, CloseStands
<1>8. close \in Int /\ close = DayOf(close) * 7 + 5 /\ DayOf(close) \in Nat
  BY <1>7, CloseOnIs
<1>9. close < D + 7 /\ close < WindowEnd
  BY <1>1, <1>5, <1>8, MustCloseIs
<1> HIDE DEF D
<1>14. close >= D => DayOf(close) = d
  BY <1>1, <1>8, <1>9
<1>18. Closed(c, n, close, w, died)
  BY <1>3, <1>5, <1>7, CloseCycleIs
<1>19. close < D => Fresh(n)
  <2> SUFFICES ASSUME close < D PROVE Fresh(n)
    OBVIOUS
  <2>1. Fresh(c)
    BY <1>7
  <2>2. ASSUME NEW i \in c.cursor + 1 .. Len(c.indices) PROVE c.indices[i].ts >= close
    <3>1. PICK x \in Int : x = c.indices[i].ts /\ x >= D
      BY <1>7
    <3>2. close < D /\ D \in Int
      BY <1>1
    <3>3. x >= close
      BY ONLY <1>8, <3>1, <3>2
    <3> QED BY <3>1, <3>3
  <2> QED BY <1>2, <1>3, <1>5, <1>8, <2>1, <2>2, FreshClose
<1>20. n.closes = c.closes /\ n.closed = c.closed + 1 /\ n.prior = close /\ n.ready = c.ready
  BY <1>18 DEF Closed
<1>21. Sheet(n, close, close, w, died) /\ Indexed(n, died) /\ ExactNet(n)
  BY <1>18 DEF Closed
<1>22. \A i \in 1 .. Len(UnbilledOf(n)) :
         \E j \in c.cursor + 1 .. Len(c.indices) :
           UnbilledOf(n)[i] = c.indices[j] /\ c.indices[j].ts >= close
  BY <1>18 DEF Closed
<1>23. /\ n.closed <= Len(n.closes)
       /\ n.prior = IF n.closed = 0 THEN 0 ELSE n.closes[n.closed]
  <2>1. c.closed + 1 <= Len(c.closes) /\ c.closed + 1 # 0
    BY <1>4, <1>6
  <2> QED BY <1>5, <1>20, <2>1 DEF NextClose
<1>24. Held(n, died)
  <2>1. \A i \in 1 .. Len(UnbilledOf(n)) : UnbilledOf(n)[i].ts >= n.prior
    BY <1>20, <1>22
  <2> QED BY <1>3, <1>6, <1>20, <1>21, <1>23, <2>1 DEF Held
<1>25. Fresh(n) => \A low \in Int : Sheet(n, close, low, w, died)
  <2>1. Fresh(n) => Len(n.pending) = 0
    BY EmptySeq DEF Fresh
  <2> QED BY <1>21, <2>1, SheetPending
<1>26. Sheet(n, close, D, w, died)
  <2>1. CASE close < D
    BY <1>1, <1>19, <1>25, <2>1
  <2>2. CASE close >= D
    BY <1>1, <1>8, <1>21, <2>2, SheetLow
  <2> QED BY <1>1, <1>8, <2>1, <2>2
<1>27. ASSUME n.closed < Len(n.closes) PROVE NextClose(n) \in Int /\ (close >= D => NextClose(n) >= D + 7)
  <2>1. n \in Cards
    BY <1>21 DEF Sheet
  <2>2. n.closes = Closes(died)
    BY <1>3, <1>20
  <2>3. PICK y : y = NextClose(n)
    OBVIOUS
  <2>4. CloseOn(y, died) /\ close < y
    BY <1>20, <1>23, <1>27, <2>1, <2>2, <2>3, NextCloseIs
  <2>5. y \in Int /\ y = DayOf(y) * 7 + 5 /\ DayOf(y) \in Nat
    BY <2>4, CloseOnIs
  <2>6. close >= D => y >= D + 7
    <3> SUFFICES ASSUME close >= D PROVE y >= D + 7
      OBVIOUS
    <3>1. close = d * 7 + 5
      BY <1>8, <1>14
    <3> QED BY <1>1, <2>4, <2>5, <3>1
  <2> QED BY <2>3, <2>5, <2>6
<1>28. ASSUME MustClose(n, D + 7) PROVE close < D
  <2>1. n.closed < Len(n.closes) /\ NextClose(n) \in Int
    BY <1>27, <1>28 DEF MustClose
  <2>2. NextClose(n) < D + 7
    <3>1. D + 7 \in Int
      BY <1>1
    <3> QED BY <1>28, <2>1, <3>1, MustCloseIs
  <2>3. PICK y \in Int : y = NextClose(n)
    BY <2>1
  <2> QED BY <1>1, <1>8, <1>27, <2>1, <2>2, <2>3
<1>29. ASSUME MustClose(n, D) PROVE close < D
  <2>1. n.closed < Len(n.closes) /\ NextClose(n) \in Int
    BY <1>27, <1>29 DEF MustClose
  <2>2. NextClose(n) < D
    BY <1>1, <1>29, <2>1, MustCloseIs
  <2>3. PICK y \in Int : y = NextClose(n)
    BY <2>1
  <2> QED BY <1>1, <1>8, <1>27, <2>1, <2>2, <2>3
<1>30. MustClose(n, D + 7) => Sheet(n, close, D + 7, w, died)
  <2>1. D + 7 \in Int
    BY <1>1
  <2> QED BY <1>19, <1>25, <1>28, <2>1
<1>31. ASSUME MustClose(n, D)
       PROVE  Fresh(n) /\ \A i \in 1 .. Len(UnbilledOf(n)) : UnbilledOf(n)[i].ts >= D
  <2>1. close < D /\ Fresh(n)
    BY <1>19, <1>29, <1>31
  <2> QED BY <1>7, <1>22, <2>1
<1>32. \A i \in 1 .. Len(n.indices) : n.indices[i].ts < D + 7
  <2>1. \A i \in 1 .. Len(c.indices) : c.indices[i].ts < D + 7
    BY <1>1 DEF AtDusk
  <2> QED BY <1>18, <2>1 DEF Closed
<1> QED BY <1>1, <1>9, <1>20, <1>21, <1>24, <1>26, <1>30, <1>31, <1>32 DEF AtDusk, D

\* The end of a day: what is due has been decided, the rows may be taken.
LEMMA DawnIs ==
  ASSUME NEW c, NEW w \in Int, NEW died \in Int, NEW d \in 0 .. Days - 1, 7 * w <= Instant(d, 0),
         Held(c, died), AtDusk(c, d, w, died), ~MustClose(c, Instant(d + 1, 0)),
         NEW posted, posted = AdvanceLedgerTo(c, Instant(d + 1, 0)),
         NEW taken, taken = [posted EXCEPT !.emitted = << >>],
         NEW n, NEW v, (n = posted /\ v = w) \/ n = taken
  PROVE  /\ Held(n, died) /\ AtDawn(n, d + 1, v, died)
         /\ n = taken => n.emitted = << >>
<1> DEFINE D == Instant(d, 0)
<1>1. d \in Int /\ D \in Int /\ Instant(d + 1, 0) = D + 7
  <2>1. d \in Int
    BY Terms
  <2> QED BY <2>1 DEF Instant, Ticks
<1>2. c \in Cards
  BY DEF AtDusk, Sheet
<1>3. c.prior \in Int /\ c.prior < D + 7
  BY <1>1, <1>2, CardFields DEF AtDusk
<1> HIDE DEF D
<1>4. PICK low \in Int : D <= low /\ c.prior <= low /\ Sheet(c, c.prior, low, w, died)
  <2>1. Sheet(c, c.prior, D, w, died) /\ Sheet(c, c.prior, c.prior, w, died)
    BY DEF AtDusk, D
  <2>2. CASE c.prior <= D
    BY <1>1, <1>3, <2>1, <2>2
  <2>3. CASE D <= c.prior
    BY <1>1, <1>3, <2>1, <2>3
  <2> QED BY <1>1, <1>3, <2>2, <2>3
<1>5. /\ Sheet(posted, c.prior, low, w, died) /\ Posts(c, posted)
      /\ \A i \in 1 .. Len(posted.pending) : posted.pending[i].row.ts >= D + 7
  <2>1. PICK bound \in Int : bound = Instant(d + 1, 0) /\ bound = D + 7
    BY <1>1
  <2>2. 7 * w <= low
    BY <1>1, <1>4 DEF D
  <2>3. /\ Sheet(AdvanceLedgerTo(c, bound), c.prior, low, w, died)
        /\ Posts(c, AdvanceLedgerTo(c, bound))
        /\ \A i \in 1 .. Len(AdvanceLedgerTo(c, bound).pending) :
             AdvanceLedgerTo(c, bound).pending[i].row.ts >= bound
    BY <1>3, <1>4, <2>2, AdvanceIs
  <2>4. posted = AdvanceLedgerTo(c, bound)
    BY <2>1
  <2> QED BY <2>1, <2>3, <2>4
<1>6. Sheet(posted, c.prior, D + 7, w, died) /\ posted \in Cards
  BY <1>5, SheetPending DEF Sheet
<1>7. /\ n \in Cards
      /\ n.indices = posted.indices /\ n.cursor = posted.cursor /\ n.closes = posted.closes
      /\ n.closed = posted.closed /\ n.prior = posted.prior /\ n.balance = posted.balance
      /\ n.deferred = posted.deferred /\ n.pending = posted.pending /\ n.ready = posted.ready
      /\ n.inGrace = posted.inGrace /\ n.cash = posted.cash /\ n.owed = posted.owed
      /\ (n = posted /\ v = w) \/ n.emitted = << >>
  <2>1. CASE n = posted /\ v = w
    BY <1>6, <2>1
  <2>2. CASE n = taken
    <3>1. << >> \in Seq(AnyRow)
      OBVIOUS
    <3> QED BY <1>6, <2>2, <3>1 DEF Cards
  <2> QED BY <2>1, <2>2
<1>8. Sheet(n, c.prior, D + 7, v, died)
  <2>1. CASE n = posted /\ v = w
    BY <1>6, <2>1
  <2>2. CASE n.emitted = << >>
    <3>1. Len(n.emitted) = 0
      BY <2>2, EmptySeq
    <3>2. 1 .. Len(n.emitted) = {}
      BY <3>1
    <3>3. n.cash >= 0 /\ n.owed <= Limit
          /\ (\A i \in 1 .. Len(n.deferred) : n.deferred[i].ts >= c.prior)
          /\ \A i \in 1 .. Len(n.pending) : Booked(n.pending[i], died) /\ n.pending[i].row.ts >= D + 7
      BY <1>6, <1>7 DEF Sheet
    <3> QED BY <1>7, <3>2, <3>3 DEF Sheet
  <2> QED BY <1>7, <2>1, <2>2
<1>9. /\ n.indices = c.indices /\ n.cursor = c.cursor /\ n.closes = c.closes /\ n.closed = c.closed
      /\ n.prior = c.prior /\ n.balance = c.balance /\ n.ready = c.ready
  BY <1>5, <1>7 DEF Posts, SameSession
<1>10. UnbilledOf(n) = UnbilledOf(c)
  BY <1>9 DEF UnbilledOf
<1>11. Indexed(n, died)
  BY <1>9 DEF Indexed, Held
<1>12. ExactNet(n)
  <2>1. c.owed + c.balance + Net(UnbilledOf(c)) + Net(c.deferred) = 0
    BY DEF Held, ExactNet
  <2>2. c.cursor <= Len(c.indices)
    BY DEF Held, Indexed
  <2>3. UnbilledOf(c) \in Seq(AnyRow) /\ c.deferred \in Seq(AnyRow) /\ c.balance \in Int /\ c.owed \in Int
    BY <1>2, <2>2, UnbilledIs, CardFields
  <2>4. n.deferred \in Seq(AnyRow) /\ n.owed \in Int
    BY <1>7, CardFields
  <2>5. PICK u \in Int : u = Net(UnbilledOf(c))
    BY <2>3, NetIs
  <2>6. PICK x \in Int : x = Net(c.deferred)
    BY <2>3, NetIs
  <2>7. PICK m \in Int : m = Net(n.deferred)
    BY <2>4, NetIs
  <2>8. n.owed + m = c.owed + x
    BY <1>5, <1>7, <2>6, <2>7 DEF Posts
  <2>9. c.owed + c.balance + u + x = 0
    BY <2>1, <2>5, <2>6
  <2>10. c.owed \in Int /\ c.balance \in Int /\ n.owed \in Int
    BY <2>3, <2>4
  <2>11. n.owed + c.balance + u + m = 0
    BY ONLY <2>6, <2>7, <2>5, <2>8, <2>9, <2>10
  <2> QED BY <1>9, <1>10, <2>5, <2>7, <2>11 DEF ExactNet
<1>13. n.ready \/ (Fresh(n) /\ n.indices = << >> /\ n.closed = 0)
  <2>1. CASE c.ready
    BY <1>9, <2>1
  <2>2. CASE ~c.ready
    <3>1. Fresh(c) /\ c.indices = << >> /\ c.closed = 0
      BY <2>2 DEF Held
    <3>2. posted = c
      <4>1. c.pending = << >> /\ Instant(d + 1, 0) \in Int
        BY <1>1, <3>1 DEF Fresh
      <4> QED BY <1>2, <4>1, AdvanceNothing
    <3>3. Fresh(n)
      BY <1>7, <3>1, <3>2 DEF Fresh
    <3> QED BY <1>9, <3>1, <3>3
  <2> QED BY <2>1, <2>2
<1>14. Held(n, died)
  <2>1. n.closes = Closes(died) /\ n.closed <= Len(n.closes)
        /\ n.prior = IF n.closed = 0 THEN 0 ELSE n.closes[n.closed]
    BY <1>9 DEF Held
  <2>2. \A i \in 1 .. Len(UnbilledOf(n)) : UnbilledOf(n)[i].ts >= n.prior
    BY <1>9, <1>10 DEF Held
  <2> QED BY <1>11, <1>12, <1>13, <2>1, <2>2 DEF Held
<1>15. ~MustClose(n, D + 7)
  BY <1>1, <1>9 DEF MustClose, NextClose
<1>16. \A i \in 1 .. Len(n.indices) : n.indices[i].ts < D + 7
  BY <1>1, <1>9 DEF AtDusk
<1>17. Sheet(n, n.prior, D + 7, v, died) /\ n.prior <= D + 7
  BY <1>1, <1>3, <1>8, <1>9
<1>18. n = taken => n.emitted = << >>
  BY <1>6 DEF Cards
<1> QED BY <1>1, <1>14, <1>15, <1>16, <1>17, <1>18 DEF AtDawn

\* After the last day nothing waits: what was booked is dated inside the window.
LEMMA EndIs ==
  ASSUME NEW n, NEW v, NEW died, AtDawn(n, Days, v, died), n.emitted = << >>
  PROVE  AtEnd(n, v, died)
<1>1. Sheet(n, n.prior, WindowEnd, v, died) /\ ~MustClose(n, WindowEnd)
  BY DEF AtDawn, WindowEnd
<1>2. n.pending = << >>
  <2>1. n.pending \in Seq(Waiting)
    BY <1>1, CardFields DEF Sheet
  <2>2. ASSUME NEW i \in 1 .. Len(n.pending) PROVE FALSE
    <3>1. n.pending[i].row.ts < WindowEnd /\ n.pending[i].row.ts >= WindowEnd /\ n.pending[i] \in Waiting
      BY <1>1 DEF Sheet, Booked
    <3>2. n.pending[i].row.ts \in Int /\ WindowEnd \in Int
      BY <3>1, Terms DEF Waiting, AnyRow
    <3> QED BY <3>1, <3>2
  <2>3. Len(n.pending) \in Nat
    BY <2>1, LenProperties
  <2>4. Len(n.pending) = 0
    <3>1. PICK N \in Nat : N = Len(n.pending)
      BY <2>3
    <3>2. CASE N # 0
      <4>1. 1 \in 1 .. N
        BY <3>2
      <4> QED BY <2>2, <3>1, <4>1
    <3> QED BY <3>1, <3>2
  <2> QED BY <2>1, <2>4, EmptySeq
<1> QED BY <1>1, <1>2 DEF AtEnd

\* With nothing emitted the watermark may be anywhere.
LEMMA EndAnywhere ==
  ASSUME NEW n, NEW v, NEW died, AtEnd(n, v, died), NEW u
  PROVE  AtEnd(n, u, died)
<1>1. Len(n.emitted) = 0
  BY EmptySeq DEF AtEnd
<1>2. 1 .. Len(n.emitted) = {}
  BY <1>1
<1> QED BY <1>2 DEF AtEnd, Sheet

-----------------------------------------------------------------------------
(* The payday clock *)

\* A number of periods leaves one remainder.
LEMMA RemainderOnce ==
  ASSUME NEW p \in Nat \ {0}, NEW q \in Int, NEW r \in 0 .. p - 1, NEW x \in Int, x = p * q + r
  PROVE  x % p = r
BY SMT

LEMMA SpenderIs ==
  ASSUME IndInv
  PROVE  /\ death \in Int /\ PayPeriod \in Nat \ {0} /\ firstPay \in 0 .. PayPeriod - 1
         /\ day \in 0 .. Days /\ through \in 0 .. Days /\ LagDays \in Nat /\ Days \in Nat
BY Terms, SpenderAssumption DEF IndInv

\* The clock starts as if paydays had come before.
LEMMA ClockStarts ==
  ASSUME PayPeriod \in Nat \ {0}, firstPay \in 0 .. PayPeriod - 1, since = WarmStart(firstPay)
  PROVE  since \in Nat /\ ClockAt(0)
<1>1. PICK p \in Nat \ {0} : p = PayPeriod
  OBVIOUS
<1>2. PICK f \in 0 .. p - 1 : f = firstPay
  BY <1>1
<1>3. f % p = f
  <2>1. f = p * 0 + f
    OBVIOUS
  <2> QED BY <2>1, RemainderOnce
<1>4. CASE f = 0
  <2>1. p = p * 1 + 0 /\ 0 \in 0 .. p - 1
    OBVIOUS
  <2>2. p % p = 0
    BY <2>1, RemainderOnce
  <2>3. since = 0
    <3>1. PICK m : m = f % p
      OBVIOUS
    <3>2. m = 0
      BY <1>3, <1>4, <3>1
    <3>3. p - m = p
      BY <3>2
    <3> QED BY <1>1, <1>2, <2>2, <3>1, <3>3 DEF WarmStart
  <2> QED BY <1>2, <1>4, <2>3 DEF ClockAt
<1>5. CASE f # 0
  <2>1. p - f \in 0 .. p - 1 /\ p - f # 0 /\ p - f = p * 0 + (p - f)
    BY <1>5
  <2>2. (p - f) % p = p - f
    BY <2>1, RemainderOnce
  <2>3. (p - (f % p)) % p = p - f
    BY <1>3, <2>2
  <2>4. since = p - f - 1
    BY <1>1, <1>2, <2>1, <2>3 DEF WarmStart
  <2>5. since \in Nat /\ since \in 0 .. p - 1 /\ 0 - 1 - f = p * (-1) + since /\ -1 \in Int
    BY <1>5, <2>1, <2>4
  <2>6. \E q \in Int : 0 - 1 - f = p * q + since
    BY <2>5
  <2> QED BY <1>1, <1>2, <2>5, <2>6 DEF ClockAt, OnClock
<1> QED BY <1>4, <1>5

\* On a payday it restarts, on any other day it goes on.
LEMMA ClockTicks ==
  ASSUME PayPeriod \in Nat \ {0}, firstPay \in 0 .. PayPeriod - 1, Days \in Nat,
         day \in 0 .. Days - 1, ClockAt(day)
  PROVE  LET next == IF day \in Paydays THEN 0 ELSE since + 1
         IN  next \in 0 .. PayPeriod - 1 /\ \E q \in Int : day - firstPay = PayPeriod * q + next
<1>1. PICK p \in Nat \ {0} : p = PayPeriod
  OBVIOUS
<1>2. PICK f \in 0 .. p - 1 : f = firstPay
  BY <1>1
<1>3. PICK d \in 0 .. Days - 1 : d = day
  OBVIOUS
<1>4. ASSUME day \in Paydays PROVE \E q \in Int : d - f = p * q + 0
  <2>1. PICK k \in 0 .. Days : day = firstPay + k * PayPeriod
    BY <1>4 DEF Paydays
  <2>2. k \in Int /\ d - f = p * k + 0
    BY <1>1, <1>2, <1>3, <2>1
  <2> QED BY <2>2
<1>5. ASSUME day \notin Paydays
      PROVE  since + 1 \in 0 .. p - 1 /\ \E q \in Int : d - f = p * q + (since + 1)
  <2>1. ASSUME NEW k \in 0 .. Days PROVE d # f + k * p
    BY <1>1, <1>2, <1>3, <1>5 DEF Paydays
  <2>2. ~(d = 0 /\ f = 0)
    <3>1. 0 \in 0 .. Days
      OBVIOUS
    <3>2. d # f + 0 * p
      BY <2>1, <3>1
    <3> QED BY <3>2
  <2>3. since \in 0 .. p - 1 /\ \E q \in Int : d - 1 - f = p * q + since
    BY <1>1, <1>2, <1>3, <2>2 DEF ClockAt, OnClock
  <2>4. PICK q \in Int : d - 1 - f = p * q + since
    BY <2>3
  <2>5. PICK s \in 0 .. p - 1 : s = since
    BY <2>3
  <2>6. d - f = p * q + (s + 1)
    BY <2>4, <2>5
  <2>7. s + 1 # p
    <3> SUFFICES ASSUME s + 1 = p PROVE FALSE
      OBVIOUS
    <3>1. PICK k \in Int : k = q + 1
      OBVIOUS
    <3>2. p * k = p * q + p
      BY <3>1
    <3>3. d - f = p * k
      BY <2>6, <3>2
    <3>4. k >= 0
      <4> SUFFICES ASSUME k <= -1 PROVE FALSE
        BY <3>1
      <4>1. p * k <= -p
        OBVIOUS
      <4> QED BY <3>3, <4>1
    <3>5. k <= p * k
      BY <3>4
    <3>6. k \in 0 .. Days
      BY <3>3, <3>4, <3>5
    <3>7. d = f + k * p
      BY <3>3
    <3> QED BY <2>1, <3>6, <3>7
  <2>8. s + 1 \in 0 .. p - 1
    BY <2>5, <2>7
  <2>9. \E z \in Int : d - f = p * z + (since + 1)
    BY <2>5, <2>6
  <2> QED BY <2>5, <2>8, <2>9
<1>6. CASE day \in Paydays
  <2>1. \E q \in Int : day - firstPay = PayPeriod * q + 0
    BY <1>1, <1>2, <1>3, <1>4, <1>6
  <2>2. 0 \in 0 .. PayPeriod - 1
    OBVIOUS
  <2> QED BY <1>6, <2>1, <2>2
<1>7. CASE day \notin Paydays
  <2>1. \E q \in Int : day - firstPay = PayPeriod * q + (since + 1)
    BY <1>1, <1>2, <1>3, <1>5, <1>7
  <2>2. since + 1 \in 0 .. PayPeriod - 1
    BY <1>1, <1>5, <1>7
  <2> QED BY <1>7, <2>1, <2>2
<1> QED BY <1>6, <1>7

LEMMA InitIs ==
  ASSUME Init
  PROVE  IndInv
<1>1. /\ day = 0 /\ phase = "spend" /\ baseIdx = 0 /\ through = 0 /\ death \in Deaths
      /\ firstPay \in FirstPaydays /\ since = WarmStart(firstPay)
      /\ \E a \in Autopays : card = NewCard(death, a, 0)
  BY DEF Init
<1>2. death \in Int /\ PayPeriod \in Nat \ {0} /\ firstPay \in 0 .. PayPeriod - 1
  BY <1>1, SpenderAssumption
<1>3. since \in Nat /\ ClockAt(0)
  BY <1>1, <1>2, ClockStarts
<1>4. PICK a \in Autopays : card = NewCard(death, a, 0)
  BY <1>1
<1>5. PICK e : e = card
  OBVIOUS
<1>6. /\ e.indices = << >> /\ e.cursor = 0 /\ e.closes = Closes(death) /\ e.closed = 0 /\ e.prior = 0
      /\ e.balance = 0 /\ e.inGrace = TRUE /\ e.deferred = << >> /\ e.pending = << >>
      /\ e.ready = FALSE /\ e.emitted = << >> /\ e.cash = 0 /\ e.owed = 0
  BY <1>4, <1>5 DEF NewCard
<1>7. Closes(death) \in Seq(Int)
  BY <1>2, ClosesAre DEF Ladder
<1>8. e \in Cards
  <2>1. << >> \in Seq(AnyRow) /\ << >> \in Seq(Waiting) /\ << >> \in Seq(Decisions)
    OBVIOUS
  <2> QED BY <1>4, <1>5, <1>7, <2>1 DEF NewCard, Cards
<1>9. Len(e.indices) = 0 /\ Len(e.deferred) = 0 /\ Len(e.pending) = 0 /\ Len(e.emitted) = 0
      /\ 1 .. 0 = {}
  BY <1>6, EmptySeq
<1>10. Instant(0, 0) = 0 /\ Days \in Nat \ {0} /\ Limit \in Nat /\ LagDays \in Nat
  BY Terms DEF Instant, Ticks
<1>11. Sheet(e, 0, 0, 0, death)
  BY <1>6, <1>8, <1>9, <1>10 DEF Sheet
<1>12. Indexed(e, death)
  BY <1>6, <1>9 DEF Indexed
<1>13. UnbilledOf(e) = << >> /\ Len(UnbilledOf(e)) = 0
  <2>1. e.cursor <= Len(e.indices)
    BY <1>6, <1>9
  <2>2. UnbilledOf(e) \in Seq(AnyRow) /\ Len(UnbilledOf(e)) = Len(e.indices) - e.cursor
    BY <1>8, <2>1, UnbilledIs
  <2>3. Len(UnbilledOf(e)) = 0
    BY <1>6, <1>9, <2>2
  <2> QED BY <2>2, <2>3, EmptySeq
<1>14. ExactNet(e)
  BY <1>6, <1>13, NetNone DEF ExactNet
<1>15. Held(e, death)
  <2>1. Len(Closes(death)) \in Nat
    BY <1>7, LenProperties
  <2>2. e.closed <= Len(e.closes)
    BY <1>6, <2>1
  <2>3. Fresh(e)
    BY <1>6 DEF Fresh
  <2> QED BY <1>6, <1>9, <1>12, <1>13, <1>14, <2>2, <2>3 DEF Held
<1>16. AtDawn(e, 0, 0, death)
  <2>1. ~MustClose(e, Instant(0, 0))
    BY <1>6 DEF MustClose
  <2> QED BY <1>6, <1>9, <1>10, <1>11, <2>1 DEF AtDawn
<1>17. baseIdx \in Nat /\ baseIdx <= BaseBefore(day)
  <2>1. BaseBefore(day) \in Nat
    BY BaseIs
  <2> QED BY <1>1, <2>1
<1>18. day \in 0 .. Days /\ day < Days /\ through \in 0 .. Days
  BY <1>1, <1>10
<1> QED BY <1>1, <1>3, <1>5, <1>15, <1>16, <1>17, <1>18 DEF IndInv

-----------------------------------------------------------------------------
(* The steps *)

\* A day's spending hands the card its purchases and lets the ledger decide.
LEMMA SpendHands ==
  ASSUME IndInv, Spend
  PROVE  /\ day \in 0 .. Days - 1 /\ death \in Int /\ through \in Int /\ 7 * through <= Instant(day, 0)
         /\ Held(card, death) /\ AtDawn(card, day, through, death)
         /\ \E r : /\ Handed(card, r, day, through, death)
                   /\ card' = AdvanceLedgerTo(r, Instant(day + 1, 0))
<1>1. /\ death \in Int /\ PayPeriod \in Nat \ {0} /\ firstPay \in 0 .. PayPeriod - 1
      /\ through \in 0 .. Days /\ LagDays \in Nat /\ Days \in Nat
  BY SpenderIs
<1>2. phase = "spend" /\ day < Days /\ AtDawn(card, day, through, death) /\ ClockAt(day)
  BY DEF IndInv, Spend
<1>3. day \in 0 .. Days - 1
  BY <1>1, <1>2, SpenderIs
<1>4. /\ baseIdx \in Nat /\ baseIdx <= BaseBefore(day) /\ Held(card, death)
      /\ through = 0 \/ through <= day - LagDays
  BY <1>2 DEF IndInv
<1>5. through \in Int /\ 7 * through <= Instant(day, 0)
  <2>1. 7 * through <= day * 7 + 0
    BY <1>1, <1>3, <1>4
  <2> QED BY <1>1, <2>1 DEF Instant, Ticks
<1>6. PICK tries \in Tries :
        LET opened == ReplayBase(card)
            settled == Settle(opened, Emit(opened, tries))
            handed == IngestPurchases(settled.c, settled.kept)
        IN card' = AdvanceLedgerTo([handed EXCEPT !.ready = @ \/ settled.kept # << >>], Tomorrow)
  BY DEF Spend
<1>7. PICK opened : opened = ReplayBase(card)
  OBVIOUS
<1>8. PICK settled : settled = Settle(opened, Emit(opened, tries))
  OBVIOUS
<1>9. PICK r : r = [IngestPurchases(settled.c, settled.kept) EXCEPT !.ready = @ \/ settled.kept # << >>]
  OBVIOUS
<1>10. card' = AdvanceLedgerTo(r, Instant(day + 1, 0))
  BY <1>6, <1>7, <1>8, <1>9 DEF Tomorrow
<1>11. PICK c, w : c = card /\ w = through
  OBVIOUS
<1>12. Handed(card, r, day, through, death)
  <2>1. Held(c, death) /\ AtDawn(c, day, w, death) /\ opened = ReplayBase(c) /\ w \in Int
    BY <1>2, <1>4, <1>5, <1>7, <1>11
  <2>2. Handed(c, r, day, w, death)
    BY <1>1, <1>3, <1>4, <1>8, <1>9, <2>1, HandedIs
  <2> QED BY <1>11, <2>2
<1> QED BY <1>1, <1>2, <1>3, <1>4, <1>5, <1>10, <1>12

LEMMA SpendKeeps ==
  ASSUME IndInv, Spend
  PROVE  IndInv'
<1>1. PICK r : Handed(card, r, day, through, death) /\ card' = AdvanceLedgerTo(r, Instant(day + 1, 0))
  BY SpendHands
<1>2. /\ PayPeriod \in Nat \ {0} /\ firstPay \in 0 .. PayPeriod - 1 /\ through \in 0 .. Days
      /\ Days \in Nat /\ phase = "spend" /\ ClockAt(day)
  BY SpenderIs DEF IndInv, Spend
<1>3. day \in 0 .. Days - 1 /\ day < Days
  BY <1>2, SpendHands
<1>4. baseIdx \in Nat /\ baseIdx <= BaseBefore(day) /\ (through = 0 \/ through <= day - LagDays)
  BY <1>2 DEF IndInv
<1>5. /\ baseIdx' = BaseBefore(day) /\ phase' = "close"
      /\ since' = IF day \in Paydays THEN 0 ELSE since + 1
      /\ day' = day /\ death' = death /\ firstPay' = firstPay /\ through' = through
  BY DEF Spend
<1>6. Held(card', death) /\ AtDusk(card', day, through, death)
  <2>1. PICK c, n, d, w, died : c = card /\ n = card' /\ d = day /\ w = through /\ died = death
    OBVIOUS
  <2>2. /\ Held(c, died) /\ AtDawn(c, d, w, died) /\ 7 * w <= Instant(d, 0)
        /\ w \in Int /\ died \in Int /\ d \in 0 .. Days - 1
    BY <2>1, SpendHands
  <2>3. Handed(c, r, d, w, died) /\ n = AdvanceLedgerTo(r, Instant(d + 1, 0))
    BY <1>1, <2>1
  <2>4. Held(n, died) /\ AtDusk(n, d, w, died)
    BY <2>2, <2>3, SpendIs
  <2> QED BY <2>1, <2>4
<1>7. since' \in Nat /\ OnClock(day - firstPay)'
  <2>1. PICK next : next = IF day \in Paydays THEN 0 ELSE since + 1
    OBVIOUS
  <2>2. next \in 0 .. PayPeriod - 1 /\ \E q \in Int : day - firstPay = PayPeriod * q + next
    BY <1>2, <1>3, <2>1, ClockTicks
  <2>3. next \in Nat
    BY <1>2, <2>2
  <2> QED BY <1>5, <2>1, <2>2, <2>3 DEF OnClock
<1>8. baseIdx' \in Nat /\ baseIdx' <= BaseBefore(day)'
  <2>1. BaseBefore(day)' = BaseBefore(day) /\ BaseBefore(day) \in Nat
    BY <1>5, BaseIs DEF BaseBefore, Paydays
  <2> QED BY <1>5, <2>1
<1>9. Held(card, death)' /\ AtDusk(card, day, through, death)'
  BY <1>5, <1>6
<1>10. death' \in Deaths /\ firstPay' \in FirstPaydays /\ day' \in 0 .. Days /\ through' \in 0 .. Days
       /\ day' < Days /\ (through' = 0 \/ through' <= day' - LagDays)
  BY <1>2, <1>4, <1>5 DEF IndInv
<1> QED BY <1>5, <1>7, <1>8, <1>9, <1>10 DEF IndInv

LEMMA CloseKeeps ==
  ASSUME IndInv, Close
  PROVE  IndInv'
<1>1. death \in Int /\ through \in 0 .. Days /\ Days \in Nat
  BY SpenderIs
<1>2. phase = "close" /\ day < Days /\ AtDusk(card, day, through, death) /\ OnClock(day - firstPay)
  BY DEF IndInv, Close
<1>3. day \in 0 .. Days - 1
  BY <1>1, <1>2, SpenderIs
<1>4. Held(card, death) /\ (through = 0 \/ through <= day - LagDays)
  BY <1>2 DEF IndInv
<1>5. UNCHANGED <<day, phase, death, firstPay, baseIdx, since, through>>
  BY DEF Close
<1>6. PICK c, n, d, w, died : c = card /\ n = card' /\ d = day /\ w = through /\ died = death
  OBVIOUS
<1>7. PICK disputes \in Disputes(c, NextClose(c)) :
        \E s \in {Statement(c, NextClose(c), disputes)} :
        \E pay \in Payments(s, NextClose(c)) : n = CloseCycle(s, pay)
  BY <1>6 DEF Close
<1>8. PICK s : /\ s = Statement(c, NextClose(c), disputes)
               /\ \E pay \in Payments(s, NextClose(c)) : n = CloseCycle(s, pay)
  BY <1>7
<1>9. PICK pay \in Payments(s, NextClose(c)) : n = CloseCycle(s, pay)
  BY <1>8
<1>10. MustClose(c, Instant(d + 1, 0))
  BY <1>6 DEF Close, Tomorrow
<1>11. Held(n, died) /\ AtDusk(n, d, w, died)
  <2>1. /\ Held(c, died) /\ AtDusk(c, d, w, died) /\ w \in Nat /\ died \in Int /\ d \in 0 .. Days - 1
        /\ w = 0 \/ w <= d - LagDays
    BY <1>1, <1>2, <1>3, <1>4, <1>6
  <2> QED BY <1>8, <1>9, <1>10, <2>1, CloseIs
<1>12. Held(card, death)' /\ AtDusk(card, day, through, death)'
  BY <1>5, <1>6, <1>11
<1>13. OnClock(day - firstPay)'
  BY <1>2, <1>5 DEF OnClock
<1>14. baseIdx' \in Nat /\ baseIdx' <= BaseBefore(day)'
  <2>1. BaseBefore(day)' = BaseBefore(day)
    BY <1>5 DEF BaseBefore, Paydays
  <2> QED BY <1>5, <2>1 DEF IndInv
<1>15. /\ death' \in Deaths /\ firstPay' \in FirstPaydays /\ day' \in 0 .. Days /\ through' \in 0 .. Days
       /\ since' \in Nat /\ phase' = "close" /\ day' < Days /\ (through' = 0 \/ through' <= day' - LagDays)
  BY <1>2, <1>4, <1>5 DEF IndInv
<1> QED BY <1>12, <1>13, <1>14, <1>15 DEF IndInv

LEMMA EndDayKeeps ==
  ASSUME IndInv, EndDay
  PROVE  IndInv'
<1>1. death \in Int /\ through \in 0 .. Days /\ Days \in Nat /\ LagDays \in Nat
  BY SpenderIs
<1>2. phase = "close" /\ day < Days /\ AtDusk(card, day, through, death) /\ OnClock(day - firstPay)
  BY DEF IndInv, EndDay
<1>3. day \in 0 .. Days - 1
  BY <1>1, <1>2, SpenderIs
<1>4. Held(card, death) /\ (through = 0 \/ through <= day - LagDays)
  BY <1>2 DEF IndInv
<1>5. /\ ~MustClose(card, Instant(day + 1, 0)) /\ day' = day + 1
      /\ phase' = IF day + 1 = Days THEN "finish" ELSE "spend"
      /\ UNCHANGED <<death, firstPay, baseIdx, since>>
  BY DEF EndDay, Tomorrow
<1>6. PICK c, n, d, w, died : c = card /\ n = card' /\ d = day /\ w = through /\ died = death
  OBVIOUS
<1>7. PICK posted : posted = AdvanceLedgerTo(c, Instant(d + 1, 0))
  OBVIOUS
<1>8. PICK taken : taken = [posted EXCEPT !.emitted = << >>]
  OBVIOUS
<1>9. /\ day + 1 \in MonthEnds => n = taken /\ through' = FinalizedThrough(day + 1)
      /\ day + 1 \notin MonthEnds => n = posted /\ through' = through
  BY <1>6, <1>7, <1>8 DEF EndDay, Tomorrow
<1>10. through' \in 0 .. Days /\ (through' = 0 \/ through' <= (day + 1) - LagDays)
  <2>1. CASE day + 1 \in MonthEnds
    <3>1. PICK x \in Int : x = (day + 1) - LagDays /\ x <= Days
      BY <1>1, <1>3
    <3>2. through' = IF through <= x THEN x ELSE through
      <4>1. through \in Int /\ (day + 1) - LagDays \in Int
        BY <1>1, <3>1
      <4>2. Max({through, (day + 1) - LagDays})
              = IF through <= (day + 1) - LagDays THEN (day + 1) - LagDays ELSE through
        BY <4>1, MaxPair
      <4>3. through' = FinalizedThrough(day + 1)
        BY <1>9, <2>1
      <4>4. FinalizedThrough(day + 1) = Max({through, (day + 1) - LagDays})
        BY DEF FinalizedThrough
      <4> QED BY <3>1, <4>2, <4>3, <4>4
    <3> QED BY <1>1, <1>3, <1>4, <3>1, <3>2
  <2>2. CASE day + 1 \notin MonthEnds
    BY <1>1, <1>3, <1>4, <1>9, <2>2
  <2> QED BY <2>1, <2>2
<1>11. PICK v : v = through'
  OBVIOUS
<1>12. /\ Held(n, died) /\ AtDawn(n, d + 1, v, died)
       /\ n = taken => n.emitted = << >>
  <2>1. /\ Held(c, died) /\ AtDusk(c, d, w, died) /\ w \in Int /\ died \in Int /\ d \in 0 .. Days - 1
        /\ ~MustClose(c, Instant(d + 1, 0))
    BY <1>1, <1>2, <1>3, <1>4, <1>5, <1>6
  <2>2. 7 * w <= Instant(d, 0)
    <3>1. w \in 0 .. Days /\ d \in 0 .. Days - 1 /\ (w = 0 \/ w <= d - LagDays)
      BY <1>1, <1>3, <1>4, <1>6
    <3>2. 7 * w <= d * 7 + 0
      BY <1>1, <3>1
    <3> QED BY <3>2 DEF Instant, Ticks
  <2>3. (n = posted /\ v = w) \/ n = taken
    BY <1>6, <1>9, <1>11
  <2> QED BY <1>7, <1>8, <2>1, <2>2, <2>3, DawnIs
<1>13. Held(card, death)' /\ AtDawn(card, day, through, death)'
  BY <1>5, <1>6, <1>11, <1>12
<1>14. ClockAt(day)' /\ since' \in Nat
  <2>1. day' - 1 - firstPay' = day - firstPay
    <3>1. firstPay \in Int /\ day \in Int
      BY <1>3, SpenderIs
    <3> QED BY <1>5, <3>1
  <2>2. OnClock(day - 1 - firstPay)'
    BY <1>2, <1>5, <2>1 DEF OnClock
  <2>3. since' \in Nat
    BY <1>5 DEF IndInv
  <2> QED BY <2>2, <2>3 DEF ClockAt
<1>15. baseIdx' \in Nat /\ baseIdx' <= BaseBefore(day)'
  <2>1. BaseBefore(day)' = BaseBefore(day + 1)
    BY <1>5 DEF BaseBefore, Paydays
  <2>2. BaseBefore(day) <= BaseBefore(day + 1) /\ BaseBefore(day) \in Nat /\ BaseBefore(day + 1) \in Nat
    <3>1. day \in Int
      BY <1>3
    <3> QED BY <3>1, BaseIs
  <2>3. baseIdx \in Nat /\ baseIdx <= BaseBefore(day)
    BY DEF IndInv
  <2>4. baseIdx <= BaseBefore(day + 1)
    BY <2>2, <2>3
  <2> QED BY <1>5, <2>1, <2>3, <2>4
<1>16. death' \in Deaths /\ firstPay' \in FirstPaydays /\ day' \in 0 .. Days
  <2>1. day + 1 \in 0 .. Days
    BY <1>1, <1>3
  <2>2. death \in Deaths /\ firstPay \in FirstPaydays
    BY DEF IndInv
  <2> QED BY <1>5, <2>1, <2>2
<1>17. through' \in 0 .. Days /\ (through' = 0 \/ through' <= day' - LagDays)
  BY <1>5, <1>10
<1>18. CASE day + 1 = Days
  <2>1. n.emitted = << >>
    <3>1. n = taken
      BY <1>9, <1>18 DEF MonthEnds
    <3> QED BY <1>12, <3>1
  <2>2. AtEnd(n, v, died)
    BY <1>6, <1>12, <1>18, <2>1, EndIs
  <2>3. AtEnd(card, through, death)' /\ day' = Days /\ phase' = "finish"
    BY <1>5, <1>6, <1>11, <1>18, <2>2
  <2> QED BY <1>13, <1>14, <1>15, <1>16, <1>17, <2>3 DEF IndInv
<1>19. CASE day + 1 # Days
  <2>1. phase' = "spend" /\ day' < Days
    BY <1>1, <1>3, <1>5, <1>19
  <2> QED BY <1>13, <1>14, <1>15, <1>16, <1>17, <2>1 DEF IndInv
<1> QED BY <1>18, <1>19

LEMMA FinishKeeps ==
  ASSUME IndInv, Finish
  PROVE  IndInv'
<1>1. Days \in Nat
  BY SpenderIs
<1>2. phase = "finish" /\ day = Days /\ AtEnd(card, through, death)
  BY DEF IndInv, Finish
<1>3. /\ phase' = "done" /\ through' = Days /\ card' = AdvanceLedgerTo(card, WindowEnd)
      /\ UNCHANGED <<day, death, firstPay, baseIdx, since>>
  BY DEF Finish
<1>4. card' = card
  <2>1. card \in Cards /\ card.pending = << >> /\ WindowEnd \in Int
    BY <1>2, Terms DEF AtEnd, Sheet
  <2> QED BY <1>3, <2>1, AdvanceNothing
<1>5. AtEnd(card, through, death)'
  <2>1. PICK c, died, v : c = card /\ died = death /\ v = through'
    OBVIOUS
  <2>2. AtEnd(c, v, died)
    BY <1>2, <2>1, EndAnywhere
  <2> QED BY <1>3, <1>4, <2>1, <2>2
<1>6. Held(card, death)'
  <2>1. Held(card, death)
    BY DEF IndInv
  <2> QED BY <1>3, <1>4, <2>1
<1>7. baseIdx' \in Nat /\ baseIdx' <= BaseBefore(day)'
  <2>1. BaseBefore(day)' = BaseBefore(day)
    BY <1>3 DEF BaseBefore, Paydays
  <2>2. baseIdx \in Nat /\ baseIdx <= BaseBefore(day)
    BY DEF IndInv
  <2> QED BY <1>3, <2>1, <2>2
<1>8. death' \in Deaths /\ firstPay' \in FirstPaydays /\ since' \in Nat
  <2>1. death \in Deaths /\ firstPay \in FirstPaydays /\ since \in Nat
    BY DEF IndInv
  <2> QED BY <1>3, <2>1
<1>9. day' = Days /\ day' \in 0 .. Days /\ through' \in 0 .. Days
  BY <1>1, <1>2, <1>3
<1> QED BY <1>3, <1>5, <1>6, <1>7, <1>8, <1>9 DEF IndInv

LEMMA NothingKeeps ==
  ASSUME IndInv, UNCHANGED vars
  PROVE  IndInv'
<1>1. UNCHANGED <<day, phase, death, firstPay, card, baseIdx, since, through>>
  BY DEF vars
<1>2. BaseBefore(day)' = BaseBefore(day)
  BY <1>1 DEF BaseBefore, Paydays
<1>3. ClockAt(day) = ClockAt(day)' /\ OnClock(day - firstPay) = OnClock(day - firstPay)'
  BY <1>1 DEF ClockAt, OnClock
<1> QED BY <1>1, <1>2, <1>3 DEF IndInv

LEMMA Invariance == Spec => []IndInv
<1>1. Init => IndInv
  BY InitIs
<1>2. IndInv /\ [Next]_vars => IndInv'
  <2> SUFFICES ASSUME IndInv, [Next]_vars PROVE IndInv'
    OBVIOUS
  <2>1. CASE Spend
    BY <2>1, SpendKeeps
  <2>2. CASE Close
    BY <2>2, CloseKeeps
  <2>3. CASE EndDay
    BY <2>3, EndDayKeeps
  <2>4. CASE Finish
    BY <2>4, FinishKeeps
  <2>5. CASE Done \/ UNCHANGED vars
    BY <2>5, NothingKeeps DEF Done
  <2> QED BY <2>1, <2>2, <2>3, <2>4, <2>5 DEF Next
<1> QED BY <1>1, <1>2, PTL DEF Spec

-----------------------------------------------------------------------------
(* What follows *)

\* In every phase the rows of the card are dated inside the service and ahead of
\* the watermark.
LEMMA SheetHolds ==
  ASSUME IndInv
  PROVE  \E low : Sheet(card, card.prior, low, through, death)
BY DEF IndInv, AtDawn, AtDusk, AtEnd

LEMMA InTime ==
  ASSUME IndInv
  PROVE  PostedInTime
<1>1. PICK low : Sheet(card, card.prior, low, through, death)
  BY SheetHolds
<1>2. card.emitted \in Seq(AnyRow) /\ card.pending \in Seq(Waiting)
  BY <1>1, CardFields DEF Sheet
<1>3. DOMAIN card.emitted = 1 .. Len(card.emitted) /\ DOMAIN card.pending = 1 .. Len(card.pending)
  BY <1>2, LenProperties
<1>4. ServiceEnds
  <2>1. \A i \in 1 .. Len(card.emitted) : DayOf(card.emitted[i].ts) < death + Settlement
    BY <1>1 DEF Sheet, Charge
  <2>2. \A i \in 1 .. Len(card.pending) : DayOf(card.pending[i].row.ts) < death + Settlement
    BY <1>1 DEF Sheet, Booked, Charge
  <2> QED BY <1>3, <2>1, <2>2 DEF ServiceEnds, Rows
<1>5. AheadOfWatermark
  BY <1>1, <1>3 DEF AheadOfWatermark, Sheet
<1>6. WithinLimit
  BY <1>1 DEF WithinLimit, Sheet
<1>7. PaydayClock
  <2> SUFFICES ASSUME phase = "close" PROVE since = (day - firstPay) % PayPeriod
    BY DEF PaydayClock
  <2>1. since \in 0 .. PayPeriod - 1 /\ \E q \in Int : day - firstPay = PayPeriod * q + since
    BY DEF IndInv, OnClock
  <2>2. PICK x \in Int : x = day - firstPay
    BY SpenderIs
  <2>3. PICK q \in Int : x = PayPeriod * q + since
    BY <2>1, <2>2
  <2>4. x % PayPeriod = since
    BY <2>1, <2>3, SpenderIs, RemainderOnce
  <2> QED BY <2>2, <2>4
<1> QED BY <1>4, <1>5, <1>6, <1>7 DEF PostedInTime

LEMMA AllBilled ==
  ASSUME IndInv
  PROVE  BilledExactly
<1>1. PICK low : Sheet(card, card.prior, low, through, death)
  BY SheetHolds
<1>2. card \in Cards /\ card.cash >= 0 /\ \A i \in 1 .. Len(card.deferred) : card.deferred[i].ts >= card.prior
  BY <1>1 DEF Sheet
<1>3. /\ card.closed <= Len(card.closes) /\ card.cursor <= Len(card.indices) /\ ExactNet(card)
      /\ \A i \in 1 .. Len(card.indices) : Purchase(card.indices[i], death)
      /\ \A i \in 1 .. Len(UnbilledOf(card)) : UnbilledOf(card)[i].ts >= card.prior
  BY DEF IndInv, Held, Indexed
<1>4. /\ card.cursor \in Nat /\ card.closed \in Nat /\ card.cash \in Int /\ card.owed \in Int
      /\ card.balance \in Int /\ card.deferred \in Seq(AnyRow)
      /\ Len(card.indices) \in Nat /\ Len(card.closes) \in Nat /\ Len(card.deferred) \in Nat
      /\ DOMAIN card.deferred = 1 .. Len(card.deferred)
  BY <1>2, CardFields, LenProperties
<1>5. TypeOK
  <2>1. card.cursor \in 0 .. Len(card.indices) /\ card.closed \in 0 .. Len(card.closes) /\ card.cash \in Nat
    BY <1>2, <1>3, <1>4
  <2> QED BY <2>1 DEF IndInv, TypeOK
<1>6. Unbilled = UnbilledOf(card) /\ UnbilledOf(card) \in Seq(AnyRow)
      /\ DOMAIN Unbilled = 1 .. Len(UnbilledOf(card))
  <2>1. UnbilledOf(card) \in Seq(AnyRow)
    BY <1>2, <1>3, UnbilledIs
  <2> QED BY <2>1, LenProperties DEF Unbilled, UnbilledOf
<1>7. \A i \in 1 .. Len(UnbilledOf(card)) : UnbilledOf(card)[i].kind = "purchase"
  <2> SUFFICES ASSUME NEW i \in 1 .. Len(UnbilledOf(card)) PROVE UnbilledOf(card)[i].kind = "purchase"
    OBVIOUS
  <2>1. /\ Len(UnbilledOf(card)) = Len(card.indices) - card.cursor
        /\ \A m \in 1 .. Len(card.indices) - card.cursor : UnbilledOf(card)[m] = card.indices[card.cursor + m]
    BY <1>2, <1>3, UnbilledIs
  <2>2. UnbilledOf(card)[i] = card.indices[card.cursor + i]
    BY <2>1
  <2>3. card.cursor + i \in 1 .. Len(card.indices)
    <3>1. i \in 1 .. Len(card.indices) - card.cursor
      BY <2>1
    <3> QED BY <1>4, <3>1
  <2> QED BY <1>3, <2>2, <2>3 DEF Purchase
<1>8. StatementExact
  <2>1. Total(Unbilled) = -Net(Unbilled) /\ Total(Unbilled) \in Int
    BY <1>6, <1>7, TotalIsNet
  <2>2. PICK u \in Int : u = Net(Unbilled)
    BY <1>6, NetIs
  <2>3. PICK m \in Int : m = Net(card.deferred)
    BY <1>4, NetIs
  <2>4. card.owed + card.balance + u + m = 0
    BY <1>3, <1>6, <2>2, <2>3 DEF ExactNet
  <2>5. card.owed \in Int /\ card.balance \in Int
    BY <1>4
  <2>6. card.owed = -card.balance + (-u) - m
    BY ONLY <2>2, <2>3, <2>4, <2>5
  <2> QED BY <2>1, <2>2, <2>3, <2>6 DEF StatementExact
<1>9. NoneStranded
  BY <1>2, <1>3, <1>4, <1>6 DEF NoneStranded
<1>10. AllDecided
  BY DEF IndInv, AtEnd, AllDecided
<1> QED BY <1>5, <1>8, <1>9, <1>10 DEF BilledExactly

\* Whatever is bought, disputed and paid, no row of a card is dated after its
\* owner's accounts are closed or before the watermark, the card stays within its
\* limit, and the payday clock is right (runDay, Session::advance, the terms of
\* card_cycle_driver.hpp).
THEOREM PostedOnTime == Spec => []PostedInTime
<1>1. IndInv => PostedInTime
  BY InTime
<1> QED BY <1>1, Invariance, PTL

\* Whatever is bought, disputed and paid, what the ledger says is owed is what has
\* been billed, deferred and not billed yet; nothing is left behind a closed cycle,
\* and when the window is over every close has run and every row is decided
\* (CardCycleDriver, the card's Session, advanceLedgerTo).
THEOREM EveryCentBilled == Spec => []BilledExactly
<1>1. IndInv => BilledExactly
  BY AllBilled
<1> QED BY <1>1, Invariance, PTL

-----------------------------------------------------------------------------
(* The late fees and the grace *)

\* The payments of a statement among decisions or waiting postings.
PaymentsAmong(u, k) == {x \in DOMAIN u : u[x].row.kind = "payment" /\ u[x].row.cycle = k}

\* A payment of the minimum of the statement s, in time.
Meets(row, s) == row.amt >= MinimumDue(s.owed) /\ IsOnTime(row.ts, DueOf(s.close))
Paid(log, s) == \E x \in PaymentsAmong(log, s.close) : log[x].accepted /\ Meets(log[x].row, s)

\* Where a statement stands by the decisions log and the postings u that wait: its
\* payment waits, or was taken, or was missed, which costs one fee.
Awaited(log, u, s) ==
  /\ FeesAmong(log, s.close) = {} /\ FeesAmong(u, s.close) = {} /\ ~Paid(log, s)
  /\ \E x \in DOMAIN u : PaymentsAmong(u, s.close) = {x} /\ Meets(u[x].row, s) /\ u[x].feeOnReject
Received(log, u, s) ==
  /\ FeesAmong(log, s.close) = {} /\ FeesAmong(u, s.close) = {} /\ Paid(log, s)
  /\ PaymentsAmong(u, s.close) = {}
Missed(log, u, s) ==
  /\ ~Paid(log, s)
  /\ \A x \in PaymentsAmong(u, s.close) : ~Meets(u[x].row, s) /\ ~u[x].feeOnReject
  /\ FeeTime(s.close) < WindowEnd =>
       \/ (\E x \in DOMAIN log : FeesAmong(log, s.close) = {x}) /\ FeesAmong(u, s.close) = {}
       \/ FeesAmong(log, s.close) = {} /\ \E x \in DOMAIN u : FeesAmong(u, s.close) = {x}
Owing(log, u, s) == Awaited(log, u, s) \/ Received(log, u, s) \/ Missed(log, u, s)

\* The statement is paid in full and in time by a payment taken or waiting, or its
\* payment is dated past the window.
Clears(row, s) ==
  row.kind = "payment" /\ row.cycle = s.close /\ row.amt >= s.owed /\ IsOnTime(row.ts, DueOf(s.close))
Earned(log, u, s) ==
  \/ \E x \in DOMAIN u : Clears(u[x].row, s)
  \/ \E x \in DOMAIN log : log[x].accepted /\ Clears(log[x].row, s)
  \/ s.pay.when >= WindowEnd

\* The payments and fees belong to closes not after prior.
CyclesBy(f, prior) ==
  \A x \in DOMAIN f : f[x].row.kind \in {"payment", "fee"} => f[x].row.cycle <= prior

Tally(log, u, grace, S, prior) ==
  /\ CyclesBy(log, prior) /\ CyclesBy(u, prior)
  /\ \A i \in DOMAIN S : S[i].close <= prior /\ (S[i].owed > 0 => Owing(log, u, S[i]))
  /\ grace /\ S # << >> /\ Last(S).owed > 0 => Earned(log, u, Last(S))

\* g is f and one more item x at the place e.
Adds(f, g, e, x) ==
  /\ e \notin DOMAIN f /\ DOMAIN g = DOMAIN f \cup {e} /\ g[e] = x
  /\ \A y \in DOMAIN f : g[y] = f[y]

LEMMA AddsIs ==
  ASSUME NEW f, NEW g, NEW e, NEW x, Adds(f, g, e, x), NEW k
  PROVE  /\ e \notin FeesAmong(f, k) /\ e \notin PaymentsAmong(f, k)
         /\ FeesAmong(f, k) \subseteq DOMAIN f /\ PaymentsAmong(f, k) \subseteq DOMAIN f
         /\ FeesAmong(g, k) \subseteq DOMAIN g /\ PaymentsAmong(g, k) \subseteq DOMAIN g
         /\ x.row.kind = "fee" /\ x.row.cycle = k => FeesAmong(g, k) = FeesAmong(f, k) \cup {e}
         /\ ~(x.row.kind = "fee" /\ x.row.cycle = k) => FeesAmong(g, k) = FeesAmong(f, k)
         /\ x.row.kind = "payment" /\ x.row.cycle = k => PaymentsAmong(g, k) = PaymentsAmong(f, k) \cup {e}
         /\ ~(x.row.kind = "payment" /\ x.row.cycle = k) => PaymentsAmong(g, k) = PaymentsAmong(f, k)
         /\ e \in DOMAIN g /\ e \notin DOMAIN f /\ g[e] = x /\ DOMAIN f \subseteq DOMAIN g
         /\ \A y \in DOMAIN f : g[y] = f[y] /\ y # e
         /\ \A y \in DOMAIN g : y = e \/ y \in DOMAIN f
<1>1. e \notin DOMAIN f /\ DOMAIN g = DOMAIN f \cup {e} /\ g[e] = x /\ \A y \in DOMAIN f : g[y] = f[y]
  BY DEF Adds
<1>2. FeesAmong(f, k) \subseteq DOMAIN f /\ PaymentsAmong(f, k) \subseteq DOMAIN f
      /\ FeesAmong(g, k) \subseteq DOMAIN g /\ PaymentsAmong(g, k) \subseteq DOMAIN g
  BY DEF FeesAmong, PaymentsAmong
<1>3. x.row.kind = "fee" /\ x.row.cycle = k => FeesAmong(g, k) = FeesAmong(f, k) \cup {e}
  BY <1>1 DEF FeesAmong
<1>4. ~(x.row.kind = "fee" /\ x.row.cycle = k) => FeesAmong(g, k) = FeesAmong(f, k)
  BY <1>1 DEF FeesAmong
<1>5. x.row.kind = "payment" /\ x.row.cycle = k => PaymentsAmong(g, k) = PaymentsAmong(f, k) \cup {e}
  BY <1>1 DEF PaymentsAmong
<1>6. ~(x.row.kind = "payment" /\ x.row.cycle = k) => PaymentsAmong(g, k) = PaymentsAmong(f, k)
  BY <1>1 DEF PaymentsAmong
<1> QED BY <1>1, <1>2, <1>3, <1>4, <1>5, <1>6

\* A decision pays a statement or leaves it as it was.
LEMMA AddsPaid ==
  ASSUME NEW log, NEW log2, NEW m, NEW l, Adds(log, log2, m, l), NEW s
  PROVE  Paid(log2, s) <=> \/ Paid(log, s)
                           \/ /\ l.accepted /\ l.row.kind = "payment" /\ l.row.cycle = s.close
                              /\ Meets(l.row, s)
<1>1. PICK k : k = s.close
  OBVIOUS
<1>2. /\ PaymentsAmong(log, k) \subseteq DOMAIN log /\ log2[m] = l /\ m \notin PaymentsAmong(log, k)
      /\ \A y \in DOMAIN log : log2[y] = log[y]
  BY AddsIs
<1>3. CASE l.row.kind = "payment" /\ l.row.cycle = k
  <2>1. PaymentsAmong(log2, k) = PaymentsAmong(log, k) \cup {m}
    BY <1>3, AddsIs
  <2> QED BY <1>1, <1>2, <1>3, <2>1 DEF Paid
<1>4. CASE ~(l.row.kind = "payment" /\ l.row.cycle = k)
  <2>1. PaymentsAmong(log2, k) = PaymentsAmong(log, k)
    BY <1>4, AddsIs
  <2> QED BY <1>1, <1>2, <1>4, <2>1 DEF Paid
<1> QED BY <1>3, <1>4

\* The ledger's decision on p, from the postings u to v: w is what neither moves.
Decided(w, u, v, x, p, log, log2, m, l) ==
  /\ Adds(w, u, x, p) /\ Adds(log, log2, m, l) /\ l.row = p.row /\ l.accepted \in BOOLEAN
  /\ p.feeOnReject => p.row.kind = "payment"
  /\ LET charged == /\ ~l.accepted /\ p.row.kind = "payment" /\ p.feeOnReject
                    /\ FeeTime(p.row.cycle) < WindowEnd
     IN  /\ ~charged => v = w
         /\ charged => \E e, q : Adds(w, v, e, q) /\ q.row.kind = "fee" /\ q.row.cycle = p.row.cycle

\* A decision leaves a statement awaited, received or missed.
LEMMA DecidedOwing ==
  ASSUME NEW w, NEW u, NEW v, NEW x, NEW p, NEW log, NEW log2, NEW m, NEW l,
         Decided(w, u, v, x, p, log, log2, m, l), NEW s, Owing(log, u, s)
  PROVE  Owing(log2, v, s)
<1>1. Adds(w, u, x, p) /\ Adds(log, log2, m, l) /\ l.row = p.row /\ l.accepted \in BOOLEAN
      /\ (p.feeOnReject => p.row.kind = "payment")
  BY DEF Decided
<1>2. PICK k : k = s.close
  OBVIOUS
<1>3. PICK FU, FW, PU, PW, FL, FM :
        /\ FU = FeesAmong(u, k) /\ FW = FeesAmong(w, k) /\ FL = FeesAmong(log, k)
        /\ PU = PaymentsAmong(u, k) /\ PW = PaymentsAmong(w, k) /\ FM = FeesAmong(log2, k)
  OBVIOUS
<1>4. /\ FW \subseteq DOMAIN w /\ PW \subseteq DOMAIN w /\ x \notin DOMAIN w /\ u[x] = p
      /\ x \in DOMAIN u /\ DOMAIN w \subseteq DOMAIN u /\ \A y \in DOMAIN w : u[y] = w[y]
      /\ p.row.kind = "fee" /\ p.row.cycle = k => FU = FW \cup {x}
      /\ ~(p.row.kind = "fee" /\ p.row.cycle = k) => FU = FW
      /\ p.row.kind = "payment" /\ p.row.cycle = k => PU = PW \cup {x}
      /\ ~(p.row.kind = "payment" /\ p.row.cycle = k) => PU = PW
  BY <1>1, <1>3, AddsIs
<1>5. /\ FL \subseteq DOMAIN log /\ FM \subseteq DOMAIN log2 /\ m \in DOMAIN log2 /\ DOMAIN log \subseteq DOMAIN log2
      /\ p.row.kind = "fee" /\ p.row.cycle = k => FM = FL \cup {m}
      /\ ~(p.row.kind = "fee" /\ p.row.cycle = k) => FM = FL
  BY <1>1, <1>3, AddsIs
<1>6. Paid(log2, s) <=> \/ Paid(log, s)
                        \/ l.accepted /\ p.row.kind = "payment" /\ p.row.cycle = k /\ Meets(p.row, s)
  BY <1>1, <1>2, AddsPaid
<1>7. CASE ~(p.row.kind \in {"fee", "payment"} /\ p.row.cycle = k)
  <2>1. FU = FW /\ PU = PW /\ FM = FL /\ (Paid(log2, s) <=> Paid(log, s))
    BY <1>4, <1>5, <1>6, <1>7
  <2>2. FeesAmong(v, k) = FW /\ PaymentsAmong(v, k) = PW /\ DOMAIN w \subseteq DOMAIN v
        /\ \A y \in DOMAIN w : v[y] = w[y]
    <3>1. CASE v = w
      BY <1>3, <3>1
    <3>2. CASE v # w
      <4>1. PICK e, q : Adds(w, v, e, q) /\ q.row.kind = "fee" /\ q.row.cycle = p.row.cycle
                        /\ p.row.kind = "payment"
        BY <3>2 DEF Decided
      <4>2. ~(q.row.kind = "fee" /\ q.row.cycle = k) /\ ~(q.row.kind = "payment" /\ q.row.cycle = k)
        BY <1>7, <4>1
      <4> QED BY <1>3, <4>1, <4>2, AddsIs
    <3> QED BY <3>1, <3>2
  <2>3. CASE Awaited(log, u, s)
    <3>1. /\ FL = {} /\ FU = {} /\ ~Paid(log, s)
          /\ \E y \in DOMAIN u : PU = {y} /\ Meets(u[y].row, s) /\ u[y].feeOnReject
      BY <1>2, <1>3, <2>3 DEF Awaited
    <3>2. PICK y \in DOMAIN u : PU = {y} /\ Meets(u[y].row, s) /\ u[y].feeOnReject
      BY <3>1
    <3>3. y \in DOMAIN w /\ y \in DOMAIN v /\ v[y] = u[y]
      BY <1>4, <2>1, <2>2, <3>2
    <3>4. Awaited(log2, v, s)
      BY <1>2, <1>3, <2>1, <2>2, <3>1, <3>2, <3>3 DEF Awaited
    <3> QED BY <3>4 DEF Owing
  <2>4. CASE Received(log, u, s)
    BY <1>2, <1>3, <2>1, <2>2, <2>4 DEF Owing, Received
  <2>5. CASE Missed(log, u, s)
    <3>1. /\ ~Paid(log, s) /\ \A y \in PU : ~Meets(u[y].row, s) /\ ~u[y].feeOnReject
          /\ FeeTime(k) < WindowEnd => \/ (\E y \in DOMAIN log : FL = {y}) /\ FU = {}
                                       \/ FL = {} /\ \E y \in DOMAIN u : FU = {y}
      BY <1>2, <1>3, <2>5 DEF Missed
    <3>2. \A y \in PW : y \in DOMAIN w /\ v[y] = u[y]
      BY <1>4, <2>2
    <3>3. FeeTime(k) < WindowEnd => \/ (\E y \in DOMAIN log2 : FM = {y}) /\ FW = {}
                                    \/ FM = {} /\ \E y \in DOMAIN v : FW = {y}
      BY <1>4, <1>5, <2>1, <2>2, <3>1
    <3>4. Missed(log2, v, s)
      BY <1>2, <1>3, <2>1, <2>2, <3>1, <3>2, <3>3 DEF Missed
    <3> QED BY <3>4 DEF Owing
  <2> QED BY <2>3, <2>4, <2>5 DEF Owing
<1>8. CASE p.row.kind = "fee" /\ p.row.cycle = k
  <2>1. v = w
    BY <1>8 DEF Decided
  <2>2. FU = FW \cup {x} /\ x \notin FW /\ PU = PW /\ FM = FL \cup {m} /\ (Paid(log2, s) <=> Paid(log, s))
    BY <1>4, <1>5, <1>6, <1>8
  <2>3. Missed(log, u, s)
    <3>1. FU # {}
      BY <2>2
    <3> QED BY <1>2, <1>3, <3>1 DEF Owing, Awaited, Received
  <2>4. /\ ~Paid(log, s) /\ \A y \in PU : ~Meets(u[y].row, s) /\ ~u[y].feeOnReject
        /\ FeeTime(k) < WindowEnd => \/ (\E y \in DOMAIN log : FL = {y}) /\ FU = {}
                                     \/ FL = {} /\ \E y \in DOMAIN u : FU = {y}
    BY <1>2, <1>3, <2>3 DEF Missed
  <2>5. FeeTime(k) < WindowEnd => FM = {m} /\ FW = {}
    BY <2>2, <2>4
  <2>6. \A y \in PW : ~Meets(w[y].row, s) /\ ~w[y].feeOnReject
    BY <1>4, <2>2, <2>4
  <2>7. Missed(log2, w, s)
    BY <1>2, <1>3, <1>5, <2>2, <2>4, <2>5, <2>6 DEF Missed
  <2> QED BY <2>1, <2>7 DEF Owing
<1>9. CASE p.row.kind = "payment" /\ p.row.cycle = k
  <2>1. FU = FW /\ PU = PW \cup {x} /\ x \notin PW /\ FM = FL
    BY <1>4, <1>5, <1>9
  <2>2. CASE Awaited(log, u, s)
    <3>1. FL = {} /\ FU = {} /\ ~Paid(log, s) /\ PW = {} /\ Meets(p.row, s) /\ p.feeOnReject
      <4>1. /\ FL = {} /\ FU = {} /\ ~Paid(log, s)
            /\ \E y \in DOMAIN u : PU = {y} /\ Meets(u[y].row, s) /\ u[y].feeOnReject
        BY <1>2, <1>3, <2>2 DEF Awaited
      <4>2. PICK y \in DOMAIN u : PU = {y} /\ Meets(u[y].row, s) /\ u[y].feeOnReject
        BY <4>1
      <4>3. y = x /\ PW = {}
        BY <2>1, <4>2
      <4> QED BY <1>4, <4>1, <4>2, <4>3
    <3>2. CASE l.accepted
      <4>1. v = w
        BY <3>2 DEF Decided
      <4>2. Received(log2, w, s)
        BY <1>2, <1>3, <1>6, <1>9, <2>1, <3>1, <3>2 DEF Received
      <4> QED BY <4>1, <4>2 DEF Owing
    <3>3. CASE ~l.accepted
      <4>1. ~Paid(log2, s)
        BY <1>6, <3>1, <3>3
      <4>2. CASE FeeTime(k) < WindowEnd
        <5>1. PICK e, q : Adds(w, v, e, q) /\ q.row.kind = "fee" /\ q.row.cycle = k
          BY <1>9, <3>1, <3>3, <4>2 DEF Decided
        <5>2. FeesAmong(v, k) = FW \cup {e} /\ PaymentsAmong(v, k) = PW /\ e \in DOMAIN v
          BY <1>3, <5>1, AddsIs
        <5>3. FeesAmong(v, k) = {e} /\ PaymentsAmong(v, k) = {} /\ FM = {}
          BY <2>1, <3>1, <5>2
        <5>4. Missed(log2, v, s)
          BY <1>2, <1>3, <4>1, <5>2, <5>3 DEF Missed
        <5> QED BY <5>4 DEF Owing
      <4>3. CASE ~(FeeTime(k) < WindowEnd)
        <5>1. v = w
          BY <1>9, <4>3 DEF Decided
        <5>2. Missed(log2, w, s)
          BY <1>2, <1>3, <3>1, <4>1, <4>3 DEF Missed
        <5> QED BY <5>1, <5>2 DEF Owing
      <4> QED BY <4>2, <4>3
    <3> QED BY <1>1, <3>2, <3>3
  <2>3. CASE Received(log, u, s)
    <3>1. PU = {}
      BY <1>2, <1>3, <2>3 DEF Received
    <3> QED BY <2>1, <3>1
  <2>4. CASE Missed(log, u, s)
    <3>1. /\ ~Paid(log, s) /\ \A y \in PU : ~Meets(u[y].row, s) /\ ~u[y].feeOnReject
          /\ FeeTime(k) < WindowEnd => \/ (\E y \in DOMAIN log : FL = {y}) /\ FU = {}
                                       \/ FL = {} /\ \E y \in DOMAIN u : FU = {y}
      BY <1>2, <1>3, <2>4 DEF Missed
    <3>2. ~Meets(p.row, s) /\ ~p.feeOnReject
      <4>1. x \in PU
        BY <2>1
      <4> QED BY <1>4, <3>1, <4>1
    <3>3. v = w
      BY <3>2 DEF Decided
    <3>4. \A y \in PW : ~Meets(w[y].row, s) /\ ~w[y].feeOnReject
      BY <1>4, <2>1, <3>1
    <3>5. ~Paid(log2, s)
      BY <1>6, <3>1, <3>2
    <3>6. FeeTime(k) < WindowEnd => \/ (\E y \in DOMAIN log2 : FM = {y}) /\ FW = {}
                                    \/ FM = {} /\ \E y \in DOMAIN w : FW = {y}
      BY <1>4, <1>5, <2>1, <3>1
    <3>7. Missed(log2, w, s)
      BY <1>2, <1>3, <3>4, <3>5, <3>6 DEF Missed
    <3> QED BY <3>3, <3>7 DEF Owing
  <2> QED BY <2>2, <2>3, <2>4 DEF Owing
<1> QED BY <1>7, <1>8, <1>9

\* A decision keeps the tally, a rejected payment ending the grace period.
LEMMA DecidedTally ==
  ASSUME NEW w, NEW u, NEW v, NEW x, NEW p, NEW log, NEW log2, NEW m, NEW l,
         Decided(w, u, v, x, p, log, log2, m, l), NEW S, NEW prior, NEW grace, NEW grace2,
         grace2 => grace /\ (p.row.kind = "payment" => l.accepted),
         Tally(log, u, grace, S, prior)
  PROVE  Tally(log2, v, grace2, S, prior)
<1>1. Adds(w, u, x, p) /\ Adds(log, log2, m, l) /\ l.row = p.row /\ l.accepted \in BOOLEAN
  BY DEF Decided
<1>2. /\ u[x] = p /\ x \in DOMAIN u /\ DOMAIN w \subseteq DOMAIN u /\ \A y \in DOMAIN w : u[y] = w[y]
      /\ \A y \in DOMAIN u : y = x \/ y \in DOMAIN w
  BY <1>1, AddsIs
<1>3. /\ log2[m] = l /\ m \in DOMAIN log2 /\ DOMAIN log \subseteq DOMAIN log2
      /\ \A y \in DOMAIN log : log2[y] = log[y]
      /\ \A y \in DOMAIN log2 : y = m \/ y \in DOMAIN log
  BY <1>1, AddsIs
<1>4. /\ CyclesBy(log, prior) /\ CyclesBy(u, prior)
      /\ \A i \in DOMAIN S : S[i].close <= prior /\ (S[i].owed > 0 => Owing(log, u, S[i]))
      /\ grace /\ S # << >> /\ Last(S).owed > 0 => Earned(log, u, Last(S))
  BY DEF Tally
<1>5. CyclesBy(log2, prior)
  <2>1. p.row.kind \in {"payment", "fee"} => p.row.cycle <= prior
    BY <1>2, <1>4 DEF CyclesBy
  <2> QED BY <1>1, <1>3, <1>4, <2>1 DEF CyclesBy
<1>6. CyclesBy(w, prior)
  BY <1>2, <1>4 DEF CyclesBy
<1>7. CyclesBy(v, prior) /\ DOMAIN w \subseteq DOMAIN v /\ \A y \in DOMAIN w : v[y] = w[y]
  <2>1. CASE v = w
    BY <1>6, <2>1
  <2>2. CASE v # w
    <3>1. PICK e, q : /\ Adds(w, v, e, q) /\ q.row.kind = "fee" /\ q.row.cycle = p.row.cycle
                      /\ p.row.kind = "payment"
      BY <2>2 DEF Decided
    <3>2. /\ v[e] = q /\ DOMAIN w \subseteq DOMAIN v /\ \A y \in DOMAIN w : v[y] = w[y]
          /\ \A y \in DOMAIN v : y = e \/ y \in DOMAIN w
      BY <3>1, AddsIs
    <3>3. q.row.cycle <= prior
      BY <1>2, <1>4, <3>1 DEF CyclesBy
    <3> QED BY <1>6, <3>2, <3>3 DEF CyclesBy
  <2> QED BY <2>1, <2>2
<1>8. \A i \in DOMAIN S : S[i].close <= prior /\ (S[i].owed > 0 => Owing(log2, v, S[i]))
  BY <1>4, DecidedOwing
<1>9. ASSUME grace2, S # << >>, Last(S).owed > 0 PROVE Earned(log2, v, Last(S))
  <2>1. PICK s : s = Last(S) /\ Earned(log, u, s) /\ (p.row.kind = "payment" => l.accepted)
    BY <1>4, <1>9
  <2>2. CASE \E y \in DOMAIN u : Clears(u[y].row, s)
    <3>1. PICK y \in DOMAIN u : Clears(u[y].row, s)
      BY <2>2
    <3>2. CASE y = x
      <4>1. Clears(l.row, s) /\ l.accepted
        BY <1>1, <1>2, <2>1, <3>1, <3>2 DEF Clears
      <4> QED BY <1>3, <2>1, <4>1 DEF Earned
    <3>3. CASE y \in DOMAIN w
      <4>1. y \in DOMAIN v /\ v[y] = u[y]
        BY <1>2, <1>7, <3>3
      <4> QED BY <2>1, <3>1, <4>1 DEF Earned
    <3> QED BY <1>2, <3>2, <3>3
  <2>3. CASE \E y \in DOMAIN log : log[y].accepted /\ Clears(log[y].row, s)
    <3>1. PICK y \in DOMAIN log : log[y].accepted /\ Clears(log[y].row, s)
      BY <2>3
    <3>2. y \in DOMAIN log2 /\ log2[y] = log[y]
      BY <1>3
    <3> QED BY <2>1, <3>1, <3>2 DEF Earned
  <2> QED BY <2>1, <2>2, <2>3 DEF Earned
<1> QED BY <1>5, <1>7, <1>8, <1>9 DEF Tally

\* v holds the items of u at other places.
Rearranged(u, v) ==
  \E h : /\ \A y \in DOMAIN v : h[y] \in DOMAIN u /\ v[y] = u[h[y]]
         /\ \A y, z \in DOMAIN v : h[y] = h[z] => y = z
         /\ \A x \in DOMAIN u : \E y \in DOMAIN v : h[y] = x

LEMMA RearrangedAmong ==
  ASSUME NEW u, NEW v, NEW h, NEW A, NEW B,
         A \subseteq DOMAIN u, B \subseteq DOMAIN v, \A y \in DOMAIN v : y \in B <=> h[y] \in A,
         \A y \in DOMAIN v : h[y] \in DOMAIN u,
         \A y, z \in DOMAIN v : h[y] = h[z] => y = z,
         \A x \in DOMAIN u : \E y \in DOMAIN v : h[y] = x
  PROVE  /\ A = {} => B = {}
         /\ \A x \in DOMAIN u : A = {x} => \E y \in DOMAIN v : B = {y} /\ h[y] = x
<1>1. A = {} => B = {}
  OBVIOUS
<1>2. ASSUME NEW x \in DOMAIN u, A = {x} PROVE \E y \in DOMAIN v : B = {y} /\ h[y] = x
  <2>1. PICK y \in DOMAIN v : h[y] = x
    OBVIOUS
  <2>2. y \in B
    BY <1>2, <2>1
  <2>3. \A z \in B : z = y
    BY <1>2, <2>1
  <2> QED BY <2>1, <2>2, <2>3
<1> QED BY <1>1, <1>2

LEMMA RearrangedOwing ==
  ASSUME NEW log, NEW u, NEW v, Rearranged(u, v), NEW s, Owing(log, u, s)
  PROVE  Owing(log, v, s)
<1>1. PICK h : /\ \A y \in DOMAIN v : h[y] \in DOMAIN u /\ v[y] = u[h[y]]
               /\ \A y, z \in DOMAIN v : h[y] = h[z] => y = z
               /\ \A x \in DOMAIN u : \E y \in DOMAIN v : h[y] = x
  BY DEF Rearranged
<1>2. PICK k, FU, FV, PU, PV :
        /\ k = s.close /\ FU = FeesAmong(u, k) /\ FV = FeesAmong(v, k)
        /\ PU = PaymentsAmong(u, k) /\ PV = PaymentsAmong(v, k)
  OBVIOUS
<1>3. /\ FU \subseteq DOMAIN u /\ FV \subseteq DOMAIN v /\ PU \subseteq DOMAIN u /\ PV \subseteq DOMAIN v
      /\ \A y \in DOMAIN v : y \in FV <=> h[y] \in FU
      /\ \A y \in DOMAIN v : y \in PV <=> h[y] \in PU
  BY <1>1, <1>2 DEF FeesAmong, PaymentsAmong
<1>4. /\ FU = {} => FV = {}
      /\ \A x \in DOMAIN u : FU = {x} => \E y \in DOMAIN v : FV = {y} /\ h[y] = x
  BY <1>1, <1>3, RearrangedAmong
<1>5. /\ PU = {} => PV = {}
      /\ \A x \in DOMAIN u : PU = {x} => \E y \in DOMAIN v : PV = {y} /\ h[y] = x
  BY <1>1, <1>3, RearrangedAmong
<1>6. CASE Awaited(log, u, s)
  <2>1. /\ FeesAmong(log, k) = {} /\ FU = {} /\ ~Paid(log, s)
        /\ \E x \in DOMAIN u : PU = {x} /\ Meets(u[x].row, s) /\ u[x].feeOnReject
    BY <1>2, <1>6 DEF Awaited
  <2>2. PICK x \in DOMAIN u : PU = {x} /\ Meets(u[x].row, s) /\ u[x].feeOnReject
    BY <2>1
  <2>3. PICK y \in DOMAIN v : PV = {y} /\ h[y] = x
    BY <1>5, <2>2
  <2>4. v[y] = u[x]
    BY <1>1, <2>3
  <2>5. Awaited(log, v, s)
    BY <1>2, <1>4, <2>1, <2>2, <2>3, <2>4 DEF Awaited
  <2> QED BY <2>5 DEF Owing
<1>7. CASE Received(log, u, s)
  <2>1. Received(log, v, s)
    BY <1>2, <1>4, <1>5, <1>7 DEF Received
  <2> QED BY <2>1 DEF Owing
<1>8. CASE Missed(log, u, s)
  <2>1. /\ ~Paid(log, s) /\ \A x \in PU : ~Meets(u[x].row, s) /\ ~u[x].feeOnReject
        /\ FeeTime(k) < WindowEnd =>
             \/ (\E x \in DOMAIN log : FeesAmong(log, k) = {x}) /\ FU = {}
             \/ FeesAmong(log, k) = {} /\ \E x \in DOMAIN u : FU = {x}
    BY <1>2, <1>8 DEF Missed
  <2>2. \A y \in PV : ~Meets(v[y].row, s) /\ ~v[y].feeOnReject
    BY <1>1, <1>3, <2>1
  <2>3. Missed(log, v, s)
    BY <1>2, <1>4, <2>1, <2>2 DEF Missed
  <2> QED BY <2>3 DEF Owing
<1> QED BY <1>6, <1>7, <1>8 DEF Owing

LEMMA RearrangedTally ==
  ASSUME NEW log, NEW u, NEW v, Rearranged(u, v), NEW grace, NEW S, NEW prior,
         Tally(log, u, grace, S, prior)
  PROVE  Tally(log, v, grace, S, prior)
<1>1. PICK h : /\ \A y \in DOMAIN v : h[y] \in DOMAIN u /\ v[y] = u[h[y]]
               /\ \A y, z \in DOMAIN v : h[y] = h[z] => y = z
               /\ \A x \in DOMAIN u : \E y \in DOMAIN v : h[y] = x
  BY DEF Rearranged
<1>2. CyclesBy(v, prior)
  BY <1>1 DEF Tally, CyclesBy
<1>3. \A i \in DOMAIN S : S[i].close <= prior /\ (S[i].owed > 0 => Owing(log, v, S[i]))
  BY RearrangedOwing DEF Tally
<1>4. ASSUME NEW s, Earned(log, u, s) PROVE Earned(log, v, s)
  <2>1. ASSUME NEW x \in DOMAIN u, Clears(u[x].row, s) PROVE \E y \in DOMAIN v : Clears(v[y].row, s)
    BY <1>1, <2>1
  <2> QED BY <1>4, <2>1 DEF Earned
<1> QED BY <1>2, <1>3, <1>4 DEF Tally

\* d is c with other rows booked that wait: neither payments nor fees.
Quiet(c, d) ==
  /\ d.log = c.log /\ d.inGrace = c.inGrace
  /\ DOMAIN c.pending \subseteq DOMAIN d.pending
  /\ \A x \in DOMAIN c.pending : d.pending[x] = c.pending[x]
  /\ \A x \in DOMAIN d.pending :
       x \in DOMAIN c.pending \/ d.pending[x].row.kind \notin {"payment", "fee"}

LEMMA QuietTwice ==
  ASSUME NEW c, NEW d, NEW e, Quiet(c, d), Quiet(d, e)
  PROVE  Quiet(c, e)
BY DEF Quiet

LEMMA QuietTally ==
  ASSUME NEW c, NEW d, Quiet(c, d), NEW S, NEW prior, Tally(c.log, c.pending, c.inGrace, S, prior)
  PROVE  Tally(d.log, d.pending, d.inGrace, S, prior)
<1>1. PICK u, v, log, grace : /\ u = c.pending /\ v = d.pending /\ log = c.log /\ grace = c.inGrace
                              /\ log = d.log /\ grace = d.inGrace
  BY DEF Quiet
<1>2. /\ DOMAIN u \subseteq DOMAIN v /\ \A x \in DOMAIN u : v[x] = u[x]
      /\ \A x \in DOMAIN v : x \in DOMAIN u \/ v[x].row.kind \notin {"payment", "fee"}
  BY <1>1 DEF Quiet
<1>3. Tally(log, u, grace, S, prior)
  BY <1>1
<1>4. ASSUME NEW k PROVE FeesAmong(v, k) = FeesAmong(u, k) /\ PaymentsAmong(v, k) = PaymentsAmong(u, k)
                         /\ PaymentsAmong(u, k) \subseteq DOMAIN u
  BY <1>2 DEF FeesAmong, PaymentsAmong
<1>5. CyclesBy(v, prior)
  BY <1>2, <1>3 DEF Tally, CyclesBy
<1>6. ASSUME NEW s, Owing(log, u, s) PROVE Owing(log, v, s)
  <2>1. CASE Awaited(log, u, s)
    <3>1. Awaited(log, v, s)
      BY <1>2, <1>4, <2>1 DEF Awaited
    <3> QED BY <3>1 DEF Owing
  <2>2. CASE Received(log, u, s)
    <3>1. Received(log, v, s)
      BY <1>4, <2>2 DEF Received
    <3> QED BY <3>1 DEF Owing
  <2>3. CASE Missed(log, u, s)
    <3>1. \A x \in PaymentsAmong(v, s.close) : ~Meets(v[x].row, s) /\ ~v[x].feeOnReject
      BY <1>2, <1>4, <2>3 DEF Missed
    <3>2. FeeTime(s.close) < WindowEnd =>
            \/ (\E x \in DOMAIN log : FeesAmong(log, s.close) = {x}) /\ FeesAmong(v, s.close) = {}
            \/ FeesAmong(log, s.close) = {} /\ \E x \in DOMAIN v : FeesAmong(v, s.close) = {x}
      BY <1>2, <1>4, <2>3 DEF Missed
    <3>3. Missed(log, v, s)
      BY <2>3, <3>1, <3>2 DEF Missed
    <3> QED BY <3>3 DEF Owing
  <2> QED BY <1>6, <2>1, <2>2, <2>3 DEF Owing
<1>7. ASSUME NEW s, Earned(log, u, s) PROVE Earned(log, v, s)
  BY <1>2, <1>7 DEF Earned
<1>8. Tally(log, v, grace, S, prior)
  BY <1>3, <1>5, <1>6, <1>7 DEF Tally
<1> QED BY <1>1, <1>8

LEMMA AppendAdds ==
  ASSUME NEW X, NEW s \in Seq(X), NEW x \in X
  PROVE  /\ Adds(s, Append(s, x), Len(s) + 1, x) /\ Len(s) \in Nat
         /\ DOMAIN s = 1 .. Len(s) /\ Append(s, x) \in Seq(X) /\ Len(Append(s, x)) = Len(s) + 1
<1>0. PICK n \in Nat : n = Len(s) /\ DOMAIN s = 1 .. n
  BY LenProperties
<1>1. PICK t \in Seq(X) : /\ t = Append(s, x) /\ Len(t) = n + 1 /\ DOMAIN t = 1 .. n + 1
                          /\ t[n + 1] = x /\ \A i \in 1 .. n : t[i] = s[i]
  <2>1. /\ Append(s, x) \in Seq(X) /\ Len(Append(s, x)) = n + 1 /\ Append(s, x)[n + 1] = x
        /\ \A i \in 1 .. n : Append(s, x)[i] = s[i]
    BY <1>0, AppendProperties
  <2>2. PICK t \in Seq(X) : t = Append(s, x)
    BY <2>1
  <2>3. DOMAIN t = 1 .. Len(t)
    BY LenProperties
  <2> QED BY <2>1, <2>2, <2>3
<1>2. n + 1 \notin 1 .. n /\ 1 .. n + 1 = (1 .. n) \cup {n + 1}
  OBVIOUS
<1> QED BY <1>0, <1>1, <1>2 DEF Adds

\* What booking and accepting a row leave of the decisions and the postings.
LEMMA BookWaits ==
  ASSUME NEW c \in Cards, NEW r, NEW f, [row |-> r, feeOnReject |-> f] \in Waiting
  PROVE  /\ Book(c, r, f) \in Cards /\ Book(c, r, f).log = c.log /\ Book(c, r, f).inGrace = c.inGrace
         /\ Book(c, r, f).prior = c.prior
         /\ Book(c, r, f).pending = Append(c.pending, [row |-> r, feeOnReject |-> f])
<1>1. PICK p \in Waiting : p = [row |-> r, feeOnReject |-> f]
  OBVIOUS
<1>2. Append(c.pending, p) \in Seq(Waiting)
  <2>1. c.pending \in Seq(Waiting)
    BY CardFields
  <2> QED BY <2>1, AppendProperties
<1>3. PICK d : d = Book(c, r, f)
  OBVIOUS
<1>4. d = [c EXCEPT !.pending = Append(c.pending, p)]
  BY <1>1, <1>3 DEF Book, Cards
<1>5. /\ d \in Cards /\ d.log = c.log /\ d.inGrace = c.inGrace /\ d.prior = c.prior
      /\ d.pending = Append(c.pending, p)
  BY <1>2, <1>4 DEF Cards
<1> QED BY <1>1, <1>3, <1>5

LEMMA AcceptWaits ==
  ASSUME NEW c \in Cards, NEW r
  PROVE  /\ Accept(c, r).log = c.log /\ Accept(c, r).inGrace = c.inGrace
         /\ Accept(c, r).pending = c.pending
<1>1. PICK d : d = Accept(c, r)
  OBVIOUS
<1>2. PICK owed, cash, emitted, deferred :
        d = [c EXCEPT !.owed = owed, !.cash = cash, !.emitted = emitted, !.deferred = deferred]
  BY <1>1 DEF Accept, PostToLedger, Cards
<1>3. d.log = c.log /\ d.inGrace = c.inGrace /\ d.pending = c.pending
  BY <1>2 DEF Cards
<1> QED BY <1>1, <1>3

LEMMA LateFeeWaits ==
  ASSUME NEW c \in Cards, NEW close \in Int
  PROVE  /\ PostLateFee(c, close) \in Cards /\ PostLateFee(c, close).log = c.log
         /\ PostLateFee(c, close).inGrace = c.inGrace
         /\ ~(FeeTime(close) < WindowEnd) => PostLateFee(c, close).pending = c.pending
         /\ FeeTime(close) < WindowEnd =>
              \E q \in Waiting : /\ PostLateFee(c, close).pending = Append(c.pending, q)
                                 /\ q.row.kind = "fee" /\ q.row.cycle = close /\ ~q.feeOnReject
<1>1. FeeTime(close) \in Int /\ WindowEnd \in Int
  BY FeeTimeIs, Terms
<1>2. CASE FeeTime(close) >= WindowEnd
  <2>1. PostLateFee(c, close) = c /\ ~(FeeTime(close) < WindowEnd)
    BY <1>1, <1>2 DEF PostLateFee
  <2> QED BY <2>1
<1>3. CASE ~(FeeTime(close) >= WindowEnd)
  <2>1. PICK r : r = Row("fee", LateFee, FeeTime(close), close)
    OBVIOUS
  <2>2. PICK q \in Waiting :
          /\ q = [row |-> r, feeOnReject |-> FALSE]
          /\ q.row.kind = "fee" /\ q.row.cycle = close /\ ~q.feeOnReject
    <3>1. r \in AnyRow /\ r.kind = "fee" /\ r.cycle = close
      <4>1. LateFee \in Nat
        BY Terms
      <4> QED BY <1>1, <2>1, <4>1 DEF Row, AnyRow, Kinds
    <3>2. PICK q : q = [row |-> r, feeOnReject |-> FALSE]
      OBVIOUS
    <3>3. q \in Waiting /\ q.row = r /\ q.feeOnReject = FALSE
      BY <3>1, <3>2 DEF Waiting
    <3> QED BY <3>1, <3>2, <3>3
  <2>3. PostLateFee(c, close) = Book(c, r, FALSE) /\ FeeTime(close) < WindowEnd
    BY <1>1, <1>3, <2>1 DEF PostLateFee
  <2>4. PICK f : f = FALSE
    OBVIOUS
  <2>5. /\ Book(c, r, f) \in Cards /\ Book(c, r, f).log = c.log /\ Book(c, r, f).inGrace = c.inGrace
        /\ Book(c, r, f).pending = Append(c.pending, [row |-> r, feeOnReject |-> f])
    <3>1. [row |-> r, feeOnReject |-> f] \in Waiting
      BY <2>2, <2>4
    <3> QED BY <3>1, BookWaits
  <2>6. /\ Book(c, r, FALSE) \in Cards /\ Book(c, r, FALSE).log = c.log
        /\ Book(c, r, FALSE).inGrace = c.inGrace /\ Book(c, r, FALSE).pending = Append(c.pending, q)
    BY <2>2, <2>4, <2>5
  <2> QED BY <2>2, <2>3, <2>6
<1> QED BY <1>2, <1>3

\* What a decision notes, and the fee a rejected payment costs.
Notes(c, p, d, a) ==
  /\ d.log = Append(c.log, [row |-> p.row, accepted |-> a])
  /\ [row |-> p.row, accepted |-> a] \in Decisions
  /\ d.inGrace => c.inGrace /\ (p.row.kind = "payment" => a)
  /\ LET charged == /\ ~a /\ p.row.kind = "payment" /\ p.feeOnReject
                    /\ FeeTime(p.row.cycle) < WindowEnd
     IN  /\ ~charged => d.pending = c.pending
         /\ charged => \E q \in Waiting : /\ d.pending = Append(c.pending, q)
                                          /\ q.row.kind = "fee" /\ q.row.cycle = p.row.cycle

LEMMA DecideNotes ==
  ASSUME NEW c \in Cards, NEW p \in Waiting, p.row.kind # "purchase",
         p.feeOnReject => p.row.kind = "payment", NEW d, d = Decide(c, p)
  PROVE  \E a \in BOOLEAN : Notes(c, p, d, a)
<1>1. PICK b : b = Noted(c, p)
  OBVIOUS
<1>2. PICK a : a = Accepts(c, p.row)
  OBVIOUS
<1>3. p.row \in AnyRow /\ p.row.kind \in Kinds /\ p.row.cycle \in Int /\ p.feeOnReject \in BOOLEAN
  BY DEF Waiting, AnyRow
<1>4. a \in BOOLEAN
  <2>1. CASE p.row.kind = "payment"
    BY <1>2, <2>1 DEF Accepts
  <2>2. CASE p.row.kind = "interest" \/ p.row.kind = "fee"
    <3>1. p.row.kind \in {"interest", "fee", "purchase"} /\ p.row.kind # "payment" /\ p.row.kind # "credit"
      BY <2>2
    <3>2. a = (c.owed + p.row.amt <= Limit)
      BY <1>2, <3>1 DEF Accepts
    <3> QED BY <3>2
  <2>3. CASE p.row.kind = "credit"
    BY <1>2, <2>3 DEF Accepts
  <2> QED BY <1>3, <2>1, <2>2, <2>3 DEF Kinds
<1>5. PICK l \in Decisions : l = [row |-> p.row, accepted |-> a]
  BY <1>3, <1>4 DEF Decisions
<1>6. b = [c EXCEPT !.log = Append(c.log, l)]
  BY <1>1, <1>2, <1>5 DEF Noted, Cards
<1>7. b \in Cards /\ b.log = Append(c.log, l) /\ b.inGrace = c.inGrace /\ b.pending = c.pending
  <2>1. c.log \in Seq(Decisions)
    BY CardFields
  <2>2. Append(c.log, l) \in Seq(Decisions)
    BY <2>1, AppendProperties
  <2> QED BY <1>6, <2>2 DEF Cards
<1>8. PICK e : e = [b EXCEPT !.inGrace = FALSE]
  OBVIOUS
<1>9. e \in Cards /\ e.log = b.log /\ e.inGrace = FALSE /\ e.pending = b.pending
  BY <1>7, <1>8 DEF Cards
<1>10. d = IF a THEN Accept(b, p.row)
           ELSE IF p.row.kind # "payment" THEN b
           ELSE IF p.feeOnReject THEN PostLateFee(e, p.row.cycle)
           ELSE e
  BY <1>1, <1>2, <1>8 DEF Decide, Noted
<1> DEFINE charged == ~a /\ p.row.kind = "payment" /\ p.feeOnReject /\ FeeTime(p.row.cycle) < WindowEnd
           fee(q) == d.pending = Append(c.pending, q) /\ q.row.kind = "fee" /\ q.row.cycle = p.row.cycle
           grace == d.inGrace => c.inGrace /\ (p.row.kind = "payment" => a)
           waits == (~charged => d.pending = c.pending) /\ (charged => \E q \in Waiting : fee(q))
<1>11. ASSUME a PROVE d.log = b.log /\ grace /\ waits
  <2>1. d = Accept(b, p.row)
    BY <1>10, <1>11
  <2>2. d.log = b.log /\ d.inGrace = b.inGrace /\ d.pending = b.pending
    BY <1>7, <2>1, AcceptWaits
  <2>3. grace
    BY <1>7, <1>11, <2>2
  <2>4. ~charged /\ d.pending = c.pending
    BY <1>7, <1>11, <2>2
  <2>5. waits
    BY <2>4
  <2> HIDE DEF grace, waits
  <2> QED BY <2>2, <2>3, <2>5
<1>12. ASSUME ~a /\ p.row.kind # "payment" PROVE d.log = b.log /\ grace /\ waits
  <2>1. d = b
    BY <1>10, <1>12
  <2>2. grace
    BY <1>7, <1>12, <2>1
  <2>3. ~charged /\ d.pending = c.pending
    BY <1>7, <1>12, <2>1
  <2>4. waits
    BY <2>3
  <2> HIDE DEF grace, waits
  <2> QED BY <2>1, <2>2, <2>4
<1>13. ASSUME ~a /\ p.row.kind = "payment" /\ p.feeOnReject PROVE d.log = b.log /\ grace /\ waits
  <2>1. PICK k \in Int : k = p.row.cycle
    BY <1>3
  <2>2. d = PostLateFee(e, k)
    BY <1>10, <1>13, <2>1
  <2>3. /\ PostLateFee(e, k).log = e.log /\ PostLateFee(e, k).inGrace = e.inGrace
        /\ ~(FeeTime(k) < WindowEnd) => PostLateFee(e, k).pending = e.pending
        /\ FeeTime(k) < WindowEnd =>
             \E q \in Waiting : /\ PostLateFee(e, k).pending = Append(e.pending, q)
                                /\ q.row.kind = "fee" /\ q.row.cycle = k /\ ~q.feeOnReject
    BY <1>9, <2>1, LateFeeWaits
  <2>4. d.log = b.log /\ grace
    BY <1>9, <2>2, <2>3
  <2>5. charged <=> FeeTime(k) < WindowEnd
    BY <1>13, <2>1
  <2>6. waits
    <3>1. CASE FeeTime(k) < WindowEnd
      <4>1. PICK q \in Waiting : /\ PostLateFee(e, k).pending = Append(e.pending, q)
                                 /\ q.row.kind = "fee" /\ q.row.cycle = k
        BY <2>3, <3>1
      <4>2. fee(q)
        BY <1>7, <1>9, <2>1, <2>2, <4>1
      <4> HIDE DEF fee, charged
      <4> QED BY <2>5, <3>1, <4>2
    <3>2. CASE ~(FeeTime(k) < WindowEnd)
      <4>1. d.pending = c.pending
        BY <1>7, <1>9, <2>2, <2>3, <3>2
      <4> HIDE DEF fee, charged
      <4> QED BY <2>5, <3>2, <4>1
    <3> QED BY <3>1, <3>2
  <2> HIDE DEF grace, waits
  <2> QED BY <2>4, <2>6
<1>14. ASSUME ~a /\ p.row.kind = "payment" /\ ~p.feeOnReject PROVE d.log = b.log /\ grace /\ waits
  <2>1. d = e
    BY <1>10, <1>14
  <2>2. d.log = b.log /\ grace
    BY <1>9, <2>1
  <2>3. ~charged /\ d.pending = c.pending
    BY <1>7, <1>9, <1>14, <2>1
  <2>4. waits
    BY <2>3
  <2> HIDE DEF grace, waits
  <2> QED BY <2>2, <2>4
<1>15. d.log = b.log /\ grace /\ waits
  <2> HIDE DEF grace, waits
  <2> QED BY <1>3, <1>4, <1>11, <1>12, <1>13, <1>14
<1> QED BY <1>4, <1>5, <1>7, <1>15 DEF Notes

\* The postings open in a round: those that wait, and the rest of those due.
Open(t, matured, n, M) ==
  [x \in (-M .. -(n + 1)) \cup (1 .. Len(t)) |-> IF x > 0 THEN t[x] ELSE matured[-x]]

LEMMA OpenAdds ==
  ASSUME NEW t \in Seq(Waiting), NEW matured, NEW M \in Nat, NEW n \in 0 .. M - 1
  PROVE  /\ Adds(Open(t, matured, n + 1, M), Open(t, matured, n, M), -(n + 1), matured[n + 1])
         /\ \A q \in Waiting :
              Adds(Open(t, matured, n + 1, M), Open(Append(t, q), matured, n + 1, M), Len(t) + 1, q)
<1>1. PICK L \in Nat : L = Len(t) /\ DOMAIN t = 1 .. L
  BY LenProperties
<1>2. PICK k \in 1 .. M : k = n + 1
  OBVIOUS
<1>3. PICK u : u = Open(t, matured, n, M)
  OBVIOUS
<1>4. PICK w : w = Open(t, matured, k, M)
  OBVIOUS
<1>5. DOMAIN u = (-M .. -k) \cup (1 .. L) /\ \A x \in DOMAIN u : u[x] = IF x > 0 THEN t[x] ELSE matured[-x]
  BY <1>1, <1>2, <1>3 DEF Open
<1>6. /\ DOMAIN w = (-M .. -(k + 1)) \cup (1 .. L)
      /\ \A x \in DOMAIN w : w[x] = IF x > 0 THEN t[x] ELSE matured[-x]
  BY <1>1, <1>4 DEF Open
<1>7. Adds(w, u, -k, matured[k])
  <2>1. (-M .. -k) = (-M .. -(k + 1)) \cup {-k} /\ -k \notin (-M .. -(k + 1)) /\ -k \notin 1 .. L
    OBVIOUS
  <2>2. DOMAIN u = DOMAIN w \cup {-k} /\ -k \notin DOMAIN w
    BY <1>5, <1>6, <2>1
  <2>3. u[-k] = matured[k]
    <3>1. -k \in DOMAIN u /\ ~(-k > 0) /\ -(-k) = k
      BY <2>2
    <3> QED BY <1>5, <3>1
  <2>4. \A x \in DOMAIN w : u[x] = w[x]
    BY <1>5, <1>6, <2>2
  <2> QED BY <2>2, <2>3, <2>4 DEF Adds
<1>8. ASSUME NEW q \in Waiting PROVE Adds(w, Open(Append(t, q), matured, k, M), L + 1, q)
  <2>1. PICK t2 : /\ t2 = Append(t, q) /\ Len(t2) = L + 1 /\ t2[L + 1] = q
                  /\ \A x \in 1 .. L : t2[x] = t[x]
    <3>1. /\ Append(t, q) \in Seq(Waiting) /\ Len(Append(t, q)) = L + 1 /\ Append(t, q)[L + 1] = q
          /\ \A x \in 1 .. L : Append(t, q)[x] = t[x]
      BY <1>1, AppendProperties
    <3> QED BY <3>1
  <2>2. PICK v : v = Open(t2, matured, k, M)
    OBVIOUS
  <2>3. /\ DOMAIN v = (-M .. -(k + 1)) \cup (1 .. L + 1)
        /\ \A x \in DOMAIN v : v[x] = IF x > 0 THEN t2[x] ELSE matured[-x]
    BY <2>1, <2>2 DEF Open
  <2>4. (1 .. L + 1) = (1 .. L) \cup {L + 1} /\ L + 1 \notin 1 .. L /\ L + 1 \notin (-M .. -(k + 1)) /\ L + 1 > 0
    OBVIOUS
  <2>5. DOMAIN v = DOMAIN w \cup {L + 1} /\ L + 1 \notin DOMAIN w
    BY <1>6, <2>3, <2>4
  <2>6. v[L + 1] = q
    BY <2>1, <2>3, <2>4, <2>5
  <2>7. \A x \in DOMAIN w : v[x] = w[x]
    <3>1. ASSUME NEW x \in DOMAIN w PROVE v[x] = w[x]
      <4>1. CASE x > 0
        <5>1. x \in 1 .. L
          BY <1>6, <4>1
        <5> QED BY <1>6, <2>1, <2>3, <2>5, <4>1, <5>1
      <4>2. CASE ~(x > 0)
        BY <1>6, <2>3, <2>5, <4>2
      <4> QED BY <4>1, <4>2
    <3> QED BY <3>1
  <2> QED BY <2>1, <2>2, <2>5, <2>6, <2>7 DEF Adds
<1> QED BY <1>1, <1>2, <1>3, <1>4, <1>7, <1>8

\* A decision of a round keeps the tally of the postings open.
LEMMA DecideTally ==
  ASSUME NEW c \in Cards, NEW matured, NEW M \in Nat, NEW n \in 0 .. M - 1,
         NEW p \in Waiting, p = matured[n + 1], p.row.kind # "purchase",
         p.feeOnReject => p.row.kind = "payment", NEW d, d = Decide(c, p), NEW S, NEW prior,
         Tally(c.log, Open(c.pending, matured, n, M), c.inGrace, S, prior)
  PROVE  Tally(d.log, Open(d.pending, matured, n + 1, M), d.inGrace, S, prior)
<1>1. c.pending \in Seq(Waiting) /\ c.log \in Seq(Decisions)
  BY CardFields
<1>2. PICK t \in Seq(Waiting), log \in Seq(Decisions) : t = c.pending /\ log = c.log
  BY <1>1
<1>3. PICK a \in BOOLEAN : Notes(c, p, d, a)
  BY DecideNotes
<1>4. PICK l \in Decisions : l = [row |-> p.row, accepted |-> a]
  BY <1>3 DEF Notes
<1>5. l.row = p.row /\ l.accepted = a
  BY <1>4
<1>6. PICK log2, m : log2 = Append(log, l) /\ m = Len(log) + 1
  OBVIOUS
<1>7. Adds(log, log2, m, l) /\ d.log = log2
  <2>1. Adds(log, Append(log, l), Len(log) + 1, l)
    BY AppendAdds
  <2> QED BY <1>2, <1>3, <1>4, <1>6, <2>1 DEF Notes
<1>8. PICK u : u = Open(t, matured, n, M)
  OBVIOUS
<1>9. PICK w : w = Open(t, matured, n + 1, M)
  OBVIOUS
<1>10. PICK v : v = Open(d.pending, matured, n + 1, M)
  OBVIOUS
<1>11. PICK x : x = -(n + 1)
  OBVIOUS
<1>12. /\ Adds(w, u, x, p)
       /\ \A q \in Waiting : Adds(w, Open(Append(t, q), matured, n + 1, M), Len(t) + 1, q)
  BY <1>8, <1>9, <1>11, OpenAdds
<1> DEFINE charged == ~l.accepted /\ p.row.kind = "payment" /\ p.feeOnReject /\ FeeTime(p.row.cycle) < WindowEnd
<1>13. ~charged => v = w
  BY <1>2, <1>3, <1>5, <1>9, <1>10 DEF Notes
<1>14. charged => \E e, q : Adds(w, v, e, q) /\ q.row.kind = "fee" /\ q.row.cycle = p.row.cycle
  <2>1. ASSUME charged PROVE \E e, q : Adds(w, v, e, q) /\ q.row.kind = "fee" /\ q.row.cycle = p.row.cycle
    <3>1. PICK q \in Waiting : /\ d.pending = Append(c.pending, q)
                               /\ q.row.kind = "fee" /\ q.row.cycle = p.row.cycle
      BY <1>3, <1>5, <2>1 DEF Notes
    <3>2. Adds(w, v, Len(t) + 1, q)
      BY <1>2, <1>10, <1>12, <3>1
    <3> QED BY <3>1, <3>2
  <2> HIDE DEF charged
  <2> QED BY <2>1
<1>15. Decided(w, u, v, x, p, log, log2, m, l)
  <2>1. l.accepted \in BOOLEAN
    BY <1>5
  <2> QED BY <1>5, <1>7, <1>12, <1>13, <1>14, <2>1 DEF Decided
<1>16. PICK grace, grace2 : grace = c.inGrace /\ grace2 = d.inGrace
  OBVIOUS
<1>17. grace2 => grace /\ (p.row.kind = "payment" => l.accepted)
  BY <1>3, <1>5, <1>16 DEF Notes
<1>18. Tally(log, u, grace, S, prior)
  BY <1>2, <1>8, <1>16
<1>19. Tally(log2, v, grace2, S, prior)
  BY <1>15, <1>17, <1>18, DecidedTally
<1> QED BY <1>7, <1>10, <1>16, <1>19

\* A round begins with the postings that wait and ends with those left.
LEMMA OpenStart ==
  ASSUME NEW c \in Cards, NEW g, NEW matured, NEW waiting, NEW bound,
         Round(g, c, matured, waiting, bound)
  PROVE  Rearranged(c.pending, Open(waiting, matured, 0, Len(matured)))
<1>1. PICK s \in Seq(Waiting), N \in Nat : s = c.pending /\ N = Len(s) /\ DOMAIN s = 1 .. N
  <2>1. c.pending \in Seq(Waiting)
    BY CardFields
  <2> QED BY <2>1, LenProperties
<1>2. matured \in Seq(Waiting) /\ waiting \in Seq(Waiting)
  BY DEF Round
<1>3. PICK M \in Nat, L \in Nat : M = Len(matured) /\ L = Len(waiting)
  BY <1>2, LenProperties
<1>4. PICK D \in SUBSET (1 .. N) : D = Due(c, bound)
  BY <1>1 DEF Round
<1>5. PICK p : Picks(p, M, N, D) /\ \A j \in 1 .. M : matured[j] = s[p[j]]
  BY <1>1, <1>3, <1>4 DEF Round, Parted
<1>6. PICK q : Picks(q, L, N, (1 .. N) \ D) /\ \A j \in 1 .. L : waiting[j] = s[q[j]]
  BY <1>1, <1>3, <1>4 DEF Round, Parted
<1>7. /\ \A j \in 1 .. M : p[j] \in D /\ \A i \in 1 .. M : p[i] = p[j] => i = j
      /\ \A m \in D : \E i \in 1 .. M : p[i] = m
  BY <1>5 DEF Picks
<1>8. /\ \A j \in 1 .. L : q[j] \in (1 .. N) \ D /\ \A i \in 1 .. L : q[i] = q[j] => i = j
      /\ \A m \in (1 .. N) \ D : \E i \in 1 .. L : q[i] = m
  BY <1>6 DEF Picks
<1>9. PICK v : v = Open(waiting, matured, 0, M)
  OBVIOUS
<1>10. /\ DOMAIN v = (-M .. -1) \cup (1 .. L)
       /\ \A x \in DOMAIN v : v[x] = IF x > 0 THEN waiting[x] ELSE matured[-x]
  BY <1>3, <1>9 DEF Open
<1>11. PICK h : h = [x \in DOMAIN v |-> IF x > 0 THEN q[x] ELSE p[-x]]
  OBVIOUS
<1>12. ASSUME NEW x \in DOMAIN v
       PROVE  \/ x > 0 /\ x \in 1 .. L /\ h[x] = q[x] /\ v[x] = waiting[x]
              \/ ~(x > 0) /\ -x \in 1 .. M /\ h[x] = p[-x] /\ v[x] = matured[-x]
  BY <1>10, <1>11
<1>13. ASSUME NEW y \in DOMAIN v PROVE h[y] \in DOMAIN s /\ v[y] = s[h[y]]
  <2>1. CASE y > 0 /\ y \in 1 .. L /\ h[y] = q[y] /\ v[y] = waiting[y]
    BY <1>1, <1>6, <1>8, <2>1
  <2>2. CASE ~(y > 0) /\ -y \in 1 .. M /\ h[y] = p[-y] /\ v[y] = matured[-y]
    <3>1. PICK j \in 1 .. M : j = -y /\ h[y] = p[j] /\ v[y] = matured[j]
      BY <2>2
    <3>2. p[j] \in 1 .. N
      BY <1>7
    <3>3. matured[j] = s[p[j]]
      BY <1>5
    <3> QED BY <1>1, <3>1, <3>2, <3>3
  <2> QED BY <1>12, <2>1, <2>2
<1>14. ASSUME NEW y \in DOMAIN v, NEW z \in DOMAIN v, h[y] = h[z] PROVE y = z
  <2>1. CASE y > 0 /\ z > 0
    <3>1. y \in 1 .. L /\ z \in 1 .. L /\ q[y] = q[z]
      BY <1>12, <1>14, <2>1
    <3> QED BY <1>8, <3>1
  <2>2. CASE ~(y > 0) /\ ~(z > 0)
    <3>1. PICK i \in 1 .. M, j \in 1 .. M : i = -y /\ j = -z /\ p[i] = p[j]
      BY <1>12, <1>14, <2>2
    <3>2. i = j
      BY <1>7, <3>1
    <3>3. y \in Int /\ z \in Int
      BY <1>10
    <3> QED BY <3>1, <3>2, <3>3
  <2>3. CASE y > 0 /\ ~(z > 0)
    <3>1. PICK j \in 1 .. M : y \in 1 .. L /\ q[y] = p[j]
      BY <1>12, <1>14, <2>3
    <3> QED BY <1>7, <1>8, <3>1
  <2>4. CASE ~(y > 0) /\ z > 0
    <3>1. PICK j \in 1 .. M : z \in 1 .. L /\ q[z] = p[j]
      BY <1>12, <1>14, <2>4
    <3> QED BY <1>7, <1>8, <3>1
  <2> QED BY <2>1, <2>2, <2>3, <2>4
<1>15. ASSUME NEW m \in DOMAIN s PROVE \E y \in DOMAIN v : h[y] = m
  <2>1. CASE m \in D
    <3>1. PICK i \in 1 .. M : p[i] = m
      BY <1>7, <2>1
    <3>2. PICK y : y = -i
      OBVIOUS
    <3>3. y \in DOMAIN v /\ ~(y > 0) /\ -y = i
      BY <1>10, <3>2
    <3> QED BY <1>11, <3>1, <3>3
  <2>2. CASE m \notin D
    <3>1. PICK i \in 1 .. L : q[i] = m
      BY <1>1, <1>8, <2>2
    <3>2. i \in DOMAIN v /\ i > 0
      BY <1>10
    <3> QED BY <1>11, <3>1, <3>2
  <2> QED BY <2>1, <2>2
<1>16. Rearranged(s, v)
  BY <1>13, <1>14, <1>15 DEF Rearranged
<1> QED BY <1>1, <1>3, <1>9, <1>16

LEMMA OpenEnd ==
  ASSUME NEW t \in Seq(Waiting), NEW matured, NEW M \in Nat
  PROVE  Rearranged(Open(t, matured, M, M), t)
<1>1. PICK L \in Nat : L = Len(t) /\ DOMAIN t = 1 .. L
  BY LenProperties
<1>2. PICK u : u = Open(t, matured, M, M)
  OBVIOUS
<1>3. (-M .. -(M + 1)) = {}
  OBVIOUS
<1>4. DOMAIN u = 1 .. L /\ \A x \in DOMAIN u : u[x] = t[x]
  BY <1>1, <1>2, <1>3 DEF Open
<1>5. PICK h : h = [x \in 1 .. L |-> x]
  OBVIOUS
<1>6. \A x \in 1 .. L : h[x] = x
  BY <1>5
<1>7. Rearranged(u, t)
  BY <1>1, <1>4, <1>6 DEF Rearranged
<1> QED BY <1>2, <1>7

\* A round of the ledger keeps the tally.
LEMMA AdvanceOnceTally ==
  ASSUME NEW c, NEW lo \in Int, NEW low \in Int, NEW w \in Int, NEW died \in Int,
         Sheet(c, lo, low, w, died), lo <= low, 7 * w <= low, NEW bound \in Int,
         NEW S, NEW prior, Tally(c.log, c.pending, c.inGrace, S, prior),
         NEW e, e = AdvanceOnce(c, bound)
  PROVE  Tally(e.log, e.pending, e.inGrace, S, prior)
<1>1. c \in Cards
  BY DEF Sheet
<1>2. PICK g, matured, waiting : Round(g, c, matured, waiting, bound)
  BY <1>1, RoundIs
<1>3. PICK s \in Seq(Waiting), N \in Nat :
        s = c.pending /\ N = Len(s)
        /\ \A i \in 1 .. N : s[i] \in Waiting /\ Booked(s[i], died) /\ s[i].row.ts >= low
  <2>1. c.pending \in Seq(Waiting)
    BY <1>1, CardFields
  <2>2. \A i \in 1 .. Len(c.pending) : Booked(c.pending[i], died) /\ c.pending[i].row.ts >= low
    BY DEF Sheet
  <2> QED BY <2>1, <2>2, LenProperties, ElementOfSeq
<1>4. matured \in Seq(Waiting) /\ waiting \in Seq(Waiting)
  BY <1>2 DEF Round
<1>5. PICK M \in Nat : M = Len(matured)
  BY <1>4, LenProperties
<1>6. \A j \in 1 .. M : Booked(matured[j], died) /\ matured[j].row.ts >= low
  <2>1. PICK p : /\ Picks(p, M, N, Due(c, bound)) /\ \A j \in 1 .. M : matured[j] = s[p[j]]
    BY <1>2, <1>3, <1>5 DEF Round, Parted
  <2>2. \A j \in 1 .. M : p[j] \in 1 .. N
    BY <2>1 DEF Picks
  <2> QED BY <1>3, <2>1, <2>2
<1>7. \A j \in 1 .. Len(waiting) : Booked(waiting[j], died) /\ waiting[j].row.ts >= low
  <2>1. PICK p : /\ Picks(p, Len(waiting), N, (1 .. Len(c.pending)) \ Due(c, bound))
                 /\ \A j \in 1 .. Len(waiting) : waiting[j] = s[p[j]]
    BY <1>2, <1>3 DEF Round, Parted
  <2>2. \A j \in 1 .. Len(waiting) : p[j] \in 1 .. N
    BY <2>1 DEF Picks
  <2> QED BY <1>3, <2>1, <2>2
<1>8. PICK base : base = [c EXCEPT !.pending = waiting]
  OBVIOUS
<1>9. /\ base.pending = waiting /\ base.log = c.log /\ base.inGrace = c.inGrace
      /\ Sheet(base, lo, low, w, died)
  <2>1. /\ base.pending = waiting /\ base.owed = c.owed /\ base.cash = c.cash
        /\ base.emitted = c.emitted /\ base.deferred = c.deferred /\ base \in Cards
        /\ base.log = c.log /\ base.inGrace = c.inGrace
    BY <1>1, <1>4, <1>8 DEF Cards
  <2> QED BY <1>7, <2>1 DEF Sheet
<1>10. Deciding(g, base, matured, M) /\ AdvanceOnce(c, bound) = g[M]
  BY <1>2, <1>5, <1>8 DEF Round
<1> DEFINE Good(d, n) == /\ Sheet(d, lo, low, w, died)
                         /\ Tally(d.log, Open(d.pending, matured, n, M), d.inGrace, S, prior)
           T == {n \in 0 .. M : Good(g[n], n)}
<1>11. 0 \in T
  <2>1. PICK v : v = Open(waiting, matured, 0, M)
    OBVIOUS
  <2>2. Rearranged(c.pending, v)
    BY <1>1, <1>2, <1>5, <2>1, OpenStart
  <2>3. PICK u, log, grace : u = c.pending /\ log = c.log /\ grace = c.inGrace
    OBVIOUS
  <2>4. Tally(log, v, grace, S, prior)
    BY <2>2, <2>3, RearrangedTally
  <2>5. Good(base, 0)
    BY <1>9, <2>1, <2>3, <2>4
  <2>6. g[0] = base
    BY <1>10 DEF Deciding
  <2> HIDE DEF Good
  <2> QED BY <2>5, <2>6
<1>12. ASSUME NEW n \in 0 .. M - 1, n \in T PROVE n + 1 \in T
  <2>1. PICK d : d = g[n]
    OBVIOUS
  <2>2. Sheet(d, lo, low, w, died) /\ Tally(d.log, Open(d.pending, matured, n, M), d.inGrace, S, prior)
    BY <1>12, <2>1
  <2>3. PICK q : q = matured[n + 1]
    OBVIOUS
  <2>4. Booked(q, died) /\ q.row.ts >= low
    <3>1. n + 1 \in 1 .. M
      OBVIOUS
    <3> QED BY <1>6, <2>3, <3>1
  <2>5. PICK f : f = Decide(d, q)
    OBVIOUS
  <2>6. Sheet(f, lo, low, w, died)
    BY <2>2, <2>4, <2>5, DecideIs
  <2>7. q \in Waiting /\ q.row.kind # "purchase" /\ (q.feeOnReject => q.row.kind = "payment")
    BY <2>4 DEF Booked, Charge
  <2>8. d \in Cards
    BY <2>2 DEF Sheet
  <2>9. Tally(f.log, Open(f.pending, matured, n + 1, M), f.inGrace, S, prior)
    BY <2>2, <2>3, <2>5, <2>7, <2>8, DecideTally
  <2>10. Good(f, n + 1)
    BY <2>6, <2>9
  <2>11. g[n + 1] = f
    BY <1>10, <2>1, <2>3, <2>5 DEF Deciding
  <2> HIDE DEF Good
  <2>12. n + 1 \in 0 .. M
    OBVIOUS
  <2> QED BY <2>10, <2>11, <2>12
<1> HIDE DEF T
<1>13. M \in T
  <2>1. 0 .. M \subseteq T
    BY <1>11, <1>12, BoundedInduction
  <2> QED BY <2>1
<1>14. Sheet(e, lo, low, w, died) /\ Tally(e.log, Open(e.pending, matured, M, M), e.inGrace, S, prior)
  BY <1>10, <1>13 DEF T
<1>15. PICK u, v, log, grace :
         /\ u = Open(e.pending, matured, M, M) /\ v = e.pending /\ log = e.log /\ grace = e.inGrace
  OBVIOUS
<1>16. Rearranged(u, v)
  <2>1. e.pending \in Seq(Waiting)
    BY <1>14, CardFields DEF Sheet
  <2> QED BY <1>15, <2>1, OpenEnd
<1>17. Tally(log, v, grace, S, prior)
  BY <1>14, <1>15, <1>16, RearrangedTally
<1> QED BY <1>15, <1>17

LEMMA AdvanceTally ==
  ASSUME NEW c, NEW lo \in Int, NEW low \in Int, NEW w \in Int, NEW died \in Int,
         Sheet(c, lo, low, w, died), lo <= low, 7 * w <= low, NEW bound \in Int,
         NEW S, NEW prior, Tally(c.log, c.pending, c.inGrace, S, prior),
         NEW e, e = AdvanceLedgerTo(c, bound)
  PROVE  Tally(e.log, e.pending, e.inGrace, S, prior)
<1>1. PICK d : d = AdvanceOnce(c, bound)
  OBVIOUS
<1>2. Sheet(d, lo, low, w, died)
  BY <1>1, AdvanceOnceIs
<1>3. Tally(d.log, d.pending, d.inGrace, S, prior)
  BY <1>1, AdvanceOnceTally
<1>4. e = AdvanceOnce(d, bound)
  BY <1>1 DEF AdvanceLedgerTo
<1> QED BY <1>2, <1>3, <1>4, AdvanceOnceTally

\* A close collects credits and charges interest, neither a payment nor a fee.
LEMMA BookQuiet ==
  ASSUME NEW c \in Cards, NEW r \in AnyRow, r.kind \notin {"payment", "fee"}, NEW f \in BOOLEAN,
         NEW d, d = Book(c, r, f)
  PROVE  Quiet(c, d)
<1>1. PICK q \in Waiting : q = [row |-> r, feeOnReject |-> f]
  BY DEF Waiting
<1>2. q.row = r
  BY <1>1
<1>3. d.log = c.log /\ d.inGrace = c.inGrace /\ d.pending = Append(c.pending, q)
  <2>1. [row |-> r, feeOnReject |-> f] \in Waiting
    BY <1>1
  <2> QED BY <1>1, <2>1, BookWaits
<1>4. PICK s \in Seq(Waiting) : s = c.pending
  BY CardFields
<1>5. PICK t, m : t = Append(s, q) /\ m = Len(s) + 1 /\ Adds(s, t, m, q)
  BY AppendAdds
<1>6. /\ DOMAIN s \subseteq DOMAIN t /\ \A x \in DOMAIN s : t[x] = s[x]
      /\ \A x \in DOMAIN t : x \in DOMAIN s \/ t[x] = q
  BY <1>5, AddsIs
<1> QED BY <1>2, <1>3, <1>4, <1>5, <1>6 DEF Quiet

LEMMA CollectOneQuiet ==
  ASSUME NEW c \in Cards, NEW r \in AnyRow, NEW delay \in Delays \cup {0}, NEW close \in Int,
         NEW d, d = CollectOne(c, r, delay, close)
  PROVE  Quiet(c, d)
<1>1. PICK q : q = Row("credit", r.amt, CreditTime(r, delay), close)
  OBVIOUS
<1>2. d = IF delay = 0 \/ q.ts >= WindowEnd THEN c
          ELSE IF q.ts < close THEN Accept(c, q) ELSE Book(c, q, FALSE)
  BY <1>1 DEF CollectOne
<1>3. delay \in Nat /\ r.ts \in Int /\ r.amt \in Nat
  BY TermsAssumption DEF AnyRow
<1>4. q \in AnyRow /\ q.kind = "credit"
  <2>1. CreditTime(r, delay) \in Int
    BY <1>3 DEF CreditTime, Ticks, Noon
  <2> QED BY <1>1, <1>3, <2>1 DEF Row, AnyRow, Kinds
<1>5. Quiet(c, c)
  BY DEF Quiet
<1>6. Quiet(c, Accept(c, q))
  <2>1. /\ Accept(c, q).log = c.log /\ Accept(c, q).inGrace = c.inGrace
        /\ Accept(c, q).pending = c.pending
    BY AcceptWaits
  <2> QED BY <2>1 DEF Quiet
<1>7. Quiet(c, Book(c, q, FALSE))
  <2>1. PICK f \in BOOLEAN : f = FALSE
    OBVIOUS
  <2>2. q.kind \notin {"payment", "fee"}
    BY <1>4
  <2> QED BY <1>4, <2>1, <2>2, BookQuiet
<1> QED BY <1>2, <1>5, <1>6, <1>7

LEMMA CollectQuiet ==
  ASSUME NEW c, NEW lo \in Int, NEW close \in Int, NEW w \in Int, NEW died \in Int,
         Sheet(c, lo, close, w, died), Indexed(c, died),
         \A i \in c.cursor + 1 .. Len(c.indices) : c.indices[i].ts >= lo /\ DayOf(c.indices[i].ts) >= w,
         NEW disputes \in Disputes(c, close), NEW d, d = CollectPurchases(c, close, disputes)
  PROVE  Quiet(c, d)
<1>1. c \in Cards
  BY DEF Sheet
<1>2. PICK s \in Seq(AnyRow), N \in Nat, u \in Nat, k \in Nat :
        s = c.indices /\ N = Len(s) /\ u = c.cursor /\ k = BilledCount(c, close) /\ u + k <= N
  <2>1. /\ BilledCount(c, close) \in 0 .. Len(c.indices) - c.cursor
        /\ c.cursor \in Nat /\ Len(c.indices) \in Nat /\ c.indices \in Seq(AnyRow)
    BY <1>1, BilledIs
  <2> QED BY <2>1
<1>3. PICK billed \in Seq(AnyRow) :
        billed = Billed(c, close) /\ Len(billed) = k /\ \A n \in 1 .. k : billed[n] = s[u + n]
  <2>1. /\ Billed(c, close) \in Seq(AnyRow) /\ Len(Billed(c, close)) = BilledCount(c, close)
        /\ \A n \in 1 .. BilledCount(c, close) : Billed(c, close)[n] = c.indices[c.cursor + n]
    BY CollectIs
  <2> QED BY <1>2, <2>1
<1>4. ASSUME NEW n \in 1 .. k
      PROVE  /\ Purchase(billed[n], died) /\ billed[n].ts >= lo /\ DayOf(billed[n].ts) >= w
             /\ disputes[n] \in Delays \cup {0}
  <2>1. u + n \in u + 1 .. N /\ u + n \in 1 .. N
    BY <1>2, SMTT(20)
  <2>2. Purchase(s[u + n], died) /\ s[u + n].ts >= lo /\ DayOf(s[u + n].ts) >= w
    BY <1>2, <2>1 DEF Indexed
  <2>3. disputes \in [1 .. k -> Delays \cup {0}]
    BY <1>2 DEF Disputes
  <2> QED BY <1>3, <2>2, <2>3
<1> DEFINE B == Billed(c, close)
           g == CHOOSE f : f = [n \in 0 .. Len(B) |->
                                  IF n = 0 THEN c ELSE CollectOne(f[n - 1], B[n], disputes[n], close)]
<1>5. Collecting(g, c, billed, disputes, close, k)
  <2>1. Collecting(g, c, B, disputes, close, Len(B))
    <3>1. Len(B) \in Nat
      BY <1>3
    <3> HIDE DEF B
    <3> QED BY <3>1, CollectingRun
  <2> HIDE DEF g
  <2> QED BY <1>3, <2>1
<1>6. d = [g[k] EXCEPT !.cursor = @ + k]
  <2>1. d = [g[Len(B)] EXCEPT !.cursor = @ + Len(B)]
    BY DEF CollectPurchases
  <2> HIDE DEF g
  <2> QED BY <1>3, <2>1
<1> HIDE DEF g, B
<1> DEFINE Good(e) == Sheet(e, lo, close, w, died) /\ Quiet(c, e)
           S == {n \in 0 .. k : Good(g[n])}
<1>7. 0 \in S
  <2>1. Good(c) /\ g[0] = c
    BY <1>5 DEF Collecting, Quiet
  <2> HIDE DEF Good
  <2> QED BY <2>1
<1>8. ASSUME NEW n \in 0 .. k - 1, n \in S PROVE n + 1 \in S
  <2>1. PICK e, m, r, delay : e = g[n] /\ m = n + 1 /\ r = billed[m] /\ delay = disputes[m]
    OBVIOUS
  <2>2. Sheet(e, lo, close, w, died) /\ Quiet(c, e)
    BY <1>8, <2>1
  <2>3. m \in 1 .. k
    BY <2>1
  <2>4. Purchase(r, died) /\ r.ts >= lo /\ DayOf(r.ts) >= w /\ delay \in Delays \cup {0}
    BY <1>4, <2>1, <2>3
  <2>5. PICK h : h = CollectOne(e, r, delay, close)
    OBVIOUS
  <2>6. Sheet(h, lo, close, w, died)
    BY <2>2, <2>4, <2>5, CollectOneIs
  <2>7. Quiet(e, h)
    <3>1. e \in Cards /\ r \in AnyRow
      BY <2>2, <2>4 DEF Sheet, Purchase
    <3> QED BY <2>4, <2>5, <3>1, CollectOneQuiet
  <2>8. Good(h)
    BY <2>2, <2>6, <2>7, QuietTwice
  <2>9. g[n + 1] = h
    BY <1>5, <2>1, <2>5 DEF Collecting
  <2> HIDE DEF Good
  <2>10. n + 1 \in 0 .. k
    OBVIOUS
  <2> QED BY <2>8, <2>9, <2>10
<1> HIDE DEF S
<1>9. k \in S
  <2>1. 0 .. k \subseteq S
    BY <1>7, <1>8, BoundedInduction
  <2> QED BY <2>1
<1>10. PICK e : e = g[k] /\ e \in Cards /\ Quiet(c, e)
  BY <1>9 DEF S, Sheet
<1>11. d.log = e.log /\ d.inGrace = e.inGrace /\ d.pending = e.pending
  BY <1>6, <1>10 DEF Cards
<1> QED BY <1>10, <1>11 DEF Quiet

LEMMA StatementQuiet ==
  ASSUME NEW c, NEW close, NEW w \in Int, NEW died \in Int, CloseOn(close, died),
         Sheet(c, c.prior, close, w, died), Indexed(c, died), InOpenCycle(c, c.prior, w),
         ExactNet(c), NEW disputes \in Disputes(c, close), NEW s, s = Statement(c, close, disputes)
  PROVE  Quiet(c, s)
<1>1. close \in Int
  BY CloseOnIs
<1>2. PICK b, d : b = CollectPurchases(c, close, disputes) /\ d = Drained(c, close, disputes)
  OBVIOUS
<1>3. PICK lo \in Int : lo = c.prior
  BY CardFields DEF Sheet
<1>4. /\ Sheet(b, lo, close, w, died) /\ Quiet(c, b)
      /\ Sheet(d, close, close, w, died)
  <2>1. \A i \in c.cursor + 1 .. Len(c.indices) : c.indices[i].ts >= lo /\ DayOf(c.indices[i].ts) >= w
    BY <1>3 DEF InOpenCycle
  <2>2. Sheet(c, lo, close, w, died)
    BY <1>3
  <2>3. Sheet(b, lo, close, w, died)
    BY <1>1, <1>2, <2>1, <2>2, CollectIs
  <2>4. Quiet(c, b)
    BY <1>1, <1>2, <2>1, <2>2, CollectQuiet
  <2>5. Sheet(d, close, close, w, died)
    BY <1>1, <1>2, DrainedIs
  <2> QED BY <2>3, <2>4, <2>5
<1>5. Quiet(c, d)
  <2>1. PICK deferred, balance : d = [b EXCEPT !.deferred = deferred, !.balance = balance]
    BY <1>2 DEF Drained
  <2>2. b \in Cards
    BY <1>4 DEF Sheet
  <2>3. d.log = b.log /\ d.inGrace = b.inGrace /\ d.pending = b.pending
    BY <2>1, <2>2 DEF Cards
  <2> QED BY <1>4, <2>3 DEF Quiet
<1>6. PICK r : r = Row("interest", Interest, close + LateNight - CloseTime, close)
  OBVIOUS
<1>7. s = d \/ s = Book(d, r, FALSE)
  BY <1>2, <1>6 DEF Statement, Drained
<1>8. r \in AnyRow /\ r.kind = "interest"
  <2>1. close + LateNight - CloseTime \in Int
    BY <1>1 DEF LateNight, CloseTime
  <2> QED BY <1>1, <1>6, <2>1, Terms DEF Row, AnyRow, Kinds
<1>9. Quiet(d, Book(d, r, FALSE))
  <2>1. PICK f \in BOOLEAN : f = FALSE
    OBVIOUS
  <2>2. r.kind \notin {"payment", "fee"} /\ d \in Cards
    BY <1>4, <1>8 DEF Sheet
  <2> QED BY <1>8, <2>1, <2>2, BookQuiet
<1>10. PICK e : e = Book(d, r, FALSE) /\ Quiet(d, e)
  BY <1>9
<1>11. Quiet(c, e)
  BY <1>5, <1>10, QuietTwice
<1> QED BY <1>5, <1>7, <1>10, <1>11

\* A posting of another cycle does not concern a statement.
LEMMA OthersOwing ==
  ASSUME NEW log, NEW u, NEW v, NEW e, NEW x, Adds(u, v, e, x), NEW s, x.row.cycle # s.close,
         Owing(log, u, s)
  PROVE  Owing(log, v, s)
<1>1. PICK k : k = s.close
  OBVIOUS
<1>2. /\ FeesAmong(v, k) = FeesAmong(u, k) /\ PaymentsAmong(v, k) = PaymentsAmong(u, k)
      /\ PaymentsAmong(u, k) \subseteq DOMAIN u /\ DOMAIN u \subseteq DOMAIN v
      /\ \A y \in DOMAIN u : v[y] = u[y]
  BY <1>1, AddsIs
<1>3. CASE Awaited(log, u, s)
  <2>1. Awaited(log, v, s)
    BY <1>1, <1>2, <1>3 DEF Awaited
  <2> QED BY <2>1 DEF Owing
<1>4. CASE Received(log, u, s)
  <2>1. Received(log, v, s)
    BY <1>1, <1>2, <1>4 DEF Received
  <2> QED BY <2>1 DEF Owing
<1>5. CASE Missed(log, u, s)
  <2>1. \A y \in PaymentsAmong(v, k) : ~Meets(v[y].row, s) /\ ~v[y].feeOnReject
    BY <1>1, <1>2, <1>5 DEF Missed
  <2>2. Missed(log, v, s)
    BY <1>1, <1>2, <1>5, <2>1 DEF Missed
  <2> QED BY <2>2 DEF Owing
<1> QED BY <1>3, <1>4, <1>5 DEF Owing

\* What a close books for the statement s: its payment, if there is one to make in
\* the window, and the late fee of a payment that would not be in time.
Booking(u, paid, v, s, inTime) ==
  LET booked == s.pay.amt > 0 /\ s.pay.when < WindowEnd
      fined == ~inTime /\ FeeTime(s.close) < WindowEnd
  IN  /\ ~booked => paid = u
      /\ booked => \E e, p : /\ Adds(u, paid, e, p) /\ p.feeOnReject = inTime
                             /\ p.row.kind = "payment" /\ p.row.cycle = s.close
                             /\ p.row.amt = s.pay.amt /\ p.row.ts = s.pay.when
      /\ ~fined => v = paid
      /\ fined => \E e, q : Adds(paid, v, e, q) /\ q.row.kind = "fee" /\ q.row.cycle = s.close

\* The booking leaves the earlier statements as they were.
LEMMA BookingOthers ==
  ASSUME NEW log, NEW u, NEW paid, NEW v, NEW s, NEW inTime, Booking(u, paid, v, s, inTime),
         NEW r, r.close # s.close, Owing(log, u, r)
  PROVE  Owing(log, v, r)
<1>1. Owing(log, paid, r)
  <2>1. CASE paid = u
    BY <2>1
  <2>2. CASE paid # u
    <3>1. PICK e, p : Adds(u, paid, e, p) /\ p.row.cycle = s.close
      BY <2>2 DEF Booking
    <3>2. p.row.cycle # r.close
      BY <3>1
    <3> QED BY <3>1, <3>2, OthersOwing
  <2> QED BY <2>1, <2>2
<1>2. CASE v = paid
  BY <1>1, <1>2
<1>3. CASE v # paid
  <2>1. PICK e, q : Adds(paid, v, e, q) /\ q.row.cycle = s.close
    BY <1>3 DEF Booking
  <2>2. q.row.cycle # r.close
    BY <2>1
  <2> QED BY <1>1, <2>1, <2>2, OthersOwing
<1> QED BY <1>2, <1>3

\* The statement itself is awaited, or missed at once.
LEMMA BookingOwing ==
  ASSUME NEW log, NEW u, NEW paid, NEW v, NEW s, NEW inTime \in BOOLEAN,
         Booking(u, paid, v, s, inTime),
         FeesAmong(log, s.close) = {}, PaymentsAmong(log, s.close) = {},
         FeesAmong(u, s.close) = {}, PaymentsAmong(u, s.close) = {},
         inTime <=> s.pay.amt >= MinimumDue(s.owed) /\ IsOnTime(s.pay.when, DueOf(s.close)),
         inTime => s.pay.amt > 0, inTime => s.pay.when < WindowEnd \/ ~(FeeTime(s.close) < WindowEnd)
  PROVE  Owing(log, v, s)
<1>1. PICK k : k = s.close
  OBVIOUS
<1>2. ~Paid(log, s)
  BY DEF Paid
<1>3. CASE s.pay.amt > 0 /\ s.pay.when < WindowEnd
  <2>1. PICK e, p : /\ Adds(u, paid, e, p) /\ p.feeOnReject = inTime
                    /\ p.row.kind = "payment" /\ p.row.cycle = k
                    /\ p.row.amt = s.pay.amt /\ p.row.ts = s.pay.when
    BY <1>1, <1>3 DEF Booking
  <2>2. /\ FeesAmong(paid, k) = {} /\ PaymentsAmong(paid, k) = {e} /\ e \in DOMAIN paid /\ paid[e] = p
    BY <1>1, <2>1, AddsIs
  <2>3. Meets(p.row, s) <=> inTime
    BY <2>1 DEF Meets
  <2>4. CASE inTime
    <3>1. v = paid
      BY <2>4 DEF Booking
    <3>2. Awaited(log, v, s)
      BY <1>1, <1>2, <2>1, <2>2, <2>3, <2>4, <3>1 DEF Awaited
    <3> QED BY <3>2 DEF Owing
  <2>5. CASE ~inTime /\ FeeTime(k) < WindowEnd
    <3>1. PICK f, q : Adds(paid, v, f, q) /\ q.row.kind = "fee" /\ q.row.cycle = k
      BY <1>1, <2>5 DEF Booking
    <3>2. /\ FeesAmong(v, k) = {f} /\ f \in DOMAIN v /\ PaymentsAmong(v, k) = {e} /\ v[e] = p
      BY <2>2, <3>1, AddsIs
    <3>3. \A y \in PaymentsAmong(v, k) : ~Meets(v[y].row, s) /\ ~v[y].feeOnReject
      BY <2>1, <2>3, <2>5, <3>2
    <3>4. Missed(log, v, s)
      BY <1>1, <1>2, <3>2, <3>3 DEF Missed
    <3> QED BY <3>4 DEF Owing
  <2>6. CASE ~inTime /\ ~(FeeTime(k) < WindowEnd)
    <3>1. v = paid
      BY <1>1, <2>6 DEF Booking
    <3>2. \A y \in PaymentsAmong(v, k) : ~Meets(v[y].row, s) /\ ~v[y].feeOnReject
      BY <2>1, <2>2, <2>3, <2>6, <3>1
    <3>3. Missed(log, v, s)
      BY <1>1, <1>2, <2>6, <3>2 DEF Missed
    <3> QED BY <3>3 DEF Owing
  <2> QED BY <2>4, <2>5, <2>6
<1>4. CASE ~(s.pay.amt > 0 /\ s.pay.when < WindowEnd)
  <2>1. paid = u
    BY <1>4 DEF Booking
  <2>2. CASE ~inTime /\ FeeTime(k) < WindowEnd
    <3>1. PICK f, q : Adds(u, v, f, q) /\ q.row.kind = "fee" /\ q.row.cycle = k
      BY <1>1, <2>1, <2>2 DEF Booking
    <3>2. FeesAmong(v, k) = {f} /\ f \in DOMAIN v /\ PaymentsAmong(v, k) = {}
      BY <1>1, <3>1, AddsIs
    <3>3. Missed(log, v, s)
      BY <1>1, <1>2, <3>2 DEF Missed
    <3> QED BY <3>3 DEF Owing
  <2>3. CASE inTime \/ ~(FeeTime(k) < WindowEnd)
    <3>1. v = u /\ ~(FeeTime(k) < WindowEnd)
      BY <1>1, <1>4, <2>1, <2>3 DEF Booking
    <3>2. Missed(log, v, s)
      BY <1>1, <1>2, <3>1 DEF Missed
    <3> QED BY <3>2 DEF Owing
  <2> QED BY <2>2, <2>3
<1> QED BY <1>3, <1>4

\* There is a minimum to pay and a fee for missing it.
FeesApply == MinPayment > 0 /\ ChargesLate

\* A bill of the history.
Bills == [close : Int, owed : Nat, pay : [amt : Nat, when : Int]]

LEMMA MinimumPositive ==
  ASSUME FeesApply, NEW x \in Nat
  PROVE  MinimumDue(x) \in Nat /\ MinimumDue(x) > 0
<1>1. PICK m \in Nat, a \in Nat : m = MinPct /\ a = MinPayment /\ a > 0
  BY TermsAssumption DEF FeesApply
<1>2. PICK y \in Nat : y = m * x
  OBVIOUS
<1>3. PICK z \in Nat : z = y \div 100
  OBVIOUS
<1>4. MinimumDue(x) = Max({a, z})
  BY <1>1, <1>2, <1>3 DEF MinimumDue
<1>5. Max({a, z}) = IF a <= z THEN z ELSE a
  BY MaxPair
<1> QED BY <1>1, <1>4, <1>5

\* The bill of a statement books its payment and the fee.
LEMMA BillBooks ==
  ASSUME FeesApply, NEW s \in Cards, NEW died \in Int, NEW close, CloseOn(close, died), Owed(s) # 0,
         NEW pay \in Payments(s, close), NEW b, b = Bill(s, close, pay),
         NEW r, r = [close |-> close, owed |-> Owed(s), pay |-> pay]
  PROVE  /\ r \in Bills /\ r.close = close /\ r.owed = Owed(s) /\ r.pay = pay
         /\ b.log = s.log
         /\ b.inGrace => r.pay.amt >= r.owed /\ IsOnTime(r.pay.when, DueOf(r.close))
         /\ \E paid : \E inTime \in BOOLEAN :
              /\ Booking(s.pending, paid, b.pending, r, inTime)
              /\ inTime <=> r.pay.amt >= MinimumDue(r.owed) /\ IsOnTime(r.pay.when, DueOf(r.close))
              /\ inTime => r.pay.amt > 0
              /\ inTime => r.pay.when < WindowEnd \/ ~(FeeTime(r.close) < WindowEnd)
<1>1. close \in Int
  BY CloseOnIs
<1>2. PICK o \in Nat : o = Owed(s) /\ o # 0
  BY OwedIs
<1>3. PICK amt \in Nat, when \in Int : amt = pay.amt /\ when = pay.when
  BY PaymentIs
<1>4. pay = [amt |-> amt, when |-> when]
  BY <1>2, <1>3 DEF Payments
<1>5. r \in Bills /\ r.close = close /\ r.owed = o /\ r.pay = pay
  BY <1>1, <1>2, <1>4 DEF Bills
<1>6. PICK x \in Int, y \in Int, W \in Int :
        x = ResolveDueDate(DueOf(close)) /\ y = FeeTime(close) /\ y > x /\ W = WindowEnd
  BY <1>1, FeeTimeIs, Terms
<1>7. PICK m \in Nat : m = MinimumDue(o) /\ m > 0
  BY MinimumPositive
<1>8. PICK onTime \in BOOLEAN : onTime = (when <= x)
  <2>1. (when <= x) \in BOOLEAN
    OBVIOUS
  <2> QED BY <2>1, Zenon
<1>8a. PICK enough \in BOOLEAN : enough = (amt >= m)
  <2>1. (amt >= m) \in BOOLEAN
    OBVIOUS
  <2> QED BY <2>1, Zenon
<1>9. PICK inTime \in BOOLEAN : inTime = (enough /\ onTime)
  OBVIOUS
<1>10. IsOnTime(when, DueOf(close)) = onTime
  BY <1>6, <1>8 DEF IsOnTime
<1>11. inTime => amt > 0
  <2>1. ASSUME enough PROVE amt > 0
    <3>1. amt >= m
      BY <1>8a, <2>1, Zenon
    <3> QED BY <1>7, <3>1
  <2> QED BY <1>9, <2>1
<1>12. inTime => when < W \/ ~(y < W)
  <2>1. ASSUME onTime PROVE when < W \/ ~(y < W)
    <3>1. when <= x
      BY <1>8, <2>1, Zenon
    <3> QED BY <1>6, <3>1
  <2> QED BY <1>9, <2>1
<1>13. PICK q : q = Row("payment", amt, when, close)
  OBVIOUS
<1>14. q \in AnyRow /\ q.kind = "payment" /\ q.ts = when /\ q.cycle = close /\ q.amt = amt
  BY <1>1, <1>13 DEF Row, AnyRow, Kinds
<1>15. PICK d : d = IF amt <= 0 \/ when >= W THEN s ELSE Book(s, q, inTime)
  OBVIOUS
<1>16. PICK t \in Seq(Waiting) : t = s.pending
  BY CardFields
<1>17. PICK u : u = d.pending
  OBVIOUS
<1>18. /\ d \in Cards /\ d.log = s.log /\ (~(amt > 0 /\ when < W) => u = t)
       /\ amt > 0 /\ when < W =>
            \E e, p : /\ Adds(t, u, e, p) /\ p.feeOnReject = inTime
                      /\ p.row.kind = "payment" /\ p.row.cycle = close
                      /\ p.row.amt = amt /\ p.row.ts = when
  <2>1. CASE amt <= 0 \/ when >= W
    <3>1. d = s /\ ~(amt > 0 /\ when < W)
      BY <1>15, <2>1
    <3> QED BY <1>16, <1>17, <3>1
  <2>2. CASE ~(amt <= 0 \/ when >= W)
    <3>1. d = Book(s, q, inTime) /\ amt > 0 /\ when < W
      BY <1>15, <2>2
    <3>2. PICK p \in Waiting : p = [row |-> q, feeOnReject |-> inTime]
      BY <1>14 DEF Waiting
    <3>3. p.row = q /\ p.feeOnReject = inTime
      BY <3>2
    <3>4. d \in Cards /\ d.log = s.log /\ u = Append(t, p)
      <4>1. [row |-> q, feeOnReject |-> inTime] \in Waiting
        BY <3>2
      <4> QED BY <1>16, <1>17, <3>1, <3>2, <4>1, BookWaits
    <3>5. PICK e : Adds(t, u, e, p)
      BY <3>4, AppendAdds
    <3>6. /\ Adds(t, u, e, p) /\ p.feeOnReject = inTime
          /\ p.row.kind = "payment" /\ p.row.cycle = close /\ p.row.amt = amt /\ p.row.ts = when
      BY <1>14, <3>3, <3>5
    <3> QED BY <3>1, <3>4, <3>6
  <2> QED BY <2>1, <2>2
<1>19. PICK f : f = IF inTime THEN d ELSE PostLateFee(d, close)
  OBVIOUS
<1>20. PICK v : v = f.pending
  OBVIOUS
<1>21. /\ f \in Cards /\ f.log = s.log /\ (~(~inTime /\ y < W) => v = u)
       /\ ~inTime /\ y < W => \E e, p : Adds(u, v, e, p) /\ p.row.kind = "fee" /\ p.row.cycle = close
  <2>1. CASE inTime
    BY <1>17, <1>18, <1>19, <1>20, <2>1
  <2>2. CASE ~inTime
    <3>0. f = PostLateFee(d, close) /\ d \in Cards
      BY <1>18, <1>19, <2>2
    <3>1. /\ f \in Cards /\ f.log = d.log
          /\ ~(y < W) => f.pending = d.pending
          /\ y < W => \E p \in Waiting : /\ f.pending = Append(d.pending, p)
                                         /\ p.row.kind = "fee" /\ p.row.cycle = close /\ ~p.feeOnReject
      <4>1. /\ PostLateFee(d, close) \in Cards /\ PostLateFee(d, close).log = d.log
            /\ ~(FeeTime(close) < WindowEnd) => PostLateFee(d, close).pending = d.pending
            /\ FeeTime(close) < WindowEnd =>
                 \E p \in Waiting : /\ PostLateFee(d, close).pending = Append(d.pending, p)
                                    /\ p.row.kind = "fee" /\ p.row.cycle = close /\ ~p.feeOnReject
        BY <1>1, <3>0, LateFeeWaits
      <4> QED BY <1>6, <3>0, <4>1
    <3>2. ASSUME y < W PROVE \E e, p : Adds(u, v, e, p) /\ p.row.kind = "fee" /\ p.row.cycle = close
      <4>1. PICK p \in Waiting : v = Append(u, p) /\ p.row.kind = "fee" /\ p.row.cycle = close
        BY <1>17, <1>20, <3>1, <3>2
      <4>2. u \in Seq(Waiting)
        BY <1>17, <1>18, CardFields
      <4>3. PICK e : Adds(u, v, e, p)
        BY <4>1, <4>2, AppendAdds
      <4> QED BY <4>1, <4>3
    <3>3. ~(y < W) => v = u
      BY <1>17, <1>20, <3>1
    <3> QED BY <1>18, <2>2, <3>1, <3>2, <3>3
  <2> QED BY <2>1, <2>2
<1>22. PICK grace \in BOOLEAN : grace = (amt >= o /\ onTime)
  OBVIOUS
<1>23. b = [f EXCEPT !.inGrace = grace]
  BY <1>2, <1>3, <1>6, <1>7, <1>8a, <1>9, <1>10, <1>13, <1>15, <1>19, <1>22 DEF Bill, FeesApply
<1>24. b.log = s.log /\ b.inGrace = grace /\ b.pending = v
  BY <1>20, <1>21, <1>23 DEF Cards
<1>25. Booking(t, u, v, r, inTime)
  BY <1>3, <1>5, <1>6, <1>18, <1>21 DEF Booking
<1>26. b.inGrace => r.pay.amt >= r.owed /\ IsOnTime(r.pay.when, DueOf(r.close))
  BY <1>3, <1>5, <1>10, <1>22, <1>24
<1>27. inTime <=> r.pay.amt >= MinimumDue(r.owed) /\ IsOnTime(r.pay.when, DueOf(r.close))
  BY <1>3, <1>5, <1>7, <1>8a, <1>9, <1>10
<1>28. /\ inTime => r.pay.amt > 0
       /\ inTime => r.pay.when < WindowEnd \/ ~(FeeTime(r.close) < WindowEnd)
  BY <1>3, <1>5, <1>6, <1>11, <1>12
<1> QED BY <1>2, <1>5, <1>16, <1>24, <1>25, <1>26, <1>27, <1>28

\* The payment made waits, and nothing is booked for another close.
LEMMA BookingAdds ==
  ASSUME NEW u, NEW paid, NEW v, NEW s, NEW inTime, Booking(u, paid, v, s, inTime),
         s.close \in Int, CyclesBy(u, s.close)
  PROVE  /\ CyclesBy(v, s.close)
         /\ s.pay.amt > 0 /\ s.pay.when < WindowEnd =>
              \E e \in DOMAIN v : /\ v[e].row.kind = "payment" /\ v[e].row.cycle = s.close
                                  /\ v[e].row.amt = s.pay.amt /\ v[e].row.ts = s.pay.when
<1>1. CyclesBy(paid, s.close)
  <2>1. CASE paid = u
    BY <2>1
  <2>2. CASE paid # u
    <3>1. PICK e, p : Adds(u, paid, e, p) /\ p.row.cycle = s.close
      BY <2>2 DEF Booking
    <3>2. paid[e] = p /\ \A y \in DOMAIN paid : y = e \/ (y \in DOMAIN u /\ paid[y] = u[y])
      BY <3>1, AddsIs
    <3> QED BY <3>1, <3>2 DEF CyclesBy
  <2> QED BY <2>1, <2>2
<1>2. CASE v = paid
  <2>1. ASSUME s.pay.amt > 0 /\ s.pay.when < WindowEnd
        PROVE  \E e \in DOMAIN v : /\ v[e].row.kind = "payment" /\ v[e].row.cycle = s.close
                                   /\ v[e].row.amt = s.pay.amt /\ v[e].row.ts = s.pay.when
    <3>1. PICK e, p : /\ Adds(u, paid, e, p) /\ p.row.kind = "payment" /\ p.row.cycle = s.close
                      /\ p.row.amt = s.pay.amt /\ p.row.ts = s.pay.when
      BY <2>1 DEF Booking
    <3>2. e \in DOMAIN paid /\ paid[e] = p
      BY <3>1, AddsIs
    <3> QED BY <1>2, <3>1, <3>2
  <2> QED BY <1>1, <1>2, <2>1
<1>3. CASE v # paid
  <2>1. PICK f, q : Adds(paid, v, f, q) /\ q.row.cycle = s.close
    BY <1>3 DEF Booking
  <2>2. /\ v[f] = q /\ DOMAIN paid \subseteq DOMAIN v /\ \A y \in DOMAIN paid : v[y] = paid[y]
        /\ \A y \in DOMAIN v : y = f \/ y \in DOMAIN paid
    BY <2>1, AddsIs
  <2>3. CyclesBy(v, s.close)
    BY <1>1, <2>1, <2>2 DEF CyclesBy
  <2>4. ASSUME s.pay.amt > 0 /\ s.pay.when < WindowEnd
        PROVE  \E e \in DOMAIN v : /\ v[e].row.kind = "payment" /\ v[e].row.cycle = s.close
                                   /\ v[e].row.amt = s.pay.amt /\ v[e].row.ts = s.pay.when
    <3>1. PICK e, p : /\ Adds(u, paid, e, p) /\ p.row.kind = "payment" /\ p.row.cycle = s.close
                      /\ p.row.amt = s.pay.amt /\ p.row.ts = s.pay.when
      BY <2>4 DEF Booking
    <3>2. e \in DOMAIN paid /\ paid[e] = p
      BY <3>1, AddsIs
    <3>3. e \in DOMAIN v /\ v[e] = p
      BY <2>2, <3>2
    <3> QED BY <3>1, <3>3
  <2> QED BY <2>3, <2>4
<1> QED BY <1>2, <1>3

\* Rows of the closes up to prior are not of a later one.
LEMMA CyclesLater ==
  ASSUME NEW f, \A x \in DOMAIN f : f[x].row \in AnyRow, NEW prior \in Int, NEW close \in Int,
         prior < close, CyclesBy(f, prior)
  PROVE  CyclesBy(f, close) /\ FeesAmong(f, close) = {} /\ PaymentsAmong(f, close) = {}
<1>1. ASSUME NEW x \in DOMAIN f, f[x].row.kind \in {"payment", "fee"}
      PROVE  f[x].row.cycle <= close /\ f[x].row.cycle # close
  <2>1. f[x].row.cycle \in Int
    BY DEF AnyRow
  <2>2. f[x].row.cycle <= prior
    BY <1>1 DEF CyclesBy
  <2> QED BY <2>1, <2>2
<1> QED BY <1>1 DEF CyclesBy, FeesAmong, PaymentsAmong

\* A bill keeps the tally, its statement added.
LEMMA BillTally ==
  ASSUME FeesApply, NEW s \in Cards, NEW died \in Int, NEW close, CloseOn(close, died),
         NEW pay \in Payments(s, close), NEW b, b = Bill(s, close, pay),
         NEW r, r = [close |-> close, owed |-> Owed(s), pay |-> pay],
         NEW S \in Seq(Bills), NEW prior \in Int, prior < close,
         Tally(s.log, s.pending, s.inGrace, S, prior)
  PROVE  r \in Bills /\ Tally(b.log, b.pending, b.inGrace, Append(S, r), close)
<1>1. close \in Int
  BY CloseOnIs
<1>2. PICK u \in Seq(Waiting), log \in Seq(Decisions) : u = s.pending /\ log = s.log
  BY CardFields
<1>3. /\ CyclesBy(log, prior) /\ CyclesBy(u, prior)
      /\ \A i \in DOMAIN S : S[i].close <= prior /\ (S[i].owed > 0 => Owing(log, u, S[i]))
  BY <1>2 DEF Tally
<1>4. PICK owed \in Nat : owed = Owed(s)
  BY OwedIs
<1>5. r \in Bills /\ r.close = close /\ r.owed = owed
  <2>1. CASE owed = 0
    <3>1. pay \in {[amt |-> 0, when |-> 0]}
      BY <1>4, <2>1 DEF Payments
    <3>2. pay \in [amt : Nat, when : Int]
      BY <3>1
    <3> QED BY <1>1, <1>4, <3>2 DEF Bills
  <2>2. CASE owed # 0
    BY <1>4, <2>2, BillBooks
  <2> QED BY <2>1, <2>2
<1>6. PICK n \in Nat : n = Len(S) /\ DOMAIN S = 1 .. n
  BY LenProperties
<1>7. PICK T : T = Append(S, r)
  OBVIOUS
<1>8. /\ T \in Seq(Bills) /\ Len(T) = n + 1 /\ T[n + 1] = r /\ \A i \in 1 .. n : T[i] = S[i]
  BY <1>5, <1>6, <1>7, AppendProperties
<1>9. DOMAIN T = 1 .. n + 1 /\ Last(T) = r
  BY <1>8, LenProperties DEF Last
<1>10. \A i \in 1 .. n : S[i].close <= prior /\ S[i].close \in Int /\ prior < close
  <2>1. \A i \in 1 .. n : S[i] \in Bills
    BY <1>6, ElementOfSeq
  <2> QED BY <1>3, <1>6, <2>1 DEF Bills
<1>11. \A i \in 1 .. n : S[i].close # close /\ S[i].close <= close
  BY <1>1, <1>10
<1>12. PICK v : v = b.pending
  OBVIOUS
<1>13. /\ b.log = log /\ CyclesBy(log, close) /\ CyclesBy(v, close)
       /\ \A i \in 1 .. n : S[i].owed > 0 => Owing(log, v, S[i])
       /\ owed > 0 => Owing(log, v, r) /\ (b.inGrace => Earned(log, v, r))
  <2>1. /\ CyclesBy(log, close) /\ FeesAmong(log, close) = {} /\ PaymentsAmong(log, close) = {}
        /\ CyclesBy(u, close) /\ FeesAmong(u, close) = {} /\ PaymentsAmong(u, close) = {}
    <3>1. \A x \in DOMAIN u : u[x].row \in AnyRow
      <4>1. \A x \in 1 .. Len(u) : u[x] \in Waiting
        BY ElementOfSeq
      <4> QED BY <4>1, LenProperties DEF Waiting
    <3>2. \A x \in DOMAIN log : log[x].row \in AnyRow
      <4>1. \A x \in 1 .. Len(log) : log[x] \in Decisions
        BY ElementOfSeq
      <4> QED BY <4>1, LenProperties DEF Decisions
    <3> QED BY <1>1, <1>3, <3>1, <3>2, CyclesLater
  <2>2. CASE owed = 0
    <3>1. b = [s EXCEPT !.inGrace = TRUE]
      BY <1>4, <2>2 DEF Bill
    <3>2. b.log = log /\ v = u
      BY <1>2, <1>12, <3>1 DEF Cards
    <3>3. ~(owed > 0)
      BY <2>2
    <3>4. \A i \in 1 .. n : S[i].owed > 0 => Owing(log, v, S[i])
      BY <1>3, <1>6, <3>2
    <3>5. CyclesBy(v, close)
      BY <2>1, <3>2
    <3> QED BY <2>1, <3>2, <3>3, <3>4, <3>5
  <2>3. CASE owed # 0
    <3>1. /\ r.close = close /\ r.owed = owed /\ r.pay = pay /\ b.log = log
          /\ b.inGrace => r.pay.amt >= r.owed /\ IsOnTime(r.pay.when, DueOf(r.close))
      BY <1>2, <1>4, <2>3, BillBooks
    <3>2. PICK paid : \E inTime \in BOOLEAN :
            /\ Booking(u, paid, v, r, inTime)
            /\ inTime <=> r.pay.amt >= MinimumDue(r.owed) /\ IsOnTime(r.pay.when, DueOf(r.close))
            /\ inTime => r.pay.amt > 0
            /\ inTime => r.pay.when < WindowEnd \/ ~(FeeTime(r.close) < WindowEnd)
      BY <1>2, <1>4, <1>12, <2>3, BillBooks
    <3>3. PICK inTime \in BOOLEAN :
            /\ Booking(u, paid, v, r, inTime)
            /\ inTime <=> r.pay.amt >= MinimumDue(r.owed) /\ IsOnTime(r.pay.when, DueOf(r.close))
            /\ inTime => r.pay.amt > 0
            /\ inTime => r.pay.when < WindowEnd \/ ~(FeeTime(r.close) < WindowEnd)
      BY <3>2
    <3>4. Owing(log, v, r)
      BY <2>1, <3>1, <3>3, BookingOwing
    <3>5. ASSUME NEW i \in 1 .. n, S[i].owed > 0 PROVE Owing(log, v, S[i])
      <4>1. PICK a : a = S[i] /\ a.close # r.close /\ Owing(log, u, a)
        BY <1>3, <1>6, <1>11, <3>1, <3>5
      <4>2. Owing(log, v, a)
        BY <3>3, <4>1, BookingOthers
      <4> QED BY <4>1, <4>2
    <3>6. /\ CyclesBy(v, close)
          /\ r.pay.amt > 0 /\ r.pay.when < WindowEnd =>
               \E e \in DOMAIN v : /\ v[e].row.kind = "payment" /\ v[e].row.cycle = r.close
                                   /\ v[e].row.amt = r.pay.amt /\ v[e].row.ts = r.pay.when
      BY <1>1, <2>1, <3>1, <3>3, BookingAdds
    <3>7. ASSUME b.inGrace PROVE Earned(log, v, r)
      <4>1. r.pay.amt >= r.owed /\ IsOnTime(r.pay.when, DueOf(r.close))
        BY <3>1, <3>7
      <4>2. r.pay.amt \in Nat /\ r.pay.when \in Int /\ WindowEnd \in Int
        BY <1>5, Terms DEF Bills
      <4>3. r.pay.amt > 0
        BY <2>3, <3>1, <4>1, <4>2
      <4>4. CASE r.pay.when < WindowEnd
        <5>1. PICK e \in DOMAIN v : /\ v[e].row.kind = "payment" /\ v[e].row.cycle = r.close
                                    /\ v[e].row.amt = r.pay.amt /\ v[e].row.ts = r.pay.when
          BY <3>6, <4>3, <4>4
        <5>2. Clears(v[e].row, r)
          BY <4>1, <5>1 DEF Clears
        <5> QED BY <5>2 DEF Earned
      <4>5. CASE ~(r.pay.when < WindowEnd)
        <5>1. r.pay.when >= WindowEnd
          BY <4>2, <4>5
        <5> QED BY <5>1 DEF Earned
      <4> QED BY <4>4, <4>5
    <3> QED BY <2>1, <3>1, <3>4, <3>5, <3>6, <3>7
  <2> QED BY <2>2, <2>3
<1>14. Tally(log, v, b.inGrace, T, close)
  <2>1. ASSUME NEW i \in 1 .. n + 1
        PROVE  T[i].close <= close /\ (T[i].owed > 0 => Owing(log, v, T[i]))
    <3>1. CASE i = n + 1
      BY <1>1, <1>5, <1>8, <1>13, <3>1
    <3>2. CASE i # n + 1
      <4>1. i \in 1 .. n
        BY <3>2
      <4> QED BY <1>8, <1>11, <1>13, <4>1
    <3> QED BY <3>1, <3>2
  <2> QED BY <1>5, <1>9, <1>13, <2>1 DEF Tally
<1> QED BY <1>5, <1>7, <1>12, <1>13, <1>14

\* A close keeps the tally, its statement added.
LEMMA CloseTally ==
  ASSUME FeesApply, NEW c, NEW w \in Nat, NEW died \in Int, NEW d \in 0 .. Days - 1, w = 0 \/ w <= d - LagDays,
         Held(c, died), AtDusk(c, d, w, died), MustClose(c, Instant(d + 1, 0)),
         NEW close, close = NextClose(c), NEW disputes \in Disputes(c, close),
         NEW s, s = Statement(c, close, disputes), NEW pay \in Payments(s, close),
         NEW n, n = CloseCycle(s, pay),
         NEW S \in Seq(Bills), Tally(c.log, c.pending, c.inGrace, S, c.prior),
         NEW r, r = [close |-> close, owed |-> Owed(s), pay |-> pay]
  PROVE  /\ Append(S, r) \in Seq(Bills)
         /\ Tally(n.log, n.pending, n.inGrace, Append(S, r), n.prior)
<1>1. /\ CloseOn(close, died) /\ c.prior < close /\ c.prior \in Int
      /\ Sheet(c, c.prior, close, w, died) /\ InOpenCycle(c, c.prior, w)
  BY CloseStands
<1>2. Indexed(c, died) /\ ExactNet(c)
  BY DEF Held
<1>3. Quiet(c, s) /\ Sheet(s, close, close, w, died) /\ Billing(c, s, BilledCount(c, close))
  BY <1>1, <1>2, StatementIs, StatementQuiet
<1>4. s \in Cards /\ NextClose(s) = close
  BY <1>3 DEF Sheet, Billing, NextClose
<1>5. PICK prior \in Int : prior = c.prior
  BY <1>1
<1>6. Tally(s.log, s.pending, s.inGrace, S, prior)
  BY <1>3, <1>5, QuietTally
<1>7. PICK b : b = Bill(s, close, pay)
  OBVIOUS
<1>8. r \in Bills /\ Tally(b.log, b.pending, b.inGrace, Append(S, r), close)
  BY <1>1, <1>4, <1>5, <1>6, <1>7, BillTally
<1>9. b \in Cards
  <2>1. Sheet(b, close, close, w, died)
    BY <1>1, <1>3, <1>7, BillIs
  <2> QED BY <2>1 DEF Sheet
<1>10. PICK e : e = [b EXCEPT !.prior = close, !.closed = @ + 1]
  OBVIOUS
<1>11. e.log = b.log /\ e.pending = b.pending /\ e.inGrace = b.inGrace /\ e.prior = close
  BY <1>9, <1>10 DEF Cards
<1>12. n = Compact(e)
  BY <1>4, <1>7, <1>10 DEF CloseCycle
<1>13. n.log = e.log /\ n.pending = e.pending /\ n.inGrace = e.inGrace /\ n.prior = e.prior
  <2>1. CASE n = e
    BY <2>1
  <2>2. CASE n # e
    <3>1. \E x, y : n = [e EXCEPT !.indices = x, !.cursor = y]
      BY <1>12, <2>2 DEF Compact
    <3>2. PICK x, y : n = [e EXCEPT !.indices = x, !.cursor = y]
      BY <3>1
    <3> QED BY <1>9, <1>10, <3>2 DEF Cards
  <2> QED BY <2>1, <2>2
<1>14. Append(S, r) \in Seq(Bills)
  BY <1>8, AppendProperties
<1> QED BY <1>8, <1>11, <1>13, <1>14

-----------------------------------------------------------------------------
(* The fees and the grace of a run *)

FeesInv ==
  /\ statements \in Seq(Bills)
  /\ Tally(card.log, card.pending, card.inGrace, statements, card.prior)

\* The ledger's advance to a bound keeps the last close and the tally.
LEMMA PostedTally ==
  ASSUME NEW c, NEW lo \in Int, NEW low \in Int, NEW w \in Int, NEW died \in Int,
         Sheet(c, lo, low, w, died), lo <= low, 7 * w <= low, NEW bound \in Int,
         NEW S, Tally(c.log, c.pending, c.inGrace, S, c.prior),
         NEW n, n = AdvanceLedgerTo(c, bound)
  PROVE  n \in Cards /\ Tally(n.log, n.pending, n.inGrace, S, n.prior)
<1>1. PICK prior : prior = c.prior
  OBVIOUS
<1>2. Tally(n.log, n.pending, n.inGrace, S, prior)
  BY <1>1, AdvanceTally
<1>3. Sheet(n, lo, low, w, died) /\ Posts(c, n)
  BY AdvanceIs
<1> QED BY <1>1, <1>2, <1>3 DEF Sheet, Posts, SameSession

LEMMA InitTally ==
  ASSUME Init
  PROVE  FeesInv
<1>1. PICK e : /\ e = card /\ e.log = << >> /\ e.pending = << >>
  BY DEF Init, NewCard
<1>2. statements = << >> /\ DOMAIN << >> = {} /\ << >> \in Seq(Bills)
  BY DEF Init
<1>3. Tally(e.log, e.pending, e.inGrace, statements, e.prior)
  BY <1>1, <1>2 DEF Tally, CyclesBy
<1> QED BY <1>1, <1>2, <1>3 DEF FeesInv

LEMMA SpendTally ==
  ASSUME IndInv, FeesInv, Spend
  PROVE  FeesInv'
<1>1. PICK r : Handed(card, r, day, through, death) /\ card' = AdvanceLedgerTo(r, Instant(day + 1, 0))
  BY SpendHands
<1>2. PICK c, n, d, w, died, S : /\ c = card /\ n = card' /\ d = day /\ w = through /\ died = death
                                 /\ S = statements
  OBVIOUS
<1>3. /\ d \in 0 .. Days - 1 /\ w \in Int /\ died \in Int /\ 7 * w <= Instant(d, 0)
      /\ AtDawn(c, d, w, died) /\ Handed(c, r, d, w, died)
      /\ n = AdvanceLedgerTo(r, Instant(d + 1, 0))
  BY <1>1, <1>2, SpendHands
<1>4. PICK low \in Int, bound \in Int : low = Instant(d, 0) /\ bound = Instant(d + 1, 0)
  BY <1>3, Terms DEF Instant, Ticks
<1>5. PICK lo \in Int : lo = c.prior /\ lo <= low
  BY <1>3, <1>4, CardFields DEF AtDawn, Sheet
<1>6. Sheet(r, lo, low, w, died) /\ r.log = c.log /\ r.pending = c.pending /\ r.inGrace = c.inGrace
      /\ r.prior = c.prior
  BY <1>3, <1>4, <1>5 DEF Handed
<1>7. S \in Seq(Bills) /\ Tally(r.log, r.pending, r.inGrace, S, r.prior)
  BY <1>2, <1>6 DEF FeesInv
<1>8. 7 * w <= low /\ n = AdvanceLedgerTo(r, bound)
  BY <1>3, <1>4
<1>9. Tally(n.log, n.pending, n.inGrace, S, n.prior)
  BY <1>3, <1>5, <1>6, <1>7, <1>8, PostedTally
<1>10. statements' = S
  BY <1>2 DEF Spend
<1> QED BY <1>2, <1>7, <1>9, <1>10 DEF FeesInv

LEMMA CloseTallies ==
  ASSUME FeesApply, IndInv, FeesInv, Close
  PROVE  FeesInv'
<1>1. /\ phase = "close" /\ AtDusk(card, day, through, death) /\ Held(card, death)
      /\ (through = 0 \/ through <= day - LagDays)
  BY DEF IndInv, Close
<1>2. PICK c, n, d, w, died, S : /\ c = card /\ n = card' /\ d = day /\ w = through /\ died = death
                                 /\ S = statements
  OBVIOUS
<1>3. day < Days /\ day \in 0 .. Days - 1 /\ death \in Int /\ through \in Nat
  BY <1>1, SpenderIs DEF IndInv
<1>4. /\ Held(c, died) /\ AtDusk(c, d, w, died) /\ w \in Nat /\ died \in Int /\ d \in 0 .. Days - 1
      /\ w = 0 \/ w <= d - LagDays
  BY <1>1, <1>2, <1>3
<1>5. PICK close : close = NextClose(c)
  OBVIOUS
<1>6. MustClose(c, Instant(d + 1, 0))
  BY <1>2 DEF Close, Tomorrow
<1>7. PICK disputes \in Disputes(c, close) :
        \E s \in {Statement(c, close, disputes)} : \E pay \in Payments(s, close) :
          /\ n = CloseCycle(s, pay)
          /\ statements' = Append(statements, [close |-> close, owed |-> Owed(s), pay |-> pay])
  BY <1>2, <1>5 DEF Close
<1>8. PICK s : /\ s = Statement(c, close, disputes)
               /\ \E pay \in Payments(s, close) :
                    /\ n = CloseCycle(s, pay)
                    /\ statements' = Append(statements, [close |-> close, owed |-> Owed(s), pay |-> pay])
  BY <1>7
<1>9. PICK pay \in Payments(s, close) :
        /\ n = CloseCycle(s, pay)
        /\ statements' = Append(statements, [close |-> close, owed |-> Owed(s), pay |-> pay])
  BY <1>8
<1>10. PICK r : r = [close |-> close, owed |-> Owed(s), pay |-> pay]
  OBVIOUS
<1>11. S \in Seq(Bills) /\ Tally(c.log, c.pending, c.inGrace, S, c.prior)
  BY <1>2 DEF FeesInv
<1>12. Append(S, r) \in Seq(Bills) /\ Tally(n.log, n.pending, n.inGrace, Append(S, r), n.prior)
  BY <1>4, <1>5, <1>6, <1>8, <1>9, <1>10, <1>11, CloseTally
<1>13. statements' = Append(S, r)
  BY <1>2, <1>9, <1>10
<1> QED BY <1>2, <1>12, <1>13 DEF FeesInv

LEMMA EndDayTally ==
  ASSUME IndInv, FeesInv, EndDay
  PROVE  FeesInv'
<1>1. /\ phase = "close" /\ AtDusk(card, day, through, death) /\ day < Days
      /\ (through = 0 \/ through <= day - LagDays)
  BY DEF IndInv, EndDay
<1>2. /\ death \in Int /\ through \in Nat /\ LagDays \in Nat /\ day \in 0 .. Days - 1 /\ day \in Int
  BY <1>1, SpenderIs
<1>3. PICK c, n, S : c = card /\ n = card' /\ S = statements
  OBVIOUS
<1>4. PICK w \in Int, died \in Int : w = through /\ died = death
  BY <1>2
<1>5. PICK D \in Int, bound \in Int : /\ D = Instant(day, 0) /\ bound = Instant(day + 1, 0) /\ 7 * w <= D
  <2>1. Instant(day, 0) \in Int /\ Instant(day + 1, 0) \in Int
    BY <1>2 DEF Instant, Ticks
  <2>2. 7 * w <= day * 7 + 0
    BY <1>1, <1>2, <1>4
  <2> QED BY <2>1, <2>2 DEF Instant, Ticks
<1>6. /\ Sheet(c, c.prior, D, w, died) /\ Sheet(c, c.prior, c.prior, w, died)
      /\ c.prior \in Int
  <2>1. Sheet(c, c.prior, D, w, died) /\ Sheet(c, c.prior, c.prior, w, died)
    BY <1>1, <1>3, <1>4, <1>5 DEF AtDusk
  <2> QED BY <2>1, CardFields DEF Sheet
<1>7. PICK lo \in Int, low \in Int : lo = c.prior /\ D <= low /\ lo <= low /\ Sheet(c, lo, low, w, died)
  <2>1. CASE c.prior <= D
    BY <1>6, <2>1
  <2>2. CASE ~(c.prior <= D)
    BY <1>6, <2>2
  <2> QED BY <2>1, <2>2
<1>8. 7 * w <= low
  BY <1>5, <1>7
<1>9. PICK posted : posted = AdvanceLedgerTo(c, bound)
  OBVIOUS
<1>10. S \in Seq(Bills) /\ Tally(c.log, c.pending, c.inGrace, S, c.prior)
  BY <1>3 DEF FeesInv
<1>11. posted \in Cards /\ Tally(posted.log, posted.pending, posted.inGrace, S, posted.prior)
  BY <1>7, <1>8, <1>9, <1>10, PostedTally
<1>12. /\ n = posted \/ n = [posted EXCEPT !.emitted = << >>]
       /\ statements' = S
  BY <1>3, <1>5, <1>9 DEF EndDay, Tomorrow
<1>13. n.log = posted.log /\ n.pending = posted.pending /\ n.inGrace = posted.inGrace
       /\ n.prior = posted.prior
  BY <1>11, <1>12 DEF Cards
<1> QED BY <1>3, <1>10, <1>11, <1>12, <1>13 DEF FeesInv

LEMMA FinishTally ==
  ASSUME IndInv, FeesInv, Finish
  PROVE  FeesInv'
<1>1. AtEnd(card, through, death)
  BY DEF IndInv, Finish
<1>2. card' = card
  <2>1. card \in Cards /\ card.pending = << >> /\ WindowEnd \in Int
    BY <1>1, Terms DEF AtEnd, Sheet
  <2> QED BY <2>1, AdvanceNothing DEF Finish
<1>3. statements' = statements
  BY DEF Finish
<1> QED BY <1>2, <1>3 DEF FeesInv

LEMMA FeesInvariance ==
  ASSUME FeesApply
  PROVE  Spec => []FeesInv
<1>1. Init => FeesInv
  BY InitTally
<1>2. IndInv /\ FeesInv /\ [Next]_vars => FeesInv'
  <2> SUFFICES ASSUME IndInv, FeesInv, [Next]_vars PROVE FeesInv'
    OBVIOUS
  <2>1. CASE Spend
    BY <2>1, SpendTally
  <2>2. CASE Close
    BY <2>2, CloseTallies
  <2>3. CASE EndDay
    BY <2>3, EndDayTally
  <2>4. CASE Finish
    BY <2>4, FinishTally
  <2>5. CASE Done \/ UNCHANGED vars
    BY <2>5 DEF Done, vars, FeesInv
  <2> QED BY <2>1, <2>2, <2>3, <2>4, <2>5 DEF Next
<1> QED BY <1>1, <1>2, Invariance, PTL DEF Spec

LEMMA MetIsPaid ==
  ASSUME NEW s
  PROVE  Met(s) <=> Paid(card.log, s)
BY DEF Met, Paid, PaymentsAmong, Meets

LEMMA AllEarned ==
  ASSUME IndInv, FeesInv
  PROVE  FeesEarned
<1>1. PICK log, u, S : log = card.log /\ u = card.pending /\ S = statements
  OBVIOUS
<1>2. Tally(log, u, card.inGrace, S, card.prior) /\ S \in Seq(Bills)
  BY <1>1 DEF FeesInv
<1>3. \A i \in DOMAIN S : S[i] \in Bills /\ (S[i].owed > 0 => Owing(log, u, S[i]))
  <2>1. DOMAIN S = 1 .. Len(S)
    BY <1>2, LenProperties
  <2> QED BY <1>2, <2>1, ElementOfSeq DEF Tally
<1>4. ASSUME NEW i \in DOMAIN statements, statements[i].owed > 0, phase = "spend",
             Instant(day, 0) > ResolveDueDate(DueOf(statements[i].close)),
             FeeTime(statements[i].close) < WindowEnd
      PROVE  Fees(statements[i].close) = IF Met(statements[i]) THEN 0 ELSE 1
  <2>1. PICK s \in Bills : s = statements[i] /\ Owing(log, u, s)
    BY <1>1, <1>3, <1>4
  <2>2. PICK due \in Int, D \in Int : due = ResolveDueDate(DueOf(s.close)) /\ D = Instant(day, 0) /\ D > due
    <3>1. s.close \in Int /\ day \in Int
      BY <2>1, SpenderIs DEF Bills, IndInv
    <3>2. ResolveDueDate(DueOf(s.close)) \in Int /\ Instant(day, 0) \in Int
      BY <3>1, FeeTimeIs DEF Instant, Ticks
    <3> QED BY <1>4, <2>1, <3>2
  <2>3. ~Awaited(log, u, s)
    <3> SUFFICES ASSUME Awaited(log, u, s) PROVE FALSE
      OBVIOUS
    <3>1. PICK x \in DOMAIN u : IsOnTime(u[x].row.ts, DueOf(s.close))
      BY DEF Awaited, Meets
    <3>2. AtDawn(card, day, through, death)
      BY <1>4 DEF IndInv
    <3>3. u \in Seq(Waiting) /\ \A y \in 1 .. Len(u) : u[y].row.ts >= D
      BY <1>1, <2>2, <3>2, CardFields DEF AtDawn, Sheet
    <3>4. x \in 1 .. Len(u) /\ u[x] \in Waiting
      BY <3>1, <3>3, LenProperties, ElementOfSeq
    <3>5. PICK t \in Int : t = u[x].row.ts /\ t >= D
      BY <3>3, <3>4 DEF Waiting, AnyRow
    <3>6. t <= due
      BY <2>2, <3>1, <3>5 DEF IsOnTime
    <3> QED BY <2>2, <3>5, <3>6
  <2>4. Fees(s.close) = Cardinality(FeesAmong(log, s.close)) + Cardinality(FeesAmong(u, s.close))
    BY <1>1 DEF Fees
  <2>5. Met(s) <=> Paid(log, s)
    BY <1>1, MetIsPaid
  <2>6. Cardinality({}) = 0 /\ \A x : Cardinality({x}) = 1
    BY FS_EmptySet, FS_Singleton
  <2>7. CASE Received(log, u, s)
    <3>1. Fees(s.close) = 0 + 0 /\ Met(s)
      BY <2>4, <2>5, <2>6, <2>7 DEF Received
    <3> QED BY <2>1, <3>1
  <2>8. CASE Missed(log, u, s)
    <3>1. ~Met(s)
      BY <2>5, <2>8 DEF Missed
    <3>2. FeeTime(s.close) < WindowEnd
      BY <1>4, <2>1
    <3>3. \/ (\E x \in DOMAIN log : FeesAmong(log, s.close) = {x}) /\ FeesAmong(u, s.close) = {}
          \/ FeesAmong(log, s.close) = {} /\ \E x \in DOMAIN u : FeesAmong(u, s.close) = {x}
      BY <2>8, <3>2 DEF Missed
    <3>4. Fees(s.close) = 1 + 0 \/ Fees(s.close) = 0 + 1
      BY <2>4, <2>6, <3>3
    <3> QED BY <2>1, <3>1, <3>4
  <2> QED BY <2>1, <2>3, <2>7, <2>8 DEF Owing
<1>5. FeeIffMissed
  BY <1>4 DEF FeeIffMissed
<1>6. GraceEarned
  BY <1>1, <1>2 DEF GraceEarned, Tally, Earned, Clears
<1> QED BY <1>5, <1>6 DEF FeesEarned

\* Whatever is bought, disputed and paid, a statement whose due date has passed has
\* been charged one late fee if no payment of its minimum was taken in time, and none
\* otherwise; and a card is in its grace period only while its last statement is paid
\* in full and in time, or its payment is dated past the window.  With a minimum
\* payment or a late fee of zero, which BillingTerms::validate takes, a statement is
\* met by paying nothing or missed for free (Session::run, Session::advanceLedgerTo).
THEOREM FeesAreEarned ==
  ASSUME FeesApply
  PROVE  Spec => []FeesEarned
<1>1. IndInv /\ FeesInv => FeesEarned
  BY AllEarned
<1>2. Spec => []FeesInv
  BY FeesInvariance
<1> QED BY <1>1, <1>2, Invariance, PTL
=============================================================================
