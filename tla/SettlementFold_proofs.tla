----------------------- MODULE SettlementFold_proofs -----------------------
(***************************************************************************)
(* The settlement fold for every run, every schedule of spans and every    *)
(* outcome of the random lane: each row has one fate, its attempts are     *)
(* bounded, what leaves is in order, and the rows explain the book.        *)
(***************************************************************************)
EXTENDS SettlementFold, InductionLemmas

-----------------------------------------------------------------------------
(* Counting and sorting *)

\* What Arranged returns is a permutation in the given order.
LEMMA ArrangedIs ==
  ASSUME NEW X, NEW s \in Seq(X), NEW R, StrictOrder(R, 1 .. Len(s))
  PROVE  /\ Arranged(s, R) \in Seq(X) /\ Len(Arranged(s, R)) = Len(s) /\ Len(s) \in Nat
         /\ \E p : /\ Arranges(p, Len(s), R)
                   /\ \A j \in 1 .. Len(s) : Arranged(s, R)[j] = s[p[j]]
<1>1. PICK N \in Nat : N = Len(s) /\ DOMAIN s = 1 .. N /\ \A n \in 1 .. N : s[n] \in X
  BY LenProperties, ElementOfSeq
<1>2. PICK S : S = 1 .. N
  OBVIOUS
<1>3. IsFiniteSet(S) /\ Cardinality(S) = N
  BY <1>2, FS_Interval
<1>4. StrictOrder(R, S)
  BY <1>1, <1>2
<1> DEFINE at(j) == CHOOSE n \in S : Cardinality(Preceding(S, R, n)) = j - 1
<1>5. ASSUME NEW j \in S PROVE at(j) \in S /\ Cardinality(Preceding(S, R, at(j))) = j - 1
  <2>1. \E n \in S : Cardinality(Preceding(S, R, n)) = j - 1
    <3>1. j \in 1 .. Cardinality(S)
      BY <1>2, <1>3
    <3> QED BY <1>3, <1>4, <3>1, OrderPlaceTaken
  <2> QED BY <2>1
<1>6. Arranged(s, R) = [j \in S |-> s[at(j)]]
  BY <1>1, <1>2 DEF Arranged, Preceding
<1> HIDE DEF at
<1> DEFINE p == [j \in S |-> at(j)]
<1>7. \A j \in S : p[j] = at(j) /\ p[j] \in S /\ Cardinality(Preceding(S, R, p[j])) = j - 1
  BY <1>5
<1>8. p \in [S -> S] /\ \A j \in S : Arranged(s, R)[j] = s[p[j]]
  BY <1>5, <1>6
<1> HIDE DEF p
<1>9. \A i, j \in S : p[i] = p[j] => i = j
  <2> SUFFICES ASSUME NEW i \in S, NEW j \in S, p[i] = p[j] PROVE i = j
    OBVIOUS
  <2>1. i - 1 = j - 1
    BY <1>7
  <2> QED BY <1>2, <2>1
<1>10. ASSUME NEW m \in S, NEW n \in S,
              Cardinality(Preceding(S, R, m)) = Cardinality(Preceding(S, R, n))
       PROVE  m = n
  <2>1. Cardinality(Preceding(S, R, m)) \in Nat
    BY <1>3, <1>4, OrderPlaces
  <2>2. <<m, n>> \notin R /\ <<n, m>> \notin R
    BY <1>3, <1>4, <1>10, <2>1, OrderPlaces
  <2> QED BY <1>4, <2>2 DEF StrictOrder
<1>11. ASSUME NEW m \in S PROVE \E i \in S : p[i] = m
  <2>1. PICK r \in Nat : r = Cardinality(Preceding(S, R, m)) /\ r < N
    BY <1>3, <1>4, OrderPlaces
  <2>2. PICK i : i = r + 1
    OBVIOUS
  <2>3. i \in S /\ i - 1 = r
    BY <1>2, <2>1, <2>2
  <2>4. p[i] \in S /\ Cardinality(Preceding(S, R, p[i])) = r
    BY <1>7, <2>3
  <2> QED BY <1>10, <2>1, <2>3, <2>4
<1>12. ASSUME NEW i \in S, NEW j \in S, i < j PROVE <<p[i], p[j]>> \in R
  <2>1. PICK x \in S, y \in S : x = p[i] /\ y = p[j]
    BY <1>7
  <2>2. Cardinality(Preceding(S, R, x)) = i - 1 /\ Cardinality(Preceding(S, R, y)) = j - 1
    BY <1>7, <2>1
  <2>3. i \in Nat /\ j \in Nat
    BY <1>2
  <2>4. ~(Cardinality(Preceding(S, R, y)) < Cardinality(Preceding(S, R, x))) /\ x # y
    BY <1>12, <2>2, <2>3
  <2>5. <<y, x>> \notin R
    BY <1>3, <1>4, <2>4, OrderPlaces
  <2> QED BY <1>4, <2>1, <2>4, <2>5 DEF StrictOrder
<1>13. Arranges(p, N, R)
  BY <1>2, <1>8, <1>9, <1>11, <1>12 DEF Arranges
<1>14. \A j \in 1 .. N : Arranged(s, R)[j] \in X
  BY <1>1, <1>2, <1>7, <1>8
<1>15. Arranged(s, R) = [j \in 1 .. N |-> s[at(j)]]
  BY <1>2, <1>6
<1>16. Arranged(s, R) \in Seq(X) /\ Len(Arranged(s, R)) = N
  BY <1>14, <1>15
<1> QED BY <1>1, <1>2, <1>8, <1>13, <1>16

\* The places of the rows of id.
Places(rows, id) == {n \in DOMAIN rows : rows[n].audit = id}

\* A row stands at finitely many places, so it can be counted.
LEMMA PlacesFinite ==
  ASSUME NEW X, NEW s \in Seq(X)
  PROVE  /\ Len(s) \in Nat /\ DOMAIN s = 1 .. Len(s)
         /\ \A id : /\ IsFiniteSet(Places(s, id)) /\ Places(s, id) \subseteq 1 .. Len(s)
                    /\ Count(s, id) = Cardinality(Places(s, id)) /\ Count(s, id) \in Nat
<1>1. Len(s) \in Nat /\ DOMAIN s = 1 .. Len(s)
  BY LenProperties
<1>2. IsFiniteSet(1 .. Len(s))
  BY <1>1, FS_Interval
<1>3. ASSUME NEW id PROVE IsFiniteSet(Places(s, id)) /\ Cardinality(Places(s, id)) \in Nat
  <2>1. Places(s, id) \in SUBSET (1 .. Len(s))
    BY <1>1 DEF Places
  <2>2. IsFiniteSet(Places(s, id))
    BY <1>2, <2>1, FS_Subset
  <2> QED BY <2>2, FS_CardinalityType
<1> QED BY <1>1, <1>3 DEF Places, Count

\* No row stands in the empty sequence.
LEMMA CountEmpty == \A id : Count(<< >>, id) = 0
<1>1. ASSUME NEW id PROVE {n \in DOMAIN << >> : << >>[n].audit = id} = {}
  OBVIOUS
<1> QED BY <1>1, FS_EmptySet DEF Count

\* A row put at the end counts once more.
LEMMA CountAppend ==
  ASSUME NEW X, NEW s \in Seq(X), NEW r \in X, NEW id
  PROVE  Count(Append(s, r), id) = Count(s, id) + IF r.audit = id THEN 1 ELSE 0
<1>1. PICK N \in Nat : N = Len(s) /\ DOMAIN s = 1 .. N
  BY LenProperties
<1>2. PICK t \in Seq(X) : t = Append(s, r)
  BY AppendProperties
<1>3. DOMAIN t = 1 .. N + 1 /\ t[N + 1] = r /\ \A i \in 1 .. N : t[i] = s[i]
  <2>1. Len(t) = N + 1 /\ t[N + 1] = r /\ \A i \in 1 .. N : t[i] = s[i]
    BY <1>1, <1>2, AppendProperties
  <2> QED BY <2>1, LenProperties
<1>4. IsFiniteSet(Places(s, id)) /\ N + 1 \notin Places(s, id) /\ Count(s, id) \in Nat
  BY <1>1, PlacesFinite
<1>5. CASE r.audit = id
  <2>1. Places(t, id) = Places(s, id) \cup {N + 1}
    BY <1>1, <1>3, <1>5 DEF Places
  <2>2. Cardinality(Places(s, id) \cup {N + 1}) = Cardinality(Places(s, id)) + 1
    BY <1>4, FS_AddElement
  <2>3. Count(t, id) = Cardinality(Places(t, id)) /\ Count(s, id) = Cardinality(Places(s, id))
    BY PlacesFinite
  <2> QED BY <1>2, <1>5, <2>1, <2>2, <2>3
<1>6. CASE r.audit # id
  <2>1. Places(t, id) = Places(s, id)
    BY <1>1, <1>3, <1>6 DEF Places
  <2>2. Count(t, id) = Cardinality(Places(t, id)) /\ Count(s, id) = Cardinality(Places(s, id))
    BY PlacesFinite
  <2> QED BY <1>2, <1>4, <1>6, <2>1, <2>2
<1> QED BY <1>5, <1>6

\* A part of a sequence counts the places it is taken from.
LEMMA CountPart ==
  ASSUME NEW X, NEW s \in Seq(X), NEW a \in 0 .. Len(s), NEW b \in a .. Len(s), NEW id
  PROVE  /\ SubSeq(s, a + 1, b) \in Seq(X) /\ Len(SubSeq(s, a + 1, b)) = b - a
         /\ \A i \in 1 .. b - a : SubSeq(s, a + 1, b)[i] = s[a + i]
         /\ Count(SubSeq(s, a + 1, b), id) = Cardinality(Places(s, id) \cap (a + 1 .. b))
<1>1. PICK N \in Nat : N = Len(s) /\ DOMAIN s = 1 .. N /\ \A n \in 1 .. N : s[n] \in X
  BY LenProperties, ElementOfSeq
<1>2. a \in Int /\ b \in Int /\ a + 1 \in Int
  BY <1>1
<1>3. PICK t : t = SubSeq(s, a + 1, b)
  OBVIOUS
<1>4. /\ t \in Seq(X) /\ Len(t) = IF a + 1 <= b THEN b - (a + 1) + 1 ELSE 0
      /\ \A i \in 1 .. b - (a + 1) + 1 : t[i] = s[a + 1 + i - 1]
  <2>1. \A i \in a + 1 .. b : s[i] \in X
    BY <1>1
  <2> QED BY <1>2, <1>3, <2>1, SubSeqProperties
<1>5. Len(t) = b - a /\ \A i \in 1 .. b - a : t[i] = s[a + i]
  <2>1. Len(t) = b - a
    BY <1>1, <1>2, <1>4
  <2>2. ASSUME NEW i \in 1 .. b - a PROVE t[i] = s[a + i]
    <3>1. i \in 1 .. b - (a + 1) + 1 /\ a + 1 + i - 1 = a + i
      BY <1>2
    <3> QED BY <1>4, <3>1
  <2> QED BY <2>1, <2>2
<1>6. PICK S : S = Places(t, id)
  OBVIOUS
<1>7. PICK T : T = Places(s, id) \cap (a + 1 .. b)
  OBVIOUS
<1>8. S = {i \in 1 .. b - a : s[a + i].audit = id}
  <2>1. DOMAIN t = 1 .. b - a
    BY <1>4, <1>5, LenProperties
  <2> QED BY <1>5, <1>6, <2>1 DEF Places
<1>9. T = {n \in a + 1 .. b : s[n].audit = id}
  BY <1>1, <1>7 DEF Places
<1> DEFINE f == [i \in S |-> a + i]
<1>10. f \in [S -> T]
  <2>1. ASSUME NEW i \in S PROVE a + i \in T
    BY <1>2, <1>8, <1>9
  <2> QED BY <2>1
<1>11. \A x, y \in S : f[x] = f[y] => x = y
  BY <1>2, <1>8
<1>12. ASSUME NEW n \in T PROVE \E i \in S : f[i] = n
  <2>1. PICK i : i = n - a
    OBVIOUS
  <2>2. n \in a + 1 .. b /\ s[n].audit = id
    BY <1>9
  <2>3. i \in 1 .. b - a /\ a + i = n
    BY <1>2, <2>1, <2>2
  <2>4. i \in S
    BY <1>8, <2>2, <2>3
  <2> QED BY <2>3, <2>4
<1>13. IsFiniteSet(S)
  BY <1>4, <1>6, PlacesFinite
<1> HIDE DEF f
<1>14. Cardinality(T) = Cardinality(S)
  BY <1>10, <1>11, <1>12, <1>13, SameNumber
<1>15. Count(t, id) = Cardinality(S)
  BY <1>4, <1>6, PlacesFinite
<1> QED BY <1>3, <1>4, <1>5, <1>7, <1>14, <1>15

\* The two parts of a sequence count what it counts.
LEMMA CountSplit ==
  ASSUME NEW X, NEW s \in Seq(X), NEW a \in 0 .. Len(s), NEW id
  PROVE  Count(SubSeq(s, 1, a), id) + Count(SubSeq(s, a + 1, Len(s)), id) = Count(s, id)
<1>1. PICK N \in Nat : N = Len(s) /\ a \in 0 .. N
  BY LenProperties
<1>2. PICK P : P = Places(s, id)
  OBVIOUS
<1>3. IsFiniteSet(P) /\ P \subseteq 1 .. N /\ Count(s, id) = Cardinality(P)
  BY <1>1, <1>2, PlacesFinite
<1>4. PICK A : A = P \cap (0 + 1 .. a)
  OBVIOUS
<1>5. PICK B : B = P \cap (a + 1 .. N)
  OBVIOUS
<1>6. A \cup B = P /\ A \cap B = {}
  <2>1. \A n \in 1 .. N : n \in (0 + 1 .. a) <=> n \notin (a + 1 .. N)
    BY <1>1
  <2> QED BY <1>3, <1>4, <1>5, <2>1
<1>7. IsFiniteSet(A) /\ IsFiniteSet(B)
  <2>1. A \in SUBSET P /\ B \in SUBSET P
    BY <1>4, <1>5
  <2> QED BY <1>3, <2>1, FS_Subset
<1>8. /\ Cardinality(A) \in Nat /\ Cardinality(B) \in Nat
      /\ Cardinality(A \cup B) = Cardinality(A) + Cardinality(B) - Cardinality(A \cap B)
  <2>1. Cardinality(A) \in Nat /\ Cardinality(B) \in Nat
    BY <1>7, FS_CardinalityType
  <2>2. Cardinality(A \cup B) = Cardinality(A) + Cardinality(B) - Cardinality(A \cap B)
    BY <1>7, FS_Union
  <2> QED BY <2>1, <2>2
<1>9. Cardinality(P) = Cardinality(A) + Cardinality(B)
  <2>1. Cardinality(A \cap B) = 0
    BY <1>6, FS_EmptySet
  <2>2. PICK x \in Nat : x = Cardinality(A)
    BY <1>8
  <2>3. PICK y \in Nat : y = Cardinality(B)
    BY <1>8
  <2>4. Cardinality(A \cup B) = x + y
    BY <1>8, <2>1, <2>2, <2>3
  <2> QED BY <1>6, <2>2, <2>3, <2>4
<1>10. Count(SubSeq(s, 0 + 1, a), id) = Cardinality(A)
  <2>1. 0 \in 0 .. Len(s) /\ a \in 0 .. Len(s)
    BY <1>1
  <2> QED BY <1>2, <1>4, <2>1, CountPart
<1>11. Count(SubSeq(s, a + 1, N), id) = Cardinality(B)
  <2>1. a \in 0 .. Len(s) /\ N \in a .. Len(s)
    BY <1>1
  <2> QED BY <1>2, <1>5, <2>1, CountPart
<1>12. SubSeq(s, 0 + 1, a) = SubSeq(s, 1, a)
  OBVIOUS
<1> QED BY <1>1, <1>3, <1>9, <1>10, <1>11, <1>12

\* So do two sequences put together.
LEMMA CountConcat ==
  ASSUME NEW X, NEW s \in Seq(X), NEW t \in Seq(X), NEW id
  PROVE  Count(s \o t, id) = Count(s, id) + Count(t, id)
<1>1. PICK M \in Nat : M = Len(s)
  BY LenProperties
<1>2. PICK N \in Nat : N = Len(t)
  BY LenProperties
<1>3. PICK u \in Seq(X) : u = s \o t
  BY ConcatProperties
<1>4. Len(u) = M + N
  BY <1>1, <1>2, <1>3, ConcatProperties
<1>5. /\ \A i \in 1 .. M : u[i] = s[i]
      /\ \A i \in 1 .. N : u[M + i] = t[i]
  BY <1>1, <1>2, <1>3
<1>6. SubSeq(u, 0 + 1, M) = s
  <2>1. PICK v : v = SubSeq(u, 0 + 1, M)
    OBVIOUS
  <2>2. 0 \in 0 .. Len(u) /\ M \in 0 .. Len(u) /\ M - 0 = M
    BY <1>1, <1>2, <1>4
  <2>3. v \in Seq(X) /\ Len(v) = M /\ \A i \in 1 .. M : v[i] = u[0 + i]
    <3>1. v \in Seq(X) /\ Len(v) = M - 0 /\ \A i \in 1 .. M - 0 : v[i] = u[0 + i]
      BY <2>1, <2>2, CountPart
    <3> QED BY <2>2, <3>1
  <2>4. \A i \in 1 .. M : v[i] = s[i]
    BY <1>1, <1>5, <2>3
  <2> QED BY <1>1, <2>1, <2>3, <2>4, SeqEqual
<1>7. SubSeq(u, M + 1, M + N) = t
  <2>1. PICK v : v = SubSeq(u, M + 1, M + N)
    OBVIOUS
  <2>2. M \in 0 .. Len(u) /\ M + N \in M .. Len(u) /\ M + N - M = N
    BY <1>1, <1>2, <1>4
  <2>3. v \in Seq(X) /\ Len(v) = M + N - M /\ \A i \in 1 .. M + N - M : v[i] = u[M + i]
    BY <2>1, <2>2, CountPart
  <2>4. Len(v) = N /\ \A i \in 1 .. N : v[i] = t[i]
    BY <1>5, <2>2, <2>3
  <2> QED BY <1>2, <2>1, <2>3, <2>4, SeqEqual
<1>8. M \in 0 .. Len(u)
  BY <1>1, <1>2, <1>4
<1>9. Count(SubSeq(u, 1, M), id) + Count(SubSeq(u, M + 1, M + N), id) = Count(u, id)
  BY <1>4, <1>8, CountSplit
<1>10. SubSeq(u, 0 + 1, M) = SubSeq(u, 1, M)
  OBVIOUS
<1> QED BY <1>3, <1>6, <1>7, <1>9, <1>10

\* A permuted sequence counts the same.
LEMMA CountArranged ==
  ASSUME NEW X, NEW s \in Seq(X), NEW R, StrictOrder(R, 1 .. Len(s)), NEW id
  PROVE  Count(Arranged(s, R), id) = Count(s, id)
<1>1. PICK N \in Nat : N = Len(s) /\ DOMAIN s = 1 .. N
  BY LenProperties
<1>2. PICK t \in Seq(X) : t = Arranged(s, R) /\ Len(t) = N
  BY <1>1, ArrangedIs
<1>3. PICK p : Arranges(p, N, R) /\ \A j \in 1 .. N : t[j] = s[p[j]]
  BY <1>1, <1>2, ArrangedIs
<1>4. DOMAIN t = 1 .. N
  BY <1>2, LenProperties
<1>5. PICK S : S = Places(t, id)
  OBVIOUS
<1>6. PICK T : T = Places(s, id)
  OBVIOUS
<1> DEFINE f == [j \in S |-> p[j]]
<1>7. f \in [S -> T]
  <2>1. ASSUME NEW j \in S PROVE p[j] \in T
    BY <1>1, <1>3, <1>4, <1>5, <1>6 DEF Places, Arranges
  <2> QED BY <2>1
<1>8. S \subseteq 1 .. N
  BY <1>4, <1>5 DEF Places
<1>9. \A x, y \in S : f[x] = f[y] => x = y
  BY <1>3, <1>8 DEF Arranges
<1>10. ASSUME NEW n \in T PROVE \E j \in S : f[j] = n
  <2>1. n \in 1 .. N /\ s[n].audit = id
    BY <1>1, <1>6 DEF Places
  <2>2. PICK j \in 1 .. N : p[j] = n
    BY <1>3, <2>1 DEF Arranges
  <2>3. j \in S
    BY <1>3, <1>4, <1>5, <2>1, <2>2 DEF Places
  <2> QED BY <2>2, <2>3
<1> HIDE DEF f
<1>11. IsFiniteSet(S)
  BY <1>5, PlacesFinite
<1>12. Cardinality(T) = Cardinality(S)
  BY <1>7, <1>9, <1>10, <1>11, SameNumber
<1> QED BY <1>2, <1>5, <1>6, <1>12, PlacesFinite
-----------------------------------------------------------------------------
(* The replay order *)

\* FundsLess is the lexicographic order of the audit keys.
LEMMA FundsLessIs ==
  ASSUME NEW r \in Postings, NEW s \in Postings
  PROVE  FundsLess(r, s) <=>
           \/ r.ts < s.ts
           \/ r.ts = s.ts /\ r.src < s.src
           \/ r.ts = s.ts /\ r.src = s.src /\ r.dst < s.dst
           \/ r.ts = s.ts /\ r.src = s.src /\ r.dst = s.dst /\ r.amount < s.amount
           \/ /\ r.ts = s.ts /\ r.src = s.src /\ r.dst = s.dst /\ r.amount = s.amount
              /\ r.audit < s.audit
<1>1. /\ AuditKey(r)[1] = r.ts /\ AuditKey(r)[2] = r.src /\ AuditKey(r)[3] = r.dst
      /\ AuditKey(r)[4] = r.amount /\ AuditKey(r)[5] = r.audit
      /\ AuditKey(s)[1] = s.ts /\ AuditKey(s)[2] = s.src /\ AuditKey(s)[3] = s.dst
      /\ AuditKey(s)[4] = s.amount /\ AuditKey(s)[5] = s.audit
  BY DEF AuditKey
<1> DEFINE At(i) == /\ AuditKey(r)[i] < AuditKey(s)[i]
                    /\ \A j \in 1 .. (i - 1) : AuditKey(r)[j] = AuditKey(s)[j]
<1>2. FundsLess(r, s) <=> At(1) \/ At(2) \/ At(3) \/ At(4) \/ At(5)
  <2>1. \A i : i \in 1 .. 5 <=> i \in {1, 2, 3, 4, 5}
    OBVIOUS
  <2> QED BY <2>1 DEF FundsLess
<1>3. At(1) <=> r.ts < s.ts
  BY <1>1
<1>4. At(2) <=> r.ts = s.ts /\ r.src < s.src
  <2>1. \A j : j \in 1 .. (2 - 1) <=> j = 1
    OBVIOUS
  <2> QED BY <1>1, <2>1
<1>5. At(3) <=> r.ts = s.ts /\ r.src = s.src /\ r.dst < s.dst
  <2>1. \A j : j \in 1 .. (3 - 1) <=> j \in {1, 2}
    OBVIOUS
  <2> QED BY <1>1, <2>1
<1>6. At(4) <=> r.ts = s.ts /\ r.src = s.src /\ r.dst = s.dst /\ r.amount < s.amount
  <2>1. \A j : j \in 1 .. (4 - 1) <=> j \in {1, 2, 3}
    OBVIOUS
  <2> QED BY <1>1, <2>1
<1>7. At(5) <=> /\ r.ts = s.ts /\ r.src = s.src /\ r.dst = s.dst /\ r.amount = s.amount
                /\ r.audit < s.audit
  <2>1. \A j : j \in 1 .. (5 - 1) <=> j \in {1, 2, 3, 4}
    OBVIOUS
  <2> QED BY <1>1, <2>1
<1> HIDE DEF At
<1> QED BY <1>2, <1>3, <1>4, <1>5, <1>6, <1>7

\* It follows the instants, and what is not less is an order too.
LEMMA FundsOrder ==
  ASSUME NEW r \in Postings, NEW s \in Postings
  PROVE  /\ ~FundsLess(r, r)
         /\ ~(FundsLess(r, s) /\ FundsLess(s, r))
         /\ r.ts < s.ts => FundsLess(r, s)
         /\ FundsLess(r, s) => r.ts <= s.ts
         /\ \A t \in Postings : FundsLess(r, s) /\ FundsLess(s, t) => FundsLess(r, t)
         /\ \A t \in Postings : ~FundsLess(r, s) /\ ~FundsLess(s, t) => ~FundsLess(r, t)
<1>1. \A x \in Postings : x.ts \in Int /\ x.src \in Int /\ x.dst \in Int
                          /\ x.amount \in Int /\ x.audit \in Int
  BY DEF Postings
<1>2. ~FundsLess(r, r)
  BY <1>1, FundsLessIs
<1>3. /\ ~(FundsLess(r, s) /\ FundsLess(s, r))
      /\ r.ts < s.ts => FundsLess(r, s)
      /\ FundsLess(r, s) => r.ts <= s.ts
  BY <1>1, FundsLessIs
<1>4. ASSUME NEW t \in Postings, FundsLess(r, s), FundsLess(s, t) PROVE FundsLess(r, t)
  BY <1>1, <1>4, FundsLessIs
<1>5. ASSUME NEW t \in Postings, ~FundsLess(r, s), ~FundsLess(s, t) PROVE ~FundsLess(r, t)
  BY <1>1, <1>5, FundsLessIs
<1> QED BY <1>2, <1>3, <1>4, <1>5

\* The replay order places every two rows, equal ones as they stand.
LEMMA ReplayOrderStrict ==
  ASSUME NEW s \in Seq(Postings)
  PROVE  StrictOrder(ReplayOrder(s), 1 .. Len(s))
<1>1. PICK N \in Nat : N = Len(s) /\ DOMAIN s = 1 .. N /\ \A n \in 1 .. N : s[n] \in Postings
  BY LenProperties, ElementOfSeq
<1>2. PICK R : R = ReplayOrder(s)
  OBVIOUS
<1>3. \A m, n \in 1 .. N : <<m, n>> \in R <=> \/ FundsLess(s[m], s[n])
                                              \/ ~FundsLess(s[n], s[m]) /\ m < n
  BY <1>1, <1>2 DEF ReplayOrder
<1>4. ASSUME NEW m \in 1 .. N PROVE <<m, m>> \notin R
  <2>1. s[m] \in Postings /\ m \in Int
    BY <1>1
  <2> QED BY <1>3, <2>1, FundsOrder
<1>5. ASSUME NEW m \in 1 .. N, NEW n \in 1 .. N, m # n PROVE <<m, n>> \in R \/ <<n, m>> \in R
  <2>1. m < n \/ n < m
    BY <1>5
  <2> QED BY <1>3, <2>1
<1>6. ASSUME NEW m \in 1 .. N, NEW n \in 1 .. N, NEW o \in 1 .. N, <<m, n>> \in R, <<n, o>> \in R
      PROVE  <<m, o>> \in R
  <2>1. PICK x \in Postings : x = s[m]
    BY <1>1
  <2>2. PICK y \in Postings : y = s[n]
    BY <1>1
  <2>3. PICK z \in Postings : z = s[o]
    BY <1>1
  <2>4. FundsLess(x, y) \/ (~FundsLess(y, x) /\ m < n)
    <3>1. FundsLess(s[m], s[n]) \/ (~FundsLess(s[n], s[m]) /\ m < n)
      BY <1>3, <1>6, Zenon
    <3> QED BY <2>1, <2>2, <3>1
  <2>5. FundsLess(y, z) \/ (~FundsLess(z, y) /\ n < o)
    <3>1. FundsLess(s[n], s[o]) \/ (~FundsLess(s[o], s[n]) /\ n < o)
      BY <1>3, <1>6, Zenon
    <3> QED BY <2>2, <2>3, <3>1
  <2>6. ~FundsLess(y, x) /\ ~FundsLess(z, y)
    BY <2>4, <2>5, FundsOrder
  <2>7. ~FundsLess(z, x)
    BY <2>6, FundsOrder
  <2>8. CASE FundsLess(x, z)
    BY <1>3, <2>1, <2>3, <2>8
  <2>9. CASE ~FundsLess(x, z)
    <3>1. ~FundsLess(x, y)
      <4>1. SUFFICES ASSUME FundsLess(x, y) PROVE FALSE
        OBVIOUS
      <4>2. ~FundsLess(x, z) /\ ~FundsLess(z, y)
        BY <2>6, <2>9
      <4>3. ~FundsLess(x, y)
        BY <4>2, FundsOrder
      <4> QED BY <4>1, <4>3
    <3>2. ~FundsLess(y, z)
      <4>1. ~FundsLess(y, x) /\ ~FundsLess(x, z)
        BY <2>6, <2>9
      <4> QED BY <4>1, FundsOrder
    <3>3. m < n /\ n < o
      BY <2>4, <2>5, <3>1, <3>2
    <3>4. m < o
      BY <3>3
    <3> QED BY <1>3, <2>1, <2>3, <2>7, <3>4
  <2> QED BY <2>8, <2>9
<1>7. StrictOrder(R, 1 .. N)
  BY <1>4, <1>5, <1>6 DEF StrictOrder
<1> QED BY <1>1, <1>2, <1>7

\* The order in the instant places every two rows, those of one instant as they stand.
LEMMA ClockOrderStrict ==
  ASSUME NEW s \in Seq(Postings)
  PROVE  StrictOrder(ClockOrder(s), 1 .. Len(s))
<1>1. PICK N \in Nat : N = Len(s) /\ DOMAIN s = 1 .. N /\ \A n \in 1 .. N : s[n] \in Postings
  BY LenProperties, ElementOfSeq
<1>2. PICK R : R = ClockOrder(s)
  OBVIOUS
<1>3. \A m, n \in 1 .. N : <<m, n>> \in R <=> \/ s[m].ts < s[n].ts
                                              \/ s[m].ts = s[n].ts /\ m < n
  BY <1>1, <1>2 DEF ClockOrder
<1>4. \A n \in 1 .. N : s[n].ts \in Int /\ n \in Int
  BY <1>1 DEF Postings
<1>5. StrictOrder(R, 1 .. N)
  BY <1>3, <1>4 DEF StrictOrder
<1> QED BY <1>1, <1>2, <1>5

\* t holds the rows of s in another order.
Permutes(t, s) ==
  /\ t \in Seq(Postings) /\ Len(t) = Len(s)
  /\ \A id : Count(t, id) = Count(s, id)
  /\ \A j \in 1 .. Len(t) : \E n \in 1 .. Len(s) : t[j] = s[n]

\* Sorting for the replay keeps the rows and puts them in order.
LEMMA SortedIs ==
  ASSUME NEW s \in Seq(Postings)
  PROVE  /\ Permutes(SortForReplay(s), s)
         /\ \A i, j \in 1 .. Len(s) : i < j => ~FundsLess(SortForReplay(s)[j], SortForReplay(s)[i])
<1>1. PICK N \in Nat : N = Len(s) /\ \A n \in 1 .. N : s[n] \in Postings
  BY LenProperties, ElementOfSeq
<1>2. PICK R : R = ReplayOrder(s) /\ StrictOrder(R, 1 .. Len(s))
  BY ReplayOrderStrict
<1>3. PICK t \in Seq(Postings) : t = Arranged(s, R) /\ Len(t) = N
  BY <1>1, <1>2, ArrangedIs
<1>4. t = SortForReplay(s)
  BY <1>2, <1>3 DEF SortForReplay
<1>5. PICK p : Arranges(p, N, R) /\ \A j \in 1 .. N : t[j] = s[p[j]]
  BY <1>1, <1>2, <1>3, ArrangedIs
<1>6. \A id : Count(t, id) = Count(s, id)
  BY <1>2, <1>3, CountArranged
<1>7. \A j \in 1 .. N : p[j] \in 1 .. N
  BY <1>5 DEF Arranges
<1>8. Permutes(t, s)
  BY <1>1, <1>3, <1>5, <1>6, <1>7 DEF Permutes
<1>9. ASSUME NEW i \in 1 .. N, NEW j \in 1 .. N, i < j PROVE ~FundsLess(t[j], t[i])
  <2>1. PICK m \in 1 .. N, n \in 1 .. N : m = p[i] /\ n = p[j]
    BY <1>7
  <2>2. <<m, n>> \in R
    BY <1>5, <1>9, <2>1 DEF Arranges
  <2>3. FundsLess(s[m], s[n]) \/ ~FundsLess(s[n], s[m])
    BY <1>2, <2>2 DEF ReplayOrder
  <2>4. PICK x \in Postings, y \in Postings : x = s[m] /\ y = s[n]
    BY <1>1
  <2>5. ~FundsLess(y, x)
    BY <2>3, <2>4, FundsOrder
  <2> QED BY <1>5, <2>1, <2>4, <2>5
<1> QED BY <1>1, <1>4, <1>8, <1>9

\* So does sorting stably in the instant.
LEMMA ClockedIs ==
  ASSUME NEW s \in Seq(Postings)
  PROVE  /\ Permutes(Arranged(s, ClockOrder(s)), s)
         /\ \A i, j \in 1 .. Len(s) :
              i < j => Arranged(s, ClockOrder(s))[i].ts <= Arranged(s, ClockOrder(s))[j].ts
<1>1. PICK N \in Nat : N = Len(s) /\ \A n \in 1 .. N : s[n] \in Postings
  BY LenProperties, ElementOfSeq
<1>2. PICK R : R = ClockOrder(s) /\ StrictOrder(R, 1 .. Len(s))
  BY ClockOrderStrict
<1>3. PICK t \in Seq(Postings) : t = Arranged(s, R) /\ Len(t) = N
  BY <1>1, <1>2, ArrangedIs
<1>5. PICK p : Arranges(p, N, R) /\ \A j \in 1 .. N : t[j] = s[p[j]]
  BY <1>1, <1>2, <1>3, ArrangedIs
<1>6. \A id : Count(t, id) = Count(s, id)
  BY <1>2, <1>3, CountArranged
<1>7. \A j \in 1 .. N : p[j] \in 1 .. N
  BY <1>5 DEF Arranges
<1>8. Permutes(t, s)
  BY <1>1, <1>3, <1>5, <1>6, <1>7 DEF Permutes
<1>9. ASSUME NEW i \in 1 .. N, NEW j \in 1 .. N, i < j PROVE t[i].ts <= t[j].ts
  <2>1. PICK m \in 1 .. N, n \in 1 .. N : m = p[i] /\ n = p[j]
    BY <1>7
  <2>2. <<m, n>> \in R
    BY <1>5, <1>9, <2>1 DEF Arranges
  <2>3. s[m].ts < s[n].ts \/ s[m].ts = s[n].ts
    BY <1>2, <2>2 DEF ClockOrder
  <2>4. s[m].ts \in Int /\ s[n].ts \in Int
    BY <1>1 DEF Postings
  <2>5. s[m].ts <= s[n].ts
    BY <2>3, <2>4
  <2>6. t[i] = s[m] /\ t[j] = s[n]
    BY <1>5, <2>1
  <2> QED BY <2>5, <2>6
<1> QED BY <1>1, <1>2, <1>3, <1>8, <1>9

\* The rows of s are in clock order.
Ascending(s) == \A i, j \in 1 .. Len(s) : i < j => s[i].ts <= s[j].ts

\* Rows in replay order are in clock order.
LEMMA SortedAscends ==
  ASSUME NEW s \in Seq(Postings)
  PROVE  Ascending(SortForReplay(s))
<1>1. PICK t \in Seq(Postings) : t = SortForReplay(s) /\ Len(t) = Len(s)
  BY SortedIs DEF Permutes
<1>2. ASSUME NEW i \in 1 .. Len(t), NEW j \in 1 .. Len(t), i < j PROVE t[i].ts <= t[j].ts
  <2>1. PICK x \in Postings, y \in Postings : x = t[i] /\ y = t[j]
    BY ElementOfSeq
  <2>2. ~FundsLess(y, x)
    BY <1>1, <1>2, <2>1, SortedIs
  <2>3. ~(y.ts < x.ts) /\ x.ts \in Int /\ y.ts \in Int
    BY <2>2, FundsOrder DEF Postings
  <2> QED BY <2>1, <2>3
<1> QED BY <1>1, <1>2 DEF Ascending

\* A set of places that has with each place all before it is an interval.
LEMMA Interval ==
  ASSUME NEW N \in Nat, NEW S \in SUBSET (1 .. N), \A m \in 1 .. N, n \in S : m <= n => m \in S
  PROVE  Cardinality(S) \in 0 .. N /\ S = 1 .. Cardinality(S)
<1>1. CASE S = {}
  <2>1. Cardinality(S) = 0
    BY <1>1, FS_EmptySet
  <2> QED BY <1>1, <2>1
<1>2. CASE S # {}
  <2>1. S \in SUBSET (0 .. N)
    OBVIOUS
  <2>2. PICK m \in S : \A x \in S : x <= m
    BY <1>2, <2>1, Greatest
  <2>3. S = 1 .. m /\ m \in 1 .. N
    <3>1. m \in 1 .. N
      OBVIOUS
    <3>2. ASSUME NEW x \in 1 .. m PROVE x \in S
      <4>1. x \in 1 .. N /\ x <= m
        BY <3>1
      <4> QED BY <4>1
    <3>3. ASSUME NEW x \in S PROVE x \in 1 .. m
      BY <2>2, <3>1
    <3> QED BY <3>1, <3>2, <3>3
  <2>4. Cardinality(1 .. m) = m
    <3>1. m \in Int /\ ~(1 > m) /\ m - 1 + 1 = m
      BY <2>3
    <3> QED BY <3>1, FS_Interval
  <2> QED BY <2>3, <2>4
<1> QED BY <1>1, <1>2

\* The rows before the bound are the first SliceTo rows.
LEMMA SliceIs ==
  ASSUME NEW s \in Seq(Postings), Ascending(s), NEW b \in Int
  PROVE  /\ SliceTo(s, b) \in 0 .. Len(s) /\ Len(s) \in Nat
         /\ \A n \in 1 .. Len(s) : n <= SliceTo(s, b) <=> s[n].ts < b
<1>1. PICK N \in Nat : N = Len(s) /\ DOMAIN s = 1 .. N /\ \A n \in 1 .. N : s[n] \in Postings
  BY LenProperties, ElementOfSeq
<1>2. PICK S : S = {n \in 1 .. N : s[n].ts < b}
  OBVIOUS
<1>3. \A n \in 1 .. N : s[n].ts \in Int
  BY <1>1 DEF Postings
<1>4. ASSUME NEW m \in 1 .. N, NEW n \in S, m <= n PROVE m \in S
  <2>1. n \in 1 .. N /\ s[n].ts < b
    BY <1>2
  <2>2. s[m].ts <= s[n].ts
    <3>1. m = n \/ m < n
      BY <1>4, <2>1
    <3> QED BY <1>1, <1>3, <2>1, <3>1 DEF Ascending
  <2>3. s[m].ts < b
    BY <1>3, <2>1, <2>2
  <2> QED BY <1>2, <2>3
<1>5. S \in SUBSET (1 .. N)
  BY <1>2
<1>6. PICK c \in 0 .. N : c = Cardinality(S) /\ S = 1 .. c
  <2>1. \A m \in 1 .. N, n \in S : m <= n => m \in S
    BY <1>4
  <2>2. Cardinality(S) \in 0 .. N /\ S = 1 .. Cardinality(S)
    BY <1>5, <2>1, Interval
  <2> QED BY <2>2
<1>7. SliceTo(s, b) = c
  BY <1>1, <1>2, <1>6 DEF SliceTo
<1>8. \A n \in 1 .. N : n <= c <=> n \in S
  <2>1. \A n : n \in S <=> n \in 1 .. c
    BY <1>6
  <2>2. \A n \in 1 .. N : n <= c <=> n \in 1 .. c
    BY <1>6
  <2> QED BY <2>1, <2>2
<1> QED BY <1>1, <1>2, <1>6, <1>7, <1>8

-----------------------------------------------------------------------------
(* The book *)

BookFields == {"cash", "buffer", "prot", "fee", "on", "apr", "integral", "lastUpd",
               "lastBill", "queued", "queue", "emit"}

\* A book whose balances, fees, rates and clocks are numbers.
IsBook(b) ==
  /\ b = [x \in BookFields |-> b[x]]
  /\ b.cash \in [Accounts -> Int] /\ b.fee \in [Accounts -> Int]
  /\ b.apr \in [Accounts -> Int] /\ b.integral \in [Accounts -> Int]
  /\ b.lastUpd \in [Accounts -> Int]

\* The empty book is a book.
LEMMA EmptyIs == IsBook(EmptyBook)
<1>1. EmptyBook = [x \in BookFields |-> EmptyBook[x]]
  BY DEF EmptyBook, BookFields
<1>2. PICK z : z = [i \in Accounts |-> 0]
  OBVIOUS
<1>3. /\ EmptyBook.cash = z /\ EmptyBook.fee = z /\ EmptyBook.apr = z
      /\ EmptyBook.integral = z /\ EmptyBook.lastUpd = z
  BY <1>2 DEF EmptyBook
<1>4. z \in [Accounts -> Int]
  BY <1>2
<1> QED BY <1>1, <1>3, <1>4 DEF IsBook

\* A credit line may be enabled and disabled.
LEMMA EnableIs ==
  ASSUME NEW b, IsBook(b), NEW i \in Accounts, NEW rate \in Int
  PROVE  IsBook(Enable(b, i, rate)) /\ IsBook(Disable(b, i))
<1>1. PICK c : c = Enable(b, i, rate)
  OBVIOUS
<1>2. /\ c = [x \in BookFields |-> c[x]] /\ c.cash = b.cash /\ c.fee = b.fee
      /\ c.apr = [b.apr EXCEPT ![i] = rate] /\ c.integral = [b.integral EXCEPT ![i] = 0]
      /\ c.lastUpd = [b.lastUpd EXCEPT ![i] = 0]
  BY <1>1 DEF Enable, IsBook, BookFields
<1>3. IsBook(c)
  <2>1. /\ [b.apr EXCEPT ![i] = rate] \in [Accounts -> Int]
        /\ [b.integral EXCEPT ![i] = 0] \in [Accounts -> Int]
        /\ [b.lastUpd EXCEPT ![i] = 0] \in [Accounts -> Int]
    BY DEF IsBook
  <2> QED BY <1>2, <2>1 DEF IsBook
<1>4. PICK d : d = Disable(b, i)
  OBVIOUS
<1>5. /\ d = [x \in BookFields |-> d[x]] /\ d.cash = b.cash /\ d.fee = b.fee
      /\ d.apr = [b.apr EXCEPT ![i] = 0] /\ d.integral = [b.integral EXCEPT ![i] = 0]
      /\ d.lastUpd = [b.lastUpd EXCEPT ![i] = 0]
  BY <1>4 DEF Disable, IsBook, BookFields
<1>6. IsBook(d)
  <2>1. /\ [b.apr EXCEPT ![i] = 0] \in [Accounts -> Int]
        /\ [b.integral EXCEPT ![i] = 0] \in [Accounts -> Int]
        /\ [b.lastUpd EXCEPT ![i] = 0] \in [Accounts -> Int]
    BY DEF IsBook
  <2> QED BY <1>5, <2>1 DEF IsBook
<1> QED BY <1>1, <1>3, <1>4, <1>6

\* An account may be seeded.
LEMMA SeedIs ==
  ASSUME NEW b, IsBook(b), NEW i \in Accounts, NEW s,
         s.cash \in Int, s.fee \in Int, s.rate \in Int
  PROVE  IsBook(SeedOwnedAccount(b, i, s))
<1>1. PICK c : c = SetBankTier([b EXCEPT !.cash[i] = s.cash], i, s.fee)
  OBVIOUS
<1>2. /\ c = [x \in BookFields |-> c[x]] /\ c.cash = [b.cash EXCEPT ![i] = s.cash]
      /\ c.fee = [b.fee EXCEPT ![i] = s.fee]
      /\ c.apr = b.apr /\ c.integral = b.integral /\ c.lastUpd = b.lastUpd
  BY <1>1 DEF SetBankTier, IsBook, BookFields
<1>3. IsBook(c)
  BY <1>2 DEF IsBook
<1>4. PICK d : d = [c EXCEPT !.prot[i] = s.type, !.buffer[i] = IF s.type = "none" THEN 0 ELSE s.buffer]
  OBVIOUS
<1>5. /\ d = [x \in BookFields |-> d[x]] /\ d.cash = c.cash /\ d.fee = c.fee
      /\ d.apr = c.apr /\ d.integral = c.integral /\ d.lastUpd = c.lastUpd
  BY <1>3, <1>4 DEF IsBook, BookFields
<1>6. IsBook(d)
  BY <1>3, <1>5 DEF IsBook
<1>7. PICK e : e = SetProtection(c, i, s.type, s.buffer)
  OBVIOUS
<1>8. e = IF s.type = "loc" THEN Enable(d, i, 0) ELSE Disable(d, i)
  BY <1>4, <1>7 DEF SetProtection
<1>9. IsBook(e)
  BY <1>6, <1>8, EnableIs
<1>10. IsBook(SetLoc(e, i, s.rate))
  BY <1>9, EnableIs DEF SetLoc
<1>11. SeedOwnedAccount(b, i, s) = IF s.type = "loc" THEN SetLoc(e, i, s.rate) ELSE e
  BY <1>1, <1>7 DEF SeedOwnedAccount
<1> QED BY <1>9, <1>10, <1>11

\* A card may be limited.
LEMMA LimitIs ==
  ASSUME NEW b, IsBook(b), NEW i \in Accounts, NEW limit
  PROVE  IsBook(SetOverdraftOnly(b, i, limit))
<1>1. PICK c : c = [b EXCEPT !.cash[i] = 0, !.buffer[i] = limit,
                             !.prot[i] = IF limit > 0 THEN "courtesy" ELSE "none"]
  OBVIOUS
<1>2. /\ c = [x \in BookFields |-> c[x]] /\ c.cash = [b.cash EXCEPT ![i] = 0] /\ c.fee = b.fee
      /\ c.apr = b.apr /\ c.integral = b.integral /\ c.lastUpd = b.lastUpd
  BY <1>1 DEF IsBook, BookFields
<1>3. IsBook(c)
  BY <1>2 DEF IsBook
<1> QED BY <1>1, <1>3, EnableIs DEF SetOverdraftOnly

\* What the account holders own, seeded one after the other.
LEMMA SeededIs ==
  ASSUME NEW seed, \A i \in Accounts : seed[i].cash \in Int /\ seed[i].fee \in Int
                                       /\ seed[i].rate \in Int
  PROVE  IsBook(SeededAccounts(seed))
<1> DEFINE Turn(b, n) == SeedOwnedAccount(b, n - 1, seed[n - 1])
           Def(f, m) == f = [n \in 0 .. m |-> IF n = 0 THEN EmptyBook ELSE Turn(f[n - 1], n)]
           Run(f, m) == /\ f = [n \in 0 .. m |-> f[n]] /\ f[0] = EmptyBook
                        /\ \A n \in 1 .. m : f[n] = Turn(f[n - 1], n)
           S == {m \in Nat : \E f : Run(f, m)}
<1> HIDE DEF Turn
<1>1. PICK N \in Nat : N = NumAccounts
  BY ClearingAssumption
<1>2. 0 \in S
  <2>1. Run([n \in 0 .. 0 |-> EmptyBook], 0)
    OBVIOUS
  <2> HIDE DEF Run
  <2> QED BY <2>1
<1>3. ASSUME NEW m \in Nat, m \in S PROVE m + 1 \in S
  <2>1. PICK f : Run(f, m)
    BY <1>3
  <2> DEFINE g == [n \in 0 .. m + 1 |-> IF n = m + 1 THEN Turn(f[m], m + 1) ELSE f[n]]
  <2>2. ASSUME NEW n \in 1 .. m + 1 PROVE g[n] = Turn(g[n - 1], n)
    <3>1. CASE n = m + 1
      BY <3>1
    <3>2. CASE n # m + 1
      <4>1. n \in 1 .. m /\ n - 1 # m + 1 /\ n - 1 \in 0 .. m + 1
        BY <3>2
      <4>2. g[n] = f[n] /\ g[n - 1] = f[n - 1]
        BY <3>2, <4>1
      <4> QED BY <2>1, <4>1, <4>2
    <3> QED BY <3>1, <3>2
  <2>3. g = [n \in 0 .. m + 1 |-> g[n]] /\ g[0] = EmptyBook
    BY <2>1
  <2>4. Run(g, m + 1)
    BY <2>2, <2>3
  <2> HIDE DEF Run, g
  <2> QED BY <2>4
<1> HIDE DEF S
<1>4. N \in S
  BY <1>2, <1>3, SetInduction
<1>5. PICK h : Run(h, N)
  BY <1>4 DEF S
<1>6. Def(h, N)
  <2>1. ASSUME NEW n \in 0 .. N
        PROVE  h[n] = IF n = 0 THEN EmptyBook ELSE Turn(h[n - 1], n)
    <3>1. n = 0 \/ n \in 1 .. N
      OBVIOUS
    <3> QED BY <1>5, <3>1
  <2>2. h = [n \in 0 .. N |-> h[n]]
    BY <1>5
  <2> QED BY <2>1, <2>2
<1> DEFINE g == CHOOSE f : Def(f, N)
<1>7. Def(g, N)
  <2> HIDE DEF Def
  <2> QED BY <1>6
<1>8. SeededAccounts(seed) = g[N]
  BY <1>1 DEF SeededAccounts, Turn
<1> HIDE DEF g
<1>9. g[0] = EmptyBook /\ \A n \in 0 .. N - 1 : g[n + 1] = Turn(g[n], n + 1)
  <2>1. ASSUME NEW n \in 0 .. N - 1 PROVE n + 1 \in 0 .. N /\ n + 1 # 0 /\ (n + 1) - 1 = n
    OBVIOUS
  <2> QED BY <1>7, <2>1
<1> DEFINE T == {n \in 0 .. N : IsBook(g[n])}
<1>10. 0 \in T
  BY <1>9, EmptyIs
<1>11. ASSUME NEW n \in 0 .. N - 1, n \in T PROVE n + 1 \in T
  <2>1. n \in Accounts /\ (n + 1) - 1 = n /\ n + 1 \in 0 .. N
    BY <1>1 DEF Accounts
  <2>2. g[n + 1] = SeedOwnedAccount(g[n], n, seed[n])
    BY <1>9, <2>1 DEF Turn
  <2>3. IsBook(g[n])
    BY <1>11
  <2>4. IsBook(g[n + 1])
    BY <2>1, <2>2, <2>3, SeedIs
  <2> QED BY <2>1, <2>4
<1> HIDE DEF T
<1>12. 0 .. N \subseteq T
  BY <1>10, <1>11, BoundedInduction
<1> QED BY <1>8, <1>12 DEF T

\* The cards, limited one after the other.
LEMMA LimitedIs ==
  ASSUME NEW b, IsBook(b), NEW seed
  PROVE  IsBook(WithCardLimits(b, seed))
<1> DEFINE Turn(c, n) == IF n - 1 \in Cards
                         THEN SetOverdraftOnly(c, n - 1, seed[n - 1].limit) ELSE c
           Def(f, m) == f = [n \in 0 .. m |-> IF n = 0 THEN b ELSE Turn(f[n - 1], n)]
           Run(f, m) == /\ f = [n \in 0 .. m |-> f[n]] /\ f[0] = b
                        /\ \A n \in 1 .. m : f[n] = Turn(f[n - 1], n)
           S == {m \in Nat : \E f : Run(f, m)}
<1> HIDE DEF Turn
<1>1. PICK N \in Nat : N = NumAccounts
  BY ClearingAssumption
<1>2. 0 \in S
  <2>1. Run([n \in 0 .. 0 |-> b], 0)
    OBVIOUS
  <2> HIDE DEF Run
  <2> QED BY <2>1
<1>3. ASSUME NEW m \in Nat, m \in S PROVE m + 1 \in S
  <2>1. PICK f : Run(f, m)
    BY <1>3
  <2> DEFINE g == [n \in 0 .. m + 1 |-> IF n = m + 1 THEN Turn(f[m], m + 1) ELSE f[n]]
  <2>2. ASSUME NEW n \in 1 .. m + 1 PROVE g[n] = Turn(g[n - 1], n)
    <3>1. CASE n = m + 1
      BY <3>1
    <3>2. CASE n # m + 1
      <4>1. n \in 1 .. m /\ n - 1 # m + 1 /\ n - 1 \in 0 .. m + 1
        BY <3>2
      <4>2. g[n] = f[n] /\ g[n - 1] = f[n - 1]
        BY <3>2, <4>1
      <4> QED BY <2>1, <4>1, <4>2
    <3> QED BY <3>1, <3>2
  <2>3. g = [n \in 0 .. m + 1 |-> g[n]] /\ g[0] = b
    BY <2>1
  <2>4. Run(g, m + 1)
    BY <2>2, <2>3
  <2> HIDE DEF Run, g
  <2> QED BY <2>4
<1> HIDE DEF S
<1>4. N \in S
  BY <1>2, <1>3, SetInduction
<1>5. PICK h : Run(h, N)
  BY <1>4 DEF S
<1>6. Def(h, N)
  <2>1. ASSUME NEW n \in 0 .. N
        PROVE  h[n] = IF n = 0 THEN b ELSE Turn(h[n - 1], n)
    <3>1. n = 0 \/ n \in 1 .. N
      OBVIOUS
    <3> QED BY <1>5, <3>1
  <2>2. h = [n \in 0 .. N |-> h[n]]
    BY <1>5
  <2> QED BY <2>1, <2>2
<1> DEFINE g == CHOOSE f : Def(f, N)
<1>7. Def(g, N)
  <2> HIDE DEF Def
  <2> QED BY <1>6
<1>8. WithCardLimits(b, seed) = g[N]
  BY <1>1 DEF WithCardLimits, Turn
<1> HIDE DEF g
<1>9. g[0] = b /\ \A n \in 0 .. N - 1 : g[n + 1] = Turn(g[n], n + 1)
  <2>1. ASSUME NEW n \in 0 .. N - 1 PROVE n + 1 \in 0 .. N /\ n + 1 # 0 /\ (n + 1) - 1 = n
    OBVIOUS
  <2> QED BY <1>7, <2>1
<1> DEFINE T == {n \in 0 .. N : IsBook(g[n])}
<1>10. 0 \in T
  BY <1>9
<1>11. ASSUME NEW n \in 0 .. N - 1, n \in T PROVE n + 1 \in T
  <2>1. n \in Accounts /\ (n + 1) - 1 = n /\ n + 1 \in 0 .. N
    BY <1>1 DEF Accounts
  <2>2. g[n + 1] = IF n \in Cards THEN SetOverdraftOnly(g[n], n, seed[n].limit) ELSE g[n]
    BY <1>9, <2>1 DEF Turn
  <2>3. IsBook(g[n])
    BY <1>11
  <2>4. IsBook(g[n + 1])
    BY <2>1, <2>2, <2>3, LimitIs
  <2> QED BY <2>1, <2>4
<1> HIDE DEF T
<1>12. 0 .. N \subseteq T
  BY <1>10, <1>11, BoundedInduction
<1> QED BY <1>8, <1>12 DEF T

\* The book every run starts with is a book.
LEMMA OpeningIs == IsBook(Opening)
<1>1. PICK seed : seed = [i \in Accounts |-> Seeds[i]]
  OBVIOUS
<1>2. \A i \in Accounts : /\ seed[i].cash \in Int /\ seed[i].fee \in Int /\ seed[i].rate \in Int
                           /\ seed[i].burden \in Int
  BY <1>1, SeedsAssumption
<1>3. PICK b : b = SeededAccounts(seed) /\ IsBook(b)
  BY <1>2, SeededIs
<1>4. PICK cash : cash = [i \in Accounts |-> b.cash[i] + seed[i].burden]
  OBVIOUS
<1>5. cash \in [Accounts -> Int]
  BY <1>2, <1>3, <1>4 DEF IsBook
<1>6. PICK c : c = [b EXCEPT !.cash = cash]
  OBVIOUS
<1>7. /\ c = [x \in BookFields |-> c[x]] /\ c.cash = cash /\ c.fee = b.fee
      /\ c.apr = b.apr /\ c.integral = b.integral /\ c.lastUpd = b.lastUpd
  BY <1>3, <1>6 DEF IsBook, BookFields
<1>8. IsBook(c)
  BY <1>3, <1>5, <1>7 DEF IsBook
<1>9. IsBook(WithCardLimits(c, seed))
  BY <1>8, LimitedIs
<1>10. OpeningBook(seed) = WithCardLimits(c, seed)
  BY <1>3, <1>4, <1>6 DEF OpeningBook
<1> QED BY <1>1, <1>9, <1>10 DEF Opening
-----------------------------------------------------------------------------
(* What moves the book *)

\* What the bank charges, at instant t.
EventsAt(t) == [acct : Int, amount : Int, chan : {"overdraftFee", "locInterest"}, ts : {t}]

\* Products are numbers, which the interest is made of.
LEMMA Product == ASSUME NEW x \in Int, NEW y \in Int PROVE x * y \in Int
  OBVIOUS

\* What an account owes and is charged in interest is a number.
LEMMA AccruedInt ==
  ASSUME NEW b, IsBook(b), NEW i \in Accounts, NEW t \in Int
  PROVE  Accrued(b, i, t) \in Int /\ InterestOf(b, i, t) \in Int
<1>1. PICK c \in Int, u \in Int, g \in Int, r \in Int :
        c = b.cash[i] /\ u = b.lastUpd[i] /\ g = b.integral[i] /\ r = b.apr[i]
  BY DEF IsBook
<1>2. PICK x \in Int : x = (-c) * (t - u)
  BY Product
<1>3. PICK z \in Int : z = Accrued(b, i, t)
  BY <1>1, <1>2 DEF Accrued
<1>4. z * r \in Int
  BY Product
<1> QED BY <1>1, <1>3, <1>4 DEF InterestOf

\* Bringing the integral up to date moves no balance.
LEMMA UpdateIs ==
  ASSUME NEW b, IsBook(b), NEW i, NEW t \in Int
  PROVE  IsBook(Update(b, i, t)) /\ Update(b, i, t).cash = b.cash /\ Update(b, i, t).fee = b.fee
<1>1. PICK c : c = Update(b, i, t)
  OBVIOUS
<1>2. CASE i \in Accounts /\ b.on[i] /\ t # 0
  <2>1. PICK x \in Int : x = Accrued(b, i, t)
    BY <1>2, AccruedInt
  <2>2. c = [b EXCEPT !.integral[i] = x, !.lastUpd[i] = t]
    BY <1>1, <1>2, <2>1 DEF Update
  <2>3. /\ c = [y \in BookFields |-> c[y]] /\ c.cash = b.cash /\ c.fee = b.fee
        /\ c.apr = b.apr /\ c.integral = [b.integral EXCEPT ![i] = x]
        /\ c.lastUpd = [b.lastUpd EXCEPT ![i] = t]
    BY <2>2 DEF IsBook, BookFields
  <2>4. /\ [b.integral EXCEPT ![i] = x] \in [Accounts -> Int]
        /\ [b.lastUpd EXCEPT ![i] = t] \in [Accounts -> Int]
    BY <1>2 DEF IsBook
  <2> QED BY <1>1, <2>3, <2>4 DEF IsBook
<1>3. CASE ~(i \in Accounts /\ b.on[i] /\ t # 0)
  <2>1. c = b
    BY <1>1, <1>3 DEF Update
  <2> QED BY <1>1, <2>1
<1> QED BY <1>2, <1>3

\* A posting leaves a book, and its charges are of its instant.
LEMMA TransferIs ==
  ASSUME NEW b, IsBook(b), NEW p \in Postings
  PROVE  IsBook(TransferAt(b, p)) /\ TransferEvents(b, p) \in Seq(EventsAt(p.ts))
<1>1. p.ts \in Int /\ p.amount \in Int
  BY DEF Postings
<1>2. PICK c : c = Rolled(b, p)
  OBVIOUS
<1>3. IsBook(c)
  <2>1. PICK u : u = Update(b, p.src, p.ts)
    OBVIOUS
  <2>2. IsBook(u)
    BY <1>1, <2>1, UpdateIs
  <2>3. IsBook(Update(u, p.dst, p.ts))
    BY <1>1, <2>2, UpdateIs
  <2> QED BY <1>2, <2>1, <2>3 DEF Rolled
<1>4. PICK m : m = Moved(b, p)
  OBVIOUS
<1>5. m \in [Accounts -> Int]
  <2>1. ASSUME NEW i \in Accounts
        PROVE  b.cash[i] - (IF i = p.src THEN p.amount ELSE 0)
                         + (IF i = p.dst THEN p.amount ELSE 0) \in Int
    <3>1. b.cash[i] \in Int
      BY DEF IsBook
    <3> QED BY <1>1, <3>1
  <2> QED BY <1>4, <2>1 DEF Moved
<1>6. PICK cash : cash = IF Charged(b, p) THEN [m EXCEPT ![p.src] = @ - b.fee[p.src]] ELSE m
  OBVIOUS
<1>7. cash \in [Accounts -> Int]
  <2>1. CASE Charged(b, p)
    <3>1. p.src \in Accounts
      BY <2>1 DEF Charged
    <3>2. m[p.src] - b.fee[p.src] \in Int
      BY <1>5, <3>1 DEF IsBook
    <3> QED BY <1>5, <1>6, <2>1, <3>2
  <2>2. CASE ~Charged(b, p)
    BY <1>5, <1>6, <2>2
  <2> QED BY <2>1, <2>2
<1>8. PICK d : d = [c EXCEPT !.cash = cash]
  OBVIOUS
<1>9. /\ d = [x \in BookFields |-> d[x]] /\ d.cash = cash /\ d.fee = c.fee
      /\ d.apr = c.apr /\ d.integral = c.integral /\ d.lastUpd = c.lastUpd
  BY <1>3, <1>8 DEF IsBook, BookFields
<1>10. IsBook(d)
  BY <1>3, <1>7, <1>9 DEF IsBook
<1>11. TransferAt(b, p) = IF Decision(b, p) # "accepted" THEN c ELSE d
  BY <1>2, <1>4, <1>6, <1>8 DEF TransferAt
<1>12. IsBook(TransferAt(b, p))
  BY <1>3, <1>10, <1>11
<1>13. TransferEvents(b, p) \in Seq(EventsAt(p.ts))
  <2>1. CASE Charged(b, p)
    <3>1. p.src \in Accounts
      BY <2>1 DEF Charged
    <3>2. p.src \in Int /\ b.fee[p.src] \in Int
      BY <3>1, ClearingAssumption DEF Accounts, IsBook
    <3>3. PICK e : e = [acct |-> p.src, amount |-> b.fee[p.src], chan |-> "overdraftFee", ts |-> p.ts]
      OBVIOUS
    <3>4. e \in EventsAt(p.ts)
      BY <3>2, <3>3 DEF EventsAt
    <3>5. TransferEvents(b, p) = << e >>
      BY <2>1, <3>3 DEF TransferEvents
    <3> QED BY <3>4, <3>5
  <2>2. CASE ~Charged(b, p)
    BY <2>2 DEF TransferEvents
  <2> QED BY <2>1, <2>2
<1> QED BY <1>12, <1>13

\* A billing leaves a book, and its charges are of its instant.
LEMMA AccrueIs ==
  ASSUME NEW b, IsBook(b), NEW t \in Int
  PROVE  IsBook(Accrue(b, t)) /\ AccrueEvents(b, t) \in Seq(EventsAt(t))
<1> DEFINE due == DueSlots(b, t)
<1>1. PICK c : c = Swept(b, t)
  OBVIOUS
<1>2. IsBook(c)
  <2>1. /\ c = [x \in BookFields |-> c[x]] /\ c.cash = b.cash /\ c.fee = b.fee /\ c.apr = b.apr
        /\ c.integral = [i \in Accounts |-> IF i \notin due THEN b.integral[i]
                          ELSE IF b.lastBill[i] = 0 THEN Accrued(b, i, t) ELSE 0]
        /\ c.lastUpd = [i \in Accounts |-> IF i \in due THEN t ELSE b.lastUpd[i]]
    <3> HIDE DEF due
    <3>1. c = [b EXCEPT
                 !.integral = [i \in Accounts |-> IF i \notin due THEN b.integral[i]
                                ELSE IF b.lastBill[i] = 0 THEN Accrued(b, i, t) ELSE 0],
                 !.lastUpd  = [i \in Accounts |-> IF i \in due THEN t ELSE b.lastUpd[i]],
                 !.lastBill = [i \in Accounts |-> IF i \in due THEN t ELSE b.lastBill[i]],
                 !.queued   = [i \in Accounts |-> IF i \in due THEN t + Period ELSE b.queued[i]],
                 !.queue    = {e \in b.queue : e[1] > t} \cup {<<t + Period, i>> : i \in due}]
      BY <1>1 DEF Swept, due
    <3> QED BY <3>1 DEF IsBook, BookFields
  <2> HIDE DEF due
  <2>2. \A i \in Accounts : /\ b.integral[i] \in Int /\ b.lastUpd[i] \in Int
                            /\ Accrued(b, i, t) \in Int
    BY AccruedInt DEF IsBook
  <2>3. c.integral \in [Accounts -> Int]
    BY <2>1, <2>2
  <2>4. c.lastUpd \in [Accounts -> Int]
    BY <2>1, <2>2
  <2>5. /\ c.cash \in [Accounts -> Int] /\ c.fee \in [Accounts -> Int] /\ c.apr \in [Accounts -> Int]
    BY <2>1 DEF IsBook
  <2>6. c = [x \in BookFields |-> c[x]]
    BY <2>1
  <2> QED BY <2>3, <2>4, <2>5, <2>6 DEF IsBook
<1>3. PICK cash : cash = [i \in Accounts |->
             b.cash[i] - IF i \in due /\ b.lastBill[i] # 0 /\ InterestOf(b, i, t) > 0
                         THEN InterestOf(b, i, t) ELSE 0]
  OBVIOUS
<1>4. cash \in [Accounts -> Int]
  <2> HIDE DEF due
  <2>1. ASSUME NEW i \in Accounts
        PROVE  b.cash[i] - (IF i \in due /\ b.lastBill[i] # 0 /\ InterestOf(b, i, t) > 0
                            THEN InterestOf(b, i, t) ELSE 0) \in Int
    <3>1. b.cash[i] \in Int /\ InterestOf(b, i, t) \in Int
      BY AccruedInt DEF IsBook
    <3> QED BY <3>1
  <2> QED BY <1>3, <2>1
<1>5. PICK d : d = [c EXCEPT !.cash = cash]
  OBVIOUS
<1>6. /\ d = [x \in BookFields |-> d[x]] /\ d.cash = cash /\ d.fee = c.fee
      /\ d.apr = c.apr /\ d.integral = c.integral /\ d.lastUpd = c.lastUpd
  BY <1>2, <1>5 DEF IsBook, BookFields
<1>7. IsBook(d)
  BY <1>2, <1>4, <1>6 DEF IsBook
<1>8. Accrue(b, t) = IF ~b.emit THEN c ELSE d
  BY <1>1, <1>3, <1>5 DEF Accrue
<1> DEFINE S == {i \in due : b.lastBill[i] # 0 /\ InterestOf(b, i, t) > 0}
           Slot(n) == CHOOSE x \in S : Cardinality(Below(S, x)) = n - 1
           M == Matured(b, t)
<1>9. S \in SUBSET (0 .. NumAccounts) /\ S \subseteq Accounts /\ NumAccounts \in Nat
  BY ClearingAssumption DEF DueSlots, Accounts
<1>10. Cardinality(S) \in Nat
  BY <1>9, FiniteUpTo
<1>11. M = [n \in 1 .. Cardinality(S) |->
              [acct |-> Slot(n), amount |-> InterestOf(b, Slot(n), t),
               chan |-> "locInterest", ts |-> t]]
  BY DEF Matured, Below
<1>12. ASSUME NEW n \in 1 .. Cardinality(S) PROVE Slot(n) \in S
  <2> HIDE DEF S
  <2>1. \E x \in S : Cardinality(Below(S, x)) = n - 1
    BY <1>9, Ranked
  <2> QED BY <2>1
<1> HIDE DEF M, S, Slot
<1>13. ASSUME NEW n \in 1 .. Cardinality(S) PROVE M[n] \in EventsAt(t)
  <2>1. Slot(n) \in Accounts
    <3>1. Slot(n) \in S
      BY <1>12
    <3> QED BY <1>9, <3>1
  <2>2. InterestOf(b, Slot(n), t) \in Int
    BY <2>1, AccruedInt
  <2>3. M[n] = [acct |-> Slot(n), amount |-> InterestOf(b, Slot(n), t),
                chan |-> "locInterest", ts |-> t]
    BY <1>11
  <2>4. Slot(n) \in Int
    BY <2>1, ClearingAssumption DEF Accounts
  <2> QED BY <2>2, <2>3, <2>4 DEF EventsAt
<1>14. M \in Seq(EventsAt(t))
  <2>1. M \in [1 .. Cardinality(S) -> EventsAt(t)]
    BY <1>11, <1>13
  <2> QED BY <1>10, <2>1
<1>15. AccrueEvents(b, t) \in Seq(EventsAt(t))
  BY <1>14 DEF AccrueEvents, M
<1> QED BY <1>2, <1>7, <1>8, <1>15

-----------------------------------------------------------------------------
(* The accumulator *)

AccFields == {"book", "emit", "coins", "draws", "pending", "next", "retry", "txns",
              "drops", "declined", "taps", "inbound"}
IsAcc(a) == a = [x \in AccFields |-> a[x]]

\* No row of s is before lo.
NoneBefore(s, lo) == \A n \in 1 .. Len(s) : s[n].ts >= lo

\* z is a but for rows of the bank's own from instant lo on, and for its budget.
OnlyCharges(z, a, lo) ==
  /\ IsAcc(z) /\ z.txns \in Seq(Postings) /\ NoneBefore(z.txns, lo)
  /\ \A id \in Int \ {0} : Count(z.txns, id) = Count(a.txns, id)
  /\ z.book = a.book /\ z.pending = a.pending /\ z.next = a.next /\ z.retry = a.retry
  /\ z.drops = a.drops /\ z.declined = a.declined /\ z.inbound = a.inbound

\* A row from lo on may be put at the end.
LEMMA AppendKeeps ==
  ASSUME NEW s \in Seq(Postings), NEW lo \in Int, NoneBefore(s, lo), NEW r \in Postings, r.ts >= lo
  PROVE  Append(s, r) \in Seq(Postings) /\ NoneBefore(Append(s, r), lo)
<1>1. PICK N \in Nat : N = Len(s)
  BY LenProperties
<1>2. PICK t \in Seq(Postings) : t = Append(s, r)
  BY AppendProperties
<1>3. Len(t) = N + 1 /\ t[N + 1] = r /\ \A i \in 1 .. N : t[i] = s[i]
  BY <1>1, <1>2, AppendProperties
<1>4. \A n \in 1 .. N + 1 : n = N + 1 \/ n \in 1 .. N
  OBVIOUS
<1> QED BY <1>1, <1>2, <1>3, <1>4 DEF NoneBefore

\* A charge becomes a row from its instant on, or nothing.
LEMMA ChargeIs ==
  ASSUME NEW a, IsAcc(a), a.txns \in Seq(Postings), NEW lo \in Int, NoneBefore(a.txns, lo),
         NEW t \in Int, lo <= t, NEW e \in EventsAt(t)
  PROVE  OnlyCharges(OnLiquidityEvent(a, e), a, lo)
<1>1. PICK row : row = [src |-> e.acct, dst |-> IncomeAccountFor(e.chan), amount |-> e.amount,
                        chan |-> e.chan, audit |-> 0,
                        ts |-> e.ts + IF e.chan = "overdraftFee" THEN 1 ELSE 0]
  OBVIOUS
<1>2. row \in Postings /\ row.audit = 0 /\ row.ts >= lo
  <2>1. e.acct \in Int /\ e.amount \in Int /\ e.chan \in Channels /\ e.ts = t
    BY ChannelsAssumption DEF EventsAt
  <2>2. IncomeAccountFor(e.chan) \in Int
    BY DEF IncomeAccountFor
  <2>3. row.ts \in Int /\ row.ts >= lo
    BY <1>1, <2>1
  <2> QED BY <1>1, <2>1, <2>2, <2>3 DEF Postings
<1>3. PICK txns : txns = Append(a.txns, row)
  OBVIOUS
<1>4. txns \in Seq(Postings) /\ NoneBefore(txns, lo)
  BY <1>2, <1>3, AppendKeeps
<1>5. \A id \in Int \ {0} : Count(txns, id) = Count(a.txns, id)
  <2> SUFFICES ASSUME NEW id \in Int \ {0} PROVE Count(txns, id) = Count(a.txns, id)
    OBVIOUS
  <2>1. Count(txns, id) = Count(a.txns, id) + IF row.audit = id THEN 1 ELSE 0
    BY <1>2, <1>3, CountAppend
  <2>2. Count(a.txns, id) \in Nat
    BY PlacesFinite
  <2> QED BY <1>2, <2>1, <2>2
<1>6. PICK z : z = OnLiquidityEvent(a, e)
  OBVIOUS
<1>7. CASE FeeBudgetAllows(a, e)
  <2>1. PICK taps : z = [a EXCEPT !.txns = txns, !.taps = taps]
    BY <1>1, <1>3, <1>6, <1>7 DEF OnLiquidityEvent
  <2>2. /\ IsAcc(z) /\ z.txns = txns /\ z.book = a.book /\ z.pending = a.pending
        /\ z.next = a.next /\ z.retry = a.retry /\ z.drops = a.drops
        /\ z.declined = a.declined /\ z.inbound = a.inbound
    BY <2>1 DEF IsAcc, AccFields
  <2> QED BY <1>4, <1>5, <1>6, <2>2 DEF OnlyCharges
<1>8. CASE ~FeeBudgetAllows(a, e)
  <2>1. z = a
    BY <1>6, <1>8 DEF OnLiquidityEvent
  <2> QED BY <1>6, <2>1 DEF OnlyCharges
<1> QED BY <1>7, <1>8

\* g are the accumulators between the N charges.
Charging(g, a, events, N) ==
  /\ g[0] = a /\ \A n \in 0 .. N - 1 : g[n + 1] = OnLiquidityEvent(g[n], events[n + 1])
  /\ OnLiquidityEvents(a, events) = g[N]

\* Charges are taken one after the other.
LEMMA ChargesRun ==
  ASSUME NEW a, NEW events, NEW N \in Nat, N = Len(events)
  PROVE  \E g : Charging(g, a, events, N)
<1> DEFINE Turn(c, n) == OnLiquidityEvent(c, events[n])
           Def(f, m) == f = [n \in 0 .. m |-> IF n = 0 THEN a ELSE Turn(f[n - 1], n)]
           Run(f, m) == /\ f = [n \in 0 .. m |-> f[n]] /\ f[0] = a
                        /\ \A n \in 1 .. m : f[n] = Turn(f[n - 1], n)
           S == {m \in Nat : \E f : Run(f, m)}
<1> HIDE DEF Turn
<1>1. 0 \in S
  <2>1. Run([n \in 0 .. 0 |-> a], 0)
    OBVIOUS
  <2> HIDE DEF Run
  <2> QED BY <2>1
<1>2. ASSUME NEW m \in Nat, m \in S PROVE m + 1 \in S
  <2>1. PICK f : Run(f, m)
    BY <1>2
  <2> DEFINE g == [n \in 0 .. m + 1 |-> IF n = m + 1 THEN Turn(f[m], m + 1) ELSE f[n]]
  <2>2. ASSUME NEW n \in 1 .. m + 1 PROVE g[n] = Turn(g[n - 1], n)
    <3>1. CASE n = m + 1
      BY <3>1
    <3>2. CASE n # m + 1
      <4>1. n \in 1 .. m /\ n - 1 # m + 1 /\ n - 1 \in 0 .. m + 1
        BY <3>2
      <4>2. g[n] = f[n] /\ g[n - 1] = f[n - 1]
        BY <3>2, <4>1
      <4> QED BY <2>1, <4>1, <4>2
    <3> QED BY <3>1, <3>2
  <2>3. g = [n \in 0 .. m + 1 |-> g[n]] /\ g[0] = a
    BY <2>1
  <2>4. Run(g, m + 1)
    BY <2>2, <2>3
  <2> HIDE DEF Run, g
  <2> QED BY <2>4
<1> HIDE DEF S
<1>3. N \in S
  BY <1>1, <1>2, SetInduction
<1>4. PICK h : Run(h, N)
  BY <1>3 DEF S
<1>5. Def(h, N)
  <2>1. ASSUME NEW n \in 0 .. N
        PROVE  h[n] = IF n = 0 THEN a ELSE Turn(h[n - 1], n)
    <3>1. n = 0 \/ n \in 1 .. N
      OBVIOUS
    <3> QED BY <1>4, <3>1
  <2>2. h = [n \in 0 .. N |-> h[n]]
    BY <1>4
  <2> QED BY <2>1, <2>2
<1> DEFINE g == CHOOSE f : Def(f, N)
<1>6. Def(g, N)
  <2> HIDE DEF Def
  <2> QED BY <1>5
<1>7. OnLiquidityEvents(a, events) = g[N]
  BY DEF OnLiquidityEvents, Turn
<1> HIDE DEF g
<1>8. g[0] = a /\ \A n \in 0 .. N - 1 : g[n + 1] = Turn(g[n], n + 1)
  <2>1. ASSUME NEW n \in 0 .. N - 1 PROVE n + 1 \in 0 .. N /\ n + 1 # 0 /\ (n + 1) - 1 = n
    OBVIOUS
  <2> QED BY <1>6, <2>1
<1> QED BY <1>7, <1>8 DEF Turn, Charging

\* So do charges one after the other.
LEMMA ChargesAre ==
  ASSUME NEW a, IsAcc(a), a.txns \in Seq(Postings), NEW lo \in Int, NoneBefore(a.txns, lo),
         NEW t \in Int, lo <= t, NEW events \in Seq(EventsAt(t))
  PROVE  OnlyCharges(OnLiquidityEvents(a, events), a, lo)
<1>1. PICK N \in Nat : N = Len(events) /\ \A n \in 1 .. N : events[n] \in EventsAt(t)
  BY LenProperties, ElementOfSeq
<1>2. PICK g : Charging(g, a, events, N)
  BY <1>1, ChargesRun
<1> DEFINE T == {n \in 0 .. N : OnlyCharges(g[n], a, lo)}
<1>3. 0 \in T
  BY <1>2 DEF Charging, OnlyCharges
<1>4. ASSUME NEW n \in 0 .. N - 1, n \in T PROVE n + 1 \in T
  <2>1. n + 1 \in 0 .. N /\ n + 1 \in 1 .. N
    OBVIOUS
  <2>2. PICK c : c = g[n] /\ OnlyCharges(c, a, lo)
    BY <1>4
  <2>3. PICK e \in EventsAt(t) : e = events[n + 1]
    BY <1>1, <2>1
  <2>4. PICK d : d = OnLiquidityEvent(c, e)
    OBVIOUS
  <2>5. OnlyCharges(d, c, lo)
    <3>1. IsAcc(c) /\ c.txns \in Seq(Postings) /\ NoneBefore(c.txns, lo)
      BY <2>2 DEF OnlyCharges
    <3> QED BY <2>4, <3>1, ChargeIs
  <2>6. OnlyCharges(d, a, lo)
    BY <2>2, <2>5 DEF OnlyCharges
  <2>7. g[n + 1] = d
    BY <1>2, <2>2, <2>3, <2>4 DEF Charging
  <2> QED BY <2>1, <2>6, <2>7
<1> HIDE DEF T
<1>5. 0 .. N \subseteq T
  BY <1>3, <1>4, BoundedInduction
<1> QED BY <1>2, <1>5 DEF T, Charging

-----------------------------------------------------------------------------
(* A turn of the queue *)

Reasons == {"unbooked", "invalid", "unfunded", "instantDecline", "terminal",
            "insufficientFunds", "exhausted"}
Drops == [reason : Reasons, audit : Int]
Items == [ts : Int, late : {0, 1}, seq : Int, tries : 0 .. 2, row : Postings]

\* No two items of P have the same place at the same instant.
DistinctPlaces(P) == \A i, j \in P : i.late = j.late /\ i.seq = j.seq => i = j

\* QueueLess is the lexicographic order of instant, lateness and sequence number.
LEMMA QueueLessIs ==
  ASSUME NEW i \in Items, NEW j \in Items
  PROVE  QueueLess(i, j) <=> \/ i.ts < j.ts
                             \/ i.ts = j.ts /\ i.late < j.late
                             \/ i.ts = j.ts /\ i.late = j.late /\ i.seq < j.seq
<1>1. /\ QueueKey(i)[1] = i.ts /\ QueueKey(i)[2] = i.late /\ QueueKey(i)[3] = i.seq
      /\ QueueKey(j)[1] = j.ts /\ QueueKey(j)[2] = j.late /\ QueueKey(j)[3] = j.seq
  BY DEF QueueKey
<1> DEFINE At(n) == /\ QueueKey(i)[n] < QueueKey(j)[n]
                    /\ \A m \in 1 .. (n - 1) : QueueKey(i)[m] = QueueKey(j)[m]
<1>2. QueueLess(i, j) <=> At(1) \/ At(2) \/ At(3)
  <2>1. \A n : n \in 1 .. 3 <=> n \in {1, 2, 3}
    OBVIOUS
  <2> QED BY <2>1 DEF QueueLess
<1>3. At(1) <=> i.ts < j.ts
  BY <1>1
<1>4. At(2) <=> i.ts = j.ts /\ i.late < j.late
  <2>1. \A m : m \in 1 .. (2 - 1) <=> m = 1
    OBVIOUS
  <2> QED BY <1>1, <2>1
<1>5. At(3) <=> i.ts = j.ts /\ i.late = j.late /\ i.seq < j.seq
  <2>1. \A m : m \in 1 .. (3 - 1) <=> m \in {1, 2}
    OBVIOUS
  <2> QED BY <1>1, <2>1
<1> HIDE DEF At
<1> QED BY <1>2, <1>3, <1>4, <1>5

\* The top of the queue is one of its earliest items.
LEMMA TopIs ==
  ASSUME NEW a, a.pending \in SUBSET Items, IsFiniteSet(a.pending), a.pending # {},
         DistinctPlaces(a.pending)
  PROVE  Top(a) \in a.pending /\ \A j \in a.pending : Top(a).ts <= j.ts
<1>1. PICK P : P = a.pending
  OBVIOUS
<1> DEFINE R == {p \in P \X P : QueueLess(p[1], p[2])}
<1>2. \A i \in P : i \in Items /\ i.ts \in Int /\ i.late \in Int /\ i.seq \in Int
  BY <1>1 DEF Items
<1>3. \A i, j \in P : <<i, j>> \in R <=> QueueLess(i, j)
  <2> SUFFICES ASSUME NEW i \in P, NEW j \in P PROVE <<i, j>> \in R <=> QueueLess(i, j)
    BY Zenon
  <2>1. PICK p : p = <<i, j>>
    OBVIOUS
  <2>2. p \in P \X P /\ p[1] = i /\ p[2] = j
    BY <2>1
  <2>3. p \in R <=> QueueLess(p[1], p[2])
    BY <2>2
  <2> QED BY <2>1, <2>2, <2>3
<1> HIDE DEF R
<1>4. StrictOrder(R, P)
  <2>1. ASSUME NEW i \in P PROVE <<i, i>> \notin R
    <3>1. ~QueueLess(i, i)
      BY <1>2, QueueLessIs
    <3> QED BY <1>3, <3>1
  <2>2. ASSUME NEW i \in P, NEW j \in P, i # j PROVE <<i, j>> \in R \/ <<j, i>> \in R
    <3>1. i.late # j.late \/ i.seq # j.seq
      BY <1>1, <2>2 DEF DistinctPlaces
    <3>2. /\ i.ts \in Int /\ i.late \in Int /\ i.seq \in Int /\ i \in Items
          /\ j.ts \in Int /\ j.late \in Int /\ j.seq \in Int /\ j \in Items
      BY <1>2
    <3>3. QueueLess(i, j) \/ QueueLess(j, i)
      BY <3>1, <3>2, QueueLessIs
    <3> QED BY <1>3, <3>3
  <2>3. ASSUME NEW i \in P, NEW j \in P, NEW l \in P, <<i, j>> \in R, <<j, l>> \in R
        PROVE  <<i, l>> \in R
    <3>1. QueueLess(i, j) /\ QueueLess(j, l)
      BY <1>3, <2>3
    <3>2. QueueLess(i, l)
      BY <1>2, <3>1, QueueLessIs
    <3> QED BY <1>3, <3>2
  <2> QED BY <2>1, <2>2, <2>3 DEF StrictOrder
<1>5. PICK x \in P : \A y \in P \ {x} : <<x, y>> \in R
  BY <1>1, <1>4, OrderFirst
<1>6. \A y \in P \ {x} : QueueLess(x, y)
  BY <1>3, <1>5
<1>7. PICK top : top = Top(a)
  OBVIOUS
<1>8. top \in P /\ \A y \in P \ {top} : QueueLess(top, y)
  BY <1>1, <1>6, <1>7 DEF Top
<1>9. \A y \in P : top.ts <= y.ts
  BY <1>2, <1>8, QueueLessIs
<1> QED BY <1>1, <1>7, <1>8, <1>9

\* A retry comes after the attempt it repeats.
LEMMA RetryIs ==
  ASSUME NEW a, a.inbound \in Seq(Postings), NEW r \in Postings, NEW tries
  PROVE  \/ ResolveRetryTimestamp(a, r, tries).ts = 0
         \/ /\ ResolveRetryTimestamp(a, r, tries).ts \in Int
            /\ ResolveRetryTimestamp(a, r, tries).ts > r.ts
<1>1. PICK q : q = ResolveRetryTimestamp(a, r, tries)
  OBVIOUS
<1>2. r.ts \in Int
  BY DEF Postings
<1>3. PICK cure : cure = FindFutureCure(a, r)
  OBVIOUS
<1>4. PaddingFor(r.chan) \in Nat \ {0} /\ BlindDelayFor(tries) \in Nat \ {0}
  BY ReplayAssumption DEF PaddingFor, BlindDelayFor
<1>5. CASE cure # 0
  <2>1. PICK C : C = Cures(a, r)
    OBVIOUS
  <2>2. PICK first : first = CHOOSE n \in C : \A m \in C : n <= m
    OBVIOUS
  <2>3. C # {} /\ cure = a.inbound[first].ts
    BY <1>3, <1>5, <2>1, <2>2 DEF FindFutureCure
  <2>4. C \in SUBSET Nat
    <3>1. DOMAIN a.inbound = 1 .. Len(a.inbound) /\ Len(a.inbound) \in Nat
      BY LenProperties
    <3> QED BY <2>1, <3>1 DEF Cures
  <2>5. \E n \in C : \A m \in C : n <= m
    BY <2>3, <2>4, LeastNat
  <2>6. first \in C
    BY <2>2, <2>5
  <2>7. first \in DOMAIN a.inbound /\ a.inbound[first].ts > r.ts
    BY <2>1, <2>6 DEF Cures
  <2>8. a.inbound[first] \in Postings
    <3>1. DOMAIN a.inbound = 1 .. Len(a.inbound)
      BY LenProperties
    <3> QED BY <2>7, <3>1, ElementOfSeq
  <2>9. cure \in Int /\ cure > r.ts
    BY <2>3, <2>7, <2>8 DEF Postings
  <2>10. q.ts = cure + PaddingFor(r.chan)
    BY <1>1, <1>3, <1>5 DEF ResolveRetryTimestamp
  <2> QED BY <1>1, <1>2, <1>4, <2>9, <2>10
<1>6. CASE cure = 0
  <2>1. q.ts = 0 \/ q.ts = r.ts + BlindDelayFor(tries)
    <3>1. CASE ~MayRetryBlind(r, tries)
      BY <1>1, <1>3, <1>6, <3>1 DEF ResolveRetryTimestamp
    <3>2. CASE MayRetryBlind(r, tries)
      <4>1. q.ts = IF a.draws + 1 \in a.coins THEN r.ts + BlindDelayFor(tries) ELSE 0
        BY <1>1, <1>3, <1>6, <3>2 DEF ResolveRetryTimestamp
      <4> QED BY <4>1
    <3> QED BY <3>1, <3>2
  <2> QED BY <1>1, <1>2, <1>4, <2>1
<1> QED BY <1>5, <1>6

\* What a turn makes of accumulator a whose top is item.
Turned(z, a, item, lo) ==
  /\ IsAcc(z) /\ IsBook(z.book) /\ z.next = a.next /\ z.inbound = a.inbound
  /\ z.txns \in Seq(Postings) /\ NoneBefore(z.txns, lo) /\ z.drops \in Seq(Drops)
  /\ z.declined = a.declined \/ z.declined = Append(a.declined, item.row)
  /\ \/ /\ z.pending = a.pending \ {item} /\ z.retry = a.retry
        /\ \A id \in Int \ {0} :
             Count(z.txns, id) + Count(z.drops, id)
               = Count(a.txns, id) + Count(a.drops, id) + IF item.row.audit = id THEN 1 ELSE 0
     \/ /\ z.declined = Append(a.declined, item.row)
        /\ item.tries < MaxAttemptsFor(item.row.chan)
        /\ \E t \in Int :
             /\ t > item.row.ts
             /\ z.pending = (a.pending \ {item}) \cup
                  {[ts |-> t, late |-> 1, seq |-> a.retry, tries |-> item.tries + 1,
                    row |-> [item.row EXCEPT !.ts = t]]}
        /\ z.retry = a.retry + 1
        /\ \A id \in Int \ {0} :
             Count(z.txns, id) + Count(z.drops, id) = Count(a.txns, id) + Count(a.drops, id)

\* z is c with row r among the drops.
DropsRow(z, c, r) ==
  /\ IsAcc(z) /\ z.book = c.book /\ z.next = c.next /\ z.inbound = c.inbound
  /\ z.txns = c.txns /\ z.declined = c.declined /\ z.pending = c.pending
  /\ z.retry = c.retry /\ z.drops \in Seq(Drops)
  /\ \A id \in Int : Count(z.drops, id) = Count(c.drops, id) + IF r.audit = id THEN 1 ELSE 0

\* Dropping a row adds it to the drops and changes nothing else.
LEMMA DroppedIs ==
  ASSUME NEW c, IsAcc(c), c.drops \in Seq(Drops), NEW r \in Postings, NEW why \in Reasons
  PROVE  DropsRow(Dropped(c, why, r), c, r)
<1>1. PICK d : d = [reason |-> why, audit |-> r.audit]
  OBVIOUS
<1>2. d \in Drops /\ d.audit = r.audit
  BY <1>1 DEF Drops, Postings
<1>3. PICK z : z = Dropped(c, why, r)
  OBVIOUS
<1>4. /\ IsAcc(z) /\ z.book = c.book /\ z.next = c.next /\ z.inbound = c.inbound
      /\ z.txns = c.txns /\ z.declined = c.declined /\ z.pending = c.pending
      /\ z.retry = c.retry /\ z.drops = Append(c.drops, d)
  BY <1>1, <1>3 DEF Dropped, IsAcc, AccFields
<1>5. z.drops \in Seq(Drops)
  BY <1>2, <1>4, AppendProperties
<1>6. \A id \in Int : Count(z.drops, id) = Count(c.drops, id) + IF r.audit = id THEN 1 ELSE 0
  BY <1>2, <1>4, CountAppend
<1> QED BY <1>3, <1>4, <1>5, <1>6 DEF DropsRow

\* c is a but for the book and rows of the bank's own from instant lo on.
OnlyPosts(c, a, lo) ==
  /\ IsAcc(c) /\ IsBook(c.book) /\ c.txns \in Seq(Postings) /\ NoneBefore(c.txns, lo)
  /\ \A id \in Int \ {0} : Count(c.txns, id) = Count(a.txns, id)
  /\ c.pending = a.pending /\ c.next = a.next /\ c.retry = a.retry
  /\ c.drops = a.drops /\ c.declined = a.declined /\ c.inbound = a.inbound

\* The bank's own rows come first: interest, then the fee of the row.
LEMMA PostedIs ==
  ASSUME NEW a, IsAcc(a), IsBook(a.book), a.txns \in Seq(Postings),
         NEW lo \in Int, NoneBefore(a.txns, lo), NEW r \in Postings, lo <= r.ts,
         NEW b, b = [OnLiquidityEvents(a, AccrueEvents(a.book, r.ts)) EXCEPT !.book = Accrue(@, r.ts)],
         NEW c, c = [OnLiquidityEvents(b, TransferEvents(b.book, r)) EXCEPT !.book = TransferAt(@, r)]
  PROVE  OnlyPosts(c, a, lo)
<1>1. r.ts \in Int
  BY DEF Postings
<1>2. PICK x : x = OnLiquidityEvents(a, AccrueEvents(a.book, r.ts))
  OBVIOUS
<1>3. OnlyCharges(x, a, lo)
  <2>1. AccrueEvents(a.book, r.ts) \in Seq(EventsAt(r.ts))
    BY <1>1, AccrueIs
  <2> QED BY <1>1, <1>2, <2>1, ChargesAre
<1>4. PICK book : book = Accrue(a.book, r.ts) /\ IsBook(book)
  BY <1>1, AccrueIs
<1>5. b = [x EXCEPT !.book = book]
  BY <1>2, <1>3, <1>4 DEF OnlyCharges
<1>6. /\ IsAcc(b) /\ b.book = book /\ b.txns = x.txns /\ b.pending = x.pending
      /\ b.next = x.next /\ b.retry = x.retry /\ b.drops = x.drops
      /\ b.declined = x.declined /\ b.inbound = x.inbound
  <2>1. IsAcc(x)
    BY <1>3 DEF OnlyCharges
  <2> QED BY <1>5, <2>1 DEF IsAcc, AccFields
<1>7. PICK y : y = OnLiquidityEvents(b, TransferEvents(b.book, r))
  OBVIOUS
<1>8. OnlyCharges(y, b, lo)
  <2>1. TransferEvents(b.book, r) \in Seq(EventsAt(r.ts))
    BY <1>4, <1>6, TransferIs
  <2>2. b.txns \in Seq(Postings) /\ NoneBefore(b.txns, lo)
    BY <1>3, <1>6 DEF OnlyCharges
  <2> QED BY <1>1, <1>6, <1>7, <2>1, <2>2, ChargesAre
<1>9. PICK after : after = TransferAt(b.book, r) /\ IsBook(after)
  BY <1>4, <1>6, TransferIs
<1>10. c = [y EXCEPT !.book = after]
  BY <1>7, <1>8, <1>9 DEF OnlyCharges
<1>11. /\ IsAcc(c) /\ c.book = after /\ c.txns = y.txns /\ c.pending = y.pending
       /\ c.next = y.next /\ c.retry = y.retry /\ c.drops = y.drops
       /\ c.declined = y.declined /\ c.inbound = y.inbound
  <2>1. IsAcc(y)
    BY <1>8 DEF OnlyCharges
  <2> QED BY <1>10, <2>1 DEF IsAcc, AccFields
<1>12. \A id \in Int \ {0} : Count(c.txns, id) = Count(a.txns, id)
  BY <1>3, <1>6, <1>8, <1>11 DEF OnlyCharges
<1> QED BY <1>3, <1>6, <1>8, <1>9, <1>11, <1>12 DEF OnlyCharges, OnlyPosts

\* z is c with one attempt of item declined, and its row dropped or queued again.
Declines(z, c, item) ==
  /\ IsAcc(z) /\ z.book = c.book /\ z.next = c.next /\ z.inbound = c.inbound
  /\ z.txns = c.txns /\ z.declined = Append(c.declined, item.row) /\ z.drops \in Seq(Drops)
  /\ \/ /\ z.pending = c.pending /\ z.retry = c.retry
        /\ \A id \in Int : Count(z.drops, id) = Count(c.drops, id)
                                                + IF item.row.audit = id THEN 1 ELSE 0
     \/ /\ item.tries < MaxAttemptsFor(item.row.chan)
        /\ \E t \in Int :
             /\ t > item.row.ts
             /\ z.pending = c.pending \cup
                  {[ts |-> t, late |-> 1, seq |-> c.retry, tries |-> item.tries + 1,
                    row |-> [item.row EXCEPT !.ts = t]]}
        /\ z.retry = c.retry + 1 /\ z.drops = c.drops

\* An unfunded row is a declined attempt, and is dropped or queued once more.
LEMMA UnfundedIs ==
  ASSUME NEW c, IsAcc(c), c.drops \in Seq(Drops), c.declined \in Seq(Postings),
         c.inbound \in Seq(Postings), NEW item \in Items
  PROVE  Declines(Unfunded(c, item), c, item)
<1>1. PICK r \in Postings : r = item.row
  BY DEF Items
<1>2. PICK q : q = ResolveRetryTimestamp(c, r, item.tries)
  OBVIOUS
<1>3. q.ts = 0 \/ (q.ts \in Int /\ q.ts > r.ts)
  BY <1>2, RetryIs
<1>4. PICK b : b = [c EXCEPT !.declined = Append(@, r), !.draws = q.draws]
  OBVIOUS
<1>5. /\ IsAcc(b) /\ b.book = c.book /\ b.next = c.next /\ b.inbound = c.inbound
      /\ b.txns = c.txns /\ b.declined = Append(c.declined, r) /\ b.pending = c.pending
      /\ b.retry = c.retry /\ b.drops = c.drops
  BY <1>4 DEF IsAcc, AccFields
<1>6. PICK z : z = Unfunded(c, item)
  OBVIOUS
<1> DEFINE new == [ts |-> q.ts, late |-> 1, seq |-> c.retry, tries |-> item.tries + 1,
                   row |-> [r EXCEPT !.ts = q.ts]]
<1>7. z = IF q.ts = 0 THEN Dropped(b, TerminalReason(r.chan), r)
          ELSE IF item.tries + 1 > MaxAttemptsFor(r.chan) THEN Dropped(b, "exhausted", r)
          ELSE [b EXCEPT !.pending = @ \cup {new}, !.retry = @ + 1]
  BY <1>1, <1>2, <1>4, <1>6 DEF Unfunded
<1>8. TerminalReason(r.chan) \in Reasons /\ "exhausted" \in Reasons
  BY DEF TerminalReason, Reasons
<1>9. ASSUME NEW why \in Reasons, z = Dropped(b, why, r)
      PROVE  /\ IsAcc(z) /\ z.book = c.book /\ z.next = c.next /\ z.inbound = c.inbound
             /\ z.txns = c.txns /\ z.declined = Append(c.declined, r) /\ z.drops \in Seq(Drops)
             /\ z.pending = c.pending /\ z.retry = c.retry
             /\ \A id \in Int : Count(z.drops, id) = Count(c.drops, id)
                                                     + IF r.audit = id THEN 1 ELSE 0
  <2>1. b.drops \in Seq(Drops)
    BY <1>5
  <2>2. DropsRow(z, b, r)
    BY <1>5, <1>9, <2>1, DroppedIs
  <2> QED BY <1>5, <2>2 DEF DropsRow
<1>10. CASE q.ts = 0
  <2>1. z = Dropped(b, TerminalReason(r.chan), r)
    BY <1>7, <1>10
  <2> QED BY <1>1, <1>6, <1>8, <1>9, <2>1 DEF Declines
<1>11. CASE q.ts # 0 /\ item.tries + 1 > MaxAttemptsFor(r.chan)
  <2>1. z = Dropped(b, "exhausted", r)
    BY <1>7, <1>11
  <2> QED BY <1>1, <1>6, <1>8, <1>9, <2>1 DEF Declines
<1>12. CASE q.ts # 0 /\ ~(item.tries + 1 > MaxAttemptsFor(r.chan))
  <2>1. z = [b EXCEPT !.pending = @ \cup {new}, !.retry = @ + 1]
    BY <1>7, <1>12
  <2>2. /\ IsAcc(z) /\ z.book = c.book /\ z.next = c.next /\ z.inbound = c.inbound
        /\ z.txns = c.txns /\ z.declined = Append(c.declined, r) /\ z.drops = c.drops
        /\ z.pending = c.pending \cup {new} /\ z.retry = c.retry + 1
    <3> HIDE DEF new
    <3> QED BY <1>5, <2>1 DEF IsAcc, AccFields
  <2>3. item.tries < MaxAttemptsFor(r.chan)
    <3>1. item.tries \in Int /\ MaxAttemptsFor(r.chan) \in Int
      BY DEF Items, MaxAttemptsFor
    <3> QED BY <1>12, <3>1
  <2>4. q.ts \in Int /\ q.ts > r.ts
    BY <1>3, <1>12
  <2> QED BY <1>1, <1>6, <2>2, <2>3, <2>4 DEF Declines
<1> QED BY <1>10, <1>11, <1>12

\* A turn settles, drops or requeues the row on top.
LEMMA TurnIs ==
  ASSUME NEW a, IsAcc(a), IsBook(a.book), a.txns \in Seq(Postings), a.drops \in Seq(Drops),
         a.declined \in Seq(Postings), a.inbound \in Seq(Postings),
         NEW lo \in Int, NoneBefore(a.txns, lo),
         NEW item \in Items, item = Top(a), item.row.ts = item.ts, lo <= item.ts
  PROVE  Turned(SettleTop(a), a, item, lo)
<1>1. PICK r \in Postings : r = item.row
  BY DEF Items
<1>2. PICK popped : popped = [a EXCEPT !.pending = @ \ {item}]
  OBVIOUS
<1>3. /\ IsAcc(popped) /\ popped.book = a.book /\ popped.txns = a.txns
      /\ popped.pending = a.pending \ {item} /\ popped.next = a.next
      /\ popped.retry = a.retry /\ popped.drops = a.drops
      /\ popped.declined = a.declined /\ popped.inbound = a.inbound
  BY <1>2 DEF IsAcc, AccFields
<1>4. PICK accrued : accrued = [OnLiquidityEvents(popped, AccrueEvents(popped.book, r.ts))
                                  EXCEPT !.book = Accrue(@, r.ts)]
  OBVIOUS
<1>5. PICK posted : posted = [OnLiquidityEvents(accrued, TransferEvents(accrued.book, r))
                                EXCEPT !.book = TransferAt(@, r)]
  OBVIOUS
<1>6. /\ IsAcc(posted) /\ IsBook(posted.book) /\ posted.txns \in Seq(Postings)
      /\ NoneBefore(posted.txns, lo)
      /\ \A id \in Int \ {0} : Count(posted.txns, id) = Count(a.txns, id)
      /\ posted.pending = a.pending \ {item} /\ posted.next = a.next /\ posted.retry = a.retry
      /\ posted.drops = a.drops /\ posted.declined = a.declined /\ posted.inbound = a.inbound
  <2>1. lo <= r.ts
    BY <1>1
  <2>2. IsBook(popped.book) /\ popped.txns \in Seq(Postings) /\ NoneBefore(popped.txns, lo)
    BY <1>3
  <2>3. OnlyPosts(posted, popped, lo)
    BY <1>3, <1>4, <1>5, <2>1, <2>2, PostedIs
  <2> QED BY <1>3, <2>3 DEF OnlyPosts
<1>7. PICK why : why = Decision(accrued.book, r)
  OBVIOUS
<1>8. why \in {"unbooked", "invalid", "unfunded", "accepted"}
  BY <1>7 DEF Decision
<1>9. PICK z : z = SettleTop(a)
  OBVIOUS
<1>10. z = IF why = "accepted" THEN [posted EXCEPT !.txns = Append(@, r)]
           ELSE IF why = "unfunded" THEN Unfunded(posted, item)
           ELSE Dropped(posted, why, r)
  <2>1. popped.book = a.book /\ item.ts = r.ts
    BY <1>1, <1>3
  <2>2. accrued = [OnLiquidityEvents(popped, AccrueEvents(a.book, item.ts))
                     EXCEPT !.book = Accrue(@, item.ts)]
    BY <1>4, <2>1
  <2> QED BY <1>1, <1>2, <1>5, <1>7, <1>9, <2>2 DEF SettleTop
<1>11. \A id : Count(posted.txns, id) \in Nat /\ Count(posted.drops, id) \in Nat
  BY <1>6, PlacesFinite
<1>12. CASE why = "accepted"
  <2>1. PICK txns : txns = Append(posted.txns, r)
    OBVIOUS
  <2>2. /\ IsAcc(z) /\ z.txns = txns /\ z.book = posted.book /\ z.pending = posted.pending
        /\ z.next = posted.next /\ z.retry = posted.retry /\ z.drops = posted.drops
        /\ z.declined = posted.declined /\ z.inbound = posted.inbound
    <3>1. z = [posted EXCEPT !.txns = txns]
      BY <1>10, <1>12, <2>1
    <3> QED BY <1>6, <3>1 DEF IsAcc, AccFields
  <2>3. txns \in Seq(Postings) /\ NoneBefore(txns, lo)
    BY <1>1, <1>6, <2>1, AppendKeeps
  <2>4. ASSUME NEW id \in Int \ {0}
        PROVE  Count(txns, id) + Count(z.drops, id)
                 = Count(a.txns, id) + Count(a.drops, id) + IF r.audit = id THEN 1 ELSE 0
    <3>1. Count(txns, id) = Count(posted.txns, id) + IF r.audit = id THEN 1 ELSE 0
      BY <1>6, <2>1, CountAppend
    <3>2. Count(posted.txns, id) = Count(a.txns, id) /\ z.drops = a.drops
      BY <1>6, <2>2
    <3>3. Count(a.txns, id) \in Nat /\ Count(a.drops, id) \in Nat
      BY PlacesFinite
    <3> QED BY <3>1, <3>2, <3>3
  <2> QED BY <1>1, <1>6, <1>9, <2>2, <2>3, <2>4 DEF Turned
<1>13. CASE why = "unfunded"
  <2>1. z = Unfunded(posted, item)
    BY <1>10, <1>13
  <2>2. posted.drops \in Seq(Drops) /\ posted.declined \in Seq(Postings) /\ posted.inbound \in Seq(Postings)
    BY <1>6
  <2>0. Declines(z, posted, item)
    BY <1>6, <2>1, <2>2, UnfundedIs
  <2>3. /\ IsAcc(z) /\ z.book = posted.book /\ z.next = posted.next /\ z.inbound = posted.inbound
        /\ z.txns = posted.txns /\ z.declined = Append(posted.declined, item.row)
        /\ z.drops \in Seq(Drops)
    BY <2>0 DEF Declines
  <2>4. \/ /\ z.pending = posted.pending /\ z.retry = posted.retry
           /\ \A id \in Int : Count(z.drops, id) = Count(posted.drops, id)
                                                   + IF item.row.audit = id THEN 1 ELSE 0
        \/ /\ item.tries < MaxAttemptsFor(item.row.chan)
           /\ \E t \in Int :
                /\ t > item.row.ts
                /\ z.pending = posted.pending \cup
                     {[ts |-> t, late |-> 1, seq |-> posted.retry, tries |-> item.tries + 1,
                       row |-> [item.row EXCEPT !.ts = t]]}
           /\ z.retry = posted.retry + 1 /\ z.drops = posted.drops
    BY <2>0 DEF Declines
  <2>5. CASE /\ z.pending = posted.pending /\ z.retry = posted.retry
             /\ \A id \in Int : Count(z.drops, id) = Count(posted.drops, id)
                                                     + IF item.row.audit = id THEN 1 ELSE 0
    <3>1. ASSUME NEW id \in Int \ {0}
          PROVE  Count(z.txns, id) + Count(z.drops, id)
                   = Count(a.txns, id) + Count(a.drops, id) + IF item.row.audit = id THEN 1 ELSE 0
      <4>1. Count(z.txns, id) = Count(a.txns, id)
        BY <1>6, <2>3
      <4>2. Count(z.drops, id) = Count(a.drops, id) + IF item.row.audit = id THEN 1 ELSE 0
        BY <1>6, <2>5
      <4>3. Count(a.txns, id) \in Nat /\ Count(a.drops, id) \in Nat
        BY PlacesFinite
      <4> QED BY <4>1, <4>2, <4>3
    <3> QED BY <1>6, <1>9, <2>3, <2>5, <3>1 DEF Turned
  <2>6. CASE /\ item.tries < MaxAttemptsFor(item.row.chan)
             /\ \E t \in Int :
                  /\ t > item.row.ts
                  /\ z.pending = posted.pending \cup
                       {[ts |-> t, late |-> 1, seq |-> posted.retry, tries |-> item.tries + 1,
                         row |-> [item.row EXCEPT !.ts = t]]}
             /\ z.retry = posted.retry + 1 /\ z.drops = posted.drops
    <3>1. \A id \in Int \ {0} :
            Count(z.txns, id) + Count(z.drops, id) = Count(a.txns, id) + Count(a.drops, id)
      BY <1>6, <2>3, <2>6
    <3> QED BY <1>6, <1>9, <2>3, <2>6, <3>1 DEF Turned
  <2> QED BY <2>4, <2>5, <2>6
<1>14. CASE why # "accepted" /\ why # "unfunded"
  <2>1. z = Dropped(posted, why, r) /\ why \in Reasons
    BY <1>8, <1>10, <1>14 DEF Reasons
  <2>2. /\ IsAcc(z) /\ z.book = posted.book /\ z.next = posted.next /\ z.inbound = posted.inbound
        /\ z.txns = posted.txns /\ z.declined = posted.declined /\ z.pending = posted.pending
        /\ z.retry = posted.retry /\ z.drops \in Seq(Drops)
        /\ \A id \in Int : Count(z.drops, id) = Count(posted.drops, id)
                                                + IF r.audit = id THEN 1 ELSE 0
    <3>1. posted.drops \in Seq(Drops)
      BY <1>6
    <3>2. DropsRow(z, posted, r)
      BY <1>6, <2>1, <3>1, DroppedIs
    <3> QED BY <3>2 DEF DropsRow
  <2>3. ASSUME NEW id \in Int \ {0}
        PROVE  Count(z.txns, id) + Count(z.drops, id)
                 = Count(a.txns, id) + Count(a.drops, id) + IF r.audit = id THEN 1 ELSE 0
    <3>1. Count(z.txns, id) = Count(a.txns, id)
      BY <1>6, <2>2
    <3>2. Count(z.drops, id) = Count(a.drops, id) + IF r.audit = id THEN 1 ELSE 0
      BY <1>6, <2>2
    <3>3. Count(a.txns, id) \in Nat /\ Count(a.drops, id) \in Nat
      BY PlacesFinite
    <3> QED BY <3>1, <3>2, <3>3
  <2> QED BY <1>1, <1>6, <1>9, <2>2, <2>3 DEF Turned
<1> QED BY <1>12, <1>13, <1>14

-----------------------------------------------------------------------------
(* What every turn keeps *)

\* The items of P that carry row id.
Carrying(P, id) == {i \in P : i.row.audit = id}

\* How often row id is in the hands of a.
Held(a, id) == Count(a.txns, id) + Count(a.drops, id) + Cardinality(Carrying(a.pending, id))

\* The attempts of row id, D of them in earlier spans.
Tried(D, a, id) == Count(D, id) + Count(a.declined, id)

\* H gives the channel of every row handed over.
Known(H, r) == r.audit > 0 /\ r.audit \in DOMAIN H /\ H[r.audit] = r.chan

Typed(a) ==
  /\ IsAcc(a) /\ IsBook(a.book) /\ a.next \in Nat /\ a.retry \in Nat
  /\ a.txns \in Seq(Postings) /\ a.drops \in Seq(Drops) /\ a.declined \in Seq(Postings)
  /\ a.inbound \in Seq(Postings)

\* Every item has a row and a place of its own, none before lo.
Queues(a, lo) ==
  /\ a.pending \in SUBSET Items /\ IsFiniteSet(a.pending) /\ DistinctPlaces(a.pending)
  /\ \A i, j \in a.pending : i.row.audit = j.row.audit => i = j
  /\ \A i \in a.pending : /\ i.row.ts = i.ts /\ lo <= i.ts
                          /\ i.late = 0 => i.seq <= a.next
                          /\ i.late = 1 => i.seq < a.retry

\* A queued row has been tried as often as its item says, and none too often.
Attempts(a, D, H, lo, hi) ==
  /\ \A i \in a.pending : /\ Known(H, i.row) /\ Tried(D, a, i.row.audit) <= i.tries
                          /\ i.tries <= MaxAttemptsFor(i.row.chan)
  /\ \A id \in DOMAIN H : Tried(D, a, id) <= 1 + MaxAttemptsFor(H[id])
  /\ \A n \in 1 .. Len(a.declined) : /\ Known(H, a.declined[n])
                                     /\ lo <= a.declined[n].ts /\ a.declined[n].ts < hi

Sound(a, D, H, lo, hi) ==
  Typed(a) /\ Queues(a, lo) /\ Attempts(a, D, H, lo, hi) /\ NoneBefore(a.txns, lo)

\* A channel is retried once or twice.
LEMMA MaxAttempts == \A chan : MaxAttemptsFor(chan) \in {1, 2}
  BY DEF MaxAttemptsFor

\* An item taken off the queue is one less of its row.
LEMMA CarryingLess ==
  ASSUME NEW P, IsFiniteSet(P), NEW x \in P, NEW id
  PROVE  /\ Cardinality(Carrying(P, id)) \in Nat /\ Cardinality(Carrying(P \ {x}, id)) \in Nat
         /\ Cardinality(Carrying(P, id))
              = Cardinality(Carrying(P \ {x}, id)) + IF x.row.audit = id THEN 1 ELSE 0
<1>1. PICK A : A = Carrying(P, id)
  OBVIOUS
<1>2. PICK B : B = Carrying(P \ {x}, id)
  OBVIOUS
<1>3. IsFiniteSet(A) /\ IsFiniteSet(B)
  <2>1. A \in SUBSET P /\ B \in SUBSET P
    BY <1>1, <1>2 DEF Carrying
  <2> QED BY <2>1, FS_Subset
<1>4. Cardinality(A) \in Nat /\ Cardinality(B) \in Nat
  BY <1>3, FS_CardinalityType
<1>5. CASE x.row.audit = id
  <2>1. x \in A /\ B = A \ {x}
    BY <1>1, <1>2, <1>5 DEF Carrying
  <2>2. Cardinality(A \ {x}) = Cardinality(A) - 1
    BY <1>3, <2>1, FS_RemoveElement
  <2>3. PICK m \in Nat, n \in Nat : m = Cardinality(A) /\ n = Cardinality(B)
    BY <1>4
  <2>4. m = n + 1
    BY <2>1, <2>2, <2>3
  <2> QED BY <1>1, <1>2, <1>5, <2>3, <2>4
<1>6. CASE x.row.audit # id
  <2>1. A = B
    BY <1>1, <1>2, <1>6 DEF Carrying
  <2> QED BY <1>1, <1>2, <1>4, <1>6, <2>1
<1> QED BY <1>5, <1>6

\* An item put on the queue is one more of its row.
LEMMA CarryingMore ==
  ASSUME NEW P, IsFiniteSet(P), NEW x, x \notin P, NEW id
  PROVE  Cardinality(Carrying(P \cup {x}, id))
           = Cardinality(Carrying(P, id)) + IF x.row.audit = id THEN 1 ELSE 0
<1>1. PICK Q : Q = P \cup {x}
  OBVIOUS
<1>2. IsFiniteSet(Q) /\ x \in Q /\ Q \ {x} = P
  BY <1>1, FS_AddElement
<1>3. Cardinality(Carrying(Q, id)) = Cardinality(Carrying(Q \ {x}, id)) + IF x.row.audit = id THEN 1 ELSE 0
  BY <1>2, CarryingLess
<1> QED BY <1>1, <1>2, <1>3

\* z has at most one declined attempt more than a, of row r.
TriesOnce(z, a, r, D) ==
  /\ \A id : Tried(D, a, id) \in Nat /\ Tried(D, z, id) \in Nat
  /\ \A id : id # r.audit => Tried(D, z, id) = Tried(D, a, id)
  /\ Tried(D, z, r.audit) <= 1 + Tried(D, a, r.audit)
  /\ z.declined \in Seq(Postings)
  /\ \A n \in 1 .. Len(z.declined) :
       z.declined[n] = r \/ (n \in 1 .. Len(a.declined) /\ z.declined[n] = a.declined[n])

\* One more declined attempt is one of its row.
LEMMA TriedMore ==
  ASSUME NEW a, a.declined \in Seq(Postings), NEW z, NEW r \in Postings, NEW D \in Seq(Postings),
         z.declined = a.declined \/ z.declined = Append(a.declined, r)
  PROVE  TriesOnce(z, a, r, D)
<1>1. z.declined \in Seq(Postings)
  <2>1. Append(a.declined, r) \in Seq(Postings)
    BY AppendProperties
  <2> QED BY <2>1
<1>2. \A id : Count(D, id) \in Nat /\ Count(a.declined, id) \in Nat /\ Count(z.declined, id) \in Nat
  BY <1>1, PlacesFinite
<1>3. ASSUME NEW id
      PROVE  \/ Count(z.declined, id) = Count(a.declined, id)
             \/ Count(z.declined, id) = Count(a.declined, id) + IF r.audit = id THEN 1 ELSE 0
  <2>1. Count(Append(a.declined, r), id) = Count(a.declined, id) + IF r.audit = id THEN 1 ELSE 0
    BY CountAppend
  <2> QED BY <2>1
<1>4. \A id : Tried(D, a, id) \in Nat /\ Tried(D, z, id) \in Nat
  BY <1>2 DEF Tried
<1>5. ASSUME NEW id, id # r.audit PROVE Tried(D, z, id) = Tried(D, a, id)
  BY <1>2, <1>3, <1>5 DEF Tried
<1>6. Tried(D, z, r.audit) <= 1 + Tried(D, a, r.audit)
  <2>1. \/ Count(z.declined, r.audit) = Count(a.declined, r.audit)
        \/ Count(z.declined, r.audit) = Count(a.declined, r.audit) + 1
    BY <1>3
  <2> QED BY <1>2, <2>1 DEF Tried
<1>7. ASSUME NEW n \in 1 .. Len(z.declined)
      PROVE  z.declined[n] = r \/ (n \in 1 .. Len(a.declined) /\ z.declined[n] = a.declined[n])
  <2>1. PICK N \in Nat : N = Len(a.declined)
    BY LenProperties
  <2>2. CASE z.declined = a.declined
    BY <2>2
  <2>3. CASE z.declined = Append(a.declined, r)
    <3>1. /\ Len(z.declined) = N + 1 /\ z.declined[N + 1] = r
          /\ \A i \in 1 .. N : z.declined[i] = a.declined[i]
      BY <2>1, <2>3, AppendProperties
    <3>2. n = N + 1 \/ n \in 1 .. N
      BY <3>1
    <3> QED BY <2>1, <3>1, <3>2
  <2> QED BY <2>2, <2>3
<1> QED BY <1>1, <1>4, <1>5, <1>6, <1>7 DEF TriesOnce

\* A turn keeps all of it, hands no row to nobody, and takes an item off the queue
\* or puts it back with one attempt more.
LEMMA TurnKeeps ==
  ASSUME NEW a, NEW D \in Seq(Postings), NEW H, NEW lo \in Int, NEW hi \in Int,
         Sound(a, D, H, lo, hi), a.pending # {}, Top(a).ts < hi,
         NEW z, z = SettleTop(a)
  PROVE  /\ Sound(z, D, H, lo, hi)
         /\ \A id \in Int \ {0} : Held(z, id) = Held(a, id)
         /\ \E item \in a.pending : \A j \in z.pending :
              \/ j \in a.pending /\ j.row.audit # item.row.audit
              \/ j.row.audit = item.row.audit /\ j.tries = item.tries + 1
<1>1. PICK item : item = Top(a)
  OBVIOUS
<1>2. item \in a.pending /\ item \in Items /\ item.ts < hi
  <2>1. a.pending \in SUBSET Items /\ IsFiniteSet(a.pending) /\ DistinctPlaces(a.pending)
    BY DEF Sound, Queues
  <2>2. Top(a) \in a.pending
    BY <2>1, TopIs
  <2> QED BY <1>1, <2>1, <2>2
<1>3. PICK r \in Postings : r = item.row
  BY <1>2 DEF Items
<1>4. /\ r.ts = item.ts /\ lo <= item.ts /\ Known(H, r) /\ Tried(D, a, r.audit) <= item.tries
      /\ item.tries <= MaxAttemptsFor(r.chan)
  BY <1>2, <1>3 DEF Sound, Queues, Attempts
<1>5. item.ts \in Int /\ item.tries \in 0 .. 2 /\ r.audit \in Int /\ r.audit > 0 /\ r.ts \in Int
  BY <1>2, <1>4 DEF Items, Known, Postings
<1>6. Typed(a) /\ NoneBefore(a.txns, lo)
  BY DEF Sound
<1>7. Turned(z, a, item, lo)
  <2>1. /\ IsAcc(a) /\ IsBook(a.book) /\ a.txns \in Seq(Postings) /\ a.drops \in Seq(Drops)
        /\ a.declined \in Seq(Postings) /\ a.inbound \in Seq(Postings)
    BY <1>6 DEF Typed
  <2>2. item.row.ts = item.ts
    BY <1>3, <1>4
  <2> QED BY <1>1, <1>2, <1>4, <1>6, <2>1, <2>2, TurnIs
<1>8. PICK rest : rest = a.pending \ {item}
  OBVIOUS
<1>9. /\ IsFiniteSet(a.pending) /\ IsFiniteSet(rest) /\ rest \in SUBSET Items /\ rest \in SUBSET a.pending
      /\ \A j \in rest : j.row.audit # r.audit
  <2>1. a.pending \in SUBSET Items /\ IsFiniteSet(a.pending)
        /\ \A i, j \in a.pending : i.row.audit = j.row.audit => i = j
    BY DEF Sound, Queues
  <2>2. rest \in SUBSET a.pending
    BY <1>8
  <2>3. IsFiniteSet(rest)
    BY <2>1, <2>2, FS_Subset
  <2>4. ASSUME NEW j \in rest PROVE j.row.audit # r.audit
    BY <1>2, <1>3, <1>8, <2>1
  <2> QED BY <2>1, <2>2, <2>3, <2>4
<1>10. a.declined \in Seq(Postings)
  BY <1>6 DEF Typed
<1>11. z.declined = a.declined \/ z.declined = Append(a.declined, r)
  BY <1>3, <1>7 DEF Turned
<1>12. /\ \A id : Tried(D, a, id) \in Nat /\ Tried(D, z, id) \in Nat
       /\ \A id : id # r.audit => Tried(D, z, id) = Tried(D, a, id)
       /\ Tried(D, z, r.audit) <= 1 + Tried(D, a, r.audit)
       /\ z.declined \in Seq(Postings)
       /\ \A n \in 1 .. Len(z.declined) :
            z.declined[n] = r \/ (n \in 1 .. Len(a.declined) /\ z.declined[n] = a.declined[n])
  <2>1. TriesOnce(z, a, r, D)
    BY <1>10, <1>11, TriedMore
  <2> QED BY <2>1 DEF TriesOnce
<1>13. MaxAttemptsFor(r.chan) \in {1, 2}
  BY MaxAttempts
<1>14. Tried(D, z, r.audit) <= item.tries + 1
  <2>1. PICK x \in Nat : x = Tried(D, a, r.audit)
    BY <1>12
  <2>2. PICK y \in Nat : y = Tried(D, z, r.audit)
    BY <1>12
  <2>3. x <= item.tries /\ y <= 1 + x
    BY <1>4, <1>12, <2>1, <2>2
  <2> QED BY <1>5, <2>2, <2>3
<1>15. \A id \in DOMAIN H : Tried(D, z, id) <= 1 + MaxAttemptsFor(H[id])
  <2> SUFFICES ASSUME NEW id \in DOMAIN H PROVE Tried(D, z, id) <= 1 + MaxAttemptsFor(H[id])
    OBVIOUS
  <2>1. CASE id = r.audit
    <3>1. H[id] = r.chan
      BY <1>4, <2>1 DEF Known
    <3>2. PICK y \in Nat : y = Tried(D, z, id)
      BY <1>12
    <3>3. PICK m \in Int : m = MaxAttemptsFor(r.chan)
      BY <1>13
    <3>4. y <= item.tries + 1 /\ item.tries <= m
      BY <1>4, <1>14, <2>1, <3>2, <3>3
    <3> QED BY <1>5, <3>1, <3>2, <3>3, <3>4
  <2>2. CASE id # r.audit
    <3>1. Tried(D, z, id) = Tried(D, a, id)
      BY <1>12, <2>2
    <3>2. Tried(D, a, id) <= 1 + MaxAttemptsFor(H[id])
      BY DEF Sound, Attempts
    <3> QED BY <3>1, <3>2
  <2> QED BY <2>1, <2>2
<1>16. \A n \in 1 .. Len(z.declined) : /\ Known(H, z.declined[n])
                                       /\ lo <= z.declined[n].ts /\ z.declined[n].ts < hi
  <2> SUFFICES ASSUME NEW n \in 1 .. Len(z.declined)
               PROVE  Known(H, z.declined[n]) /\ lo <= z.declined[n].ts /\ z.declined[n].ts < hi
    OBVIOUS
  <2>1. CASE z.declined[n] = r
    BY <1>2, <1>4, <2>1
  <2>2. CASE n \in 1 .. Len(a.declined) /\ z.declined[n] = a.declined[n]
    BY <2>2 DEF Sound, Attempts
  <2> QED BY <1>12, <2>1, <2>2
<1>17. \A j \in rest : /\ Known(H, j.row) /\ Tried(D, z, j.row.audit) <= j.tries
                       /\ j.tries <= MaxAttemptsFor(j.row.chan)
  <2> SUFFICES ASSUME NEW j \in rest
               PROVE  /\ Known(H, j.row) /\ Tried(D, z, j.row.audit) <= j.tries
                      /\ j.tries <= MaxAttemptsFor(j.row.chan)
    OBVIOUS
  <2>1. Tried(D, z, j.row.audit) = Tried(D, a, j.row.audit)
    BY <1>9, <1>12
  <2>2. j \in a.pending
    BY <1>9
  <2>3. /\ Known(H, j.row) /\ Tried(D, a, j.row.audit) <= j.tries
        /\ j.tries <= MaxAttemptsFor(j.row.chan)
    BY <2>2 DEF Sound, Attempts
  <2> QED BY <2>1, <2>3
<1>18. \A j \in rest : /\ j.row.ts = j.ts /\ lo <= j.ts
                       /\ j.late = 0 => j.seq <= a.next
                       /\ j.late = 1 => j.seq < a.retry
  BY <1>9 DEF Sound, Queues
<1>19. DistinctPlaces(rest) /\ \A i, j \in rest : i.row.audit = j.row.audit => i = j
  BY <1>9 DEF Sound, Queues, DistinctPlaces
<1>20. z.next = a.next /\ NoneBefore(z.txns, lo)
  BY <1>7 DEF Turned
<1>21. /\ IsAcc(z) /\ IsBook(z.book) /\ z.next \in Nat /\ z.inbound \in Seq(Postings)
       /\ z.txns \in Seq(Postings) /\ z.drops \in Seq(Drops) /\ a.retry \in Nat
  BY <1>6, <1>7 DEF Turned, Typed
<1>22. ASSUME NEW id \in Int \ {0}
       PROVE  /\ Count(z.txns, id) \in Nat /\ Count(z.drops, id) \in Nat
              /\ Count(a.txns, id) \in Nat /\ Count(a.drops, id) \in Nat
              /\ Cardinality(Carrying(rest, id)) \in Nat
              /\ Cardinality(Carrying(a.pending, id))
                   = Cardinality(Carrying(rest, id)) + IF r.audit = id THEN 1 ELSE 0
  <2>1. /\ Count(z.txns, id) \in Nat /\ Count(z.drops, id) \in Nat
        /\ Count(a.txns, id) \in Nat /\ Count(a.drops, id) \in Nat
    BY <1>6, <1>21, PlacesFinite DEF Typed
  <2>2. /\ Cardinality(Carrying(a.pending \ {item}, id)) \in Nat
        /\ Cardinality(Carrying(a.pending, id))
             = Cardinality(Carrying(a.pending \ {item}, id)) + IF item.row.audit = id THEN 1 ELSE 0
    BY <1>2, <1>9, CarryingLess
  <2> QED BY <1>3, <1>8, <2>1, <2>2
<1>23. CASE /\ z.pending = rest /\ z.retry = a.retry
            /\ \A id \in Int \ {0} :
                 Count(z.txns, id) + Count(z.drops, id)
                   = Count(a.txns, id) + Count(a.drops, id) + IF r.audit = id THEN 1 ELSE 0
  <2>1. Queues(z, lo)
    BY <1>9, <1>18, <1>19, <1>20, <1>23 DEF Queues
  <2>2. Attempts(z, D, H, lo, hi)
    BY <1>15, <1>16, <1>17, <1>23 DEF Attempts
  <2>3. Typed(z)
    <3>1. z.retry \in Nat /\ z.declined \in Seq(Postings)
      BY <1>12, <1>21, <1>23
    <3> QED BY <1>21, <3>1 DEF Typed
  <2>4. ASSUME NEW id \in Int \ {0} PROVE Held(z, id) = Held(a, id)
    <3>1. Count(z.txns, id) + Count(z.drops, id)
            = Count(a.txns, id) + Count(a.drops, id) + IF r.audit = id THEN 1 ELSE 0
      BY <1>23
    <3>2. PICK c \in Nat : c = Cardinality(Carrying(rest, id))
      BY <1>22
    <3>3. PICK u \in Nat, v \in Nat : u = Count(a.txns, id) /\ v = Count(a.drops, id)
      BY <1>22
    <3>4. PICK x \in Nat, y \in Nat : x = Count(z.txns, id) /\ y = Count(z.drops, id)
      BY <1>22
    <3>5. PICK one \in Nat : one = IF r.audit = id THEN 1 ELSE 0
      OBVIOUS
    <3>6. x + y = u + v + one
      BY <3>1, <3>3, <3>4, <3>5
    <3>7. Held(a, id) = u + v + (c + one)
      BY <1>22, <3>2, <3>3, <3>5 DEF Held
    <3>8. Held(z, id) = x + y + c
      BY <1>23, <3>2, <3>4 DEF Held
    <3> QED BY <3>6, <3>7, <3>8
  <2>5. \A j \in z.pending : j \in a.pending /\ j.row.audit # item.row.audit
    BY <1>3, <1>9, <1>23
  <2> QED BY <1>2, <1>20, <2>1, <2>2, <2>3, <2>4, <2>5 DEF Sound
<1>24. CASE /\ item.tries < MaxAttemptsFor(r.chan)
            /\ \E t \in Int :
                 /\ t > r.ts
                 /\ z.pending = rest \cup
                      {[ts |-> t, late |-> 1, seq |-> a.retry, tries |-> item.tries + 1,
                        row |-> [r EXCEPT !.ts = t]]}
            /\ z.retry = a.retry + 1
            /\ \A id \in Int \ {0} :
                 Count(z.txns, id) + Count(z.drops, id) = Count(a.txns, id) + Count(a.drops, id)
  <2>1. PICK t \in Int : /\ t > r.ts
                         /\ z.pending = rest \cup
                              {[ts |-> t, late |-> 1, seq |-> a.retry, tries |-> item.tries + 1,
                                row |-> [r EXCEPT !.ts = t]]}
    BY <1>24
  <2>2. PICK row : row = [r EXCEPT !.ts = t]
    OBVIOUS
  <2>3. row \in Postings /\ row.ts = t /\ row.audit = r.audit /\ row.chan = r.chan
    BY <2>2 DEF Postings
  <2>4. PICK new : new = [ts |-> t, late |-> 1, seq |-> a.retry, tries |-> item.tries + 1, row |-> row]
    OBVIOUS
  <2>5. item.tries + 1 \in 0 .. 2 /\ item.tries + 1 <= MaxAttemptsFor(r.chan)
    BY <1>5, <1>13, <1>24
  <2>6. /\ new \in Items /\ new.ts = t /\ new.late = 1 /\ new.seq = a.retry
        /\ new.tries = item.tries + 1 /\ new.row = row
    BY <1>21, <2>3, <2>4, <2>5 DEF Items
  <2>7. z.pending = rest \cup {new}
    BY <2>1, <2>2, <2>4
  <2>8. new \notin rest /\ \A j \in rest : ~(j.late = new.late /\ j.seq = new.seq)
    <3>1. ASSUME NEW j \in rest, j.late = new.late, j.seq = new.seq PROVE FALSE
      <4>1. j.seq < a.retry /\ j.seq = a.retry
        BY <1>18, <2>6, <3>1
      <4> QED BY <1>21, <4>1
    <3> QED BY <3>1
  <2>9. z.pending \in SUBSET Items /\ IsFiniteSet(z.pending)
    <3>1. IsFiniteSet(rest \cup {new})
      BY <1>9, FS_AddElement
    <3> QED BY <1>9, <2>6, <2>7, <3>1
  <2>10. DistinctPlaces(z.pending)
    BY <1>19, <2>7, <2>8 DEF DistinctPlaces
  <2>11. \A i, j \in z.pending : i.row.audit = j.row.audit => i = j
    BY <1>9, <1>19, <2>3, <2>6, <2>7
  <2>12. ASSUME NEW j \in z.pending
         PROVE  /\ j.row.ts = j.ts /\ lo <= j.ts
                /\ j.late = 0 => j.seq <= z.next
                /\ j.late = 1 => j.seq < z.retry
    <3>1. CASE j \in rest
      <4>1. /\ j.row.ts = j.ts /\ lo <= j.ts /\ (j.late = 0 => j.seq <= a.next)
            /\ (j.late = 1 => j.seq < a.retry) /\ j.seq \in Int
        BY <1>9, <1>18, <3>1 DEF Items
      <4> QED BY <1>20, <1>21, <1>24, <4>1
    <3>2. CASE j = new
      <4>1. j.row.ts = j.ts /\ j.late = 1 /\ j.seq = a.retry /\ j.ts = t
        BY <2>3, <2>6, <3>2
      <4>2. lo <= t
        BY <1>4, <1>5, <2>1
      <4> QED BY <1>21, <1>24, <4>1, <4>2
    <3> QED BY <2>7, <3>1, <3>2
  <2>13. Queues(z, lo)
    BY <2>9, <2>10, <2>11, <2>12 DEF Queues
  <2>14. /\ Known(H, new.row) /\ Tried(D, z, new.row.audit) <= new.tries
         /\ new.tries <= MaxAttemptsFor(new.row.chan)
    <3>1. new.row.audit = r.audit /\ new.row.chan = r.chan /\ new.tries = item.tries + 1
      BY <2>3, <2>6
    <3>2. Known(H, new.row)
      BY <1>4, <3>1 DEF Known
    <3>3. Tried(D, z, new.row.audit) <= new.tries
      BY <1>14, <3>1
    <3>4. new.tries <= MaxAttemptsFor(new.row.chan)
      BY <2>5, <3>1
    <3> QED BY <3>2, <3>3, <3>4
  <2>15. Attempts(z, D, H, lo, hi)
    <3>1. ASSUME NEW i \in z.pending
          PROVE  /\ Known(H, i.row) /\ Tried(D, z, i.row.audit) <= i.tries
                 /\ i.tries <= MaxAttemptsFor(i.row.chan)
      <4>1. i \in rest \/ i = new
        BY <2>7, <3>1
      <4>2. CASE i \in rest
        BY <1>17, <4>2
      <4>3. CASE i = new
        BY <2>14, <4>3
      <4> QED BY <4>1, <4>2, <4>3
    <3> QED BY <1>15, <1>16, <3>1 DEF Attempts
  <2>16. Typed(z)
    <3>1. z.retry \in Nat
      BY <1>21, <1>24
    <3>2. z.declined \in Seq(Postings)
      BY <1>12
    <3> QED BY <1>21, <3>1, <3>2 DEF Typed
  <2>17. ASSUME NEW id \in Int \ {0} PROVE Held(z, id) = Held(a, id)
    <3>1. Count(z.txns, id) + Count(z.drops, id) = Count(a.txns, id) + Count(a.drops, id)
      BY <1>24
    <3>2. Cardinality(Carrying(z.pending, id))
            = Cardinality(Carrying(rest, id)) + IF r.audit = id THEN 1 ELSE 0
      BY <1>9, <2>3, <2>6, <2>7, <2>8, CarryingMore
    <3> QED BY <1>22, <3>1, <3>2 DEF Held
  <2>18. \A j \in z.pending : \/ j \in a.pending /\ j.row.audit # item.row.audit
                              \/ j.row.audit = item.row.audit /\ j.tries = item.tries + 1
    BY <1>3, <1>9, <2>3, <2>6, <2>7
  <2> QED BY <1>2, <1>20, <2>13, <2>15, <2>16, <2>17, <2>18 DEF Sound
<1> QED BY <1>3, <1>7, <1>8, <1>23, <1>24 DEF Turned

-----------------------------------------------------------------------------
(* The queue drained *)

\* The turns the items of Q may still take, rows from P: one for every attempt that
\* has not been made.
Work(Q, P) == {w \in P \X (0 .. 2) : \E i \in Q : i.row.audit = w[1] /\ i.tries <= w[2]}

\* At most three turns for every queued row.
LEMMA WorkFinite ==
  ASSUME NEW P, IsFiniteSet(P), NEW Q
  PROVE  /\ IsFiniteSet(Work(Q, P)) /\ Cardinality(Work(Q, P)) \in Nat
         /\ Cardinality(P) \in Nat /\ Cardinality(Work(Q, P)) <= 3 * Cardinality(P)
<1>1. PICK T : T = 0 .. 2
  OBVIOUS
<1>2. IsFiniteSet(T) /\ Cardinality(T) = 3
  <2>1. 0 \in Int /\ 2 \in Int /\ ~(0 > 2) /\ 2 - 0 + 1 = 3
    OBVIOUS
  <2> QED BY <1>1, <2>1, FS_Interval
<1>3. IsFiniteSet(P \X T) /\ Cardinality(P \X T) = Cardinality(P) * Cardinality(T)
  BY <1>2, FS_Product
<1>4. Work(Q, P) \in SUBSET (P \X T)
  BY <1>1 DEF Work
<1>5. IsFiniteSet(Work(Q, P)) /\ Cardinality(Work(Q, P)) <= Cardinality(P \X T)
  BY <1>3, <1>4, FS_Subset
<1>6. Cardinality(Work(Q, P)) \in Nat
  BY <1>5, FS_CardinalityType
<1>7. PICK n \in Nat : n = Cardinality(P)
  BY FS_CardinalityType
<1>8. n * 3 = 3 * n
  OBVIOUS
<1> QED BY <1>2, <1>3, <1>5, <1>6, <1>7, <1>8

\* A turn leaves less work: the item is gone or has one attempt more.
LEMMA WorkLess ==
  ASSUME NEW P, IsFiniteSet(P), NEW Q, NEW R, NEW item \in Q,
         item.row.audit \in P, item.tries \in 0 .. 2, \A j \in Q : j.tries \in Int,
         \A j \in R : \/ j \in Q /\ j.row.audit # item.row.audit
                      \/ j.row.audit = item.row.audit /\ j.tries = item.tries + 1
  PROVE  Cardinality(Work(R, P)) < Cardinality(Work(Q, P))
<1>1. PICK w : w = <<item.row.audit, item.tries>>
  OBVIOUS
<1>2. w \in P \X (0 .. 2) /\ w[1] = item.row.audit /\ w[2] = item.tries
  BY <1>1
<1>3. w \in Work(Q, P)
  BY <1>2 DEF Work
<1>4. ASSUME NEW v \in Work(R, P) PROVE v \in Work(Q, P) /\ v # w
  <2>1. v \in P \X (0 .. 2)
    BY DEF Work
  <2>2. PICK j \in R : j.row.audit = v[1] /\ j.tries <= v[2]
    BY DEF Work
  <2>3. v[2] \in Int
    BY <2>1
  <2>4. CASE j \in Q /\ j.row.audit # item.row.audit
    <3>1. v \in Work(Q, P)
      BY <2>1, <2>2, <2>4 DEF Work
    <3>2. v[1] # w[1]
      BY <1>2, <2>2, <2>4
    <3> QED BY <3>1, <3>2
  <2>5. CASE j.row.audit = item.row.audit /\ j.tries = item.tries + 1
    <3>1. item.row.audit = v[1] /\ item.tries <= v[2] /\ item.tries # v[2]
      BY <2>2, <2>3, <2>5
    <3>2. v \in Work(Q, P)
      BY <2>1, <3>1 DEF Work
    <3>3. v[2] # w[2]
      BY <1>2, <3>1
    <3> QED BY <3>2, <3>3
  <2> QED BY <2>2, <2>4, <2>5
<1>5. PICK A : A = Work(Q, P)
  OBVIOUS
<1>6. PICK B : B = Work(R, P)
  OBVIOUS
<1>7. B \in SUBSET A /\ B # A
  BY <1>3, <1>4, <1>5, <1>6
<1>8. IsFiniteSet(A) /\ Cardinality(A) \in Nat /\ Cardinality(B) \in Nat
  BY <1>5, <1>6, WorkFinite
<1>9. Cardinality(B) <= Cardinality(A) /\ Cardinality(B) # Cardinality(A)
  BY <1>7, <1>8, FS_Subset
<1> QED BY <1>5, <1>6, <1>8, <1>9

\* Something in the queue of c is due.
Due(c, hi) == c.pending # {} /\ Top(c).ts < hi

\* When the top of the queue is not due, nothing is.
LEMMA NotDue ==
  ASSUME NEW c, NEW lo, NEW hi \in Int, Queues(c, lo), ~Due(c, hi)
  PROVE  \A i \in c.pending : i.ts >= hi
<1>1. ASSUME NEW i \in c.pending PROVE i.ts >= hi
  <2>1. c.pending \in SUBSET Items /\ IsFiniteSet(c.pending) /\ DistinctPlaces(c.pending)
        /\ c.pending # {}
    BY DEF Queues
  <2>2. PICK top : top = Top(c)
    OBVIOUS
  <2>3. top \in c.pending /\ top.ts <= i.ts
    BY <2>1, <2>2, TopIs
  <2>4. top.ts \in Int /\ i.ts \in Int
    BY <2>1, <2>3 DEF Items
  <2>5. ~(top.ts < hi)
    BY <2>1, <2>2 DEF Due
  <2> QED BY <2>3, <2>4, <2>5
<1> QED BY <1>1

\* g are the accumulators between the N turns of a drain.
Drains(g, a, hi, N) ==
  /\ g[0] = a /\ \A n \in 0 .. N - 1 : g[n + 1] = DrainTurn(g[n], hi)
  /\ DrainPending(a, hi) = g[N]

\* A drain is a sequence of turns.
LEMMA DrainRun ==
  ASSUME NEW a, NEW hi, NEW N \in Nat, N = 3 * Cardinality(a.pending)
  PROVE  \E g : Drains(g, a, hi, N)
<1> DEFINE Turn(c) == DrainTurn(c, hi)
           Def(f, m) == f = [n \in 0 .. m |-> IF n = 0 THEN a ELSE Turn(f[n - 1])]
           Run(f, m) == /\ f = [n \in 0 .. m |-> f[n]] /\ f[0] = a
                        /\ \A n \in 1 .. m : f[n] = Turn(f[n - 1])
           S == {m \in Nat : \E f : Run(f, m)}
<1> HIDE DEF Turn
<1>2. 0 \in S
  <2>1. Run([n \in 0 .. 0 |-> a], 0)
    OBVIOUS
  <2> HIDE DEF Run
  <2> QED BY <2>1
<1>3. ASSUME NEW m \in Nat, m \in S PROVE m + 1 \in S
  <2>1. PICK f : Run(f, m)
    BY <1>3
  <2> DEFINE g == [n \in 0 .. m + 1 |-> IF n = m + 1 THEN Turn(f[m]) ELSE f[n]]
  <2>2. ASSUME NEW n \in 1 .. m + 1 PROVE g[n] = Turn(g[n - 1])
    <3>1. CASE n = m + 1
      BY <3>1
    <3>2. CASE n # m + 1
      <4>1. n \in 1 .. m /\ n - 1 # m + 1 /\ n - 1 \in 0 .. m + 1
        BY <3>2
      <4>2. g[n] = f[n] /\ g[n - 1] = f[n - 1]
        BY <3>2, <4>1
      <4> QED BY <2>1, <4>1, <4>2
    <3> QED BY <3>1, <3>2
  <2>3. g = [n \in 0 .. m + 1 |-> g[n]] /\ g[0] = a
    BY <2>1
  <2>4. Run(g, m + 1)
    BY <2>2, <2>3
  <2> HIDE DEF Run, g
  <2> QED BY <2>4
<1> HIDE DEF S
<1>4. N \in S
  BY <1>2, <1>3, SetInduction
<1>5. PICK h : Run(h, N)
  BY <1>4 DEF S
<1>6. Def(h, N)
  <2>1. ASSUME NEW n \in 0 .. N
        PROVE  h[n] = IF n = 0 THEN a ELSE Turn(h[n - 1])
    <3>1. n = 0 \/ n \in 1 .. N
      OBVIOUS
    <3> QED BY <1>5, <3>1
  <2>2. h = [n \in 0 .. N |-> h[n]]
    BY <1>5
  <2> QED BY <2>1, <2>2
<1> DEFINE g == CHOOSE f : Def(f, N)
<1>7. Def(g, N)
  <2> HIDE DEF Def
  <2> QED BY <1>6
<1>8. DrainPending(a, hi) = g[N]
  BY DEF DrainPending, Turn
<1> HIDE DEF g
<1>9. g[0] = a /\ \A n \in 0 .. N - 1 : g[n + 1] = Turn(g[n])
  <2>1. ASSUME NEW n \in 0 .. N - 1 PROVE n + 1 \in 0 .. N /\ n + 1 # 0 /\ (n + 1) - 1 = n
    OBVIOUS
  <2> QED BY <1>7, <2>1
<1> QED BY <1>8, <1>9 DEF Turn, Drains

\* z is a with nothing left that is due before hi.
Drained(z, a, D, H, lo, hi) ==
  /\ Sound(z, D, H, lo, hi)
  /\ \A id \in Int \ {0} : Held(z, id) = Held(a, id)
  /\ \A i \in z.pending : i.ts >= hi

\* It stops when nothing is due: three turns for every row that was queued are enough.
LEMMA DrainIs ==
  ASSUME NEW a, NEW D \in Seq(Postings), NEW H, NEW lo \in Int, NEW hi \in Int,
         Sound(a, D, H, lo, hi), NEW z, z = DrainPending(a, hi)
  PROVE  Drained(z, a, D, H, lo, hi)
<1>1. a.pending \in SUBSET Items /\ IsFiniteSet(a.pending)
  BY DEF Sound, Queues
<1>2. PICK P : P = {i.row.audit : i \in a.pending}
  OBVIOUS
<1>3. IsFiniteSet(P) /\ Cardinality(P) <= Cardinality(a.pending)
  <2>1. PICK f : f = [i \in a.pending |-> i.row.audit]
    OBVIOUS
  <2>2. f \in Surjection(a.pending, P)
    BY <1>2, <2>1 DEF Surjection
  <2> QED BY <1>1, <2>2, FS_Surjection
<1>4. PICK Q \in Nat : Q = Cardinality(a.pending)
  BY <1>1, FS_CardinalityType
<1>5. PICK N \in Nat : N = 3 * Q
  OBVIOUS
<1>6. PICK g : Drains(g, a, hi, N)
  <2>1. N = 3 * Cardinality(a.pending)
    BY <1>4, <1>5
  <2> QED BY <2>1, DrainRun
<1>7. Cardinality(Work(a.pending, P)) <= N
  <2>1. PICK p \in Nat : p = Cardinality(P)
    BY <1>3, FS_CardinalityType
  <2>2. Cardinality(Work(a.pending, P)) <= 3 * p /\ Cardinality(Work(a.pending, P)) \in Nat
    BY <1>3, <2>1, WorkFinite
  <2>3. 3 * p <= 3 * Q
    BY <1>3, <1>4, <2>1
  <2> QED BY <1>5, <2>2, <2>3
<1> DEFINE Good(c, n) == /\ Sound(c, D, H, lo, hi)
                         /\ \A id \in Int \ {0} : Held(c, id) = Held(a, id)
                         /\ \A i \in c.pending : i.row.audit \in P
                         /\ ~Due(c, hi) \/ Cardinality(Work(c.pending, P)) <= N - n
           S == {n \in 0 .. N : Good(g[n], n)}
<1>8. 0 \in S
  <2>1. Good(a, 0)
    BY <1>2, <1>5, <1>7
  <2> QED BY <1>6, <2>1 DEF Drains
<1>9. ASSUME NEW n \in 0 .. N - 1, n \in S PROVE n + 1 \in S
  <2>1. PICK c : c = g[n]
    OBVIOUS
  <2>2. Good(c, n)
    BY <1>9, <2>1
  <2>3. PICK d : d = g[n + 1]
    OBVIOUS
  <2>4. d = IF Due(c, hi) THEN SettleTop(c) ELSE c
    BY <1>6, <2>1, <2>3 DEF DrainTurn, Due, Drains
  <2>5. Good(d, n + 1)
    <3>1. CASE ~Due(c, hi)
      BY <2>2, <2>4, <3>1
    <3>2. CASE Due(c, hi)
      <4>1. d = SettleTop(c) /\ c.pending # {} /\ Top(c).ts < hi /\ Sound(c, D, H, lo, hi)
        BY <2>2, <2>4, <3>2 DEF Due
      <4>2. /\ Sound(d, D, H, lo, hi)
            /\ \A id \in Int \ {0} : Held(d, id) = Held(c, id)
            /\ \E item \in c.pending : \A j \in d.pending :
                 \/ j \in c.pending /\ j.row.audit # item.row.audit
                 \/ j.row.audit = item.row.audit /\ j.tries = item.tries + 1
        BY <4>1, TurnKeeps
      <4>3. PICK item \in c.pending : \A j \in d.pending :
              \/ j \in c.pending /\ j.row.audit # item.row.audit
              \/ j.row.audit = item.row.audit /\ j.tries = item.tries + 1
        BY <4>2
      <4>4. \A j \in d.pending : j.row.audit \in P
        BY <2>2, <4>3
      <4>5. \A i \in c.pending : i.tries \in 0 .. 2 /\ i.tries \in Int
        BY <4>1 DEF Sound, Queues, Items
      <4>6. Cardinality(Work(d.pending, P)) < Cardinality(Work(c.pending, P))
        <5>1. item.row.audit \in P /\ item.tries \in 0 .. 2 /\ \A j \in c.pending : j.tries \in Int
          BY <2>2, <4>5
        <5> HIDE DEF Good
        <5> QED BY <1>3, <4>3, <5>1, WorkLess
      <4>7. Cardinality(Work(d.pending, P)) \in Nat /\ Cardinality(Work(c.pending, P)) \in Nat
        BY <1>3, WorkFinite
      <4>8. Cardinality(Work(c.pending, P)) <= N - n
        BY <2>2, <3>2
      <4>9. Cardinality(Work(d.pending, P)) <= N - (n + 1)
        BY <4>6, <4>7, <4>8
      <4>10. \A id \in Int \ {0} : Held(d, id) = Held(a, id)
        BY <2>2, <4>2
      <4> QED BY <4>2, <4>4, <4>9, <4>10
    <3> QED BY <3>1, <3>2
  <2>6. n + 1 \in 0 .. N
    OBVIOUS
  <2> HIDE DEF Good
  <2> QED BY <2>3, <2>5, <2>6
<1> HIDE DEF S
<1>10. 0 .. N \subseteq S
  BY <1>8, <1>9, BoundedInduction
<1>11. Good(z, N)
  <2>1. N \in S
    BY <1>10
  <2> QED BY <1>6, <2>1 DEF S, Drains
<1>12. ~Due(z, hi)
  <2>1. SUFFICES ASSUME Due(z, hi) PROVE FALSE
    OBVIOUS
  <2>2. PICK i \in z.pending : TRUE
    BY <2>1 DEF Due
  <2>3. z.pending \in SUBSET Items
    BY <1>11 DEF Sound, Queues
  <2>4. i.tries \in 0 .. 2 /\ i.row.audit \in P
    BY <1>11, <2>3 DEF Items
  <2>5. PICK w : w = <<i.row.audit, i.tries>>
    OBVIOUS
  <2>6. w \in Work(z.pending, P)
    <3>1. w \in P \X (0 .. 2) /\ w[1] = i.row.audit /\ w[2] = i.tries /\ i.tries <= i.tries
      BY <2>4, <2>5
    <3> QED BY <2>2, <3>1 DEF Work
  <2>7. Cardinality(Work(z.pending, P)) \in Nat /\ IsFiniteSet(Work(z.pending, P))
    BY <1>3, WorkFinite
  <2>8. Cardinality(Work(z.pending, P)) = 0
    BY <1>11, <2>1, <2>7
  <2>9. Work(z.pending, P) = {}
    BY <2>7, <2>8, FS_EmptySet
  <2> QED BY <2>6, <2>9
<1>13. \A i \in z.pending : i.ts >= hi
  BY <1>11, <1>12, NotDue DEF Sound
<1> QED BY <1>11, <1>13 DEF Drained

-----------------------------------------------------------------------------
(* A span *)

\* Rows that come new to a: each its own, known, not before lo, never tried and not queued.
Newcomers(items, a, D, H, lo) ==
  /\ items \in Seq(Postings)
  /\ \A m, n \in 1 .. Len(items) : items[m].audit = items[n].audit => m = n
  /\ \A n \in 1 .. Len(items) :
       /\ Known(H, items[n]) /\ lo <= items[n].ts /\ Tried(D, a, items[n].audit) = 0
       /\ \A i \in a.pending : i.row.audit # items[n].audit

\* Rows that are new may be queued.
LEMMA EnqueueIs ==
  ASSUME NEW a, NEW D \in Seq(Postings), NEW H, NEW lo \in Int, NEW hi \in Int,
         Sound(a, D, H, lo, hi), NEW items, Newcomers(items, a, D, H, lo),
         NEW z, z = Enqueue(a, items)
  PROVE  /\ Sound(z, D, H, lo, hi)
         /\ \A id : Held(z, id) = Held(a, id) + Count(items, id)
<1>1. PICK N \in Nat : N = Len(items) /\ DOMAIN items = 1 .. N
  BY LenProperties DEF Newcomers
<1>2. \A n \in 1 .. N : items[n] \in Postings
  BY <1>1, ElementOfSeq DEF Newcomers
<1>3. Typed(a) /\ Queues(a, lo) /\ Attempts(a, D, H, lo, hi) /\ NoneBefore(a.txns, lo)
  BY DEF Sound
<1>4. PICK next \in Nat : next = a.next
  BY <1>3 DEF Typed
<1> DEFINE Put(n) == [ts |-> items[n].ts, late |-> 0, seq |-> next + n, tries |-> 0,
                      row |-> items[n]]
           New == {Put(n) : n \in 1 .. N}
<1>5. z = [a EXCEPT !.pending = a.pending \cup New, !.next = next + N]
  BY <1>1, <1>3, <1>4 DEF Enqueue, Typed, IsAcc, AccFields
<1>6. ASSUME NEW n \in 1 .. N
      PROVE  /\ Put(n) \in Items /\ Put(n).ts = items[n].ts /\ Put(n).late = 0
             /\ Put(n).seq = next + n /\ Put(n).tries = 0 /\ Put(n).row = items[n]
             /\ Put(n) \in New
  <2>1. items[n].ts \in Int /\ next + n \in Int /\ items[n] \in Postings
    BY <1>2 DEF Postings
  <2>2. 0 \in {0, 1} /\ 0 \in 0 .. 2
    OBVIOUS
  <2>3. PICK q : q = Put(n)
    OBVIOUS
  <2>4. q \in Items
    BY <2>1, <2>2, <2>3 DEF Items
  <2>5. /\ q.ts = items[n].ts /\ q.late = 0 /\ q.seq = next + n /\ q.tries = 0
        /\ q.row = items[n]
    BY <2>3
  <2>6. Put(n) \in New
    OBVIOUS
  <2> HIDE DEF New, Put
  <2> QED BY <2>3, <2>4, <2>5, <2>6
<1>7. ASSUME NEW i \in New PROVE \E n \in 1 .. N : i = Put(n)
  OBVIOUS
<1> HIDE DEF Put, New
<1>8. /\ IsAcc(z) /\ z.pending = a.pending \cup New /\ z.next = next + N /\ z.book = a.book
      /\ z.txns = a.txns /\ z.retry = a.retry /\ z.drops = a.drops
      /\ z.declined = a.declined /\ z.inbound = a.inbound
  BY <1>3, <1>5 DEF Typed, IsAcc, AccFields
<1>9. Typed(z)
  <2>1. next + N \in Nat
    OBVIOUS
  <2> QED BY <1>3, <1>8, <2>1 DEF Typed
<1>10. ASSUME NEW m \in 1 .. N, NEW n \in 1 .. N, Put(m) = Put(n) PROVE m = n
  <2>1. next + m = next + n
    BY <1>6, <1>10
  <2> QED BY <2>1
<1>11. ASSUME NEW id
       PROVE  /\ IsFiniteSet(Carrying(New, id)) /\ IsFiniteSet(New)
              /\ Cardinality(Carrying(New, id)) = Count(items, id)
  <2>1. PICK S : S = Places(items, id)
    OBVIOUS
  <2>2. IsFiniteSet(S) /\ S \subseteq 1 .. N /\ Count(items, id) = Cardinality(S)
    BY <1>1, <2>1, PlacesFinite DEF Newcomers
  <2>3. PICK f : f = [n \in S |-> Put(n)]
    OBVIOUS
  <2>4. \A n \in 1 .. N : n \in S <=> items[n].audit = id
    BY <1>1, <2>1 DEF Places
  <2>5. f \in [S -> Carrying(New, id)]
    <3>1. ASSUME NEW n \in S PROVE Put(n) \in Carrying(New, id)
      BY <1>6, <2>2, <2>4 DEF Carrying
    <3> QED BY <2>3, <3>1
  <2>6. \A x, y \in S : f[x] = f[y] => x = y
    BY <1>10, <2>2, <2>3
  <2>7. ASSUME NEW i \in Carrying(New, id) PROVE \E n \in S : f[n] = i
    <3>1. i \in New /\ i.row.audit = id
      BY DEF Carrying
    <3>2. PICK n \in 1 .. N : i = Put(n)
      BY <1>7, <3>1
    <3>3. n \in S
      BY <1>6, <2>4, <3>1, <3>2
    <3> QED BY <2>3, <3>2, <3>3
  <2>8. /\ IsFiniteSet(Carrying(New, id))
        /\ Cardinality(Carrying(New, id)) = Cardinality(S)
    BY <2>2, <2>5, <2>6, <2>7, SameNumber
  <2>9. IsFiniteSet(New)
    <3>1. PICK h : h = [n \in 1 .. N |-> Put(n)]
      OBVIOUS
    <3>2. IsFiniteSet(1 .. N)
      BY FS_Interval
    <3>3. h \in Surjection(1 .. N, New)
      BY <1>6, <1>7, <3>1 DEF Surjection
    <3> QED BY <3>2, <3>3, FS_Surjection
  <2> QED BY <2>2, <2>8, <2>9
<1>12. /\ a.pending \in SUBSET Items /\ IsFiniteSet(a.pending) /\ DistinctPlaces(a.pending)
       /\ \A i, j \in a.pending : i.row.audit = j.row.audit => i = j
       /\ \A i \in a.pending : /\ i.row.ts = i.ts /\ lo <= i.ts
                               /\ i.late = 0 => i.seq <= next
                               /\ i.late = 1 => i.seq < a.retry
  BY <1>3, <1>4 DEF Queues
<1>13. z.pending \in SUBSET Items /\ IsFiniteSet(z.pending)
  <2>1. New \in SUBSET Items
    BY <1>6, <1>7
  <2>2. IsFiniteSet(a.pending \cup New)
    BY <1>11, <1>12, FS_Union
  <2> QED BY <1>8, <1>12, <2>1, <2>2
<1>14. ASSUME NEW i \in New
       PROVE  /\ i.late = 0 /\ i.seq \in Int /\ i.seq > next /\ i.seq <= next + N /\ i.tries = 0
              /\ i.row.ts = i.ts /\ lo <= i.ts /\ Known(H, i.row) /\ Tried(D, a, i.row.audit) = 0
              /\ \A j \in a.pending : j.row.audit # i.row.audit
  <2>1. PICK n \in 1 .. N : i = Put(n)
    BY <1>7
  <2>2. /\ i.ts = items[n].ts /\ i.late = 0 /\ i.seq = next + n /\ i.tries = 0 /\ i.row = items[n]
    BY <1>6, <2>1
  <2>3. /\ Known(H, items[n]) /\ lo <= items[n].ts /\ Tried(D, a, items[n].audit) = 0
        /\ \A j \in a.pending : j.row.audit # items[n].audit
    BY <1>1 DEF Newcomers
  <2>4. i.seq \in Int /\ i.seq > next /\ i.seq <= next + N
    BY <2>2
  <2> QED BY <2>2, <2>3, <2>4
<1>15. ASSUME NEW i \in New, NEW j \in New,
              i.row.audit = j.row.audit \/ (i.late = j.late /\ i.seq = j.seq)
       PROVE  i = j
  <2>1. PICK m \in 1 .. N : i = Put(m)
    BY <1>7
  <2>2. PICK n \in 1 .. N : j = Put(n)
    BY <1>7
  <2>3. CASE i.row.audit = j.row.audit
    <3>1. items[m].audit = items[n].audit
      BY <1>6, <2>1, <2>2, <2>3
    <3>2. m = n
      BY <1>1, <3>1 DEF Newcomers
    <3> QED BY <2>1, <2>2, <3>2
  <2>4. CASE i.late = j.late /\ i.seq = j.seq
    <3>1. next + m = next + n
      BY <1>6, <2>1, <2>2, <2>4
    <3>2. m = n
      BY <3>1
    <3> QED BY <2>1, <2>2, <3>2
  <2> QED BY <1>15, <2>3, <2>4
<1>16. ASSUME NEW i \in a.pending, NEW j \in New
       PROVE  i.row.audit # j.row.audit /\ ~(i.late = j.late /\ i.seq = j.seq)
  <2>1. i.row.audit # j.row.audit /\ j.late = 0 /\ j.seq > next /\ j.seq \in Int
    BY <1>14
  <2>2. i.late = 0 => i.seq <= next
    BY <1>12
  <2>3. i.seq \in Int
    BY <1>12 DEF Items
  <2> QED BY <2>1, <2>2, <2>3
<1>17. DistinctPlaces(z.pending)
  <2>1. ASSUME NEW i \in z.pending, NEW j \in z.pending, i.late = j.late, i.seq = j.seq PROVE i = j
    <3>1. CASE i \in a.pending /\ j \in a.pending
      BY <1>12, <2>1, <3>1 DEF DistinctPlaces
    <3>2. CASE i \in New /\ j \in New
      BY <1>15, <2>1, <3>2
    <3>3. CASE (i \in a.pending /\ j \in New) \/ (i \in New /\ j \in a.pending)
      BY <1>16, <2>1, <3>3
    <3> QED BY <1>8, <3>1, <3>2, <3>3
  <2> QED BY <2>1 DEF DistinctPlaces
<1>18. ASSUME NEW i \in z.pending, NEW j \in z.pending, i.row.audit = j.row.audit PROVE i = j
  <2>1. CASE i \in a.pending /\ j \in a.pending
    BY <1>12, <1>18, <2>1
  <2>2. CASE i \in New /\ j \in New
    BY <1>15, <1>18, <2>2
  <2>3. CASE (i \in a.pending /\ j \in New) \/ (i \in New /\ j \in a.pending)
    BY <1>16, <1>18, <2>3
  <2> QED BY <1>8, <2>1, <2>2, <2>3
<1>19. ASSUME NEW i \in z.pending
       PROVE  /\ i.row.ts = i.ts /\ lo <= i.ts
              /\ i.late = 0 => i.seq <= z.next
              /\ i.late = 1 => i.seq < z.retry
  <2>1. CASE i \in a.pending
    <3>1. i.seq \in Int
      BY <1>12, <2>1 DEF Items
    <3>2. i.late = 0 => i.seq <= next + N
      BY <1>12, <2>1, <3>1
    <3> QED BY <1>8, <1>12, <2>1, <3>2
  <2>2. CASE i \in New
    BY <1>8, <1>14, <2>2
  <2> QED BY <1>8, <2>1, <2>2
<1>20. Queues(z, lo)
  BY <1>13, <1>17, <1>18, <1>19 DEF Queues
<1>21. \A id : Tried(D, z, id) = Tried(D, a, id)
  BY <1>8 DEF Tried
<1>22. Attempts(z, D, H, lo, hi)
  <2>1. ASSUME NEW i \in z.pending
        PROVE  /\ Known(H, i.row) /\ Tried(D, z, i.row.audit) <= i.tries
               /\ i.tries <= MaxAttemptsFor(i.row.chan)
    <3>1. CASE i \in a.pending
      BY <1>3, <1>21, <3>1 DEF Attempts
    <3>2. CASE i \in New
      <4>1. Known(H, i.row) /\ Tried(D, z, i.row.audit) = 0 /\ i.tries = 0
        BY <1>14, <1>21, <3>2
      <4>2. MaxAttemptsFor(i.row.chan) \in {1, 2}
        BY MaxAttempts
      <4> QED BY <4>1, <4>2
    <3> QED BY <1>8, <3>1, <3>2
  <2>2. \A id \in DOMAIN H : Tried(D, z, id) <= 1 + MaxAttemptsFor(H[id])
    BY <1>3, <1>21 DEF Attempts
  <2> QED BY <1>3, <1>8, <2>1, <2>2 DEF Attempts
<1>23. Sound(z, D, H, lo, hi)
  BY <1>3, <1>8, <1>9, <1>20, <1>22 DEF Sound
<1>24. ASSUME NEW id PROVE Held(z, id) = Held(a, id) + Count(items, id)
  <2>1. PICK A : A = Carrying(a.pending, id)
    OBVIOUS
  <2>2. PICK B : B = Carrying(New, id)
    OBVIOUS
  <2>3. IsFiniteSet(A) /\ IsFiniteSet(B) /\ Cardinality(B) = Count(items, id)
    <3>1. A \in SUBSET a.pending
      BY <2>1 DEF Carrying
    <3>2. IsFiniteSet(A)
      BY <1>12, <3>1, FS_Subset
    <3> QED BY <1>11, <2>2, <3>2
  <2>4. Carrying(z.pending, id) = A \cup B
    BY <1>8, <2>1, <2>2 DEF Carrying
  <2>5. A \cap B = {}
    BY <1>16, <2>1, <2>2 DEF Carrying
  <2>6. PICK x \in Nat, y \in Nat : x = Cardinality(A) /\ y = Cardinality(B)
    BY <2>3, FS_CardinalityType
  <2>7. Cardinality(A \cup B) = x + y
    <3>1. Cardinality(A \cup B) = Cardinality(A) + Cardinality(B) - Cardinality(A \cap B)
      BY <2>3, FS_Union
    <3>2. Cardinality(A \cap B) = 0
      BY <2>5, FS_EmptySet
    <3> QED BY <2>6, <3>1, <3>2
  <2>8. PICK u \in Nat, v \in Nat : u = Count(a.txns, id) /\ v = Count(a.drops, id)
    BY <1>3, PlacesFinite DEF Typed
  <2>9. Held(a, id) = u + v + x
    BY <2>1, <2>6, <2>8 DEF Held
  <2>10. Held(z, id) = u + v + (x + y)
    BY <1>8, <2>4, <2>7, <2>8 DEF Held
  <2> QED BY <2>3, <2>6, <2>9, <2>10
<1> QED BY <1>23, <1>24

\* c is a with items in its queue.
QueuesUp(c, a, items, D, H, lo, hi) ==
  /\ Sound(c, D, H, lo, hi)
  /\ \A id \in Int \ {0} : Held(c, id) = Held(a, id) + Count(items, id)
  /\ c.txns = a.txns /\ c.taps = a.taps /\ c.book.cash = a.book.cash

\* At the start of a span the rows that come new are indexed and queued.
LEMMA QueuedIs ==
  ASSUME NEW a, NEW D \in Seq(Postings), NEW H, NEW lo \in Int, NEW hi \in Int,
         Sound(a, D, H, lo, hi), NEW items, Newcomers(items, a, D, H, lo),
         NEW lookahead \in Seq(Postings),
         NEW b, b = [a EXCEPT !.inbound = items \o lookahead, !.book.emit = a.emit],
         NEW c, c = Enqueue(b, items)
  PROVE  QueuesUp(c, a, items, D, H, lo, hi)
<1>1. Typed(a) /\ Queues(a, lo) /\ Attempts(a, D, H, lo, hi) /\ NoneBefore(a.txns, lo)
  BY DEF Sound
<1>2. PICK book : book = [a.book EXCEPT !.emit = a.emit]
  OBVIOUS
<1>3. IsBook(book)
  <2>1. IsBook(a.book)
    BY <1>1 DEF Typed
  <2>2. /\ book = [x \in BookFields |-> book[x]] /\ book.cash = a.book.cash
        /\ book.fee = a.book.fee /\ book.apr = a.book.apr
        /\ book.integral = a.book.integral /\ book.lastUpd = a.book.lastUpd
    BY <1>2, <2>1 DEF IsBook, BookFields
  <2> QED BY <2>1, <2>2 DEF IsBook
<1>4. /\ IsAcc(b) /\ b.book = book /\ b.inbound = items \o lookahead /\ b.pending = a.pending
      /\ b.next = a.next /\ b.retry = a.retry /\ b.txns = a.txns /\ b.drops = a.drops
      /\ b.declined = a.declined /\ b.taps = a.taps
  BY <1>1, <1>2 DEF Typed, IsAcc, AccFields
<1>5. Sound(b, D, H, lo, hi)
  <2>1. items \o lookahead \in Seq(Postings)
    BY ConcatProperties DEF Newcomers
  <2>2. Typed(b)
    BY <1>1, <1>3, <1>4, <2>1 DEF Typed
  <2>3. Queues(b, lo)
    BY <1>1, <1>4 DEF Queues
  <2>4. Attempts(b, D, H, lo, hi)
    BY <1>1, <1>4 DEF Attempts, Tried
  <2> QED BY <1>1, <1>4, <2>2, <2>3, <2>4 DEF Sound
<1>6. Newcomers(items, b, D, H, lo)
  BY <1>4 DEF Newcomers, Tried
<1>7. Sound(c, D, H, lo, hi) /\ \A id : Held(c, id) = Held(b, id) + Count(items, id)
  BY <1>5, <1>6, EnqueueIs
<1>8. \A id : Held(b, id) = Held(a, id)
  BY <1>4 DEF Held
<1>9. c.txns = b.txns /\ c.taps = b.taps /\ c.book = b.book
  <2>1. PICK new, next : c = [b EXCEPT !.pending = new, !.next = next]
    BY DEF Enqueue
  <2> QED BY <1>4, <2>1 DEF IsAcc, AccFields
<1>10. book.cash = a.book.cash
  <2>1. IsBook(a.book)
    BY <1>1 DEF Typed
  <2> QED BY <1>2, <2>1 DEF IsBook, BookFields
<1> QED BY <1>4, <1>7, <1>8, <1>9, <1>10 DEF QueuesUp

\* z is a with the rows of items settled, dropped or queued beyond hi.
Extends(z, a, items, D, H, lo, hi) ==
  /\ Sound(z, D, H, lo, hi)
  /\ \A id \in Int \ {0} : Held(z, id) = Held(a, id) + Count(items, id)
  /\ \A i \in z.pending : i.ts >= hi

\* A span of the run.
LEMMA ExtendIs ==
  ASSUME NEW a, NEW D \in Seq(Postings), NEW H, NEW lo \in Int, NEW hi \in Int,
         Sound(a, D, H, lo, hi), NEW items, Newcomers(items, a, D, H, lo),
         NEW lookahead \in Seq(Postings), NEW z, z = ExtendChunk(a, items, lookahead, hi)
  PROVE  Extends(z, a, items, D, H, lo, hi)
<1>1. PICK b : b = [a EXCEPT !.inbound = items \o lookahead, !.book.emit = a.emit]
  OBVIOUS
<1>2. PICK c : c = Enqueue(b, items)
  OBVIOUS
<1>3. QueuesUp(c, a, items, D, H, lo, hi)
  BY <1>1, <1>2, QueuedIs
<1>4. Sound(c, D, H, lo, hi) /\ \A id \in Int \ {0} : Held(c, id) = Held(a, id) + Count(items, id)
  BY <1>3 DEF QueuesUp
<1>5. PICK d : d = DrainPending(c, hi)
  OBVIOUS
<1>6. Drained(d, c, D, H, lo, hi)
  BY <1>4, <1>5, DrainIs
<1>7. /\ Sound(d, D, H, lo, hi)
      /\ \A id \in Int \ {0} : Held(d, id) = Held(c, id)
      /\ \A i \in d.pending : i.ts >= hi
  BY <1>6 DEF Drained
<1>8. z = [d EXCEPT !.inbound = << >>]
  BY <1>1, <1>2, <1>5 DEF ExtendChunk
<1>9. /\ IsAcc(z) /\ z.book = d.book /\ z.inbound = << >> /\ z.pending = d.pending
      /\ z.next = d.next /\ z.retry = d.retry /\ z.txns = d.txns /\ z.drops = d.drops
      /\ z.declined = d.declined
  BY <1>7, <1>8 DEF Sound, Typed, IsAcc, AccFields
<1>10. Sound(z, D, H, lo, hi)
  <2>1. Typed(z)
    BY <1>7, <1>9, EmptySeq DEF Sound, Typed
  <2>2. Queues(z, lo)
    BY <1>7, <1>9 DEF Sound, Queues
  <2>3. Attempts(z, D, H, lo, hi)
    BY <1>7, <1>9 DEF Sound, Attempts, Tried
  <2> QED BY <1>7, <1>9, <2>1, <2>2, <2>3 DEF Sound
<1>11. \A id : Held(z, id) = Held(d, id)
  BY <1>9 DEF Held
<1> QED BY <1>4, <1>7, <1>9, <1>10, <1>11 DEF Extends

-----------------------------------------------------------------------------
(* Windows of a stream *)

\* The places of the rows of id from lo on and before hi, and their number.
Inside(rows, lo, hi, id) ==
  {n \in DOMAIN rows : rows[n].audit = id /\ lo <= rows[n].ts /\ rows[n].ts < hi}
Window(rows, lo, hi, id) == Cardinality(Inside(rows, lo, hi, id))

\* The rows of adjoining windows add up, to no more than there are.
LEMMA WindowSum ==
  ASSUME NEW s \in Seq(Postings), NEW lo \in Int, NEW mid \in Int, NEW hi \in Int,
         lo <= mid, mid <= hi, NEW id
  PROVE  /\ Window(s, lo, mid, id) \in Nat /\ Window(s, mid, hi, id) \in Nat
         /\ Window(s, lo, hi, id) = Window(s, lo, mid, id) + Window(s, mid, hi, id)
         /\ Window(s, lo, hi, id) <= Count(s, id)
<1>1. PICK N \in Nat : N = Len(s) /\ DOMAIN s = 1 .. N /\ \A n \in 1 .. N : s[n] \in Postings
  BY LenProperties, ElementOfSeq
<1>2. \A n \in 1 .. N : s[n].ts \in Int
  BY <1>1 DEF Postings
<1>3. PICK A : A = Inside(s, lo, mid, id)
  OBVIOUS
<1>4. PICK B : B = Inside(s, mid, hi, id)
  OBVIOUS
<1>5. PICK P : P = Places(s, id)
  OBVIOUS
<1>6. IsFiniteSet(P) /\ Count(s, id) = Cardinality(P)
  BY <1>5, PlacesFinite
<1>7. Inside(s, lo, hi, id) = A \cup B /\ A \cap B = {} /\ A \cup B \subseteq P
  BY <1>1, <1>2, <1>3, <1>4, <1>5 DEF Inside, Places
<1>8. IsFiniteSet(A) /\ IsFiniteSet(B)
  <2>1. A \in SUBSET P /\ B \in SUBSET P
    BY <1>7
  <2> QED BY <1>6, <2>1, FS_Subset
<1>9. PICK x \in Nat, y \in Nat : x = Cardinality(A) /\ y = Cardinality(B)
  BY <1>8, FS_CardinalityType
<1>10. Cardinality(A \cup B) = x + y
  <2>1. Cardinality(A \cup B) = Cardinality(A) + Cardinality(B) - Cardinality(A \cap B)
    BY <1>8, FS_Union
  <2>2. Cardinality(A \cap B) = 0
    BY <1>7, FS_EmptySet
  <2> QED BY <1>9, <2>1, <2>2
<1>11. Cardinality(A \cup B) <= Cardinality(P)
  BY <1>6, <1>7, FS_Subset
<1> QED BY <1>3, <1>4, <1>6, <1>7, <1>9, <1>10, <1>11 DEF Window

\* An empty window has no rows.
LEMMA WindowEmpty ==
  ASSUME NEW s \in Seq(Postings), NEW lo \in Int, NEW id
  PROVE  Window(s, lo, lo, id) = 0
<1>1. \A n \in DOMAIN s : s[n].ts \in Int
  <2>1. \A n \in 1 .. Len(s) : s[n] \in Postings
    BY ElementOfSeq
  <2> QED BY <2>1, LenProperties DEF Postings
<1>2. Inside(s, lo, lo, id) = {}
  BY <1>1 DEF Inside
<1> QED BY <1>2, FS_EmptySet DEF Window

\* t is the part of s between its places a and b.
PartOf(t, s, a, b) ==
  /\ t \in Seq(Postings) /\ Len(t) = b - a /\ \A i \in 1 .. b - a : t[i] = s[a + i]
  /\ \A id : Count(t, id) = Cardinality(Places(s, id) \cap (a + 1 .. b))

\* SubSeq makes such a part.
LEMMA PartIs ==
  ASSUME NEW s \in Seq(Postings), NEW a \in 0 .. Len(s), NEW b \in a .. Len(s),
         NEW t, t = SubSeq(s, a + 1, b)
  PROVE  PartOf(t, s, a, b)
<1>1. t \in Seq(Postings) /\ Len(t) = b - a
  BY CountPart
<1>2. \A i \in 1 .. b - a : t[i] = s[a + i]
  <2>1. ASSUME NEW i \in 1 .. b - a PROVE SubSeq(s, a + 1, b)[i] = s[a + i]
    BY CountPart
  <2> QED BY <2>1
<1>3. ASSUME NEW id PROVE Count(t, id) = Cardinality(Places(s, id) \cap (a + 1 .. b))
  <2>1. PICK P : P = Places(s, id)
    OBVIOUS
  <2>2. PICK A : A = P \cap (a + 1 .. b)
    OBVIOUS
  <2>3. a \in 0 .. Len(s) /\ b \in a .. Len(s)
    OBVIOUS
  <2>4. Count(SubSeq(s, a + 1, b), id) = Cardinality(A)
    BY <2>1, <2>2, <2>3, CountPart
  <2> QED BY <2>1, <2>2, <2>4
<1> QED BY <1>1, <1>2, <1>3 DEF PartOf

\* t holds the rows of s from lo on and before hi.
Covers(t, s, lo, hi) ==
  /\ t \in Seq(Postings)
  /\ \A i \in 1 .. Len(t) : \E n \in 1 .. Len(s) : t[i] = s[n] /\ lo <= s[n].ts /\ s[n].ts < hi
  /\ \A id : Count(t, id) = Window(s, lo, hi, id)

\* A slice of a sorted stream holds the rows of its window.
LEMMA BetweenIs ==
  ASSUME NEW s \in Seq(Postings), Ascending(s), NEW lo \in Int, NEW hi \in Int, lo <= hi
  PROVE  Covers(Between(s, lo, hi), s, lo, hi)
<1>1. PICK N \in Nat : N = Len(s) /\ DOMAIN s = 1 .. N /\ \A n \in 1 .. N : s[n] \in Postings
  BY LenProperties, ElementOfSeq
<1>2. \A n \in 1 .. N : s[n].ts \in Int
  BY <1>1 DEF Postings
<1>3. PICK a \in 0 .. N : a = SliceTo(s, lo) /\ \A n \in 1 .. N : n <= a <=> s[n].ts < lo
  BY <1>1, SliceIs
<1>4. PICK b \in 0 .. N : b = SliceTo(s, hi) /\ \A n \in 1 .. N : n <= b <=> s[n].ts < hi
  BY <1>1, SliceIs
<1>5. a <= b
  <2>1. SUFFICES ASSUME a > b PROVE FALSE
    BY <1>3, <1>4
  <2>2. a \in 1 .. N
    BY <1>3, <1>4, <2>1
  <2>3. s[a].ts < lo /\ ~(s[a].ts < hi)
    BY <1>3, <1>4, <2>1, <2>2
  <2> QED BY <1>2, <2>2, <2>3
<1>6. a \in 0 .. Len(s) /\ b \in a .. Len(s)
  BY <1>1, <1>3, <1>4, <1>5
<1>7. PICK t : t = SubSeq(s, a + 1, b)
  OBVIOUS
<1>8. /\ t \in Seq(Postings) /\ Len(t) = b - a /\ \A i \in 1 .. b - a : t[i] = s[a + i]
      /\ \A id : Count(t, id) = Cardinality(Places(s, id) \cap (a + 1 .. b))
  <2>1. PartOf(t, s, a, b)
    BY <1>6, <1>7, PartIs
  <2> QED BY <2>1 DEF PartOf
<1>9. ASSUME NEW n \in 1 .. N PROVE n \in a + 1 .. b <=> lo <= s[n].ts /\ s[n].ts < hi
  <2>1. n \in a + 1 .. b <=> ~(n <= a) /\ n <= b
    BY <1>3, <1>4
  <2> QED BY <1>2, <1>3, <1>4, <2>1
<1>10. ASSUME NEW i \in 1 .. Len(t)
       PROVE  \E n \in 1 .. Len(s) : t[i] = s[n] /\ lo <= s[n].ts /\ s[n].ts < hi
  <2>1. i \in 1 .. b - a /\ a + i \in 1 .. N /\ a + i \in a + 1 .. b
    BY <1>3, <1>4, <1>8
  <2> QED BY <1>1, <1>8, <1>9, <2>1
<1>11. ASSUME NEW id PROVE Count(t, id) = Window(s, lo, hi, id)
  <2>1. Places(s, id) \cap (a + 1 .. b) = Inside(s, lo, hi, id)
    BY <1>1, <1>9 DEF Places, Inside
  <2> QED BY <1>8, <2>1 DEF Window
<1>12. Between(s, lo, hi) = t
  BY <1>3, <1>4, <1>7 DEF Between
<1> QED BY <1>8, <1>10, <1>11, <1>12 DEF Covers

\* What is left of a sorted stream is a stream.
LEMMA FromIs ==
  ASSUME NEW s \in Seq(Postings), Ascending(s), NEW lo \in Int
  PROVE  From(s, lo) \in Seq(Postings)
<1>1. PICK N \in Nat : N = Len(s)
  BY LenProperties
<1>2. PICK a \in 0 .. N : a = SliceTo(s, lo)
  BY <1>1, SliceIs
<1>3. a \in 0 .. Len(s) /\ N \in a .. Len(s)
  BY <1>1, <1>2
<1>4. SubSeq(s, a + 1, N) \in Seq(Postings)
  BY <1>3, CountPart
<1> QED BY <1>1, <1>2, <1>4 DEF From

-----------------------------------------------------------------------------
(* The end of a span *)

\* No row of s is before the one that stands before it.
Replayed(s) == \A m, n \in 1 .. Len(s) : m < n => ~FundsLess(s[n], s[m])

\* t is what leaves of s and u what stays, when what is before hi leaves.
Splits(t, u, s, lo, hi) ==
  /\ t \in Seq(Postings) /\ u \in Seq(Postings) /\ Replayed(t)
  /\ \A n \in 1 .. Len(t) : lo <= t[n].ts /\ t[n].ts < hi
  /\ NoneBefore(u, hi)
  /\ \A id : Count(t, id) + Count(u, id) = Count(s, id)

\* takeSettledBefore splits what is settled at the end of the span.
LEMMA SplitIs ==
  ASSUME NEW a, a.txns \in Seq(Postings), NEW lo \in Int, NEW hi \in Int, lo <= hi,
         NoneBefore(a.txns, lo), NEW t, t = SettledBefore(a, hi), NEW u,
         u = SubSeq(SortForReplay(a.txns), SliceTo(SortForReplay(a.txns), hi) + 1, Len(a.txns))
  PROVE  Splits(t, u, a.txns, lo, hi)
<1>1. PICK s \in Seq(Postings) : s = a.txns
  OBVIOUS
<1>2. PICK q : q = SortForReplay(s)
  OBVIOUS
<1>3. /\ Permutes(q, s) /\ \A i, j \in 1 .. Len(s) : i < j => ~FundsLess(q[j], q[i])
      /\ Ascending(q)
  BY <1>2, SortedIs, SortedAscends
<1>4. q \in Seq(Postings) /\ Len(q) = Len(s) /\ \A id : Count(q, id) = Count(s, id)
  BY <1>3 DEF Permutes
<1>5. PICK N \in Nat : N = Len(q) /\ N = Len(s) /\ \A n \in 1 .. N : q[n] \in Postings
  BY <1>4, LenProperties, ElementOfSeq
<1>6. \A n \in 1 .. N : q[n].ts \in Int
  BY <1>5 DEF Postings
<1>7. PICK c \in 0 .. N : c = SliceTo(q, hi) /\ \A n \in 1 .. N : n <= c <=> q[n].ts < hi
  BY <1>3, <1>4, <1>5, SliceIs
<1>8. t = SubSeq(q, 1, c) /\ u = SubSeq(q, c + 1, N)
  BY <1>1, <1>2, <1>5, <1>7 DEF SettledBefore
<1>9. /\ t \in Seq(Postings) /\ Len(t) = c /\ \A i \in 1 .. c : t[i] = q[i]
  <2>1. 0 \in 0 .. Len(q) /\ c \in 0 .. Len(q)
    BY <1>5, <1>7
  <2>2. PICK e \in Int : e = 0
    OBVIOUS
  <2>4. e \in 0 .. Len(q) /\ c \in e .. Len(q) /\ SubSeq(q, e + 1, c) = t
    BY <1>8, <2>1, <2>2
  <2>5. PartOf(t, q, e, c)
    BY <1>4, <2>4, PartIs
  <2>6. t \in Seq(Postings) /\ Len(t) = c - e /\ \A i \in 1 .. c - e : t[i] = q[e + i]
    BY <2>5 DEF PartOf
  <2>3. 0 + 1 = 1 /\ c - 0 = c /\ \A i \in 1 .. c : 0 + i = i
    BY <1>7
  <2> QED BY <2>2, <2>3, <2>6
<1>10. /\ u \in Seq(Postings) /\ Len(u) = N - c /\ \A i \in 1 .. N - c : u[i] = q[c + i]
  <2>1. c \in 0 .. Len(q) /\ N \in c .. Len(q)
    BY <1>5, <1>7
  <2>2. PartOf(u, q, c, N)
    BY <1>4, <1>8, <2>1, PartIs
  <2> QED BY <2>2 DEF PartOf
<1>11. \A m \in 1 .. N : lo <= q[m].ts
  <2>1. ASSUME NEW m \in 1 .. N PROVE lo <= q[m].ts
    <3>1. PICK n \in 1 .. N : q[m] = s[n]
      BY <1>3, <1>5 DEF Permutes
    <3>2. s[n].ts >= lo
      BY <1>1, <1>5 DEF NoneBefore
    <3> QED BY <1>6, <3>1, <3>2
  <2> QED BY <2>1
<1>12. Replayed(t)
  BY <1>3, <1>5, <1>7, <1>9 DEF Replayed
<1>13. \A n \in 1 .. Len(t) : lo <= t[n].ts /\ t[n].ts < hi
  <2>1. ASSUME NEW n \in 1 .. Len(t) PROVE lo <= t[n].ts /\ t[n].ts < hi
    <3>1. n \in 1 .. N /\ n <= c /\ t[n] = q[n]
      BY <1>7, <1>9
    <3>2. lo <= q[n].ts /\ q[n].ts < hi
      BY <1>7, <1>11, <3>1
    <3> QED BY <3>1, <3>2
  <2> QED BY <2>1
<1>14. NoneBefore(u, hi)
  <2>1. ASSUME NEW n \in 1 .. Len(u) PROVE u[n].ts >= hi
    <3>1. n \in 1 .. N - c /\ c + n \in 1 .. N /\ ~(c + n <= c)
      <4>1. n \in 1 .. N - c
        BY <1>10
      <4> QED BY <4>1
    <3>2. PICK i \in 1 .. N : i = c + n
      BY <3>1
    <3>3. PICK r : r = q[i]
      OBVIOUS
    <3>4. u[n] = r
      BY <1>10, <3>1, <3>2, <3>3
    <3>5. ~(r.ts < hi) /\ r.ts \in Int
      BY <1>6, <1>7, <3>1, <3>2, <3>3
    <3>6. r.ts >= hi
      BY <3>5
    <3> QED BY <3>4, <3>6
  <2> QED BY <2>1 DEF NoneBefore
<1>15. ASSUME NEW id PROVE Count(t, id) + Count(u, id) = Count(s, id)
  <2>1. c \in 0 .. Len(q)
    BY <1>5, <1>7
  <2>2. Count(SubSeq(q, 1, c), id) + Count(SubSeq(q, c + 1, Len(q)), id) = Count(q, id)
    BY <1>4, <2>1, CountSplit
  <2> QED BY <1>4, <1>5, <1>8, <2>2
<1> QED BY <1>1, <1>9, <1>10, <1>12, <1>13, <1>14, <1>15 DEF Splits

\* The bounds of a schedule ascend, and the lookahead of a span ends after it.
LEMMA BoundsAscend ==
  ASSUME NEW s \in Schedules, NEW i \in 1 .. Len(s), NEW j \in 1 .. Len(s), i <= j
  PROVE  s[i] \in Int /\ s[j] \in Int /\ s[i] <= s[j]
<1>1. s \in Seq(Int) /\ \A m \in 1 .. Len(s) - 1 : s[m] <= s[m + 1]
  BY SchedulesAssumption
<1>2. Len(s) \in Nat /\ \A m \in 1 .. Len(s) : s[m] \in Int
  <2>1. Len(s) \in Nat
    BY <1>1, LenProperties
  <2>2. \A m \in 1 .. Len(s) : s[m] \in Int
    BY <1>1, ElementOfSeq
  <2> QED BY <2>1, <2>2
<1>3. PICK N \in Nat : N = Len(s) - i
  <2>1. PICK L \in Nat : L = Len(s)
    BY <1>2
  <2>2. L - i \in Nat
    BY <2>1
  <2> QED BY <2>1, <2>2
<1> DEFINE S == {n \in 0 .. N : s[i] <= s[i + n]}
<1>4. 0 \in S
  <2>1. i + 0 = i /\ s[i] <= s[i]
    BY <1>2
  <2> QED BY <2>1
<1>5. ASSUME NEW n \in 0 .. N - 1, n \in S PROVE n + 1 \in S
  <2>1. i + n \in 1 .. Len(s) - 1 /\ i + n \in 1 .. Len(s) /\ i + n + 1 \in 1 .. Len(s)
    BY <1>2, <1>3
  <2>2. s[i] <= s[i + n] /\ s[i + n] <= s[i + n + 1]
    BY <1>1, <1>5, <2>1
  <2>3. s[i] <= s[i + n + 1]
    BY <1>2, <2>1, <2>2
  <2>4. i + n + 1 = i + (n + 1) /\ n + 1 \in 0 .. N
    OBVIOUS
  <2> QED BY <2>3, <2>4
<1> HIDE DEF S
<1>6. 0 .. N \subseteq S
  BY <1>4, <1>5, BoundedInduction
<1>7. j - i \in 0 .. N /\ i + (j - i) = j
  BY <1>2, <1>3
<1>8. s[i] <= s[i + (j - i)]
  BY <1>6, <1>7 DEF S
<1> QED BY <1>2, <1>7, <1>8

\* The lookahead of a span ends no earlier than the span.
LEMMA LookaheadAfter ==
  ASSUME NEW s \in Schedules, NEW j \in 1 .. SpanCount(s)
  PROVE  LookaheadBoundExcl(s, j) \in Int /\ s[j + 1] <= LookaheadBoundExcl(s, j)
<1>1. s \in Seq(Int) /\ Lookahead \in Nat
  BY SchedulesAssumption
<1>2. Len(s) \in Nat
  BY <1>1, LenProperties
<1>3. j + 1 \in 1 .. Len(s) /\ Len(s) \in 1 .. Len(s) /\ j + 1 <= Len(s)
  BY <1>2 DEF SpanCount
<1>4. s[j + 1] \in Int /\ s[Len(s)] \in Int /\ s[j + 1] <= s[Len(s)]
  BY <1>3, BoundsAscend
<1> QED BY <1>1, <1>4 DEF LookaheadBoundExcl, RunEnd

\* What a span looks ahead at are rows.
LEMMA AheadIs ==
  ASSUME NEW r \in Seq(Postings), Ascending(r), NEW s \in Schedules, NEW j \in 1 .. SpanCount(s)
  PROVE  Ahead(r, s, j) \in Seq(Postings)
<1>1. Len(s) \in Nat
  BY SchedulesAssumption, LenProperties
<1>2. j + 1 \in 1 .. Len(s)
  BY <1>1 DEF SpanCount
<1>3. s[j + 1] \in Int
  BY <1>2, BoundsAscend
<1>4. From(r, s[j + 1]) \in Seq(Postings)
  BY <1>3, FromIs
<1>5. PICK hi \in Int : hi = LookaheadBoundExcl(s, j) /\ s[j + 1] <= hi
  BY LookaheadAfter
<1>6. Covers(Between(r, s[j + 1], hi), r, s[j + 1], hi)
  BY <1>3, <1>5, BetweenIs
<1> QED BY <1>4, <1>5, <1>6 DEF Ahead, Covers

-----------------------------------------------------------------------------
(* The rows of a span *)

\* Row i of t stands in s, from lo on and before hi.
Comes(r, s, lo, hi) == \E n \in 1 .. Len(s) : r = s[n] /\ lo <= s[n].ts /\ s[n].ts < hi

\* The rows of the two streams from lo on and before hi.
Gathers(t, c, f, lo, hi) ==
  /\ t \in Seq(Postings)
  /\ \A i \in 1 .. Len(t) : Comes(t[i], c, lo, hi) \/ Comes(t[i], f, lo, hi)
  /\ \A id : Count(t, id) = Window(c, lo, hi, id) + Window(f, lo, hi, id)

\* The rows of a span are those of its window, of both streams.
LEMMA GatheredIs ==
  ASSUME NEW c \in Seq(Postings), NEW f \in Seq(Postings), Ascending(c), Ascending(f),
         NEW lo \in Int, NEW hi \in Int, lo <= hi,
         NEW t, t = SortForReplay(Between(c, lo, hi) \o Between(f, lo, hi))
  PROVE  Gathers(t, c, f, lo, hi)
<1>1. PICK p : p = Between(c, lo, hi)
  OBVIOUS
<1>2. PICK q : q = Between(f, lo, hi)
  OBVIOUS
<1>3. Covers(p, c, lo, hi) /\ Covers(q, f, lo, hi)
  BY <1>1, <1>2, BetweenIs
<1>4. p \in Seq(Postings) /\ q \in Seq(Postings)
  BY <1>3 DEF Covers
<1>5. PICK u : u = p \o q
  OBVIOUS
<1>6. PICK M \in Nat, N \in Nat : M = Len(p) /\ N = Len(q)
  BY <1>4, LenProperties
<1>7. /\ u \in Seq(Postings) /\ Len(u) = M + N
      /\ \A i \in 1 .. M : u[i] = p[i]
      /\ \A i \in 1 .. N : u[M + i] = q[i]
  <2>1. u \in Seq(Postings) /\ Len(u) = M + N
    BY <1>4, <1>5, <1>6, ConcatProperties
  <2>2. ASSUME NEW i \in 1 .. M PROVE u[i] = p[i]
    BY <1>4, <1>5, <1>6, ConcatProperties
  <2>3. ASSUME NEW i \in 1 .. N PROVE u[M + i] = q[i]
    <3>1. M + i \in 1 .. Len(p) + Len(q) /\ ~(M + i <= Len(p)) /\ (M + i) - Len(p) = i
      BY <1>6
    <3> QED BY <1>4, <1>5, <1>6, <3>1, ConcatProperties
  <2> QED BY <2>1, <2>2, <2>3
<1>8. ASSUME NEW i \in 1 .. Len(u) PROVE Comes(u[i], c, lo, hi) \/ Comes(u[i], f, lo, hi)
  <2>1. CASE i \in 1 .. M
    <3>1. u[i] = p[i] /\ i \in 1 .. Len(p)
      BY <1>6, <1>7, <2>1
    <3>2. PICK r : r = p[i]
      OBVIOUS
    <3>3. Comes(r, c, lo, hi)
      BY <1>3, <3>1, <3>2 DEF Covers, Comes
    <3> QED BY <3>1, <3>2, <3>3
  <2>2. CASE i \notin 1 .. M
    <3>1. PICK j \in 1 .. N : i = M + j
      <4>1. i - M \in 1 .. N /\ i = M + (i - M)
        BY <1>7, <2>2
      <4> QED BY <4>1
    <3>2. PICK r : r = q[j]
      OBVIOUS
    <3>3. u[i] = r /\ j \in 1 .. Len(q)
      BY <1>6, <1>7, <3>1, <3>2
    <3>4. Comes(r, f, lo, hi)
      BY <1>3, <3>2, <3>3 DEF Covers, Comes
    <3> QED BY <3>3, <3>4
  <2> QED BY <2>1, <2>2
<1>9. ASSUME NEW id PROVE Count(u, id) = Window(c, lo, hi, id) + Window(f, lo, hi, id)
  <2>1. Count(u, id) = Count(p, id) + Count(q, id)
    BY <1>4, <1>5, CountConcat
  <2> QED BY <1>3, <2>1 DEF Covers
<1>10. Permutes(t, u)
  BY <1>1, <1>2, <1>5, <1>7, SortedIs
<1>11. ASSUME NEW i \in 1 .. Len(t) PROVE Comes(t[i], c, lo, hi) \/ Comes(t[i], f, lo, hi)
  <2>1. PICK n \in 1 .. Len(u) : t[i] = u[n]
    BY <1>10 DEF Permutes
  <2> QED BY <1>8, <2>1
<1> QED BY <1>9, <1>10, <1>11 DEF Permutes, Gathers

\* A row that stands twice counts twice.
LEMMA CountTwo ==
  ASSUME NEW s \in Seq(Postings), NEW m \in 1 .. Len(s), NEW n \in 1 .. Len(s),
         s[m].audit = s[n].audit
  PROVE  Count(s, s[n].audit) >= 1 /\ (m # n => Count(s, s[n].audit) >= 2)
<1>1. PICK P : P = Places(s, s[n].audit)
  OBVIOUS
<1>2. IsFiniteSet(P) /\ Count(s, s[n].audit) = Cardinality(P)
  BY <1>1, PlacesFinite
<1>3. m \in P /\ n \in P
  BY <1>1, LenProperties DEF Places
<1>4. {m, n} \subseteq P
  BY <1>3
<1>5. Cardinality({m, n}) <= Cardinality(P) /\ Cardinality(P) \in Nat
  BY <1>2, <1>4, FS_Subset, FS_CardinalityType
<1>6. Cardinality(P) # 0
  BY <1>2, <1>3, FS_EmptySet
<1>7. ASSUME m # n PROVE Cardinality({m, n}) = 2
  <2>1. PICK Q : Q = {n}
    OBVIOUS
  <2>2. PICK T : T = {m, n}
    OBVIOUS
  <2>3. IsFiniteSet({n}) /\ Cardinality({n}) = 1
    BY FS_Singleton
  <2>4. IsFiniteSet(Q) /\ Cardinality(Q) = 1 /\ m \notin Q /\ T = Q \cup {m}
    BY <1>7, <2>1, <2>2, <2>3
  <2>5. Cardinality(Q \cup {m}) = Cardinality(Q) + 1
    BY <2>4, FS_AddElement
  <2>6. Cardinality(T) = 1 + 1
    BY <2>4, <2>5
  <2> QED BY <2>2, <2>6
<1> QED BY <1>2, <1>5, <1>6, <1>7

-----------------------------------------------------------------------------
(* The rows handed over *)

\* Two streams in order whose rows have numbers of their own.
Streamed(c, f) ==
  /\ c \in Seq(Postings) /\ f \in Seq(Postings) /\ Ascending(c) /\ Ascending(f)
  /\ \A n \in 1 .. Len(c) : c[n].audit > 0
  /\ \A n \in 1 .. Len(f) : f[n].audit > 0
  /\ \A id : Count(c, id) + Count(f, id) <= 1

\* The rows of the streams from lo on and before hi.
Handed(c, f, lo, hi) == {r \in Postings : Comes(r, c, lo, hi) \/ Comes(r, f, lo, hi)}

\* The channel of each row of R.
ChannelsOf(R) == [id \in {r.audit : r \in R} |-> (CHOOSE r \in R : r.audit = id).chan]

\* The rows of R have numbers of their own.
Numbered(R) == \A r, q \in R : r.audit > 0 /\ (r.audit = q.audit => r = q)

\* The rows handed over have numbers of their own.
LEMMA HandedIs ==
  ASSUME NEW c, NEW f, Streamed(c, f), NEW lo \in Int, NEW hi \in Int
  PROVE  Numbered(Handed(c, f, lo, hi))
<1>1. c \in Seq(Postings) /\ f \in Seq(Postings)
  BY DEF Streamed
<1>2. ASSUME NEW s \in Seq(Postings), \A id : Count(s, id) <= 1,
             NEW m \in 1 .. Len(s), NEW n \in 1 .. Len(s), s[m].audit = s[n].audit
      PROVE  m = n
  <2>1. m # n => Count(s, s[n].audit) >= 2
    BY <1>2, CountTwo
  <2>2. Count(s, s[n].audit) \in Nat /\ Count(s, s[n].audit) <= 1
    BY <1>2, PlacesFinite
  <2> QED BY <2>1, <2>2
<1>3. \A id : Count(c, id) \in Nat /\ Count(f, id) \in Nat
  BY <1>1, PlacesFinite
<1>4. \A id : Count(c, id) <= 1 /\ Count(f, id) <= 1
  BY <1>3 DEF Streamed
<1>5. ASSUME NEW m \in 1 .. Len(c), NEW n \in 1 .. Len(f) PROVE c[m].audit # f[n].audit
  <2>1. SUFFICES ASSUME c[m].audit = f[n].audit PROVE FALSE
    OBVIOUS
  <2>2. PICK id : id = f[n].audit /\ id = c[m].audit
    BY <2>1
  <2>3. Count(c, id) >= 1
    BY <1>1, <2>2, CountTwo
  <2>4. Count(f, id) >= 1
    BY <1>1, <2>2, CountTwo
  <2>5. Count(c, id) + Count(f, id) <= 1
    BY DEF Streamed
  <2> QED BY <1>3, <2>3, <2>4, <2>5
<1>6. ASSUME NEW r \in Handed(c, f, lo, hi)
      PROVE  (\E n \in 1 .. Len(c) : r = c[n]) \/ (\E n \in 1 .. Len(f) : r = f[n])
  BY DEF Handed, Comes
<1>7. ASSUME NEW r \in Handed(c, f, lo, hi) PROVE r.audit > 0
  BY <1>6 DEF Streamed
<1>8. ASSUME NEW r \in Handed(c, f, lo, hi), NEW q \in Handed(c, f, lo, hi), r.audit = q.audit
      PROVE  r = q
  <2>1. CASE \E m \in 1 .. Len(c) : r = c[m]
    <3>1. PICK m \in 1 .. Len(c) : r = c[m]
      BY <2>1
    <3>2. PICK n \in 1 .. Len(c) : q = c[n]
      BY <1>5, <1>6, <1>8, <3>1
    <3> QED BY <1>1, <1>2, <1>4, <1>8, <3>1, <3>2
  <2>2. CASE \E m \in 1 .. Len(f) : r = f[m]
    <3>1. PICK m \in 1 .. Len(f) : r = f[m]
      BY <2>2
    <3>2. PICK n \in 1 .. Len(f) : q = f[n]
      BY <1>5, <1>6, <1>8, <3>1
    <3> QED BY <1>1, <1>2, <1>4, <1>8, <3>1, <3>2
  <2> QED BY <1>6, <2>1, <2>2
<1> QED BY <1>7, <1>8 DEF Numbered

\* The channel of a row handed over is known.
LEMMA KnownIs ==
  ASSUME NEW R, Numbered(R), NEW r \in R
  PROVE  Known(ChannelsOf(R), r)
<1>1. (CHOOSE q \in R : q.audit = r.audit) = r
  BY DEF Numbered
<1> QED BY <1>1 DEF Known, ChannelsOf, Numbered

\* It stays known when more rows are handed over.
LEMMA KnownMore ==
  ASSUME NEW R, NEW T, Numbered(T), R \subseteq T
  PROVE  /\ \A x : Known(ChannelsOf(R), x) => Known(ChannelsOf(T), x)
         /\ \A id \in DOMAIN ChannelsOf(R) :
              id \in DOMAIN ChannelsOf(T) /\ ChannelsOf(T)[id] = ChannelsOf(R)[id]
<1>1. Numbered(R)
  BY DEF Numbered
<1>2. ASSUME NEW id \in DOMAIN ChannelsOf(R)
      PROVE  id \in DOMAIN ChannelsOf(T) /\ ChannelsOf(T)[id] = ChannelsOf(R)[id]
  <2>1. PICK r \in R : r.audit = id
    BY DEF ChannelsOf
  <2>2. ChannelsOf(R)[id] = r.chan
    BY <1>1, <2>1, KnownIs DEF Known
  <2>3. r.audit \in DOMAIN ChannelsOf(T) /\ ChannelsOf(T)[r.audit] = r.chan
    BY KnownIs DEF Known
  <2> QED BY <2>1, <2>2, <2>3
<1>3. ASSUME NEW x, Known(ChannelsOf(R), x) PROVE Known(ChannelsOf(T), x)
  BY <1>2, <1>3 DEF Known
<1> QED BY <1>2, <1>3

\* A row that stands nowhere counts nothing.
LEMMA CountNone ==
  ASSUME NEW s \in Seq(Postings), NEW id, \A n \in 1 .. Len(s) : s[n].audit # id
  PROVE  Count(s, id) = 0
<1>1. Places(s, id) = {}
  BY LenProperties DEF Places
<1> QED BY <1>1, PlacesFinite, FS_EmptySet

\* Every row of s is known.
AllKnown(H, s) == \A n \in 1 .. Len(s) : Known(H, s[n])

\* Between two spans, what is sound for the rows handed over is sound for more.
LEMMA SoundMore ==
  ASSUME NEW R, NEW T, Numbered(T), R \subseteq T, NEW a, NEW D \in Seq(Postings),
         NEW lo \in Int, NEW hi \in Int, Sound(a, D, ChannelsOf(R), lo, lo),
         a.declined = << >>, AllKnown(ChannelsOf(R), D)
  PROVE  Sound(a, D, ChannelsOf(T), lo, hi)
<1>1. PICK H : H = ChannelsOf(R)
  OBVIOUS
<1>2. PICK G : G = ChannelsOf(T)
  OBVIOUS
<1>3. Typed(a) /\ Queues(a, lo) /\ Attempts(a, D, H, lo, lo) /\ NoneBefore(a.txns, lo)
  BY <1>1 DEF Sound
<1>4. \A x : Known(H, x) => Known(G, x)
  BY <1>1, <1>2, KnownMore
<1>5. \A id \in DOMAIN H : id \in DOMAIN G /\ G[id] = H[id]
  BY <1>1, <1>2, KnownMore
<1>6. ASSUME NEW id, id \notin DOMAIN H PROVE Tried(D, a, id) = 0
  <2>1. Count(a.declined, id) = 0
    BY CountEmpty
  <2>2. Count(D, id) = 0
    BY <1>1, <1>6, CountNone DEF AllKnown, Known
  <2> QED BY <2>1, <2>2 DEF Tried
<1>7. ASSUME NEW id \in DOMAIN G PROVE Tried(D, a, id) <= 1 + MaxAttemptsFor(G[id])
  <2>1. CASE id \in DOMAIN H
    BY <1>3, <1>5, <2>1 DEF Attempts
  <2>2. CASE id \notin DOMAIN H
    <3>1. MaxAttemptsFor(G[id]) \in {1, 2}
      BY MaxAttempts
    <3> QED BY <1>6, <2>2, <3>1
  <2> QED BY <2>1, <2>2
<1>8. \A i \in a.pending : /\ Known(G, i.row) /\ Tried(D, a, i.row.audit) <= i.tries
                           /\ i.tries <= MaxAttemptsFor(i.row.chan)
  BY <1>3, <1>4 DEF Attempts
<1>9. Len(a.declined) = 0
  BY EmptySeq
<1>10. Attempts(a, D, G, lo, hi)
  BY <1>7, <1>8, <1>9 DEF Attempts
<1> QED BY <1>2, <1>3, <1>10 DEF Sound

\* Parts of what is at most one.
LEMMA AtMostOne ==
  ASSUME NEW x \in Nat, NEW y \in Nat, NEW u \in Nat, NEW v \in Nat,
         x <= u, y <= v, u + v <= 1
  PROVE  ~(x + y >= 2)
  OBVIOUS

\* The rows of the next window are new.
LEMMA NewcomersAre ==
  ASSUME NEW c, NEW f, Streamed(c, f), NEW from \in Int, NEW lo \in Int, NEW hi \in Int,
         from <= lo, lo <= hi, NEW items, Gathers(items, c, f, lo, hi),
         NEW a, NEW D \in Seq(Postings), Sound(a, D, ChannelsOf(Handed(c, f, from, lo)), lo, lo),
         a.declined = << >>, AllKnown(ChannelsOf(Handed(c, f, from, lo)), D)
  PROVE  Newcomers(items, a, D, ChannelsOf(Handed(c, f, from, hi)), lo)
<1>1. PICK R : R = Handed(c, f, from, lo)
  OBVIOUS
<1>2. PICK T : T = Handed(c, f, from, hi)
  OBVIOUS
<1>3. Numbered(T)
  BY <1>2, HandedIs
<1>4. PICK H : H = ChannelsOf(R)
  OBVIOUS
<1>5. /\ items \in Seq(Postings)
      /\ \A i \in 1 .. Len(items) : Comes(items[i], c, lo, hi) \/ Comes(items[i], f, lo, hi)
      /\ \A id : Count(items, id) = Window(c, lo, hi, id) + Window(f, lo, hi, id)
  BY DEF Gathers
<1>6. \A r \in Postings : r.ts \in Int
  BY DEF Postings
<1>7. ASSUME NEW r \in Postings, Comes(r, c, lo, hi) \/ Comes(r, f, lo, hi)
      PROVE  r \in T /\ lo <= r.ts
  <2>1. lo <= r.ts /\ r.ts < hi
    BY <1>7 DEF Comes
  <2>2. from <= r.ts
    BY <1>6, <2>1
  <2> QED BY <1>2, <1>7, <2>1, <2>2 DEF Comes, Handed
<1>8. ASSUME NEW r \in R PROVE r \in T /\ r.ts < lo
  <2>1. r \in Postings /\ (Comes(r, c, from, lo) \/ Comes(r, f, from, lo))
    BY <1>1 DEF Handed
  <2>2. from <= r.ts /\ r.ts < lo
    BY <2>1 DEF Comes
  <2>3. r.ts < hi
    BY <1>6, <2>1, <2>2
  <2> QED BY <1>2, <2>1, <2>2, <2>3 DEF Comes, Handed
<1>9. ASSUME NEW n \in 1 .. Len(items)
      PROVE  /\ Known(ChannelsOf(T), items[n]) /\ lo <= items[n].ts
             /\ items[n].audit \notin DOMAIN H
  <2>1. PICK r \in Postings : r = items[n]
    BY <1>5, ElementOfSeq
  <2>2. r \in T /\ lo <= r.ts
    BY <1>5, <1>7, <2>1
  <2>3. Known(ChannelsOf(T), r)
    BY <1>3, <2>2, KnownIs
  <2>4. ASSUME r.audit \in DOMAIN H PROVE FALSE
    <3>1. PICK q \in R : q.audit = r.audit
      BY <1>4, <2>4 DEF ChannelsOf
    <3>2. q \in T /\ q.ts < lo
      BY <1>8
    <3>3. q = r
      BY <1>3, <2>2, <3>1, <3>2 DEF Numbered
    <3> QED BY <1>6, <2>2, <3>2, <3>3
  <2> QED BY <2>1, <2>2, <2>3, <2>4
<1>10. ASSUME NEW n \in 1 .. Len(items)
       PROVE  /\ Tried(D, a, items[n].audit) = 0
              /\ \A i \in a.pending : i.row.audit # items[n].audit
  <2>1. PICK id : id = items[n].audit
    OBVIOUS
  <2>2. id \notin DOMAIN H
    BY <1>9, <2>1
  <2>3. Count(D, id) = 0
    BY <1>1, <1>4, <2>2, CountNone DEF AllKnown, Known
  <2>4. Count(a.declined, id) = 0
    BY CountEmpty
  <2>5. \A i \in a.pending : Known(H, i.row)
    BY <1>1, <1>4 DEF Sound, Attempts
  <2> QED BY <2>1, <2>2, <2>3, <2>4, <2>5 DEF Tried, Known
<1>11. ASSUME NEW m \in 1 .. Len(items), NEW n \in 1 .. Len(items),
              items[m].audit = items[n].audit
       PROVE  m = n
  <2>1. PICK id : id = items[n].audit
    OBVIOUS
  <2>2. m # n => Count(items, id) >= 2
    BY <1>5, <1>11, <2>1, CountTwo
  <2>3. Count(items, id) = Window(c, lo, hi, id) + Window(f, lo, hi, id)
    BY <1>5
  <2>4. c \in Seq(Postings) /\ f \in Seq(Postings) /\ Count(c, id) + Count(f, id) <= 1
    BY DEF Streamed
  <2>5. Window(c, lo, hi, id) \in Nat /\ Window(c, lo, hi, id) <= Count(c, id)
    BY <2>4, WindowSum
  <2>6. Window(f, lo, hi, id) \in Nat /\ Window(f, lo, hi, id) <= Count(f, id)
    BY <2>4, WindowSum
  <2>7. Count(c, id) \in Nat /\ Count(f, id) \in Nat
    BY <2>4, PlacesFinite
  <2>8. PICK x \in Nat, y \in Nat, u \in Nat, v \in Nat :
          /\ x = Window(c, lo, hi, id) /\ y = Window(f, lo, hi, id)
          /\ u = Count(c, id) /\ v = Count(f, id)
    BY <2>5, <2>6, <2>7
  <2>9. ~(x + y >= 2)
    BY <2>4, <2>5, <2>6, <2>8, AtMostOne
  <2> QED BY <2>2, <2>3, <2>8, <2>9
<1> QED BY <1>2, <1>5, <1>9, <1>10, <1>11 DEF Newcomers

-----------------------------------------------------------------------------
(* What every span keeps *)

\* u is s followed by t.
Follows(u, s, t) ==
  /\ u \in Seq(Postings)
  /\ \A i \in 1 .. Len(u) :
       \/ i \in 1 .. Len(s) /\ u[i] = s[i]
       \/ \E j \in 1 .. Len(t) : i = Len(s) + j /\ u[i] = t[j]

\* Concatenation puts one sequence after the other.
LEMMA JoinIs ==
  ASSUME NEW s \in Seq(Postings), NEW t \in Seq(Postings), NEW u, u = s \o t
  PROVE  Follows(u, s, t)
<1>1. PICK M \in Nat, N \in Nat : M = Len(s) /\ N = Len(t)
  BY LenProperties
<1>2. u \in Seq(Postings) /\ Len(u) = M + N
  BY <1>1, ConcatProperties
<1>3. ASSUME NEW i \in 1 .. M PROVE u[i] = s[i]
  BY <1>1, ConcatProperties
<1>4. ASSUME NEW j \in 1 .. N PROVE u[M + j] = t[j]
  <2>1. M + j \in 1 .. Len(s) + Len(t) /\ ~(M + j <= Len(s)) /\ (M + j) - Len(s) = j
    BY <1>1
  <2> QED BY <1>1, <2>1, ConcatProperties
<1>5. ASSUME NEW i \in 1 .. Len(u), i \notin 1 .. M
      PROVE  \E j \in 1 .. N : i = M + j /\ u[i] = t[j]
  <2>1. PICK j \in 1 .. N : i = M + j
    <3>1. i - M \in 1 .. N /\ i = M + (i - M)
      BY <1>2, <1>5
    <3> QED BY <3>1
  <2> QED BY <1>4, <2>1
<1>6. ASSUME NEW i \in 1 .. Len(u)
      PROVE  \/ i \in 1 .. Len(s) /\ u[i] = s[i]
             \/ \E j \in 1 .. Len(t) : i = Len(s) + j /\ u[i] = t[j]
  BY <1>1, <1>3, <1>5
<1> QED BY <1>2, <1>6 DEF Follows

\* u keeps the orders of s and t, and has nothing from hi on.
Joins(u, s, t, hi) ==
  /\ u \in Seq(Postings) /\ \A n \in 1 .. Len(u) : u[n].ts < hi
  /\ Replayed(s) /\ Replayed(t) => Replayed(u)
  /\ Ascending(s) /\ Ascending(t) => Ascending(u)

\* Numbers on either side of another.
LEMMA Through ==
  ASSUME NEW x \in Int, NEW y \in Int
  PROVE  /\ x < y => x <= y
         /\ \A z \in Int : x < z /\ z <= y => x < y
  OBVIOUS

\* Rows from lo on, put after rows before lo, keep the order.
LEMMA JoinKeeps ==
  ASSUME NEW s \in Seq(Postings), NEW t \in Seq(Postings), NEW u, u = s \o t,
         NEW lo \in Int, NEW hi \in Int, lo <= hi,
         \A n \in 1 .. Len(s) : s[n].ts < lo,
         \A n \in 1 .. Len(t) : lo <= t[n].ts /\ t[n].ts < hi
  PROVE  Joins(u, s, t, hi)
<1>1. Follows(u, s, t)
  BY JoinIs
<1>2. PICK M \in Nat, N \in Nat : M = Len(s) /\ N = Len(t)
  BY LenProperties
<1>3. /\ u \in Seq(Postings)
      /\ \A i \in 1 .. Len(u) : \/ i \in 1 .. M /\ u[i] = s[i]
                                \/ \E j \in 1 .. N : i = M + j /\ u[i] = t[j]
  BY <1>1, <1>2 DEF Follows
<1>4. /\ \A n \in 1 .. M : s[n] \in Postings /\ s[n].ts \in Int /\ s[n].ts < lo
      /\ \A n \in 1 .. N : t[n] \in Postings /\ t[n].ts \in Int /\ lo <= t[n].ts /\ t[n].ts < hi
  <2>1. \A n \in 1 .. M : s[n] \in Postings
    BY <1>2, ElementOfSeq
  <2>2. \A n \in 1 .. N : t[n] \in Postings
    BY <1>2, ElementOfSeq
  <2> QED BY <1>2, <2>1, <2>2 DEF Postings
<1>5. ASSUME NEW n \in 1 .. Len(u) PROVE u[n].ts < hi
  <2>1. CASE n \in 1 .. M /\ u[n] = s[n]
    BY <1>4, <2>1
  <2>2. CASE \E j \in 1 .. N : n = M + j /\ u[n] = t[j]
    BY <1>4, <2>2
  <2> QED BY <1>3, <2>1, <2>2
<1>6. ASSUME NEW m \in 1 .. Len(u), NEW n \in 1 .. Len(u), m < n
      PROVE  \/ m \in 1 .. M /\ n \in 1 .. M /\ u[m] = s[m] /\ u[n] = s[n]
             \/ u[m].ts < u[n].ts /\ u[m] \in Postings /\ u[n] \in Postings
             \/ \E i, j \in 1 .. N : i < j /\ u[m] = t[i] /\ u[n] = t[j]
  <2>1. CASE n \in 1 .. M /\ u[n] = s[n]
    <3>1. m \in 1 .. M /\ u[m] = s[m]
      <4>1. m \in 1 .. M
        BY <1>6, <2>1
      <4>2. \A j \in 1 .. N : m # M + j
        BY <4>1
      <4> QED BY <1>3, <4>1, <4>2
    <3> QED BY <2>1, <3>1
  <2>2. CASE \E j \in 1 .. N : n = M + j /\ u[n] = t[j]
    <3>1. PICK j \in 1 .. N : n = M + j /\ u[n] = t[j]
      BY <2>2
    <3>2. CASE m \in 1 .. M /\ u[m] = s[m]
      <4>1. PICK x \in Int, y \in Int : x = s[m].ts /\ y = t[j].ts /\ x < lo /\ lo <= y
        BY <1>4, <3>2
      <4>2. x < y
        BY <4>1, Through
      <4> QED BY <1>4, <3>1, <3>2, <4>1, <4>2
    <3>3. CASE \E i \in 1 .. N : m = M + i /\ u[m] = t[i]
      <4>1. PICK i \in 1 .. N : m = M + i /\ u[m] = t[i]
        BY <3>3
      <4>2. i < j
        BY <1>6, <3>1, <4>1
      <4> QED BY <3>1, <4>1, <4>2
    <3> QED BY <1>3, <3>2, <3>3
  <2> QED BY <1>3, <2>1, <2>2
<1>7. ASSUME Replayed(s), Replayed(t) PROVE Replayed(u)
  <2>1. ASSUME NEW m \in 1 .. Len(u), NEW n \in 1 .. Len(u), m < n PROVE ~FundsLess(u[n], u[m])
    <3>1. CASE m \in 1 .. M /\ n \in 1 .. M /\ u[m] = s[m] /\ u[n] = s[n]
      BY <1>2, <1>7, <2>1, <3>1 DEF Replayed
    <3>2. CASE u[m].ts < u[n].ts /\ u[m] \in Postings /\ u[n] \in Postings
      <4>1. PICK x \in Postings, y \in Postings : x = u[m] /\ y = u[n] /\ x.ts < y.ts
        BY <3>2
      <4>2. FundsLess(x, y) /\ ~(FundsLess(x, y) /\ FundsLess(y, x))
        BY <4>1, FundsOrder
      <4> QED BY <4>1, <4>2
    <3>3. CASE \E i, j \in 1 .. N : i < j /\ u[m] = t[i] /\ u[n] = t[j]
      BY <1>2, <1>7, <3>3 DEF Replayed
    <3> QED BY <1>6, <2>1, <3>1, <3>2, <3>3
  <2> QED BY <2>1 DEF Replayed
<1>8. ASSUME Ascending(s), Ascending(t) PROVE Ascending(u)
  <2>1. ASSUME NEW m \in 1 .. Len(u), NEW n \in 1 .. Len(u), m < n PROVE u[m].ts <= u[n].ts
    <3>1. CASE m \in 1 .. M /\ n \in 1 .. M /\ u[m] = s[m] /\ u[n] = s[n]
      BY <1>2, <1>8, <2>1, <3>1 DEF Ascending
    <3>2. CASE u[m].ts < u[n].ts /\ u[m] \in Postings /\ u[n] \in Postings
      <4>1. PICK x \in Int, y \in Int : x = u[m].ts /\ y = u[n].ts /\ x < y
        BY <3>2 DEF Postings
      <4>2. x <= y
        BY <4>1, Through
      <4> QED BY <4>1, <4>2
    <3>3. CASE \E i, j \in 1 .. N : i < j /\ u[m] = t[i] /\ u[n] = t[j]
      BY <1>2, <1>8, <3>3 DEF Ascending
    <3> QED BY <1>6, <2>1, <3>1, <3>2, <3>3
  <2> QED BY <2>1 DEF Ascending
<1> QED BY <1>3, <1>5, <1>7, <1>8 DEF Joins

\* d holds the declined attempts of s in clock order.
Clocks(d, s) ==
  /\ d \in Seq(Postings) /\ Ascending(d)
  /\ \A j \in 1 .. Len(d) : \E n \in 1 .. Len(s) : d[j] = s[n]
  /\ \A id : Count(d, id) = Count(s, id)

\* drainDeclined returns the declined attempts in clock order.
LEMMA DeclinedIs ==
  ASSUME NEW z, z.declined \in Seq(Postings), NEW d, d = DeclinedSpan(z)
  PROVE  Clocks(d, z.declined)
<1>1. PICK s \in Seq(Postings) : s = z.declined
  OBVIOUS
<1>2. d = Arranged(s, ClockOrder(s))
  BY <1>1 DEF DeclinedSpan
<1>3. Permutes(d, s) /\ \A i, j \in 1 .. Len(s) : i < j => d[i].ts <= d[j].ts
  BY <1>2, ClockedIs
<1> QED BY <1>1, <1>3 DEF Clocks, Permutes, Ascending

\* What has left as o and what a holds are the rows of id from `from` on and before `at`.
Fated(o, a, c, f, from, at, id) ==
  Count(o, id) + Held(a, id) = Window(c, from, at, id) + Window(f, from, at, id)

\* o and d have left, and a holds the rest, when the rows before `at` have been settled.
Settles(c, f, from, at, a, o, d) ==
  /\ Sound(a, d, ChannelsOf(Handed(c, f, from, at)), at, at) /\ a.declined = << >>
  /\ o \in Seq(Postings) /\ Replayed(o) /\ \A n \in 1 .. Len(o) : o[n].ts < at
  /\ d \in Seq(Postings) /\ Ascending(d) /\ \A n \in 1 .. Len(d) : d[n].ts < at
  /\ AllKnown(ChannelsOf(Handed(c, f, from, at)), d)
  /\ \A id \in Int \ {0} : Fated(o, a, c, f, from, at, id)

\* What is left of accumulator z after a span.
Hands(b, z, u) ==
  /\ IsAcc(b) /\ b.book = z.book /\ b.pending = z.pending /\ b.next = z.next
  /\ b.retry = z.retry /\ b.drops = z.drops /\ b.inbound = z.inbound
  /\ b.declined = << >> /\ b.txns = u

\* KeptFrom leaves exactly that.
LEMMA HandsIs ==
  ASSUME NEW z, IsAcc(z), NEW hi, NEW u,
         u = SubSeq(SortForReplay(z.txns), SliceTo(SortForReplay(z.txns), hi) + 1, Len(z.txns)),
         NEW b, b = [KeptFrom(z, hi) EXCEPT !.declined = << >>]
  PROVE  Hands(b, z, u)
<1>1. b = [[z EXCEPT !.txns = u] EXCEPT !.declined = << >>]
  BY DEF KeptFrom
<1> QED BY <1>1 DEF Hands, IsAcc, AccFields

\* Once a span is settled it is sound for the next.
LEMMA HandsSound ==
  ASSUME NEW z, NEW D \in Seq(Postings), NEW H, NEW lo \in Int, NEW hi \in Int, lo <= hi,
         Sound(z, D, H, lo, hi), \A i \in z.pending : i.ts >= hi,
         NEW u \in Seq(Postings), NoneBefore(u, hi), NEW b, Hands(b, z, u),
         NEW e, Clocks(e, z.declined), NEW d, d = D \o e
  PROVE  Sound(b, d, H, hi, hi)
<1>1. Typed(z) /\ Queues(z, lo) /\ Attempts(z, D, H, lo, hi)
  BY DEF Sound
<1>2. Typed(b)
  BY <1>1, EmptySeq DEF Typed, Hands
<1>3. Queues(b, hi)
  <2>1. \A i \in z.pending : hi <= i.ts
    <3>1. \A i \in z.pending : i.ts \in Int
      BY <1>1 DEF Queues, Items
    <3> QED BY <3>1
  <2> QED BY <1>1, <2>1 DEF Queues, Hands
<1>4. ASSUME NEW id PROVE Tried(d, b, id) = Tried(D, z, id)
  <2>1. e \in Seq(Postings) /\ Count(e, id) = Count(z.declined, id)
    BY DEF Clocks
  <2>2. Count(d, id) = Count(D, id) + Count(e, id)
    BY <2>1, CountConcat
  <2>3. Count(b.declined, id) = 0
    BY CountEmpty DEF Hands
  <2>4. Count(d, id) \in Nat
    <3>1. d \in Seq(Postings)
      BY <2>1, ConcatProperties
    <3> QED BY <3>1, PlacesFinite
  <2> QED BY <2>1, <2>2, <2>3, <2>4 DEF Tried
<1>5. Len(b.declined) = 0
  BY EmptySeq DEF Hands
<1>6. \A i \in b.pending : /\ Known(H, i.row) /\ Tried(d, b, i.row.audit) <= i.tries
                           /\ i.tries <= MaxAttemptsFor(i.row.chan)
  BY <1>1, <1>4 DEF Attempts, Hands
<1>7. \A id \in DOMAIN H : Tried(d, b, id) <= 1 + MaxAttemptsFor(H[id])
  BY <1>1, <1>4 DEF Attempts
<1>8. Attempts(b, d, H, hi, hi)
  BY <1>5, <1>6, <1>7 DEF Attempts
<1> QED BY <1>2, <1>3, <1>8 DEF Sound, Hands

\* The sums of a span, put together.
LEMMA Sums ==
  ASSUME NEW no \in Nat, NEW nt \in Nat, NEW nu \in Nat, NEW nd \in Nat, NEW nq \in Nat,
         NEW ha \in Int, NEW w1 \in Nat, NEW w2 \in Nat, NEW w3 \in Nat, NEW w4 \in Nat,
         nt + nu + nd + nq = ha + (w2 + w4), no + ha = w1 + w3
  PROVE  (no + nt) + (nu + nd + nq) = (w1 + w2) + (w3 + w4)
  OBVIOUS

\* What a holds can be counted.
Holds(a) == a.txns \in Seq(Postings) /\ a.drops \in Seq(Drops) /\ IsFiniteSet(a.pending)

\* The number of times a row is held is a sum of three counts.
LEMMA HeldIs ==
  ASSUME NEW a, Holds(a), NEW id
  PROVE  \E x, y, w \in Nat : /\ x = Count(a.txns, id) /\ y = Count(a.drops, id)
                              /\ w = Cardinality(Carrying(a.pending, id))
                              /\ Held(a, id) = x + y + w
<1>1. a.txns \in Seq(Postings) /\ a.drops \in Seq(Drops) /\ IsFiniteSet(a.pending)
  BY DEF Holds
<1>2. Carrying(a.pending, id) \in SUBSET a.pending
  BY DEF Carrying
<1>3. PICK w \in Nat : w = Cardinality(Carrying(a.pending, id))
  BY <1>1, <1>2, FS_Subset, FS_CardinalityType
<1>4. PICK x \in Nat, y \in Nat : x = Count(a.txns, id) /\ y = Count(a.drops, id)
  BY <1>1, PlacesFinite
<1>5. Held(a, id) = x + y + w
  BY <1>3, <1>4 DEF Held
<1> QED BY <1>3, <1>4, <1>5

\* The fates of row id after a span, from those before it.
LEMMA FatesAdd ==
  ASSUME NEW c \in Seq(Postings), NEW f \in Seq(Postings), NEW from \in Int, NEW lo \in Int,
         NEW hi \in Int, from <= lo, lo <= hi, NEW id, NEW a, Holds(a), NEW z, Holds(z),
         Held(z, id) = Held(a, id) + (Window(c, lo, hi, id) + Window(f, lo, hi, id)),
         NEW o \in Seq(Postings),
         Fated(o, a, c, f, from, lo, id),
         NEW t, NEW u \in Seq(Postings), Splits(t, u, z.txns, lo, hi), NEW b, Hands(b, z, u),
         NEW p, p = o \o t
  PROVE  Fated(p, b, c, f, from, hi, id)
<1>1. t \in Seq(Postings) /\ Count(t, id) + Count(u, id) = Count(z.txns, id)
  BY DEF Splits
<1>2. Count(p, id) = Count(o, id) + Count(t, id)
  BY <1>1, CountConcat
<1>3. PICK nt \in Nat, nu \in Nat, no \in Nat :
        nt = Count(t, id) /\ nu = Count(u, id) /\ no = Count(o, id)
  BY <1>1, PlacesFinite
<1>4. PICK nz \in Nat, nd \in Nat, nq \in Nat :
        /\ nz = Count(z.txns, id) /\ nd = Count(z.drops, id)
        /\ nq = Cardinality(Carrying(z.pending, id)) /\ Held(z, id) = nz + nd + nq
  BY HeldIs
<1>5. nz = nt + nu
  BY <1>1, <1>3, <1>4
<1>6. Held(b, id) = nu + nd + nq
  BY <1>3, <1>4 DEF Held, Hands
<1>7. PICK ha \in Nat : ha = Held(a, id)
  <2>1. PICK x \in Nat, y \in Nat, w \in Nat : Held(a, id) = x + y + w
    BY HeldIs
  <2> QED BY <2>1
<1>8. PICK w1 \in Nat, w2 \in Nat :
        /\ w1 = Window(c, from, lo, id) /\ w2 = Window(c, lo, hi, id)
        /\ Window(c, from, hi, id) = w1 + w2
  <2>1. /\ Window(c, from, lo, id) \in Nat /\ Window(c, lo, hi, id) \in Nat
        /\ Window(c, from, hi, id) = Window(c, from, lo, id) + Window(c, lo, hi, id)
    BY WindowSum
  <2> QED BY <2>1
<1>9. PICK w3 \in Nat, w4 \in Nat :
        /\ w3 = Window(f, from, lo, id) /\ w4 = Window(f, lo, hi, id)
        /\ Window(f, from, hi, id) = w3 + w4
  <2>1. /\ Window(f, from, lo, id) \in Nat /\ Window(f, lo, hi, id) \in Nat
        /\ Window(f, from, hi, id) = Window(f, from, lo, id) + Window(f, lo, hi, id)
    BY WindowSum
  <2> QED BY <2>1
<1>10. nt + nu + nd + nq = ha + (w2 + w4)
  BY <1>4, <1>5, <1>7, <1>8, <1>9
<1>11. no + ha = w1 + w3
  BY <1>3, <1>7, <1>8, <1>9 DEF Fated
<1>12. Count(p, id) + Held(b, id) = (no + nt) + (nu + nd + nq)
  BY <1>2, <1>3, <1>6
<1>13. (no + nt) + (nu + nd + nq) = (w1 + w2) + (w3 + w4)
  BY <1>10, <1>11, Sums
<1> QED BY <1>8, <1>9, <1>12, <1>13 DEF Fated

\* a may be extended by the rows of the span from lo to hi.
Ready(a, items, c, f, from, lo, hi, d) ==
  LET T == Handed(c, f, from, hi)
  IN  /\ Numbered(T) /\ Handed(c, f, from, lo) \subseteq T
      /\ Sound(a, d, ChannelsOf(T), lo, hi) /\ Newcomers(items, a, d, ChannelsOf(T), lo)

\* So may it when what came before has been settled.
LEMMA SpanReady ==
  ASSUME NEW c, NEW f, Streamed(c, f), NEW from \in Int, NEW lo \in Int, NEW hi \in Int,
         from <= lo, lo <= hi, NEW a, NEW o, NEW d, Settles(c, f, from, lo, a, o, d),
         NEW items, Gathers(items, c, f, lo, hi)
  PROVE  Ready(a, items, c, f, from, lo, hi, d)
<1>1. PICK R : R = Handed(c, f, from, lo)
  OBVIOUS
<1>2. PICK T : T = Handed(c, f, from, hi)
  OBVIOUS
<1>3. PICK H : H = ChannelsOf(T)
  OBVIOUS
<1>4. /\ Sound(a, d, ChannelsOf(R), lo, lo) /\ a.declined = << >> /\ AllKnown(ChannelsOf(R), d)
      /\ o \in Seq(Postings) /\ Replayed(o) /\ \A n \in 1 .. Len(o) : o[n].ts < lo
      /\ d \in Seq(Postings) /\ Ascending(d) /\ \A n \in 1 .. Len(d) : d[n].ts < lo
  BY <1>1 DEF Settles
<1>5. Numbered(T) /\ R \subseteq T
  <2>1. ASSUME NEW s, NEW r \in Postings, Comes(r, s, from, lo) PROVE Comes(r, s, from, hi)
    <3>1. PICK n \in 1 .. Len(s) : r = s[n] /\ from <= s[n].ts /\ s[n].ts < lo
      BY <2>1 DEF Comes
    <3>2. PICK x \in Int : x = s[n].ts
      BY <3>1 DEF Postings
    <3>3. x < hi
      BY <3>1, <3>2
    <3> QED BY <3>1, <3>2, <3>3 DEF Comes
  <2>2. ASSUME NEW r \in R PROVE r \in T
    <3>1. r \in Postings /\ (Comes(r, c, from, lo) \/ Comes(r, f, from, lo))
      BY <1>1 DEF Handed
    <3>2. Comes(r, c, from, hi) \/ Comes(r, f, from, hi)
      BY <2>1, <3>1
    <3> QED BY <1>2, <3>1, <3>2 DEF Handed
  <2>3. Numbered(T)
    BY <1>2, HandedIs
  <2> QED BY <2>2, <2>3
<1>6. Sound(a, d, H, lo, hi)
  BY <1>3, <1>4, <1>5, SoundMore
<1>7. Newcomers(items, a, d, H, lo)
  BY <1>1, <1>2, <1>3, <1>4, NewcomersAre
<1> QED BY <1>1, <1>2, <1>3, <1>5, <1>6, <1>7 DEF Ready

\* A span of the run settles its window.
LEMMA SpanKeeps ==
  ASSUME NEW c, NEW f, Streamed(c, f), NEW from \in Int, NEW lo \in Int, NEW hi \in Int,
         from <= lo, lo <= hi, NEW a, NEW o, NEW d, Settles(c, f, from, lo, a, o, d),
         NEW items, Gathers(items, c, f, lo, hi), NEW lookahead \in Seq(Postings),
         NEW z, z = ExtendChunk(a, items, lookahead, hi),
         NEW b, b = [KeptFrom(z, hi) EXCEPT !.declined = << >>],
         NEW p, p = o \o SettledBefore(z, hi), NEW e, e = d \o DeclinedSpan(z)
  PROVE  Settles(c, f, from, hi, b, p, e)
<1>1. PICK R : R = Handed(c, f, from, lo)
  OBVIOUS
<1>2. PICK T : T = Handed(c, f, from, hi)
  OBVIOUS
<1>3. PICK H : H = ChannelsOf(T)
  OBVIOUS
<1>4. /\ Sound(a, d, ChannelsOf(R), lo, lo) /\ a.declined = << >> /\ AllKnown(ChannelsOf(R), d)
      /\ o \in Seq(Postings) /\ Replayed(o) /\ \A n \in 1 .. Len(o) : o[n].ts < lo
      /\ d \in Seq(Postings) /\ Ascending(d) /\ \A n \in 1 .. Len(d) : d[n].ts < lo
  BY <1>1 DEF Settles
<1>5. Ready(a, items, c, f, from, lo, hi, d)
  BY SpanReady
<1>6. Numbered(T) /\ R \subseteq T
  BY <1>1, <1>2, <1>5 DEF Ready
<1>7. Sound(a, d, H, lo, hi) /\ Newcomers(items, a, d, H, lo)
  BY <1>2, <1>3, <1>5 DEF Ready
<1>8. Extends(z, a, items, d, H, lo, hi)
  BY <1>4, <1>7, ExtendIs
<1>9. /\ Sound(z, d, H, lo, hi)
      /\ \A id \in Int \ {0} : Held(z, id) = Held(a, id) + Count(items, id)
      /\ \A i \in z.pending : i.ts >= hi
  BY <1>8 DEF Extends
<1>10. /\ IsAcc(z) /\ z.txns \in Seq(Postings) /\ z.declined \in Seq(Postings)
       /\ z.drops \in Seq(Drops) /\ NoneBefore(z.txns, lo) /\ IsFiniteSet(z.pending)
  BY <1>9 DEF Sound, Typed, Queues
<1>11. PICK t : t = SettledBefore(z, hi)
  OBVIOUS
<1>12. PICK u : u = SubSeq(SortForReplay(z.txns), SliceTo(SortForReplay(z.txns), hi) + 1, Len(z.txns))
  OBVIOUS
<1>13. Splits(t, u, z.txns, lo, hi)
  BY <1>10, <1>11, <1>12, SplitIs
<1>14. Hands(b, z, u)
  BY <1>10, <1>12, HandsIs
<1>15. PICK g : g = DeclinedSpan(z)
  OBVIOUS
<1>16. Clocks(g, z.declined)
  BY <1>10, <1>15, DeclinedIs
<1>17. e = d \o g /\ p = o \o t
  BY <1>11, <1>15
<1>18. u \in Seq(Postings) /\ NoneBefore(u, hi)
  BY <1>13 DEF Splits
<1>19. Sound(b, e, H, hi, hi)
  BY <1>4, <1>9, <1>14, <1>16, <1>17, <1>18, HandsSound
<1>20. /\ p \in Seq(Postings) /\ \A n \in 1 .. Len(p) : p[n].ts < hi
       /\ Replayed(p)
  <2>1. /\ t \in Seq(Postings) /\ Replayed(t)
        /\ \A n \in 1 .. Len(t) : lo <= t[n].ts /\ t[n].ts < hi
    BY <1>13 DEF Splits
  <2>2. \A n \in 1 .. Len(o) : o[n].ts < lo
    BY <1>4
  <2>3. Joins(p, o, t, hi)
    BY <1>4, <1>17, <2>1, <2>2, JoinKeeps
  <2> QED BY <1>4, <2>1, <2>3 DEF Joins
<1>21. /\ g \in Seq(Postings) /\ Ascending(g)
       /\ \A n \in 1 .. Len(g) : Known(H, g[n]) /\ lo <= g[n].ts /\ g[n].ts < hi
  <2>1. \A n \in 1 .. Len(z.declined) :
          Known(H, z.declined[n]) /\ lo <= z.declined[n].ts /\ z.declined[n].ts < hi
    BY <1>9 DEF Sound, Attempts
  <2> QED BY <1>16, <2>1 DEF Clocks
<1>22. /\ e \in Seq(Postings) /\ \A n \in 1 .. Len(e) : e[n].ts < hi
       /\ Ascending(e)
  <2>1. \A n \in 1 .. Len(d) : d[n].ts < lo
    BY <1>4
  <2>2. \A n \in 1 .. Len(g) : lo <= g[n].ts /\ g[n].ts < hi
    BY <1>21
  <2>3. Joins(e, d, g, hi)
    BY <1>4, <1>17, <1>21, <2>1, <2>2, JoinKeeps
  <2> QED BY <1>4, <1>21, <2>3 DEF Joins
<1>23. AllKnown(H, e)
  <2>1. \A x : Known(ChannelsOf(R), x) => Known(H, x)
    BY <1>3, <1>6, KnownMore
  <2>2. Follows(e, d, g)
    BY <1>4, <1>17, <1>21, JoinIs
  <2>3. ASSUME NEW n \in 1 .. Len(e) PROVE Known(H, e[n])
    <3>1. CASE n \in 1 .. Len(d) /\ e[n] = d[n]
      BY <1>4, <2>1, <3>1 DEF AllKnown
    <3>2. CASE \E j \in 1 .. Len(g) : n = Len(d) + j /\ e[n] = g[j]
      BY <1>21, <3>2
    <3> QED BY <2>2, <3>1, <3>2 DEF Follows
  <2> QED BY <2>3 DEF AllKnown
<1>24. ASSUME NEW id \in Int \ {0}
       PROVE  Fated(p, b, c, f, from, hi, id)
  <2>1. Held(z, id) = Held(a, id) + Count(items, id)
    BY <1>9
  <2>2. Count(items, id) = Window(c, lo, hi, id) + Window(f, lo, hi, id)
    BY DEF Gathers
  <2>3. Fated(o, a, c, f, from, lo, id)
    BY DEF Settles
  <2>4. Held(z, id) = Held(a, id) + (Window(c, lo, hi, id) + Window(f, lo, hi, id))
    BY <2>1, <2>2
  <2>5. c \in Seq(Postings) /\ f \in Seq(Postings) /\ o \in Seq(Postings)
    BY <1>4 DEF Streamed
  <2>6. Holds(a) /\ Holds(z)
    BY <1>4, <1>9 DEF Sound, Typed, Queues, Holds
  <2> QED BY <1>13, <1>14, <1>17, <1>18, <2>3, <2>4, <2>5, <2>6, FatesAdd
<1>25. b.declined = << >>
  BY <1>14 DEF Hands
<1> QED BY <1>2, <1>3, <1>19, <1>20, <1>22, <1>23, <1>24, <1>25 DEF Settles

-----------------------------------------------------------------------------
(* The fold *)

\* The two streams are in order, and what has been settled is what lies before the
\* span that comes next.
IndInv ==
  /\ Streamed(cand, fraud) /\ sched \in Schedules /\ k \in 1 .. Len(sched)
  /\ Settles(cand, fraud, sched[1], sched[k], acc, out, declined)

\* The streams of a run are in order once they are sorted.
LEMMA StreamIs ==
  ASSUME NEW st \in Streams
  PROVE  Streamed(SortForReplay(st.cand), SortForReplay(st.fraud))
<1>1. PICK c \in Seq(Postings), f \in Seq(Postings) : c = st.cand /\ f = st.fraud
  BY StreamsAssumption
<1>2. DOMAIN c = 1 .. Len(c) /\ DOMAIN f = 1 .. Len(f)
  BY LenProperties
<1>3. /\ \A n \in 1 .. Len(c) : c[n].audit > 0
      /\ \A n \in 1 .. Len(f) : f[n].audit > 0
      /\ \A m, n \in 1 .. Len(c) : c[m].audit = c[n].audit => m = n
      /\ \A m, n \in 1 .. Len(f) : f[m].audit = f[n].audit => m = n
      /\ \A m \in 1 .. Len(c), n \in 1 .. Len(f) : c[m].audit # f[n].audit
  BY <1>1, <1>2, StreamsAssumption
<1>4. PICK p : p = SortForReplay(c)
  OBVIOUS
<1>5. PICK q : q = SortForReplay(f)
  OBVIOUS
<1>6. Permutes(p, c) /\ Permutes(q, f) /\ Ascending(p) /\ Ascending(q)
  BY <1>4, <1>5, SortedIs, SortedAscends
<1>7. /\ \A n \in 1 .. Len(p) : p[n].audit > 0
      /\ \A n \in 1 .. Len(q) : q[n].audit > 0
  <2>1. ASSUME NEW n \in 1 .. Len(p) PROVE p[n].audit > 0
    BY <1>3, <1>6 DEF Permutes
  <2>2. ASSUME NEW n \in 1 .. Len(q) PROVE q[n].audit > 0
    BY <1>3, <1>6 DEF Permutes
  <2> QED BY <2>1, <2>2
<1>8. ASSUME NEW s \in Seq(Postings), \A m, n \in 1 .. Len(s) : s[m].audit = s[n].audit => m = n,
             NEW id
      PROVE  Count(s, id) \in {0, 1} /\ (Count(s, id) = 1 => \E n \in 1 .. Len(s) : s[n].audit = id)
  <2>1. PICK P : P = Places(s, id)
    OBVIOUS
  <2>2. Count(s, id) = Cardinality(P)
    BY <2>1, PlacesFinite
  <2>3. CASE P = {}
    BY <2>2, <2>3, FS_EmptySet
  <2>4. CASE P # {}
    <3>1. PICK n \in P : TRUE
      BY <2>4
    <3>2. n \in 1 .. Len(s) /\ s[n].audit = id
      BY <2>1, <3>1, LenProperties DEF Places
    <3>3. P = {n}
      BY <1>8, <2>1, <3>1, <3>2, LenProperties DEF Places
    <3> QED BY <2>2, <3>2, <3>3, FS_Singleton
  <2> QED BY <2>3, <2>4
<1>9. ASSUME NEW id PROVE Count(p, id) + Count(q, id) <= 1
  <2>1. Count(p, id) = Count(c, id) /\ Count(q, id) = Count(f, id)
    BY <1>6 DEF Permutes
  <2>2. Count(c, id) \in {0, 1} /\ (Count(c, id) = 1 => \E n \in 1 .. Len(c) : c[n].audit = id)
    BY <1>3, <1>8
  <2>3. Count(f, id) \in {0, 1} /\ (Count(f, id) = 1 => \E n \in 1 .. Len(f) : f[n].audit = id)
    BY <1>3, <1>8
  <2>4. ~(Count(c, id) = 1 /\ Count(f, id) = 1)
    BY <1>3, <2>2, <2>3
  <2> QED BY <2>1, <2>2, <2>3, <2>4
<1> QED BY <1>1, <1>4, <1>5, <1>6, <1>7, <1>9 DEF Streamed, Permutes

\* Before the first span nothing has been handed over.
LEMMA StartIs ==
  ASSUME NEW c, NEW f, Streamed(c, f), NEW from \in Int, NEW b, IsBook(b), NEW emit, NEW coins,
         NEW a, a = NewAccumulator(b, emit, coins)
  PROVE  Settles(c, f, from, from, a, << >>, << >>)
<1>1. PICK e : e = << >>
  OBVIOUS
<1>2. e \in Seq(Postings) /\ e \in Seq(Drops) /\ Len(e) = 0
  BY <1>1, EmptySeq
<1>3. /\ IsAcc(a) /\ a.book = b /\ a.pending = {} /\ a.next = 0 /\ a.retry = 0
      /\ a.txns = e /\ a.drops = e /\ a.declined = e /\ a.inbound = e
  BY <1>1 DEF NewAccumulator, IsAcc, AccFields
<1>4. PICK H : H = ChannelsOf(Handed(c, f, from, from))
  OBVIOUS
<1>5. DOMAIN H = {}
  <2>1. ASSUME NEW s, NEW r \in Postings, Comes(r, s, from, from) PROVE FALSE
    <3>1. r.ts \in Int /\ from <= r.ts /\ r.ts < from
      BY <2>1 DEF Comes, Postings
    <3> QED BY <3>1
  <2>2. Handed(c, f, from, from) = {}
    BY <2>1 DEF Handed
  <2> QED BY <1>4, <2>2 DEF ChannelsOf
<1>6. Typed(a)
  BY <1>2, <1>3 DEF Typed
<1>7. Queues(a, from)
  BY <1>3, FS_EmptySet DEF Queues, DistinctPlaces
<1>8. Attempts(a, e, H, from, from)
  BY <1>2, <1>3, <1>5 DEF Attempts
<1>9. Sound(a, e, H, from, from)
  BY <1>2, <1>3, <1>6, <1>7, <1>8 DEF Sound, NoneBefore
<1>10. ASSUME NEW id \in Int \ {0}
       PROVE  Fated(e, a, c, f, from, from, id)
  <2>1. Count(e, id) = 0
    BY <1>1, CountEmpty
  <2>2. Carrying(a.pending, id) = {}
    BY <1>3 DEF Carrying
  <2>3. Cardinality(Carrying(a.pending, id)) = 0
    BY <2>2, FS_EmptySet
  <2>4. Held(a, id) = 0
    BY <1>3, <2>1, <2>3 DEF Held
  <2>5. Window(c, from, from, id) = 0 /\ Window(f, from, from, id) = 0
    BY WindowEmpty DEF Streamed
  <2> QED BY <2>1, <2>4, <2>5 DEF Fated
<1>11. Replayed(e) /\ Ascending(e) /\ AllKnown(H, e)
  BY <1>2 DEF Replayed, Ascending, AllKnown
<1>12. \A n \in 1 .. Len(e) : e[n].ts < from
  BY <1>2
<1> QED BY <1>1, <1>2, <1>3, <1>4, <1>9, <1>10, <1>11, <1>12 DEF Settles

\* Every run starts like this.
LEMMA InitInv == Init => IndInv
<1> SUFFICES ASSUME Init PROVE IndInv
  OBVIOUS
<1>1. PICK st \in Streams, c \in Coins :
        /\ cand = SortForReplay(st.cand) /\ fraud = SortForReplay(st.fraud)
        /\ acc = NewAccumulator(Opening, st.emit, c)
  BY DEF Init
<1>2. Streamed(cand, fraud)
  BY <1>1, StreamIs
<1>3. sched \in Schedules /\ k = 1 /\ out = << >> /\ declined = << >>
  BY DEF Init
<1>4. sched \in Seq(Int) /\ sched # << >>
  BY <1>3, SchedulesAssumption
<1>5. 1 \in 1 .. Len(sched)
  <2>1. Len(sched) \in Nat /\ Len(sched) # 0
    BY <1>4, LenProperties, EmptySeq
  <2> QED BY <2>1
<1>6. sched[1] \in Int
  BY <1>4, <1>5, ElementOfSeq
<1>7. Settles(cand, fraud, sched[1], sched[1], acc, << >>, << >>)
  BY <1>1, <1>2, <1>6, OpeningIs, StartIs
<1> QED BY <1>2, <1>3, <1>5, <1>7 DEF IndInv

\* Every step keeps it.
LEMMA StepInv == IndInv /\ [Next]_vars => IndInv'
<1> SUFFICES ASSUME IndInv, [Next]_vars PROVE IndInv'
  OBVIOUS
<1>1. CASE SettleSpan
  <2>1. /\ Streamed(cand, fraud) /\ sched \in Schedules /\ k \in 1 .. Len(sched)
        /\ Settles(cand, fraud, sched[1], sched[k], acc, out, declined)
    BY DEF IndInv
  <2>2. cand' = cand /\ fraud' = fraud /\ sched' = sched /\ k' = k + 1
    BY <1>1 DEF SettleSpan, run
  <2>3. Len(sched) \in Nat
    BY <2>1, SchedulesAssumption, LenProperties
  <2>4. /\ k \in 1 .. SpanCount(sched) /\ 1 \in 1 .. Len(sched) /\ k + 1 \in 1 .. Len(sched)
        /\ 1 <= k /\ k <= k + 1
    BY <1>1, <2>1, <2>3 DEF SettleSpan, SpanCount
  <2>5. PICK from \in Int, lo \in Int, hi \in Int :
          /\ from = sched[1] /\ lo = sched[k] /\ hi = sched[k + 1]
          /\ from <= lo /\ lo <= hi
    BY <2>1, <2>4, BoundsAscend
  <2>6. PICK items : items = SpanItems(sched, k)
    OBVIOUS
  <2>7. Gathers(items, cand, fraud, lo, hi)
    BY <2>1, <2>5, <2>6, GatheredIs DEF Streamed, SpanItems
  <2>8. PICK lookahead : lookahead = SpanLookahead(sched, k)
    OBVIOUS
  <2>9. lookahead \in Seq(Postings)
    <3>1. Ahead(cand, sched, k) \in Seq(Postings)
      BY <2>1, <2>4, AheadIs DEF Streamed
    <3>2. Ahead(fraud, sched, k) \in Seq(Postings)
      BY <2>1, <2>4, AheadIs DEF Streamed
    <3> QED BY <2>8, <3>1, <3>2, ConcatProperties DEF SpanLookahead
  <2>10. PICK z : z = ExtendChunk(acc, items, lookahead, hi)
    OBVIOUS
  <2>11. /\ acc' = [KeptFrom(z, hi) EXCEPT !.declined = << >>]
         /\ out' = out \o SettledBefore(z, hi)
         /\ declined' = declined \o DeclinedSpan(z)
    BY <1>1, <2>5, <2>6, <2>8, <2>10 DEF SettleSpan
  <2>12. Settles(cand, fraud, from, lo, acc, out, declined)
    BY <2>1, <2>5
  <2>13. Settles(cand, fraud, from, hi, acc', out', declined')
    BY <2>1, <2>5, <2>7, <2>9, <2>10, <2>11, <2>12, SpanKeeps
  <2> QED BY <2>1, <2>2, <2>4, <2>5, <2>13 DEF IndInv
<1>2. CASE UNCHANGED vars
  BY <1>2 DEF IndInv, vars, run
<1> QED BY <1>1, <1>2 DEF Next

\* Then every row has one fate: the windows count what was consumed.
LEMMA InvOneFate == IndInv => OneFate
<1> SUFFICES ASSUME IndInv PROVE OneFate
  OBVIOUS
<1>1. /\ Streamed(cand, fraud)
      /\ Settles(cand, fraud, sched[1], sched[k], acc, out, declined)
  BY DEF IndInv
<1>2. ASSUME NEW id, id \in {cand[n].audit : n \in DOMAIN cand} \cup {fraud[n].audit : n \in DOMAIN fraud}
      PROVE  id \in Int \ {0}
  <2>1. ASSUME NEW s \in Seq(Postings), \A n \in 1 .. Len(s) : s[n].audit > 0, NEW n \in DOMAIN s
        PROVE  s[n].audit \in Int \ {0}
    <3>1. PICK r \in Postings : r = s[n] /\ r.audit > 0
      BY <2>1, LenProperties, ElementOfSeq
    <3> QED BY <3>1 DEF Postings
  <2> QED BY <1>1, <1>2, <2>1 DEF Streamed
<1>3. ASSUME NEW id
      PROVE  /\ Window(cand, sched[1], sched[k], id) = Consumed(cand, id)
             /\ Window(fraud, sched[1], sched[k], id) = Consumed(fraud, id)
  BY DEF Window, Inside, Consumed
<1>4. ASSUME NEW id PROVE Cardinality(Carrying(acc.pending, id)) = Queued(id)
  BY DEF Carrying, Queued
<1>5. ASSUME NEW id \in Int \ {0}
      PROVE  Count(out, id) + Count(acc.txns, id) + Count(acc.drops, id) + Queued(id)
               = Consumed(cand, id) + Consumed(fraud, id)
  <2>1. Count(out, id) + Held(acc, id) = Consumed(cand, id) + Consumed(fraud, id)
    BY <1>1, <1>3 DEF Settles, Fated
  <2>2. /\ out \in Seq(Postings) /\ acc.txns \in Seq(Postings) /\ acc.drops \in Seq(Drops)
        /\ IsFiniteSet(acc.pending)
    BY <1>1 DEF Settles, Sound, Typed, Queues
  <2>3. PICK x \in Nat, y \in Nat : x = Count(out, id) /\ y = Count(acc.txns, id)
    BY <2>2, PlacesFinite
  <2>4. PICK u \in Nat : u = Count(acc.drops, id)
    BY <2>2, PlacesFinite
  <2>5. PICK v \in Nat : v = Cardinality(Carrying(acc.pending, id))
    <3>1. Carrying(acc.pending, id) \in SUBSET acc.pending
      BY DEF Carrying
    <3> QED BY <2>2, <3>1, FS_Subset, FS_CardinalityType
  <2>6. Held(acc, id) = y + u + v
    BY <2>3, <2>4, <2>5 DEF Held
  <2>7. Count(out, id) + Count(acc.txns, id) + Count(acc.drops, id) + Queued(id) = x + y + u + v
    BY <1>4, <2>3, <2>4, <2>5
  <2>8. x + (y + u + v) = x + y + u + v
    OBVIOUS
  <2> QED BY <2>1, <2>3, <2>6, <2>7, <2>8
<1> QED BY <1>2, <1>5 DEF OneFate

\* Then nothing comes late.
LEMMA InvNoLateRow == IndInv => NoLateRow
<1> SUFFICES ASSUME IndInv PROVE NoLateRow
  OBVIOUS
<1>1. Settles(cand, fraud, sched[1], sched[k], acc, out, declined)
  BY DEF IndInv
<1>2. /\ out \in Seq(Postings) /\ Replayed(out) /\ \A n \in 1 .. Len(out) : out[n].ts < sched[k]
      /\ declined \in Seq(Postings) /\ Ascending(declined)
      /\ acc.txns \in Seq(Postings) /\ NoneBefore(acc.txns, sched[k]) /\ Queues(acc, sched[k])
  BY <1>1 DEF Settles, Sound, Typed
<1>3. /\ DOMAIN out = 1 .. Len(out) /\ DOMAIN declined = 1 .. Len(declined)
      /\ DOMAIN acc.txns = 1 .. Len(acc.txns)
  BY <1>2, LenProperties
<1>4. sched[k] \in Int
  <2>1. sched \in Schedules /\ k \in 1 .. Len(sched) /\ k <= k
    BY DEF IndInv
  <2> QED BY <2>1, BoundsAscend
<1>5. \A i \in acc.pending : i.ts >= sched[k]
  <2>1. \A i \in acc.pending : i.ts \in Int /\ sched[k] <= i.ts
    BY <1>2 DEF Queues, Items
  <2> QED BY <1>4, <2>1
<1>6. \A n \in DOMAIN acc.txns : acc.txns[n].ts >= sched[k]
  BY <1>2, <1>3 DEF NoneBefore
<1>7. /\ \A m, n \in DOMAIN declined : m < n => declined[m].ts <= declined[n].ts
      /\ \A m, n \in DOMAIN out : m < n => ~FundsLess(out[n], out[m])
      /\ \A n \in DOMAIN out : out[n].ts < sched[k]
  BY <1>2, <1>3 DEF Ascending, Replayed
<1> QED BY <1>5, <1>6, <1>7 DEF NoLateRow

\* Then attempts are bounded: the declined rows are all tries of a known row.
LEMMA InvAttempts == IndInv => AttemptsBounded
<1> SUFFICES ASSUME IndInv, NEW n \in DOMAIN declined
             PROVE  Count(declined, declined[n].audit) <= 1 + MaxAttemptsFor(declined[n].chan)
  BY DEF AttemptsBounded
<1>1. Settles(cand, fraud, sched[1], sched[k], acc, out, declined)
  BY DEF IndInv
<1>2. PICK H : H = ChannelsOf(Handed(cand, fraud, sched[1], sched[k]))
  OBVIOUS
<1>3. /\ Attempts(acc, declined, H, sched[k], sched[k]) /\ acc.declined = << >>
      /\ declined \in Seq(Postings) /\ AllKnown(H, declined)
  BY <1>1, <1>2 DEF Settles, Sound
<1>4. n \in 1 .. Len(declined)
  BY <1>3, LenProperties
<1>5. PICK r : r = declined[n]
  OBVIOUS
<1>6. r.audit \in DOMAIN H /\ H[r.audit] = r.chan
  BY <1>3, <1>4, <1>5 DEF AllKnown, Known
<1>7. Tried(declined, acc, r.audit) <= 1 + MaxAttemptsFor(r.chan)
  BY <1>3, <1>6 DEF Attempts
<1>8. Count(acc.declined, r.audit) = 0 /\ Count(declined, r.audit) \in Nat
  BY <1>3, CountEmpty, PlacesFinite
<1>9. Tried(declined, acc, r.audit) = Count(declined, r.audit)
  BY <1>8 DEF Tried
<1> QED BY <1>5, <1>7, <1>9

\* Whatever the rows, the balances, the draws of the random lane and the schedule, no
\* row is lost, settled twice, retried for ever or handed on late
\* (ChronoReplayAccumulator::extendChunk, drainPending, takeSettledBefore).
THEOREM EveryFateExact == Spec => []FatesExact
<1>1. IndInv => FatesExact
  BY InvOneFate, InvNoLateRow, InvAttempts DEF FatesExact
<1> QED BY <1>1, InitInv, StepInv, PTL DEF Spec
-----------------------------------------------------------------------------
(* What rows move *)

\* What each row of s moves on account i.
Effects(s, i) == [n \in 1 .. Len(s) |-> Effect(s[n], i)]

\* A row moves a number.
LEMMA EffectInt ==
  ASSUME NEW r \in Postings, NEW i
  PROVE  Effect(r, i) \in Int
<1>1. r.amount \in Int
  BY DEF Postings
<1> QED BY <1>1 DEF Effect

\* The rows of a sequence move the sum of what each moves.
LEMMA MovesIs ==
  ASSUME NEW s \in Seq(Postings), NEW i
  PROVE  IsSum(Len(s), Effects(s, i), Moves(s, i)) /\ Moves(s, i) \in Int
<1>1. PICK N \in Nat : N = Len(s) /\ \A n \in 1 .. N : s[n] \in Postings
  BY LenProperties, ElementOfSeq
<1>2. PICK e : e = Effects(s, i)
  OBVIOUS
<1>3. e \in [1 .. N -> Int] /\ \A n \in 1 .. N : e[n] = Effect(s[n], i)
  <2>1. \A n \in 1 .. N : Effect(s[n], i) \in Int
    BY <1>1, EffectInt
  <2> QED BY <1>1, <1>2, <2>1 DEF Effects
<1>4. PICK h : SumRun(N, e, h)
  BY <1>3, SumRunExists
<1>5. /\ h \in [0 .. N -> Int] /\ h[0] = 0
      /\ \A n \in 1 .. N : h[n] = h[n - 1] + e[n]
  BY <1>4 DEF SumRun
<1> DEFINE Def(f) == f = [n \in 0 .. N |-> IF n = 0 THEN 0 ELSE f[n - 1] + Effect(s[n], i)]
           g == CHOOSE f : Def(f)
<1>6. Def(h)
  <2>1. ASSUME NEW n \in 0 .. N
        PROVE  h[n] = IF n = 0 THEN 0 ELSE h[n - 1] + Effect(s[n], i)
    <3>1. n = 0 \/ n \in 1 .. N
      OBVIOUS
    <3> QED BY <1>3, <1>5, <3>1
  <2>2. h = [n \in 0 .. N |-> h[n]]
    BY <1>5
  <2> QED BY <2>1, <2>2
<1>7. Def(g)
  <2> HIDE DEF Def
  <2> QED BY <1>6
<1>8. Moves(s, i) = g[N]
  BY <1>1 DEF Moves
<1> HIDE DEF g
<1>9. g[0] = 0 /\ \A n \in 1 .. N : g[n] = g[n - 1] + e[n]
  <2>1. ASSUME NEW n \in 1 .. N PROVE n \in 0 .. N /\ n # 0
    OBVIOUS
  <2> QED BY <1>3, <1>7, <2>1
<1> HIDE DEF Def
<1> DEFINE S == {n \in 0 .. N : g[n] = h[n]}
<1>10. 0 \in S
  BY <1>5, <1>9
<1>11. ASSUME NEW n \in 0 .. N - 1, n \in S PROVE n + 1 \in S
  <2>1. PICK m : m = n + 1
    OBVIOUS
  <2>2. m \in 1 .. N /\ m \in 0 .. N /\ m - 1 = n
    BY <2>1
  <2>3. g[m] = g[n] + e[m] /\ h[m] = h[n] + e[m]
    BY <1>5, <1>9, <2>2
  <2>4. g[n] = h[n]
    BY <1>11
  <2> QED BY <2>1, <2>2, <2>3, <2>4
<1> HIDE DEF S
<1>12. N \in S
  <2>1. 0 .. N \subseteq S
    BY <1>10, <1>11, BoundedInduction
  <2> QED BY <2>1
<1>13. Moves(s, i) = h[N]
  BY <1>8, <1>12 DEF S
<1>14. h[N] \in Int
  BY <1>5
<1> QED BY <1>1, <1>2, <1>4, <1>13, <1>14 DEF IsSum

\* Nothing else is that sum.
LEMMA MovesOnly ==
  ASSUME NEW s \in Seq(Postings), NEW i, NEW v, IsSum(Len(s), Effects(s, i), v)
  PROVE  Moves(s, i) = v
<1>1. PICK N \in Nat : N = Len(s)
  BY LenProperties
<1>2. PICK e : e = Effects(s, i)
  OBVIOUS
<1>3. PICK w : w = Moves(s, i)
  OBVIOUS
<1>4. IsSum(N, e, w) /\ IsSum(N, e, v)
  BY <1>1, <1>2, <1>3, MovesIs
<1>5. w = v
  BY <1>4, SumUnique
<1> QED BY <1>3, <1>5

\* No row moves nothing.
LEMMA MovesNone == \A i : Moves(<< >>, i) = 0
<1> SUFFICES ASSUME NEW i PROVE Moves(<< >>, i) = 0
  OBVIOUS
<1>1. PICK s \in Seq(Postings) : s = << >> /\ Len(s) = 0
  BY EmptySeq
<1>2. PICK e : e = Effects(s, i)
  OBVIOUS
<1>3. IsSum(0, e, 0)
  <2>1. \A n \in 1 .. 0 : e[n] = 0
    OBVIOUS
  <2> QED BY <2>1, SumZero
<1> QED BY <1>1, <1>2, <1>3, MovesOnly

\* One row moves what it moves.
LEMMA MovesOne ==
  ASSUME NEW r \in Postings, NEW i
  PROVE  Moves(<< r >>, i) = Effect(r, i)
<1>1. PICK s \in Seq(Postings) : s = Append(<< >>, r)
  BY EmptySeq, AppendProperties
<1>2. Len(s) = 1 /\ s[1] = r /\ s = << r >>
  <2>1. Len(<< >>) = 0 /\ << >> \in Seq(Postings)
    BY EmptySeq
  <2>2. Len(s) = Len(<< >>) + 1 /\ s[Len(<< >>) + 1] = r
    BY <1>1, <2>1, AppendProperties
  <2>3. Append(<< >>, r) = << r >>
    OBVIOUS
  <2> QED BY <1>1, <2>1, <2>2, <2>3
<1>3. PICK e : e = Effects(s, i)
  OBVIOUS
<1>4. PICK x \in Int : x = Effect(r, i)
  BY EffectInt
<1>5. e[1] = x
  BY <1>2, <1>3, <1>4 DEF Effects
<1>6. PICK f : f = [n \in 0 .. 1 |-> IF n = 0 THEN 0 ELSE x]
  OBVIOUS
<1>7. f \in [0 .. 1 -> Int] /\ f[0] = 0 /\ f[1] = x
  BY <1>6
<1>8. SumRun(1, e, f)
  <2>1. ASSUME NEW n \in 1 .. 1 PROVE e[n] \in Int /\ f[n] = f[n - 1] + e[n]
    <3>1. n = 1 /\ n - 1 = 0
      OBVIOUS
    <3> QED BY <1>5, <1>7, <3>1
  <2> QED BY <1>7, <2>1 DEF SumRun
<1>9. IsSum(1, e, x)
  BY <1>7, <1>8 DEF IsSum
<1> QED BY <1>1, <1>2, <1>3, <1>4, <1>9, MovesOnly

\* t is s with u after it.
Continues(t, s, u) ==
  /\ t \in Seq(Postings) /\ s \in Seq(Postings) /\ u \in Seq(Postings)
  /\ Len(t) = Len(s) + Len(u)
  /\ \A n \in 1 .. Len(s) : t[n] = s[n]
  /\ \A n \in 1 .. Len(u) : t[Len(s) + n] = u[n]

\* Two sequences put together move what both move.
LEMMA MovesContinued ==
  ASSUME NEW t, NEW s, NEW u, Continues(t, s, u), NEW i
  PROVE  Moves(t, i) = Moves(s, i) + Moves(u, i)
<1>1. t \in Seq(Postings) /\ s \in Seq(Postings) /\ u \in Seq(Postings)
  BY DEF Continues
<1>2. PICK M \in Nat, N \in Nat : M = Len(s) /\ N = Len(u)
  BY <1>1, LenProperties
<1>3. Len(t) = M + N
  BY <1>2 DEF Continues
<1>4. PICK g, h : g = Effects(s, i) /\ h = Effects(u, i)
  OBVIOUS
<1>5. PICK e : e = Effects(t, i)
  OBVIOUS
<1>6. \A n \in 1 .. M : e[n] = g[n]
  <2>1. \A n \in 1 .. M : n \in 1 .. M + N /\ t[n] = s[n]
    BY <1>2 DEF Continues
  <2> QED BY <1>2, <1>3, <1>4, <1>5, <2>1 DEF Effects
<1>7. \A n \in 1 .. N : e[M + n] = h[n]
  <2>1. \A n \in 1 .. N : M + n \in 1 .. M + N /\ t[M + n] = u[n]
    BY <1>2 DEF Continues
  <2> QED BY <1>2, <1>3, <1>4, <1>5, <2>1 DEF Effects
<1>8. PICK x, y : x = Moves(s, i) /\ y = Moves(u, i)
  OBVIOUS
<1>9. IsSum(M, g, x) /\ IsSum(N, h, y)
  BY <1>1, <1>2, <1>4, <1>8, MovesIs
<1>10. IsSum(M + N, e, x + y)
  BY <1>6, <1>7, <1>9, SumConcat
<1> QED BY <1>1, <1>3, <1>5, <1>8, <1>10, MovesOnly

\* Concatenation is such.
LEMMA MovesConcat ==
  ASSUME NEW s \in Seq(Postings), NEW u \in Seq(Postings), NEW i
  PROVE  Moves(s \o u, i) = Moves(s, i) + Moves(u, i)
<1>1. PICK t : t = s \o u
  OBVIOUS
<1>2. Continues(t, s, u)
  BY <1>1, ConcatProperties DEF Continues
<1> QED BY <1>1, <1>2, MovesContinued

\* So is a row more.
LEMMA MovesAppend ==
  ASSUME NEW s \in Seq(Postings), NEW r \in Postings, NEW i
  PROVE  Moves(Append(s, r), i) = Moves(s, i) + Effect(r, i)
<1>1. << r >> \in Seq(Postings)
  OBVIOUS
<1>2. Append(s, r) = s \o << r >>
  BY AppendIsConcat
<1>3. Moves(s \o << r >>, i) = Moves(s, i) + Moves(<< r >>, i)
  BY <1>1, MovesConcat
<1> QED BY <1>2, <1>3, MovesOne

\* The two parts of a sequence move what it moves.
LEMMA MovesSplit ==
  ASSUME NEW s \in Seq(Postings), NEW c \in 0 .. Len(s), NEW i
  PROVE  Moves(SubSeq(s, 1, c), i) + Moves(SubSeq(s, c + 1, Len(s)), i) = Moves(s, i)
<1>1. PICK N \in Nat : N = Len(s) /\ c \in 0 .. N
  BY LenProperties
<1>2. PICK e \in Int : e = 0
  OBVIOUS
<1>3. PICK t : t = SubSeq(s, e + 1, c)
  OBVIOUS
<1>4. PICK u : u = SubSeq(s, c + 1, N)
  OBVIOUS
<1>5. PartOf(t, s, e, c) /\ PartOf(u, s, c, N)
  <2>1. e \in 0 .. Len(s) /\ c \in e .. Len(s) /\ N \in c .. Len(s)
    BY <1>1, <1>2
  <2> QED BY <1>3, <1>4, <2>1, PartIs
<1>6. Continues(s, t, u)
  <2>1. /\ t \in Seq(Postings) /\ Len(t) = c - e /\ \A n \in 1 .. c - e : t[n] = s[e + n]
        /\ u \in Seq(Postings) /\ Len(u) = N - c /\ \A n \in 1 .. N - c : u[n] = s[c + n]
    BY <1>5 DEF PartOf
  <2>2. c - e = c /\ \A n \in 1 .. c : e + n = n
    BY <1>1, <1>2
  <2>3. Len(t) = c /\ \A n \in 1 .. c : t[n] = s[n]
    BY <2>1, <2>2
  <2>4. Len(s) = c + (N - c)
    BY <1>1
  <2> QED BY <2>1, <2>3, <2>4 DEF Continues
<1>7. t = SubSeq(s, 1, c)
  BY <1>2, <1>3
<1> QED BY <1>1, <1>4, <1>6, <1>7, MovesContinued

\* Sorting changes nothing of what rows move.
LEMMA MovesSorted ==
  ASSUME NEW s \in Seq(Postings), NEW i
  PROVE  Moves(SortForReplay(s), i) = Moves(s, i)
<1>1. PICK N \in Nat : N = Len(s) /\ \A n \in 1 .. N : s[n] \in Postings
  BY LenProperties, ElementOfSeq
<1>2. PICK R : R = ReplayOrder(s) /\ StrictOrder(R, 1 .. Len(s))
  BY ReplayOrderStrict
<1>3. PICK t \in Seq(Postings) : t = Arranged(s, R) /\ Len(t) = N
  BY <1>1, <1>2, ArrangedIs
<1>4. PICK p : Arranges(p, N, R) /\ \A j \in 1 .. N : t[j] = s[p[j]]
  BY <1>1, <1>2, <1>3, ArrangedIs
<1>5. /\ p \in [1 .. N -> 1 .. N]
      /\ \A m, n \in 1 .. N : p[m] = p[n] => m = n
      /\ \A m \in 1 .. N : \E n \in 1 .. N : p[n] = m
  BY <1>4 DEF Arranges
<1>6. PICK g, h : g = Effects(s, i) /\ h = Effects(t, i)
  OBVIOUS
<1>7. g \in [1 .. N -> Int]
  <2>1. \A n \in 1 .. N : Effect(s[n], i) \in Int
    BY <1>1, EffectInt
  <2> QED BY <1>1, <1>6, <2>1 DEF Effects
<1>8. \A n \in 1 .. N : h[n] = g[p[n]]
  <2>1. ASSUME NEW n \in 1 .. N PROVE h[n] = g[p[n]]
    <3>1. PICK m \in 1 .. N : m = p[n]
      BY <1>5
    <3>2. h[n] = Effect(t[n], i) /\ g[m] = Effect(s[m], i) /\ t[n] = s[m]
      BY <1>1, <1>3, <1>4, <1>6, <3>1 DEF Effects
    <3> QED BY <3>1, <3>2
  <2> QED BY <2>1
<1>9. PICK v : v = Moves(s, i)
  OBVIOUS
<1>10. IsSum(N, g, v)
  BY <1>1, <1>6, <1>9, MovesIs
<1>11. IsSum(N, h, v)
  BY <1>5, <1>7, <1>8, <1>10, SumPermuted
<1>12. Moves(t, i) = v
  BY <1>3, <1>6, <1>11, MovesOnly
<1> QED BY <1>2, <1>3, <1>9, <1>12 DEF SortForReplay
-----------------------------------------------------------------------------
(* What the bank charges *)

\* The fee rows of account i on day d.
Taps(a, i, d) == {u \in a.taps : u[1] = i /\ u[2] = d}

\* No day of account i has used up its budget.
InBudget(a, i) ==
  DailyCap > 0 /\ \A t \in a.taps : t[1] = i => Cardinality(Taps(a, i, t[2])) < DailyCap

\* The fee rows of a are among those of z.
MoreTaps(z, a) == IsFiniteSet(z.taps) /\ a.taps \subseteq z.taps

\* A budget that has been used up stays used up.
LEMMA BudgetShrinks ==
  ASSUME NEW z, NEW a, MoreTaps(z, a), NEW i, InBudget(z, i)
  PROVE  InBudget(a, i)
<1>1. ASSUME NEW t \in a.taps, t[1] = i PROVE Cardinality(Taps(a, i, t[2])) < DailyCap
  <2>1. t \in z.taps
    BY DEF MoreTaps
  <2>2. PICK A : A = Taps(a, i, t[2])
    OBVIOUS
  <2>3. PICK Z : Z = Taps(z, i, t[2])
    OBVIOUS
  <2>4. Z \in SUBSET z.taps /\ A \in SUBSET Z
    BY <2>2, <2>3 DEF Taps, MoreTaps
  <2>5. IsFiniteSet(Z)
    BY <2>4, FS_Subset DEF MoreTaps
  <2>6. IsFiniteSet(A) /\ Cardinality(A) <= Cardinality(Z)
    BY <2>4, <2>5, FS_Subset
  <2>7. Cardinality(Z) \in Nat /\ Cardinality(A) \in Nat
    BY <2>5, <2>6, FS_CardinalityType
  <2>8. Cardinality(Z) < DailyCap
    BY <1>1, <2>1, <2>3 DEF InBudget
  <2>9. DailyCap \in Nat
    BY ReplayAssumption
  <2> QED BY <2>2, <2>6, <2>7, <2>8, <2>9
<1> QED BY <1>1 DEF InBudget

\* What event e takes from account i.
Charge(e, i) == IF e.acct = i THEN e.amount ELSE 0

\* Event e is a row of z that moves what it takes, unless it is a fee over the budget.
Takes(z, a, e) ==
  /\ MoreTaps(z, a)
  /\ \/ \A i \in Accounts : Moves(z.txns, i) = Moves(a.txns, i) - Charge(e, i)
     \/ z = a /\ e.chan = "overdraftFee" /\ ~InBudget(a, e.acct)

\* So does every charge.
LEMMA ChargeMoves ==
  ASSUME NEW a, IsAcc(a), a.txns \in Seq(Postings), IsFiniteSet(a.taps),
         NEW t \in Int, NEW e \in EventsAt(t), NEW z, z = OnLiquidityEvent(a, e)
  PROVE  Takes(z, a, e)
<1>1. PICK row : row = [src |-> e.acct, dst |-> IncomeAccountFor(e.chan), amount |-> e.amount,
                        chan |-> e.chan, audit |-> 0,
                        ts |-> e.ts + IF e.chan = "overdraftFee" THEN 1 ELSE 0]
  OBVIOUS
<1>2. e.acct \in Int /\ e.amount \in Int /\ e.chan \in Channels /\ e.ts = t
  BY ChannelsAssumption DEF EventsAt
<1>3. IncomeAccountFor(e.chan) \in Int /\ IncomeAccountFor(e.chan) \notin Accounts
  BY ClearingAssumption DEF IncomeAccountFor, Accounts
<1>4. row \in Postings
  <2>1. row.ts \in Int
    BY <1>1, <1>2
  <2> QED BY <1>1, <1>2, <1>3, <2>1 DEF Postings
<1>5. ASSUME NEW i \in Accounts
      PROVE  Moves(Append(a.txns, row), i) = Moves(a.txns, i) - Charge(e, i)
  <2>1. Moves(Append(a.txns, row), i) = Moves(a.txns, i) + Effect(row, i)
    BY <1>4, MovesAppend
  <2>2. row.dst # i /\ row.src = e.acct /\ row.amount = e.amount
    BY <1>1, <1>3
  <2>3. Effect(row, i) = 0 - Charge(e, i)
    BY <2>2 DEF Effect, Charge
  <2>4. Moves(a.txns, i) \in Int
    BY MovesIs
  <2>5. Charge(e, i) \in Int
    BY <1>2 DEF Charge
  <2> QED BY <2>1, <2>3, <2>4, <2>5
<1>6. CASE FeeBudgetAllows(a, e)
  <2>1. PICK new : new = <<e.acct, e.ts \div DayLength, Cardinality(FeeTapsToday(a, e))>>
    OBVIOUS
  <2>2. PICK taps : taps = IF e.chan = "overdraftFee" THEN a.taps \cup {new} ELSE a.taps
    OBVIOUS
  <2>3. IsFiniteSet(taps) /\ a.taps \subseteq taps
    BY <2>2, FS_AddElement
  <2>4. PICK txns : txns = Append(a.txns, row)
    OBVIOUS
  <2>5. z = [a EXCEPT !.txns = txns, !.taps = taps]
    BY <1>1, <1>6, <2>1, <2>2, <2>4 DEF OnLiquidityEvent
  <2>6. z.txns = txns /\ z.taps = taps
    BY <2>5 DEF IsAcc, AccFields
  <2> QED BY <1>5, <2>3, <2>4, <2>6 DEF MoreTaps, Takes
<1>7. CASE ~FeeBudgetAllows(a, e)
  <2>1. z = a
    BY <1>7 DEF OnLiquidityEvent
  <2>2. PICK d : d = e.ts \div DayLength
    OBVIOUS
  <2>3. PICK T : T = Taps(a, e.acct, d)
    OBVIOUS
  <2>4. e.chan = "overdraftFee" /\ ~(Cardinality(T) < DailyCap)
    BY <1>7, <2>2, <2>3 DEF FeeBudgetAllows, FeeTapsToday, Taps
  <2>5. ~InBudget(a, e.acct)
    <3>1. CASE T = {}
      <4>1. Cardinality(T) = 0
        BY <3>1, FS_EmptySet
      <4> QED BY <2>4, <4>1 DEF InBudget
    <3>2. CASE T # {}
      <4>1. PICK u \in a.taps : u[1] = e.acct /\ u[2] = d
        BY <2>3, <3>2 DEF Taps
      <4> QED BY <2>3, <2>4, <4>1 DEF InBudget
    <3> QED BY <3>1, <3>2
  <2> QED BY <2>1, <2>4, <2>5 DEF MoreTaps, Takes
<1> QED BY <1>6, <1>7

\* The accounts billed at instant t, and what each pays.
Billed(b, t) ==
  {i \in DueSlots(b, t) : b.lastBill[i] # 0 /\ InterestOf(b, i, t) > 0}
Interest(b, t, i) == IF b.emit /\ i \in Billed(b, t) THEN InterestOf(b, i, t) ELSE 0

\* bills charges every account billed, and each once.
Bills(bills, b, t) ==
  /\ \A n \in 1 .. Len(bills) :
       /\ bills[n].acct \in Billed(b, t) /\ bills[n].chan = "locInterest"
       /\ bills[n].amount = InterestOf(b, bills[n].acct, t)
  /\ \A m, n \in 1 .. Len(bills) : bills[m].acct = bills[n].acct => m = n
  /\ \A i \in Billed(b, t) : \E n \in 1 .. Len(bills) : bills[n].acct = i

\* So does what a sweep matures.
LEMMA MaturedIs ==
  ASSUME NEW b, NEW t
  PROVE  Bills(Matured(b, t), b, t)
<1>1. PICK S : S = Billed(b, t)
  OBVIOUS
<1>2. S \in SUBSET (0 .. NumAccounts) /\ S \subseteq Accounts /\ NumAccounts \in Nat
  BY <1>1, ClearingAssumption DEF Billed, DueSlots, Accounts
<1>3. PICK N \in Nat : N = Cardinality(S)
  BY <1>2, FiniteUpTo
<1> DEFINE Slot(n) == CHOOSE x \in S : Cardinality(Below(S, x)) = n - 1
<1>4. PICK M : M = [n \in 1 .. N |-> [acct |-> Slot(n), amount |-> InterestOf(b, Slot(n), t),
                                      chan |-> "locInterest", ts |-> t]]
  OBVIOUS
<1>5. M = Matured(b, t)
  BY <1>1, <1>3, <1>4 DEF Matured, Below, Billed
<1>6. ASSUME NEW n \in 1 .. N PROVE Slot(n) \in S /\ Cardinality(Below(S, Slot(n))) = n - 1
  <2>1. \E x \in S : Cardinality(Below(S, x)) = n - 1
    BY <1>2, <1>3, Ranked
  <2> QED BY <2>1
<1> HIDE DEF Slot
<1>7. Len(M) = N
  BY <1>4
<1>8. ASSUME NEW n \in 1 .. N
      PROVE  /\ M[n].acct \in S /\ M[n].chan = "locInterest"
             /\ M[n].amount = InterestOf(b, M[n].acct, t)
  BY <1>4, <1>6
<1>9. ASSUME NEW m \in 1 .. N, NEW n \in 1 .. N, M[m].acct = M[n].acct PROVE m = n
  <2>1. Slot(m) = Slot(n)
    BY <1>4, <1>9
  <2>2. m - 1 = n - 1
    BY <1>6, <2>1
  <2> QED BY <2>2
<1>10. ASSUME NEW i \in S PROVE \E n \in 1 .. N : M[n].acct = i
  <2>1. PICK n \in 1 .. N : n = Cardinality(Below(S, i)) + 1
    BY <1>2, <1>3, RankRange
  <2>2. Cardinality(Below(S, i)) \in Nat
    <3>1. Below(S, i) \in SUBSET (0 .. NumAccounts)
      BY <1>2, FiniteUpTo
    <3> QED BY <1>2, <3>1, FiniteUpTo
  <2>3. Slot(n) \in S /\ Cardinality(Below(S, Slot(n))) = Cardinality(Below(S, i))
    BY <1>6, <2>1, <2>2
  <2>4. Slot(n) = i
    BY <1>2, <2>3, RankUnique
  <2> QED BY <1>4, <2>4
<1>11. Bills(M, b, t)
  BY <1>1, <1>7, <1>8, <1>9, <1>10 DEF Bills
<1> QED BY <1>5, <1>11

\* Interest is taken from the balance it is charged to, and becomes rows.
LEMMA AccruedCash ==
  ASSUME NEW b, IsBook(b), NEW t \in Int, NEW i \in Accounts
  PROVE  Accrue(b, t).cash[i] = b.cash[i] - Interest(b, t, i) /\ Interest(b, t, i) \in Int
<1>1. b.cash[i] \in Int /\ InterestOf(b, i, t) \in Int
  BY AccruedInt DEF IsBook
<1>2. Interest(b, t, i) \in Int
  BY <1>1 DEF Interest
<1>3. PICK c : c = Swept(b, t)
  OBVIOUS
<1>4. c.cash = b.cash /\ c = [x \in BookFields |-> c[x]]
  <2> DEFINE due == DueSlots(b, t)
  <2>1. PICK f1, f2, f3, f4, f5 :
          c = [b EXCEPT !.integral = f1, !.lastUpd = f2, !.lastBill = f3, !.queued = f4, !.queue = f5]
    BY <1>3 DEF Swept
  <2> QED BY <2>1 DEF IsBook, BookFields
<1>5. CASE ~b.emit
  <2>1. Accrue(b, t) = c
    BY <1>3, <1>5 DEF Accrue
  <2>2. Interest(b, t, i) = 0
    BY <1>5 DEF Interest
  <2> QED BY <1>1, <1>2, <1>4, <2>1, <2>2
<1>6. CASE b.emit
  <2>1. PICK cash : cash = [j \in Accounts |->
             b.cash[j] - IF j \in DueSlots(b, t) /\ b.lastBill[j] # 0 /\ InterestOf(b, j, t) > 0
                         THEN InterestOf(b, j, t) ELSE 0]
    OBVIOUS
  <2>2. Accrue(b, t) = [c EXCEPT !.cash = cash]
    BY <1>3, <1>6, <2>1 DEF Accrue
  <2>3. Accrue(b, t).cash = cash
    BY <1>4, <2>2 DEF BookFields
  <2>4. cash[i] = b.cash[i] - Interest(b, t, i)
    BY <1>6, <2>1 DEF Interest, Billed
  <2> QED BY <1>2, <2>3, <2>4
<1> QED BY <1>5, <1>6

\* The interest rows of a sweep move what it takes from the balances.
LEMMA InterestMoves ==
  ASSUME NEW a, IsAcc(a), a.txns \in Seq(Postings), IsFiniteSet(a.taps),
         NEW b, IsBook(b), NEW lo \in Int, NoneBefore(a.txns, lo), NEW t \in Int, lo <= t,
         NEW z, z = OnLiquidityEvents(a, AccrueEvents(b, t))
  PROVE  /\ MoreTaps(z, a)
         /\ \A i \in Accounts : Moves(z.txns, i) = Moves(a.txns, i) - Interest(b, t, i)
<1>1. PICK bills \in Seq(EventsAt(t)) : bills = AccrueEvents(b, t)
  BY AccrueIs
<1>2. PICK N \in Nat : N = Len(bills) /\ \A n \in 1 .. N : bills[n] \in EventsAt(t)
  BY LenProperties, ElementOfSeq
<1>3. PICK g : Charging(g, a, bills, N)
  BY <1>2, ChargesRun
<1>4. \A i \in Accounts : Moves(a.txns, i) \in Int /\ InterestOf(b, i, t) \in Int
  BY MovesIs, AccruedInt
<1>5. /\ \A n \in 1 .. N : /\ bills[n].acct \in Accounts /\ bills[n].chan = "locInterest"
                           /\ bills[n].amount = InterestOf(b, bills[n].acct, t)
      /\ \A m, n \in 1 .. N : bills[m].acct = bills[n].acct => m = n
      /\ \A i \in Accounts : Interest(b, t, i) =
           IF \E n \in 1 .. N : bills[n].acct = i THEN InterestOf(b, i, t) ELSE 0
  <2>1. CASE b.emit
    <3>1. bills = Matured(b, t)
      BY <1>1, <2>1 DEF AccrueEvents
    <3>2. Bills(bills, b, t)
      BY <3>1, MaturedIs
    <3>3. \A i \in Billed(b, t) : i \in Accounts
      BY DEF Billed, DueSlots
    <3> QED BY <1>2, <2>1, <3>2, <3>3 DEF Bills, Interest
  <2>2. CASE ~b.emit
    <3>1. N = 0
      BY <1>1, <1>2, <2>2, EmptySeq DEF AccrueEvents
    <3> QED BY <2>2, <3>1 DEF Interest
  <2> QED BY <2>1, <2>2
<1> DEFINE Paid(i, n) == IF \E m \in 1 .. n : bills[m].acct = i THEN InterestOf(b, i, t) ELSE 0
           Good(c, n) == /\ OnlyCharges(c, a, lo) /\ MoreTaps(c, a)
                         /\ \A i \in Accounts : Moves(c.txns, i) = Moves(a.txns, i) - Paid(i, n)
           S == {n \in 0 .. N : Good(g[n], n)}
<1>6. 0 \in S
  <2>1. \A i \in Accounts : Paid(i, 0) = 0
    OBVIOUS
  <2>2. OnlyCharges(a, a, lo) /\ MoreTaps(a, a)
    BY DEF OnlyCharges, MoreTaps
  <2>3. \A i \in Accounts : Moves(a.txns, i) = Moves(a.txns, i) - Paid(i, 0)
    <3> HIDE DEF Paid
    <3> QED BY <1>4, <2>1
  <2>4. g[0] = a
    BY <1>3 DEF Charging
  <2> HIDE DEF Paid
  <2> QED BY <2>2, <2>3, <2>4
<1>7. ASSUME NEW n \in 0 .. N - 1, n \in S PROVE n + 1 \in S
  <2>1. n + 1 \in 0 .. N /\ n + 1 \in 1 .. N
    OBVIOUS
  <2>2. PICK c : c = g[n] /\ Good(c, n)
    BY <1>7
  <2>3. PICK e \in EventsAt(t) : e = bills[n + 1]
    BY <1>2, <2>1
  <2>4. PICK d : d = OnLiquidityEvent(c, e) /\ d = g[n + 1]
    BY <1>3, <2>2, <2>3 DEF Charging
  <2>5. IsAcc(c) /\ c.txns \in Seq(Postings) /\ NoneBefore(c.txns, lo) /\ IsFiniteSet(c.taps)
    BY <2>2 DEF OnlyCharges, MoreTaps
  <2>6. OnlyCharges(d, a, lo)
    <3>1. OnlyCharges(d, c, lo)
      BY <2>4, <2>5, ChargeIs
    <3> QED BY <2>2, <3>1 DEF OnlyCharges
  <2>7. /\ MoreTaps(d, c)
        /\ \A i \in Accounts : Moves(d.txns, i) = Moves(c.txns, i) - Charge(e, i)
    <3>1. e.chan # "overdraftFee"
      BY <1>5, <2>1, <2>3
    <3>2. Takes(d, c, e)
      BY <2>4, <2>5, ChargeMoves
    <3> QED BY <3>1, <3>2 DEF Takes
  <2>8. MoreTaps(d, a)
    BY <2>2, <2>7 DEF MoreTaps
  <2>9. ASSUME NEW i \in Accounts
        PROVE  Moves(d.txns, i) = Moves(a.txns, i) - Paid(i, n + 1)
    <3>1. PICK x \in Int : x = InterestOf(b, i, t)
      BY <1>4
    <3>2. Paid(i, n) \in Int /\ Moves(a.txns, i) \in Int
      BY <1>4, <3>1
    <3>3. Paid(i, n + 1) = Paid(i, n) + Charge(e, i)
      <4>1. \A m \in 1 .. n + 1 : m \in 1 .. n \/ m = n + 1
        OBVIOUS
      <4>2. \A m \in 1 .. n : m \in 1 .. N /\ m # n + 1 /\ m \in 1 .. n + 1
        OBVIOUS
      <4>3. CASE e.acct = i
        <5>1. ~\E m \in 1 .. n : bills[m].acct = i
          BY <1>5, <2>1, <2>3, <4>2, <4>3
        <5>2. \E m \in 1 .. n + 1 : bills[m].acct = i
          BY <2>1, <2>3, <4>3
        <5>3. Charge(e, i) = x
          BY <1>5, <2>1, <2>3, <3>1, <4>3 DEF Charge
        <5> QED BY <3>1, <5>1, <5>2, <5>3
      <4>4. CASE e.acct # i
        <5>1. (\E m \in 1 .. n + 1 : bills[m].acct = i) <=> (\E m \in 1 .. n : bills[m].acct = i)
          BY <2>3, <4>1, <4>2, <4>4
        <5>2. Charge(e, i) = 0
          BY <4>4 DEF Charge
        <5> QED BY <3>1, <5>1, <5>2
      <4> QED BY <4>3, <4>4
    <3>4. Charge(e, i) \in Int
      BY DEF Charge, EventsAt
    <3>5. Moves(d.txns, i) = (Moves(a.txns, i) - Paid(i, n)) - Charge(e, i)
      BY <2>2, <2>7
    <3> HIDE DEF Paid
    <3> QED BY <3>2, <3>3, <3>4, <3>5
  <2>10. Good(d, n + 1)
    BY <2>6, <2>8, <2>9
  <2> HIDE DEF Good
  <2> QED BY <2>1, <2>4, <2>10
<1> HIDE DEF S
<1>8. N \in S
  <2>1. 0 .. N \subseteq S
    BY <1>6, <1>7, BoundedInduction
  <2> QED BY <2>1
<1>9. Good(z, N)
  <2>1. z = g[N]
    BY <1>1, <1>3 DEF Charging
  <2> HIDE DEF Good
  <2> QED BY <1>8, <2>1 DEF S
<1> QED BY <1>5, <1>9

\* The fee a posting costs account i.
FeeOf(b, p, i) == IF Charged(b, p) /\ i = p.src THEN b.fee[i] ELSE 0

\* A posting moves what its row says and takes the fee, or moves nothing.
LEMMA TransferCash ==
  ASSUME NEW b, IsBook(b), NEW p \in Postings, NEW i \in Accounts
  PROVE  /\ TransferAt(b, p).cash[i]
              = b.cash[i] + (IF Decision(b, p) = "accepted" THEN Effect(p, i) ELSE 0) - FeeOf(b, p, i)
         /\ FeeOf(b, p, i) \in Nat /\ b.cash[i] \in Int
<1>1. p.ts \in Int /\ p.amount \in Int
  BY DEF Postings
<1>2. b.cash[i] \in Int /\ b.fee[i] \in Int
  BY DEF IsBook
<1>3. FeeOf(b, p, i) \in Nat
  <2>1. Charged(b, p) => b.fee[p.src] > 0
    BY DEF Charged, FeeFires
  <2> QED BY <1>2, <2>1 DEF FeeOf
<1>4. PICK c : c = Rolled(b, p)
  OBVIOUS
<1>5. IsBook(c) /\ c.cash = b.cash
  <2>1. PICK u : u = Update(b, p.src, p.ts)
    OBVIOUS
  <2>2. IsBook(u) /\ u.cash = b.cash
    BY <1>1, <2>1, UpdateIs
  <2>3. IsBook(Update(u, p.dst, p.ts)) /\ Update(u, p.dst, p.ts).cash = b.cash
    BY <1>1, <2>2, UpdateIs
  <2> QED BY <1>4, <2>1, <2>3 DEF Rolled
<1>6. CASE Decision(b, p) # "accepted"
  <2>1. TransferAt(b, p) = c
    BY <1>4, <1>6 DEF TransferAt
  <2>2. FeeOf(b, p, i) = 0
    BY <1>6 DEF FeeOf, Charged
  <2> QED BY <1>2, <1>3, <1>5, <1>6, <2>1, <2>2
<1>7. CASE Decision(b, p) = "accepted"
  <2>1. PICK m : m = Moved(b, p)
    OBVIOUS
  <2>2. /\ m[i] = b.cash[i] - (IF i = p.src THEN p.amount ELSE 0) + (IF i = p.dst THEN p.amount ELSE 0)
        /\ m = [j \in Accounts |-> m[j]]
    BY <2>1 DEF Moved
  <2>3. PICK cash : cash = IF Charged(b, p) THEN [m EXCEPT ![p.src] = @ - b.fee[p.src]] ELSE m
    OBVIOUS
  <2>4. TransferAt(b, p) = [c EXCEPT !.cash = cash]
    BY <1>4, <1>7, <2>1, <2>3 DEF TransferAt
  <2>5. TransferAt(b, p).cash = cash
    BY <1>5, <2>4 DEF IsBook, BookFields
  <2>6. cash[i] = m[i] - FeeOf(b, p, i)
    <3>1. m[i] \in Int
      BY <1>1, <1>2, <2>2
    <3> QED BY <1>2, <2>2, <2>3, <3>1 DEF FeeOf
  <2>7. Effect(p, i) \in Int
    BY EffectInt
  <2>8. m[i] = b.cash[i] + Effect(p, i)
    BY <1>1, <1>2, <2>2 DEF Effect
  <2> QED BY <1>2, <1>3, <1>7, <2>5, <2>6, <2>7, <2>8
<1> QED BY <1>6, <1>7

\* The rows of z move x less on account i than those of a, or after a fee over the
\* budget not as much less.
Pays(z, a, i, x) ==
  /\ Moves(z.txns, i) >= Moves(a.txns, i) - x
  /\ InBudget(z, i) => Moves(z.txns, i) = Moves(a.txns, i) - x

\* The fee becomes a row, unless the budget is used up.
LEMMA FeeMoves ==
  ASSUME NEW a, IsAcc(a), a.txns \in Seq(Postings), IsFiniteSet(a.taps),
         NEW b, IsBook(b), NEW p \in Postings, NEW z, z = OnLiquidityEvents(a, TransferEvents(b, p))
  PROVE  MoreTaps(z, a) /\ \A i \in Accounts : Pays(z, a, i, FeeOf(b, p, i))
<1>1. PICK events : events = TransferEvents(b, p)
  OBVIOUS
<1>2. \A i \in Accounts : Moves(a.txns, i) \in Int /\ FeeOf(b, p, i) \in Nat
  BY MovesIs, TransferCash
<1>3. CASE ~Charged(b, p)
  <2>1. PICK N \in Nat : N = 0 /\ N = Len(events)
    BY <1>1, <1>3, EmptySeq DEF TransferEvents
  <2>2. PICK g : Charging(g, a, events, N)
    BY <2>1, ChargesRun
  <2>3. z = a
    BY <1>1, <2>1, <2>2 DEF Charging
  <2>4. \A i : FeeOf(b, p, i) = 0
    BY <1>3 DEF FeeOf
  <2> QED BY <1>2, <2>3, <2>4 DEF MoreTaps, Pays
<1>4. CASE Charged(b, p)
  <2>1. p.src \in Accounts /\ p.ts \in Int
    BY <1>4 DEF Charged, Postings
  <2>2. p.src \in Int /\ b.fee[p.src] \in Int
    BY <2>1, ClearingAssumption DEF Accounts, IsBook
  <2>3. PICK e : e = [acct |-> p.src, amount |-> b.fee[p.src], chan |-> "overdraftFee", ts |-> p.ts]
    OBVIOUS
  <2>4. e \in EventsAt(p.ts) /\ e.acct = p.src /\ e.amount = b.fee[p.src]
    BY <2>2, <2>3 DEF EventsAt
  <2>5. events = << e >>
    BY <1>1, <1>4, <2>3 DEF TransferEvents
  <2>6. PICK N \in Nat : N = 1 /\ N = Len(events)
    <3>1. Len(<< e >>) = 1
      OBVIOUS
    <3> QED BY <2>5, <3>1
  <2>7. PICK g : Charging(g, a, events, N)
    BY <2>6, ChargesRun
  <2>8. z = OnLiquidityEvent(a, e)
    <3>1. z = g[N] /\ g[0] = a
      BY <1>1, <2>7 DEF Charging
    <3>2. PICK n \in 0 .. N - 1 : n = 0 /\ n + 1 = 1
      BY <2>6
    <3>3. g[n + 1] = OnLiquidityEvent(g[n], events[n + 1])
      BY <2>7 DEF Charging
    <3>4. events[1] = e
      BY <2>5
    <3> QED BY <2>6, <3>1, <3>2, <3>3, <3>4
  <2>9. Takes(z, a, e)
    BY <2>1, <2>4, <2>8, ChargeMoves
  <2>10. \A i \in Accounts : Charge(e, i) = FeeOf(b, p, i)
    BY <1>4, <2>4 DEF Charge, FeeOf
  <2>11. CASE \A i \in Accounts : Moves(z.txns, i) = Moves(a.txns, i) - Charge(e, i)
    <3>1. ASSUME NEW i \in Accounts PROVE Pays(z, a, i, FeeOf(b, p, i))
      BY <1>2, <2>10, <2>11 DEF Pays
    <3> QED BY <2>9, <3>1 DEF Takes
  <2>12. CASE z = a /\ ~InBudget(a, e.acct)
    <3>1. ASSUME NEW i \in Accounts PROVE Pays(z, a, i, FeeOf(b, p, i))
      <4>1. CASE i = p.src
        BY <1>2, <2>4, <2>12, <4>1 DEF Pays
      <4>2. CASE i # p.src
        <5>1. FeeOf(b, p, i) = 0
          BY <4>2 DEF FeeOf
        <5> QED BY <1>2, <2>12, <5>1 DEF Pays
      <4> QED BY <4>1, <4>2
    <3> QED BY <2>9, <3>1 DEF Takes
  <2> QED BY <2>9, <2>11, <2>12 DEF Takes
<1> QED BY <1>3, <1>4

\* What the balance of account i is above what the rows of a move.
Gap(a, i) == a.book.cash[i] - Moves(a.txns, i)

\* From a to z the gap of account i grows by x, or after a fee over the budget by less.
Grows(z, a, i, x) ==
  /\ Gap(z, i) <= Gap(a, i) + x
  /\ InBudget(z, i) => Gap(z, i) = Gap(a, i) + x

\* A gap is a number.
LEMMA GapInt ==
  ASSUME NEW a, IsBook(a.book), a.txns \in Seq(Postings), NEW i \in Accounts
  PROVE  Gap(a, i) \in Int /\ a.book.cash[i] \in Int /\ Moves(a.txns, i) \in Int
<1>1. a.book.cash[i] \in Int
  BY DEF IsBook
<1>2. Moves(a.txns, i) \in Int
  BY MovesIs
<1> QED BY <1>1, <1>2 DEF Gap

\* Interest and fee are rows: what is left to explain is the row itself, if it settles.
LEMMA PostedMoves ==
  ASSUME NEW a, IsAcc(a), IsBook(a.book), a.txns \in Seq(Postings), IsFiniteSet(a.taps),
         NEW lo \in Int, NoneBefore(a.txns, lo), NEW r \in Postings, lo <= r.ts,
         NEW b, b = [OnLiquidityEvents(a, AccrueEvents(a.book, r.ts)) EXCEPT !.book = Accrue(@, r.ts)],
         NEW c, c = [OnLiquidityEvents(b, TransferEvents(b.book, r)) EXCEPT !.book = TransferAt(@, r)]
  PROVE  /\ MoreTaps(c, a)
         /\ \A i \in Accounts :
              Grows(c, a, i, IF Decision(b.book, r) = "accepted" THEN Effect(r, i) ELSE 0)
<1>1. r.ts \in Int
  BY DEF Postings
<1>2. PICK x : x = OnLiquidityEvents(a, AccrueEvents(a.book, r.ts))
  OBVIOUS
<1>3. OnlyCharges(x, a, lo)
  <2>1. AccrueEvents(a.book, r.ts) \in Seq(EventsAt(r.ts))
    BY <1>1, AccrueIs
  <2> QED BY <1>1, <1>2, <2>1, ChargesAre
<1>4. PICK book : book = Accrue(a.book, r.ts) /\ IsBook(book)
  BY <1>1, AccrueIs
<1>5. b = [x EXCEPT !.book = book]
  BY <1>2, <1>3, <1>4 DEF OnlyCharges
<1>6. IsAcc(b) /\ b.book = book /\ b.txns = x.txns /\ b.taps = x.taps
  <2>1. IsAcc(x)
    BY <1>3 DEF OnlyCharges
  <2> QED BY <1>5, <2>1 DEF IsAcc, AccFields
<1>7. PICK y : y = OnLiquidityEvents(b, TransferEvents(b.book, r))
  OBVIOUS
<1>8. b.txns \in Seq(Postings) /\ NoneBefore(b.txns, lo)
  BY <1>3, <1>6 DEF OnlyCharges
<1>9. OnlyCharges(y, b, lo)
  <2>1. TransferEvents(b.book, r) \in Seq(EventsAt(r.ts))
    BY <1>4, <1>6, TransferIs
  <2> QED BY <1>1, <1>6, <1>7, <1>8, <2>1, ChargesAre
<1>10. PICK after : after = TransferAt(b.book, r) /\ IsBook(after)
  BY <1>4, <1>6, TransferIs
<1>11. c.book = after /\ c.txns = y.txns /\ c.taps = y.taps
  <2>1. IsAcc(y)
    BY <1>9 DEF OnlyCharges
  <2>2. c = [y EXCEPT !.book = after]
    BY <1>7, <1>9, <1>10 DEF OnlyCharges
  <2> QED BY <2>1, <2>2 DEF IsAcc, AccFields
<1>12. /\ MoreTaps(x, a)
       /\ \A i \in Accounts : Moves(x.txns, i) = Moves(a.txns, i) - Interest(a.book, r.ts, i)
  BY <1>1, <1>2, InterestMoves
<1>13. MoreTaps(y, b) /\ \A i \in Accounts : Pays(y, b, i, FeeOf(b.book, r, i))
  <2>1. IsFiniteSet(b.taps)
    BY <1>6, <1>12 DEF MoreTaps
  <2> QED BY <1>4, <1>6, <1>7, <1>8, <2>1, FeeMoves
<1>14. MoreTaps(c, a)
  BY <1>6, <1>11, <1>12, <1>13 DEF MoreTaps
<1>15. ASSUME NEW i \in Accounts, NEW g,
              g = IF Decision(b.book, r) = "accepted" THEN Effect(r, i) ELSE 0
       PROVE  Grows(c, a, i, g)
  <2>1. PICK p : p = Interest(a.book, r.ts, i)
    OBVIOUS
  <2>2. PICK q : q = FeeOf(b.book, r, i)
    OBVIOUS
  <2>3. b.book.cash[i] = a.book.cash[i] - p /\ p \in Int
    <3>1. /\ Accrue(a.book, r.ts).cash[i] = a.book.cash[i] - Interest(a.book, r.ts, i)
          /\ Interest(a.book, r.ts, i) \in Int
      BY <1>1, AccruedCash
    <3> QED BY <1>4, <1>6, <2>1, <3>1
  <2>4. c.book.cash[i] = b.book.cash[i] + g - q /\ q \in Int
    BY <1>4, <1>6, <1>10, <1>11, <1>15, <2>2, TransferCash
  <2>5. Moves(b.txns, i) = Moves(a.txns, i) - p
    BY <1>6, <1>12, <2>1
  <2>6. /\ Moves(c.txns, i) >= Moves(b.txns, i) - q
        /\ InBudget(y, i) => Moves(c.txns, i) = Moves(b.txns, i) - q
    BY <1>11, <1>13, <2>2 DEF Pays
  <2>7. InBudget(c, i) <=> InBudget(y, i)
    BY <1>11 DEF InBudget, Taps
  <2>8. c.txns \in Seq(Postings)
    BY <1>9, <1>11 DEF OnlyCharges
  <2>9. a.book.cash[i] \in Int /\ Moves(a.txns, i) \in Int /\ Moves(c.txns, i) \in Int
    BY <2>8, GapInt, MovesIs
  <2>10. g \in Int
    BY <1>15, EffectInt
  <2>11. PICK u \in Int, v \in Int, w \in Int :
           u = a.book.cash[i] /\ v = Moves(a.txns, i) /\ w = Moves(c.txns, i)
    BY <2>9
  <2>12. Gap(a, i) = u - v /\ Gap(c, i) = (u - p + g - q) - w
    BY <2>3, <2>4, <2>11 DEF Gap
  <2>13. w >= (v - p) - q /\ (InBudget(c, i) => w = (v - p) - q)
    BY <2>5, <2>6, <2>7, <2>11
  <2> QED BY <2>3, <2>4, <2>10, <2>12, <2>13 DEF Grows
<1> QED BY <1>14, <1>15

\* Every change of the book from a to z is a row of z, but for fees over the budget.
Explains(z, a) == MoreTaps(z, a) /\ \A i \in Accounts : Grows(z, a, i, 0)

\* An unfunded row changes neither the book nor the rows.
LEMMA UnfundedTaps ==
  ASSUME NEW c, IsAcc(c), NEW item, NEW z, z = Unfunded(c, item)
  PROVE  z.txns = c.txns /\ z.book = c.book /\ z.taps = c.taps
<1>1. PICK r : r = item.row
  OBVIOUS
<1>2. PICK q : q = ResolveRetryTimestamp(c, r, item.tries)
  OBVIOUS
<1>3. PICK b : b = [c EXCEPT !.declined = Append(@, r), !.draws = q.draws]
  OBVIOUS
<1>4. IsAcc(b) /\ b.txns = c.txns /\ b.book = c.book /\ b.taps = c.taps
  BY <1>3 DEF IsAcc, AccFields
<1>5. PICK new : new = [ts |-> q.ts, late |-> 1, seq |-> c.retry, tries |-> item.tries + 1,
                        row |-> [r EXCEPT !.ts = q.ts]]
  OBVIOUS
<1>6. z = IF q.ts = 0 THEN Dropped(b, TerminalReason(r.chan), r)
          ELSE IF item.tries + 1 > MaxAttemptsFor(r.chan) THEN Dropped(b, "exhausted", r)
          ELSE [b EXCEPT !.pending = @ \cup {new}, !.retry = @ + 1]
  BY <1>1, <1>2, <1>3, <1>5 DEF Unfunded
<1>7. \A why : /\ Dropped(b, why, r).txns = b.txns /\ Dropped(b, why, r).book = b.book
               /\ Dropped(b, why, r).taps = b.taps
  BY <1>4 DEF Dropped, IsAcc, AccFields
<1>8. PICK d : d = [b EXCEPT !.pending = @ \cup {new}, !.retry = @ + 1]
  OBVIOUS
<1>9. d.txns = b.txns /\ d.book = b.book /\ d.taps = b.taps
  BY <1>4, <1>8 DEF IsAcc, AccFields
<1> QED BY <1>4, <1>6, <1>7, <1>8, <1>9

\* A turn explains what it does.
LEMMA TurnExplains ==
  ASSUME NEW a, NEW D \in Seq(Postings), NEW H, NEW lo \in Int, NEW hi \in Int,
         Sound(a, D, H, lo, hi), IsFiniteSet(a.taps), a.pending # {}, Top(a).ts < hi,
         NEW z, z = SettleTop(a)
  PROVE  Explains(z, a)
<1>1. PICK item : item = Top(a)
  OBVIOUS
<1>2. item \in a.pending /\ item \in Items
  <2>1. a.pending \in SUBSET Items /\ IsFiniteSet(a.pending) /\ DistinctPlaces(a.pending)
    BY DEF Sound, Queues
  <2>2. Top(a) \in a.pending
    BY <2>1, TopIs
  <2> QED BY <1>1, <2>1, <2>2
<1>3. PICK r \in Postings : r = item.row
  BY <1>2 DEF Items
<1>4. r.ts = item.ts /\ lo <= r.ts
  BY <1>2, <1>3 DEF Sound, Queues
<1>5. /\ IsAcc(a) /\ IsBook(a.book) /\ a.txns \in Seq(Postings) /\ NoneBefore(a.txns, lo)
      /\ a.drops \in Seq(Drops) /\ a.declined \in Seq(Postings) /\ a.inbound \in Seq(Postings)
  BY DEF Sound, Typed
<1>6. PICK popped : popped = [a EXCEPT !.pending = @ \ {item}]
  OBVIOUS
<1>7. /\ IsAcc(popped) /\ popped.book = a.book /\ popped.txns = a.txns /\ popped.taps = a.taps
      /\ popped.drops = a.drops /\ popped.declined = a.declined /\ popped.inbound = a.inbound
  BY <1>5, <1>6 DEF IsAcc, AccFields
<1>8. PICK accrued : accrued = [OnLiquidityEvents(popped, AccrueEvents(popped.book, r.ts))
                                  EXCEPT !.book = Accrue(@, r.ts)]
  OBVIOUS
<1>9. PICK posted : posted = [OnLiquidityEvents(accrued, TransferEvents(accrued.book, r))
                                EXCEPT !.book = TransferAt(@, r)]
  OBVIOUS
<1>10. PICK why : why = Decision(accrued.book, r)
  OBVIOUS
<1>11. OnlyPosts(posted, popped, lo)
  BY <1>4, <1>5, <1>7, <1>8, <1>9, PostedIs
<1>12. /\ MoreTaps(posted, popped)
       /\ \A i \in Accounts : Grows(posted, popped, i, IF why = "accepted" THEN Effect(r, i) ELSE 0)
  BY <1>4, <1>5, <1>7, <1>8, <1>9, <1>10, PostedMoves
<1>13. /\ IsAcc(posted) /\ IsBook(posted.book) /\ posted.txns \in Seq(Postings)
       /\ posted.drops = a.drops /\ posted.declined = a.declined /\ posted.inbound = a.inbound
  BY <1>7, <1>11 DEF OnlyPosts
<1>14. z = IF why = "accepted" THEN [posted EXCEPT !.txns = Append(@, r)]
           ELSE IF why = "unfunded" THEN Unfunded(posted, item)
           ELSE Dropped(posted, why, r)
  <2>1. popped.book = a.book /\ item.ts = r.ts
    BY <1>4, <1>7
  <2>2. accrued = [OnLiquidityEvents(popped, AccrueEvents(a.book, item.ts))
                     EXCEPT !.book = Accrue(@, item.ts)]
    BY <1>8, <2>1
  <2> QED BY <1>1, <1>3, <1>6, <1>9, <1>10, <2>2 DEF SettleTop
<1>15. ASSUME NEW i \in Accounts, NEW x \in Int, Gap(z, i) = Gap(posted, i) - x, z.taps = posted.taps,
              x = IF why = "accepted" THEN Effect(r, i) ELSE 0
       PROVE  Grows(z, a, i, 0)
  <2>1. /\ Gap(posted, i) <= Gap(popped, i) + x
        /\ InBudget(posted, i) => Gap(posted, i) = Gap(popped, i) + x
    BY <1>12, <1>15 DEF Grows
  <2>2. Gap(popped, i) = Gap(a, i) /\ Gap(a, i) \in Int /\ Gap(posted, i) \in Int
    BY <1>5, <1>7, <1>13, GapInt DEF Gap
  <2>3. InBudget(z, i) <=> InBudget(posted, i)
    BY <1>15 DEF InBudget, Taps
  <2> QED BY <1>15, <2>1, <2>2, <2>3 DEF Grows
<1>16. ASSUME z.taps = posted.taps
       PROVE  MoreTaps(z, a)
  BY <1>7, <1>12, <1>16 DEF MoreTaps
<1>17. CASE why = "accepted"
  <2>1. PICK txns : txns = Append(posted.txns, r)
    OBVIOUS
  <2>2. z.txns = txns /\ z.book = posted.book /\ z.taps = posted.taps
    <3>1. z = [posted EXCEPT !.txns = txns]
      BY <1>14, <1>17, <2>1
    <3> QED BY <1>13, <3>1 DEF IsAcc, AccFields
  <2>3. ASSUME NEW i \in Accounts PROVE Grows(z, a, i, 0)
    <3>1. Effect(r, i) \in Int /\ Moves(posted.txns, i) \in Int /\ posted.book.cash[i] \in Int
      BY <1>13, EffectInt, GapInt
    <3>2. Moves(txns, i) = Moves(posted.txns, i) + Effect(r, i)
      BY <1>13, <2>1, MovesAppend
    <3>3. Gap(z, i) = Gap(posted, i) - Effect(r, i)
      BY <2>2, <3>1, <3>2 DEF Gap
    <3> QED BY <1>15, <1>17, <2>2, <3>1, <3>3
  <2> QED BY <1>16, <2>2, <2>3 DEF Explains
<1>18. CASE why # "accepted"
  <2>1. z.txns = posted.txns /\ z.book = posted.book /\ z.taps = posted.taps
    <3>1. CASE why = "unfunded"
      <4>1. z = Unfunded(posted, item)
        BY <1>14, <3>1
      <4> QED BY <1>13, <4>1, UnfundedTaps
    <3>2. CASE why # "unfunded"
      <4>1. z = Dropped(posted, why, r)
        BY <1>14, <1>18, <3>2
      <4> QED BY <1>13, <4>1 DEF Dropped, IsAcc, AccFields
    <3> QED BY <3>1, <3>2
  <2>2. ASSUME NEW i \in Accounts PROVE Grows(z, a, i, 0)
    <3>1. Gap(posted, i) \in Int
      BY <1>13, GapInt
    <3>2. Gap(z, i) = Gap(posted, i) - 0
      BY <2>1, <3>1 DEF Gap
    <3> QED BY <1>15, <1>18, <2>1, <3>2
  <2> QED BY <1>16, <2>1, <2>2 DEF Explains
<1> QED BY <1>17, <1>18

\* An accumulator whose balances and rows are numbers and postings.
Books(a) == IsBook(a.book) /\ a.txns \in Seq(Postings)

\* What is explained step by step is explained.
LEMMA ExplainsThrough ==
  ASSUME NEW a, NEW c, NEW z, Books(a), Books(c), Books(z), Explains(c, a), Explains(z, c)
  PROVE  Explains(z, a)
<1>1. MoreTaps(z, a) /\ MoreTaps(z, c)
  BY DEF Explains, MoreTaps
<1>2. ASSUME NEW i \in Accounts PROVE Grows(z, a, i, 0)
  <2>1. Gap(a, i) \in Int /\ Gap(c, i) \in Int /\ Gap(z, i) \in Int
    BY GapInt DEF Books
  <2>2. Grows(c, a, i, 0) /\ Grows(z, c, i, 0)
    BY DEF Explains
  <2>3. InBudget(z, i) => InBudget(c, i)
    BY <1>1, BudgetShrinks
  <2> QED BY <2>1, <2>2, <2>3 DEF Grows
<1> QED BY <1>1, <1>2 DEF Explains

\* What changes nothing has nothing to explain.
LEMMA ExplainsSame ==
  ASSUME NEW a, NEW z, Books(a), IsFiniteSet(a.taps),
         z.book.cash = a.book.cash, z.txns = a.txns, z.taps = a.taps
  PROVE  Explains(z, a)
<1>1. ASSUME NEW i \in Accounts PROVE Grows(z, a, i, 0)
  <2>1. Gap(a, i) \in Int
    BY GapInt DEF Books
  <2>2. Gap(z, i) = Gap(a, i)
    BY DEF Gap
  <2> QED BY <2>1, <2>2 DEF Grows
<1> QED BY <1>1 DEF Explains, MoreTaps

\* A drain explains what its turns do.
LEMMA DrainExplains ==
  ASSUME NEW a, NEW D \in Seq(Postings), NEW H, NEW lo \in Int, NEW hi \in Int,
         Sound(a, D, H, lo, hi), IsFiniteSet(a.taps), NEW z, z = DrainPending(a, hi)
  PROVE  Explains(z, a)
<1>1. PICK N \in Nat : N = 3 * Cardinality(a.pending)
  <2>1. IsFiniteSet(a.pending)
    BY DEF Sound, Queues
  <2>2. PICK Q \in Nat : Q = Cardinality(a.pending)
    BY <2>1, FS_CardinalityType
  <2> QED BY <2>2
<1>2. PICK g : Drains(g, a, hi, N)
  BY <1>1, DrainRun
<1> DEFINE Good(c) == Sound(c, D, H, lo, hi) /\ Explains(c, a)
           S == {n \in 0 .. N : Good(g[n])}
<1>3. ASSUME NEW c, Sound(c, D, H, lo, hi) PROVE Books(c)
  BY <1>3 DEF Sound, Typed, Books
<1>4. 0 \in S
  <2>1. Explains(a, a)
    BY <1>3, ExplainsSame
  <2> QED BY <1>2, <2>1 DEF Drains
<1>5. ASSUME NEW n \in 0 .. N - 1, n \in S PROVE n + 1 \in S
  <2>1. PICK c : c = g[n] /\ Sound(c, D, H, lo, hi) /\ Explains(c, a)
    BY <1>5
  <2>2. PICK d : d = g[n + 1]
    OBVIOUS
  <2>3. d = IF Due(c, hi) THEN SettleTop(c) ELSE c
    BY <1>2, <2>1, <2>2 DEF DrainTurn, Due, Drains
  <2>4. CASE ~Due(c, hi)
    <3>1. n + 1 \in 0 .. N /\ g[n + 1] = c
      BY <2>2, <2>3, <2>4
    <3> QED BY <2>1, <3>1
  <2>5. CASE Due(c, hi)
    <3>1. d = SettleTop(c) /\ c.pending # {} /\ Top(c).ts < hi /\ IsFiniteSet(c.taps)
      BY <2>1, <2>3, <2>5 DEF Due, Explains, MoreTaps
    <3>2. Sound(d, D, H, lo, hi)
      BY <2>1, <3>1, TurnKeeps
    <3>3. Explains(d, c)
      BY <2>1, <3>1, TurnExplains
    <3>4. Books(a) /\ Books(c) /\ Books(d)
      BY <1>3, <2>1, <3>2
    <3>5. Explains(d, a)
      BY <2>1, <3>3, <3>4, ExplainsThrough
    <3> QED BY <2>2, <3>2, <3>5
  <2> QED BY <2>4, <2>5
<1> HIDE DEF S
<1>6. N \in S
  <2>1. 0 .. N \subseteq S
    BY <1>4, <1>5, BoundedInduction
  <2> QED BY <2>1
<1> QED BY <1>2, <1>6 DEF S, Drains

\* So does a span.
LEMMA ExtendExplains ==
  ASSUME NEW a, NEW D \in Seq(Postings), NEW H, NEW lo \in Int, NEW hi \in Int,
         Sound(a, D, H, lo, hi), IsFiniteSet(a.taps), NEW items, Newcomers(items, a, D, H, lo),
         NEW lookahead \in Seq(Postings), NEW z, z = ExtendChunk(a, items, lookahead, hi)
  PROVE  Explains(z, a)
<1>1. PICK b : b = [a EXCEPT !.inbound = items \o lookahead, !.book.emit = a.emit]
  OBVIOUS
<1>2. PICK c : c = Enqueue(b, items)
  OBVIOUS
<1>3. QueuesUp(c, a, items, D, H, lo, hi)
  BY <1>1, <1>2, QueuedIs
<1>4. Sound(c, D, H, lo, hi) /\ c.txns = a.txns /\ c.taps = a.taps /\ c.book.cash = a.book.cash
  BY <1>3 DEF QueuesUp
<1>5. PICK d : d = DrainPending(c, hi)
  OBVIOUS
<1>6. Drained(d, c, D, H, lo, hi)
  BY <1>4, <1>5, DrainIs
<1>7. z = [d EXCEPT !.inbound = << >>]
  BY <1>1, <1>2, <1>5 DEF ExtendChunk
<1>8. z.book = d.book /\ z.txns = d.txns /\ z.taps = d.taps
  BY <1>6, <1>7 DEF Drained, Sound, Typed, IsAcc, AccFields
<1>9. Books(a) /\ Books(c) /\ Books(d) /\ Books(z)
  BY <1>4, <1>6, <1>8 DEF Drained, Sound, Typed, Books
<1>10. Explains(c, a)
  BY <1>4, <1>9, ExplainsSame
<1>11. Explains(d, c)
  BY <1>4, <1>5, DrainExplains
<1>12. Explains(z, d)
  <2>1. IsFiniteSet(d.taps)
    BY <1>11 DEF Explains, MoreTaps
  <2> QED BY <1>8, <1>9, <2>1, ExplainsSame
<1>13. Explains(z, c)
  BY <1>9, <1>11, <1>12, ExplainsThrough
<1> QED BY <1>9, <1>10, <1>13, ExplainsThrough

\* The opening book, what has left as o and what a holds explain its balances.
Accounted(a, o) ==
  /\ IsFiniteSet(a.taps)
  /\ \A i \in Accounts :
       /\ Gap(a, i) <= Opening.cash[i] + Moves(o, i)
       /\ InBudget(a, i) => Gap(a, i) = Opening.cash[i] + Moves(o, i)

\* They do after a span when they did before.
LEMMA SpanExplains ==
  ASSUME NEW a, NEW z, NEW o \in Seq(Postings), NEW hi, Books(a), Books(z), IsAcc(z),
         Explains(z, a), Accounted(a, o),
         NEW b, b = [KeptFrom(z, hi) EXCEPT !.declined = << >>],
         NEW p, p = o \o SettledBefore(z, hi)
  PROVE  Accounted(b, p)
<1>1. PICK s \in Seq(Postings) : s = SortForReplay(z.txns) /\ Len(s) = Len(z.txns)
  <2>1. Permutes(SortForReplay(z.txns), z.txns)
    BY SortedIs DEF Books
  <2> QED BY <2>1 DEF Permutes
<1>2. PICK c \in 0 .. Len(s) : c = SliceTo(s, hi)
  <2>1. SliceTo(s, hi) \in 0 .. Len(s)
    <3>1. PICK N \in Nat : N = Len(s) /\ DOMAIN s = 1 .. N
      BY LenProperties
    <3>2. PICK T : T = {n \in DOMAIN s : s[n].ts < hi}
      OBVIOUS
    <3>3. PICK I : I = 1 .. N
      OBVIOUS
    <3>4. IsFiniteSet(I) /\ Cardinality(I) = N
      BY <3>3, FS_Interval
    <3>5. T \in SUBSET I
      BY <3>1, <3>2, <3>3
    <3>6. IsFiniteSet(T) /\ Cardinality(T) <= N
      BY <3>4, <3>5, FS_Subset
    <3>7. Cardinality(T) \in Nat
      BY <3>6, FS_CardinalityType
    <3> QED BY <3>1, <3>2, <3>6, <3>7 DEF SliceTo
  <2> QED BY <2>1
<1>3. PICK t : t = SubSeq(s, 1, c)
  OBVIOUS
<1>4. PICK u : u = SubSeq(s, c + 1, Len(s))
  OBVIOUS
<1>5. t = SettledBefore(z, hi)
  BY <1>1, <1>2, <1>3 DEF SettledBefore
<1>6. b.txns = u /\ b.book = z.book /\ b.taps = z.taps
  <2>1. b = [[z EXCEPT !.txns = u] EXCEPT !.declined = << >>]
    BY <1>1, <1>2, <1>4 DEF KeptFrom
  <2> QED BY <2>1 DEF IsAcc, AccFields
<1>7. t \in Seq(Postings) /\ u \in Seq(Postings)
  <2>1. PICK N \in Nat : N = Len(s)
    BY LenProperties
  <2>2. PartOf(t, s, 0, c) /\ PartOf(u, s, c, N)
    <3>1. PICK e \in Int : e = 0
      OBVIOUS
    <3>2. e \in 0 .. Len(s) /\ c \in e .. Len(s) /\ N \in c .. Len(s) /\ e + 1 = 1
      BY <2>1, <3>1
    <3> QED BY <1>3, <1>4, <2>1, <3>1, <3>2, PartIs
  <2> QED BY <2>2 DEF PartOf
<1>8. ASSUME NEW i \in Accounts
      PROVE  Gap(b, i) - Moves(p, i) = Gap(z, i) - Moves(o, i) /\ Gap(b, i) \in Int /\ Moves(p, i) \in Int
  <2>1. Moves(z.txns, i) = Moves(t, i) + Moves(u, i)
    BY <1>1, <1>2, <1>3, <1>4, MovesSplit, MovesSorted DEF Books
  <2>2. Moves(p, i) = Moves(o, i) + Moves(t, i)
    BY <1>5, <1>7, MovesConcat
  <2>3. PICK x \in Int, y \in Int, v \in Int, w \in Int :
          x = Moves(t, i) /\ y = Moves(u, i) /\ v = Moves(o, i) /\ w = z.book.cash[i]
    BY <1>7, MovesIs, GapInt DEF Books
  <2>4. Gap(b, i) = w - y /\ Gap(z, i) = w - (x + y)
    BY <1>6, <2>1, <2>3 DEF Gap
  <2> QED BY <2>2, <2>3, <2>4
<1>9. ASSUME NEW i \in Accounts
      PROVE  /\ Gap(b, i) <= Opening.cash[i] + Moves(p, i)
             /\ InBudget(b, i) => Gap(b, i) = Opening.cash[i] + Moves(p, i)
  <2>1. /\ Gap(z, i) <= Gap(a, i) + 0
        /\ InBudget(z, i) => Gap(z, i) = Gap(a, i) + 0
    BY DEF Explains, Grows
  <2>2. /\ Gap(a, i) <= Opening.cash[i] + Moves(o, i)
        /\ InBudget(a, i) => Gap(a, i) = Opening.cash[i] + Moves(o, i)
    BY DEF Accounted
  <2>3. InBudget(z, i) => InBudget(a, i)
    BY BudgetShrinks DEF Explains
  <2>4. InBudget(b, i) <=> InBudget(z, i)
    BY <1>6 DEF InBudget, Taps
  <2>5. Gap(a, i) \in Int /\ Gap(z, i) \in Int /\ Opening.cash[i] \in Int /\ Moves(o, i) \in Int
    <3>1. Opening.cash[i] \in Int
      BY OpeningIs DEF IsBook
    <3>2. Gap(a, i) \in Int
      BY GapInt DEF Books
    <3>3. Gap(z, i) \in Int
      BY GapInt DEF Books
    <3>4. Moves(o, i) \in Int
      BY MovesIs
    <3> QED BY <3>1, <3>2, <3>3, <3>4
  <2>6. PICK w \in Int, x \in Int, y \in Int, v \in Int, m \in Int :
          /\ w = Opening.cash[i] /\ x = Gap(a, i) /\ y = Gap(z, i) /\ v = Moves(o, i)
          /\ m = Moves(p, i)
    BY <1>8, <2>5
  <2>7. Gap(b, i) = (y - v) + m
    <3>1. Gap(b, i) - Moves(p, i) = Gap(z, i) - Moves(o, i) /\ Gap(b, i) \in Int
      BY <1>8
    <3>2. PICK n \in Int : n = Gap(b, i) /\ n - m = y - v
      BY <2>6, <3>1
    <3> QED BY <3>2
  <2>8. y <= w + v /\ (InBudget(b, i) => y = w + v)
    <3>1. y <= x + 0 /\ x <= w + v
      BY <2>1, <2>2, <2>6
    <3>2. ASSUME InBudget(b, i) PROVE y = x + 0 /\ x = w + v
      BY <2>1, <2>2, <2>3, <2>4, <2>6, <3>2
    <3> QED BY <2>6, <3>1, <3>2
  <2> QED BY <2>6, <2>7, <2>8
<1>10. IsFiniteSet(b.taps)
  BY <1>6 DEF Explains, MoreTaps
<1> QED BY <1>9, <1>10 DEF Accounted

\* Whatever has been settled, the book is accounted for.
BookInv == IndInv /\ Accounted(acc, out)

\* Before the first span the book is the opening book and no row has moved it.
LEMMA InitBook == Init => BookInv
<1> SUFFICES ASSUME Init PROVE BookInv
  OBVIOUS
<1>1. IndInv
  BY InitInv
<1>2. acc.book = Opening /\ acc.taps = {} /\ acc.txns = << >> /\ out = << >>
  BY DEF Init, NewAccumulator
<1>3. IsFiniteSet(acc.taps)
  BY <1>2, FS_EmptySet
<1>4. ASSUME NEW i \in Accounts PROVE Gap(acc, i) = Opening.cash[i] + Moves(out, i)
                                      /\ Gap(acc, i) \in Int
  <2>1. Moves(out, i) = 0 /\ Moves(acc.txns, i) = 0
    BY <1>2, MovesNone
  <2>2. Opening.cash[i] \in Int
    BY OpeningIs DEF IsBook
  <2> QED BY <1>2, <2>1, <2>2 DEF Gap
<1> QED BY <1>1, <1>3, <1>4 DEF BookInv, Accounted

\* Every span accounts for what it changes.
LEMMA StepBook == BookInv /\ [Next]_vars => BookInv'
<1> SUFFICES ASSUME BookInv, [Next]_vars PROVE BookInv'
  OBVIOUS
<1>1. IndInv /\ IndInv'
  BY StepInv DEF BookInv
<1>2. CASE SettleSpan
  <2>1. /\ Streamed(cand, fraud) /\ sched \in Schedules /\ k \in 1 .. Len(sched)
        /\ Settles(cand, fraud, sched[1], sched[k], acc, out, declined)
    BY <1>1 DEF IndInv
  <2>2. PICK from \in Int, lo \in Int, hi \in Int :
          /\ from = sched[1] /\ lo = sched[k] /\ hi = sched[k + 1]
          /\ from <= lo /\ lo <= hi /\ k \in 1 .. SpanCount(sched)
    <3>1. Len(sched) \in Nat
      BY <2>1, SchedulesAssumption, LenProperties
    <3>2. /\ k \in 1 .. SpanCount(sched) /\ 1 \in 1 .. Len(sched) /\ k + 1 \in 1 .. Len(sched)
          /\ 1 <= k /\ k <= k + 1
      BY <1>2, <2>1, <3>1 DEF SettleSpan, SpanCount
    <3> QED BY <2>1, <3>2, BoundsAscend
  <2>3. PICK items : items = SpanItems(sched, k)
    OBVIOUS
  <2>4. Gathers(items, cand, fraud, lo, hi)
    BY <2>1, <2>2, <2>3, GatheredIs DEF Streamed, SpanItems
  <2>5. PICK lookahead : lookahead = SpanLookahead(sched, k)
    OBVIOUS
  <2>6. lookahead \in Seq(Postings)
    <3>1. Ahead(cand, sched, k) \in Seq(Postings)
      BY <2>1, <2>2, AheadIs DEF Streamed
    <3>2. Ahead(fraud, sched, k) \in Seq(Postings)
      BY <2>1, <2>2, AheadIs DEF Streamed
    <3> QED BY <2>5, <3>1, <3>2, ConcatProperties DEF SpanLookahead
  <2>7. PICK z : z = ExtendChunk(acc, items, lookahead, hi)
    OBVIOUS
  <2>8. /\ acc' = [KeptFrom(z, hi) EXCEPT !.declined = << >>]
        /\ out' = out \o SettledBefore(z, hi)
    BY <1>2, <2>2, <2>3, <2>5, <2>7 DEF SettleSpan
  <2>9. PICK H : H = ChannelsOf(Handed(cand, fraud, from, hi))
    OBVIOUS
  <2>10. Ready(acc, items, cand, fraud, from, lo, hi, declined)
    <3>1. Settles(cand, fraud, from, lo, acc, out, declined)
      BY <2>1, <2>2
    <3> QED BY <2>1, <2>2, <2>4, <3>1, SpanReady
  <2>11. Sound(acc, declined, H, lo, hi) /\ Newcomers(items, acc, declined, H, lo)
    BY <2>9, <2>10 DEF Ready
  <2>12. declined \in Seq(Postings) /\ out \in Seq(Postings)
    BY <2>1 DEF Settles
  <2>13. IsFiniteSet(acc.taps) /\ Accounted(acc, out)
    BY DEF BookInv, Accounted
  <2>14. Explains(z, acc)
    BY <2>6, <2>7, <2>11, <2>12, <2>13, ExtendExplains
  <2>15. Extends(z, acc, items, declined, H, lo, hi)
    BY <2>6, <2>7, <2>11, <2>12, ExtendIs
  <2>16. Books(acc) /\ Books(z) /\ IsAcc(z)
    BY <2>11, <2>15 DEF Extends, Sound, Typed, Books
  <2>17. Accounted(acc', out')
    BY <2>8, <2>12, <2>13, <2>14, <2>16, SpanExplains
  <2> QED BY <1>1, <2>17 DEF BookInv
<1>3. CASE UNCHANGED vars
  <2>1. acc' = acc /\ out' = out
    BY <1>3 DEF vars
  <2>2. Accounted(acc', out')
    BY <2>1 DEF BookInv
  <2> QED BY <1>1, <2>2 DEF BookInv
<1> QED BY <1>2, <1>3 DEF Next

\* Then the rows explain the book.
LEMMA InvExplains == BookInv => RowsExplainBook
<1> SUFFICES ASSUME BookInv, NEW i \in Accounts
             PROVE  LET explained == Opening.cash[i] + Moves(Settled, i)
                    IN  /\ acc.book.cash[i] <= explained
                        /\ WithinBudget(i) => acc.book.cash[i] = explained
  BY DEF RowsExplainBook
<1>1. out \in Seq(Postings) /\ acc.txns \in Seq(Postings) /\ IsBook(acc.book)
  BY DEF BookInv, IndInv, Settles, Sound, Typed
<1>2. Moves(Settled, i) = Moves(out, i) + Moves(acc.txns, i)
  BY <1>1, MovesConcat DEF Settled
<1>3. /\ Gap(acc, i) <= Opening.cash[i] + Moves(out, i)
      /\ InBudget(acc, i) => Gap(acc, i) = Opening.cash[i] + Moves(out, i)
  BY DEF BookInv, Accounted
<1>4. WithinBudget(i) => InBudget(acc, i)
  BY DEF WithinBudget, InBudget, Taps
<1>5. PICK x \in Int, y \in Int, v \in Int, w \in Int :
        x = Moves(out, i) /\ y = Moves(acc.txns, i) /\ v = acc.book.cash[i] /\ w = Opening.cash[i]
  BY <1>1, MovesIs, GapInt, OpeningIs DEF IsBook
<1>6. v - y <= w + x /\ (InBudget(acc, i) => v - y = w + x)
  BY <1>3, <1>5 DEF Gap
<1>7. v <= w + (x + y) /\ (InBudget(acc, i) => v = w + (x + y))
  BY <1>5, <1>6
<1> QED BY <1>2, <1>4, <1>5, <1>7

\* Whatever the run, its schedule and the draws of the random lane: every change of
\* a balance is a settled row, the bank's own charges included; but a fee over the
\* daily budget is debited without one (ChronoReplayAccumulator::onLiquidityEvent).
THEOREM BookIsExplained == Spec => []RowsExplainBook
<1> QED BY InitBook, StepBook, InvExplains, PTL DEF Spec
=============================================================================
