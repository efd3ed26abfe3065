-------------------------- MODULE InductionLemmas ---------------------------
(***************************************************************************)
(* Induction over the natural numbers as a statement about sets, and the   *)
(* loops of the modules as recursive functions: that such a function       *)
(* exists and takes the value its equation gives, what FlattenSeq does to  *)
(* a sequence that grows at its end, and the sum of a sequence of numbers. *)
(***************************************************************************)
EXTENDS Integers, SequencesExt, SequenceTheorems, FiniteSetTheorems, WellFoundedInduction, TLAPS

\* A set of numbers that is not empty has a least element.
LEMMA LeastNat ==
  ASSUME NEW S \in SUBSET Nat, S # {}
  PROVE  \E m \in S : \A k \in S : m <= k
<1> DEFINE R == {ss \in Nat \X Nat : ss[1] < ss[2]}
<1>1. IsWellFoundedOn(R, Nat)
  BY NatLessThanWellFounded DEF OpToRel
<1> HIDE DEF R
<1>2. PICK x \in S : \A y \in S : ~(<<y, x>> \in R)
  BY <1>1, WFMin
<1>3. \A y \in S : ~(y < x)
  BY <1>2 DEF R
<1> QED BY <1>3

\* A set that contains 0 and the successor of its elements contains every number.
LEMMA SetInduction ==
  ASSUME NEW S, 0 \in S, \A n \in Nat : n \in S => n + 1 \in S
  PROVE  Nat \subseteq S
<1> SUFFICES ASSUME Nat \ S # {} PROVE FALSE
  OBVIOUS
<1>1. PICK m \in Nat \ S : \A k \in Nat \ S : m <= k
  BY LeastNat
<1>2. m - 1 \in Nat /\ m - 1 \notin Nat \ S
  BY <1>1
<1> QED BY <1>1, <1>2

\* The same up to a bound.
LEMMA BoundedInduction ==
  ASSUME NEW N \in Nat, NEW S, 0 \in S, \A n \in 0 .. N - 1 : n \in S => n + 1 \in S
  PROVE  0 .. N \subseteq S
<1> DEFINE T == {n \in Nat : n <= N => n \in S}
<1>1. 0 \in T /\ \A n \in Nat : n \in T => n + 1 \in T
  OBVIOUS
<1> HIDE DEF T
<1>2. Nat \subseteq T
  BY <1>1, SetInduction
<1> QED BY <1>2 DEF T

\* f is a run of the loop from base over the steps 1 .. N.
LoopRun(N, X, base, step, f) ==
  /\ f \in [0 .. N -> X] /\ f[0] = base
  /\ \A n \in 1 .. N : f[n] = step[<<f[n - 1], n>>]

\* There is one.
LEMMA LoopExists ==
  ASSUME NEW N \in Nat, NEW X, NEW base \in X, NEW step \in [X \X (1 .. N) -> X]
  PROVE  \E f : LoopRun(N, X, base, step, f)
<1> DEFINE Run(m, f) == /\ f \in [0 .. m -> X] /\ f[0] = base
                        /\ \A n \in 1 .. m : f[n] = step[<<f[n - 1], n>>]
           S == {m \in 0 .. N : \E f : Run(m, f)}
<1>1. 0 \in S
  <2> DEFINE g == [n \in 0 .. 0 |-> base]
  <2>1. Run(0, g)
    OBVIOUS
  <2> HIDE DEF Run, g
  <2> QED BY <2>1
<1>2. ASSUME NEW m \in 0 .. N - 1, m \in S PROVE m + 1 \in S
  <2>1. PICK f : Run(m, f)
    BY <1>2
  <2>2. f[m] \in X /\ m + 1 \in 1 .. N
    BY <2>1
  <2>3. step[<<f[m], m + 1>>] \in X
    BY <2>2
  <2> DEFINE g == [n \in 0 .. m + 1 |-> IF n = m + 1 THEN step[<<f[m], m + 1>>] ELSE f[n]]
  <2>4. g \in [0 .. m + 1 -> X] /\ g[0] = base
    BY <2>1, <2>3
  <2>5. ASSUME NEW n \in 1 .. m + 1 PROVE g[n] = step[<<g[n - 1], n>>]
    <3>1. CASE n = m + 1
      <4>1. m \in 0 .. m + 1 /\ n \in 0 .. m + 1 /\ n - 1 = m /\ m # m + 1
        BY <3>1
      <4>2. g[n] = step[<<f[m], m + 1>>] /\ g[n - 1] = f[m]
        BY <3>1, <4>1
      <4> QED BY <3>1, <4>2
    <3>2. CASE n \in 1 .. m
      <4>1. n \in 0 .. m + 1 /\ n - 1 \in 0 .. m + 1 /\ n # m + 1 /\ n - 1 # m + 1
        BY <3>2
      <4>2. g[n] = f[n] /\ g[n - 1] = f[n - 1]
        BY <4>1
      <4> QED BY <3>2, <4>2, <2>1
    <3> QED BY <3>1, <3>2
  <2>6. Run(m + 1, g)
    BY <2>4, <2>5
  <2> HIDE DEF Run, g
  <2> QED BY <2>2, <2>6
<1> HIDE DEF S
<1>3. N \in S
  BY <1>1, <1>2, BoundedInduction
<1>4. PICK f : Run(N, f)
  BY <1>3 DEF S
<1> QED BY <1>4 DEF LoopRun
-----------------------------------------------------------------------------
\* The elements of a finite set of numbers below x.
Below(S, x) == {y \in S : y < x}

\* Such sets are finite, and so are their parts.
LEMMA FiniteUpTo ==
  ASSUME NEW N \in Nat, NEW S \in SUBSET (0 .. N)
  PROVE  /\ IsFiniteSet(S) /\ Cardinality(S) \in Nat
         /\ \A x : Below(S, x) \in SUBSET (0 .. N)
<1>1. IsFiniteSet(0 .. N)
  BY FS_Interval
<1>2. IsFiniteSet(S)
  BY <1>1, FS_Subset
<1>3. Cardinality(S) \in Nat
  BY <1>2, FS_CardinalityType
<1> QED BY <1>2, <1>3 DEF Below

\* A set of numbers up to a bound has a greatest element.
LEMMA Greatest ==
  ASSUME NEW N \in Nat, NEW S \in SUBSET (0 .. N), S # {}
  PROVE  \E m \in S : \A k \in S : k <= m
<1> DEFINE T == {N - x : x \in S}
<1>1. T \in SUBSET Nat /\ T # {}
  <2>1. \A x \in S : x \in 0 .. N /\ N - x \in Nat
    OBVIOUS
  <2> QED BY <2>1
<1>2. PICK t \in T : \A u \in T : t <= u
  <2> HIDE DEF T
  <2> QED BY <1>1, LeastNat
<1>3. PICK m \in S : t = N - m
  BY <1>2
<1>4. \A k \in S : N - m <= N - k
  BY <1>2, <1>3
<1> QED BY <1>4

\* Every place in such a set is taken: the k-th element has k - 1 below it.
LEMMA Ranked ==
  ASSUME NEW N \in Nat, NEW S \in SUBSET (0 .. N), NEW k \in 1 .. Cardinality(S)
  PROVE  \E x \in S : Cardinality(Below(S, x)) = k - 1
<1> DEFINE Good(R) == \A j \in 1 .. Cardinality(R) :
                        \E x \in R : Cardinality(Below(R, x)) = j - 1
           T == {n \in Nat : \A R \in SUBSET (0 .. N) : Cardinality(R) = n => Good(R)}
<1>1. \A R \in SUBSET (0 .. N) : IsFiniteSet(R) /\ Cardinality(R) \in Nat
  BY FiniteUpTo
<1>2. 0 \in T
  OBVIOUS
<1>3. ASSUME NEW n \in Nat, n \in T PROVE n + 1 \in T
  <2> SUFFICES ASSUME NEW R \in SUBSET (0 .. N), Cardinality(R) = n + 1,
                      NEW j \in 1 .. n + 1
               PROVE  \E x \in R : Cardinality(Below(R, x)) = j - 1
    OBVIOUS
  <2>1. R # {}
    BY FS_EmptySet
  <2>2. PICK m \in R : \A x \in R : x <= m
    BY <2>1, Greatest
  <2> DEFINE Q == R \ {m}
  <2>3. Q \in SUBSET (0 .. N) /\ Cardinality(Q) = n
    <3>1. IsFiniteSet(R)
      BY <1>1
    <3>2. Cardinality(R \ {m}) = Cardinality(R) - 1
      BY <3>1, <2>2, FS_RemoveElement
    <3> QED BY <3>2
  <2>4. CASE j = n + 1
    <3>1. Below(R, m) = Q
      <4>1. \A x \in R : x \in Int
        OBVIOUS
      <4>2. \A x \in R : x < m <=> x # m
        BY <2>2, <4>1
      <4> QED BY <4>2 DEF Below
    <3>2. Cardinality(Below(R, m)) = j - 1
      BY <2>3, <2>4, <3>1
    <3> QED BY <3>2
  <2>5. CASE j \in 1 .. n
    <3>1. Good(Q)
      BY <1>3, <2>3
    <3>2. PICK x \in Q : Cardinality(Below(Q, x)) = j - 1
      BY <2>3, <2>5, <3>1
    <3>3. Below(R, x) = Below(Q, x)
      BY <2>2, <3>2 DEF Below
    <3> QED BY <3>2, <3>3
  <2> QED BY <2>4, <2>5
<1> HIDE DEF T
<1>4. Cardinality(S) \in T
  BY <1>1, <1>2, <1>3, SetInduction
<1> QED BY <1>4 DEF T

\* No two elements have the same place.
LEMMA RankUnique ==
  ASSUME NEW N \in Nat, NEW S \in SUBSET (0 .. N), NEW x \in S, NEW y \in S,
         Cardinality(Below(S, x)) = Cardinality(Below(S, y))
  PROVE  x = y
<1>1. ASSUME NEW a \in S, NEW b \in S, a < b
      PROVE  Cardinality(Below(S, a)) < Cardinality(Below(S, b))
  <2>1. Below(S, a) \in SUBSET Below(S, b)
    <3>1. \A z \in S : z \in Int
      OBVIOUS
    <3>2. \A z \in S : z < a => z < b
      BY <1>1, <3>1
    <3> QED BY <3>2 DEF Below
  <2>2. Below(S, a) # Below(S, b)
    BY <1>1 DEF Below
  <2>3. IsFiniteSet(Below(S, b)) /\ Cardinality(Below(S, b)) \in Nat
        /\ Cardinality(Below(S, a)) \in Nat
    BY FiniteUpTo
  <2>4. Cardinality(Below(S, a)) <= Cardinality(Below(S, b))
        /\ Cardinality(Below(S, a)) # Cardinality(Below(S, b))
    BY <2>1, <2>2, <2>3, FS_Subset
  <2> QED BY <2>3, <2>4
<1>2. Cardinality(Below(S, x)) \in Nat
  BY FiniteUpTo
<1>3. x \in Int /\ y \in Int
  OBVIOUS
<1> QED BY <1>1, <1>2, <1>3

\* The place of an element is one of the set's.
LEMMA RankRange ==
  ASSUME NEW N \in Nat, NEW S \in SUBSET (0 .. N), NEW x \in S
  PROVE  Cardinality(Below(S, x)) + 1 \in 1 .. Cardinality(S)
<1>1. /\ IsFiniteSet(S) /\ Cardinality(S) \in Nat
      /\ Cardinality(Below(S, x)) \in Nat
  BY FiniteUpTo
<1>2. /\ IsFiniteSet(S \ {x}) /\ Cardinality(S \ {x}) = Cardinality(S) - 1
      /\ Below(S, x) \in SUBSET (S \ {x})
  BY <1>1, FS_RemoveElement DEF Below
<1>3. Cardinality(Below(S, x)) <= Cardinality(S \ {x})
  BY <1>2, FS_Subset
<1> QED BY <1>1, <1>2, <1>3
-----------------------------------------------------------------------------
\* The concatenations of the first 0, 1, ... sequences of s.
FlattenRun(s, X, f) ==
  /\ f \in [0 .. Len(s) -> Seq(X)] /\ f[0] = << >>
  /\ \A n \in 1 .. Len(s) : f[n] = f[n - 1] \o s[n]

\* They exist.
LEMMA FlattenRunExists ==
  ASSUME NEW X, NEW s \in Seq(Seq(X))
  PROVE  \E f : FlattenRun(s, X, f)
<1>1. Len(s) \in Nat /\ \A n \in 1 .. Len(s) : s[n] \in Seq(X)
  BY LenProperties, ElementOfSeq
<1> DEFINE step == [p \in Seq(X) \X (1 .. Len(s)) |-> p[1] \o s[p[2]]]
<1>2. \A g \in Seq(X), n \in 1 .. Len(s) : g \o s[n] \in Seq(X)
  BY <1>1, ConcatProperties
<1>3. step \in [Seq(X) \X (1 .. Len(s)) -> Seq(X)]
  BY <1>2
<1>4. << >> \in Seq(X)
  BY EmptySeq
<1>5. \A g \in Seq(X), n \in 1 .. Len(s) : step[<<g, n>>] = g \o s[n]
  OBVIOUS
<1> HIDE DEF step
<1>6. PICK f : LoopRun(Len(s), Seq(X), << >>, step, f)
  BY <1>1, <1>3, <1>4, LoopExists
<1>7. f \in [0 .. Len(s) -> Seq(X)] /\ f[0] = << >>
  BY <1>6 DEF LoopRun
<1>8. ASSUME NEW n \in 1 .. Len(s) PROVE f[n] = f[n - 1] \o s[n]
  <2>1. f[n] = step[<<f[n - 1], n>>]
    BY <1>6 DEF LoopRun
  <2>2. PICK m : m = n - 1
    OBVIOUS
  <2>3. m \in 0 .. Len(s)
    BY <1>1, <2>2
  <2>4. f[m] \in Seq(X)
    BY <1>7, <2>3
  <2>5. f[n] = step[<<f[m], n>>]
    BY <2>1, <2>2
  <2>6. f[n] = f[m] \o s[n]
    BY <1>5, <2>4, <2>5
  <2> QED BY <2>2, <2>6
<1> QED BY <1>7, <1>8 DEF FlattenRun

\* Its first values.
LEMMA FlattenRunSteps ==
  ASSUME NEW X, NEW s \in Seq(Seq(X)), NEW f, FlattenRun(s, X, f)
  PROVE  /\ \A n \in 0 .. Len(s) - 1 : f[n + 1] = f[n] \o s[n + 1]
         /\ Len(s) # 0 => f[1] = s[1]
<1>1. Len(s) \in Nat /\ \A n \in 1 .. Len(s) : s[n] \in Seq(X)
  BY LenProperties, ElementOfSeq
<1>2. \A m \in 1 .. Len(s) : f[m] = f[m - 1] \o s[m]
  BY DEF FlattenRun
<1>3. ASSUME NEW n \in 0 .. Len(s) - 1 PROVE f[n + 1] = f[n] \o s[n + 1]
  <2>1. PICK m : m = n + 1
    OBVIOUS
  <2>2. m \in 1 .. Len(s) /\ m - 1 = n
    BY <1>1, <2>1
  <2>3. f[m] = f[m - 1] \o s[m]
    BY <1>2, <2>2
  <2>4. f[m] = f[n] \o s[m]
    BY <2>2, <2>3, Zenon
  <2> QED BY <2>1, <2>4, Zenon
<1>4. ASSUME Len(s) # 0 PROVE f[1] = s[1]
  <2>1. 0 \in 0 .. Len(s) - 1 /\ 0 + 1 = 1 /\ s[1] \in Seq(X)
    BY <1>1, <1>4
  <2>2. f[1] = f[0] \o s[1]
    BY <1>3, <2>1, Zenon
  <2>3. f[0] = << >>
    BY DEF FlattenRun
  <2>4. << >> \o s[1] = s[1]
    BY <2>1, ConcatEmptySeq
  <2> QED BY <2>2, <2>3, <2>4
<1> QED BY <1>3, <1>4

\* FlattenSeq is the last of them.
LEMMA FlattenIsRun ==
  ASSUME NEW X, NEW s \in Seq(Seq(X)), NEW f, FlattenRun(s, X, f)
  PROVE  FlattenSeq(s) = f[Len(s)]
<1>1. Len(s) \in Nat /\ \A n \in 1 .. Len(s) : s[n] \in Seq(X)
  BY LenProperties, ElementOfSeq
<1>2. CASE Len(s) = 0
  <2>1. s = << >>
    BY <1>2, EmptySeq
  <2> QED BY <1>2, <2>1 DEF FlattenSeq, FlattenRun
<1>3. CASE Len(s) # 0
  <2> DEFINE Eq(g) == g = [i \in 1 .. Len(s) |-> IF i = 1 THEN s[i] ELSE g[i - 1] \o s[i]]
             h == [i \in 1 .. Len(s) |-> f[i]]
  <2>1. f[1] = s[1]
    BY <1>3, FlattenRunSteps
  <2>2. Eq(h)
    <3>1. ASSUME NEW i \in 1 .. Len(s)
          PROVE  h[i] = IF i = 1 THEN s[i] ELSE h[i - 1] \o s[i]
      <4>1. CASE i = 1
        BY <2>1, <4>1
      <4>2. CASE i # 1
        <5>1. i - 1 \in 1 .. Len(s)
          BY <1>1, <4>2
        <5>2. f[i] = f[i - 1] \o s[i]
          BY DEF FlattenRun
        <5> QED BY <4>2, <5>1, <5>2
      <4> QED BY <4>1, <4>2
    <3> QED BY <3>1
  <2> DEFINE flatten == CHOOSE g : Eq(g)
  <2>3. Eq(flatten)
    <3> HIDE DEF Eq, h
    <3> QED BY <2>2
  <2>5. FlattenSeq(s) = flatten[Len(s)]
    BY <1>3 DEF FlattenSeq
  <2> HIDE DEF flatten
  <2>4. \A m \in 1 .. Len(s) :
          flatten[m] = IF m = 1 THEN s[m] ELSE flatten[m - 1] \o s[m]
    BY <2>3
  <2> HIDE DEF Eq, h
  <2> DEFINE S == {n \in 0 .. Len(s) : n # 0 => flatten[n] = f[n]}
  <2> HIDE DEF S
  <2>6. 0 \in S
    BY <1>1 DEF S
  <2>7. ASSUME NEW n \in 0 .. Len(s) - 1, n \in S PROVE n + 1 \in S
    <3>1. n + 1 \in 1 .. Len(s) /\ n + 1 - 1 = n /\ n + 1 \in 0 .. Len(s) /\ n \in Nat
      BY <1>1
    <3>2. flatten[n + 1] = f[n + 1]
      <4>1. CASE n = 0
        <5>1. flatten[1] = s[1]
          BY <2>4, <3>1, <4>1
        <5> QED BY <2>1, <4>1, <5>1
      <4>2. CASE n # 0
        <5>1. PICK m : m = n + 1
          OBVIOUS
        <5>2. m \in 1 .. Len(s) /\ m # 1 /\ m - 1 = n
          BY <3>1, <4>2, <5>1
        <5>3. flatten[m] = flatten[m - 1] \o s[m]
          BY <2>4, <5>2
        <5>4. flatten[m] = flatten[n] \o s[m]
          BY <5>2, <5>3, Zenon
        <5>5. flatten[n] = f[n]
          BY <2>7, <4>2 DEF S
        <5>6. f[n + 1] = f[n] \o s[n + 1]
          BY FlattenRunSteps
        <5> QED BY <5>1, <5>4, <5>5, <5>6, Zenon
      <4> QED BY <4>1, <4>2
    <3> QED BY <3>1, <3>2 DEF S
  <2>8. 0 .. Len(s) \subseteq S
    BY <1>1, <2>6, <2>7, BoundedInduction
  <2>9. Len(s) \in S
    BY <1>1, <2>8
  <2> QED BY <1>3, <2>5, <2>9 DEF S
<1> QED BY <1>2, <1>3

\* The concatenation of sequences over X is one.
LEMMA FlattenType ==
  ASSUME NEW X, NEW s \in Seq(Seq(X))
  PROVE  FlattenSeq(s) \in Seq(X)
<1>1. PICK f : FlattenRun(s, X, f)
  BY FlattenRunExists
<1>2. f \in [0 .. Len(s) -> Seq(X)] /\ Len(s) \in 0 .. Len(s)
  BY <1>1, LenProperties DEF FlattenRun
<1> QED BY <1>1, <1>2, FlattenIsRun

\* A sequence added at the end comes last in the concatenation.
LEMMA FlattenAppend ==
  ASSUME NEW X, NEW s \in Seq(Seq(X)), NEW e \in Seq(X)
  PROVE  FlattenSeq(Append(s, e)) = FlattenSeq(s) \o e
<1>1. PICK t : t = Append(s, e)
  OBVIOUS
<1>2. /\ t \in Seq(Seq(X)) /\ Len(t) = Len(s) + 1 /\ t[Len(s) + 1] = e
      /\ \A i \in 1 .. Len(s) : t[i] = s[i]
  BY <1>1, AppendProperties
<1>3. Len(s) \in Nat
  BY LenProperties
<1>4. PICK f : FlattenRun(t, X, f)
  BY <1>2, FlattenRunExists
<1> DEFINE g == [n \in 0 .. Len(s) |-> f[n]]
<1>5. FlattenRun(s, X, g)
  <2>1. f \in [0 .. Len(s) + 1 -> Seq(X)] /\ f[0] = << >>
    BY <1>2, <1>4 DEF FlattenRun
  <2>2. g \in [0 .. Len(s) -> Seq(X)] /\ g[0] = << >>
    BY <1>3, <2>1
  <2>3. ASSUME NEW n \in 1 .. Len(s) PROVE g[n] = g[n - 1] \o s[n]
    <3>1. n \in 1 .. Len(t) /\ n - 1 \in 0 .. Len(s) /\ n \in 0 .. Len(s)
      BY <1>2, <1>3
    <3>2. f[n] = f[n - 1] \o t[n] /\ t[n] = s[n]
      BY <1>2, <1>4, <3>1 DEF FlattenRun
    <3> QED BY <3>1, <3>2
  <2> HIDE DEF g
  <2> QED BY <2>2, <2>3 DEF FlattenRun
<1>6. g[Len(s)] = f[Len(s)]
  BY <1>3
<1> HIDE DEF g
<1>7. FlattenSeq(s) = f[Len(s)]
  BY <1>5, <1>6, FlattenIsRun
<1>8. FlattenSeq(t) = f[Len(s) + 1]
  BY <1>2, <1>4, FlattenIsRun
<1>9. f[Len(s) + 1] = f[Len(s)] \o e
  <2>1. Len(s) \in 0 .. Len(t) - 1
    BY <1>2, <1>3
  <2>2. f[Len(s) + 1] = f[Len(s)] \o t[Len(s) + 1]
    <3>1. t \in Seq(Seq(X))
      BY <1>2
    <3>2. \A n \in 0 .. Len(t) - 1 : f[n + 1] = f[n] \o t[n + 1]
      BY <1>4, <3>1, FlattenRunSteps
    <3> QED BY <2>1, <3>2, Zenon
  <2> QED BY <1>2, <2>2, Zenon
<1> QED BY <1>1, <1>7, <1>8, <1>9
-----------------------------------------------------------------------------
\* f holds the sums of the first 0, 1, ... N numbers of g.
SumRun(N, g, f) ==
  /\ f \in [0 .. N -> Int] /\ f[0] = 0
  /\ \A n \in 1 .. N : g[n] \in Int /\ f[n] = f[n - 1] + g[n]

\* v is the sum of the N numbers of g.
IsSum(N, g, v) == \E f : SumRun(N, g, f) /\ f[N] = v

\* There is such a run.
LEMMA SumRunExists ==
  ASSUME NEW N \in Nat, NEW g \in [1 .. N -> Int]
  PROVE  \E f : SumRun(N, g, f)
<1> DEFINE step == [p \in Int \X (1 .. N) |-> p[1] + g[p[2]]]
<1>1. step \in [Int \X (1 .. N) -> Int]
  OBVIOUS
<1>2. \A x \in Int, n \in 1 .. N : step[<<x, n>>] = x + g[n]
  OBVIOUS
<1> HIDE DEF step
<1> DEFINE X == Int
<1>3. PICK f : LoopRun(N, X, 0, step, f)
  <2>1. 0 \in X /\ step \in [X \X (1 .. N) -> X]
    BY <1>1
  <2> HIDE DEF X
  <2> QED BY <2>1, LoopExists
<1>4. f \in [0 .. N -> Int] /\ f[0] = 0
  BY <1>3 DEF LoopRun
<1>5. ASSUME NEW n \in 1 .. N PROVE f[n] = f[n - 1] + g[n]
  <2>1. f[n] = step[<<f[n - 1], n>>]
    BY <1>3 DEF LoopRun
  <2>2. f[n - 1] \in Int
    BY <1>4
  <2> QED BY <1>2, <2>1, <2>2
<1> QED BY <1>4, <1>5 DEF SumRun

\* It is the only one.
LEMMA SumRunUnique ==
  ASSUME NEW N \in Nat, NEW g, NEW f, NEW e, SumRun(N, g, f), SumRun(N, g, e)
  PROVE  f[N] = e[N]
<1> DEFINE S == {n \in 0 .. N : f[n] = e[n]}
<1>1. 0 \in S
  BY DEF SumRun
<1>2. ASSUME NEW n \in 0 .. N - 1, n \in S PROVE n + 1 \in S
  <2>1. PICK m : m = n + 1
    OBVIOUS
  <2>2. m \in 1 .. N /\ m - 1 = n /\ m \in 0 .. N
    BY <2>1
  <2>3. f[m] = f[m - 1] + g[m] /\ e[m] = e[m - 1] + g[m]
    BY <2>2 DEF SumRun
  <2>4. f[m - 1] = e[m - 1]
    BY <1>2, <2>2
  <2> QED BY <2>1, <2>2, <2>3, <2>4
<1> HIDE DEF S
<1>3. 0 .. N \subseteq S
  BY <1>1, <1>2, BoundedInduction
<1> QED BY <1>3 DEF S

\* So a sum has one value.
LEMMA SumUnique ==
  ASSUME NEW N \in Nat, NEW g, NEW u, NEW v, IsSum(N, g, u), IsSum(N, g, v)
  PROVE  u = v /\ u \in Int
<1>1. PICK f : SumRun(N, g, f) /\ f[N] = u
  BY DEF IsSum
<1>2. PICK e : SumRun(N, g, e) /\ e[N] = v
  BY DEF IsSum
<1>3. f[N] = e[N]
  BY <1>1, <1>2, SumRunUnique
<1>4. f[N] \in Int
  BY <1>1 DEF SumRun
<1> QED BY <1>1, <1>2, <1>3, <1>4

\* It does not depend on what follows the first N numbers.
LEMMA SumSame ==
  ASSUME NEW N \in Nat, NEW g, NEW h, \A n \in 1 .. N : h[n] = g[n],
         NEW v, IsSum(N, g, v)
  PROVE  IsSum(N, h, v)
BY DEF IsSum, SumRun

\* The sum of two sequences put together.
LEMMA SumConcat ==
  ASSUME NEW M \in Nat, NEW N \in Nat, NEW g, NEW h, NEW k,
         \A n \in 1 .. M : k[n] = g[n], \A n \in 1 .. N : k[M + n] = h[n],
         NEW u, NEW v, IsSum(M, g, u), IsSum(N, h, v)
  PROVE  IsSum(M + N, k, u + v)
<1>1. PICK f : SumRun(M, g, f) /\ f[M] = u
  BY DEF IsSum
<1>2. PICK e : SumRun(N, h, e) /\ e[N] = v
  BY DEF IsSum
<1>3. f \in [0 .. M -> Int] /\ f[0] = 0 /\ \A n \in 1 .. M : g[n] \in Int /\ f[n] = f[n - 1] + g[n]
  BY <1>1 DEF SumRun
<1>4. e \in [0 .. N -> Int] /\ e[0] = 0 /\ \A n \in 1 .. N : h[n] \in Int /\ e[n] = e[n - 1] + h[n]
  BY <1>2 DEF SumRun
<1>5. u \in Int /\ v \in Int
  BY <1>1, <1>2, <1>3, <1>4
<1> DEFINE d == [n \in 0 .. M + N |-> IF n <= M THEN f[n] ELSE u + e[n - M]]
<1>6. d \in [0 .. M + N -> Int]
  <2>1. ASSUME NEW n \in 0 .. M + N PROVE (IF n <= M THEN f[n] ELSE u + e[n - M]) \in Int
    <3>1. CASE n <= M
      BY <1>3, <3>1
    <3>2. CASE ~(n <= M)
      <4>1. n - M \in 0 .. N
        BY <3>2
      <4> QED BY <1>4, <1>5, <3>2, <4>1
    <3> QED BY <3>1, <3>2
  <2> QED BY <2>1
<1>7. \A n \in 0 .. M + N : d[n] = IF n <= M THEN f[n] ELSE u + e[n - M]
  OBVIOUS
<1> HIDE DEF d
<1>8. d[0] = 0
  BY <1>3, <1>7
<1>9. ASSUME NEW n \in 1 .. M + N PROVE k[n] \in Int /\ d[n] = d[n - 1] + k[n]
  <2>1. n \in 0 .. M + N /\ n - 1 \in 0 .. M + N
    OBVIOUS
  <2>2. CASE n <= M
    <3>1. d[n] = f[n] /\ d[n - 1] = f[n - 1]
      BY <1>7, <2>1, <2>2
    <3>2. n \in 1 .. M
      BY <2>2
    <3> QED BY <1>3, <3>1, <3>2
  <2>3. CASE ~(n <= M)
    <3>1. PICK i : i = n - M
      OBVIOUS
    <3>2. i \in 1 .. N /\ M + i = n /\ n - 1 - M = i - 1 /\ i - 1 \in 0 .. N
      BY <2>3, <3>1
    <3>3. d[n] = u + e[i]
      BY <1>7, <2>1, <2>3, <3>1
    <3>4. d[n - 1] = u + e[i - 1]
      <4>1. CASE n - 1 <= M
        <5>1. n - 1 = M /\ i - 1 = 0
          BY <2>3, <3>2, <4>1
        <5>2. d[n - 1] = f[M]
          BY <1>7, <2>1, <5>1
        <5> QED BY <1>1, <1>4, <1>5, <5>1, <5>2
      <4>2. CASE ~(n - 1 <= M)
        BY <1>7, <2>1, <3>2, <4>2
      <4> QED BY <4>1, <4>2
    <3>5. e[i] = e[i - 1] + h[i] /\ k[n] = h[i] /\ e[i - 1] \in Int /\ h[i] \in Int
      BY <1>4, <3>2
    <3> QED BY <1>5, <3>3, <3>4, <3>5
  <2> QED BY <2>2, <2>3
<1>10. d[M + N] = u + v
  <2>1. M + N \in 0 .. M + N
    OBVIOUS
  <2>2. CASE N = 0
    BY <1>1, <1>2, <1>4, <1>5, <1>7, <2>1, <2>2
  <2>3. CASE N # 0
    BY <1>2, <1>7, <2>1, <2>3
  <2> QED BY <2>2, <2>3
<1>11. SumRun(M + N, k, d)
  BY <1>6, <1>8, <1>9 DEF SumRun
<1> QED BY <1>10, <1>11 DEF IsSum

\* Nothing adds up to nothing.
LEMMA SumZero ==
  ASSUME NEW N \in Nat, NEW g, \A n \in 1 .. N : g[n] = 0
  PROVE  IsSum(N, g, 0)
<1> DEFINE z == [n \in 0 .. N |-> 0]
<1>1. z \in [0 .. N -> Int] /\ \A n \in 0 .. N : z[n] = 0
  OBVIOUS
<1> HIDE DEF z
<1>2. ASSUME NEW n \in 1 .. N PROVE g[n] \in Int /\ z[n] = z[n - 1] + g[n]
  <2>1. n \in 0 .. N /\ n - 1 \in 0 .. N
    OBVIOUS
  <2>2. z[n] = 0 /\ z[n - 1] = 0 /\ g[n] = 0
    BY <1>1, <2>1
  <2> QED BY <2>2
<1>3. SumRun(N, g, z)
  BY <1>1, <1>2 DEF SumRun
<1> QED BY <1>1, <1>3 DEF IsSum

\* The numbers of g at the places of S, and 0 elsewhere.
Masked(N, g, S) == [n \in 1 .. N |-> IF n \in S THEN g[n] ELSE 0]

\* A place more adds its number.
LEMMA SumMore ==
  ASSUME NEW N \in Nat, NEW g \in [1 .. N -> Int], NEW S, NEW x \in 1 .. N, x \notin S,
         NEW v, IsSum(N, Masked(N, g, S), v)
  PROVE  IsSum(N, Masked(N, g, S \cup {x}), v + g[x])
<1>1. PICK f : SumRun(N, Masked(N, g, S), f) /\ f[N] = v
  BY DEF IsSum
<1>2. /\ f \in [0 .. N -> Int] /\ f[0] = 0
      /\ \A n \in 1 .. N : f[n] = f[n - 1] + IF n \in S THEN g[n] ELSE 0
  BY <1>1 DEF SumRun, Masked
<1> DEFINE e == [n \in 0 .. N |-> f[n] + IF x <= n THEN g[x] ELSE 0]
<1>3. e \in [0 .. N -> Int] /\ \A n \in 0 .. N : e[n] = f[n] + IF x <= n THEN g[x] ELSE 0
  BY <1>2
<1> HIDE DEF e
<1>4. e[0] = 0
  BY <1>2, <1>3
<1>5. ASSUME NEW n \in 1 .. N
      PROVE  e[n] = e[n - 1] + IF n \in S \cup {x} THEN g[n] ELSE 0
  <2>1. n - 1 \in 0 .. N /\ n \in 0 .. N /\ f[n - 1] \in Int /\ g[n] \in Int /\ g[x] \in Int
    BY <1>2
  <2>2. e[n] = f[n] + (IF x <= n THEN g[x] ELSE 0)
        /\ e[n - 1] = f[n - 1] + IF x <= n - 1 THEN g[x] ELSE 0
    BY <1>3, <2>1
  <2>3. f[n] = f[n - 1] + IF n \in S THEN g[n] ELSE 0
    BY <1>2
  <2>4. CASE n = x
    BY <2>1, <2>2, <2>3, <2>4
  <2>5. CASE n # x
    <3>1. x <= n <=> x <= n - 1
      BY <2>5
    <3>2. n \in S \cup {x} <=> n \in S
      BY <2>5
    <3> QED BY <2>1, <2>2, <2>3, <3>1, <3>2
  <2> QED BY <2>4, <2>5
<1>6. e[N] = v + g[x]
  BY <1>1, <1>3
<1>7. SumRun(N, Masked(N, g, S \cup {x}), e)
  BY <1>3, <1>4, <1>5 DEF SumRun, Masked
<1> QED BY <1>6, <1>7 DEF IsSum

\* p picks the K places S of 1 .. N, each once.
Picks(p, K, N, S) ==
  /\ p \in [1 .. K -> 1 .. N]
  /\ \A i, j \in 1 .. K : p[i] = p[j] => i = j
  /\ \A m \in 1 .. N : m \in S <=> \E i \in 1 .. K : p[i] = m

\* The numbers of g picked by p, no place twice, add up to those of g at these places.
LEMMA SumPicked ==
  ASSUME NEW N \in Nat, NEW g \in [1 .. N -> Int], NEW K \in Nat, NEW S,
         NEW p, Picks(p, K, N, S),
         NEW h, \A n \in 1 .. K : h[n] = g[p[n]],
         NEW v, IsSum(K, h, v)
  PROVE  IsSum(N, Masked(N, g, S), v)
<1>0. p \in [1 .. K -> 1 .. N] /\ \A i, j \in 1 .. K : p[i] = p[j] => i = j
  BY DEF Picks
<1> DEFINE Img(j) == {m \in 1 .. N : \E i \in 1 .. j : p[i] = m}
           k == [n \in 1 .. K |-> g[p[n]]]
<1>1. k \in [1 .. K -> Int] /\ \A n \in 1 .. K : k[n] = h[n] /\ k[n] = g[p[n]]
  BY <1>0
<1> HIDE DEF k
<1>2. PICK f : SumRun(K, k, f)
  BY <1>1, SumRunExists
<1>3. /\ f \in [0 .. K -> Int] /\ f[0] = 0
      /\ \A n \in 1 .. K : f[n] = f[n - 1] + k[n]
  BY <1>2 DEF SumRun
<1> DEFINE Good(j) == IsSum(N, Masked(N, g, Img(j)), f[j])
           T == {j \in 0 .. K : Good(j)}
<1>4. 0 \in T
  <2>1. Img(0) = {}
    OBVIOUS
  <2>2. \A n \in 1 .. N : Masked(N, g, {})[n] = 0
    BY DEF Masked
  <2>3. IsSum(N, Masked(N, g, {}), 0)
    BY <2>2, SumZero
  <2> HIDE DEF Img
  <2>4. Good(0)
    BY <1>3, <2>1, <2>3
  <2> HIDE DEF Good
  <2> QED BY <2>4
<1>5. ASSUME NEW j \in 0 .. K - 1, j \in T PROVE j + 1 \in T
  <2>1. PICK m : m = j + 1
    OBVIOUS
  <2>2. m \in 1 .. K /\ m - 1 = j /\ m \in 0 .. K /\ p[m] \in 1 .. N
    BY <1>0, <2>1
  <2>3. p[m] \notin Img(j)
    <3>1. \A i \in 1 .. j : i \in 1 .. K /\ i # m
      BY <2>1
    <3> QED BY <1>0, <2>2, <3>1
  <2>4. Img(m) = Img(j) \cup {p[m]}
    <3>1. \A i : i \in 1 .. m <=> i \in 1 .. j \/ i = m
      <4>1. j \in Nat /\ m \in 1 .. m /\ \A i \in 1 .. j : i \in 1 .. m
        BY <2>1
      <4>2. \A i \in 1 .. m : i \in 1 .. j \/ i = m
        BY <2>1, <4>1
      <4> QED BY <4>1, <4>2
    <3>2. ASSUME NEW x \in 1 .. N PROVE x \in Img(m) <=> x \in Img(j) \/ x = p[m]
      BY <3>1
    <3>3. Img(m) \subseteq 1 .. N /\ Img(j) \subseteq 1 .. N
      OBVIOUS
    <3> HIDE DEF Img
    <3> QED BY <2>2, <3>2, <3>3
  <2>5. IsSum(N, Masked(N, g, Img(j)), f[j])
    BY <1>5
  <2> HIDE DEF Img
  <2>6. IsSum(N, Masked(N, g, Img(m)), f[j] + g[p[m]])
    <3>1. PICK A, x, w : A = Img(j) /\ x = p[m] /\ w = f[j]
      OBVIOUS
    <3>2. IsSum(N, Masked(N, g, A \cup {x}), w + g[x])
      BY <2>2, <2>3, <2>5, <3>1, SumMore
    <3> QED BY <2>4, <3>1, <3>2
  <2>7. f[m] = f[j] + g[p[m]]
    BY <1>1, <1>3, <2>2
  <2>8. Good(m)
    BY <2>6, <2>7
  <2> HIDE DEF Good
  <2> QED BY <2>1, <2>2, <2>8
<1> HIDE DEF T
<1>6. K \in T
  <2>1. 0 .. K \subseteq T
    BY <1>4, <1>5, BoundedInduction
  <2> QED BY <2>1
<1>7. IsSum(N, Masked(N, g, Img(K)), f[K])
  <2>1. Good(K)
    <3> HIDE DEF Good
    <3> QED BY <1>6 DEF T
  <2> HIDE DEF Img
  <2> QED BY <2>1
<1>8. f[K] = v
  <2>1. SumRun(K, h, f)
    BY <1>1, <1>2 DEF SumRun
  <2>2. IsSum(K, h, f[K])
    BY <2>1 DEF IsSum
  <2> QED BY <2>2, SumUnique
<1>9. \A n \in 1 .. N : n \in S <=> n \in Img(K)
  BY DEF Picks
<1> HIDE DEF Img
<1>10. Masked(N, g, S) = Masked(N, g, Img(K))
  BY <1>9 DEF Masked
<1> QED BY <1>7, <1>8, <1>10

\* A permutation of the numbers has the same sum.
LEMMA SumPermuted ==
  ASSUME NEW N \in Nat, NEW g \in [1 .. N -> Int], NEW p \in [1 .. N -> 1 .. N],
         \A i, j \in 1 .. N : p[i] = p[j] => i = j,
         \A m \in 1 .. N : \E i \in 1 .. N : p[i] = m,
         NEW h, \A n \in 1 .. N : h[n] = g[p[n]],
         NEW v, IsSum(N, g, v)
  PROVE  IsSum(N, h, v)
<1>1. PICK k : k = [n \in 1 .. N |-> g[p[n]]]
  OBVIOUS
<1>2. k \in [1 .. N -> Int] /\ \A n \in 1 .. N : k[n] = h[n] /\ k[n] = g[p[n]]
  BY <1>1
<1>3. PICK f : SumRun(N, k, f)
  BY <1>2, SumRunExists
<1>4. PICK u : u = f[N] /\ IsSum(N, h, u)
  <2>1. IsSum(N, k, f[N])
    BY <1>3 DEF IsSum
  <2>2. IsSum(N, h, f[N])
    BY <1>2, <2>1, SumSame
  <2> QED BY <2>2
<1>5. PICK S : S = 1 .. N
  OBVIOUS
<1>6. PICK q : q = Masked(N, g, S) /\ IsSum(N, q, u)
  <2>1. PICK K \in Nat : K = N
    OBVIOUS
  <2>2. Picks(p, K, N, S)
    BY <1>5, <2>1 DEF Picks
  <2>3. IsSum(K, h, u) /\ \A n \in 1 .. K : h[n] = g[p[n]]
    BY <1>4, <2>1
  <2>4. IsSum(N, Masked(N, g, S), u)
    BY <2>2, <2>3, SumPicked
  <2> QED BY <2>4
<1>7. \A n \in 1 .. N : g[n] = q[n]
  BY <1>5, <1>6 DEF Masked
<1>8. IsSum(N, g, u)
  BY <1>6, <1>7, SumSame
<1>9. u = v
  BY <1>8, SumUnique
<1> QED BY <1>4, <1>9

\* The sum of the sums, place by place.
LEMMA SumAdd ==
  ASSUME NEW N \in Nat, NEW g, NEW h, NEW k, \A n \in 1 .. N : k[n] = g[n] + h[n],
         NEW u, NEW v, IsSum(N, g, u), IsSum(N, h, v)
  PROVE  IsSum(N, k, u + v)
<1>1. PICK f : SumRun(N, g, f) /\ f[N] = u
  BY DEF IsSum
<1>2. PICK e : SumRun(N, h, e) /\ e[N] = v
  BY DEF IsSum
<1>3. /\ f \in [0 .. N -> Int] /\ f[0] = 0
      /\ \A n \in 1 .. N : g[n] \in Int /\ f[n] = f[n - 1] + g[n]
  BY <1>1 DEF SumRun
<1>4. /\ e \in [0 .. N -> Int] /\ e[0] = 0
      /\ \A n \in 1 .. N : h[n] \in Int /\ e[n] = e[n - 1] + h[n]
  BY <1>2 DEF SumRun
<1> DEFINE d == [n \in 0 .. N |-> f[n] + e[n]]
<1>5. d \in [0 .. N -> Int] /\ \A n \in 0 .. N : d[n] = f[n] + e[n]
  BY <1>3, <1>4
<1> HIDE DEF d
<1>6. ASSUME NEW n \in 1 .. N PROVE k[n] \in Int /\ d[n] = d[n - 1] + k[n]
  <2>1. n \in 0 .. N /\ n - 1 \in 0 .. N
    OBVIOUS
  <2>2. f[n - 1] \in Int /\ e[n - 1] \in Int /\ g[n] \in Int /\ h[n] \in Int
    BY <1>3, <1>4, <2>1
  <2>3. d[n] = f[n] + e[n] /\ d[n - 1] = f[n - 1] + e[n - 1]
    BY <1>5, <2>1
  <2>4. f[n] = f[n - 1] + g[n] /\ e[n] = e[n - 1] + h[n]
    BY <1>3, <1>4
  <2> QED BY <2>2, <2>3, <2>4
<1>7. d[0] = 0 /\ d[N] = u + v
  BY <1>1, <1>2, <1>3, <1>4, <1>5
<1>8. SumRun(N, k, d)
  BY <1>5, <1>6, <1>7 DEF SumRun
<1> QED BY <1>7, <1>8 DEF IsSum

\* The numbers at the places of S and those at the other places.
LEMMA SumParts ==
  ASSUME NEW N \in Nat, NEW g \in [1 .. N -> Int], NEW S, NEW T,
         \A n \in 1 .. N : n \in T <=> n \notin S,
         NEW u, NEW v, IsSum(N, Masked(N, g, S), u), IsSum(N, Masked(N, g, T), v)
  PROVE  IsSum(N, g, u + v)
<1>1. PICK a, b : a = Masked(N, g, S) /\ b = Masked(N, g, T)
  OBVIOUS
<1>2. \A n \in 1 .. N : g[n] = a[n] + b[n]
  BY <1>1 DEF Masked
<1>3. IsSum(N, a, u) /\ IsSum(N, b, v)
  BY <1>1
<1> QED BY <1>2, <1>3, SumAdd

(* ------------------------- counting and sorting ------------------------ *)

\* Sets whose elements correspond one to one have the same number of elements.
LEMMA SameNumber ==
  ASSUME NEW S, NEW T, IsFiniteSet(S), NEW f \in [S -> T],
         \A x, y \in S : f[x] = f[y] => x = y, \A t \in T : \E x \in S : f[x] = t
  PROVE  IsFiniteSet(T) /\ Cardinality(T) = Cardinality(S)
<1>1. f \in Injection(S, T) /\ f \in Surjection(S, T)
  BY DEF Injection, IsInjective, Surjection
<1>2. ExistsBijection(S, T)
  BY <1>1 DEF ExistsBijection, Bijection
<1> QED BY <1>2, FS_Bijection

\* R orders S strictly and totally.
StrictOrder(R, S) ==
  /\ \A x \in S : <<x, x>> \notin R
  /\ \A x, y \in S : x # y => <<x, y>> \in R \/ <<y, x>> \in R
  /\ \A x, y, z \in S : <<x, y>> \in R /\ <<y, z>> \in R => <<x, z>> \in R

\* The elements of S before x.
Preceding(S, R, x) == {y \in S : <<y, x>> \in R}

\* The number of elements before x grows along the order.
LEMMA OrderPlaces ==
  ASSUME NEW S, IsFiniteSet(S), NEW R, StrictOrder(R, S)
  PROVE  /\ Cardinality(S) \in Nat
         /\ \A x : Cardinality(Preceding(S, R, x)) \in Nat
         /\ \A x \in S : Cardinality(Preceding(S, R, x)) < Cardinality(S)
         /\ \A x, y \in S : <<x, y>> \in R =>
              Cardinality(Preceding(S, R, x)) < Cardinality(Preceding(S, R, y))
<1>1. Cardinality(S) \in Nat
  BY FS_CardinalityType
<1>2. ASSUME NEW x PROVE IsFiniteSet(Preceding(S, R, x)) /\ Cardinality(Preceding(S, R, x)) \in Nat
  <2>1. Preceding(S, R, x) \in SUBSET S
    BY DEF Preceding
  <2>2. IsFiniteSet(Preceding(S, R, x))
    BY <2>1, FS_Subset
  <2> QED BY <2>2, FS_CardinalityType
<1>3. ASSUME NEW x \in S PROVE Cardinality(Preceding(S, R, x)) < Cardinality(S)
  <2>1. Preceding(S, R, x) \in SUBSET S /\ Preceding(S, R, x) # S
    BY DEF Preceding, StrictOrder
  <2>2. /\ Cardinality(Preceding(S, R, x)) <= Cardinality(S)
        /\ Cardinality(Preceding(S, R, x)) # Cardinality(S)
    BY <2>1, FS_Subset
  <2> QED BY <1>1, <1>2, <2>2
<1>4. ASSUME NEW x \in S, NEW y \in S, <<x, y>> \in R
      PROVE  Cardinality(Preceding(S, R, x)) < Cardinality(Preceding(S, R, y))
  <2>1. Preceding(S, R, x) \in SUBSET Preceding(S, R, y)
    BY <1>4 DEF Preceding, StrictOrder
  <2>2. x \in Preceding(S, R, y) /\ x \notin Preceding(S, R, x)
    BY <1>4 DEF Preceding, StrictOrder
  <2>3. /\ Cardinality(Preceding(S, R, x)) <= Cardinality(Preceding(S, R, y))
        /\ Cardinality(Preceding(S, R, x)) # Cardinality(Preceding(S, R, y))
    BY <1>2, <2>1, <2>2, FS_Subset
  <2> QED BY <1>2, <2>3
<1> QED BY <1>1, <1>2, <1>3, <1>4

\* Every place is some element's.
LEMMA OrderPlaceTaken ==
  ASSUME NEW S, IsFiniteSet(S), NEW R, StrictOrder(R, S), NEW p \in 1 .. Cardinality(S)
  PROVE  \E x \in S : Cardinality(Preceding(S, R, x)) = p - 1
<1>1. PICK n \in Nat : n = Cardinality(S)
  BY OrderPlaces
<1>2. PICK T : T = 0 .. n - 1
  OBVIOUS
<1>3. IsFiniteSet(T) /\ Cardinality(T) = n
  BY <1>2, FS_Interval
<1>4. PICK f : f = [x \in S |-> Cardinality(Preceding(S, R, x))]
  OBVIOUS
<1>5. f \in [S -> T]
  <2>1. \A x \in S : Cardinality(Preceding(S, R, x)) \in Nat /\ Cardinality(Preceding(S, R, x)) < n
    BY <1>1, OrderPlaces
  <2>2. \A x \in S : Cardinality(Preceding(S, R, x)) \in T
    BY <1>2, <2>1
  <2> QED BY <1>4, <2>2
<1>6. \A x, y \in S : f[x] = f[y] => x = y
  <2> SUFFICES ASSUME NEW x \in S, NEW y \in S, f[x] = f[y] PROVE x = y
    OBVIOUS
  <2>1. /\ Cardinality(Preceding(S, R, x)) = Cardinality(Preceding(S, R, y))
        /\ Cardinality(Preceding(S, R, x)) \in Nat
    BY <1>4, OrderPlaces
  <2>2. <<x, y>> \notin R /\ <<y, x>> \notin R
    BY <2>1, OrderPlaces
  <2> QED BY <2>2 DEF StrictOrder
<1>7. f \in Injection(S, T)
  BY <1>5, <1>6 DEF Injection, IsInjective
<1>8. f \in Surjection(S, T)
  BY <1>1, <1>3, <1>7, FS_Injection
<1>9. p - 1 \in T
  BY <1>1, <1>2
<1>10. PICK x \in S : f[x] = p - 1
  BY <1>8, <1>9 DEF Surjection
<1> QED BY <1>4, <1>10

\* A finite set that is not empty has a first element.
LEMMA OrderFirst ==
  ASSUME NEW S, IsFiniteSet(S), S # {}, NEW R, StrictOrder(R, S)
  PROVE  \E x \in S : \A y \in S \ {x} : <<x, y>> \in R
<1>1. Cardinality(S) \in Nat /\ Cardinality(S) # 0
  BY FS_CardinalityType, FS_EmptySet
<1>2. PICK x \in S : Cardinality(Preceding(S, R, x)) = 0
  <2>1. 1 \in 1 .. Cardinality(S)
    BY <1>1
  <2>2. \E x \in S : Cardinality(Preceding(S, R, x)) = 1 - 1
    BY <2>1, OrderPlaceTaken
  <2> QED BY <2>2
<1>3. IsFiniteSet(Preceding(S, R, x))
  <2>1. Preceding(S, R, x) \in SUBSET S
    BY DEF Preceding
  <2> QED BY <2>1, FS_Subset
<1>4. Preceding(S, R, x) = {}
  BY <1>2, <1>3, FS_EmptySet
<1>5. ASSUME NEW y \in S \ {x} PROVE <<x, y>> \in R
  <2>1. <<y, x>> \notin R
    BY <1>4 DEF Preceding
  <2> QED BY <2>1 DEF StrictOrder
<1> QED BY <1>5

\* p arranges the n places in the order R.
Arranges(p, n, R) ==
  /\ p \in [1 .. n -> 1 .. n]
  /\ \A i, j \in 1 .. n : p[i] = p[j] => i = j
  /\ \A m \in 1 .. n : \E i \in 1 .. n : p[i] = m
  /\ \A i, j \in 1 .. n : i < j => <<p[i], p[j]>> \in R
=============================================================================
