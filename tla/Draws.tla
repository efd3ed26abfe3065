------------------------------- MODULE Draws --------------------------------
(***************************************************************************)
(* Random draws and small helpers.                                         *)
(*                                                                         *)
(* A draw is resolved by the policy d of the step: num says which end of   *)
(* its range a number takes, coin and pick do the same for coins and       *)
(* choices, and the parity of a draw's ordinal lets neighbouring draws     *)
(* take opposite ends.  Every range keeps the bounds of the code.          *)
(***************************************************************************)
EXTENDS Integers, Sequences, FiniteSets, TLC

(***************************************************************************)
(* A left fold over a sequence as a recursive function on its length.      *)
(* FoldLeft of SequencesExt takes the same arguments and has the same      *)
(* value; it recurses over the subsets of the domain, which is too slow    *)
(* for folds inside the next-state relation.  What is folded so far is     *)
(* bound in a set of one element and compared with itself, so that TLC     *)
(* evaluates it whole before op, and the items are taken in blocks, so     *)
(* that its recursion is not deep.                                         *)
(***************************************************************************)

Block == 16
Fold(op(_, _), base, s) ==
  LET Run(x, lo, hi) ==
        LET f[i \in lo - 1 .. hi] ==
              IF i = lo - 1 THEN x ELSE CHOOSE y \in {op(z, s[i]) : z \in {f[i - 1]}} : y = y
        IN f[hi]
      full == Len(s) \div Block
      g[b \in 0 .. full] ==
        IF b = 0 THEN base
        ELSE CHOOSE y \in {Run(x, Block * (b - 1) + 1, Block * b) : x \in {g[b - 1]}} : TRUE
  IN Run(g[full], Block * full + 1, Len(s))

\* The rows of a sequence of sequences, and of what f makes of each item.
Flat(ss) == Fold(LAMBDA acc, x : acc \o x, <<>>, ss)
Concat(f(_), s) == Flat([i \in DOMAIN s |-> f(s[i])])

-----------------------------------------------------------------------------

Least(S) == CHOOSE x \in S : \A y \in S : x <= y
Nth(S, n) == CHOOSE x \in S : Cardinality({y \in S : y < x}) = n
The(S) == CHOOSE x \in S : TRUE
Lesser(a, b) == IF a < b THEN a ELSE b
Greater(a, b) == IF a > b THEN a ELSE b
Clamp(x, lo, hi) == Greater(lo, Lesser(hi, x))
Indices(s) == [i \in DOMAIN s |-> i]

UniformInt(d, k, lo, hi) ==   \* Rng::uniformInt, hi exclusive
  IF d.num = "lo" \/ (d.num = "odd" /\ k % 2 = 0) \/ (d.num = "even" /\ k % 2 = 1)
  THEN lo ELSE hi - 1
Coin(d, k) == d.coin = "yes" \/ (d.coin = "alt" /\ k % 2 = 1)
PickOne(d, k, s) ==
  CASE d.pick = "first" -> s[1] [] d.pick = "last" -> s[Len(s)]
    [] d.pick = "rotate" -> s[1 + (k % Len(s))]
PickK(d, s, k) ==
  LET n == Lesser(k, Len(s))
  IN CASE d.pick = "first" -> SubSeq(s, 1, n)
       [] d.pick = "last" -> [i \in 1 .. n |-> s[Len(s) + 1 - i]]
       [] d.pick = "rotate" -> [i \in 1 .. n |-> s[1 + (i % Len(s))]]
=============================================================================
