-------------------------- MODULE MCSettlementFold --------------------------
(* A customer and a second account, an employer (10) and a merchant (11).  *)
EXTENDS SettlementFold

MCExternal == [x \in {10, 11} |-> "generic"]
MCSeeds == [i \in {0, 1} |->
  [cash |-> 1, fee |-> 1, type |-> IF i = 0 THEN "courtesy" ELSE "loc",
   buffer |-> 2, rate |-> 1, burden |-> 1, limit |-> 0]]

Row(id, t, chan) ==
  [audit |-> id, ts |-> t, chan |-> chan, amount |-> 3,
   src |-> IF chan \in {"salary", "refund"} THEN 10 ELSE IF chan = "gift" THEN 1 ELSE 0,
   dst |-> IF chan \in {"salary", "refund", "gift"} THEN 0 ELSE IF chan = "p2p" THEN 1 ELSE 11]

Bills == {Row(t, t, "bill") : t \in 1 .. 4}
\* The last one after the end of the run.
Salaries == {Row(8 + t, t, "salary") : t \in 2 .. 6}
Pool == Bills \cup {Row(4 + t, t, "p2p") : t \in {1, 2, 4}}
              \cup Salaries
              \cup {Row(13 + t, t, "gift") : t \in {2}}

Pick(n, S) == {s \in UNION {[1 .. m -> S] : m \in 1 .. n} :
                 \A i, j \in DOMAIN s : i < j => FundsLess(s[i], s[j])}
\* Before the fraud rows are there, and after.
Legit(s) == [cand |-> s, fraud |-> << >>, emit |-> TRUE]
Merged(s, f) == [cand |-> s, fraud |-> f, emit |-> FALSE]

\* Overdrawn once on the first day and three times on the second, a fee each time.
Repaid(id, t) == [Row(id, t, "salary") EXCEPT !.amount = 4]
Overdrawn ==
  <<Row(1, 1, "bill"), Repaid(21, 2), Row(2, 3, "bill"), Repaid(22, 3),
    Row(3, 4, "bill"), Repaid(23, 4), Row(4, 5, "bill")>>

\* The second bill is unfunded, and the salary and the refund of the other stream may
\* both cure it.
TwoBillsOneSalary ==
  {s \in Pick(3, Bills \cup Salaries) :
     Len(s) = 3 /\ Cardinality({n \in DOMAIN s : s[n].chan = "salary"}) = 1}

OneOrTwoStreams ==
  {Legit(s) : s \in Pick(3, Pool) \cup {Overdrawn}}
    \cup {Merged(s, <<Row(20, t, "refund")>>) : s \in Pick(2, Bills \cup Salaries) \cup TwoBillsOneSalary, t \in 2 .. 6}

\* No run of the instance takes a fifth draw.
AllCoins == SUBSET (1 .. 4)
\* The last span of the third is shorter than the lookahead.
MCSchedules == {<<1, 3, 6>>, <<1, 2, 4, 6>>, <<1, 5, 6>>}
=============================================================================
