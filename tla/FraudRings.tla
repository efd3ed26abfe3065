----------------------------- MODULE FraudRings -----------------------------
(***************************************************************************)
(* What a fraud ring does: the plan of a ring (rings.hpp), the playbooks   *)
(* and their budgets, the nine typologies and the camouflage.              *)
(*                                                                         *)
(* A random draw is resolved by the policy d of the step (Draws).  Time is *)
(* in minutes, money in cents.                                             *)
(***************************************************************************)
EXTENDS AccessInfra

CONSTANTS PriceScale(_),     \* synth::econ::priceScale at a time, in percent
          BillerAccounts,    \* AccountPools
          DepositAccounts,
          EmployerAccounts,
          PayDates           \* paydatesForProfile of the employers

(* -------------------------------- draws -------------------------------- *)

FraudAmount(d, k) == UniformInt(d, k, 5000, 90001)     \* math::amounts::kFraud

(* ------------------------------- schedule ------------------------------ *)

\* calculateIllicitBudget, for a ratio in percent.
IllicitBudget(percent, legit) ==
  IF percent <= 0 \/ legit <= 0 THEN 0
  ELSE (2 * percent * legit + (100 - percent)) \div (2 * (100 - percent))

SampleBurst(cx, d, pad, lo, hi) ==
  [base |-> cx.start + UniformInt(d, d.day, 0, Greater(1, cx.days - pad) + 1) * Day,
   days |-> UniformInt(d, 1, lo, hi + 1)]
SampleTimestamp(d, k, base, days, from, to) ==
  base + UniformInt(d, k, 0, Greater(1, days) + 1) * Day
       + UniformInt(d, k, from, to + 1) * 60 + UniformInt(d, k, 0, 61)

(* ------------------------------ ring plans ----------------------------- *)

\* participantsAliveEnd: the first death among the fraudsters and the mules.
ParticipantsAliveEnd(deaths, frauds, mules) ==
  Fold(LAMBDA end, p : Lesser(end, deaths[p]), 100000 * Day, frauds \o mules)
CollectKeys(primary, persons) == [i \in DOMAIN persons |-> primary[persons[i]]]

\* buildPlan
BuildPlan(ring, primary, shells, deaths) ==
  [ring |-> ring.id, frauds |-> CollectKeys(primary, ring.frauds),
   shells |-> CollectKeys(primary, SelectSeq(ring.frauds, LAMBDA p : p \in shells)),
   mules |-> CollectKeys(primary, ring.mules), victims |-> CollectKeys(primary, ring.victims),
   aliveEnd |-> ParticipantsAliveEnd(deaths, ring.frauds, ring.mules)]
Participants(pl) == pl.frauds \o pl.mules

(* ------------------------------ playbooks ------------------------------ *)

Phase(typology, percent) == [typology |-> typology, percent |-> percent]
PurePlaybook(typology) == <<Phase(typology, 100)>>
PlacementToIntegration == <<Phase("structuring", 25), Phase("layering", 55), Phase("invoice", 20)>>
SmurfThenLayer == <<Phase("structuring", 40), Phase("layering", 60)>>
RapidFunnelMule == <<Phase("structuring", 20), Phase("mule", 65), Phase("funnel", 15)>>
ShellLaundering == <<Phase("layering", 65), Phase("invoice", 35)>>
ClassicWithLayering == <<Phase("classic", 45), Phase("layering", 55)>>
ScatterGatherWithLayering == <<Phase("scatterGather", 45), Phase("layering", 55)>>
BipartiteWeb == <<Phase("bipartite", 50), Phase("scatterGather", 30), Phase("invoice", 20)>>
MixingService == <<Phase("structuring", 20), Phase("cycle", 40), Phase("scatterGather", 40)>>

(* ------------------------- rows and chain ids -------------------------- *)
\* cx is the IllicitContext: start and days of the ring's window, and next, the
\* next chain id.

ChainSpan == 65536
SeedChainIds(ring) == ring * ChainSpan + 1
NominalAt(amount, ts) == (amount * PriceScale(ts)) \div 100
Draft(pl, src, dst, amount, ts, chan, chain) ==
  [src |-> src, dst |-> dst, amount |-> amount, ts |-> ts, chan |-> chan, fraud |-> TRUE,
   ring |-> pl.ring, chain |-> chain]
Scaled(pl, src, dst, amount, ts, chan, chain) ==
  Draft(pl, src, dst, NominalAt(amount, ts), ts, chan, chain)

\* appendBoundedTxn: rows beyond the budget are refused.
Bounded(rows, budget) == SubSeq(rows, 1, Lesser(budget, Len(rows)))
OneChain(cx, rows, budget) == [rows |-> Bounded(rows, budget), next |-> cx.next + 1]
NoRows(cx) == [rows |-> <<>>, next |-> cx.next]

Taken(acc, rows, budget) ==
  IF rows = <<>> THEN acc
  ELSE [rows |-> Bounded(acc.rows \o rows, budget), next |-> acc.next + 1]

\* A loop that allocates a chain id for each item it emits rows for, and stops
\* when the budget is spent.
ChainPerItem(cx, n, budget, rowsOf(_, _)) ==
  Fold(LAMBDA acc, i :
         IF Len(acc.rows) >= budget THEN acc ELSE Taken(acc, rowsOf(i, acc.next), budget),
       NoRows(cx), [i \in 1 .. n |-> i])

(* ------------------------- classic and bipartite ----------------------- *)

VictimToMule(cx, pl, burst, d) ==
  Concat(LAMBDA i : IF pl.mules = <<>> \/ ~Coin(d, i) THEN <<>>
                    ELSE <<Scaled(pl, pl.victims[i], PickOne(d, i, pl.mules), FraudAmount(d, i),
                                  SampleTimestamp(d, i, burst.base, burst.days, 8, 22), "classic", cx.next)>>,
         Indices(pl.victims))
MuleToFraud(cx, pl, burst, d) ==
  Concat(LAMBDA i : IF pl.frauds = <<>> THEN <<>>
                    ELSE [k \in 1 .. UniformInt(d, i, 2, 7) |->
                            Scaled(pl, pl.mules[i], PickOne(d, k, pl.frauds), FraudAmount(d, k),
                                   SampleTimestamp(d, k, burst.base, Lesser(3, burst.days), 0, 24),
                                   "classic", cx.next)],
         Indices(pl.mules))
Classic(cx, pl, budget, d) ==
  LET burst == SampleBurst(cx, d, 7, 2, 6)
  IN OneChain(cx, VictimToMule(cx, pl, burst, d) \o MuleToFraud(cx, pl, burst, d), budget)

SourcePool(pl) == IF pl.mules # <<>> THEN pl.mules ELSE pl.frauds
Bipartite(cx, pl, budget, d) ==
  LET burst == SampleBurst(cx, d, 7, 2, 5)
      sources == PickK(d, SourcePool(pl), UniformInt(d, 1, 3, 9))
      dests == PickK(d, pl.frauds, UniformInt(d, 2, 3, 9))
      edge(i, j) == IF sources[i] = dests[j] \/ ~Coin(d, i + j) THEN <<>>
                    ELSE <<Scaled(pl, sources[i], dests[j], FraudAmount(d, i),
                                  SampleTimestamp(d, j, burst.base, burst.days, 0, 24), "bipartite", cx.next)>>
  IN IF Len(SourcePool(pl)) < 2 \/ Len(pl.frauds) < 2 THEN Classic(cx, pl, budget, d)
     ELSE OneChain(cx, Concat(LAMBDA i : Concat(LAMBDA j : edge(i, j), Indices(dests)), Indices(sources)), budget)

(* ------------------------ structuring and invoice ---------------------- *)

SmurfAmount(d, k) == IF Coin(d, k) THEN 990000 + UniformInt(d, k, 0, 5000) ELSE UniformInt(d, k, 30000, 150000)
SecondaryTarget(d, pl, primary) ==
  LET pool == IF pl.frauds # <<>> THEN pl.frauds ELSE pl.mules
      others == SelectSeq([k \in 1 .. 6 |-> PickOne(d, k, pool)], LAMBDA x : x # primary)
  IN IF others = <<>> THEN primary ELSE others[1]
Structuring(cx, pl, budget, d) ==
  LET burst == SampleBurst(cx, d, 10, 3, 8)
      primary == PickOne(d, 1, IF pl.mules # <<>> THEN pl.mules ELSE pl.frauds)
      secondary == SecondaryTarget(d, pl, primary)
      span == Greater(1, Lesser(2, burst.days))
      base(i) == burst.base + UniformInt(d, i, 0, Greater(1, burst.days - span) + 1) * Day
      smurf(i, chain) ==
        IF ~Coin(d, i) THEN <<>>
        ELSE [k \in 1 .. UniformInt(d, i, 3, 13) |->
                Draft(pl, pl.victims[i], IF Coin(d, k) THEN secondary ELSE primary, SmurfAmount(d, k),
                      SampleTimestamp(d, k, base(i), span, 8, 22), "structuring", chain)]
  IN IF pl.mules = <<>> /\ pl.frauds = <<>> THEN NoRows(cx)
     ELSE ChainPerItem(cx, Len(pl.victims), budget, smurf)

\* Weekly fake invoices from a base date in the first days - 14 of the window.
Invoice(cx, pl, budget, d) ==
  LET base == cx.start + UniformInt(d, d.day, 0, Greater(1, cx.days - 14) + 1) * Day
      weeks == Greater(1, Lesser(6, cx.days \div 7))
      ts(k) == base + 7 * UniformInt(d, k, 0, weeks + 1) * Day + UniformInt(d, k, 9, 19) * 60
                    + UniformInt(d, k, 0, 61)
  IN IF pl.frauds = <<>> \/ BillerAccounts = <<>> THEN NoRows(cx)
     ELSE OneChain(cx, [k \in 1 .. UniformInt(d, 1, 3, 11) |->
                          Draft(pl, PickOne(d, k, pl.frauds), PickOne(d, k, BillerAccounts),
                                ((NominalAt(FraudAmount(d, k), ts(k)) + 500) \div 1000) * 1000, ts(k), "invoice", cx.next)],
                   budget)

(* --------------------------- cycle and mule ---------------------------- *)

Cycle(cx, pl, budget, d) ==
  LET burst == SampleBurst(cx, d, 7, 2, 6)
      nodes == PickK(d, Participants(pl), UniformInt(d, 1, 3, 8))
      n == Len(nodes)
      hops == n * UniformInt(d, 2, 2, 6)
      start == SampleTimestamp(d, 1, burst.base, burst.days, 0, 24)
      ts[k \in 0 .. hops] ==
        IF k = 0 THEN start
        ELSE ts[k - 1] + UniformInt(d, k, 5, 181)
             + (IF k > 1 /\ (k - 1) % n = 0 THEN UniformInt(d, k, 60, 721) ELSE 0)
      left[k \in 0 .. n] == IF k = 0 THEN Greater(1000, FraudAmount(d, 1))
                            ELSE (left[k - 1] * (100 - UniformInt(d, k, 1, 4))) \div 100
  IN IF Len(Participants(pl)) < 3 THEN Classic(cx, pl, budget, d)
     ELSE OneChain(cx, [k \in 1 .. hops |->
                          Scaled(pl, nodes[1 + ((k - 1) % n)], nodes[1 + (k % n)], left[1 + ((k - 1) % n)],
                                 ts[k], "cycle", cx.next)], budget)

\* (mutant: the forward is stamped from the start of the burst)
ForwardFromBurst(pl, burst, d, i, chain, targets, k, src) ==
  LET mule == pl.mules[i]
      ts == SampleTimestamp(d, k, burst.base, burst.days, 7, 22)
      amount == Greater(5000, FraudAmount(d, k))
  IN <<Scaled(pl, src, mule, amount, ts, "muleIn", chain),
       Scaled(pl, mule, targets[1], (amount * 92) \div 100, burst.base + UniformInt(d, k, 1, 14) * 60, "muleForward", chain)>>

\* One inbound of a mule and the forward it pays for, hours later.
InboundAndForward(pl, burst, d, i, chain, targets, k, src) ==
  LET mule == pl.mules[i]
      primary == PickOne(d, i, targets)
      secondary == PickOne(d, i + 1, targets)
      ts == SampleTimestamp(d, k, burst.base, burst.days, 7, 22)
      amount == Greater(5000, FraudAmount(d, k))
      forward == (amount * (100 - UniformInt(d, k, 5, 11))) \div 100
      at == ts + UniformInt(d, k + 1, 1, 14) * 60 + UniformInt(d, k + 1, 0, 61)
  IN <<Scaled(pl, src, mule, amount, ts, "muleIn", chain),
       Scaled(pl, mule, IF Coin(d, k) THEN secondary ELSE primary, forward, at, "muleForward", chain)>>

Mule(cx, pl, budget, d) ==
  LET burst == SampleBurst(cx, d, 14, 3, 11)
      sources == pl.victims \o PickK(d, BillerAccounts, UniformInt(d, 1, 3, 10))
      targets(i) == IF pl.frauds # <<>> THEN pl.frauds
                    ELSE SelectSeq(pl.mules, LAMBDA m : m # pl.mules[i])
      burstOf(i, chain) ==
        IF sources = <<>> \/ targets(i) = <<>> THEN <<>>
        ELSE Concat(LAMBDA k : LET src == sources[1 + ((k - 1) % Len(sources))]
                               IN IF src = pl.mules[i] THEN <<>>
                                  ELSE InboundAndForward(pl, burst, d, i, chain, targets(i), k, src),
                    [k \in 1 .. UniformInt(d, i, 8, 26) |-> k])
  IN IF pl.mules = <<>> \/ (pl.frauds = <<>> /\ pl.victims = <<>>) THEN NoRows(cx)
     ELSE ChainPerItem(cx, Len(pl.mules), budget, burstOf)

(* ------------------------------- funnel -------------------------------- *)

\* The scatter: shares of what is left, the last share is all of it, each some
\* minutes after the one before.
Scatter(pl, d, collector, cashouts, chain, pool, from) ==
  LET n == UniformInt(d, 1, 6, 17)
      share(i, left) == IF i = n THEN left
                        ELSE Lesser(((left \div (n + 1 - i)) * UniformInt(d, i, 60, 131)) \div 100, (left * 8) \div 10)
      st[i \in 0 .. n] ==
        IF i = 0 THEN [left |-> pool, ts |-> from, rows |-> <<>>, done |-> FALSE]
        ELSE LET s == st[i - 1]
                 amount == share(i, s.left)
                 ts == s.ts + UniformInt(d, i, 5, 241)
                 floor == NominalAt(500, from)
             IN IF s.done \/ s.left < floor \/ amount < floor THEN [s EXCEPT !.done = TRUE]
                ELSE [s EXCEPT !.left = @ - amount, !.ts = ts,
                       !.rows = Append(@, Draft(pl, collector, PickOne(d, i, cashouts), amount, ts, "funnelOut", chain))]
  IN st[n].rows

Cashouts(pl, d, collector) ==
  LET picked == SelectSeq(PickK(d, Participants(pl), 4), LAMBDA x : x # collector)
      spare == SelectSeq([k \in 1 .. 6 |-> PickOne(d, k, pl.frauds)], LAMBDA x : x # collector)
  IN IF picked # <<>> THEN picked
     ELSE IF pl.frauds # <<>> THEN SubSeq(spare, 1, Lesser(1, Len(spare))) ELSE <<>>

\* The gather: what the victims and the mules pay to the collector.
Gather(cx, pl, d, collector, sources, burst) ==
  LET days == Greater(1, (burst.days * 6) \div 10)
  IN Concat(LAMBDA i : IF ~Coin(d, i) THEN <<>>
                       ELSE <<Scaled(pl, sources[i], collector, Greater(5000, FraudAmount(d, i)),
                                     SampleTimestamp(d, i, burst.base, days, 8, 22), "funnelIn", cx.next)>>,
            Indices(sources))
FunnelRows(cx, pl, d, collector, cashouts, burst, fed) ==
  LET total == Fold(LAMBDA t, r : t + r.amount, 0, fed)
      latest == Fold(LAMBDA t, r : Greater(t, r.ts), burst.base, fed)
  IN fed \o (IF fed = <<>> THEN <<>>
             ELSE Scatter(pl, d, collector, cashouts, cx.next, (total * (100 - UniformInt(d, 3, 5, 11))) \div 100,
                          latest + UniformInt(d, 2, 1, 13) * 60))
FunnelVia(cx, pl, budget, d, collector, cashouts, burst) ==
  IF cashouts = <<>> THEN Classic(cx, pl, budget, d)
  ELSE OneChain(cx, FunnelRows(cx, pl, d, collector, cashouts, burst,
                               Bounded(Gather(cx, pl, d, collector,
                                              SelectSeq(pl.victims \o pl.mules, LAMBDA x : x # collector), burst), budget)),
                budget)
Funnel(cx, pl, budget, d) ==
  LET collector == PickOne(d, 1, Participants(pl))
  IN IF Len(Participants(pl)) < 2 THEN Classic(cx, pl, budget, d)
     ELSE FunnelVia(cx, pl, budget, d, collector, Cashouts(pl, d, collector), SampleBurst(cx, d, 10, 2, 6))

(* ------------------------------- layering ------------------------------ *)

Swapped(s, i, j) == [s EXCEPT ![i] = s[j], ![j] = s[i]]
\* biasChainRoles: a mule first and a fraudster last, where the chain has one.
BiasChainRoles(chain, mules, frauds) ==
  LET n == Len(chain)
      entries == {i \in 2 .. n : In(chain[i], mules)}
      led == IF n < 2 \/ In(chain[1], mules) \/ entries = {} THEN chain ELSE Swapped(chain, 1, Least(entries))
      exits == {i \in 1 .. n - 1 : In(led[i], frauds)}
  IN IF n < 2 \/ In(led[n], frauds) \/ exits = {} THEN led ELSE Swapped(led, n, Least(exits))

\* swapMiddleForShells and swapIntermediariesForShells over the given places.
SwapForShells(d, chain, shells, places) ==
  Fold(LAMBDA c, i : LET shell == PickOne(d, i, shells)
                     IN IF shells = <<>> \/ ~Coin(d, i) \/ In(shell, c) THEN c ELSE [c EXCEPT ![i] = shell],
       chain, places)

\* The principal and the time after each hop of a chain.
Hops(d, n, amount, ts) ==
  LET hop[i \in 0 .. n] ==
        IF i = 0 THEN [amount |-> amount, ts |-> ts]
        ELSE [amount |-> (hop[i - 1].amount * (100 - UniformInt(d, i, 2, 9))) \div 100,
              ts |-> hop[i - 1].ts + UniformInt(d, i, 15, 361)]
  IN hop

LayeringChain(pl, d, i) ==
  LET middle(c) == SwapForShells(d, c, pl.shells, [k \in 1 .. Len(c) - 2 |-> k + 1])
  IN middle(BiasChainRoles(PickK(d, pl.mules \o pl.frauds, UniformInt(d, i, 3, 9)), pl.mules, pl.frauds))
\* A fraudster who is not the end of the chain, where five draws find one.
Cashout(pl, d, end) ==
  LET others == SelectSeq([k \in 1 .. 5 |-> PickOne(d, k, pl.frauds)], LAMBDA x : x # end)
  IN IF others # <<>> THEN others[1] ELSE PickOne(d, 5, pl.frauds)
\* The rows of one victim's money along a chain of n accounts.
LayeringRows(pl, d, i, id, chain, n, hop) ==
  LET unbroken == \A k \in 1 .. n - 1 : hop[k].amount >= 1000
      rest == (hop[n - 1].amount * (100 - UniformInt(d, i, 2, 7))) \div 100
  IN <<Scaled(pl, pl.victims[i], chain[1], hop[0].amount, hop[0].ts, "layeringIn", id)>>
     \o SelectSeq([k \in 1 .. n - 1 |-> Scaled(pl, chain[k], chain[k + 1], hop[k].amount, hop[k].ts, "layeringHop", id)],
                  LAMBDA r : unbroken \/ r.amount >= 1000)
     \o (IF ~unbroken \/ pl.frauds = <<>> \/ rest < 1000 THEN <<>>
         ELSE <<Scaled(pl, chain[n], Cashout(pl, d, chain[n]), rest, hop[n - 1].ts + UniformInt(d, i, 30, 721),
                       "layeringOut", id)>>)
Layering(cx, pl, budget, d) ==
  LET burst == SampleBurst(cx, d, 10, 3, 7)
      along(i, id, chain) ==
        LayeringRows(pl, d, i, id, chain, Len(chain),
                     Hops(d, Len(chain) - 1, Greater(5000, FraudAmount(d, i)),
                          SampleTimestamp(d, i, burst.base, burst.days, 8, 22)))
      rowsOf(i, id) == IF Coin(d, i) THEN along(i, id, LayeringChain(pl, d, i)) ELSE <<>>
  IN IF Len(Participants(pl)) < 3 \/ pl.victims = <<>> THEN Classic(cx, pl, budget, d)
     ELSE ChainPerItem(cx, Len(pl.victims), budget, rowsOf)

(* ---------------------------- scatter-gather --------------------------- *)

\* afterSplitTs: later than the last delay a split can have.
MergeBase(base, n) == base + 15 * (n + 1)

ScatterGather(cx, pl, budget, d) ==
  LET burst == SampleBurst(cx, d, 7, 2, 5)
      rowsOf(i, id) ==
        IF ~Coin(d, i) THEN <<>>
        ELSE LET n == Lesser(UniformInt(d, i, 3, 9), Len(pl.mules))
                 via == SwapForShells(d, PickK(d, pl.mules, n), pl.shells, [k \in 1 .. n |-> k])
                 beneficiary == PickOne(d, i, pl.frauds)
                 principal == Greater(5000 * n * 2, FraudAmount(d, i))
                 part(k) == Greater(5000, ((principal \div n) * UniformInt(d, k, 85, 116)) \div 100)
                 base == SampleTimestamp(d, i, burst.base, burst.days, 8, 22)
                 merged(k) == (part(k) * (100 - UniformInt(d, k, 3, 9))) \div 100
             IN [k \in 1 .. n |-> Scaled(pl, pl.victims[i], via[k], part(k),
                                         base + UniformInt(d, k, 1, 16) * (k - 1), "sgSplit", id)]
                \o SelectSeq([k \in 1 .. n |-> Scaled(pl, via[k], beneficiary, merged(k),
                                                      MergeBase(base, n) + UniformInt(d, k + 1, 30, 481), "sgMerge", id)],
                             LAMBDA r : r.amount >= NominalAt(5000, r.ts))
  IN IF pl.victims = <<>> \/ Len(pl.mules) < 2 \/ pl.frauds = <<>> THEN Classic(cx, pl, budget, d)
     ELSE ChainPerItem(cx, Len(pl.victims), budget, rowsOf)

(* ------------------------------- dispatch ------------------------------ *)

Dispatch(cx, pl, typology, budget, d) ==
  IF budget <= 0 THEN NoRows(cx)
  ELSE CASE typology = "classic" -> Classic(cx, pl, budget, d)
         [] typology = "layering" -> Layering(cx, pl, budget, d)
         [] typology = "funnel" -> Funnel(cx, pl, budget, d)
         [] typology = "structuring" -> Structuring(cx, pl, budget, d)
         [] typology = "invoice" -> Invoice(cx, pl, budget, d)
         [] typology = "mule" -> Mule(cx, pl, budget, d)
         [] typology = "cycle" -> Cycle(cx, pl, budget, d)
         [] typology = "scatterGather" -> ScatterGather(cx, pl, budget, d)
         [] typology = "bipartite" -> Bipartite(cx, pl, budget, d)

(* ------------------------------ camouflage ----------------------------- *)

Cover(src, dst, ts, chan) ==
  [src |-> src, dst |-> dst, amount |-> 1000, ts |-> ts, chan |-> chan, fraud |-> FALSE, ring |-> 0, chain |-> 0]

CoverBills(cx, accounts, monthStarts, d) ==
  LET end == cx.start + cx.days * Day
      bill(m, i) == LET ts == m + UniformInt(d, i, 0, 6) * Day + UniformInt(d, i, 7, 23) * 60 + UniformInt(d, i, 0, 61)
                    IN IF ~Coin(d, i) \/ ts >= end THEN <<>>
                       ELSE <<Cover(accounts[i], PickOne(d, i, BillerAccounts), ts, "camoBill")>>
  IN IF BillerAccounts = <<>> THEN <<>>
     ELSE Concat(LAMBDA m : Concat(LAMBDA i : bill(m, i), Indices(accounts)),
                 SelectSeq(monthStarts, LAMBDA m : m >= cx.start /\ m < end))

CoverTransfers(cx, accounts, d) ==
  LET p2p(day, i) ==
        LET dst == PickOne(d, day + i, DepositAccounts)
        IN IF ~Coin(d, day + i) \/ dst = accounts[i] THEN <<>>
           ELSE <<Cover(accounts[i], dst,
                        cx.start + (day - 1) * Day + UniformInt(d, day, 0, 25) * 60 + UniformInt(d, i, 0, 61), "camoP2p")>>
  IN IF DepositAccounts = <<>> THEN <<>>
     ELSE Concat(LAMBDA day : Concat(LAMBDA i : p2p(day, i), Indices(accounts)), [k \in 1 .. Greater(0, cx.days) |-> k])

CoverSalary(cx, accounts, d) ==
  LET end == cx.start + cx.days * Day
      pay(i) == LET src == PickOne(d, i, EmployerAccounts)
                    at(t) == t + UniformInt(d, i, 0, 3) * Day + UniformInt(d, i, 360, 720)
                IN Concat(LAMBDA t : IF at(t) < cx.start \/ at(t) >= end THEN <<>>
                                     ELSE <<Cover(src, accounts[i], at(t), "camoSalary")>>,
                          SelectSeq(PayDates, LAMBDA t : t >= cx.start /\ t < end))
  IN IF EmployerAccounts = <<>> THEN <<>>
     ELSE Concat(LAMBDA i : IF Coin(d, i) THEN pay(i) ELSE <<>>, Indices(accounts))

Camouflage(cx, pl, monthStarts, d) ==
  IF Participants(pl) = <<>> THEN <<>>
  ELSE CoverBills(cx, Participants(pl), monthStarts, d) \o CoverTransfers(cx, Participants(pl), d)
       \o CoverSalary(cx, Participants(pl), d)
=============================================================================
