------------------------------- MODULE MCLegit ------------------------------
(***************************************************************************)
(* LegitBuilder on a town of six people from the tenth of December 2024    *)
(* for ninety days: a Christmas on a payment Wednesday, a New Year and a   *)
(* short month.  In every world somebody dies within the window after a    *)
(* move, a student begins to work, a business ends and a person joins.     *)
(***************************************************************************)
EXTENDS LegitBuilder

MCWindowStart == 1439 * 1440

MCGrowthRate(y) == 4000                       \* so that one of six joins
MCWageScale(y) == IF y <= 2024 THEN 100 ELSE 104
MCPriceScale(y) == IF y <= 2024 THEN 100 ELSE 103
MCPower(p) == 60 + 20 * p

MCOwned == <<<<0, 1>>, <<2, 3, 4>>, <<5>>, <<6, 7>>, <<8, 9>>, <<10>>>>
MCBusinessOf == [p \in 1 .. 6 |-> IF p = 2 THEN {3} ELSE {}]
MCBrokerageOf == [p \in 1 .. 6 |-> IF p = 4 THEN {7} ELSE {}]
MCCreditCards == <<<<>>, <<300>>, <<>>, <<>>, <<301, 302>>, <<303>>>>
MCSpreadShare == [p \in 1 .. 6 |-> 40 + 10 * p]

MCEmployers == <<100, 101>>
MCPayrollDraws ==
  (100 :> [cadence |-> "biweekly", offDay |-> FALSE, lag |-> 0, otherWeek |-> TRUE, early |-> TRUE, monthlyDay |-> 30]
   @@ 101 :> [cadence |-> "semimonthly", offDay |-> TRUE, lag |-> 1, otherWeek |-> FALSE, early |-> FALSE, monthlyDay |-> 31])
MCLandlords == <<110, 111>>
MCClients == <<120, 121>>
MCPlatforms == <<130>>
MCProcessors == <<135>>
MCOwnerBusinesses == <<136>>
MCBrokerages == <<137>>
MCDepositories == <<140>>
MCCheckPoints == <<141>>
MCTerminals == <<160, 161>>
MCVenues == <<170>>
MCBillers == <<180, 181>>
MCFavoriteSizes == <<2, 4>>
MCBillerSizes == <<1, 3>>
MCCommunityBounds == <<2, 4>>
MCCoreSizes == <<9, 14, 30, 22, 41, 12, 18, 25, 16, 33, 27, 11>>
MCTailSizes == <<3, 5, 4, 2>>
MCEventMinutes == <<2 * 1440 + 600, 16 * 1440 + 1200>>
MCLandlordType == (110 :> "individual" @@ 111 :> "corporate")
Generic == {100, 101, 110, 111, 120, 121, 130, 135, 136, 137, 150, 151, 180, 181}
MCExternal ==
  [k \in Generic |-> "generic"]
  @@ (140 :> "cashDepository" @@ 141 :> "checkCapture" @@ 160 :> "atmTerminal" @@ 161 :> "atmTerminal" @@ 170 :> "cryptoVenue")

\* Three people are short of money, so that some debits are refused.
MCOpeningSeed ==
  [i \in 0 .. 10 |-> [cash |-> IF i = 5 THEN 3000 ELSE IF i \in {2, 10} THEN 31000 ELSE 90000 + 1000 * i, fee |-> IF i % 2 = 0 THEN 3500 ELSE 0,
                      type |-> IF i % 3 = 0 THEN "courtesy" ELSE "none", buffer |-> IF i % 3 = 0 THEN 20000 ELSE 0,
                      rate |-> 0, burden |-> 0, limit |-> 0]]

MCAreas == <<[country |-> "us", state |-> "A", residential |-> TRUE], [country |-> "us", state |-> "A", residential |-> TRUE],
             [country |-> "us", state |-> "B", residential |-> TRUE], [country |-> "us", state |-> "B", residential |-> FALSE],
             [country |-> "uk", state |-> "", residential |-> TRUE]>>
MCCountryOf == <<"us", "us", "us", "us", "us", "uk">>
MCDecay == <<<<100, 40, 5, 0, 0>>, <<40, 100, 5, 0, 0>>, <<5, 5, 100, 60, 0>>, <<0, 0, 60, 100, 0>>, <<0, 0, 0, 0, 100>>>>
MCFuneralHomeCount == <<2, 1, 3, 1, 2>>
MCCheckShare == [y \in 2024 .. 2025 |-> 20]

(* -------------------------------- worlds ------------------------------- *)

Draw(claim, work, residual, years, frac) ==
  [claim |-> claim, f |-> 50, jitter |-> 20, workAge |-> work, salaried |-> residual % 2 = 0, residual |-> residual,
   short |-> 30, long |-> 200, years |-> years, frac |-> frac, join |-> 40]
Long == Draw("full", 22, 400, 30, 100)
Born(y, m, dom) == [year |-> y, month |-> m, day |-> dom]
Lot(num, coin, pick) == [num |-> num, coin |-> coin, pick |-> pick]

\* A couple of retirees of whom one dies and whose neighbours support both, a worker
\* about to claim, a shop about to close, a student about to work, and a freelancer
\* who joins.
MCElders ==
  [seeds |-> <<"salaried", "smallBusiness", "retiree", "retiree", "student", "freelancer">>,
   dobs |-> <<Born(1958, 3, 25), Born(1980, 2, 3), Born(1950, 6, 5), Born(1948, 9, 23), Born(2002, 12, 20), Born(1985, 7, 7)>>,
   rs |-> <<Draw("full", 22, 400, 20, 10), Draw("full", 22, 40, 20, 5), Long, Draw("early", 22, 400, 0, 70),
            Draw("full", 22, 401, 60, 5), Long>>,
   kin |-> Lot("hi", "alt", "rotate"), home |-> Lot("lo", "yes", "first"), cat |-> Lot("odd", "alt", "rotate")]

\* Two students have the same parents, of whom one dies early; the rich one never
\* retires.
MCHouse ==
  [seeds |-> <<"highNetWorth", "smallBusiness", "student", "retiree", "student", "salaried">>,
   dobs |-> <<Born(1970, 1, 11), Born(1960, 5, 15), Born(2003, 3, 3), Born(1955, 2, 28), Born(2004, 1, 9), Born(1978, 10, 21)>>,
   rs |-> <<Draw("late", 22, 400, 0, 30), Draw("middle", 22, 60, 0, 40), Long, Draw("last", 22, 400, 0, 12), Long,
            Draw("last", 22, 400, 0, 20)>>,
   kin |-> Lot("even", "alt", "rotate"), home |-> Lot("odd", "alt", "rotate"), cat |-> Lot("hi", "yes", "rotate")]

\* Everybody lives alone; both retirees are supported from afar, and one works on
\* past every claiming age.
MCLoners ==
  [seeds |-> <<"freelancer", "salaried", "retiree", "retiree", "highNetWorth", "salaried">>,
   dobs |-> <<Born(1950, 1, 1), Born(1999, 2, 2), Born(1940, 12, 31), Born(1945, 4, 14), Born(1965, 8, 8), Born(2001, 6, 19)>>,
   rs |-> <<Long, Draw("full", 22, 400, 40, 0), Draw("late", 22, 400, 0, 12), Draw("early", 22, 400, 0, 85), Long, Long>>,
   kin |-> Lot("lo", "yes", "first"), home |-> Lot("hi", "alt", "last"), cat |-> Lot("even", "yes", "rotate")]

MCWorlds == {MCElders, MCHouse, MCLoners}
MCPolicies ==
  {Lot(num, coin, pick) : num \in {"lo", "hi", "odd", "even"}, coin \in {"yes", "alt"}, pick \in {"first", "last", "rotate"}}
MCMonthPolicies == {Lot("lo", "yes", "first"), Lot("even", "alt", "rotate")}
=============================================================================
