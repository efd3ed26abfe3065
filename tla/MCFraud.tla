------------------------------- MODULE MCFraud ------------------------------
(***************************************************************************)
(* FraudInjector on a town of ten people and thirty days.  Ring 1 has two  *)
(* fraudsters (one of them a shell), two mules, one of whom dies on day    *)
(* 27, and a victim; ring 2 is one fraudster and one victim, so that its   *)
(* typologies fall back.  Of the others 8 dies on day 12, 9 joins on day   *)
(* 10 and moves, and 10 has no account.  Mule 3 and customer 8 hold two    *)
(* lines of devices that are replaced within the window.                   *)
(***************************************************************************)
EXTENDS FraudInjector

MCHomeUnit(pool, p) == (p * 37) % 100
MCOnPublic(pool, p, ts) == (p + (ts \div Day)) % (IF pool = "terminal" THEN 5 ELSE 3) = 0
MCSlotHash(s, device) == s + device[3]
MCExternallyInitiated == {"salary", "chargeback", "camoSalary"}
MCRings == <<[id |-> 1, frauds |-> <<1, 2>>, mules |-> <<3, 4>>, victims |-> <<5>>],
             [id |-> 2, frauds |-> <<6>>, mules |-> <<>>, victims |-> <<7>>]>>
MCTopology == [r \in DOMAIN MCRings |-> [id |-> MCRings[r].id, members |-> MCRings[r].frauds \o MCRings[r].mules]]
MCFraudPeople == {1, 2, 6}
MCPriceScale(ts) == IF ts < 20 * Day THEN 100 ELSE 103

Never == 4000 * Day
Ten(f, x) == [p \in 1 .. 10 |-> IF p \in DOMAIN f THEN f[p] ELSE x]
MCDiedAt == Ten(4 :> 27 * Day + 600 @@ 8 :> 12 * Day, Never)
MCJoinedAt == Ten(9 :> 10 * Day, 0)
MCBorn == Ten(8 :> -(70 * 365 * Day) @@ 9 :> -(25 * 365 * Day), -(45 * 365 * Day))
MCPersonaOf == Ten(8 :> "retiree" @@ 9 :> "student", "salaried")
MCCardActivity == [p \in 1 .. 10 |-> IF p = 9 THEN 300 ELSE 100]
MCHomes == Ten(9 :> <<[from |-> 0, area |-> "A"], [from |-> 15 * Day, area |-> "B"]>>, <<[from |-> 0, area |-> "A"]>>)
Acct(p) == <<"acct", p>>
MCPrimaryOf == [p \in 1 .. 9 |-> Acct(p)]
MCAccounts == [a \in {Acct(p) : p \in 1 .. 9} |-> a[2]]
MCCards == (<<"card", 8>> :> 8)
MCBillers == <<<<"bill", 1>>, <<"bill", 2>>>>
MCDeposits == <<Acct(3), Acct(8), Acct(9)>>
MCEmployers == <<<<"work", 1>>>>
MCPayDates == <<2 * Day, 16 * Day>>
MCMonthStarts == <<0>>
MCMerchants == <<[id |-> <<"shop", 1>>, online |-> TRUE, area |-> "A", opened |-> 0, closed |-> Never, weight |-> 60],
                 [id |-> <<"shop", 2>>, online |-> TRUE, area |-> "B", opened |-> 0, closed |-> 10 * Day, weight |-> 40],
                 [id |-> <<"shop", 3>>, online |-> FALSE, area |-> "A", opened |-> 5 * Day, closed |-> Never, weight |-> 50]>>
MCNearness(a, b) == IF a = b THEN 100 ELSE 40

\* Two worlds.  In the second ring 1 exits through an address of customer 8, and
\* everybody shares.
MCDraw(shared, exit) ==
  [deviceChains |-> Ten(3 :> <<<<4, 7>>, <<30>>>> @@ 8 :> <<<<9, 30>>, <<2, 15>>>>, <<<<30>>>>),
   ipChains |-> Ten(3 :> <<<<6, 9>>>> @@ 8 :> <<<<3, 12>>>>, <<<<30>>>>),
   addresses |-> [p \in 1 .. 10 |-> <<<<"ip", p, 1>>, <<"ip", p, 2>>>>],
   sharesDevice |-> shared, sharesIp |-> shared, peerCount |-> 2, groupChain |-> <<13, 20>>,
   groupAddress |-> <<"ip", 0, 0>>, burst |-> <<5, 40>>, offset |-> <<3, 9>>,
   deviceCoins |-> {1, 3}, ipCoins |-> {}, ringAddress |-> <<exit, <<"ip", 98, 1>>>>,
   operators |-> <<[start |-> -3, length |-> 12, weight |-> 2, deviceChains |-> <<<<4, 6>>, <<30>>>>,
                    ipChains |-> <<<<2, 3>>>>, addresses |-> <<<<"ip", 91, 1>>, <<"ip", 91, 2>>>>],
                   [start |-> 5, length |-> 40, weight |-> 1, deviceChains |-> <<<<3>>>>,
                    ipChains |-> <<<<30>>>>, addresses |-> <<<<"ip", 92, 1>>>>]>>,
   hosts |-> <<3, 8>>, weights |-> <<3, 1>>, publicChain |-> <<11, 8>>,
   carrierAddresses |-> <<<<"ip", 95, 1>>, <<"ip", 95, 2>>, <<"ip", 95, 3>>>>]
MCDraws == [quiet |-> MCDraw({}, <<"ip", 99, 1>>), shared |-> MCDraw(1 .. 10, <<"ip", 8, 2>>)]

MCProfiles == {[base |-> 3, illicit |-> 70, txn |-> 0], [base |-> 30, illicit |-> 50, txn |-> 0],
               [base |-> 40, illicit |-> 0, txn |-> 8]}

Policy(num, coin, pick, day, device, ip, switch) ==
  [num |-> num, coin |-> coin, pick |-> pick, day |-> day, ringDevice |-> device, ringIp |-> ip, switch |-> switch]
MCLegitDrafts ==
  {[src |-> Acct(p), dst |-> Acct(9), amount |-> 100, ts |-> ts, chan |-> chan, fraud |-> FALSE, ring |-> 0, chain |-> 0] :
     p \in {3, 8}, ts \in {6 * Day, 20 * Day}, chan \in {"p2p"}}
  \cup {[src |-> <<"work", 1>>, dst |-> Acct(8), amount |-> 100, ts |-> Day, chan |-> "salary", fraud |-> FALSE,
         ring |-> 0, chain |-> 0]}
MCLegitDraws == {Policy("lo", "no", "first", 0, FALSE, FALSE, s) : s \in {0, 1}}
MCCamoDraws == {Policy("lo", "no", "first", 0, FALSE, FALSE, 0), Policy("hi", "alt", "last", 1, FALSE, FALSE, 0)}
MCRingDraws(r) ==
  IF r = 1
  THEN {Policy("hi", "yes", "last", 1, TRUE, TRUE, 0), Policy("odd", "alt", "rotate", 0, FALSE, FALSE, 1),
        Policy("even", "yes", "rotate", 1, TRUE, FALSE, 0), Policy("odd", "yes", "first", 1, FALSE, FALSE, 0)}
  ELSE {Policy("hi", "yes", "first", 1, FALSE, FALSE, 0)}
MCPure == {"classic", "layering", "funnel", "structuring", "invoice", "mule", "cycle", "scatterGather", "bipartite"}
MCPlaybooks(r) ==
  IF r = 1
  THEN {PurePlaybook(t) : t \in MCPure}
       \cup {PlacementToIntegration, SmurfThenLayer, RapidFunnelMule, ShellLaundering, ClassicWithLayering,
             ScatterGatherWithLayering, BipartiteWeb, MixingService}
  ELSE {PurePlaybook("layering"), PurePlaybook("invoice")}

Case(rail, events, hours, day, victim, mode) ==
  [rail |-> rail, events |-> events, hours |-> hours, day |-> day, minute |-> 60 + 600 * (day % 2),
   victim |-> victim, drop |-> <<0, 7, 8>>, operatorU |-> IF day < 6 THEN 0 ELSE 90,
   own |-> mode = "own", proxy |-> IF mode = "proxy" THEN 8 ELSE 0, borrow |-> mode = "borrow",
   terminal |-> IF mode = "terminal" THEN 8 ELSE 0, burner |-> mode = "burner"]
Victims == {<<7, 9>>, <<0, 9, 7>>}
MCCaseDraws ==
  {Case(x[1], TargetSpan(x[1])[x[2]], SpanHours(x[1])[x[2]], day, v, mode) :
     x \in {<<"card", 1>>, <<"card", 2>>, <<"ato", 2>>}, day \in {1, 7, 11, 40}, v \in {<<7, 9>>},
     mode \in {"own", "campaign", "proxy", "borrow", "terminal", "burner"}}
  \cup {Case(rail, TargetSpan(rail)[e], SpanHours(rail)[e], day, v, "own") :
     rail \in {"giftCardScam", "scamImpostor"}, e \in {1, 2}, day \in {1, 11, 40}, v \in Victims}
MCEmitDraws == {Policy("hi", "yes", "last", 0, FALSE, FALSE, 0), Policy("odd", "alt", "first", 0, FALSE, FALSE, 1)}
\* The products of the earlier stages, each built once.
BuiltNets == [x \in DOMAIN MCDraws |-> BuildAccessInfra(MCDraws[x], MCAccounts, MCCards)]
BuiltCasts == [r \in DOMAIN MCRings |-> BuildPlan(MCRings[r], MCPrimaryOf, {2}, MCDiedAt)]
MCNets == BuiltNets
MCRingCasts == BuiltCasts
=============================================================================
