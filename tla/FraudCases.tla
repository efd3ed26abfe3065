----------------------------- MODULE FraudCases -----------------------------
(***************************************************************************)
(* The fraud that needs no ring: whom a case may reach (exposure.hpp and   *)
(* susceptibility.hpp), what buildCompromisePlans decides for one case,    *)
(* and the rows unauthorized::generate makes of it.                        *)
(*                                                                         *)
(* c holds the draws of one iteration of the planner: rail, events, day,   *)
(* minute, victim and drop (the uniforms of the attempts, in tenths of     *)
(* the weight), hours, operatorU, and the coins own (the victim's own      *)
(* endpoint), proxy, borrow, terminal and burner with the person each of   *)
(* them names.  A weight is in percent of the mean.                        *)
(***************************************************************************)
EXTENDS FraudRings

CONSTANTS JoinedAt, DiedAt,         \* the personas pack, by person
          Born, PersonaOf,
          SettlementMinutes,        \* pii::kSettlementDays
          CardActivity,             \* rate x card probability x card share, by person
          Homes,                    \* relocation::Schedule: tenures [from, area], by person
          Merchants,                \* the catalogue: [id, online, area, opened, closed, weight]
          Nearness(_, _),           \* the distance decay between two areas, in percent
          PrimaryOf                 \* the primary account of each person who has one

Mean(ws, n) == Fold(LAMBDA t, x : t + x, 0, ws) \div n

(* ------------------------------- exposure ------------------------------ *)

\* cardExposureWeights: 30% flat, 70% card activity relative to the mean.
CardExposureWeights ==
  LET mean == Mean(CardActivity, NumPeople)
  IN IF mean = 0 THEN [p \in People |-> 100]
     ELSE [p \in People |-> Clamp(30 + (70 * CardActivity[p]) \div mean, 15, 400)]

(* ---------------------------- susceptibility --------------------------- *)

ScamPersonaFactor(type) ==
  CASE type = "student" -> 110 [] type = "freelancer" -> 115 [] type = "smallBusiness" -> 125
    [] OTHER -> 100
ScamAgeIncidence(age) ==
  CASE age < 30 -> 135 [] age < 40 -> 130 [] age < 50 -> 115 [] age < 60 -> 95
    [] age < 70 -> 75 [] age < 80 -> 60 [] OTHER -> 50
ScamAgeSeverity(age) ==
  CASE age < 30 -> 70 [] age < 40 -> 80 [] age < 50 -> 90 [] age < 60 -> 100
    [] age < 70 -> 130 [] age < 80 -> 170 [] OTHER -> 220

\* member: joined, not yet settled, and alive where the rail needs a living
\* victim.
Member(p, at, alive) ==
  JoinedAt[p] <= at /\ at < DiedAt[p] + SettlementMinutes /\ (alive => at < DiedAt[p])
EligibleUntil(p, alive) == IF alive THEN DiedAt[p] ELSE DiedAt[p] + SettlementMinutes
AgeYears(p, at) == Greater(0, (at - Born[p]) \div (365 * Day))
Severity(p, at) == ScamAgeSeverity(AgeYears(p, at))
RawHazard(p, at) ==
  IF Member(p, at, TRUE) THEN (ScamPersonaFactor(PersonaOf[p]) * ScamAgeIncidence(AgeYears(p, at))) \div 100
  ELSE 0

\* scamWeights: 35% flat, 65% hazard relative to the mean of those who can be
\* reached; nobody else has a weight, and with nobody there are no weights.
Blend(raw, mean) == [p \in People |-> IF raw[p] = 0 THEN 0 ELSE Clamp(35 + (65 * raw[p]) \div mean, 25, 300)]
ScamWeights(at) ==
  LET weigh(raw, eligible) == IF eligible = {} THEN <<>> ELSE Blend(raw, Mean(raw, Cardinality(eligible)))
  IN weigh([p \in People |-> RawHazard(p, at)], {p \in People : RawHazard(p, at) > 0})

(* ------------------------------- the picks ----------------------------- *)

RingAccounts(plans) ==
  UNION {UNION {{s[i] : i \in DOMAIN s} : s \in {pl.frauds, pl.shells, pl.mules, pl.victims}} :
           pl \in {plans[r] : r \in DOMAIN plans}}

\* makeCdf and the lower bound of a uniform in it; without a usable weight the
\* person is drawn evenly.
MakeCdf(weights) == [p \in DOMAIN weights |-> Fold(LAMBDA t, x : t + x, 0, SubSeq(weights, 1, p))]
PersonAt(cdf, tenth) ==
  LET total == IF cdf = <<>> THEN 0 ELSE cdf[Len(cdf)]
  IN IF total = 0 THEN 1 + ((tenth * NumPeople) \div 10)
     ELSE Least({p \in People : 10 * cdf[p] >= tenth * total})

NoPick == [key |-> {}, person |-> 0]

\* pickFrom: the first attempt that hits a member with an account of no ring.
FirstHit(hits) == IF hits = <<>> THEN NoPick ELSE [key |-> {PrimaryOf[hits[1]]}, person |-> hits[1]]
Hits(cdf, tenths, avoid, at, alive) ==
  SelectSeq([i \in DOMAIN tenths |-> PersonAt(cdf, tenths[i])],
            LAMBDA p : p \in DOMAIN PrimaryOf /\ Member(p, at, alive) /\ PrimaryOf[p] \notin avoid)
PickFrom(avoid, weights, tenths, at, alive, excluded) ==
  FirstHit(Hits(MakeCdf(weights), tenths, avoid \cup excluded, at, alive))

\* Schedule::areaAt: the last tenure that began, or the first.
AreaAt(tenures, ts) ==
  LET begun == {i \in DOMAIN tenures : tenures[i].from <= ts}
  IN tenures[IF begun = {} THEN 1 ELSE Cardinality(begun)].area
HomeAreaOf(p, ts) == AreaAt(Homes[p], ts)

(* ------------------------- one case of the planner --------------------- *)

AuthorizedRail(rail) == rail \in {"giftCardScam", "scamImpostor"}
HasDrop(rail) == rail \in {"ato", "scamImpostor"}
\* The bounds of the events and of the hours of a case, by rail.
TargetSpan(rail) ==
  CASE rail = "card" -> <<5, 14>> [] rail = "giftCardScam" -> <<2, 6>>
    [] rail = "scamImpostor" -> <<1, 3>> [] rail = "ato" -> <<3, 8>>
SpanHours(rail) ==
  CASE rail = "card" -> <<6, 71>> [] rail = "giftCardScam" -> <<1, 4>>
    [] rail = "scamImpostor" -> <<1, 6>> [] rail = "ato" -> <<2, 31>>

StartOf(c) == WindowStart + Lesser(c.day, Greater(1, WindowDays - 8) - 1) * Day + c.minute
VictimOf(c, excluded) ==
  LET at == StartOf(c)
      scam == AuthorizedRail(c.rail)
  IN PickFrom({}, IF scam THEN ScamWeights(at) ELSE CardExposureWeights, c.victim, at, scam, excluded)
DropOf(c, victim, excluded) ==
  IF HasDrop(c.rail) THEN PickFrom(victim.key, <<>>, c.drop, StartOf(c), FALSE, excluded) ELSE NoPick

\* The earliest boundary of the participants.
EventEnd(c, victim, drop) ==
  LET own == EligibleUntil(victim.person, AuthorizedRail(c.rail))
  IN IF drop.person = 0 THEN own ELSE Lesser(own, EligibleUntil(drop.person, FALSE))

\* The whole sampled span fits before the boundary.
SpanFits(c, end) == end > StartOf(c) /\ end - StartOf(c) >= 60 * c.hours

CampaignOf(net, c) ==
  IF AuthorizedRail(c.rail) THEN {} ELSE OperatorAt(net.operators, c.operatorU, StartOf(c))
CaseEnd(c) == StartOf(c) + Greater(2, 60 * c.hours)

\* The campaign's own pair of endpoints; a residential proxy replaces the
\* address where the customer holds one over the whole case.
CampaignPair(net, c, op, seq) ==
  LET proxied == IF c.proxy = 0 THEN {} ELSE LiveFromPool(net.ips[c.proxy], StartOf(c), CaseEnd(c), seq)
      own == IpAt(net.operators, op, StartOf(c), CaseEnd(c), seq)
  IN [device |-> DeviceAt(net.operators, op, StartOf(c), CaseEnd(c), seq),
      ip |-> IF proxied # {} THEN proxied ELSE own]

\* A compromised host lends its device, and its address where it has one.
Borrowed(net, c, victim, seq, pair) ==
  LET hosts == IF c.borrow THEN HostAt(net.hosts, seq) \ {victim.person} ELSE {}
      device == UNION {LiveFromPool(net.devices[h], StartOf(c), CaseEnd(c), seq) : h \in hosts}
      ip == UNION {LiveFromPool(net.ips[h], StartOf(c), CaseEnd(c), seq) : h \in hosts}
  IN IF device = {} THEN NoneResolved ELSE [device |-> device, ip |-> IF ip # {} THEN ip ELSE pair.ip]
OnTerminal(net, c) ==
  LET device == IF c.terminal = 0 THEN {}
                ELSE PublicDeviceForCase(net.terminals, c.terminal, StartOf(c), CaseEnd(c))
  IN [device |-> device, ip |-> {EndpointIp(x) : x \in device}]
Burned(pair, seq) ==
  LET device == {BurnerDeviceFrom(x, seq) : x \in pair.device}
  IN [device |-> device, ip |-> {EndpointIp(x) : x \in device}]

\* The endpoints of a case, or none where the victim's own serve: a borrowed
\* machine before a terminal before a burner before the campaign's own.
ChooseEndpoints(c, seq, pair, lent, public) ==
  IF pair.device = {} \/ pair.ip = {} THEN NoneResolved
  ELSE IF lent.device # {} THEN lent
  ELSE IF public.device # {} THEN public
  ELSE IF c.burner THEN Burned(pair, seq) ELSE pair
CaseEndpoints(net, c, victim, seq, campaign) ==
  LET from(pair) == ChooseEndpoints(c, seq, pair, Borrowed(net, c, victim, seq, pair), OnTerminal(net, c))
  IN IF AuthorizedRail(c.rail) \/ c.own \/ campaign = {} THEN NoneResolved
     ELSE from(CampaignPair(net, c, Least(campaign), seq))

CompromisePlan(net, c, victim, drop, seq, remaining, campaign) ==
  [victim |-> PrimaryOf[victim.person], person |-> victim.person, drop |-> drop.key, dropPerson |-> drop.person,
   rail |-> c.rail, start |-> StartOf(c), span |-> 60 * c.hours, target |-> Lesser(remaining, c.events),
   end |-> EventEnd(c, victim, drop), seq |-> seq, area |-> HomeAreaOf(victim.person, StartOf(c)),
   severity |-> IF c.rail = "scamImpostor" THEN Severity(victim.person, StartOf(c)) ELSE 100,
   campaign |-> campaign] @@ CaseEndpoints(net, c, victim, seq, campaign)

(* -------------------------------- venues ------------------------------- *)

MerchantSlots == 3

\* buildMerchantPool: the merchants open at the start of the case, near the
\* victim's home or online.
BuildMerchantPool(area, cardPresent, ts) ==
  LET weight(m) == IF cardPresent THEN (m.weight * Nearness(area, m.area)) \div 100 ELSE m.weight
  IN SelectSeq([i \in DOMAIN Merchants |-> [id |-> Merchants[i].id, weight |-> weight(Merchants[i]), at |-> i]],
               LAMBDA x : LET m == Merchants[x.at]
                          IN m.opened <= ts /\ ts < m.closed /\ m.online = ~cardPresent /\ x.weight > 0)
WeightSum(pool) == Fold(LAMBDA t, x : t + x.weight, 0, pool)
PickFromPool(pool, percent) ==
  pool[Least({i \in DOMAIN pool : 100 * WeightSum(SubSeq(pool, 1, i)) > percent * WeightSum(pool)})].id

\* campaignVenue: a position in the heaviest merchants that carry a quarter of
\* the weight, from the campaign alone.
CampaignVenue(pool, percent) ==
  LET head(order) == SubSeq(order, 1, Least({i \in DOMAIN order : 4 * WeightSum(SubSeq(order, 1, i)) >= WeightSum(pool)}))
  IN PickFromPool(head(SortSeq(pool, LAMBDA a, b : a.weight > b.weight \/ (a.weight = b.weight /\ a.at < b.at))), percent)

VenuesFrom(plan, cardPresent, d, pool) ==
  IF pool = <<>> THEN <<>>
  ELSE [s \in 1 .. MerchantSlots |->
          IF s = 1 /\ ~cardPresent /\ plan.campaign # {} THEN CampaignVenue(pool, (37 * Least(plan.campaign)) % 100)
          ELSE PickFromPool(pool, UniformInt(d, s, 0, 100))]
Venues(plan, cardPresent, d) ==
  VenuesFrom(plan, cardPresent, d, BuildMerchantPool(plan.area, cardPresent, plan.start))

(* ------------------------- unauthorized::generate ---------------------- *)

OffsetIn(d, k, lo, hi) == IF hi <= lo THEN lo ELSE UniformInt(d, k, lo, hi)
FraudTypeFor(rail) ==
  CASE rail = "giftCardScam" -> "scamGiftCard" [] rail = "scamImpostor" -> "scamImpostor"
    [] OTHER -> "txnFraudSolo"

\* The events of a case in the order of their times: small probes in the first
\* part of a card case, spends after it; the other rails anywhere in the span.
CaseEvents(plan, d) ==
  LET span == Greater(2, plan.span)
      window == Clamp(span \div 6, 10, 60)
      spendStart == Lesser(window + Greater(60, span \div 6), span - 1)
      test(k) == plan.rail = "card" /\ k <= 2 /\ Coin(d, k)
      ts(k) == plan.start + (IF test(k) THEN OffsetIn(d, k, 0, window)
                             ELSE IF plan.rail = "card" THEN OffsetIn(d, k, spendStart, span)
                             ELSE OffsetIn(d, k, 0, span))
  IN SortSeq([k \in 1 .. plan.target |->
                [ts |-> ts(k), test |-> test(k), at |-> k,
                 amount |-> IF test(k) THEN 100 ELSE (FraudAmount(d, k) * plan.severity) \div 100]],
             LAMBDA a, b : a.ts < b.ts \/ (a.ts = b.ts /\ a.at < b.at))

CaseDraft(plan, ev, dst, chan) ==
  [src |-> plan.victim, dst |-> dst, amount |-> ev.amount, ts |-> ev.ts, chan |-> chan, fraud |-> TRUE,
   ring |-> 0, chain |-> 0]

\* The attacker's session goes over what the factory routed, on the rails where
\* somebody else operates.
CaseStamp(plan, row) ==
  IF AuthorizedRail(plan.rail) \/ plan.device = {} \/ plan.ip = {} THEN row
  ELSE [row EXCEPT !.device = plan.device, !.ip = plan.ip]

\* The merchant's refund of a reported spend, while the account still exists.
Chargeback(plan, ev, merchant, reported, lag) ==
  IF plan.rail # "card" \/ ~reported \/ ev.test \/ ev.ts + lag >= plan.end THEN <<>>
  ELSE <<[src |-> merchant, dst |-> plan.victim, amount |-> ev.amount, ts |-> ev.ts + lag,
          chan |-> "chargeback", fraud |-> FALSE, ring |-> 0, chain |-> 0]>>

\* The rows of one case, and the people's anchors after them.
CaseChannel(rail, d) ==
  CASE rail \in {"card", "giftCardScam"} -> "cardPurchase"
    [] rail = "ato" -> "p2p"
    [] OTHER -> IF Coin(d, 1) THEN "externalUnknown" ELSE "p2p"
CaseDst(plan, venues, d, k) ==
  IF HasDrop(plan.rail) THEN The(plan.drop)
  ELSE IF venues # <<>> THEN venues[1 + ((k - 1) % MerchantSlots)]
  ELSE PickOne(d, k, BillerAccounts)
\* One event: its row, and the refund the factory makes after it.
EventRows(rows, row, paid) ==
  [rows |-> Append(rows, row) \o [i \in DOMAIN paid.rows |-> paid.rows[i] @@ [type |-> "none"]], cur |-> paid.cur]
CaseEvent(net, acc, plan, ev, dst, d, k) ==
  LET after(made) ==
        EventRows(acc.rows, CaseStamp(plan, made.row) @@ [type |-> FraudTypeFor(plan.rail)],
                  MakeAll(net, made.cur, Chargeback(plan, ev, dst, Coin(d, 5), UniformInt(d, k, Day, 10 * Day)), d))
  IN after(Make(net, acc.cur, CaseDraft(plan, ev, dst, CaseChannel(plan.rail, d)), d))
CaseRows(net, cur, plan, budget, d, venues, events) ==
  Fold(LAMBDA acc, k : CaseEvent(net, acc, plan, events[k], CaseDst(plan, venues, d, k), d, k),
       [rows |-> <<>>, cur |-> cur], [k \in 1 .. Lesser(budget, Len(events)) |-> k])
GenerateCase(net, cur, plan, budget, d) ==
  LET cardPresent == IF plan.rail = "giftCardScam" THEN ~Coin(d, 3) ELSE ~Coin(d, 2)
  IN CaseRows(net, cur, plan, budget, d, Venues(plan, cardPresent, d), CaseEvents(plan, d))
=============================================================================
