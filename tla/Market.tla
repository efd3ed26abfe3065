------------------------------- MODULE Market -------------------------------
(***************************************************************************)
(* Where people spend (activity/spending/market, dynamics/monthly,         *)
(* routing): the laws that merchants are drawn from, the favourites,       *)
(* billers and contacts of each person, their monthly evolution and the    *)
(* route of a payment.  A law is its support, the sequence of catalogue    *)
(* indices of positive weight.  A market m holds homes, the rows fav, bill *)
(* and contacts of each person, the laws merch, biller, reach, pools (the  *)
(* local pools), lawful (the frozen weights of the membership law) and     *)
(* member (its live part), pooled, the areas that have a pool, and at, the *)
(* instant of the last month boundary.                                     *)
(***************************************************************************)
EXTENDS Income, MerchantCatalog

CONSTANTS
  Decay,                      \* the weight of an area seen from a home, zero where it vanishes
  DecayFloor, MaxNearbyAreas, \* the floor as a divisor of the best, the cap of a pool
  FavoriteSizes, FavoriteCapacity, BillerSizes, MaxFavorites, MaxPickAttempts,
  ContactDegree, CommunityBounds,
  CreditCards                 \* the spend-active credit accounts of each person

(* --------------------------------- laws -------------------------------- *)

IsBillerCategory(category) == category \in {"utilities", "telecom", "insurance", "education"}
WholeLaw(cat) == SelectSeq(Indices(cat), LAMBDA i : cat[i].weight > 0)
OfBillers(cat, law) == SelectSeq(law, LAMBDA i : IsBillerCategory(cat[i].category))
\* buildBillerCdf
BillerLaw(cat) == IF OfBillers(cat, WholeLaw(cat)) = <<>> THEN WholeLaw(cat) ELSE OfBillers(cat, WholeLaw(cat))

\* LocalPools::build: the areas near a home, nearest first, down to a share of
\* the nearest one.
Nearby(cat, home) ==
  LET near(a, b) == Decay[home][a] > Decay[home][b] \/ (Decay[home][a] = Decay[home][b] /\ a < b)
      placed == SelectSeq(Indices(Areas), LAMBDA a : Decay[home][a] > 0 /\ \E i \in DOMAIN cat : cat[i].area = a)
      areas == SortSeq(placed, near)
      kept == SelectSeq(areas, LAMBDA a : DecayFloor * Decay[home][a] >= Decay[home][areas[1]])
  IN SubSeq(kept, 1, Lesser(Len(kept), MaxNearbyAreas))

\* The merchants a pool can give; none where the area has no pool.
LocalPool(cat, pooled, home, law) ==
  IF home \notin pooled THEN <<>>
  ELSE LET near == Nearby(cat, home) IN SelectSeq(law, LAMBDA i : \E k \in DOMAIN near : near[k] = cat[i].area)

IsOnline(r) == r.footprint = "online" \/ r.area = NoArea

\* MembershipSampler::sample: online merchants for everybody, physical ones near
\* the home.  Not ready without an online merchant.
MembershipReady(cat, m) == \E k \in DOMAIN m.member : IsOnline(cat[m.member[k]])
MembershipLaw(cat, m, home) ==
  SelectSeq(m.member, LAMBDA i : IsOnline(cat[i])) \o LocalPool(cat, m.pooled, home, m.member)

\* The law of a favourite: without a sampler, the reach law.
FavoriteLaw(cat, m, p) ==
  IF MembershipReady(cat, m) THEN MembershipLaw(cat, m, m.homes[p]) ELSE IF m.reach = <<>> THEN m.merch ELSE m.reach

(* ------------------------------ the market ----------------------------- *)

\* WeightedPicker: tries until enough are distinct.
Pick(d, k, n, law) ==
  Fold(LAMBDA out, t : LET i == PickOne(d, k + t, law)
                       IN IF Len(out) >= n \/ \E x \in DOMAIN out : out[x] = i THEN out ELSE Append(out, i),
       <<>>, [t \in 1 .. MaxPickAttempts |-> t])

\* buildSocialContacts
SocialContacts(d, n) ==
  LET blocks == Communities(d, n, CommunityBounds)
  IN [p \in 1 .. n |-> ContactRow(d, p, ContactDegree, blocks, n)]

\* (mutant: pools for the homes of the window start only)
PooledAtStart(moves) == {AreaAt(moves[p], WindowStart) : p \in DOMAIN moves}
\* Every area that anybody ever lives in has a pool.
PooledAreas(moves) == AllAreas(moves)

\* buildMarket: favourites and billers are among those open at the window start,
\* the other laws hold the whole catalogue until the first month boundary.
BuildMarket(d, cat, moves) ==
  LET live == LiveIndices(cat, WindowStart)
      liveBillers == OfBillers(cat, live)
      laws == [homes |-> SnapshotAt(moves, WindowStart), pooled |-> PooledAreas(moves), merch |-> WholeLaw(cat),
               biller |-> BillerLaw(cat), reach |-> live, pools |-> WholeLaw(cat), lawful |-> live, member |-> live,
               contacts |-> SocialContacts(d, Len(moves)), at |-> WindowStart]
  IN laws @@
     [fav |-> [p \in DOMAIN moves |->
                 Pick(d, p, UniformInt(d, p, FavoriteSizes[1], FavoriteSizes[2] + 1), FavoriteLaw(cat, laws, p))],
      bill |-> [p \in DOMAIN moves |->
                  Pick(d, p, UniformInt(d, p, BillerSizes[1], BillerSizes[2] + 1),
                       IF liveBillers = <<>> THEN laws.biller ELSE liveBillers)]]

(* --------------------------- monthly evolution ------------------------- *)

\* isMonthBoundary
IsMonthBoundary(ts) == ts > WindowStart /\ ToCalendarDate(ts - Day).month # ToCalendarDate(ts).month

\* refreshHomes
RefreshHomes(m, moves, ts) ==
  [m EXCEPT !.homes = [p \in DOMAIN m.homes |-> LET a == AreaAt(moves[p], ts) IN IF a = NoArea THEN m.homes[p] ELSE a]]

\* The four laws over the merchants open at the boundary; a law that would become
\* empty stands, except the pools.
RebuildLive(cat, m, ts) ==
  LET live == LiveIndices(cat, ts)
      billers == OfBillers(cat, live)
  IN [m EXCEPT !.merch = IF live = <<>> THEN @ ELSE live,
               !.biller = IF billers = <<>> THEN @ ELSE billers,
               !.reach = IF live = <<>> THEN @ ELSE live,
               !.member = IF live = <<>> THEN @ ELSE SelectSeq(m.lawful, LAMBDA i : LiveAt(cat[i], ts)),
               !.pools = live]

IsValidNew(p, row, candidate) == candidate # p /\ \A i \in DOMAIN row : row[i] # candidate

\* evolveContacts: one slot is given to somebody new, one copies another.
EvolveContacts(d, p, row, n) ==
  LET tries == SelectSeq([t \in 1 .. 10 |-> PickOne(d, p + t, Everyone(n))], LAMBDA q : IsValidNew(p, row, q))
      added == IF ~Coin(d, p) \/ tries = <<>> THEN row ELSE [row EXCEPT ![PickOne(d, p, Indices(row))] = tries[1]]
      to == PickOne(d, p, Indices(row))
      from == PickOne(d, p + 1, Indices(row))
  IN IF Coin(d, p + 1) /\ Len(row) >= 2 THEN [added EXCEPT ![to] = added[from]] ELSE added

\* Csr::swapRemove
SwapRemove(row, slot) == SubSeq([row EXCEPT ![slot] = row[Len(row)]], 1, Len(row) - 1)
Backward(row) == [k \in 1 .. Len(row) |-> Len(row) + 1 - k]

\* churnBillers: a closed one is replaced in its slot by the first of eight draws
\* that is open and not held; without one the slot goes.
ChurnBillers(d, p, cat, law, bill, ts) ==
  LET fits(row, i) == LiveAt(cat[i], ts) /\ \A k \in DOMAIN row : row[k] # i
      step(row, slot) ==
        LET found == SelectSeq([t \in 1 .. 8 |-> PickOne(d, p + slot + t, law)], LAMBDA i : fits(row, i))
        IN IF LiveAt(cat[row[slot]], ts) THEN row
           ELSE IF found = <<>> THEN SwapRemove(row, slot) ELSE [row EXCEPT ![slot] = found[1]]
  IN IF law = <<>> THEN bill ELSE Fold(step, bill, Backward(bill))

\* The favourites that closed, from the last slot to the first.
ForcedDrops(cat, fav, ts) ==
  Fold(LAMBDA row, slot : IF LiveAt(cat[row[slot]], ts) THEN row ELSE SwapRemove(row, slot), fav, Backward(fav))

\* evolveFavorites: perhaps one more, perhaps one of more than three less.
EvolveFavorites(d, p, fav, law, total) ==
  LET fresh == SelectSeq([t \in 1 .. 20 |-> PickOne(d, p + t, law)], LAMBDA i : \A k \in DOMAIN fav : fav[k] # i)
      grown == IF Coin(d, p) /\ Len(fav) < MaxFavorites /\ Len(fav) < total /\ fresh # <<>>
               THEN Append(fav, fresh[1]) ELSE fav
      drop == PickOne(d, p, Indices(grown))
  IN IF Coin(d, p + 1) /\ Len(grown) > 3 THEN SubSeq(grown, 1, drop - 1) \o SubSeq(grown, drop + 1, Len(grown)) ELSE grown

\* evolveAll: laws, contacts, then billers and favourites of one person after another.
EvolveAll(d, cat, m, ts) ==
  LET laws == RebuildLive(cat, m, ts)
      fav(p) == EvolveFavorites(d, p, ForcedDrops(cat, m.fav[p], ts), FavoriteLaw(cat, laws, p), Len(cat))
  IN [laws EXCEPT !.contacts = [p \in DOMAIN m.contacts |->
                                  IF m.contacts[p] = <<>> THEN <<>> ELSE EvolveContacts(d, p, m.contacts[p], Len(m.contacts))],
                  !.bill = [p \in DOMAIN m.bill |-> ChurnBillers(d, p, cat, laws.biller, m.bill[p], ts)],
                  !.fav = [p \in DOMAIN m.fav |-> SubSeq(fav(p), 1, Lesser(Len(fav(p)), FavoriteCapacity))],
                  !.at = ts]

\* evolveIfNeeded: the homes move first.
EvolveMonth(d, cat, moves, m, ts) == EvolveAll(d, cat, RefreshHomes(m, moves, ts), ts)

(* ------------------------------- routing ------------------------------- *)

\* A payment to be routed: the payer p, the instant, an ordinal k for its draws.
\* A routed row adds the catalogue index paid (0 for none) and how it was found.
Found(row, pick, how) == row @@ [pick |-> pick, how |-> how]

SpendAmount(d, k, lo, hi, ts) == Greater(100, (UniformInt(d, k, lo, hi) * PriceScale(YearOf(ts))) \div 100)

EmitBill(d, cat, m, e) ==
  LET known == m.bill[e.p] # <<>> /\ Coin(d, e.k)
      i == IF known THEN PickOne(d, e.k, m.bill[e.p]) ELSE PickOne(d, e.k, m.biller)
  IN Found(Row(Primary(e.p), MerchantKey(i), SpendAmount(d, e.k, 2000, 40000, e.ts), e.ts, "bill"), i,
           IF known THEN "known" ELSE "national")

ExternalDraft(d, e, dst, pick) ==
  Found(Row(Primary(e.p), dst, SpendAmount(d, e.k, 500, 60000, e.ts), e.ts, "externalUnknown"), pick, "remote")
\* emitExternal: a check, or a remote merchant when one is open.
EmitExternal(d, cat, m, e) ==
  LET remote == PickRemote(cat, e.p, e.ts)
  IN IF ~CheckRouted(e.p, e.ts) /\ remote # {} THEN ExternalDraft(d, e, MerchantKey(The(remote)), The(remote))
     ELSE ExternalDraft(d, e, CheckPayeeBank(e.p, e.ts), 0)

\* emitP2p
EmitP2p(d, cat, m, e) ==
  LET row == m.contacts[e.p]
      contact == PickOne(d, e.k, row)
  IN IF row = <<>> \/ ~HasAccount(contact) \/ Primary(contact) = Primary(e.p)
     THEN ExternalDraft(d, e, P2pPlatformFor(e.p), 0)
     ELSE Found(Row(Primary(e.p), Primary(contact), SpendAmount(d, e.k, 500, 30000, e.ts), e.ts, "p2p"), 0, "contact")

MerchantRetryLimit == 6
\* pickMerchantIndex: a favourite, or an exploration near home or anywhere that
\* is drawn again while it hits a favourite.
ExploreAmong(d, fav, law, k) ==
  LET draws == [t \in 1 .. 1 + MerchantRetryLimit |-> PickOne(d, k + t, law)]
      fresh == SelectSeq(draws, LAMBDA i : \A x \in DOMAIN fav : fav[x] # i)
  IN IF fresh # <<>> THEN fresh[1] ELSE draws[Len(draws)]
ExplorationLaw(d, k, near, merch) == IF Coin(d, k + 1) /\ near # <<>> THEN near ELSE merch
PickMerchant(d, cat, m, e) ==
  LET fav == m.fav[e.p]
  IN IF ~Coin(d, e.k) /\ fav # <<>> THEN [pick |-> PickOne(d, e.k, fav), how |-> "known"]
     ELSE [pick |-> ExploreAmong(d, fav, ExplorationLaw(d, e.k, LocalPool(cat, m.pooled, m.homes[e.p], m.pools), m.merch), e.k),
           how |-> IF Coin(d, e.k + 1) THEN "local" ELSE "national"]

\* giftcards::amountFor: face values, whatever the price level.
GiftCardEligible(category) == category \in {"grocery", "pharmacy", "retailOther", "ecommerce"}
Denominations == <<1000, 2500, 5000, 10000, 20000, 50000>>
GiftCardAmount(p, dst, ts, category) ==
  IF GiftCardEligible(category) /\ Mix(8, p + dst, ts) % 20 = 0 THEN {Denominations[1 + (Mix(9, p + dst, ts) % 6)]} ELSE {}

\* pickInstrumentSlot: derived from the payer and the instant.
InstrumentSlot(region, p, ts) == IF Len(region) <= 1 THEN 1 ELSE 1 + (Mix(7, p, ts) % Len(region))
DepositsOf(p) == SubSeq(Owned[p], 1, Lesser(3, Len(Owned[p])))
CreditsOf(p) == SubSeq(CreditCards[p], 1, Lesser(4, Len(CreditCards[p])))
\* selectPaymentRoute: a card with room, by preference or for want of cash.
SelectPaymentRoute(d, e, cash, room, amount) ==
  LET deposit == [src |-> DepositsOf(e.p)[InstrumentSlot(DepositsOf(e.p), e.p, e.ts)], chan |-> "merchant"]
      card == [src |-> CreditsOf(e.p)[InstrumentSlot(CreditsOf(e.p), e.p, e.ts)], chan |-> "cardPurchase"]
  IN IF CreditsOf(e.p) = <<>> \/ room < amount THEN deposit
     ELSE IF Coin(d, e.k + 2) \/ 2 * cash < 3 * amount THEN card ELSE deposit

\* emitMerchant, with cash and room as the day began.
MerchantAmount(d, cat, e, pick) ==
  LET gift == GiftCardAmount(e.p, MerchantKey(pick), e.ts, cat[pick].category)
  IN IF gift # {} THEN The(gift) ELSE SpendAmount(d, e.k, 500, 50000, e.ts)
Routed(e, found, amount, route) ==
  Found(Row(route.src, MerchantKey(found.pick), amount, e.ts, route.chan), found.pick, found.how)
EmitAt(d, e, found, amount) ==
  Routed(e, found, amount, SelectPaymentRoute(d, e, UniformInt(d, e.k, 0, 100000), UniformInt(d, e.k + 1, 0, 100000), amount))
EmitFound(d, cat, e, found) == EmitAt(d, e, found, MerchantAmount(d, cat, e, found.pick))
EmitMerchant(d, cat, m, e) == EmitFound(d, cat, e, PickMerchant(d, cat, m, e))

\* route, over the four slots.
RouteAll(d, cat, m, e) ==
  <<EmitMerchant(d, cat, m, e), EmitBill(d, cat, m, e), EmitP2p(d, cat, m, e), EmitExternal(d, cat, m, e)>>
=============================================================================
