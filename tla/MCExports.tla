----------------------------- MODULE MCExports -----------------------------
(***************************************************************************)
(* Person 1 leads ring 1 and may own a shell, person 2 is its mule, person *)
(* 3 a solo fraudster with a business, person 4 a cardholder who joins     *)
(* late and dies inside the window.  Merchant m1 banks elsewhere, m2 here. *)
(* A tick is a quarter of a span.                                          *)
(***************************************************************************)
EXTENDS Exports

K(role, bank, n) == Key(role, bank, n)
m1 == K("merchant", "external", 1)
m2 == K("merchant", "internal", 2)
hub == K("employer", "external", 3)
gl == K("ledger", "internal", 4)
atm == K("atm", "external", 5)
card == K("card", "internal", 6)
kin == K("family", "external", 7)
land == K("landlord", "internal", 8)

MCDraws == {[counts |-> <<1, 1, 2, 1>>, shells |-> {1}, owners |-> <<3>>],
            [counts |-> <<2, 1, 1, 1>>, shells |-> {}, owners |-> <<3, 4>>]}
MCLists ==
  [gl |-> <<gl>>, system |-> <<hub>>, taxonomy |-> <<atm>>, merchants |-> <<m1, m2>>,
   landlords |-> <<land>>, directory |-> <<hub, kin>>, atms |-> <<atm>>, depositories |-> <<>>,
   fallbackAtms |-> <<atm>>, cards |-> <<[key |-> card, owner |-> 4]>>, payees |-> <<>>,
   remote |-> <<>>, providers |-> <<K("lender", "external", 9)>>]
MCRings == {[id |-> 1, members |-> {1, 2}, frauds |-> {1}, mules |-> {2}]}
MCNumber(i) == i

MCText == <<"t1", "t2", "t3", "t4">>
MCPii == [p \in 1 .. 4 |->
  [country |-> IF p = 4 THEN "ca" ELSE "us", name |-> MCText[p], street |-> MCText[1 + p \div 3],
   city |-> "t1", state |-> "t1", zip |-> "t1", address |-> MCText[1 + p \div 3], phone |-> MCText[p],
   email |-> MCText[1 + p \div 3], dob |-> IF p = 1 THEN "" ELSE MCText[p]]]
MCTimelines == [p \in 1 .. 4 |->
  [seed |-> IF p = 3 THEN "smallBusiness" ELSE "salaried", working |-> "salaried", workStart |-> 0,
   businessEnd |-> 5, retirement |-> 99, death |-> IF p = 4 THEN 4 ELSE 90]]
MCJoin == [p \in 1 .. 4 |-> IF p = 4 THEN 1 ELSE 0]

use(p, d, f, l, e) == [person |-> p, device |-> d, first |-> f, last |-> l, enrolled |-> e]
ipUse(p, i, f, l, e) == [person |-> p, ip |-> i, first |-> f, last |-> l, enrolled |-> e]
MCUsages == <<use(1, "d1", 0, 2, TRUE), use(2, "d1", 1, 5, FALSE), use(4, "d2", 1, 6, TRUE)>>
MCIpUsages == <<ipUse(1, "i1", 0, 3, TRUE), ipUse(4, "i2", 1, 2, TRUE)>>
MCTerminals == <<[device |-> "d3", first |-> 2, last |-> 3]>>
MCDevices == {[device |-> "d1", kind |-> "web", flagged |-> TRUE], [device |-> "d2", kind |-> "ios", flagged |-> FALSE],
              [device |-> "d3", kind |-> "atm", flagged |-> FALSE]}
MCIpsOf == <<<<"i1">>, <<>>, <<>>, <<"i2">>>>
MCDevicesOf == <<<<"d1">>, <<"d1">>, <<>>, <<"d2">>>>
MCEndpointIp(d) == "i3"
MCFiling(id) == TRUE
MCCpBank(k) == 1 + (k.n % 2)
MCBuckets(kind, x) == {<<kind, x>>}
MCCpName(k) == MCText[1 + (k.n % 4)]
MCLag(x) == 1
MCDecide(x) == x.idx = 1
MCOnboarding(p) == p
MCBook(k) == 0
MCCatalog ==
  {[label |-> 1, key |-> m1, category |-> "grocery", owner |-> 3, area |-> "a1", online |-> FALSE, open |-> 0, close |-> 3],
   [label |-> 2, key |-> m2, category |-> "fuel", owner |-> 0, area |-> "none", online |-> TRUE, open |-> 1, close |-> 99]}
MCLandlords == land :> "individual"
MCFallbackIp(k) == "i0"
MCFallbackDevice(k) == "d0"
MCOrder == <<"d0", "d1", "d2", "d3", "d9", "i0", "i1", "i2", "i3", "i9">>
Place(x) == CHOOSE i \in DOMAIN MCOrder : MCOrder[i] = x
MCPrecedes(x, y) == Place(x) < Place(y)
MCKeyBefore(x, y) == x.n < y.n \/ (x.n = y.n /\ x.bank = "external" /\ y.bank = "internal")

MCCardOwner == card :> 4
MCListed == {card}
MCDeclinedBefore(row) == row.src = card
MCOperatorAt(k, ts) == {1}
MCOperatorDevice(op, ts) == {"d9"}
MCOperatorIp(op, ts) == {"i9"}
MCPickMerchant(op, live) == CHOOSE m \in live : \A x \in live : m.label <= x.label
MCValidity(k) == 9
MCWait(k, i) == IF k = card THEN 2 ELSE 20
MCEmvAt(k) == IF k = card THEN 3 ELSE 0
MCAreas == "a1" :> [city |-> "c1", state |-> "s1", zip |-> "z1"] @@ "a2" :> [city |-> "c2", state |-> "s1", zip |-> "z2"]
MCHomes == [p \in 1 .. 4 |-> IF p = 4 THEN <<[area |-> "a2", from |-> 0], [area |-> "none", from |-> 3]>>
                             ELSE <<[area |-> "a1", from |-> 0]>>]

(* ------------------------------ the rows ------------------------------- *)

row(s, d, a, ts, c) ==
  [src |-> s, dst |-> d, amount |-> a, ts |-> ts, fraud |-> FALSE, ring |-> 0, chain |-> 0, chan |-> c,
   type |-> "debit", device |-> NoItem, ip |-> NoItem]
ill(r, ring, chain) == [r EXCEPT !.fraud = TRUE, !.ring = ring, !.chain = chain]
on(r, d, i) == [r EXCEPT !.device = d, !.ip = i]

AmlRows(t, p) ==
  {ill(row(Primary(p, 1), Primary(p, 2), 3, t, "layeringIn"), 1, 1),
   ill(row(Primary(p, 2), kin, 2, t + 1, "layeringOut"), 1, 1),
   ill(row(Primary(p, 3), m1, 3, t + 1, "classic"), 0, 0),
   row(hub, Primary(p, 4), 5, t, "salary"), row(Primary(p, 3), m2, 1, t + 2, "merchant"),
   row(Primary(p, 3), land, 4, t, "rent")}
EdgeRows0(t, p) ==
  {ill(row(Primary(p, 1), Primary(p, 2), 3, t, "muleIn"), 1, 1),
   ill(row(Primary(p, 3), kin, 9, t, "classic"), 0, 0),
   row(atm, Primary(p, 2), 10, t + 1, "cashDeposit"), row(Primary(p, 2), atm, 11, t + 2, "atm")}
StdRows(t, p) ==
  {row(Primary(p, 4), m1, 1, t, "merchant"), row(Primary(p, 4), m1, 2, t + 1, "merchant"),
   row(Primary(p, 3), Primary(p, 4), 3, t + 2, "p2p"), row(Primary(p, 3), land, 4, t, "rent"),
   row(Primary(p, 3), K("merchant", "external", 77), 1, t, "merchant")}
MlRows(t, p) ==
  {on(row(Primary(p, 1), m1, 1, t, "merchant"), "d1", "i1"), on(row(Primary(p, 1), m2, 1, t + 1, "merchant"), "d2", NoItem),
   row(Primary(p, 1), hub, 2, t, "p2p"), on(row(Primary(p, 4), Primary(p, 1), 2, t + 1, "p2p"), "d2", "i2")}
CardRows(t, p) ==
  {on(row(card, m1, 1, t, "cardPurchase"), "d2", "i2"), on(row(card, m2, 2, t + 2, "cardPurchase"), "d2", "i3"),
   ill(on(row(card, m1, 2, t + 1, "cardPurchase"), "d9", "i9"), 0, 0),
   row(hub, Primary(p, 4), 3, t, "salary"), row(Primary(p, 1), m2, 1, t + 2, "merchant")}

MCRows(u, s, p) ==
  CASE u = "aml" -> AmlRows(4 * s, p) [] u = "amlTxnEdges" -> EdgeRows0(4 * s, p)
    [] u = "standard" -> StdRows(4 * s, p) [] u = "muleMl" -> MlRows(4 * s, p)
    [] u = "cardFraud" -> CardRows(4 * s, p)
MCDeclines(s) ==
  {on(row(card, land, 9, 4 * s + 2, "cardPurchase"), "d3", "i2"), row(card, m2, 9, 4 * s + 1, "cardPurchase")}
=============================================================================
