----------------------------- MODULE CardFraud -----------------------------
(***************************************************************************)
(* The card_fraud use case.  The sink keeps the card rows of the posted    *)
(* stream and merges into them the authorizations that were refused: the   *)
(* funding declines the replay decided (ids T<n>F), a declined attempt     *)
(* before some settled rows (T<n>D) and a card-testing probe before the    *)
(* first row of a listed card (T<n>E).  The finisher writes the entities   *)
(* that the stream observed, and those of the world.                       *)
(*                                                                         *)
(* A row of cf_Payment_Transaction stands for its card, merchant, device   *)
(* and address edges too: the five tables are written together.            *)
(***************************************************************************)
EXTENDS StandardExport

CONSTANTS CardOwner,          \* creditCards.byKey: key -> owner
          DeclineLead,        \* the 60 seconds of a declined attempt, in ticks
          ProbeLead,          \* kProbeLeadSeconds, in ticks
          DeclinedBefore(_),  \* derive::declinedBefore, a hash of the row
          Listed,             \* the cards whose hash is below kProbedBasisPoints
          OperatorAt(_, _),   \* attackers.operatorAt: a set of at most one
          OperatorDevice(_, _), OperatorIp(_, _),   \* deviceAt, ipAt: likewise
          PickMerchant(_, _), \* the operator's choice among live merchants
          Validity(_),        \* validityMonths of a card, in ticks
          Wait(_, _),         \* waiting time of a generation's replacement
          EmvAt(_),           \* the EMV conversion of a card, 0 for none
          MaxGenerations,     \* kMaxGenerations
          AreaOf,             \* geography: area -> [city, state, zip]
          HomeTenures,        \* relocation.tenures: person -> seq of [area, from]
          AttackerDevices, AttackerIps,
          Burners,            \* isBurnerDevice
          Blacklisted,        \* the flagged addresses of ips.records
          Categories

(* ------------------------------- reissues ------------------------------ *)

\* generationsFor: expiry, loss and the EMV conversion compete; the first ends
\* the generation.
GenerationsFor(k) ==
  LET next(c, i) ==
        LET n == Min({c + Validity(k), c + Max({1, Wait(k, i)})})
        IN IF EmvAt(k) > c /\ EmvAt(k) < n THEN EmvAt(k) ELSE n
      f[i \in 0 .. MaxGenerations] ==
        IF i = 0 THEN <<>>
        ELSE LET c == IF f[i - 1] = <<>> THEN 0 ELSE Last(f[i - 1]).to
             IN IF c >= WindowDays THEN f[i - 1]
                ELSE Append(f[i - 1], [from |-> c, to |-> Min({next(c, i - 1), WindowDays})])
      s == f[MaxGenerations]
  IN IF s = <<>> THEN s ELSE [s EXCEPT ![Len(s)].to = WindowDays]

\* (mutant: the day on which a card is replaced still has the old number)
GenerationAtClosed(k, ts) ==
  LET s == GenerationsFor(k)
      live == {i \in DOMAIN s : s[i].from <= ts /\ ts <= s[i].to}
  IN CASE live # {} -> Min(live) - 1
       [] live = {} /\ s # <<>> -> Len(s) - 1
       [] OTHER -> 0

\* generationAt: the number is one less than the place in the sequence.
GenerationAt(k, ts) ==
  LET s == GenerationsFor(k)
      live == {i \in DOMAIN s : s[i].from <= ts /\ ts < s[i].to}
  IN CASE live # {} -> Min(live) - 1
       [] live = {} /\ s # <<>> -> Len(s) - 1
       [] OTHER -> 0

(* ------------------------------- the view ------------------------------ *)

CardView == {"cardPurchase", "merchant"}
IsCreditCard(k) == k \in DOMAIN CardOwner
CardId(k, generation) == <<IF IsCreditCard(k) THEN "C" ELSE "D", k, generation>>

\* StreamingCardFraudExport::ownerOf
CardOwnerOf(pack, k) == IF IsCreditCard(k) THEN CardOwner[k] ELSE OwnerOf(pack, k)

InMembership(pack, row, ts) ==
  /\ ActiveAt(CardOwnerOf(pack, row.src), ts)
  /\ ActiveAt(CardOwnerOf(pack, row.dst), ts)
InView(pack, row) == row.chan \in CardView /\ InMembership(pack, row, row.ts)
HasSession(row) == row.device # NoItem /\ row.ip # NoItem

\* backdatedRowIsObservable: the window starts at 0.
Observable(pack, row, ts) == ts >= 0 /\ InMembership(pack, row, ts)

CardFraudInit ==
  [rows |-> 0, firstTs |-> 0, view |-> 0, fraudView |-> 0, pay |-> <<>>, cursor |-> 0,
   cards |-> <<>>, merchants |-> {}, devices |-> {}, ips |-> {}, refused |-> FALSE]

Payment(id, ts, label, card, merchant, device, ip, error) ==
  [id |-> id, ts |-> ts, label |-> label, card |-> card, merchant |-> merchant,
   device |-> device, ip |-> ip, error |-> error]

\* The vertices a row needs: its merchant and its endpoints.
Register(a, merchant, device, ip) ==
  [a EXCEPT !.merchants = @ \cup {merchant}, !.devices = @ \cup {device}, !.ips = @ \cup {ip}]

\* The card of a row and the generation seen; a decline leaves the fraud mark.
SeeCard(a, k, generation, fraud) ==
  LET seen == IF k \in DOMAIN a.cards THEN a.cards[k] ELSE [fraud |-> FALSE, gens |-> {}]
  IN [a EXCEPT !.cards = (k :> [fraud |-> seen.fraud \/ fraud,
                                gens |-> seen.gens \cup {generation}]) @@ @]

(* --------------------------- refused attempts -------------------------- *)

\* (mutant: the vertices of a declined attempt are not registered)
OneDeclineUnregistered(pack, a, row) ==
  LET n == a.cursor + 1
      g == GenerationAt(row.src, row.ts)
      b == [a EXCEPT !.cursor = n]
  IN IF ~(InView(pack, row) /\ HasSession(row)) THEN b
     ELSE [b EXCEPT !.pay = Append(@, Payment(<<n, "F">>, row.ts, 0, CardId(row.src, g), row.dst,
                                              row.device, row.ip, "insufficient"))]

\* One step of writeFundingDeclinesUpTo: every attempt takes a number, and those
\* outside the view or without a session no row.
OneDecline(pack, a, row) ==
  LET n == a.cursor + 1
      g == GenerationAt(row.src, row.ts)
      b == [a EXCEPT !.cursor = n]
  IN IF ~(InView(pack, row) /\ HasSession(row)) THEN b
     ELSE [Register(SeeCard(b, row.src, g, FALSE), row.dst, row.device, row.ip) EXCEPT
             !.pay = Append(@, Payment(<<n, "F">>, row.ts, 0, CardId(row.src, g), row.dst,
                                       row.device, row.ip, "insufficient"))]

\* writeFundingDeclinesUpTo: the attempts behind the cursor, up to the first that
\* is later than the bound.
WriteFundingDeclinesUpTo(pack, a, declined, bound) ==
  LET reach == Max({i \in a.cursor .. Len(declined) :
                      \A j \in a.cursor + 1 .. i : declined[j].ts <= bound})
  IN Fold(LAMBDA b, row : OneDecline(pack, b, row), a, SubSeq(declined, a.cursor + 1, reach))

LiveMerchants(ts) == {m \in Catalog : m.open <= ts /\ ts < m.close}

\* enumeration::probeFor, a set of at most one probe.
ProbeFor(k, ts) ==
  UNION {{[device |-> d, ip |-> i, op |-> op, ts |-> ts - ProbeLead] :
          d \in OperatorDevice(op, ts - ProbeLead), i \in OperatorIp(op, ts - ProbeLead)} :
         op \in IF k \in Listed THEN OperatorAt(k, ts) ELSE {}}

\* writeEnumerationProbe: the card number is that of the settled row.
WriteEnumerationProbe(pack, a, row, id, card) ==
  LET probes == {p \in ProbeFor(row.src, row.ts) :
                   Observable(pack, row, p.ts) /\ LiveMerchants(p.ts) # {}}
  IN IF probes = {} THEN a
     ELSE LET p == CHOOSE q \in probes : TRUE
              m == PickMerchant(p.op, LiveMerchants(p.ts)).key
          IN [Register(a, m, p.device, p.ip) EXCEPT
                !.pay = Append(@, Payment(<<id, "E">>, p.ts, 0, card, m, p.device, p.ip, "probe"))]

\* The declined attempt of append, one DeclineLead before the row it precedes.
WriteDeclinedAttempt(pack, a, row, id, card) ==
  IF DeclinedBefore(row) /\ Observable(pack, row, row.ts - DeclineLead)
  THEN [a EXCEPT !.pay = Append(@, Payment(<<id, "D">>, row.ts - DeclineLead, 0, card, row.dst,
                                           row.device, row.ip, "nonFunding"))]
  ELSE a

\* The settled row.
WriteSettled(a, row, id, card) ==
  [a EXCEPT !.pay = Append(@, Payment(<<id, "T">>, row.ts, IF row.fraud THEN 1 ELSE 0, card,
                                      row.dst, row.device, row.ip, ""))]

\* One row of append; a row of the view without a session is refused with an
\* exception.  Whether the card is new is read after the declines were merged.
ObserveCardRow(pack, a, row, declined) ==
  LET id == a.rows + 1
      counted == [a EXCEPT !.rows = id]
      merged == WriteFundingDeclinesUpTo(pack,
                  [counted EXCEPT !.view = @ + 1, !.fraudView = @ + IF row.fraud THEN 1 ELSE 0],
                  declined, row.ts)
      first == row.src \notin DOMAIN merged.cards
      g == GenerationAt(row.src, row.ts)
      card == CardId(row.src, g)
      seen == Register(SeeCard(merged, row.src, g, row.fraud), row.dst, row.device, row.ip)
      probed == IF first THEN WriteEnumerationProbe(pack, seen, row, id, card) ELSE seen
  IN CASE a.refused -> a
       [] ~a.refused /\ ~InView(pack, row) -> counted
       [] ~a.refused /\ InView(pack, row) /\ ~HasSession(row) -> [counted EXCEPT !.refused = TRUE]
       [] OTHER -> WriteSettled(WriteDeclinedAttempt(pack, probed, row, id, card), row, id, card)

\* StreamingCardFraudExport::append
CardFraudAppend(pack, a, rows, declined) ==
  IF rows = <<>> THEN a
  ELSE Fold(LAMBDA b, row : ObserveCardRow(pack, b, row, declined),
            [a EXCEPT !.firstTs = IF a.rows = 0 THEN Head(rows).ts ELSE @], rows)

(* ------------------------- exportFromArtifacts ------------------------- *)

ObservedCards(a) == UNION {{<<k, g>> : g \in a.cards[k].gens} : k \in DOMAIN a.cards}

\* Card and Party_Has_Card: one vertex per observed generation.
CfCard(a) == {<<CardId(c[1], c[2])>> : c \in ObservedCards(a)}
CfPartyHasCard(pack, a) ==
  {<<Customer(CardOwnerOf(pack, c[1])), CardId(c[1], c[2])>> :
   c \in {x \in ObservedCards(a) : CardOwnerOf(pack, x[1]) # NoPerson}}

CatalogOf(k) == {m \in Catalog : m.key = k}

\* Merchant, Merchant_Assigned and the geography of a merchant with an area.
CfMerchant(a) == {<<k>> : k \in a.merchants}
CfMerchantAssigned(a) ==
  {<<k, IF CatalogOf(k) = {} THEN "fallback" ELSE (CHOOSE m \in CatalogOf(k) : TRUE).category>> :
   k \in a.merchants}
MerchantAreas(a) ==
  {<<m.key, AreaOf[m.area]>> : m \in {x \in Catalog : x.key \in a.merchants /\ x.area \in DOMAIN AreaOf}}

\* Party home geography: one row per tenure, the static home without any.
HomeAreas ==
  UNION {{<<Customer(p), AreaOf[t.area], t.from>> :
          t \in {x \in Range(HomeTenures[p]) : x.area \in DOMAIN AreaOf}} : p \in People}

CityId(area) == <<area.city, area.state>>

\* City, State, Zipcode: the union of both, written after them.
Areas(a) == {x[2] : x \in MerchantAreas(a)} \cup {x[2] : x \in HomeAreas}

CfParty == {<<Customer(p), JoinDay[p]>> : p \in People}

\* Is_Merchant: of the merchants observed in the view.
CfIsMerchant(a) ==
  {<<m.key, Customer(m.owner)>> : m \in {x \in Catalog : x.key \in a.merchants /\ x.owner # NoPerson}}

\* The device and address universes with their verdicts.
CfDevices(a) == {r.device : r \in DeviceRecords} \cup a.devices
CfIps(a) == IpRecords \cup a.ips
BurnerIps(a) == {EndpointIp(d) : d \in a.devices \cap Burners}
FlaggedDevices(a) ==
  {r.device : r \in {x \in DeviceRecords : x.flagged}}
  \cup {d \in a.devices : d \in AttackerDevices \cup Burners}
FlaggedIps(a) == Blacklisted \cup {i \in a.ips : i \in AttackerIps \cup BurnerIps(a)}

OnFile(usages, Item(_)) ==
  {<<Customer(u.person), Item(u)>> : u \in {x \in Range(usages) : x.enrolled /\ x.person \in People}}

\* isFraudActor
IsFraudActor(p) == p \in Fraud \cup Solo \cup Mule

\* The quarantined overlay, by type of entity: positives only.
LabelledCards(a) ==
  {<<"ever_fraud", CardId(c[1], c[2])>> : c \in {x \in ObservedCards(a) : a.cards[x[1]].fraud}}
LabelledParties == {<<"fraud_actor", Customer(p)>> : p \in {q \in People : IsFraudActor(q)}}

\* The email buckets are those of the distinct addresses.
EmailBuckets == UNION {{<<v[1], b>> : b \in TextBuckets("email", v[1])} : v \in ValueRows("email")}

CardFraudTables(pack, a) ==
  LET merchant(f) == {<<x[1], x[2][f]>> : x \in MerchantAreas(a)}
      home(f) == {<<x[1], x[2][f], x[3]>> : x \in HomeAreas}
      edge(f) == {<<p.id, p[f]>> : p \in Range(a.pay)}
  IN [Payment_Transaction |-> {<<p.id, p.ts, p.label, p.error>> : p \in Range(a.pay)},
      Card_Send |-> edge("card"), Merchant_Receive |-> edge("merchant"),
      Transaction_Uses_Device |-> edge("device"), Transaction_Uses_IP |-> edge("ip"),
      Card |-> CfCard(a), Party_Has_Card |-> CfPartyHasCard(pack, a),
      Merchant |-> CfMerchant(a), Merchant_Assigned |-> CfMerchantAssigned(a),
      Has_State |-> merchant("state"), Has_Zip |-> merchant("zip"),
      Has_City |-> {<<x[1], CityId(x[2])>> : x \in MerchantAreas(a)},
      Has_Std_City |-> {<<x[1], CityId(x[2]), x[3]>> : x \in HomeAreas},
      Has_Std_Postcode |-> home("zip"), Has_Std_State |-> home("state"),
      City |-> {<<CityId(x)>> : x \in Areas(a)}, State |-> {<<x.state>> : x \in Areas(a)},
      Located_In |-> {<<CityId(x), x.state>> : x \in Areas(a)},
      Zipcode |-> {<<x.zip>> : x \in Areas(a)}, Assigned_To |-> {<<x.zip, CityId(x)>> : x \in Areas(a)},
      Merchant_Category |-> {<<c>> : c \in Categories}, Party |-> CfParty, Is_Merchant |-> CfIsMerchant(a),
      Phone |-> ValueRows("phone"), Has_Phone |-> HasValueRows("phone"),
      Email |-> ValueRows("email"), Has_Email |-> HasValueRows("email"),
      Has_Email_Minhash |-> EmailBuckets, Email_Minhash |-> {<<x[2]>> : x \in EmailBuckets},
      DOB |-> ValueRows("dob"), Has_DOB |-> HasValueRows("dob"),
      Full_Name |-> ValueRows("name"), Has_Full_Name |-> HasValueRows("name"),
      Device |-> {<<d>> : d \in CfDevices(a)}, IP |-> {<<i>> : i \in CfIps(a)},
      Has_Device |-> OnFile(Usages, LAMBDA u : u.device), Has_IP |-> OnFile(IpUsages, LAMBDA u : u.ip),
      labelCard |-> LabelledCards(a), labelParty |-> LabelledParties,
      labelDevice |-> {<<"flagged", d>> : d \in FlaggedDevices(a)},
      labelIp |-> {<<"blacklisted", i>> : i \in FlaggedIps(a)}]

CardFraudRefs ==
  {<<"Card_Send", 1, {"Payment_Transaction"}>>, <<"Card_Send", 2, {"Card"}>>,
   <<"Merchant_Receive", 2, {"Merchant"}>>, <<"Transaction_Uses_Device", 2, {"Device"}>>,
   <<"Transaction_Uses_IP", 2, {"IP"}>>, <<"Party_Has_Card", 1, {"Party"}>>,
   <<"Party_Has_Card", 2, {"Card"}>>, <<"Merchant_Assigned", 2, {"Merchant_Category"}>>,
   <<"Has_City", 2, {"City"}>>, <<"Has_State", 2, {"State"}>>, <<"Has_Zip", 2, {"Zipcode"}>>,
   <<"Has_Std_City", 2, {"City"}>>, <<"Has_Std_Postcode", 2, {"Zipcode"}>>,
   <<"Has_Std_State", 2, {"State"}>>, <<"Located_In", 2, {"State"}>>, <<"Assigned_To", 2, {"City"}>>,
   <<"Is_Merchant", 1, {"Merchant"}>>, <<"Is_Merchant", 2, {"Party"}>>,
   <<"Has_Device", 2, {"Device"}>>, <<"Has_IP", 2, {"IP"}>>,
   <<"Has_Email_Minhash", 1, {"Email"}>>, <<"Has_Email_Minhash", 2, {"Email_Minhash"}>>,
   <<"labelCard", 2, {"Card"}>>, <<"labelParty", 2, {"Party"}>>,
   <<"labelDevice", 2, {"Device"}>>, <<"labelIp", 2, {"IP"}>>}
=============================================================================
