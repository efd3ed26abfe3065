----------------------------- MODULE AmlExport ------------------------------
(***************************************************************************)
(* The aml use case.  StreamingAmlExport accumulates artifacts while the   *)
(* ledger streams and writes the transaction tables row by row; the entity *)
(* tables are written from the world and the artifacts at the end.         *)
(*                                                                         *)
(* Text cells (names, streets, marital status, branch codes) are left out; *)
(* what identifies a vertex or an edge is kept.                            *)
(***************************************************************************)
EXTENDS World

(***************************************************************************)
(* Suspicious activity reports: the fraud rows are grouped while the       *)
(* stream passes and a report is made of each group at its end.            *)
(***************************************************************************)

CONSTANTS SarAmountFloor,   \* kSarAmountFloor
          FilingLag         \* the 30 days of applyActivity, in ticks

NoFraudGroups == [byRing |-> <<>>, solo |-> <<>>]

\* accumulateFraudTxn
AccumulateFraud(groups, row) ==
  CASE ~row.fraud -> groups
    [] row.fraud /\ row.ring # NoId ->
         [groups EXCEPT !.byRing =
            (row.ring :> Append(IF row.ring \in DOMAIN @ THEN @[row.ring] ELSE <<>>, row)) @@ @]
    [] row.fraud /\ row.ring = NoId -> [groups EXCEPT !.solo = Append(@, row)]

Total(rows) == Fold(LAMBDA t, r : t + r.amount, 0, rows)

\* activityPeriod
ActivityPeriod(rows) ==
  [total |-> Total(rows), first |-> Min({r.ts : r \in Range(rows)}),
   last |-> Max({r.ts : r \in Range(rows)})]

\* accountActivityAmounts: in and out of each of the accounts that the rows touch.
AccountActivity(rows, accounts) ==
  [k \in accounts \cap UNION {{r.src, r.dst} : r \in Range(rows)} |->
     Total(SelectSeq(rows, LAMBDA r : r.src = k)) + Total(SelectSeq(rows, LAMBDA r : r.dst = k))]

\* The channels in the order of their tags, as far as violationTypeForRing tells
\* them apart.
ChannelOrder == <<"salary", "merchant", "cardPurchase", "p2p", "classic", "cycle",
                  "layeringIn", "layeringHop", "layeringOut", "funnelIn", "funnelOut",
                  "structuring", "invoice", "muleIn", "muleForward">>

\* violationTypeForRing: the most frequent channel, the lowest tag on a tie.
ViolationType(rows) ==
  LET count(i) == CountIn(rows, LAMBDA r : r.chan = ChannelOrder[i])
      best == CHOOSE i \in DOMAIN ChannelOrder :
                /\ \A j \in DOMAIN ChannelOrder : count(j) <= count(i)
                /\ \A j \in 1 .. i - 1 : count(j) < count(i)
  IN CASE ChannelOrder[best] = "structuring" -> "structuring"
       [] ChannelOrder[best] = "invoice" -> "suspicious_activity"
       [] OTHER -> "money_laundering"

\* ringSar and soloSar: applyActivity, applySubjects and fillCoveredAccounts.
SarOf(id, subjects, rows, accounts, violation) ==
  LET a == ActivityPeriod(rows)
  IN [id |-> id, subjects |-> subjects, violation |-> violation,
      start |-> a.first, end |-> a.last, filing |-> a.last + FilingLag, amount |-> a.total,
      covered |-> AccountActivity(rows, accounts)]

\* filesSar
FilesSar(sar) == sar.amount >= SarAmountFloor /\ Filing(sar.id)

\* ringSubject
RingSubjects(ring) ==
  {<<p, "subject">> : p \in ring.frauds} \cup {<<p, "beneficiary">> : p \in ring.mules}

\* appendRingSars
RingSars(pack, groups) ==
  {s \in {SarOf(<<"RING", ring.id>>, RingSubjects(ring), groups.byRing[ring.id],
                InternalKeys(pack), ViolationType(groups.byRing[ring.id])) :
          ring \in {r \in Rings : r.id \in DOMAIN groups.byRing}} : FilesSar(s)}

\* soloSubject: every account of the person.
SoloAccounts(pack, p) == {pack.recs[i].id : i \in Range(Owned(pack, p))}

\* transactionsForSubject
RowsOf(rows, accounts) == SelectSeq(rows, LAMBDA r : r.src \in accounts \/ r.dst \in accounts)

\* appendSoloSars
SoloSars(pack, groups) ==
  {s \in {SarOf(<<"SOLO", p>>, {<<p, "subject">>}, RowsOf(groups.solo, SoloAccounts(pack, p)),
                SoloAccounts(pack, p), "suspicious_activity") :
          p \in {q \in Solo : RowsOf(groups.solo, SoloAccounts(pack, q)) # <<>>}} : FilesSar(s)}

\* generateSars
GenerateSars(pack, groups) == RingSars(pack, groups) \cup SoloSars(pack, groups)

-----------------------------------------------------------------------------

CONSTANTS CpBank(_),          \* counterpartyBankId: a number in 1 .. 20
          Buckets(_, _),      \* the bucket ids of a text, by kind of bucket
          CpName(_),          \* nameForCounterparty(...).firstName
          OnboardingLag(_),   \* onboardingDate: days before the start
          BookOf(_),          \* postedBook->liquidity, or 0 without a book
          CardKeys            \* collectCardIds

BankId(n) == Key("bank", "external", n)
OurBank == BankId(0)
NameId(x) == <<"NM", x>>
AddressId(x) == <<"ADDR", x>>
TxnId(i) == <<"TXN", i>>
WatchlistId(p) == <<"WL", p>>

\* buildSharedContextEntities with allBankIds
Counterparties(pack) == ExternalKeys(pack)
Banks(pack) == {OurBank} \cup {BankId(CpBank(k)) : k \in Counterparties(pack)}

(* ----------------------------- the stream ------------------------------ *)

AmlInit(pack) ==
  [rows |-> 0, firstTs |-> 0, lastTs |-> 0, illicit |-> 0, txnIndex |-> 1, chainIndex |-> 1,
   idx |-> 1, txns |-> {}, send |-> {}, recv |-> {}, cpSend |-> {}, cpRecv |-> {},
   labels |-> {}, sentTo |-> {}, receivedFrom |-> {}, last |-> <<>>,
   fraud |-> NoFraudGroups, chains |-> <<>>, shells |-> InitShellStats(pack)]

\* isCreditChannel
IsCredit(chan) ==
  \/ IsPaydayInbound(chan)
  \/ chan \in {"claim", "taxRefund", "refund", "chargeback", "checkDeposit", "rampIn"}

\* (mutant: the transaction id restarts with each batch)
TransactionRowsPerBatch(rows, next) ==
  {<<TxnId(i), IF IsCredit(rows[i].chan) THEN "C" ELSE "D", rows[i].ts, rows[i].chan,
     IF rows[i].fraud THEN 10 ELSE 0, rows[i].amount>> : i \in DOMAIN rows}

\* writeTransactionRows: nextIndex1 numbers the rows across the batches.
TransactionRows(rows, next) ==
  {<<TxnId(next + i - 1), IF IsCredit(rows[i].chan) THEN "C" ELSE "D", rows[i].ts, rows[i].chan,
     IF rows[i].fraud THEN 10 ELSE 0, rows[i].amount>> : i \in DOMAIN rows}

\* TransactionEdgeClassifier::observe: the sides of a row are told apart by the
\* bank of their key.
ObserveEdges(a, row) ==
  LET s == IsExternalKey(row.src)
      d == IsExternalKey(row.dst)
      i == TxnId(a.idx)
      when(c, x) == IF c THEN {x} ELSE {}
  IN [a EXCEPT !.send = @ \cup when(~s, <<row.src, i>>),
               !.cpSend = @ \cup when(s, <<row.src, i, CpName(row.src)>>),
               !.recv = @ \cup when(~d, <<row.dst, i>>),
               !.cpRecv = @ \cup when(d, <<row.dst, i, CpName(row.dst)>>),
               !.sentTo = @ \cup when(~s /\ d, <<row.src, row.dst>>),
               !.receivedFrom = @ \cup when(s /\ ~d, <<row.dst, row.src>>),
               !.idx = @ + 1]

\* observeTransaction
ObserveLast(last, row) ==
  [k \in DOMAIN last \cup {row.src, row.dst} |->
     IF k \notin {row.src, row.dst} THEN last[k]
     ELSE Max({row.ts} \cup IF k \in DOMAIN last THEN {last[k]} ELSE {})]

AmlObserve(a, row) ==
  [ObserveEdges(a, row) EXCEPT
     !.last = ObserveLast(@, row),
     !.fraud = AccumulateFraud(@, row),
     !.chains = AccumulateChain(@, row),
     !.shells = AccumulateShell(@, row),
     !.illicit = @ + IF row.fraud THEN 1 ELSE 0]

\* StreamingAmlExport::append
AmlAppend(a, rows) ==
  IF rows = <<>> THEN a
  ELSE Fold(AmlObserve,
         [a EXCEPT !.firstTs = IF a.rows = 0 THEN Head(rows).ts ELSE @,
                   !.lastTs = Last(rows).ts,
                   !.rows = @ + Len(rows),
                   !.txns = @ \cup TransactionRows(rows, a.txnIndex),
                   !.txnIndex = @ + Len(rows),
                   !.labels = @ \cup ChainLabelRows(rows, a.chainIndex),
                   !.chainIndex = @ + Len(rows)], rows)

(* ------------------------- the end of the stream ----------------------- *)

\* resolveEndOfWindowPersonas
ResolvedPersona(a) ==
  [p \in People |-> IF a.rows = 0 THEN Timelines[p].seed ELSE PersonaAt(Timelines[p], a.lastTs)]
ClosedByPerson(a) == [p \in People |-> a.rows # 0 /\ a.lastTs >= CloseTs(p)]

SimStart(a) == a.firstTs      \* kFallbackEpoch, 0, for an empty stream

\* customerType, riskRating
CustomerType(persona) == IF persona = "smallBusiness" THEN "business" ELSE "individual"
RiskRating(p) ==
  CASE p \in Fraud \cup Mule -> "very_high" [] p \in Victims \ (Fraud \cup Mule) -> "high"
    [] OTHER -> "low"

(* --------------------------- the vertex tables ------------------------- *)

\* writeCustomerRows with statusFor
CustomerRows(a) ==
  {<<Customer(p), CustomerType(ResolvedPersona(a)[p]), ResolvedPersona(a)[p],
     IF ClosedByPerson(a)[p] THEN "closed" ELSE "active", RiskRating(p), Pii[p].country,
     SimStart(a) - OnboardingLag(p)>> : p \in People}

\* buildInternalAccountRows and writeAccountRows; lastTxnString is NoId for an
\* account without a transaction.
AccountRows(pack, a) ==
  {<<r.id, BookOf(r.id),
     IF r.owner = NoPerson THEN SimStart(a) - 365 ELSE SimStart(a) - OnboardingLag(r.owner),
     IF r.id \in DOMAIN a.last THEN a.last[r.id] ELSE NoId,
     AccountType(r.id, r.id \in CardKeys)>> : r \in {x \in Range(pack.recs) : ~x.ext}}

\* writeCounterpartyRows
CounterpartyRows(pack) == {<<k, CpName(k), BankId(CpBank(k))>> : k \in Counterparties(pack)}

\* writeNameRows, writeAddressRows: emitted once per id.
NameOwners(pack) == Customers \cup Counterparties(pack) \cup Banks(pack)
NameRows(pack) == {<<NameId(x)>> : x \in NameOwners(pack)}
AddressRows(pack) ==
  {<<AddressId(Customer(p)), Pii[p].street, Pii[p].city, Pii[p].state, Pii[p].country>> :
   p \in People}
  \cup {<<AddressId(x), "commercial", "commercial", "commercial", "us">> :
        x \in Counterparties(pack) \cup Banks(pack)}

CountryRows == {<<c>> : c \in {"us"} \cup {Pii[p].country : p \in People}}
BankRows(pack) == {<<b>> : b \in Banks(pack)}
Watched == Fraud \cup Mule
WatchlistRows(a) == {<<WatchlistId(p), SimStart(a)>> : p \in Watched}

\* The windows of the devices in use; as a mutant of DeviceWindows: the terminals
\* get none.
UsageSightings ==
  [i \in DOMAIN Usages |->
     [key |-> Usages[i].device, first |-> Usages[i].first, last |-> Usages[i].last]]
UsageWindows == SeenWindows(UsageSightings)

\* writeDeviceRows: the usages, then the public terminals, which have none.
DeviceWindows ==
  SeenWindows(
    UsageSightings
    \o [i \in DOMAIN Terminals |->
          [key |-> Terminals[i].device, first |-> Terminals[i].first, last |-> Terminals[i].last]])

\* recordOwnerIp: the first usage whose person has an address; a terminal's own
\* address otherwise.
DeviceIp(d) ==
  LET seen == {i \in DOMAIN Usages : Usages[i].device = d /\ IpsOf[Usages[i].person] # <<>>}
  IN CASE seen # {} -> Head(IpsOf[Usages[Min(seen)].person])
       [] seen = {} /\ \E i \in DOMAIN Terminals : Terminals[i].device = d -> EndpointIp(d)
       [] OTHER -> "0.0.0.0"
DeviceRows ==
  {<<r.device, r.kind, DeviceIp(r.device), OsFor(r.kind),
     IF r.device \in DOMAIN DeviceWindows THEN DeviceWindows[r.device].first ELSE 0,
     IF r.device \in DOMAIN DeviceWindows THEN DeviceWindows[r.device].last ELSE 0,
     r.flagged>> : r \in DeviceRecords}

SarRows(sars) == {<<s.id, s.filing, s.amount, s.start, s.end, s.violation>> : s \in sars}
ChainRows(a) ==
  {<<c.id, c.ring, c.typology, c.hops, c.principal, c.final, c.start, c.end>> :
   c \in FinalizeChains(a.chains)}
ShellRows(pack, a) ==
  {<<s.account, s.ring, s.score>> : s \in FinalizeShells(pack, a.shells)}

\* collectMinhashVertexSets
BucketsOfPeople(kind, f) == UNION {{<<b>> : b \in Buckets(kind, Pii[p][f])} : p \in People}
NameBuckets(pack) ==
  BucketsOfPeople("name", "name")
  \cup UNION {{<<b>> : b \in Buckets("name", CpName(k))} : k \in Counterparties(pack)}

(* ---------------------------- the edge tables -------------------------- *)

CustomerHasAccount(pack) == {<<Customer(o[1]), o[2]>> : o \in InternalOwnership(pack)}
AccountHasPrimaryCustomer(pack) == {<<o[2], Customer(o[1])>> : o \in InternalOwnership(pack)}

\* writeUsesDeviceRows
UsesDevice ==
  LET w == SeenWindows([i \in DOMAIN Usages |->
             [key |-> <<Usages[i].person, Usages[i].device>>,
              first |-> Usages[i].first, last |-> Usages[i].last]])
  IN {<<Customer(k[1]), k[2], w[k].first, w[k].last, w[k].count>> : k \in DOMAIN w}

\* writeLoggedFromRows: a usage counts for every account of its person.
LoggedFrom(pack) ==
  LET w == SeenWindows([i \in DOMAIN Usages |->
             [key |-> <<Usages[i].person, Usages[i].device>>,
              first |-> Usages[i].first, last |-> Usages[i].last]])
  IN UNION {{<<o[2], k[2], w[k].first, w[k].last, w[k].count>> :
             o \in {x \in InternalOwnership(pack) : x[1] = k[1]}} : k \in DOMAIN w}

CustomerHasName(a) == {<<Customer(p), NameId(Customer(p)), SimStart(a)>> : p \in People}
CustomerHasAddress(a) == {<<Customer(p), AddressId(Customer(p)), SimStart(a)>> : p \in People}
CustomerCountry(a) == {<<Customer(p), Pii[p].country, SimStart(a)>> : p \in People}
AccountHasName(pack, a) ==
  {<<o[2], NameId(Customer(o[1])), SimStart(a)>> : o \in InternalOwnership(pack)}
AccountHasAddress(pack, a) ==
  {<<o[2], AddressId(Customer(o[1])), SimStart(a)>> : o \in InternalOwnership(pack)}
AccountCountry(pack, a) ==
  {<<r.id, IF r.owner = NoPerson THEN "us" ELSE Pii[r.owner].country, SimStart(a)>> :
   r \in {x \in Range(pack.recs) : ~x.ext}}
AddressInCountry(pack, a) ==
  {<<AddressId(Customer(p)), Pii[p].country, SimStart(a)>> : p \in People}
  \cup {<<AddressId(x), "us", SimStart(a)>> : x \in Counterparties(pack) \cup Banks(pack)}
CounterpartyHasName(pack, a) == {<<k, NameId(k), SimStart(a)>> : k \in Counterparties(pack)}
CounterpartyHasAddress(pack, a) == {<<k, AddressId(k), SimStart(a)>> : k \in Counterparties(pack)}
CounterpartyCountry(pack) == {<<k, "us">> : k \in Counterparties(pack)}
BankCountry(pack) == {<<b, "us">> : b \in Banks(pack)}
BankHasAddress(pack, a) == {<<b, AddressId(b), SimStart(a)>> : b \in Banks(pack)}
BankHasName(pack, a) == {<<b, NameId(b), SimStart(a)>> : b \in Banks(pack)}

\* writeBeneficiaryBankRows and writeOriginatorBankRows, over cpReceivers and
\* cpSenders.
BankEdges(cpRows) == {<<BankId(CpBank(k)), k>> : k \in {row[1] : row \in cpRows}}

CustomerMatchesWatchlist == {<<Customer(p), WatchlistId(p)>> : p \in Watched}
References(sars) == UNION {{<<s.id, Customer(x[1]), x[2]>> : x \in s.subjects} : s \in sars}
SarCovers(sars) == UNION {{<<s.id, k, s.covered[k]>> : k \in DOMAIN s.covered} : s \in sars}

\* writeCustomerHas...MinhashRows
CustomerBuckets(kind, f) ==
  UNION {{<<Customer(p), b>> : b \in Buckets(kind, Pii[p][f])} : p \in People}
AccountNameBuckets(pack) ==
  UNION {{<<o[2], b>> : b \in Buckets("name", Pii[o[1]].name)} : o \in InternalOwnership(pack)}
CounterpartyNameBuckets(pack) ==
  UNION {{<<k, b>> : b \in Buckets("name", CpName(k))} : k \in Counterparties(pack)}

\* writeResolvesToRows
ResolvesTo(pack) ==
  {<<r.id, Customer(r.owner)>> : r \in {x \in Range(pack.recs) : x.ext /\ x.owner # NoPerson}}

(* ------------------------- exportFromArtifacts ------------------------- *)

\* The vertex half, then the edge half; the transaction tables are those of the
\* stream.
AmlVertexTables(pack, a, sars) ==
  [Customer |-> CustomerRows(a), Account |-> AccountRows(pack, a),
   Counterparty |-> CounterpartyRows(pack), Name |-> NameRows(pack),
   Address |-> AddressRows(pack), Country |-> CountryRows, Device |-> DeviceRows,
   SAR |-> SarRows(sars), Bank |-> BankRows(pack), Watchlist |-> WatchlistRows(a),
   Chain |-> ChainRows(a), Shell_Account |-> ShellRows(pack, a), Transaction |-> a.txns,
   Name_MinHash |-> NameBuckets(pack),
   Address_MinHash |-> BucketsOfPeople("address", "address"),
   Street_MinHash |-> BucketsOfPeople("street", "street"),
   City_MinHash |-> BucketsOfPeople("city", "city"),
   State_MinHash |-> BucketsOfPeople("state", "state")]

AmlEdgeTables(pack, a, sars) ==
  [send |-> a.send, receive |-> a.recv, cpSend |-> a.cpSend, cpReceive |-> a.cpRecv,
   chainLabel |-> a.labels, hasAccount |-> CustomerHasAccount(pack),
   primaryCustomer |-> AccountHasPrimaryCustomer(pack), sentTo |-> a.sentTo,
   receivedFrom |-> a.receivedFrom, usesDevice |-> UsesDevice, loggedFrom |-> LoggedFrom(pack),
   custName |-> CustomerHasName(a), custAddress |-> CustomerHasAddress(a),
   custCountry |-> CustomerCountry(a), acctName |-> AccountHasName(pack, a),
   acctAddress |-> AccountHasAddress(pack, a), acctCountry |-> AccountCountry(pack, a),
   addrCountry |-> AddressInCountry(pack, a), cpName |-> CounterpartyHasName(pack, a),
   cpAddress |-> CounterpartyHasAddress(pack, a), cpCountry |-> CounterpartyCountry(pack),
   beneficiaryBank |-> BankEdges(a.cpRecv), originatorBank |-> BankEdges(a.cpSend),
   bankCountry |-> BankCountry(pack), bankAddress |-> BankHasAddress(pack, a),
   bankName |-> BankHasName(pack, a), watchlist |-> CustomerMatchesWatchlist,
   references |-> References(sars), sarCovers |-> SarCovers(sars),
   custNameMh |-> CustomerBuckets("name", "name"),
   custAddressMh |-> CustomerBuckets("address", "address"),
   custStreetMh |-> CustomerBuckets("street", "street"),
   custCityMh |-> CustomerBuckets("city", "city"),
   custStateMh |-> CustomerBuckets("state", "state"),
   acctNameMh |-> AccountNameBuckets(pack), cpNameMh |-> CounterpartyNameBuckets(pack),
   resolvesTo |-> ResolvesTo(pack)]

AmlTables(pack, a) ==
  LET sars == GenerateSars(pack, a.fraud)
  IN AmlVertexTables(pack, a, sars) @@ AmlEdgeTables(pack, a, sars)

\* Column of an edge table -> the vertex tables that may hold what it names.  An end of
\* send or receive may be a Counterparty: AccountEnds (Exports) says of which accounts.
AmlRefs ==
  {<<"send", 1, {"Account", "Counterparty"}>>, <<"receive", 1, {"Account", "Counterparty"}>>,
   <<"send", 2, {"Transaction"}>>, <<"receive", 2, {"Transaction"}>>,
   <<"cpSend", 1, {"Counterparty"}>>, <<"cpReceive", 1, {"Counterparty"}>>,
   <<"cpSend", 2, {"Transaction"}>>, <<"cpReceive", 2, {"Transaction"}>>,
   <<"chainLabel", 2, {"Chain"}>>,
   <<"hasAccount", 1, {"Customer"}>>, <<"hasAccount", 2, {"Account"}>>,
   <<"sentTo", 2, {"Counterparty"}>>, <<"receivedFrom", 2, {"Counterparty"}>>,
   <<"usesDevice", 1, {"Customer"}>>, <<"usesDevice", 2, {"Device"}>>,
   <<"loggedFrom", 1, {"Account"}>>, <<"loggedFrom", 2, {"Device"}>>,
   <<"custName", 2, {"Name"}>>, <<"custAddress", 2, {"Address"}>>,
   <<"custCountry", 2, {"Country"}>>, <<"acctName", 1, {"Account"}>>,
   <<"acctName", 2, {"Name"}>>, <<"acctAddress", 2, {"Address"}>>,
   <<"acctCountry", 1, {"Account"}>>, <<"acctCountry", 2, {"Country"}>>,
   <<"addrCountry", 1, {"Address"}>>, <<"addrCountry", 2, {"Country"}>>,
   <<"cpName", 2, {"Name"}>>, <<"cpAddress", 2, {"Address"}>>,
   <<"beneficiaryBank", 1, {"Bank"}>>, <<"beneficiaryBank", 2, {"Counterparty"}>>,
   <<"originatorBank", 1, {"Bank"}>>, <<"originatorBank", 2, {"Counterparty"}>>,
   <<"bankAddress", 2, {"Address"}>>, <<"bankName", 2, {"Name"}>>,
   <<"watchlist", 1, {"Customer"}>>, <<"watchlist", 2, {"Watchlist"}>>,
   <<"references", 1, {"SAR"}>>, <<"references", 2, {"Customer"}>>,
   <<"sarCovers", 1, {"SAR"}>>, <<"sarCovers", 2, {"Account", "Counterparty"}>>,
   <<"custNameMh", 2, {"Name_MinHash"}>>, <<"custAddressMh", 2, {"Address_MinHash"}>>,
   <<"custStreetMh", 2, {"Street_MinHash"}>>, <<"custCityMh", 2, {"City_MinHash"}>>,
   <<"custStateMh", 2, {"State_MinHash"}>>, <<"acctNameMh", 1, {"Account"}>>,
   <<"acctNameMh", 2, {"Name_MinHash"}>>, <<"cpNameMh", 2, {"Name_MinHash"}>>,
   <<"resolvesTo", 1, {"Counterparty"}>>, <<"resolvesTo", 2, {"Customer"}>>}

Vertex(tables, t) == {row[1] : row \in tables[t]}

Dangling(tables, refs) ==
  {r \in refs : \E row \in tables[r[1]] : \A t \in r[3] : row[r[2]] \notin Vertex(tables, t)}
=============================================================================
