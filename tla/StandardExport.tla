--------------------------- MODULE StandardExport ---------------------------
(***************************************************************************)
(* The standard use case.  StreamingTransfersExport keeps the two          *)
(* aggregates of the rows that lie inside the membership of both owners;   *)
(* exportEntities writes the rest from the world.                          *)
(***************************************************************************)
EXTENDS World

CONSTANTS JoinDay,      \* pack.joinDays, in ticks from the window's start
          WindowDays,   \* the window is 0 .. WindowDays - 1, in ticks
          BinDays,      \* kDefaultBinDays
          Catalog,      \* merchants.records, [label, key, category, owner, area, online, open, close]
          LandlordOf,   \* landlords.roster: key -> type
          TextBuckets(_, _)   \* minhash ids of a text, by kind

\* ownerOf: invalidPerson for a key that is not registered.
OwnerOf(pack, k) == IF k \in DOMAIN pack.byId THEN pack.recs[pack.byId[k]].owner ELSE NoPerson

\* Membership::activeAt, as membershipOf builds it.
ActiveAt(p, ts) == p = NoPerson \/ (JoinDay[p] <= ts /\ ts < CloseTs(p))

\* The rows that filterByMembership keeps.
Visible(pack, row) ==
  ActiveAt(OwnerOf(pack, row.src), row.ts) /\ ActiveAt(OwnerOf(pack, row.dst), row.ts)

\* makeBinSpec and indexFor: the last bin takes what lies behind it.
NumBins == (IF WindowDays > 0 THEN WindowDays - 1 ELSE 0) \div BinDays + 1
BinOf(ts) == IF ts <= 0 THEN 0 ELSE Min({ts \div BinDays, NumBins - 1})

NoPaid == [total |-> 0, count |-> 0, first |-> 0, last |-> 0]

\* accumulateHasPaid
AddPaid(rec, row) ==
  IF rec.count = 0 THEN [total |-> row.amount, count |-> 1, first |-> row.ts, last |-> row.ts]
  ELSE [total |-> rec.total + row.amount, count |-> rec.count + 1,
        first |-> Min({rec.first, row.ts}), last |-> Max({rec.last, row.ts})]
AccumulateHasPaid(agg, row) ==
  LET k == <<row.src, row.dst>>
  IN (k :> AddPaid(IF k \in DOMAIN agg THEN agg[k] ELSE NoPaid, row)) @@ agg

\* flow_agg::accumulate: the same totals, and the cell of the row's bin.
AccumulateFlow(agg, row) ==
  LET k == <<row.src, row.dst>>
      rec == IF k \in DOMAIN agg THEN agg[k]
             ELSE [sum |-> NoPaid, bins |-> [b \in 0 .. NumBins - 1 |-> <<0, 0>>]]
  IN (k :> [sum |-> AddPaid(rec.sum, row),
            bins |-> [rec.bins EXCEPT ![BinOf(row.ts)] = <<@[1] + row.amount, @[2] + 1>>]]) @@ agg

StandardInit == [rows |-> 0, visible |-> 0, paid |-> <<>>, flow |-> <<>>]

\* StreamingTransfersExport::append
StandardAppend(pack, a, rows) ==
  Fold(LAMBDA s, row :
             IF ~Visible(pack, row) THEN [s EXCEPT !.rows = @ + 1]
             ELSE [s EXCEPT !.rows = @ + 1, !.visible = @ + 1,
                            !.paid = AccumulateHasPaid(@, row),
                            !.flow = AccumulateFlow(@, row)], a, rows)

(* ----------------------------- exportEntities -------------------------- *)

Has(p, set) == p \in set

\* writePersonRows
PersonRows == {<<Customer(p), Has(p, Mule), Has(p, Fraud), Has(p, Victims), Has(p, Solo)>> : p \in People}

\* writeAccountNumberRows: the flags of the record, which applyPersonFlags put on
\* every account of makePack.
AccountNumberRows(pack) ==
  {<<r.id, r.owner \in Mule, r.owner \in Fraud, r.owner \in Victims, r.ext>> : r \in Range(pack.recs)}

\* writeHasAccountRows
HasAccountRows(pack) ==
  {<<Customer(r.owner), r.id>> : r \in {x \in Range(pack.recs) : x.owner # NoPerson}}

\* writeMerchantRows: the merchant and the account it is paid at are two keys.
MerchantRows ==
  {<<Key("merchant", "internal", m.label), m.key, m.category, m.key.bank = "internal">> : m \in Catalog}

\* labelFor, merchantIndex and landlordIndex: only keys of another bank have a label.
ExternalLabel(id) ==
  LET catalogued == {m \in Catalog : m.key = id /\ IsExternalKey(id)}
  IN CASE id.role = "merchant" /\ catalogued # {} -> (CHOOSE m \in catalogued : TRUE).category
       [] id.role = "landlord" /\ id \in DOMAIN LandlordOf /\ IsExternalKey(id) -> LandlordOf[id]
       [] id.role = "landlord" /\ ~(id \in DOMAIN LandlordOf /\ IsExternalKey(id)) -> "landlord"
       [] id.role # "landlord" /\ catalogued = {} /\ IsExternalKey(id) -> id.role
       [] OTHER -> "unknown"

\* writeExternalAccountRows
ExternalAccountRows(pack) == {<<k, ExternalLabel(k)>> : k \in ExternalKeys(pack)}

\* writeDeviceRows, writeIpAddressRows, writeHasUsedRows, writeHasIpRows
StdDeviceRows == {<<r.device, r.kind, r.flagged>> : r \in DeviceRecords}
IpAddressRows == {<<ip>> : ip \in IpRecords}
HasUsedRows == {<<Customer(u.person), u.device, u.first, u.last>> : u \in Range(Usages)}
HasIpRows == {<<Customer(u.person), u.ip, u.first, u.last>> : u \in Range(IpUsages)}

\* writeCustomerRows: closedAt is empty (NoId) while the account is open at the end.
ErCustomerRows ==
  {<<Customer(p), JoinDay[p], IF CloseTs(p) >= WindowDays THEN NoId ELSE CloseTs(p)>> : p \in People}

\* writeDistinctValueRows and writeHasValueRows: an empty value has neither.
ValueRows(f) == {<<Pii[p][f]>> : p \in {q \in People : Pii[q][f] # ""}}
HasValueRows(f) == {<<Customer(p), Pii[p][f]>> : p \in {q \in People : Pii[q][f] # ""}}

\* writeHasDeviceEdgeRows and writeHasIpEdgeRows: a usage that ends inside the
\* membership of its person.
HasDeviceEdges ==
  {<<Customer(u.person), u.device>> : u \in {x \in Range(Usages) : ActiveAt(x.person, x.last)}}
HasIpEdges ==
  {<<Customer(u.person), u.ip>> : u \in {x \in Range(IpUsages) : ActiveAt(x.person, x.last)}}

\* writeMinhashVertexRows and writeMinhashEdgeRows
MinhashIds(f, p) == IF Pii[p][f] = "" THEN {} ELSE TextBuckets(f, Pii[p][f])
MinhashVertices(f) == UNION {{<<b>> : b \in MinhashIds(f, p)} : p \in People}
MinhashEdges(f) == UNION {{<<Customer(p), b>> : b \in MinhashIds(f, p)} : p \in People}

\* writePhoneRows, writeEmailRows and their edges: one row per person.
HasContactRows(f) == {<<Customer(p), Pii[p][f]>> : p \in People}

\* The value vertices and edges of exportEntityResolution, by field.
PiiVertexRows == [f \in {"phone", "email", "name", "dob", "street", "city", "state", "zip"} |-> ValueRows(f)]
PiiEdgeRows == [f \in {"name", "dob", "street", "city", "state", "zip"} |-> HasValueRows(f)]

\* The bucket vertices and edges, by text.
MinhashVertexRows == [f \in {"name", "address", "street"} |-> MinhashVertices(f)]
MinhashEdgeRows == [f \in {"name", "address", "street"} |-> MinhashEdges(f)]

\* writeAccountRows
ErAccountRows(pack) == {<<r.id, r.owner \in Fraud>> : r \in Range(pack.recs)}

\* writeHasPaidRows, and the rows of the binned aggregate.
HasPaidRows(a) == {<<k[1], k[2], a.paid[k]>> : k \in DOMAIN a.paid}
FlowRows(a) == {<<k[1], k[2], a.flow[k].sum, a.flow[k].bins>> : k \in DOMAIN a.flow}

\* exportEntities
EntityTables(pack) ==
  [person |-> PersonRows, accountnumber |-> AccountNumberRows(pack), device |-> StdDeviceRows,
   ipaddress |-> IpAddressRows, merchants |-> MerchantRows,
   external_accounts |-> ExternalAccountRows(pack), HAS_ACCOUNT |-> HasAccountRows(pack),
   HAS_PHONE |-> HasContactRows("phone"), HAS_EMAIL |-> HasContactRows("email"),
   HAS_USED |-> HasUsedRows, HAS_IP |-> HasIpRows]

\* exportEntityResolution: the phone and email tables are written twice, with the
\* rows of ContactRows by exportEntities and with the distinct ones here; the
\* second open drops the first table.
ResolutionTables(pack) ==
  [phone |-> PiiVertexRows["phone"], email |-> PiiVertexRows["email"],
   customer |-> ErCustomerRows, account |-> ErAccountRows(pack),
   name |-> PiiVertexRows["name"], birthdate |-> PiiVertexRows["dob"], street |-> PiiVertexRows["street"],
   city |-> PiiVertexRows["city"], state |-> PiiVertexRows["state"], postcode |-> PiiVertexRows["zip"],
   HAS_NAME |-> PiiEdgeRows["name"], HAS_BIRTHDATE |-> PiiEdgeRows["dob"],
   HAS_STREET |-> PiiEdgeRows["street"], HAS_CITY |-> PiiEdgeRows["city"],
   HAS_STATE |-> PiiEdgeRows["state"], HAS_POSTCODE |-> PiiEdgeRows["zip"],
   HAS_DEVICE |-> HasDeviceEdges, HAS_IP_ER |-> HasIpEdges,
   name_mh |-> MinhashVertexRows["name"], HAS_NAME_MH |-> MinhashEdgeRows["name"],
   address_mh |-> MinhashVertexRows["address"], HAS_ADDRESS_MH |-> MinhashEdgeRows["address"],
   street_mh |-> MinhashVertexRows["street"], HAS_STREET_MH |-> MinhashEdgeRows["street"]]

\* exportAll
StandardTables(pack, a) ==
  EntityTables(pack) @@ ResolutionTables(pack) @@ [HAS_PAID |-> HasPaidRows(a), FLOW |-> FlowRows(a)]

StandardRefs ==
  {<<"HAS_ACCOUNT", 1, {"person"}>>, <<"HAS_ACCOUNT", 2, {"accountnumber"}>>,
   <<"HAS_PHONE", 2, {"phone"}>>, <<"HAS_EMAIL", 2, {"email"}>>,
   <<"HAS_USED", 1, {"person"}>>, <<"HAS_USED", 2, {"device"}>>,
   <<"HAS_IP", 2, {"ipaddress"}>>, <<"HAS_PAID", 1, {"accountnumber"}>>,
   <<"HAS_PAID", 2, {"accountnumber"}>>, <<"FLOW", 1, {"account"}>>, <<"FLOW", 2, {"account"}>>,
   <<"HAS_DEVICE", 1, {"customer"}>>, <<"HAS_DEVICE", 2, {"device"}>>,
   <<"HAS_IP_ER", 2, {"ipaddress"}>>, <<"HAS_NAME", 2, {"name"}>>,
   <<"HAS_BIRTHDATE", 2, {"birthdate"}>>, <<"HAS_STREET", 2, {"street"}>>,
   <<"HAS_CITY", 2, {"city"}>>, <<"HAS_STATE", 2, {"state"}>>,
   <<"HAS_POSTCODE", 2, {"postcode"}>>, <<"HAS_NAME_MH", 2, {"name_mh"}>>,
   <<"HAS_ADDRESS_MH", 2, {"address_mh"}>>, <<"HAS_STREET_MH", 2, {"street_mh"}>>,
   <<"external_accounts", 1, {"accountnumber"}>>, <<"merchants", 2, {"accountnumber"}>>}

-----------------------------------------------------------------------------

(***************************************************************************)
(* The mule-ml use case: the raw transfers, one Party row per account with *)
(* the device and address it used most, and the account-device and         *)
(* account-address edges with their counts and ranges.                     *)
(***************************************************************************)

CONSTANTS DevicesOf,       \* devices.byPerson
          FallbackIp(_),   \* fallbackIp and fallbackDevice of an account
          FallbackDevice(_),
          Precedes(_, _)   \* the order of devices, and of addresses

\* buildAccountsByPerson, buildAccountToOwner: by the owner of the record.
AccountsOf(pack, p) == {r.id : r \in {x \in Range(pack.recs) : x.owner = p}}
OwnerMap(pack) ==
  [k \in {r.id : r \in {x \in Range(pack.recs) : x.owner # NoPerson}} |->
     pack.recs[pack.byId[k]].owner]

(* ---------------------------- the edges -------------------------------- *)

NoEdge == [count |-> 0, first |-> 0, last |-> 0]

\* touchEdge: while no row has been counted, a touch replaces the range.
TouchEdge(agg, ts, increment) ==
  [count |-> agg.count + IF increment THEN 1 ELSE 0,
   first |-> IF agg.count = 0 THEN ts ELSE Min({ts, agg.first}),
   last |-> IF agg.count = 0 THEN ts ELSE Max({ts, agg.last})]

EdgeAt(edges, k) == IF k \in DOMAIN edges THEN edges[k] ELSE NoEdge

\* accumulateDeviceEdge, accumulateIpEdge
AccumulateEdge(edges, row, item) ==
  IF item = NoItem THEN edges
  ELSE (<<row.src, item>> :> TouchEdge(EdgeAt(edges, <<row.src, item>>), row.ts, TRUE)) @@ edges

\* addDeviceUsageRanges, addIpUsageRanges: the first sighting, then the last.
AddUsage(edges, accounts, item, first, last) ==
  [k \in {<<a, item>> : a \in accounts} |->
     TouchEdge(TouchEdge(EdgeAt(edges, k), first, FALSE), last, FALSE)] @@ edges
AddUsageRanges(pack, edges, usages) ==
  Fold(LAMBDA e, u : AddUsage(e, AccountsOf(pack, u.person), u.item, u.first, u.last),
           edges, usages)

(* -------------------------- canonical sessions ------------------------- *)

NoHist == [device |-> <<>>, ip |-> <<>>]
Bump(counts, x) ==
  IF x = NoItem THEN counts
  ELSE (x :> 1 + IF x \in DOMAIN counts THEN counts[x] ELSE 0) @@ counts

\* CanonicalAccumulator::observe
ObserveSession(hist, row) ==
  LET h == IF row.src \in DOMAIN hist THEN hist[row.src] ELSE NoHist
  IN (row.src :> [device |-> Bump(h.device, row.device), ip |-> Bump(h.ip, row.ip)]) @@ hist

\* pickMostFrequent: the smallest of the most frequent.
MostFrequent(counts) ==
  CHOOSE x \in DOMAIN counts :
    \A y \in DOMAIN counts \ {x} :
      counts[y] < counts[x] \/ (counts[y] = counts[x] /\ Precedes(x, y))

\* resolveCanonicalPair: what the account used most, else the first device or
\* address of its owner, else a fallback.
Canonical(pack, hist, k, f, ofPerson, fallback) ==
  LET h == IF k \in DOMAIN hist THEN hist[k] ELSE NoHist
      owner == IF k \in DOMAIN OwnerMap(pack) THEN OwnerMap(pack)[k] ELSE NoPerson
  IN CASE h[f] # <<>> -> MostFrequent(h[f])
       [] h[f] = <<>> /\ owner # NoPerson /\ ofPerson[owner] # <<>> -> Head(ofPerson[owner])
       [] OTHER -> fallback

(* ------------------------------ the sink ------------------------------- *)

MuleMlInit == [rows |-> 0, nextId |-> 1, transfers |-> {}, hist |-> <<>>,
               devices |-> <<>>, ips |-> <<>>]

\* writeTransferRows
TransferRows(rows, next) ==
  {<<next + i - 1, rows[i].src, rows[i].dst, rows[i].amount, rows[i].ts>> : i \in DOMAIN rows}

\* StreamingMuleMlExport::append
MuleMlAppend(a, rows) ==
  Fold(LAMBDA s, row : [s EXCEPT !.hist = ObserveSession(@, row),
                                     !.devices = AccumulateEdge(@, row, row.device),
                                     !.ips = AccumulateEdge(@, row, row.ip)],
           [a EXCEPT !.rows = @ + Len(rows), !.transfers = @ \cup TransferRows(rows, a.nextId),
                     !.nextId = @ + Len(rows)], rows)

\* isPartyFraud: the flags of the record, or a solo fraudster's account.
IsPartyFraud(r) == r.owner \in Mule \cup Fraud \cup Solo

\* writePartyRows: contact and identity of the owner, blank without one.
PartyRows(pack, a) ==
  {<<r.id, IsPartyFraud(r),
     IF r.owner = NoPerson THEN "" ELSE Pii[r.owner].phone,
     IF r.owner = NoPerson THEN "" ELSE Pii[r.owner].name,
     Canonical(pack, a.hist, r.id, "ip", IpsOf, FallbackIp(r.id)),
     Canonical(pack, a.hist, r.id, "device", DevicesOf, FallbackDevice(r.id))>> :
   r \in Range(pack.recs)}

EdgeRows(edges) == {<<k[1], k[2], edges[k].count, edges[k].first, edges[k].last>> : k \in DOMAIN edges}

\* StreamingMuleMlExport::finish
MuleMlTables(pack, a) ==
  [Transfer_Transaction |-> a.transfers,
   Account_Device |-> EdgeRows(AddUsageRanges(pack, a.devices,
     [i \in DOMAIN Usages |-> [person |-> Usages[i].person, item |-> Usages[i].device,
                               first |-> Usages[i].first, last |-> Usages[i].last]])),
   Account_IP |-> EdgeRows(AddUsageRanges(pack, a.ips,
     [i \in DOMAIN IpUsages |-> [person |-> IpUsages[i].person, item |-> IpUsages[i].ip,
                                   first |-> IpUsages[i].first, last |-> IpUsages[i].last]])),
   Party |-> PartyRows(pack, a)]

MuleMlRefs ==
  {<<"Transfer_Transaction", 2, {"Party"}>>, <<"Transfer_Transaction", 3, {"Party"}>>,
   <<"Account_Device", 1, {"Party"}>>, <<"Account_IP", 1, {"Party"}>>}
=============================================================================
