------------------------------- MODULE World --------------------------------
(***************************************************************************)
(* The account registry of a run: SimulationPipeline::buildEntities makes  *)
(* the customers' accounts, registers every counterparty the run may pay,  *)
(* then the business accounts and, with the products, the providers.  The  *)
(* registry is a sequence of records, an index by key and the ownership    *)
(* arrays (byPersonOffset, byPersonIndex); the random draws are            *)
(* parameters.                                                             *)
(*                                                                         *)
(* A key says at which bank its account is held; the external flag of a    *)
(* record says how it was registered.  The two are not the same: a         *)
(* merchant may bank here, and is a counterparty nevertheless.             *)
(***************************************************************************)
EXTENDS SequencesExt, FiniteSetsExt, Draws

CONSTANTS NumPeople,     \* Roster::count
          Fraud,         \* the people with each flag
          Mule, Solo,
          Rings,         \* Topology::rings, [id, members, frauds, mules]
          AccountNumber(_)   \* number of the i-th account of the instance

People == 1 .. NumPeople
NoPerson == 0
Key(role, bank, n) == [role |-> role, bank |-> bank, n |-> n]
IsExternalKey(k) == k.bank = "external"

Record(id, owner, ext, policy) ==
  [id |-> id, owner |-> owner, ext |-> ext, policy |-> policy, shell |-> FALSE]

EmptyPack == [recs |-> <<>>, byId |-> <<>>, offset |-> <<>>, index |-> <<>>]

Registered(pack) == Range([i \in DOMAIN pack.recs |-> pack.recs[i].id])
At(pack, k) == pack.byId[k]
Push(pack, rec) ==
  [pack EXCEPT !.recs = Append(@, rec), !.byId = @ @@ (rec.id :> Len(pack.recs) + 1)]

\* addAccounts: a key that is already there keeps its record and may only gain
\* the external flag.
AddOne(pack, id, external) ==
  IF id \in DOMAIN pack.byId
  THEN IF external THEN [pack EXCEPT !.recs[At(pack, id)].ext = TRUE] ELSE pack
  ELSE Push(pack, Record(id, NoPerson, external, "generic"))

AddAccounts(pack, ids, external) ==
  Fold(LAMBDA p, id : AddOne(p, id, external), pack, ids)

\* addAccounts with a boundary policy: a second registration upgrades the
\* policy of the first.
AddBoundaryOne(pack, id, policy) ==
  IF id \in DOMAIN pack.byId
  THEN [pack EXCEPT !.recs[At(pack, id)] = [@ EXCEPT !.ext = TRUE, !.policy = policy]]
  ELSE Push(pack, Record(id, NoPerson, TRUE, policy))

AddBoundary(pack, ids, policy) ==
  Fold(LAMBDA p, id : AddBoundaryOne(p, id, policy), pack, ids)

\* rebuild: the records of person p are byPersonIndex[offset[p] + 1 ..
\* offset[p + 1]], in registry order.
Rebuild(pack) ==
  LET of(p) == SelectSeq([i \in DOMAIN pack.recs |-> i], LAMBDA i : pack.recs[i].owner = p)
      upTo[p \in 0 .. NumPeople] == IF p = 0 THEN <<>> ELSE upTo[p - 1] \o of(p)
  IN [pack EXCEPT !.index = upTo[NumPeople],
                  !.offset = [i \in 1 .. NumPeople + 1 |-> Len(upTo[i - 1])]]

Owned(pack, p) == SubSeq(pack.index, pack.offset[p] + 1, pack.offset[p + 1])
PrimaryIndex(pack, p) == pack.index[pack.offset[p] + 1]
Primary(pack, p) == pack.recs[PrimaryIndex(pack, p)].id

\* assignOwners over a list of [key, owner]; throws when a key belongs to
\* somebody else, which the caller's fresh serials rule out.
AssignOne(pack, owned) ==
  IF owned.key \in DOMAIN pack.byId
  THEN [pack EXCEPT !.recs[At(pack, owned.key)].owner = owned.owner]
  ELSE Push(pack, Record(owned.key, owned.owner, FALSE, "generic"))

AssignOwners(pack, list) ==
  IF list = <<>> THEN pack ELSE Rebuild(Fold(AssignOne, pack, list))

\* makePack: counts[p] accounts for each person, numbered in one sequence; the
\* primary account of a fraudster may be a shell.
MakePack(counts, shells) ==
  LET owners == Fold(LAMBDA s, p : s \o [i \in 1 .. counts[p] |-> p], <<>>,
                         [p \in People |-> p])
      recs == [i \in 1 .. Len(owners) |->
                 Record(Key("account", "internal", AccountNumber(i)), owners[i], FALSE, "generic")]
      pack == Rebuild([EmptyPack EXCEPT !.recs = recs,
                         !.byId = [k \in {recs[i].id : i \in DOMAIN recs} |->
                                    CHOOSE i \in DOMAIN recs : recs[i].id = k]])
  IN [pack EXCEPT !.recs = [i \in DOMAIN @ |->
        [@[i] EXCEPT !.shell = @ \/ \E p \in shells \cap Fraud : PrimaryIndex(pack, p) = i]]]

(* --------------------- finalizeAccountRegistry ------------------------- *)
\* cat holds the key lists of the world: gl, system, taxonomy, merchants,
\* landlords, directory, atms, depositories, fallbackAtms, cards, payees,
\* remote, providers.

RegisterSystemAccounts(pack, cat) ==
  AddAccounts(AddAccounts(pack, cat.gl, FALSE), cat.system, TRUE)
RegisterTaxonomyCounterparties(pack, cat) == AddAccounts(pack, cat.taxonomy, TRUE)
RegisterMerchants(pack, cat) == AddAccounts(pack, cat.merchants, TRUE)
RegisterLandlords(pack, cat) == AddAccounts(pack, cat.landlords, TRUE)
RegisterCounterpartyDirectory(pack, cat) ==
  AddBoundary(AddBoundary(AddAccounts(pack, cat.directory, TRUE),
                          cat.atms, "outbound"),
              cat.depositories, "inbound")
RegisterCashServiceFallbacks(pack, cat) ==
  AddBoundary(AddBoundary(pack, cat.fallbackAtms, "outbound"), cat.depositories, "inbound")
RegisterCreditCards(pack, cat) == AddAccounts(pack, [i \in DOMAIN cat.cards |-> cat.cards[i].key], FALSE)
RegisterPerPersonPayees(pack, cat) == AddAccounts(pack, cat.payees, TRUE)
RegisterRemotePayees(pack, cat) == AddAccounts(pack, cat.remote, TRUE)

FinalizeAccountRegistry(pack, cat) ==
  RegisterRemotePayees(
    RegisterPerPersonPayees(
      RegisterCreditCards(
        RegisterCashServiceFallbacks(
          RegisterCounterpartyDirectory(
            RegisterLandlords(
              RegisterMerchants(
                RegisterTaxonomyCounterparties(
                  RegisterSystemAccounts(pack, cat), cat), cat), cat), cat), cat), cat), cat), cat)

\* assignBusinessOwners: fresh serials, one or two businesses per owner.
AssignBusinessOwners(pack, owners) ==
  AssignOwners(pack, [i \in DOMAIN owners |->
                        [key |-> Key("business", "internal", 100 + i), owner |-> owners[i]]])

\* ObligationSynthesis::synthesize registers the providers in use.
RegisterProviders(pack, cat) == AddAccounts(pack, cat.providers, TRUE)

\* validateTransactionAccounts, the guard of ValidatingSink::append.
Valid(pack, rows) ==
  \A i \in DOMAIN rows : {rows[i].src, rows[i].dst} \subseteq DOMAIN pack.byId

(* ------------------------- what the exporters ask ---------------------- *)

\* forEachInternalOwnership: <<person, key>> of every owned account that was not
\* registered as external.
InternalOwnership(pack) ==
  UNION {{<<p, pack.recs[i].id>> : i \in {j \in Range(Owned(pack, p)) : ~pack.recs[j].ext}} :
         p \in People}

InternalKeys(pack) == {r.id : r \in {x \in Range(pack.recs) : ~x.ext}}
ExternalKeys(pack) == {r.id : r \in {x \in Range(pack.recs) : x.ext}}

-----------------------------------------------------------------------------

(***************************************************************************)
(* What the use-case exporters share: the people and their lifelines, the  *)
(* devices and addresses they use, the seen-window and label accumulators  *)
(* and the cells of the ledger stream.                                     *)
(*                                                                         *)
(* A posted row is [src, dst, amount, ts, fraud, ring, chain, chan, type,  *)
(* device, ip]; ring and chain are 0 when the row has none.  A hash of a   *)
(* string is a constant operator.                                          *)
(***************************************************************************)

CONSTANTS Pii,          \* person -> [country, name, street, city, state, zip]
          Timelines,    \* person -> [seed, working, workStart, businessEnd, retirement, death]
          Settlement,   \* kSettlementDays, in ticks
          Usages,       \* devices.usages, [person, device, first, last, enrolled]
          Terminals,    \* devices.terminals.links, [device, first, last]
          DeviceRecords,\* devices.records, [device, kind, flagged]
          IpsOf,        \* ips.byPerson
          IpUsages,     \* ips.usages, [person, ip, first, last, enrolled]
          IpRecords,    \* ips.records
          EndpointIp(_),\* derived::endpointIp
          Victims,
          Filing(_)     \* the filing draw of a SAR id is below kSarFilingPercent

NoId == 0
NoItem == "none"     \* no device, no address

\* renderCustomerId
Customer(p) == Key("customer", "internal", p)
Customers == {Customer(p) : p \in People}

\* isPaydayInbound
IsPaydayInbound(chan) ==
  chan \in {"salary", "clientAchCredit", "cardSettlement", "platformPayout", "ownerDraw",
            "investmentInflow", "cashDeposit", "socialSecurity", "pension", "disability"}

(* ------------------------------ lifelines ------------------------------ *)

PersonaAt(tl, at) ==
  CASE tl.seed \in {"highNetWorth", "retiree"} -> tl.seed
    [] tl.seed \notin {"highNetWorth", "retiree"} /\ at >= tl.retirement -> "retiree"
    [] tl.seed = "student" /\ at < tl.retirement /\ at < tl.workStart -> "student"
    [] tl.seed = "smallBusiness" /\ at < tl.retirement /\ at < tl.businessEnd -> "smallBusiness"
    [] OTHER -> tl.working

CloseTs(p) == Timelines[p].death + Settlement

(* ---------------------------- seen windows ----------------------------- *)

NoSeen == [first |-> 0, last |-> 0, count |-> 0]

\* recordSeen
RecordSeen(slot, fs, ls) ==
  IF slot.count = 0 THEN [first |-> fs, last |-> ls, count |-> 1]
  ELSE [first |-> Min({fs, slot.first}), last |-> Max({ls, slot.last}),
        count |-> slot.count + 1]

\* The windows of a list of sightings, [key, first, last].
SeenWindows(sightings) ==
  Fold(LAMBDA m, s : (s.key :> RecordSeen(IF s.key \in DOMAIN m THEN m[s.key] ELSE NoSeen,
                                              s.first, s.last)) @@ m,
           <<>>, sightings)

\* accountType
AccountType(id, isCard) ==
  CASE isCard \/ id.role = "card" -> "credit"
    [] ~isCard /\ id.role = "ledger" -> "general_ledger"
    [] ~isCard /\ id.role \in {"business", "brokerage"} /\ id.bank = "internal" ->
         IF id.role = "business" THEN "business_checking" ELSE "brokerage"
    [] OTHER -> "checking"

\* osForDeviceType
OsFor(kind) ==
  CASE kind = "android" -> "Android" [] kind = "ios" -> "iOS"
    [] kind \in {"web", "browser"} -> "Browser" [] kind = "desktop" -> "Windows"
    [] OTHER -> "Unknown"

(* -------------------------- chains and shells -------------------------- *)

\* typologyForChannel, with mapFraudChannel: "none" for a channel that is not a
\* fraud channel.
Typology(chan) ==
  CASE chan \in {"layeringIn", "layeringHop", "layeringOut"} -> "layering"
    [] chan \in {"funnelIn", "funnelOut"} -> "funnel"
    [] chan \in {"muleIn", "muleForward"} -> "mule"
    [] chan \in {"scatterGatherSplit", "scatterGatherMerge"} -> "scatterGather"
    [] chan \in {"classic", "cycle", "structuring", "invoice", "bipartite"} -> chan
    [] OTHER -> "none"

\* fraud::Typology, in the order of the enumeration.
Typologies == <<"classic", "layering", "funnel", "structuring", "invoice", "mule",
                "cycle", "scatterGather", "bipartite">>

CountIn(s, Test(_)) == Len(SelectSeq(s, Test))

\* dominantTypology: the first of the most frequent; the first of all when no
\* row has one.
DominantTypology(rows) ==
  LET count(i) == CountIn(rows, LAMBDA r : Typology(r.chan) = Typologies[i])
      best == CHOOSE i \in DOMAIN Typologies :
                /\ \A j \in DOMAIN Typologies : count(j) <= count(i)
                /\ \A j \in 1 .. i - 1 : count(j) < count(i)
  IN Typologies[best]

\* accumulateChainTxn
AccumulateChain(groups, row) ==
  IF row.chain = NoId THEN groups
  ELSE (row.chain :> Append(IF row.chain \in DOMAIN groups THEN groups[row.chain] ELSE <<>>,
                            row)) @@ groups

\* finalizeChains and summarizeChain: a group is in corpus order, so the sort by
\* timestamp leaves it as it is.
FinalizeChains(groups) ==
  {[id |-> c, ring |-> Head(groups[c]).ring, typology |-> DominantTypology(groups[c]),
    hops |-> Len(groups[c]), principal |-> Head(groups[c]).amount,
    final |-> Last(groups[c]).amount, start |-> Head(groups[c]).ts,
    end |-> Last(groups[c]).ts] : c \in DOMAIN groups}

\* collectShellsForRing and initShellStats: the shells among the fraudsters'
\* primary accounts.
ShellCandidates(pack) ==
  UNION {{[account |-> Primary(pack, p), ring |-> ring.id] :
          p \in {q \in ring.frauds : pack.recs[PrimaryIndex(pack, q)].shell}} :
         ring \in Rings}

NoShellActivity == [in |-> 0, out |-> 0, total |-> 0, fraud |-> 0]

InitShellStats(pack) == [k \in {c.account : c \in ShellCandidates(pack)} |-> NoShellActivity]

\* accumulateShellTxn: the source, then the target.
TouchShell(stats, k, row, side) ==
  IF k \notin DOMAIN stats THEN stats
  ELSE [stats EXCEPT ![k] = [in |-> @.in + IF side = "in" THEN row.amount ELSE 0,
                             out |-> @.out + IF side = "out" THEN row.amount ELSE 0,
                             total |-> @.total + 1,
                             fraud |-> @.fraud + IF row.fraud THEN 1 ELSE 0]]
AccumulateShell(stats, row) ==
  TouchShell(TouchShell(stats, row.src, row, "out"), row.dst, row, "in")

\* finalizeShells: shellScoreOf, kept as the fraction <<numerator, denominator>>.
ShellScore(a) ==
  <<Min({a.in, a.out}) * a.fraud, Max({a.in, a.out, 1}) * Max({a.total, 1})>>
FinalizeShells(pack, stats) ==
  {[account |-> c.account, ring |-> c.ring, score |-> ShellScore(stats[c.account])] :
   c \in ShellCandidates(pack)}

\* writeTransactionChainLabelRows: the index counts the rows without a chain too.
ChainLabelRows(rows, next) ==
  {<<next + i - 1, rows[i].chain, rows[i].ring>> : i \in {j \in DOMAIN rows : rows[j].chain # NoId}}
=============================================================================
