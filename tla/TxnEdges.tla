------------------------------ MODULE TxnEdges ------------------------------
(***************************************************************************)
(* The aml_txn_edges use case: the accounts' transactions as edges, and an *)
(* investigation layer derived from the corpus: alerts, dispositions,      *)
(* currency reports, cases, evidence, promoted transactions.               *)
(*                                                                         *)
(* The sink streams two tables and retains the fraud rows; the derived     *)
(* bundle needs the end of the corpus before it sweeps it, so it is built  *)
(* after the stream, from the corpus in memory or from the rows read back  *)
(* in the order of row_seq.                                                *)
(***************************************************************************)
EXTENDS AmlExport, Bitwise

CONSTANTS BandFloor, CtrLimit,   \* 9000 and 10000
          BurstCount,            \* 5
          PromotedCap,           \* 100
          Days30, Days90, DayTicks,
          NumberBits,            \* 16: the room of an account's number in a packed key
          Lag(_),                \* days from an alert to its disposition, 1 .. 7
          Decide(_),             \* the draw that escalates a closed alert
          KeyBefore(_, _)        \* operator< of Key

(* ------------------------------- the sink ------------------------------ *)

TxnEdgesInit(pack) ==
  [rows |-> 0, firstTs |-> 0, lastTs |-> 0, illicit |-> 0, txnIndex |-> 1, chainIndex |-> 1,
   counter |-> 0, transacted |-> {}, labels |-> {}, cpPairs |-> {}, fraudTxns |-> <<>>,
   fraud |-> NoFraudGroups, chains |-> <<>>, shells |-> InitShellStats(pack)]

\* writeTransactedRows
TransactedRows(rows, next) ==
  {<<rows[i].src, rows[i].dst, next + i - 1, rows[i].ts, rows[i].amount, rows[i].chan,
     IsCredit(rows[i].chan)>> : i \in DOMAIN rows}

\* accumulateInvolvesCounterparty: the two sides at different banks.
AccumulateInvolves(pairs, row) ==
  CASE IsExternalKey(row.src) /\ ~IsExternalKey(row.dst) -> pairs \cup {<<row.dst, row.src>>}
    [] ~IsExternalKey(row.src) /\ IsExternalKey(row.dst) -> pairs \cup {<<row.src, row.dst>>}
    [] OTHER -> pairs

\* (mutant: the number of a retained row counts the fraud rows only)
RetainByFraud(s, row) ==
  IF row.fraud THEN (s.illicit + 1 :> row) @@ s.fraudTxns ELSE s.fraudTxns

\* The full fraud row under its number in the corpus.
Retain(s, row) == IF row.fraud THEN (s.counter + 1 :> row) @@ s.fraudTxns ELSE s.fraudTxns

ObserveTxnEdge(s, row) ==
  [s EXCEPT !.counter = @ + 1,
            !.fraud = AccumulateFraud(@, row),
            !.chains = AccumulateChain(@, row),
            !.shells = AccumulateShell(@, row),
            !.cpPairs = AccumulateInvolves(@, row),
            !.fraudTxns = Retain(s, row),
            !.illicit = @ + IF row.fraud THEN 1 ELSE 0]

\* StreamingAmlTxnEdgesExport::append
TxnEdgesAppend(a, rows) ==
  IF rows = <<>> THEN a
  ELSE Fold(ObserveTxnEdge,
            [a EXCEPT !.firstTs = IF a.rows = 0 THEN Head(rows).ts ELSE @,
                      !.lastTs = Last(rows).ts,
                      !.rows = @ + Len(rows),
                      !.transacted = @ \cup TransactedRows(rows, a.txnIndex),
                      !.txnIndex = @ + Len(rows),
                      !.labels = @ \cup ChainLabelRows(rows, a.chainIndex),
                      !.chainIndex = @ + Len(rows)], rows)

(* ------------------------------- the sweep ----------------------------- *)

NoKey == Key("account", "internal", 0)
NoAgg == [total |-> 0, count |-> 0, first |-> 0, last |-> 0, amount30 |-> 0, count30 |-> 0,
          amount90 |-> 0, count90 |-> 0]

\* accumulate
AddAgg(r, row, end) ==
  LET in30 == row.ts >= end - Days30
      in90 == row.ts >= end - Days90
      part(c, x) == IF c THEN x ELSE 0
  IN [total |-> r.total + row.amount, count |-> r.count + 1,
      first |-> IF r.count = 0 THEN row.ts ELSE Min({r.first, row.ts}),
      last |-> IF r.count = 0 THEN row.ts ELSE Max({r.last, row.ts}),
      amount30 |-> r.amount30 + part(in90 /\ in30, row.amount),
      count30 |-> r.count30 + part(in90 /\ in30, 1),
      amount90 |-> r.amount90 + part(in90, row.amount), count90 |-> r.count90 + part(in90, 1)]
Accumulate(agg, k, row, end) ==
  (k :> AddAgg(IF k \in DOMAIN agg THEN agg[k] ELSE NoAgg, row, end)) @@ agg

\* alertAccount: told apart by the bank of the key.
AlertAccount(row) ==
  CASE ~IsExternalKey(row.src) -> row.src
    [] IsExternalKey(row.src) /\ ~IsExternalKey(row.dst) -> row.dst
    [] OTHER -> NoKey

\* makeAlert: an alert is known by account, index and rule.
Alert(k, rule, ts, idx) == [on |-> k, rule |-> rule, created |-> ts, idx |-> idx]

\* Cash: withdrawals, takings, and what a structuring ring deposits.
IsCurrency(chan) == chan \in {"atm", "cashDeposit", "structuring"}

DayOf(ts) == ts \div DayTicks

\* The packed key of a burst.  The bits of the number that do not fit below the
\* day are combined with the day.
BurstKey(k, ts) ==
  <<DayOf(ts) ^^ (k.n \div 2^NumberBits), k.n % 2^NumberBits, k.role, k.bank>>

FilesCtr(row) == IsCurrency(row.chan) /\ row.amount > CtrLimit

NoSweep == [alerts |-> {}, ctrs |-> {}, bursts |-> <<>>, flow |-> <<>>, link |-> <<>>,
            refs |-> <<>>]

\* TxnSweep::observe
Observe(s, row, idx, end) ==
  LET on == AlertAccount(row)
      valid == on.n # 0
      when(c, x) == IF c THEN {x} ELSE {}
      burst == BurstKey(on, row.ts)
      link == IF KeyBefore(row.src, row.dst) THEN <<row.src, row.dst>> ELSE <<row.dst, row.src>>
  IN [refs |-> IF row.fraud THEN Append(s.refs, [idx |-> idx, src |-> row.src, dst |-> row.dst])
               ELSE s.refs,
      alerts |-> s.alerts
        \cup when(valid /\ row.fraud, Alert(on, "fraudMlFlag", row.ts, idx))
        \cup when(valid /\ row.amount >= BandFloor /\ row.amount <= CtrLimit,
                  Alert(on, "highAmountBelowCtr", row.ts, idx))
        \cup when(valid /\ FilesCtr(row), Alert(on, "cashCtrThreshold", row.ts, idx)),
      ctrs |-> s.ctrs \cup when(valid /\ FilesCtr(row),
                                [on |-> on, filing |-> row.ts, amount |-> row.amount, idx |-> idx]),
      bursts |-> IF ~valid THEN s.bursts
                 ELSE (burst :> [count |-> 1 + IF burst \in DOMAIN s.bursts THEN s.bursts[burst].count ELSE 0,
                                 on |-> on, day |-> DayOf(row.ts)]) @@ s.bursts,
      flow |-> Accumulate(s.flow, <<row.src, row.dst>>, row, end),
      link |-> Accumulate(s.link, link, row, end)]

\* appendVelocityBurstAlerts
VelocityAlerts(sweep) ==
  {Alert(b.on, "velocityBurst", b.day * DayTicks, b.day) :
   b \in {sweep.bursts[k] : k \in {j \in DOMAIN sweep.bursts : sweep.bursts[j].count >= BurstCount}}}

(* ------------------------------ the bundle ----------------------------- *)

\* generateDispositions
Outcome(a) ==
  CASE a.rule \in {"fraudMlFlag", "cashCtrThreshold"} -> "escalated"
    [] a.rule \notin {"fraudMlFlag", "cashCtrThreshold"} /\ Decide(a) -> "escalated"
    [] OTHER -> "closedFp"
Dispositions(alerts) ==
  {[alert |-> a, date |-> a.created + Lag(a) * DayTicks, outcome |-> Outcome(a)] : a \in alerts}

\* buildCases: one per ring, one per solo fraudster.
Cases(start) ==
  {[id |-> <<"ring", r.id>>, opened |-> start + (r.id % 30) * DayTicks, subjects |-> r.members] : r \in Rings}
  \cup {[id |-> <<"solo", p>>, opened |-> start + (p % 60) * DayTicks, subjects |-> {p}] : p \in Solo}

\* OwnerIndex
RegisteredOwner(pack, k) ==
  IF k \in DOMAIN pack.byId THEN pack.recs[pack.byId[k]].owner ELSE NoPerson

\* attachAlertsToCases, attachSarsToCases
CaseAlerts(pack, c, alerts) == {a \in alerts : RegisteredOwner(pack, a.on) \in c.subjects}
CaseSars(c, sars) == {s \in sars : \E x \in s.subjects : x[1] \in c.subjects}

EvidenceKinds == {"txn_pattern_export", "device_session_log", "kyc_snapshot"}

\* promoteFraudTxns: the first of the fraud rows that touch a subject.
Promoted(pack, c, refs) ==
  LET touching == SelectSeq(refs, LAMBDA r :
        \E k \in {r.src, r.dst} : RegisteredOwner(pack, k) \in c.subjects)
  IN Range(SubSeq(touching, 1, Min({PromotedCap, Len(touching)})))

\* buildBusinesses
Businesses(pack) ==
  {[id |-> <<"BUS", r.id, r.owner>>, key |-> r.id, owner |-> r.owner] :
   r \in {x \in Range(pack.recs) : ~x.ext /\ x.id.role = "business" /\ x.owner # NoPerson}}

\* buildBundle and finishBundle over the corpus, in the order of row_seq.
BuildBundle(pack, corpus, sars) ==
  LET start == IF corpus = <<>> THEN 0 ELSE Min({r.ts : r \in Range(corpus)})
      end == IF corpus = <<>> THEN 0 ELSE Max({r.ts : r \in Range(corpus)})
      sweep == Fold(LAMBDA s, i : Observe(s, corpus[i], i, end), NoSweep,
                    [i \in DOMAIN corpus |-> i])
      alerts == sweep.alerts \cup VelocityAlerts(sweep)
  IN [start |-> start, end |-> end, alerts |-> alerts, dispositions |-> Dispositions(alerts),
      ctrs |-> sweep.ctrs, businesses |-> Businesses(pack), flow |-> sweep.flow, link |-> sweep.link,
      cases |-> {[c |-> c, alerts |-> CaseAlerts(pack, c, alerts), sars |-> CaseSars(c, sars),
                  promoted |-> Promoted(pack, c, sweep.refs)] : c \in Cases(start)}]

(* ------------------------------ the tables ----------------------------- *)

AlertId(a) == <<"ALT", a.on, a.idx, a.rule>>
DispositionId(a) == <<"DSP", AlertId(a)>>
CtrId(c) == <<"CTR", c.on, c.idx>>
PromotedId(c, r) == <<"PTX", c.id, r.idx>>
CpId(k) == <<"CP", k>>
PersonalId(kind, p) == <<kind, Customer(p)>>

\* writeInvestigationCaseTxnRows and writePromotedTxnAccountRows: a promoted row
\* that was not retained is left out.
PromotedRows(b, a) ==
  {<<PromotedId(x.c, r), r.idx, x.c.id, a.fraudTxns[r.idx].src, a.fraudTxns[r.idx].dst>> :
   <<x, r>> \in {y \in UNION {{<<x, r>> : r \in x.promoted} : x \in b.cases} :
                   y[2].idx <= a.rows /\ y[2].idx \in DOMAIN a.fraudTxns}}

\* writeEscalatedToRows: every SAR of every case that holds the alert.
EscalatedTo(b) ==
  UNION {UNION {{<<DispositionId(d.alert), s.id, d.date>> : s \in x.sars} :
                x \in {y \in b.cases : d.alert \in y.alerts}} :
         d \in {e \in b.dispositions : e.outcome = "escalated"}}

\* writeUsesIpRows
UsesIp ==
  LET w == SeenWindows([i \in DOMAIN IpUsages |->
             [key |-> <<IpUsages[i].person, IpUsages[i].ip>>,
              first |-> IpUsages[i].first, last |-> IpUsages[i].last]])
  IN {<<Customer(k[1]), k[2], w[k].first, w[k].last>> : k \in DOMAIN w}

AggRowsOf(agg) == {<<k[1], k[2], agg[k]>> : k \in DOMAIN agg}

(* ------------------------- the vertex writers -------------------------- *)

TeCustomerRows(a) == CustomerRows(a)
InternalAccountRows(pack, a) ==
  {<<r.id, AccountType(r.id, r.id \in CardKeys),
     IF r.owner = NoPerson THEN SimStart(a) - 365 ELSE SimStart(a) - OnboardingLag(r.owner), BookOf(r.id)>> :
   r \in {x \in Range(pack.recs) : ~x.ext}}
ExternalCounterpartyAccountRows(pack, a) ==
  {<<k, "external_counterparty", SimStart(a) - 365, 0>> : k \in Counterparties(pack)}
TeCounterpartyRows(pack) == {<<CpId(k), CpName(k), BankId(CpBank(k))>> : k \in Counterparties(pack)}
TeBankRows(pack) == BankRows(pack)

\* writeDeviceRows: the windows of the usages alone; a terminal has none.
TeDeviceRows ==
  {<<r.device, r.kind, OsFor(r.kind),
     IF r.device \in DOMAIN UsageWindows THEN UsageWindows[r.device] ELSE NoSeen>> : r \in DeviceRecords}
TeIpRows == {<<ip>> : ip \in IpRecords}
FullNameRows(pack) == NameRows(pack)
EmailRows == {<<PersonalId("EML", p), Pii[p].email>> : p \in People}
PhoneRows == {<<PersonalId("PH", p), Pii[p].phone>> : p \in People}
DobRows == {<<PersonalId("DOB", p), Pii[p].dob>> : p \in People}
GovtIdRows == {<<PersonalId("GID", p)>> : p \in People}
TeAddressRows(pack) == AddressRows(pack)
TeWatchlistRows(a) == WatchlistRows(a)
AlertRows(b) == {<<AlertId(x), x.rule, x.created>> : x \in b.alerts}
DispositionRows(b) == {<<DispositionId(d.alert), d.outcome, d.date>> : d \in b.dispositions}
TeSarRows(sars) == {<<s.id, s.filing, s.violation>> : s \in sars}
CtrRows(b) == {<<CtrId(c), c.filing, c.amount>> : c \in b.ctrs}

TextKinds == {"name", "address", "street", "city", "state"}
MinHashBucketRows(pack) == NameBuckets(pack) \cup UNION {BucketsOfPeople(f, f) : f \in TextKinds}
InvestigationCaseRows(b) == {<<x.c.id, x.c.opened>> : x \in b.cases}
EvidenceId(x, k) == <<"EVD", x.c.id, k>>
EvidenceArtifactRows(b) == {<<EvidenceId(x, k)>> : x \in b.cases, k \in EvidenceKinds}
BusinessRows(b) == {<<z.id>> : z \in b.businesses}

(* -------------------------- the edge writers --------------------------- *)

PerCase(b, F(_)) == UNION {{<<x.c.id, y>> : y \in F(x)} : x \in b.cases}

OwnsRows(pack) == CustomerHasAccount(pack)
InvolvesCounterpartyRows(a) == {<<c[1], CpId(c[2])>> : c \in a.cpPairs}
BanksAtRows(pack) == {<<CpId(k), BankId(CpBank(k))>> : k \in Counterparties(pack)}
OnWatchlistRows == CustomerMatchesWatchlist
SubjectOfSarRows(sars) == UNION {{<<k, s.id>> : k \in DOMAIN s.covered} : s \in sars}
FiledCtrRows(b) == {<<c.on, CtrId(c)>> : c \in b.ctrs}
AlertOnRows(b) == {<<AlertId(x), x.on>> : x \in b.alerts}
DispositionedAsRows(b) == {<<AlertId(d.alert), DispositionId(d.alert)>> : d \in b.dispositions}
ContainsAlertRows(b) == PerCase(b, LAMBDA x : {AlertId(y) : y \in x.alerts})
ResultedInRows(b) == PerCase(b, LAMBDA x : {s.id : s \in x.sars})
HasEvidenceRows(b) == PerCase(b, LAMBDA x : {EvidenceId(x, k) : k \in EvidenceKinds})
ContainsPromotedTxnRows(b) == PerCase(b, LAMBDA x : {PromotedId(x.c, r) : r \in x.promoted})
PromotedTxnAccountRows(b, a) ==
  {<<x[1], x[4], "originator">> : x \in PromotedRows(b, a)}
  \cup {<<x[1], x[5], "beneficiary">> : x \in PromotedRows(b, a)}
SignerOfRows(b) == {<<Customer(z.owner), z.id>> : z \in b.businesses}
BeneficialOwnerOfRows(b) == SignerOfRows(b)
ControlsRows(b) == SignerOfRows(b)
BusinessOwnsAccountRows(b) == {<<z.id, z.key>> : z \in b.businesses}
HasNameRows(a) == CustomerHasName(a)
HasAddressRows(a) == CustomerHasAddress(a)
HasPersonalRows(kind) == {<<Customer(p), PersonalId(kind, p)>> : p \in People}
UsesDeviceRows == UsesDevice
InBucketRows == UNION {CustomerBuckets(f, f) : f \in TextKinds}
AccountFlowAggRows(b) == AggRowsOf(b.flow)
AccountLinkCommRows(b) == AggRowsOf(b.link)

\* exportFromProducts: the vertex half and the edge half.
TeVertexTables(pack, a, b, sars) ==
  [Customer |-> TeCustomerRows(a),
   Account |-> InternalAccountRows(pack, a) \cup ExternalCounterpartyAccountRows(pack, a),
   Counterparty |-> TeCounterpartyRows(pack), Bank |-> TeBankRows(pack), Device |-> TeDeviceRows,
   IP |-> TeIpRows, Full_Name |-> FullNameRows(pack), Email |-> EmailRows, Phone |-> PhoneRows,
   DOB |-> DobRows, Govt_ID |-> GovtIdRows, Address |-> TeAddressRows(pack),
   Watchlist |-> TeWatchlistRows(a), Alert |-> AlertRows(b), Disposition |-> DispositionRows(b),
   SAR |-> TeSarRows(sars), CTR |-> CtrRows(b), MinHash_Bucket |-> MinHashBucketRows(pack),
   Investigation_Case |-> InvestigationCaseRows(b), Evidence_Artifact |-> EvidenceArtifactRows(b),
   Business |-> BusinessRows(b), Chain |-> ChainRows(a), Shell_Account |-> ShellRows(pack, a),
   Investigation_Case_Txn |-> PromotedRows(b, a)]

TeEdgeTables(pack, a, b, sars) ==
  [OWNS |-> OwnsRows(pack),
   TRANSACTED |-> a.transacted, CHAIN_LABEL |-> a.labels,
   INVOLVES_COUNTERPARTY |-> InvolvesCounterpartyRows(a), BANKS_AT |-> BanksAtRows(pack),
   ON_WATCHLIST |-> OnWatchlistRows, SUBJECT_OF_SAR |-> SubjectOfSarRows(sars),
   FILED_CTR |-> FiledCtrRows(b), ALERT_ON |-> AlertOnRows(b),
   DISPOSITIONED_AS |-> DispositionedAsRows(b), ESCALATED_TO |-> EscalatedTo(b),
   CONTAINS_ALERT |-> ContainsAlertRows(b), RESULTED_IN |-> ResultedInRows(b),
   HAS_EVIDENCE |-> HasEvidenceRows(b), CONTAINS_PROMOTED_TXN |-> ContainsPromotedTxnRows(b),
   PROMOTED_TXN_ACCOUNT |-> PromotedTxnAccountRows(b, a), SIGNER_OF |-> SignerOfRows(b),
   BENEFICIAL_OWNER_OF |-> BeneficialOwnerOfRows(b), CONTROLS |-> ControlsRows(b),
   BUSINESS_OWNS_ACCOUNT |-> BusinessOwnsAccountRows(b), HAS_NAME |-> HasNameRows(a),
   HAS_ADDRESS |-> HasAddressRows(a), HAS_EMAIL |-> HasPersonalRows("EML"),
   HAS_PHONE |-> HasPersonalRows("PH"), HAS_DOB |-> HasPersonalRows("DOB"),
   HAS_ID |-> HasPersonalRows("GID"), USES_DEVICE |-> UsesDeviceRows, USES_IP |-> UsesIp,
   IN_BUCKET |-> InBucketRows, ACCOUNT_FLOW_AGG |-> AccountFlowAggRows(b),
   ACCOUNT_LINK_COMM |-> AccountLinkCommRows(b)]

TxnEdgesTables(pack, a, b, sars) == TeVertexTables(pack, a, b, sars) @@ TeEdgeTables(pack, a, b, sars)

TxnEdgesRefs ==
  {<<"OWNS", 1, {"Customer"}>>, <<"OWNS", 2, {"Account"}>>, <<"TRANSACTED", 1, {"Account"}>>,
   <<"TRANSACTED", 2, {"Account"}>>, <<"CHAIN_LABEL", 2, {"Chain"}>>,
   <<"INVOLVES_COUNTERPARTY", 1, {"Account"}>>, <<"INVOLVES_COUNTERPARTY", 2, {"Counterparty"}>>,
   <<"BANKS_AT", 2, {"Bank"}>>, <<"SUBJECT_OF_SAR", 1, {"Account"}>>, <<"SUBJECT_OF_SAR", 2, {"SAR"}>>,
   <<"FILED_CTR", 1, {"Account"}>>, <<"FILED_CTR", 2, {"CTR"}>>, <<"ALERT_ON", 1, {"Alert"}>>,
   <<"ALERT_ON", 2, {"Account"}>>, <<"DISPOSITIONED_AS", 2, {"Disposition"}>>,
   <<"ESCALATED_TO", 1, {"Disposition"}>>, <<"ESCALATED_TO", 2, {"SAR"}>>,
   <<"CONTAINS_ALERT", 2, {"Alert"}>>, <<"RESULTED_IN", 2, {"SAR"}>>,
   <<"HAS_EVIDENCE", 2, {"Evidence_Artifact"}>>,
   <<"CONTAINS_PROMOTED_TXN", 2, {"Investigation_Case_Txn"}>>,
   <<"PROMOTED_TXN_ACCOUNT", 2, {"Account"}>>, <<"BUSINESS_OWNS_ACCOUNT", 1, {"Business"}>>,
   <<"BUSINESS_OWNS_ACCOUNT", 2, {"Account"}>>, <<"SIGNER_OF", 1, {"Customer"}>>,
   <<"SIGNER_OF", 2, {"Business"}>>, <<"HAS_NAME", 2, {"Full_Name"}>>, <<"HAS_ADDRESS", 2, {"Address"}>>,
   <<"HAS_EMAIL", 2, {"Email"}>>, <<"USES_DEVICE", 2, {"Device"}>>, <<"USES_IP", 2, {"IP"}>>, <<"IN_BUCKET", 2, {"MinHash_Bucket"}>>,
   <<"ON_WATCHLIST", 2, {"Watchlist"}>>}
=============================================================================
