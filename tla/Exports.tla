------------------------------ MODULE Exports ------------------------------
(***************************************************************************)
(* One run of the program with one use case: the world is built, the use   *)
(* case's sink receives the posted rows span by span behind ValidatingSink,*)
(* the world is rebuilt and the finisher writes the remaining tables.      *)
(*                                                                         *)
(* The whole-run engine (exportAll) drives the same sinks with one batch;  *)
(* WholeRun below is what it would have written for the same rows.         *)
(***************************************************************************)
EXTENDS TxnEdges, CardFraud

CONSTANTS UseCases,
          Draws,               \* draws of the entity stage, [counts, shells, owners]
          Lists,               \* the key lists of the world
          Rows(_, _, _),       \* candidate rows of a use case in a span of a world
          Declines(_),         \* candidate declined attempts of a span
          Spans,               \* number of spans
          MaxBatch, MaxDeclines

VARIABLES usecase, draw, pack, span, corpus, declined, art, phase

vars == <<usecase, draw, pack, span, corpus, declined, art, phase>>

(* ------------------------------ the world ------------------------------ *)

\* buildEntities and the obligation synthesis, in their order.
BuildWorld(d) ==
  RegisterProviders(
    AssignBusinessOwners(FinalizeAccountRegistry(MakePack(d.counts, d.shells), Lists), d.owners),
    Lists)

\* The sink that bindStreams makes.
Bind(u, p) ==
  CASE u = "aml" -> AmlInit(p) [] u = "amlTxnEdges" -> TxnEdgesInit(p)
    [] u = "standard" -> StandardInit [] u = "muleMl" -> MuleMlInit
    [] u = "cardFraud" -> CardFraudInit

Deliver(u, p, a, rows, declines) ==
  CASE u = "aml" -> AmlAppend(a, rows) [] u = "amlTxnEdges" -> TxnEdgesAppend(a, rows)
    [] u = "standard" -> StandardAppend(p, a, rows) [] u = "muleMl" -> MuleMlAppend(a, rows)
    [] u = "cardFraud" -> CardFraudAppend(p, a, rows, declines)

Init ==
  /\ usecase \in UseCases
  /\ draw \in Draws
  /\ pack = BuildWorld(draw)
  /\ span = 0
  /\ corpus = <<>>
  /\ declined = <<>>
  /\ art = Bind(usecase, pack)
  /\ phase = "stream"

(* ------------------------------ the stream ----------------------------- *)

InOrder(rows) == \A i \in 1 .. Len(rows) - 1 : rows[i].ts <= rows[i + 1].ts

\* appendDeclinedSpan: the attempts of the span in clock order, behind those of
\* the spans before.
HandOver(list, attempts) == list \o SortSeq(attempts, LAMBDA x, y : x.ts < y.ts)

\* One turn of the fold: the declined attempts are handed over, then the sink
\* receives the settled rows.  A row that names an unregistered account ends
\* the run in ValidatingSink, a card row without a session in the sink.
AppendSpan ==
  /\ phase = "stream" /\ span < Spans
  /\ \E rows \in {s \in SeqOf(Rows(usecase, span, pack), MaxBatch) : InOrder(s)},
        attempts \in IF usecase = "cardFraud" THEN SeqOf(Declines(span), MaxDeclines) ELSE {<<>>} :
       /\ declined' = HandOver(declined, attempts)
       /\ IF ~Valid(pack, rows)
          THEN phase' = "failed" /\ UNCHANGED <<corpus, art, span>>
          ELSE /\ art' = Deliver(usecase, pack, art, rows, declined')
               /\ corpus' = corpus \o rows
               /\ span' = span + 1
               /\ phase' = IF usecase = "cardFraud" /\ art'.refused THEN "failed" ELSE "stream"
  /\ UNCHANGED <<usecase, draw, pack>>

\* sink.finish(), rebuildWorldIfNeeded (the same pack) and finalizeExports.
FinalizeExports ==
  /\ phase = "stream" /\ span = Spans
  /\ phase' = "complete"
  /\ UNCHANGED <<usecase, draw, pack, span, corpus, declined, art>>

Next == AppendSpan \/ FinalizeExports

Spec == Init /\ [][Next]_vars

(* ------------------------------- products ------------------------------ *)

\* The tables of a run over the given rows.
Sars(a) == GenerateSars(pack, a.fraud)
TablesOf(a) ==
  CASE usecase = "aml" -> AmlTables(pack, a)
    [] usecase = "amlTxnEdges" ->
         TxnEdgesTables(pack, a, BuildBundle(pack, corpus, Sars(a)), Sars(a))
    [] usecase = "standard" -> StandardTables(pack, a)
    [] usecase = "muleMl" -> MuleMlTables(pack, a)
    [] usecase = "cardFraud" -> CardFraudTables(pack, a)
RefsOf ==
  CASE usecase = "aml" -> AmlRefs [] usecase = "amlTxnEdges" -> TxnEdgesRefs
    [] usecase = "standard" -> StandardRefs [] usecase = "muleMl" -> MuleMlRefs
    [] usecase = "cardFraud" -> CardFraudRefs

Complete(u) == phase = "complete" /\ usecase = u
Bundle == BuildBundle(pack, corpus, Sars(art))
AtRows(Test(_)) == {i \in DOMAIN corpus : Test(corpus[i])}
SumOver(S) == MapThenSumSet(LAMBDA i : corpus[i].amount, S)

(* ------------------------------ properties ----------------------------- *)

\* The state is what the program can hold: rows of registered accounts in clock
\* order, and a sink that has counted them all.
TypeOK ==
  /\ usecase \in UseCases
  /\ span \in 0 .. Spans
  /\ phase \in {"stream", "complete", "failed"}
  /\ InOrder(corpus) /\ InOrder(declined)
  /\ Valid(pack, corpus)
  /\ phase # "failed" => art.rows = Len(corpus)

\* The artifacts of the streamed run are those of one batch over the same rows
\* and the same declined attempts: neither the split into spans nor the moment
\* at which the attempts of a span are handed over shows in an export
\* (StreamingAmlExport::append and its siblings, exportAll).
EngineInvariant ==
  phase # "failed" =>
    art = Deliver(usecase, pack, Bind(usecase, pack), corpus, declined)

\* A payee that banks here is registered as external, so it is a Counterparty and no
\* Account, and its key says internal, so aml writes it a send or a receive edge
\* (TransactionEdgeClassifier::observe).  These are the only ends of such edges
\* without an Account: no account of a customer, no card and no ledger is missing.
BanksHere(k) == k.role \in {"merchant", "landlord"} /\ ~IsExternalKey(k)
AccountEnds ==
  Complete("aml") =>
    \A e \in art.send \cup art.recv :
      ~BanksHere(e[1]) => e[1] \in Vertex(TablesOf(art), "Account")

\* No edge of any export names a vertex that the same export does not write: reissued
\* cards, probes' merchants and endpoints, promoted transactions and report subjects
\* included.  The edges of a payee that banks here end in a Counterparty where the
\* schema has an Account.
NoDangling == phase = "complete" => Dangling(TablesOf(art), RefsOf) = {} /\ AccountEnds

\* Each report of generateSars is exact: a ring's amount is that of all its fraud
\* rows and of nobody else's, and what it states of a covered account is the sum
\* of both directions; no fraud row of a ring is in two reports.
SarsExact ==
  (Complete("aml") \/ Complete("amlTxnEdges")) =>
    \A s \in Sars(art) :
      LET mine == IF s.id[1] = "RING"
                  THEN AtRows(LAMBDA r : r.fraud /\ r.ring = s.id[2])
                  ELSE AtRows(LAMBDA r : r.fraud /\ r.ring = NoId
                                         /\ s.id[2] \in {RegisteredOwner(pack, r.src), RegisteredOwner(pack, r.dst)})
      IN /\ mine # {}
         /\ s.amount = SumOver(mine)
         /\ s.start = corpus[Min(mine)].ts /\ s.end = corpus[Max(mine)].ts
         /\ \A k \in DOMAIN s.covered :
              s.covered[k] = SumOver({i \in mine : corpus[i].src = k}) + SumOver({i \in mine : corpus[i].dst = k})

\* HAS_PAID of the standard export holds, for each pair of accounts, exactly the
\* rows that lie in [join, close) of both owners (Membership::activeAt).
PaidExact ==
  Complete("standard") =>
    LET lives(p, ts) == p = NoPerson \/ (ts >= JoinDay[p] /\ ts < Timelines[p].death + Settlement)
        visible == AtRows(LAMBDA r : lives(OwnerOf(pack, r.src), r.ts) /\ lives(OwnerOf(pack, r.dst), r.ts))
    IN /\ DOMAIN art.paid = {<<corpus[i].src, corpus[i].dst>> : i \in visible}
       /\ \A k \in DOMAIN art.paid :
            LET of == {i \in visible : <<corpus[i].src, corpus[i].dst>> = k}
            IN art.paid[k] = [total |-> SumOver(of), count |-> Cardinality(of),
                              first |-> corpus[Min(of)].ts, last |-> corpus[Max(of)].ts]

\* The primary account of a person is the first one made for them, whatever is
\* registered and assigned afterwards; only a fraudster's primary is a shell
\* (rebuild, makePack, assignOwners).
PrimaryStable ==
  \A p \in People :
    LET made == 1 + MapThenSumSet(LAMBDA q : draw.counts[q], 1 .. p - 1)
    IN /\ PrimaryIndex(pack, p) = made
       /\ \A i \in Range(Owned(pack, p)) : pack.recs[i].shell => (i = made /\ p \in Fraud)

\* Every row of cf_Payment_Transaction, the backdated ones included, lies in the
\* window and in the membership of its cardholder at its own time, and no two
\* rows have one id (append, backdatedRowIsObservable).
PointInTime ==
  usecase = "cardFraud" =>
    \A i \in DOMAIN art.pay :
      LET p == art.pay[i]
          owner == CardOwnerOf(pack, p.card[2])
      IN /\ p.ts >= 0
         /\ owner # NoPerson => (JoinDay[owner] <= p.ts /\ p.ts < CloseTs(owner))
         /\ \A j \in DOMAIN art.pay \ {i} : art.pay[j].id # p.id

\* Each settled row and each funding decline carries the card number that is
\* live at its own time, and no decline marks a card as defrauded: a card is in
\* the overlay only if a fraud row settled on it (generationFor, card.fraud).
CardIdentity ==
  usecase = "cardFraud" =>
    /\ \A p \in Range(art.pay) : p.id[2] \in {"T", "F"} =>
         LET g == GenerationsFor(p.card[2])
         IN g[p.card[3] + 1].from <= p.ts /\ p.ts < g[p.card[3] + 1].to
    /\ \A k \in DOMAIN art.cards :
         art.cards[k].fraud <=>
           \E p \in Range(art.pay) : p.card[2] = k /\ p.label = 1

\* A large currency row has either the alert of the band below the limit or a
\* report, never both and never neither (TxnSweep::observe).
BandOrReport ==
  Complete("amlTxnEdges") =>
    \A i \in DOMAIN corpus :
      (IsCurrency(corpus[i].chan) /\ corpus[i].amount >= BandFloor /\ AlertAccount(corpus[i]) # NoKey) =>
        LET banded == \E x \in Bundle.alerts : x.idx = i /\ x.rule = "highAmountBelowCtr"
            reported == \E c \in Bundle.ctrs : c.idx = i
        IN banded # reported

\* What the sweep counts under one key is one account on one day: no two of the
\* corpus share a key, though their bits overlap (derived.cpp, TxnSweep::observe).
AlertDays ==
  {<<AlertAccount(r), DayOf(r.ts)>> : r \in {x \in Range(corpus) : AlertAccount(x) # NoKey}}
KeysApart ==
  \A x, y \in AlertDays :
    BurstKey(x[1], x[2] * DayTicks) = BurstKey(y[1], y[2] * DayTicks) => x = y

\* While no keys collide, a velocity alert stands for an account and a day with at
\* least BurstCount rows of that account, and every such account and day has one
\* (appendVelocityBurstAlerts).
VelocityExact ==
  Complete("amlTxnEdges") /\ KeysApart =>
    {<<x.on, x.idx>> : x \in {y \in Bundle.alerts : y.rule = "velocityBurst"}}
    = {x \in AlertDays :
         Cardinality(AtRows(LAMBDA r : AlertAccount(r) = x[1] /\ DayOf(r.ts) = x[2])) >= BurstCount}

\* The row that a case promotes is the fraud row of that number in the corpus
\* (StreamingAmlTxnEdgesExport keeps the rows, the sweep over the table read back
\* numbers them).
PromotedExact ==
  Complete("amlTxnEdges") =>
    \A x \in Bundle.cases : \A r \in x.promoted :
      /\ r.idx \in DOMAIN art.fraudTxns
      /\ art.fraudTxns[r.idx] = corpus[r.idx] /\ corpus[r.idx].fraud

\* A customer is exported as closed exactly when the membership that the other
\* exporters filter by has ended at the last row of the run
\* (resolveEndOfWindowPersonas against Membership::activeAt).
ClosedAgrees ==
  Complete("aml") =>
    \A p \in People :
      ClosedByPerson(art)[p] <=>
        (corpus # <<>> /\ ~ActiveAt(p, Last(corpus).ts) /\ JoinDay[p] <= Last(corpus).ts)

\* An account-device edge of mule-ml counts the rows its account sent from that
\* device, and a Party names the device its account used most (accumulateDeviceEdge,
\* pickMostFrequent).
SessionsExact ==
  Complete("muleMl") =>
    LET sent(k, d) == Cardinality(AtRows(LAMBDA r : r.src = k /\ r.device = d))
        t == TablesOf(art)
    IN /\ \A e \in t.Account_Device : e[2] # NoItem /\ e[3] = sent(e[1], e[2])
       /\ \A r \in Range(corpus) : r.device # NoItem =>
            \A x \in t.Party : x[1] = r.src => sent(r.src, x[6]) >= sent(r.src, r.device)

\* An export of a streamed run is the export of the whole run (append, takeDeclined,
\* exportAll of every use case).
StreamedAsWhole == TypeOK /\ EngineInvariant

\* What the compliance tables say of accounts, days and cases is what the corpus
\* holds, a velocity alert only while no two of its keys collide (generateSars,
\* TxnSweep, appendVelocityBurstAlerts, the promoted rows).
ReportsExact == SarsExact /\ BandOrReport /\ VelocityExact /\ PromotedExact

\* What the entity tables say of customers, accounts, cards and devices is true at
\* the time of each row (Membership::activeAt, generationFor, accumulateDeviceEdge).
EntitiesExact ==
  PaidExact /\ ClosedAgrees /\ PrimaryStable /\ SessionsExact /\ PointInTime /\ CardIdentity
=============================================================================
