---------------------------- MODULE LegitBuilder ----------------------------
(***************************************************************************)
(* The legitimate transfers of a run (transfers/legit/ledger): income, the *)
(* routines, spending month by month and the family, added in a fixed      *)
(* order to the streams that everything downstream reads.  In mode "build" *)
(* the streams keep a replay view beside the screened one; in mode         *)
(* "windowed" the replay order is made at the end from bounded runs on     *)
(* disk and drained, with the family's own cursor, span by span.           *)
(***************************************************************************)
EXTENDS Market, Routines

CONSTANTS
  Worlds,            \* what is drawn before the builder runs
  Policies,          \* the draws of a run
  MonthPolicies,     \* the draws of one month of spending
  GovernmentActive,
  EventMinutes,      \* the instants of payments after a month boundary
  AuditRunRows,      \* target size of a run on disk
  CompactionThreshold

VARIABLES
  world,             \* timelines, kin, moves, catalogue
  d, mode,
  pass,              \* the pass that is due
  streams,
  market, month,     \* the market, and the number of boundaries behind it
  routed,            \* the payments routed since the last boundary
  spent,             \* what the spending routine has made (build)
  cursors, drained   \* the two sources of the windowed run and what they gave

vars == <<world, d, mode, pass, streams, market, month, routed, spent, cursors, drained>>

(* ------------------------------- streams ------------------------------- *)

NoStreams(maintain) ==
  [screened |-> <<>>, replay |-> <<>>, inbound |-> <<>>, collecting |-> TRUE, maintain |-> maintain]

\* inplace_merge: what was there first comes first.
Merge(a, b, before(_, _)) ==
  LET step(s, k) == IF s.j > Len(b) \/ (s.i <= Len(a) /\ ~before(b[s.j], a[s.i]))
                    THEN [s EXCEPT !.i = @ + 1, !.out = Append(@, a[s.i])]
                    ELSE [s EXCEPT !.j = @ + 1, !.out = Append(@, b[s.j])]
  IN Fold(step, [i |-> 1, j |-> 1, out |-> <<>>], [k \in 1 .. Len(a) + Len(b) |-> k]).out
AddSortedView(view, items, before(_, _)) == Merge(view, SortSeq(items, before), before)

\* TxnStreams::add
Add(s, items) ==
  [s EXCEPT !.inbound = IF s.collecting THEN @ \o SelectSeq(items, LAMBDA r : PaydayInbound(r.chan)) ELSE @,
            !.screened = AddSortedView(@, items, ByTime),
            !.replay = IF s.maintain THEN AddSortedView(@, items, RowBefore) ELSE @]
ReleasePaydayInbound(s) == [s EXCEPT !.inbound = <<>>, !.collecting = FALSE]
ReleaseScreened(s) == [s EXCEPT !.screened = <<>>]

(* ------------------------- spools and cursors -------------------------- *)

\* (mutant: a run ends at its target size, whatever comes next)
AuditRunsCut(rows) ==
  LET step(s, k) ==
        LET run == Append(s.run, rows[k])
        IN IF Len(run) >= AuditRunRows \/ k = Len(rows) THEN [run |-> <<>>, out |-> s.out \o SortTransfers(run)]
           ELSE [s EXCEPT !.run = run]
  IN Fold(step, [run |-> <<>>, out |-> <<>>], Indices(rows)).out

\* BaseRunSet: runs of a bounded size, each in replay order; a run goes on through
\* rows of one instant.
AuditRuns(rows) ==
  LET step(s, k) ==
        LET run == Append(s.run, rows[k])
        IN IF k = Len(rows) \/ (Len(run) >= AuditRunRows /\ rows[k].ts # rows[k + 1].ts)
           THEN [run |-> <<>>, out |-> s.out \o SortTransfers(run)]
           ELSE [s EXCEPT !.run = run]
  IN Fold(step, [run |-> <<>>, out |-> <<>>], Indices(rows)).out

\* A cursor over rows on disk; emitUntil gives the rows before the bound.
OpenCursor(rows) == [rows |-> rows, at |-> 0]
Split(c, bound) == c.at + Cardinality({k \in c.at + 1 .. Len(c.rows) : c.rows[k].ts < bound})
Given(c, bound) == SubSeq(c.rows, c.at + 1, Split(c, bound))
SpoolAfter(c, bound) == [c EXCEPT !.at = Split(c, bound)]

\* maybeCompact, of a cursor over rows in memory.
Compacted(c) ==
  IF c.at # 0 /\ (c.at >= CompactionThreshold \/ c.at >= Len(c.rows) - c.at)
  THEN [rows |-> SubSeq(c.rows, c.at + 1, Len(c.rows)), at |-> 0] ELSE c
PrecomputedAfter(c, bound) == Compacted([c EXCEPT !.at = Split(c, bound)])

(* ------------------------------- the start ----------------------------- *)

WorldOf(x, kin) ==
  LET homes == [p \in DOMAIN x.seeds |-> HomeAreaFor(x.home, kin.households, p)]
  IN [tls |-> DeriveAll(x.seeds, x.dobs, x.rs), kin |-> kin, moves |-> Relocations(x.home, kin.households, homes),
      cat |-> MakeCatalog(x.cat, Len(x.seeds))]
MakeWorld(x) == WorldOf(x, FamilyGraph(x.kin, x.seeds))

NoMarket == [homes |-> <<>>, at |-> WindowStart]

Init ==
  /\ \E x \in Worlds : world = MakeWorld(x)
  /\ d \in Policies
  /\ mode \in {"build", "windowed"}
  /\ pass = "income" /\ streams = NoStreams(mode = "build")
  /\ market = NoMarket /\ month = 0 /\ routed = <<>> /\ spent = <<>>
  /\ cursors = [base |-> OpenCursor(<<>>), family |-> OpenCursor(<<>>)] /\ drained = <<>>

(* -------------------------- income and routines ------------------------ *)

\* addIncome
BenefitsAdded(s, w) ==
  IF GovernmentActive
  THEN Add(Add(s, BenefitRows(d, w.tls, "retirement")), BenefitRows(d, w.tls, "disability")) ELSE s
IncomeAdded(s, w) == Add(BenefitsAdded(Add(s, SalaryRows(d, w.tls)), w), RevenueRows(d, w.tls))

RoutineOrder == <<"splits", "deposits", "crypto", "rent", "subscriptions", "atm", "internal", "prepare">>
After(routine) == RoutineOrder[1 + CHOOSE i \in DOMAIN RoutineOrder : RoutineOrder[i] = routine]

AddIncome ==
  /\ pass = "income"
  /\ streams' = IncomeAdded(streams, world)
  /\ pass' = "splits"
  /\ UNCHANGED <<world, d, mode, market, month, routed, spent, cursors, drained>>

\* addSplitDeposits and the release of the view that only it reads.
AddSplitDeposits ==
  /\ pass = "splits"
  /\ streams' = ReleasePaydayInbound(Add(streams, SplitRows(world.tls, streams.inbound)))
  /\ pass' = After(pass)
  /\ UNCHANGED <<world, d, mode, market, month, routed, spent, cursors, drained>>

\* addDeposits ... addInternalTransfers: a fresh screen over the rows so far.
AddRoutine(routine, rows) ==
  /\ pass = routine
  /\ streams' = Add(streams, rows)
  /\ pass' = After(pass)
  /\ UNCHANGED <<world, d, mode, market, month, routed, spent, cursors, drained>>
AddDeposits == AddRoutine("deposits", DepositRows(d, world.tls, streams.screened))
AddCrypto == AddRoutine("crypto", CryptoRows(d, world.tls, streams.screened))
AddRent == AddRoutine("rent", RentRows(d, world.tls))
AddSubscriptions == AddRoutine("subscriptions", SubscriptionRows(d, world.tls, streams.screened))
AddAtm == AddRoutine("atm", AtmRows(d, world.tls, streams.screened))
AddInternalTransfers == AddRoutine("internal", InternalRows(d, world.tls, streams.screened))

(* ------------------------------- spending ------------------------------ *)

Boundaries == SelectSeq(MonthStarts, IsMonthBoundary)
SpanEnd(n) == IF n < Len(Boundaries) THEN Boundaries[n + 1] ELSE WindowEnd

\* The payments of the people who are there, at the instants of the span.
RoutedIn(dm, m, n) ==
  LET at(ts) == Concat(LAMBDA p : IF ActiveAt(world.tls[p], ts) /\ HasAccount(p) /\ ts < SpanEnd(n)
                                  THEN RouteAll(dm, world.cat, m, [p |-> p, ts |-> ts, k |-> p + n]) ELSE <<>>,
                       PersonOrder)
  IN Concat(LAMBDA k : at(m.at + EventMinutes[k]), Indices(EventMinutes))

Plain(r) == Row(r.src, r.dst, r.amount, r.ts, r.chan)

\* prepareMarket, and the days before the first boundary.
PrepareMarket ==
  /\ pass = "prepare"
  /\ market' = BuildMarket(d, world.cat, world.moves)
  /\ routed' = RoutedIn(d, market', 0)
  /\ spent' = [k \in DOMAIN routed' |-> Plain(routed'[k])]
  /\ pass' = IF mode = "build" THEN "months" ELSE "spool"
  /\ UNCHANGED <<world, d, mode, streams, month, cursors, drained>>

\* The windowed run writes both views of the base rows, lets go of them and makes
\* the rows of the family.
SpoolBase ==
  /\ pass = "spool"
  /\ cursors' = [base |-> OpenCursor(AuditRuns(streams.screened)),
                 family |-> OpenCursor(SortTransfers(FamilyRows(d, world)))]
  /\ streams' = ReleaseScreened(streams)
  /\ pass' = "months"
  /\ UNCHANGED <<world, d, mode, market, month, routed, spent, drained>>

\* The rows of a span: what every source gives before its end, merged.
Drained(bound) == Merge(Given(cursors.base, bound), Given(cursors.family, bound), RowBefore)
DrainTo(bound) ==
  /\ cursors' = [base |-> SpoolAfter(cursors.base, bound), family |-> PrecomputedAfter(cursors.family, bound)]
  /\ drained' = drained \o Drained(bound)

\* The days from a boundary to the next one: in a windowed run the sources are
\* drained up to the end of the span before.
SpendMonth ==
  /\ pass = "months" /\ month < Len(Boundaries)
  /\ \E dm \in MonthPolicies :
       /\ market' = EvolveMonth(dm, world.cat, world.moves, market, Boundaries[month + 1])
       /\ routed' = RoutedIn(dm, market', month + 1)
  /\ month' = month + 1
  /\ spent' = IF mode = "build" THEN spent \o [k \in DOMAIN routed' |-> Plain(routed'[k])] ELSE <<>>
  /\ IF mode = "windowed" THEN DrainTo(SpanEnd(month)) ELSE UNCHANGED <<cursors, drained>>
  /\ UNCHANGED <<world, d, mode, pass, streams>>

\* The end of addSpending, then the family.
AddSpending ==
  /\ pass = "months" /\ month = Len(Boundaries) /\ mode = "build"
  /\ streams' = Add(streams, spent)
  /\ pass' = "family" /\ spent' = <<>>
  /\ UNCHANGED <<world, d, mode, market, month, routed, cursors, drained>>
AddFamily ==
  /\ pass = "family"
  /\ streams' = Add(streams, FamilyRows(d, world))
  /\ pass' = "done"
  /\ UNCHANGED <<world, d, mode, market, month, routed, spent, cursors, drained>>

\* The last span of a windowed run.
DrainRest ==
  /\ pass = "months" /\ month = Len(Boundaries) /\ mode = "windowed"
  /\ DrainTo(WindowEnd)
  /\ pass' = "done"
  /\ UNCHANGED <<world, d, mode, streams, market, month, routed, spent>>

Next ==
  \/ AddIncome \/ AddSplitDeposits \/ AddDeposits \/ AddCrypto \/ AddRent \/ AddSubscriptions \/ AddAtm
  \/ AddInternalTransfers \/ PrepareMarket \/ SpoolBase \/ SpendMonth \/ AddSpending \/ AddFamily \/ DrainRest

Spec == Init /\ [][Next]_vars

(* ------------------------------ properties ----------------------------- *)

Passes == {"income", "prepare", "spool", "months", "family", "done"} \cup {RoutineOrder[i] : i \in DOMAIN RoutineOrder}
IsRow(r) ==
  /\ DOMAIN r = {"src", "dst", "amount", "ts", "chan"} /\ r.amount > 0 /\ r.src # r.dst
  /\ MonthStarts[1] <= r.ts /\ r.ts < WindowEnd + IF r.chan = "selfTransfer" THEN 31 ELSE 0
RowsOf(s) == {s[i] : i \in DOMAIN s}

\* Every row has its fields, two parties and a positive amount, and a date between
\* the first of the month the window begins in and the window end; a sweep may be
\* half an hour later.  The passes are those of addRoutines.
TypeOK ==
  /\ mode \in {"build", "windowed"} /\ pass \in Passes /\ month \in 0 .. Len(Boundaries)
  /\ \A r \in RowsOf(streams.screened) \cup RowsOf(drained) : IsRow(r)

\* The replay view that add() keeps by merging batch after batch is the whole
\* stream sorted once (streams.hpp, deferReplayView).
ReplayExact == mode = "build" => streams.replay = SortTransfers(streams.screened)

\* The runs on disk and the two cursors give, over all spans, every base and family
\* row before the window end once, in replay order: the monolith's order
\* (base_run_set.hpp, window_sources.cpp).
DrainedExact ==
  mode = "windowed" /\ pass = "done" =>
    drained = SortTransfers(SelectSeq(cursors.base.rows \o FamilyRows(d, world), LAMBDA r : r.ts < WindowEnd))

\* At the anchor a person is what the seed says, and dies later; a student works
\* before retiring and a business ends before its owner retires (timeline.hpp).
LivesFollowSeeds ==
  \A p \in People :
    LET tl == world.tls[p]
    IN /\ PersonaAt(tl, tl.anchor) = tl.seed /\ tl.anchor < tl.death
       /\ tl.seed = "student" => tl.workStart < tl.retirement
       /\ tl.seed = "smallBusiness" => tl.businessEnd <= tl.retirement

\* Two people who work for one employer are paid on the same days, whenever either
\* of them began: the pay lattice does not depend on where it is entered
\* (payroll.hpp).
PaidOn(e, p) == {DayOf(r.ts) : r \in {x \in RowsOf(streams.screened) : x.chan = "salary" /\ x.src = e /\ x.dst = Primary(p)}}
EmployedOn(e, p, ts) ==
  LET active == PayrollActive(world.tls[p])
  IN /\ active.start <= ts /\ ts < active.end
     /\ \E job \in RowsOf(JobsOf(d, p, world.tls[p])) : job.employer = e /\ job.start <= ts /\ ts < job.end
CoworkersPaidTogether ==
  pass = "splits" =>
    \A p, q \in {x \in People : Selected(d, x)} : \A i \in DOMAIN Employers :
      \A day \in PaidOn(Employers[i], p) :
        EmployedOn(Employers[i], q, Day * (day - Payrolls[Employers[i]].lag)) => day \in PaidOn(Employers[i], q)

\* A benefit is paid on a business day, no later than the Wednesday of the birth
\* day's cohort and within a week before it (almanac.cpp).
BenefitsOnTime ==
  pass = "splits" =>
    \A r \in {x \in RowsOf(streams.screened) : x.chan \in {"socialSecurity", "disability"}} :
      LET p == The(AcctOwner(r.dst))
          c == ToCalendarDate(r.ts)
          wednesday == The(NthWeekdayOfMonth(c.year, c.month, 2, SsaCohort(world.tls[p].dob.day) + 2))
      IN /\ ~IsWeekend(r.ts) /\ Day * DayOf(r.ts) \notin FederalHolidays(c.year)
         /\ DayOf(r.ts) \in DayOf(wednesday) - 6 .. DayOf(wednesday)

\* What is split off a deposit depends on that deposit alone, so that a run that
\* sees the stream in pieces splits alike (paychecks.cpp).
SplitsLocal ==
  pass = "splits" =>
    SplitRows(world.tls, streams.inbound) = Concat(LAMBDA r : SplitRows(world.tls, <<r>>), streams.inbound)

\* Whoever withdraws cash had the amount and a reserve: on the opening book with
\* every earlier row and withdrawal posted in the order of time (atm.cpp,
\* seeded_screen.hpp).
AtmLeavesReserve ==
  pass = "internal" =>
    LET isAtm(r) == r.chan = "atm"
        others == SelectSeq(streams.screened, LAMBDA r : ~isAtm(r))
        atms == SelectSeq(streams.screened, isAtm)
        before(k) == Merge(SelectSeq(others, LAMBDA r : r.ts <= atms[k].ts), SubSeq(atms, 1, k - 1), ByTime)
        book(k) == Fold(Screen!TransferAt, InitialBook, before(k))
    IN \A k \in DOMAIN atms :
         book(k).cash[atms[k].src] + book(k).buffer[atms[k].src] >= atms[k].amount + AtmReserve(atms[k].amount, atms[k].ts)

\* A customer who is dead moves no money: what still leaves the account is under
\* contract, a subscription until the closure, the rent or the owner's income of a
\* month that began before, or settles the estate.
DeadAreStill ==
  \A r \in RowsOf(streams.screened) : \A p \in AcctOwner(r.src) :
    r.ts >= world.tls[p].death =>
      \/ r.chan = "subscription" /\ r.ts < ClosesAt(world.tls[p])
      \/ r.chan \in {"rent", "rentAch", "rentCheck", "rentP2p", "rentPortal", "ownerDraw", "investmentInflow"}
           /\ MonthStart(r.ts) < world.tls[p].death
      \/ r.chan \in {"inheritance", "bill"} /\ pass = "done"

\* At every instant a customer has taken back from the crypto venues no more than
\* went there (crypto.cpp).
CryptoConserved ==
  pass = "rent" =>
    \A p \in People : \A r \in RowsOf(streams.screened) :
      LET total(chan, acct(_)) == Fold(LAMBDA t, x : t + IF x.chan = chan /\ acct(x) = Primary(p) /\ x.ts <= r.ts
                                                         THEN x.amount ELSE 0, 0, streams.screened)
      IN r.chan = "rampIn" => total("rampIn", LAMBDA x : x.dst) <= total("rampOut", LAMBDA x : x.src)

\* Kinship is mutual: spouses, parents and children, supporters and supported
\* (family/links.cpp, family/support.cpp).
KinMutual ==
  LET kin == world.kin
  IN \A p, q \in People :
       /\ q \in kin.spouse[p] <=> p \in kin.spouse[q]
       /\ q \in RowsOf(kin.parents[p]) <=> p \in RowsOf(kin.children[q])
       /\ q \in RowsOf(kin.supporting[p]) <=> p \in RowsOf(kin.supported[q])

\* People who start in one home stay together through every move
\* (relocation_build.hpp).
CoresidentsTogether ==
  \A p, q \in People :
    HouseholdIndex(world.kin.households, p) = HouseholdIndex(world.kin.households, q)
      /\ world.moves[p][1] = world.moves[q][1] => world.moves[p] = world.moves[q]

\* A merchant that opens in the window has the brand, the place and the trade of one
\* that was there, and closes after it opened (lifecycle.hpp).
ReplacementsLikeDonors ==
  LET cat == world.cat
  IN \A i \in DOMAIN cat :
       cat[i].open > BeforeAll =>
         /\ InWindow(cat[i].open) /\ cat[i].open < cat[i].close
         /\ \E j \in DOMAIN cat : /\ cat[j].open = BeforeAll /\ cat[j].brand = cat[i].brand
                                  /\ cat[j].area = cat[i].area /\ cat[j].category = cat[i].category

\* Gifts pass between living customers only (relatives.cpp).
Gifts == {"allowance", "support", "tuition", "parentGift", "siblingTransfer", "spouseTransfer", "grandparentGift"}
GiftsAmongLiving ==
  \A r \in {x \in RowsOf(streams.screened) \cup RowsOf(drained) : x.chan \in Gifts} :
    ~DeadAt(world, r.src, r.ts) /\ ~DeadAt(world, r.dst, r.ts)

\* A student's tuition goes to one school, open from the first payment to the last
\* (tuition.cpp).
OneSchool ==
  LET rows == {x \in RowsOf(streams.screened) \cup RowsOf(drained) : x.chan = "tuition"}
  IN \A p \in People : \A r, s \in {x \in rows : x.src = Primary(p)} :
       Len(world.kin.children[p]) = 1 => r.dst = s.dst /\ LiveAt(world.cat[r.dst - 4000], s.ts)

\* The heirs together receive no more than an estate can hold (inheritance.cpp).
EstateCap(ts) == AtPrices(20000000, ts)
EstatesDivided ==
  LET rows == SelectSeq(streams.screened \o drained, LAMBDA r : r.chan = "inheritance")
  IN \A k \in DOMAIN rows :
       Fold(LAMBDA t, r : IF r.src = rows[k].src THEN t + r.amount \div 100 ELSE t, 0, rows) <= EstateCap(rows[k].ts) \div 100

Prepared == market # NoMarket

\* From one boundary to the next everybody's favourites and billers are merchants
\* that were open at it, none of them twice (evolution.cpp).
HeldOpen ==
  month > 0 =>
    \A p \in People : \A held \in {market.fav[p], market.bill[p]} :
      /\ \A k \in DOMAIN held : LiveAt(world.cat[held[k]], market.at)
      /\ Cardinality(RowsOf(held)) = Len(held)

\* Nobody is a contact of themselves, and a row of contacts never shrinks.
ContactsOthers ==
  Prepared => \A p \in People : Len(market.contacts[p]) = ContactDegree /\ p \notin RowsOf(market.contacts[p])

\* However the draws fall, a person gets as many different contacts as wanted
\* (sampler.cpp).
ContactsFilled ==
  pass = "prepare" =>
    \A p \in People : Len(DrawUnique(d, p, BaseUniqueCount(ContactDegree), Communities(d, Len(Owned), CommunityBounds), Len(Owned)))
                       = Lesser(BaseUniqueCount(ContactDegree), Len(Owned) - 1)

\* After a boundary every merchant that is paid was open at it, or is open at the
\* instant (payments.cpp, evolution.cpp).
ShopsOpen ==
  month > 0 =>
    \A r \in RowsOf(routed) :
      r.pick # 0 => LiveAt(world.cat[r.pick], IF r.how = "remote" THEN r.ts ELSE market.at)

\* Exploring near home means near where the payer lives since the boundary, as long
\* as anything is open there (local_pools.hpp, commerce_evolver.cpp).
NearHome ==
  month > 0 =>
    \A r \in {x \in RowsOf(routed) : x.how = "local"} :
      \A p \in AcctOwner(r.src) :
        LET near == RowsOf(Nearby(world.cat, HomeAreaAt(world.moves, p, market.at)))
        IN (\E i \in DOMAIN world.cat : world.cat[i].area \in near /\ LiveAt(world.cat[i], market.at) /\ world.cat[i].weight > 0)
             => world.cat[r.pick].area \in near

\* Every payee outside the pools was registered before the run: the banks of checks,
\* the payment apps, the funeral homes where people die, the merchants
\* (remote_payees.cpp).
Registered ==
  CheckBanksInUse(Len(Owned)) \cup P2pPlatforms \cup FuneralHomesInUse(world.tls, world.moves)
    \cup {MerchantKey(i) : i \in DOMAIN world.cat} \cup {ExternalKey(p) : p \in BanksElsewhere}
PayeesRegistered ==
  \A r \in RowsOf(streams.screened) \cup RowsOf(routed) \cup RowsOf(drained) :
    r.dst > 1000 => r.dst \in Registered

\* The monolith and the windowed run hand on the same rows in the same order, as far as
\* they lie before the window end; later ones are generated and never drained
\* (LegitStreams::add, BaseRunSet, window_sources).
EnginesAgree == TypeOK /\ ReplayExact /\ DrainedExact

\* The world and the market that grows in it are consistent: lives, kin, homes,
\* merchants, favourites, billers and contacts, month after month (timeline,
\* family links, relocation_build, lifecycle, evolution, routing).
WorldConsistent ==
  /\ LivesFollowSeeds /\ KinMutual /\ CoresidentsTogether /\ ReplacementsLikeDonors
  /\ ContactsFilled /\ ContactsOthers
  /\ HeldOpen /\ ShopsOpen /\ NearHome /\ PayeesRegistered

\* Every row has its reason in the world and in the book at its own time (payroll,
\* almanac, paychecks, atm, crypto, the family routines).
RowsJustified ==
  /\ CoworkersPaidTogether /\ BenefitsOnTime /\ SplitsLocal /\ AtmLeavesReserve
  /\ DeadAreStill /\ CryptoConserved /\ GiftsAmongLiving /\ OneSchool /\ EstatesDivided
=============================================================================
