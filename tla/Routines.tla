------------------------------ MODULE Routines ------------------------------
(***************************************************************************)
(* The screened routines of the legitimate transfers: split deposits,      *)
(* personal deposits, crypto ramps, subscriptions, cash withdrawals and    *)
(* transfers between own accounts.  Each plans its candidates, puts them   *)
(* in time order and asks a scratch copy of the opening book, onto which   *)
(* the rows so far (seed) are posted up to the instant of the candidate.   *)
(***************************************************************************)
EXTENDS Income, MerchantCatalog

CONSTANTS
  NumAccounts, External,     \* the accounts, and the boundary kind of every other key
  OpeningSeed,               \* balance, protection and fee of every account
  SpreadShare,               \* percent of a person's spending that leaves secondary accounts
  Terminals, CheckPoints, Venues, Billers,
  BillingPeriod

Screen == INSTANCE Clearing WITH NumAccounts <- NumAccounts, Cards <- {}, External <- External, Period <- BillingPeriod

InitialBook == Screen!OpeningBook(OpeningSeed)

ByTime(a, b) == a.ts < b.ts
SortByTime(s) == SortSeq(s, ByTime)

(* ----------------------------- SeededScreen ---------------------------- *)

\* ScreenBook::fresh and SeededScreen::sorted.
FreshScreen == [book |-> InitialBook, at |-> 0, out |-> <<>>, inventory |-> [p \in People |-> 0]]

\* advanceThrough, inclusive: what the ledger decides of a seed row is not looked at.
AdvanceThrough(seed, s, ts) ==
  LET upto == Cardinality({i \in DOMAIN seed : seed[i].ts <= ts})
  IN IF upto <= s.at THEN s
     ELSE [s EXCEPT !.book = Fold(Screen!TransferAt, s.book, SubSeq(seed, s.at + 1, upto)), !.at = upto]

\* acceptTransfer, and the row that is made when the ledger accepts.
AcceptTransfer(s, row) == Screen!Decision(s.book, row) = "accepted"
Offer(s, row) ==
  [s EXCEPT !.book = Screen!TransferAt(s.book, row), !.out = IF AcceptTransfer(s, row) THEN Append(@, row) ELSE @]
AvailableCash(s, acct) == s.book.cash[acct]
Liquidity(s, acct) == s.book.cash[acct] + s.book.buffer[acct]

\* Cents at the price level of the instant, and the nearest point of a lattice.
AtPrices(cents, ts) == (cents * PriceScale(YearOf(ts))) \div 100
Nearest(x, step) == ((x + step \div 2) \div step) * step

InMonth(d, k, month, days, hours, minutes) ==
  month + Day * UniformInt(d, k, days[1], days[2]) + 60 * UniformInt(d, k + 1, hours[1], hours[2])
        + UniformInt(d, k, 0, minutes)

\* The candidates of some people over the months, those in the window, in time order.
Candidates(cand(_, _, _), count(_, _), who) ==
  SortByTime(SelectSeq(
    Concat(LAMBDA m : Concat(LAMBDA p : [i \in 1 .. count(p, m) |-> cand(p, m, i)], who), Indices(MonthStarts)),
    LAMBDA c : InWindow(c.ts)))

(* --------------------------- split deposits ---------------------------- *)

PaydayInbound(chan) ==
  chan \in {"salary", "clientAchCredit", "cardSettlement", "platformPayout", "ownerDraw", "investmentInflow",
            "cashDeposit", "socialSecurity", "pension", "disability"}

\* planSplitters: the accounts beside the primary of the same role and bank.
Secondaries(p) == SelectSeq(Tail(Owned[p]), LAMBDA a : a \notin BusinessOf[p] \cup BrokerageOf[p])
Splitters == SelectSeq(PersonOrder, LAMBDA p : Len(Owned[p]) > 1 /\ Secondaries(p) # <<>>)
SplitFraction(p) == Clamp((SpreadShare[p] * 2436) \div 10000, 2, 60)

\* rowMix: a hash of the account and the instant.
RowMix(acct, ts, domain) == 31 * acct + 7 * ts + domain
RotateSlot(acct, ts, n) == IF n <= 1 THEN 1 ELSE 1 + (RowMix(acct, ts, 1) % n)

PostingLag(acct, ts, i) == 5 + (RowMix(acct, ts, 2) % 26)

\* emitSplitTransfers, for the row of index i.
SplitOf(p, tl, row, i) ==
  LET r == Row(row.dst, Secondaries(p)[RotateSlot(row.dst, row.ts, Len(Secondaries(p)))],
               (row.amount * SplitFraction(p)) \div 100, row.ts + PostingLag(row.dst, row.ts, i), "selfTransfer")
  IN IF r.amount < 1000 \/ r.ts >= tl.death THEN <<>> ELSE <<r>>
SplitRows(tls, inbound) ==
  LET owners(row) == {p \in {Splitters[k] : k \in DOMAIN Splitters} : Primary(p) = row.dst}
      split(i) == LET o == owners(inbound[i])
                  IN IF ~PaydayInbound(inbound[i].chan) \/ o = {} THEN <<>>
                     ELSE SplitOf(The(o), tls[The(o)], inbound[i], i)
  IN Concat(split, Indices(inbound))

(* ------------------------------- deposits ------------------------------ *)

DepositFlow(kind) ==
  IF kind = "cash" THEN [floor |-> 2000, cap |-> 200000, roundTo |-> 1000, chan |-> "cashDeposit"]
  ELSE [floor |-> 2500, cap |-> 500000, roundTo |-> 1, chan |-> "checkDeposit"]

\* sampleAmount: denominations are nominal, floor and cap follow the prices.
DepositAmount(d, k, flow, ts) ==
  LET step == flow.roundTo
      floor == AtPrices(flow.floor, ts)
      cap == AtPrices(flow.cap, ts)
      low == ((floor + step - 1) \div step) * step
      high == (cap \div step) * step
  IN IF high < low THEN 0 ELSE Clamp(Nearest(UniformInt(d, k, floor, cap + 1), step), low, high)

ActiveAt(tl, ts) == JoinsAt(tl) <= ts /\ AliveAt(tl, ts)
StablePoint(points, acct) == points[1 + (acct % Len(points))]

\* candidateForMonth and makeCandidates.
DepositCandidates(d, tls) ==
  LET kinds == <<"cash", "check">>
      cand(p, m, i) ==
        LET ts == BusinessDayTs(d, p + m + i, MonthStarts[m], <<9, 17>>, 0, 28)
        IN [ts |-> ts, p |-> p, kind |-> kinds[i], amount |-> DepositAmount(d, p + i, DepositFlow(kinds[i]), ts),
            drawn |-> Coin(d, p + i) /\ Coin(d, m + i)]
  IN SelectSeq(Candidates(cand, LAMBDA p, m : 2, SelectSeq(PersonOrder, HasAccount)),
               LAMBDA c : c.drawn /\ c.amount > 0 /\ ActiveAt(tls[c.p], c.ts))

DepositRows(d, tls, seed) ==
  LET step(s, c) ==
        LET at == AdvanceThrough(seed, s, c.ts)
            points == IF c.kind = "cash" THEN Depositories ELSE CheckPoints
        IN IF points = <<>> THEN at
           ELSE Offer(at, Row(StablePoint(points, Primary(c.p)), Primary(c.p), c.amount, c.ts, DepositFlow(c.kind).chan))
  IN Fold(step, FreshScreen, DepositCandidates(d, tls)).out

(* -------------------------------- crypto ------------------------------- *)

RampOut == <<1500, 500000>>
RampIn == <<1000, 750000>>
CryptoUser(d, p) ==
  [venue |-> PickOne(d, p, Venues), year |-> UniformInt(d, p, 2013, 2025), month |-> UniformInt(d, p + 1, 1, 13)]
AdoptedBy(user, month) ==
  LET c == ToCalendarDate(month) IN c.year > user.year \/ (c.year = user.year /\ c.month >= user.month)

\* makeCandidates: out before in where both fall on one instant.  value is a
\* calibration amount, or the percentage of what was ramped out.
CryptoCandidates(d) ==
  LET users == SelectSeq(PersonOrder, LAMBDA p : HasAccount(p) /\ Venues # <<>> /\ Coin(d, p))
      cand(p, m, i) ==
        LET c == ToCalendarDate(MonthStarts[m])
        IN [ts |-> InMonth(d, p + m + i, MonthStarts[m], <<0, DaysInMonth(c.year, c.month)>>, <<8, 23>>, 60),
            p |-> p, out |-> i = 1, drawn |-> Coin(d, m + i) /\ AdoptedBy(CryptoUser(d, p), MonthStarts[m]),
            value |-> IF i = 1 THEN UniformInt(d, p + m, RampOut[1], RampOut[2] + 1) ELSE UniformInt(d, p + m, 20, 81)]
      before(a, b) == \/ a.ts < b.ts
                      \/ a.ts = b.ts /\ Primary(a.p) < Primary(b.p)
                      \/ a.ts = b.ts /\ a.p = b.p /\ a.out /\ ~b.out
  IN SortSeq(SelectSeq(Candidates(cand, LAMBDA p, m : 2, users), LAMBDA c : c.drawn), before)

\* A ramp-in may return no more than is left of what went out.
RampInStep(d, s, c) ==
  LET have == s.inventory[c.p]
      proposed == (have * c.value) \div 100
      amount == Lesser(have, Lesser(proposed, AtPrices(RampIn[2], c.ts)))
      row == Row(CryptoUser(d, c.p).venue, Primary(c.p), amount, c.ts, "rampIn")
  IN IF have <= 0 \/ proposed < AtPrices(RampIn[1], c.ts) THEN s
     ELSE IF AcceptTransfer(s, row) THEN [Offer(s, row) EXCEPT !.inventory[c.p] = Greater(0, have - amount)]
     ELSE Offer(s, row)
RampOutStep(d, s, c) ==
  LET amount == Clamp(AtPrices(c.value, c.ts), AtPrices(RampOut[1], c.ts), AtPrices(RampOut[2], c.ts))
      row == Row(Primary(c.p), CryptoUser(d, c.p).venue, amount, c.ts, "rampOut")
  IN IF AcceptTransfer(s, row) THEN [Offer(s, row) EXCEPT !.inventory[c.p] = @ + amount] ELSE Offer(s, row)
CryptoRows(d, tls, seed) ==
  LET step(s, c) ==
        IF ~ActiveAt(tls[c.p], c.ts) THEN s
        ELSE LET at == AdvanceThrough(seed, s, c.ts) IN IF c.out THEN RampOutStep(d, at, c) ELSE RampInStep(d, at, c)
  IN Fold(step, FreshScreen, CryptoCandidates(d)).out

(* ---------------------------- subscriptions ---------------------------- *)

PriceRange == <<699, 9999>>

\* BundleEmitter::emit
Bundle(d, p) ==
  LET total == UniformInt(d, p, 4, 9)
      debits == Lesser(MaxPayments, Cardinality({i \in 1 .. total : Coin(d, p + i)}))
  IN [i \in 1 .. debits |-> [biller |-> PickOne(d, p + i, Billers), day |-> UniformInt(d, p + i, 1, 29),
                             price |-> UniformInt(d, p + i, PriceRange[1], PriceRange[2] + 1)]]

\* cycleTimestamp: a day either way, kept in 1 .. 28.
CycleTimestamp(d, k, month, day) ==
  month + Day * (Clamp(day + UniformInt(d, k, -1, 2), 1, 28) - 1) + 60 * UniformInt(d, k, 0, 7) + UniformInt(d, k, 0, 61)

SubscriptionEnds(tl) == ClosesAt(tl)

\* emitDebits
SubscriptionRows(d, tls, seed) ==
  LET who == SelectSeq(PersonOrder, HasAccount)
      cand(p, m, i) == [ts |-> CycleTimestamp(d, p + m + i, MonthStarts[m], Bundle(d, p)[i].day), p |-> p, i |-> i]
      step(s, c) ==
        LET sub == Bundle(d, c.p)[c.i]
        IN IF c.ts >= SubscriptionEnds(tls[c.p]) THEN s
           ELSE Offer(AdvanceThrough(seed, s, c.ts),
                      Row(Primary(c.p), sub.biller, AtPrices(sub.price, c.ts), c.ts, "subscription"))
  IN IF Billers = <<>> THEN <<>>
     ELSE Fold(step, FreshScreen, Candidates(cand, LAMBDA p, m : Len(Bundle(d, p)), who)).out

(* ---------------------------- cash withdrawals ------------------------- *)

Note == 2000
NominalAtm(cents, ts) == Greater(Note, Nearest(AtPrices(cents, ts), Note))
AtmReserve(amount, ts) == Clamp(amount \div 2, AtPrices(4000, ts), AtPrices(12000, ts))

CanAffordAtm(s, acct, amount, ts) == Liquidity(s, acct) >= amount + AtmReserve(amount, ts)

TerminalFor(acct, ts) == Terminals[1 + (RowMix(acct, ts, 3) % Len(Terminals))]

AtmRows(d, tls, seed) ==
  LET users == SelectSeq(PersonOrder, LAMBDA p : HasAccount(p) /\ Coin(d, p))
      count(p, m) == Lesser(MaxPayments, UniformInt(d, p + m, 1, 7))
      days(k) == IF Coin(d, k) THEN <<0, 19>> ELSE <<18, 28>>
      cand(p, m, i) == [ts |-> InMonth(d, p + m + i, MonthStarts[m], days(p + i), <<7, 24>>, 61), p |-> p,
                        cents |-> Note * UniformInt(d, p + i, 1, 16)]
      step(s, c) ==
        LET at == AdvanceThrough(seed, s, c.ts)
            acct == Primary(c.p)
            amount == NominalAtm(c.cents, c.ts)
        IN IF ~AliveAt(tls[c.p], c.ts) \/ ~CanAffordAtm(at, acct, amount, c.ts) THEN at
           ELSE Offer(at, Row(acct, TerminalFor(acct, c.ts), amount, c.ts, "atm"))
  IN IF Terminals = <<>> THEN <<>> ELSE Fold(step, FreshScreen, Candidates(cand, count, users)).out

(* -------------------------- own-account transfers ---------------------- *)

RoundLattice == 2500
\* drawAmount and nominalTransferAmount
InternalAmount(d, k, ts) ==
  IF Coin(d, k) THEN Greater(RoundLattice, Nearest(AtPrices(RoundLattice * UniformInt(d, k, 1, 81), ts), RoundLattice))
  ELSE AtPrices(Greater(1000, UniformInt(d, k, 1000, 200001)), ts)

\* chooseSource: the fullest account that covers the amount; the first of equals.
\* chooseDestination: the leanest of the others.  Each is a sequence of at most one.
ChooseSource(s, accts, amount) ==
  LET able == SelectSeq(accts, LAMBDA a : AvailableCash(s, a) >= amount)
  IN SelectSeq(able, LAMBDA a : \A i \in DOMAIN able : AvailableCash(s, able[i]) <= AvailableCash(s, a))
ChooseDestination(s, accts, source) ==
  LET others == SelectSeq(accts, LAMBDA a : a # source)
  IN SelectSeq(others, LAMBDA a : \A i \in DOMAIN others : AvailableCash(s, others[i]) >= AvailableCash(s, a))

InternalRows(d, tls, seed) ==
  LET movers == SelectSeq(PersonOrder, LAMBDA p : Len(Owned[p]) >= 2 /\ Coin(d, p))
      count(p, m) == Lesser(MaxPayments, UniformInt(d, p + m, 1, 4))
      days(k) == IF Coin(d, k) THEN <<0, 7>> ELSE <<6, 28>>
      cand(p, m, i) ==
        LET ts == InMonth(d, p + m + i, MonthStarts[m], days(p + i), <<8, 23>>, 61)
        IN [ts |-> ts, p |-> p, amount |-> InternalAmount(d, p + i, ts)]
      step(s, c) ==
        LET at == AdvanceThrough(seed, s, c.ts)
            from == ChooseSource(at, Owned[c.p], c.amount)
            to == ChooseDestination(at, Owned[c.p], from[1])
        IN IF from = <<>> \/ ~AliveAt(tls[c.p], c.ts) THEN at
           ELSE Offer(at, Row(from[1], to[1], c.amount, c.ts, "selfTransfer"))
  IN Fold(step, FreshScreen, Candidates(cand, count, movers)).out

-----------------------------------------------------------------------------

(***************************************************************************)
(* Transfers between relatives (transfers/legit/routines/family), in the   *)
(* order of generateFamilyTxns: seven gift routines, then the rows of the  *)
(* dead are dropped, then estates and funerals.  w is the world: tls, the  *)
(* timelines, kin, the family graph, moves, the homes, and cat, the        *)
(* merchants.                                                              *)
(***************************************************************************)

CONSTANTS
  BanksElsewhere,      \* people whose relatives pay them at another bank
  Power(_)             \* the amount multiplier of a person

(* -------------------------------- accounts ----------------------------- *)

\* pickMemberId: the primary account, or a key of another bank.  Nothing for a
\* person without an account.
ExternalKey(p) == 1000 + p
LocalMemberAccount(p) == IF HasAccount(p) THEN {Primary(p)} ELSE {}
RoutedMemberAccount(p) ==
  IF ~HasAccount(p) THEN {} ELSE IF p \in BanksElsewhere THEN {ExternalKey(p)} ELSE {Primary(p)}
IsExternalKey(a) == a > 1000
AcctOwner(a) == {p \in People : \E i \in DOMAIN Owned[p] : Owned[p][i] = a}

\* sanitizeAmount, nominalAt and the row, unless something is missing: a party,
\* a distinct payer, an amount, time.
Posted(src, dst, cents, floor, ts, chan) ==
  IF src = {} \/ dst = {} \/ src = dst \/ cents < floor \/ ts >= WindowEnd THEN <<>>
  ELSE <<Row(The(src), The(dst), AtPrices(cents, ts), ts, chan)>>

\* sampleMonthlyPostingTs
PostingTs(d, k, month, dayMax, hours) == InMonth(d, k, month, <<0, dayMax>>, hours, 60)

OverMonths(rows(_, _)) == Concat(LAMBDA m : rows(m, MonthStarts[m]), Indices(MonthStarts))

(* -------------------------- allowances and support --------------------- *)

\* pickSchedule and walkSchedule: weekly or fortnightly, a day either way.
AllowanceTimes(d, student) ==
  LET interval == IF Coin(d, student) THEN 7 ELSE 14
      first == WindowStart + Day * UniformInt(d, student, 0, 14) + 60 * UniformInt(d, student, 7, 21) + UniformInt(d, student, 0, 60)
      at[n \in 0 .. WindowDays \div 6] == IF n = 0 THEN first ELSE at[n - 1] + Day * (interval + UniformInt(d, n, -1, 2))
  IN SelectSeq([n \in 1 .. 1 + WindowDays \div 6 |-> at[n - 1]], LAMBDA ts : ts < WindowEnd)

Allowances(d, w) ==
  LET of(student) ==
        LET times == AllowanceTimes(d, student)
            parents == w.kin.parents[student]
            row(k) == Posted(RoutedMemberAccount(PickOne(d, k, parents)), LocalMemberAccount(student),
                             UniformInt(d, k, 800, 20001), 100, times[k], "allowance")
        IN IF parents = <<>> \/ ~IsStudent(w.tls[student].seed) THEN <<>> ELSE Concat(row, Indices(times))
  IN Concat(of, PersonOrder)

SupportTransfers(d, w) ==
  LET of(retiree) ==
        LET supporters == w.kin.supporting[retiree]
            row(m, month) ==
              LET payer == PickOne(d, m, supporters)
              IN IF ~Coin(d, m) THEN <<>>
                 ELSE Posted(RoutedMemberAccount(payer), LocalMemberAccount(retiree),
                             (UniformInt(d, m, 400, 50001) * Power(payer)) \div 100, 500,
                             PostingTs(d, m, month, 6, <<7, 21>>), "support")
        IN IF supporters = <<>> \/ ~IsRetired(w.tls[retiree].seed) THEN <<>> ELSE OverMonths(row)
  IN Concat(of, PersonOrder)

(* ------------------------------- tuition ------------------------------- *)

\* Directory::pick: a school open on the first and on the last date, in the home
\* area before anywhere else.
OpenSchools(cat, area, first, last) ==
  LET all == SelectSeq(cat, LAMBDA s : s.category = "education" /\ LiveAt(s, first) /\ LiveAt(s, last))
      local == SelectSeq(all, LAMBDA s : s.area # NoArea /\ s.area = area)
  IN IF local # <<>> THEN local ELSE all

\* buildPlan and drawInstallment: thirty days apart until one would fall beyond
\* the window.
Installments(d, student) ==
  LET first == MonthStarts[1] + Day * UniformInt(d, student, 0, 10)
      at(i) == first + 30 * Day * (i - 1) + Day * UniformInt(d, student + i, 0, 5)
                 + 60 * UniformInt(d, i, 8, 18) + UniformInt(d, i, 0, 60)
      n == UniformInt(d, student, 4, 6)
      kept == Cardinality({i \in 1 .. n : \A j \in 1 .. i : at(j) < WindowEnd})
  IN [i \in 1 .. kept |-> [ts |-> at(i), cents |-> UniformInt(d, i, 30000, 400001)]]

\* processStudent and emitPlan: all rows go to one school, or none is kept.
TuitionOf(d, w, student) ==
  LET plan == Installments(d, student)
      open == OpenSchools(w.cat, HomeAreaAt(w.moves, student, plan[1].ts), plan[1].ts, plan[Len(plan)].ts)
      row(i) == Posted(LocalMemberAccount(PickOne(d, student, w.kin.parents[student])),
                       {MerchantKey(PickOne(d, student, open).serial)}, plan[i].cents, 1, plan[i].ts, "tuition")
  IN IF plan = <<>> \/ open = <<>> THEN <<>> ELSE Concat(row, Indices(plan))
Tuition(d, w) ==
  LET enrolled(p) == IsStudent(w.tls[p].seed) /\ w.kin.parents[p] # <<>> /\ Coin(d, p)
  IN Concat(LAMBDA p : TuitionOf(d, w, p), SelectSeq(PersonOrder, enrolled))

(* -------------------------------- gifts -------------------------------- *)

ParentGifts(d, w) ==
  LET giving(child) == SelectSeq(w.kin.parents[child], LAMBDA p : CanSupport(w.tls[p].seed))
      of(child) ==
        LET row(m, month) ==
              LET payer == PickOne(d, m, giving(child))
              IN IF ~Coin(d, m) THEN <<>>
                 ELSE Posted(RoutedMemberAccount(payer), LocalMemberAccount(child),
                             (UniformInt(d, m, 900, 60001) * Power(payer)) \div 100, 1000,
                             PostingTs(d, m, month, 20, <<8, 21>>), "parentGift")
        IN IF IsStudent(w.tls[child].seed) \/ giving(child) = <<>> THEN <<>> ELSE OverMonths(row)
  IN Concat(of, PersonOrder)

\* Pairs that bank together, or both elsewhere, move nothing.
Separate(a, b) ==
  /\ RoutedMemberAccount(a) # {} /\ RoutedMemberAccount(b) # {}
  /\ RoutedMemberAccount(a) # RoutedMemberAccount(b)
  /\ ~(IsExternalKey(The(RoutedMemberAccount(a))) /\ IsExternalKey(The(RoutedMemberAccount(b))))

Siblings(d, w) ==
  LET pairs(h) ==
        LET adults == SelectSeq(w.kin.households[h], LAMBDA p : ~IsStudent(w.tls[p].seed))
        IN Concat(LAMBDA i : [j \in 1 .. Len(adults) - i |-> <<adults[i], adults[i + j]>>], Indices(adults))
      of(pr) ==
        LET row(m, month) ==
              LET from == IF Coin(d, m) THEN 1 ELSE 2
              IN IF ~Coin(d, m + pr[1]) THEN <<>>
                 ELSE Posted(RoutedMemberAccount(pr[from]), RoutedMemberAccount(pr[3 - from]),
                             UniformInt(d, m, 400, 30001), 500, PostingTs(d, m, month, 28, <<8, 22>>), "siblingTransfer")
        IN IF ~Coin(d, pr[1]) \/ pr[2] \in w.kin.spouse[pr[1]] \/ ~Separate(pr[1], pr[2]) THEN <<>> ELSE OverMonths(row)
  IN Concat(of, Concat(pairs, Indices(w.kin.households)))

\* The stronger earner pays in a breadwinner month's transfer.
Spouses(d, w) ==
  LET of(p) ==
        LET s == The(w.kin.spouse[p])
            higher == IF Power(p) >= Power(s) THEN p ELSE s
            lower == IF higher = p THEN s ELSE p
            row(m, month) ==
              Concat(LAMBDA i : LET breadwinner == Coin(d, m + i)
                                IN Posted(RoutedMemberAccount(IF breadwinner THEN higher ELSE lower),
                                          RoutedMemberAccount(IF breadwinner THEN lower ELSE higher),
                                          UniformInt(d, i, 400, 30001), 500,
                                          PostingTs(d, m + i, month, 28, <<7, 22>>), "spouseTransfer"),
                     [i \in 1 .. Lesser(MaxPayments, UniformInt(d, m, 2, 7)) |-> i])
        IN IF w.kin.spouse[p] = {} \/ s < p \/ ~Coin(d, p) \/ ~Separate(p, s) THEN <<>> ELSE OverMonths(row)
  IN Concat(of, PersonOrder)

GrandparentGifts(d, w) ==
  LET grandchildren(gp) == Concat(LAMBDA c : w.kin.children[c], w.kin.children[gp])
      of(gp) ==
        LET gift(gc) == OverMonths(LAMBDA m, month :
              IF ~Coin(d, m) THEN <<>>
              ELSE Posted(LocalMemberAccount(gp), LocalMemberAccount(gc), UniformInt(d, m, 900, 30001), 1000,
                          PostingTs(d, m, month, 20, <<8, 20>>), "grandparentGift"))
        IN IF ~IsRetired(w.tls[gp].seed) THEN <<>> ELSE Concat(gift, grandchildren(gp))
  IN Concat(of, PersonOrder)

(* ------------------------------- the dead ------------------------------ *)

DeadAt(w, acct, ts) == \E p \in AcctOwner(acct) : ~AliveAt(w.tls[p], ts)

DropDeadPartyRows(w, rows) == SelectSeq(rows, LAMBDA r : ~DeadAt(w, r.src, r.ts) /\ ~DeadAt(w, r.dst, r.ts))

\* resolveHeirs
ResolveHeirs(w, p) == IF w.kin.children[p] # <<>> THEN w.kin.children[p] ELSE w.kin.supporting[p]

FuneralDays == <<3, 11>>
EstateDays == <<30, 91>>
\* offsetTimestamp
AfterDeath(d, k, tl, days) ==
  tl.death + Day * UniformInt(d, k, days[1], days[2]) + 60 * UniformInt(d, k, 10, 16) + UniformInt(d, k, 0, 60)

\* emitEstate: even shares.
EstateOf(d, w, p) ==
  LET heirs == ResolveHeirs(w, p)
      row(i) == Posted(LocalMemberAccount(p), RoutedMemberAccount(heirs[i]),
                       UniformInt(d, p, 100000, 20000001) \div Len(heirs), 100,
                       AfterDeath(d, p + 1, w.tls[p], EstateDays), "inheritance")
  IN Concat(row, Indices(heirs))
\* emitFuneral
FuneralOf(d, w, p) ==
  Posted(LocalMemberAccount(p), {FuneralHomeFor(HomeAreaAt(w.moves, p, w.tls[p].death), p)}, Greater(200000, UniformInt(d, p, 100000, 1500001)), 0,
         AfterDeath(d, p, w.tls[p], FuneralDays), "bill")
Inheritance(d, w) ==
  Concat(LAMBDA p : FuneralOf(d, w, p) \o EstateOf(d, w, p),
         SelectSeq(PersonOrder, LAMBDA p : InWindow(w.tls[p].death)))

\* generateFamilyTxns
FamilyRows(d, w) ==
  DropDeadPartyRows(w, Allowances(d, w) \o SupportTransfers(d, w) \o Tuition(d, w) \o ParentGifts(d, w)
                         \o Siblings(d, w) \o Spouses(d, w) \o GrandparentGifts(d, w))
    \o Inheritance(d, w)
=============================================================================
