-------------------------- MODULE MerchantCatalog ---------------------------
(***************************************************************************)
(* The merchants of the world (synth/merchants): the base records, their   *)
(* reach and place, the outlets of chains, the replacements born in the    *)
(* window, and when each one opens and closes.  A catalogue is a sequence  *)
(* of records in serial order; d resolves the draws of all of them.        *)
(***************************************************************************)
EXTENDS People

CONSTANTS
  CoreSizes, TailSizes,   \* the lognormal sizes drawn for the two tiers
  TailShare,              \* percent of the volume that the tail carries
  CoreFloor, CorePerTenK, \* the number of core records by population
  HazardMature            \* closures of mature merchants per ten thousand and year

Categories ==
  <<"grocery", "fuel", "utilities", "telecom", "ecommerce", "restaurant", "pharmacy", "retailOther",
    "insurance", "education">>
Never == 100000000
BeforeAll == -100000000

\* coreCountFor
CoreCountFor(population) == Greater(CoreFloor, (2 * CorePerTenK * population + 10000) \div 20000)

Sum(s) == Fold(LAMBDA t, x : t + x, 0, s)

\* makeCatalog: the two tiers are normalised and share the volume.
BaseCatalog(d, population) ==
  LET core == SubSeq(CoreSizes, 1, CoreCountFor(population))
      n == Len(core) + Len(TailSizes)
      weight(i) == IF i <= Len(core) THEN (1000 * (100 - TailShare) * core[i]) \div Sum(core)
                   ELSE (1000 * TailShare * TailSizes[i - Len(core)]) \div Sum(TailSizes)
  IN [i \in 1 .. n |-> [serial |-> i, internal |-> i <= Len(core) /\ Coin(d, i), category |-> PickOne(d, (i + 8) \div 2, Categories),
                        weight |-> weight(i), footprint |-> "local", area |-> NoArea, brand |-> 0,
                        open |-> BeforeAll, close |-> Never]]

\* footprintFor: the outcomes a category may have.
FootprintFor(category) ==
  CASE category \in {"grocery", "fuel"} -> <<"local", "regional">>
    [] category \in {"restaurant", "pharmacy", "retailOther"} -> <<"local", "regional", "online">>
    [] category = "ecommerce" -> <<"online">>
    [] category \in {"utilities", "telecom", "insurance"} -> <<"national", "regional">>
    [] category = "education" -> <<"regional", "local", "online">>

DomesticAreas == SelectSeq(Indices(Areas), LAMBDA a : Areas[a].country = "us" /\ Areas[a].residential)

\* placeGeography
PlaceGeography(d, cat) ==
  [i \in DOMAIN cat |->
     LET f == PickOne(d, i, FootprintFor(cat[i].category))
     IN [cat[i] EXCEPT !.footprint = f,
                       !.area = IF f = "online" \/ DomesticAreas = <<>> THEN NoArea ELSE PickOne(d, i, DomesticAreas)]]

IsOutletEligible(r, coreCount) ==
  /\ r.serial <= coreCount /\ r.category \in {"grocery", "fuel", "restaurant", "pharmacy", "retailOther"}
  /\ r.footprint \in {"local", "regional"} /\ r.area # NoArea

\* outletUnitWeight: the upper median of the eligible weights, or zero.
OutletUnitWeight(cat, coreCount) ==
  LET ws == SortSeq(Concat(LAMBDA r : IF IsOutletEligible(r, coreCount) /\ r.weight > 0 THEN <<r.weight>> ELSE <<>>, cat), <)
  IN IF ws = <<>> THEN 0 ELSE ws[1 + (Len(ws) \div 2)]
OutletCountFor(weight, unit) ==
  IF unit <= 0 \/ weight <= 0 THEN 1 ELSE Greater(1, (2 * weight + unit) \div (2 * unit))

\* expandOutlets: a brand splits its weight over its outlets, the added ones at
\* the end with serials of their own.
ExpandOutlets(d, cat, coreCount) ==
  LET unit == OutletUnitWeight(cat, coreCount)
      count(r) == IF IsOutletEligible(r, coreCount) THEN OutletCountFor(r.weight, unit) ELSE 1
      base == [i \in DOMAIN cat |-> IF count(cat[i]) <= 1 THEN cat[i]
                                    ELSE [cat[i] EXCEPT !.brand = cat[i].serial, !.weight = @ \div count(cat[i])]]
      outlet(brand, k) == [brand EXCEPT !.area = PickOne(d, k, DomesticAreas)]
      expand(all, i) ==
        all \o [k \in 1 .. count(cat[i]) - 1 |-> [outlet(base[i], k) EXCEPT !.serial = Len(all) + k]]
  IN IF unit = 0 \/ DomesticAreas = <<>> THEN cat ELSE Fold(expand, base, Indices(cat))

\* One replacement: the economic shape of its donor, a birth day in the window.
Replacement(d, donor, serial) ==
  [donor EXCEPT !.serial = serial,
                !.open = WindowStart + Day * Lesser(UniformInt(d, serial, 0, WindowDays), WindowDays - 1),
                !.close = Never]
\* appendChurnReplacements: as many births as closures are expected.
ReplacementCount(n) == (2 * n * HazardMature * WindowDays + 3652500) \div (2 * 3652500)
AppendChurnReplacements(d, cat) ==
  cat \o [i \in 1 .. ReplacementCount(Len(cat)) |-> Replacement(d, PickOne(d, i, cat), Len(cat) + i)]

\* assignLifecycle: years of exposure until one is fatal; a closing beyond the
\* window is none.  An incumbent is exposed from the window start.
AssignLifecycle(d, cat) ==
  LET close(r) ==
        LET born == Greater(r.open, WindowStart)
            years == (WindowEnd - 1 - born) \div (365 * Day)
            fatal == {y \in 0 .. years : Coin(d, r.serial + y)}
            death == born + Day * (365 * Least(fatal) + Greater(1, UniformInt(d, r.serial, 0, 365)))
        IN IF fatal = {} \/ death >= WindowEnd THEN Never ELSE Greater(death, born + 1)
  IN [i \in DOMAIN cat |-> [cat[i] EXCEPT !.close = close(cat[i])]]

\* The order of the entity stage.
MakeCatalog(d, population) ==
  LET placed == PlaceGeography(d, BaseCatalog(d, population))
      grown == ExpandOutlets(d, placed, CoreCountFor(population))
  IN AssignLifecycle(d, AppendChurnReplacements(d, grown))

MerchantKey(i) == 4000 + i
LiveAt(r, ts) == r.open <= ts /\ ts < r.close
LiveIndices(cat, ts) == SelectSeq(Indices(cat), LAMBDA i : LiveAt(cat[i], ts) /\ cat[i].weight > 0)

-----------------------------------------------------------------------------

(***************************************************************************)
(* Payees outside the bank that are derived rather than drawn              *)
(* (synth/counterparties/remote_payees): the banks of paid checks, the     *)
(* remote merchants, the payment apps and the funeral homes.  The same     *)
(* functions choose a payee while rows are made and enumerate, beforehand, *)
(* the payees that the entity stage registers.                             *)
(***************************************************************************)

CONSTANTS
  CheckBankPool, CheckPayees,   \* banks of the deposit survey, payees of one person
  SlotShare, CheckShare,        \* percent: the unattributed slot, checks in it by year
  RemoteAttempts,
  FuneralHomeCount              \* funeral homes of each area

\* mix: a hash of a domain, a person and a word.
Mix(domain, person, word) == 17 * domain + 13 * person + 7 * word + (word \div 11)

CheckBankKey(rank) == 3000 + rank
CheckBankRankFor(person, slot) == 1 + (Mix(1, person, slot) % CheckBankPool)
CheckPayeeSlot(person, ts) == Mix(2, person, ts) % CheckPayees
CheckPayeeBank(person, ts) == CheckBankKey(CheckBankRankFor(person, CheckPayeeSlot(person, ts)))
CheckFractionOfSlot(y) == IF SlotShare <= 0 THEN 100 ELSE Lesser(100, (100 * CheckShare[y]) \div SlotShare)
CheckRouted(person, ts) == Mix(3, person, ts) % 100 < CheckFractionOfSlot(YearOf(ts))

\* checkBanksInUse
CheckBanksInUse(population) ==
  {CheckBankKey(CheckBankRankFor(p, slot)) : p \in 1 .. population, slot \in 0 .. CheckPayees - 1}

\* RemoteMerchantTable: external merchants that need no visit.
RemoteTable(cat) ==
  SelectSeq(Indices(cat), LAMBDA i : ~cat[i].internal /\ cat[i].weight > 0 /\ cat[i].footprint \in {"online", "national"})
\* pick: a few derived attempts at one that is open at the instant; a set of at
\* most one.
PickRemote(cat, person, ts) ==
  LET table == RemoteTable(cat)
      at(k) == table[1 + (Mix(4, person, ts + k) % Len(table))]
      hits == {k \in 0 .. RemoteAttempts - 1 : LiveAt(cat[at(k)], ts)}
  IN IF table = <<>> \/ hits = {} THEN {} ELSE {at(Least(hits))}

P2pPlatforms == {3900, 3901}
P2pPlatformFor(person) == 3900 + (Mix(5, person, 0) % 2)

\* homeAreaAt: the schedule's area at the instant.
HomeAreaAt(moves, p, ts) == AreaAt(moves[p], ts)
FuneralHomeFor(area, decedent) == 3500 + 10 * area + (Mix(6, decedent, area) % FuneralHomeCount[area])

\* funeralHomesInUse: those of the people who die in the window, where they died.
FuneralHomesInUse(tls, moves) ==
  {FuneralHomeFor(HomeAreaAt(moves, p, tls[p].death), p) : p \in {q \in DOMAIN tls : InWindow(tls[q].death)}}
=============================================================================
