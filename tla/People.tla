------------------------------- MODULE People -------------------------------
(***************************************************************************)
(* The people of the world: the course of their lives, where they live,    *)
(* and who is related to whom.                                             *)
(***************************************************************************)
EXTENDS Calendar

(***************************************************************************)
(* The lives of the customers (synth/personas): when each joins, is born,  *)
(* begins to work, closes a business, claims retirement and dies.  A draw  *)
(* r of a person holds the outcomes of its lanes: claim (the band of the   *)
(* claiming age), jitter, workAge, residual, short and long (the settling  *)
(* days), years and frac of the lifespan, join.                            *)
(***************************************************************************)

CONSTANTS GrowthRate(_),       \* population growth of a year, per ten thousand
          SettlementDays       \* pii::kSettlementDays

(* ------------------------------ join cohort ---------------------------- *)

DayWeights == [n \in 1 .. WindowDays |-> GrowthRate(YearOf(WindowStart + (n - 1) * Day))]
Cumulated(ws) == [n \in DOMAIN ws |-> Fold(LAMBDA t, x : t + x, 0, SubSeq(ws, 1, n))]
Total(ws) == Fold(LAMBDA t, x : t + x, 0, ws)

\* joinerCount, rounded to the nearest.
JoinerCount(population) ==
  Lesser(population, (2 * population * Total(DayWeights) + 3652425) \div (2 * 3652425))

\* deriveJoinDays: the last ids join, on a day drawn by the weights (u in percent).
JoinDays(population, us) ==
  LET first == population - JoinerCount(population) + 1
      cdf == Cumulated(DayWeights)
      total == Total(DayWeights)
      dayOf(u) == IF total > 0 THEN Cardinality({n \in DOMAIN cdf : 100 * cdf[n] <= u * total})
                  ELSE (u * WindowDays) \div 100
  IN [p \in 1 .. population |-> IF p < first THEN 0 ELSE Lesser(dayOf(us[p]), WindowDays - 1)]

(* ------------------------------ transitions ---------------------------- *)

\* fraMonths: the statutory full retirement age by birth year.
FraMonths(y) ==
  CASE y <= 1937 -> 780 [] y \in 1938 .. 1942 -> 780 + 2 * (y - 1937) [] y \in 1943 .. 1954 -> 792
    [] y \in 1955 .. 1959 -> 792 + 2 * (y - 1954) [] OTHER -> 804

\* claimAgeMonths: one of the five bands; f, in percent, places the two that are
\* uniform.
ClaimAgeMonths(band, f, fra) ==
  CASE band = "early" -> 744
    [] band = "middle" -> 756 + Lesser(fra - 757, (f * (fra - 756)) \div 100)
    [] band = "full" -> fra
    [] band = "late" -> fra + 1 + Lesser(838 - fra, (f * (839 - fra)) \div 100)
    [] band = "last" -> 840

AtAgeMonths(dob, months) ==
  LET total == 12 * dob.year + dob.month - 1 + months
  IN MakeTime(total \div 12, 1 + (total % 12), Lesser(dob.day, 28))

\* settled: an event whose drawn date contradicts the seed state happens some
\* days after the anchor.
Settled(drawn, anchor, days) == IF drawn > anchor THEN drawn ELSE anchor + days * Day

(* ------------------------------- lifespan ------------------------------ *)

MaxAgeYears == 120
AgeYears(dob, at) == (at - MakeTime(dob.year, dob.month, dob.day)) \div (Day * 365)

\* remainingYears: the walk ends in some year before the ceiling, or at it.
RemainingYears(age, years) == Lesser(years, Greater(0, MaxAgeYears - age))
Lifespan(dob, anchor, r) ==
  LET birth == MakeTime(dob.year, dob.month, dob.day)
      years == RemainingYears(Greater(0, AgeYears(dob, anchor)), r.years)
  IN Greater(anchor + Day, Greater(anchor, birth) + Day * (365 * years + r.frac))

(* ------------------------------- timelines ----------------------------- *)

DestinationOf(seed, r) ==
  IF seed \in {"student", "smallBusiness"} THEN IF r.salaried THEN "salaried" ELSE "freelancer" ELSE seed

\* derive
Derive(seed, dob, anchor, r) ==
  LET claim == AtAgeMonths(dob, ClaimAgeMonths(r.claim, r.f, FraMonths(dob.year))) + r.jitter * Day
      work == Settled(AtAgeMonths(dob, 12 * r.workAge), anchor, r.short)
      retirement ==
        CASE seed = "highNetWorth" -> AtAgeMonths(dob, 1800)
          [] seed = "retiree" -> Lesser(claim, anchor)
          [] seed = "student" -> Greater(claim, work + 365 * Day)
          [] OTHER -> Settled(claim, anchor, r.long)
  IN [seed |-> seed, working |-> DestinationOf(seed, r), workStart |-> work, retirement |-> retirement,
      businessEnd |-> Lesser(anchor + r.residual * Day, retirement),
      anchor |-> anchor, dob |-> dob, death |-> Lifespan(dob, anchor, r)]

PersonaAt(tl, at) ==
  IF tl.seed \in {"highNetWorth", "retiree"} THEN tl.seed
  ELSE IF at >= tl.retirement THEN "retiree"
  ELSE IF tl.seed = "student" /\ at < tl.workStart THEN "student"
  ELSE IF tl.seed = "smallBusiness" /\ at < tl.businessEnd THEN "smallBusiness"
  ELSE tl.working

AliveAt(tl, at) == at < tl.death
BeginningOfTime == -100000000
PayrollStart(tl) ==
  CASE tl.seed = "student" -> tl.workStart [] tl.seed = "smallBusiness" -> tl.businessEnd
    [] OTHER -> BeginningOfTime

\* closeEpochsOf and the membership of a person.
ClosesAt(tl) == tl.death + SettlementDays * Day
JoinsAt(tl) == tl.anchor

\* deriveAll: a person is anchored at the window start or at the join date.
DeriveAll(seeds, dobs, rs) ==
  LET days == JoinDays(Len(seeds), [p \in DOMAIN rs |-> rs[p].join])
  IN [p \in DOMAIN seeds |-> Derive(seeds[p], dobs[p], WindowStart + days[p] * Day, rs[p])]

-----------------------------------------------------------------------------

(***************************************************************************)
(* Where people live: the home area of a household at the window start     *)
(* (synth/pii), the moves of its members during the window                 *)
(* (synth/pii/relocation_build), and the area at an instant.  An area is   *)
(* an index of the catalogue; NoArea stands for none.                      *)
(***************************************************************************)

CONSTANTS
  Areas,            \* the catalogue: country, state and whether anybody may live there
  CountryOf         \* the country of each person

NoArea == 0

(* ------------------------------- sampler ------------------------------- *)

\* ResidenceSampler: the residential areas of a country and of a state, in the
\* order of the catalogue.  An area without a state is in no state's pool.
ByCountry(country) ==
  SelectSeq(Indices(Areas), LAMBDA a : Areas[a].residential /\ Areas[a].country = country)
ByState(country, state) ==
  SelectSeq(ByCountry(country), LAMBDA a : state # "" /\ Areas[a].state = state)

SampleResidence(d, k, country) ==
  IF ByCountry(country) = <<>> THEN NoArea ELSE PickOne(d, k, ByCountry(country))

PickExcluding(d, k, pool, exclude) ==
  LET others == SelectSeq(pool, LAMBDA a : a # exclude)
  IN IF others = <<>> THEN NoArea ELSE PickOne(d, k, others)

\* sampleExcluding: the state's pool if it has another area, else the country's.
SampleExcluding(d, k, country, state, exclude) ==
  LET pool == ByState(country, state)
  IN IF Len(pool) > 1 /\ PickExcluding(d, k, pool, exclude) # NoArea THEN PickExcluding(d, k, pool, exclude)
     ELSE PickExcluding(d, k, ByCountry(country), exclude)

(* -------------------------------- homes -------------------------------- *)

HouseholdIndex(part, p) == Least({h \in DOMAIN part : \E i \in DOMAIN part[h] : part[h][i] = p})

\* homeAreaFor: a draw of the household, over the areas of the person's country.
HomeAreaFor(d, part, p) == SampleResidence(d, HouseholdIndex(part, p), CountryOf[p])

\* A year's uniforms of a group: whether it moves, on which day, within its state.
DaysInYear(y) == YearStart(y + 1) - YearStart(y)
MoveOf(d, lane, y) ==
  [moves |-> Coin(d, lane + y), when |-> Day * (YearStart(y) + UniformInt(d, lane + y, 0, DaysInYear(y))),
   sameState |-> Coin(d, lane)]

\* One year of a group: a move strictly inside the window, to another area.
MoveStep(d, lane, country, tenures, y) ==
  LET current == tenures[Len(tenures)].area
      move == MoveOf(d, lane, y)
      state == IF move.sameState /\ current # NoArea THEN Areas[current].state ELSE ""
      to == SampleExcluding(d, lane + y, country, state, current)
  IN IF ~move.moves \/ move.when <= WindowStart \/ move.when >= WindowEnd \/ to \in {NoArea, current} THEN tenures
     ELSE Append(tenures, [from |-> move.when, area |-> to])

\* The lane of a group: its household and the area it starts from.
GroupLane(part, homes, p) == 7 * HouseholdIndex(part, p) + homes[p]

\* The first person of a group speaks for its country.
Representative(part, homes, p) ==
  Least({q \in DOMAIN homes : HouseholdIndex(part, q) = HouseholdIndex(part, p) /\ homes[q] = homes[p]})

\* build: the tenures of every person.
Relocations(d, part, homes) ==
  LET first == YearOf(WindowStart)
      years == [i \in 1 .. YearOf(WindowEnd - Day) - first + 1 |-> first + i - 1]
      of(p) == Fold(LAMBDA ts, y : MoveStep(d, GroupLane(part, homes, p), CountryOf[Representative(part, homes, p)], ts, y),
                    <<[from |-> WindowStart, area |-> homes[p]]>>, years)
  IN [p \in DOMAIN homes |-> of(p)]

\* Schedule::areaAt: the last tenure that began, the first one before it began.
AreaAt(tenures, ts) ==
  tenures[Greater(1, Cardinality({i \in DOMAIN tenures : tenures[i].from <= ts}))].area
SnapshotAt(moves, ts) == [p \in DOMAIN moves |-> AreaAt(moves[p], ts)]
AllAreas(moves) == UNION {{moves[p][i].area : i \in DOMAIN moves[p]} : p \in DOMAIN moves}

-----------------------------------------------------------------------------

(***************************************************************************)
(* Who is related to whom (relationships/family) and who knows whom        *)
(* (relationships/social).  personas is a sequence: the seed persona of    *)
(* each person.  A missing relative is the empty set or sequence.          *)
(***************************************************************************)

IsStudent(t) == t = "student"
IsRetired(t) == t = "retiree"
CanSupport(t) == t \in {"salaried", "freelancer", "smallBusiness", "highNetWorth"}
MaxSize == 6

(* ------------------------------- households ---------------------------- *)

Everyone(n) == [p \in 1 .. n |-> p]

\* shuffleIdentityPermutation: Fisher and Yates from the back.
Shuffled(d, n) ==
  Fold(LAMBDA s, k : LET i == n + 1 - k
                         j == 1 + UniformInt(d, i, 0, i)
                     IN [s EXCEPT ![i] = s[j], ![j] = s[i]],
       Everyone(n), [k \in 1 .. n - 1 |-> k])

DrawHouseholdSize(d, k) == IF Coin(d, k) THEN 1 ELSE UniformInt(d, k, 2, MaxSize + 1)

\* partition: blocks of the shuffled people, the last one cut short.
Partition(d, n) ==
  LET order == Shuffled(d, n)
      seat(hs, k) ==
        LET cursor == Fold(LAMBDA t, h : t + Len(h), 0, hs)
            take == Lesser(DrawHouseholdSize(d, k), n - cursor)
        IN IF cursor = n THEN hs ELSE Append(hs, SubSeq(order, cursor + 1, cursor + take))
  IN Fold(seat, <<>>, Everyone(n))
HouseholdOf(part, p) == part[Least({h \in DOMAIN part : \E i \in DOMAIN part[h] : part[h][i] = p})]

(* ---------------------------- spouses, parents ------------------------- *)

Adults(members, personas) == SelectSeq(members, LAMBDA p : ~IsStudent(personas[p]))
Students(members, personas) == SelectSeq(members, LAMBDA p : IsStudent(personas[p]))

\* assignSpouses: at most one couple in a household.
AssignSpouses(d, part, personas) ==
  LET couple(h) == LET adults == Adults(part[h], personas)
                   IN IF Len(adults) >= 2 /\ Coin(d, h + 1) THEN PickK(d, adults, 2) ELSE <<>>
      seat(f, h) == LET c == couple(h)
                    IN IF c = <<>> THEN f ELSE [f EXCEPT ![c[1]] = {c[2]}, ![c[2]] = {c[1]}]
  IN Fold(seat, [p \in DOMAIN personas |-> {}], Indices(part))

\* collectGlobalAdults
GlobalAdults(personas) ==
  LET adults == Adults(Everyone(Len(personas)), personas)
  IN IF adults = <<>> THEN Everyone(Len(personas)) ELSE adults

\* assignFor and seat: the household's adults before all adults, one or two of them.
ParentsFor(d, student, local, global) ==
  LET pool == IF local # <<>> /\ Coin(d, student + 1) THEN local ELSE global
      count == IF Len(pool) >= 2 /\ Coin(d, student) THEN 2 ELSE 1
  IN IF Coin(d, student) THEN PickK(d, pool, count) ELSE <<>>
AssignParents(d, part, personas) ==
  LET global == GlobalAdults(personas)
      seat(f, s) == LET parents == ParentsFor(d, s, Adults(HouseholdOf(part, s), personas), global)
                    IN [parents |-> [f.parents EXCEPT ![s] = parents],
                        children |-> [p \in DOMAIN personas |->
                          IF \E i \in DOMAIN parents : parents[i] = p THEN Append(f.children[p], s) ELSE f.children[p]]]
  IN Fold(seat, [parents |-> [p \in DOMAIN personas |-> <<>>], children |-> [p \in DOMAIN personas |-> <<>>]],
          Concat(LAMBDA members : Students(members, personas), part))

(* -------------------------------- support ------------------------------ *)

SampleSupporterCount(d, k) == UniformInt(d, k, 1, 4)

\* collectResidentSupporters, collectEligible, chooseSupporters
ChooseSupporters(d, part, personas, retiree) ==
  LET able(s) == SelectSeq(s, LAMBDA p : p # retiree /\ CanSupport(personas[p]))
      residents == able(HouseholdOf(part, retiree))
      eligible == IF residents # <<>> /\ Coin(d, retiree + 1) THEN residents ELSE able(Everyone(Len(personas)))
  IN IF ~Coin(d, retiree) \/ eligible = <<>> THEN <<>> ELSE PickK(d, eligible, SampleSupporterCount(d, retiree))

Support(ties, retiree, chosen) ==
  [supporting |-> [ties.supporting EXCEPT ![retiree] = chosen],
   supported |-> [p \in DOMAIN ties.supported |->
                    IF \E i \in DOMAIN chosen : chosen[i] = p THEN Append(ties.supported[p], retiree)
                    ELSE ties.supported[p]]]

\* buildSupportTies: a retiree shares the supporters of a retired spouse, or has its own.
BuildSupportTies(d, part, spouse, personas) ==
  LET donors(ties, r) == {s \in spouse[r] : IsRetired(personas[s]) /\ ties.supporting[s] # <<>>}
      step(ties, r) ==
        IF donors(ties, r) # {} /\ Coin(d, r + 1) THEN Support(ties, r, ties.supporting[The(donors(ties, r))])
        ELSE LET chosen == ChooseSupporters(d, part, personas, r)
             IN IF chosen = <<>> THEN ties ELSE Support(ties, r, chosen)
      none == [p \in DOMAIN personas |-> <<>>]
  IN Fold(step, [supporting |-> none, supported |-> none],
          SelectSeq(Everyone(Len(personas)), LAMBDA p : IsRetired(personas[p])))

\* build and fold
FamilyOf(d, personas, part, spouse) ==
  [households |-> part, spouse |-> spouse] @@ AssignParents(d, part, personas)
    @@ BuildSupportTies(d, part, spouse, personas)
FamilyIn(d, personas, part) == FamilyOf(d, personas, part, AssignSpouses(d, part, personas))
FamilyGraph(d, personas) == FamilyIn(d, personas, Partition(d, Len(personas)))

(* -------------------------------- contacts ----------------------------- *)

\* buildCommunities: blocks of consecutive people, bounds being the smallest
\* and the largest size.
Communities(d, n, bounds) ==
  LET block(bs, k) ==
        LET cursor == Fold(LAMBDA t, b : t + Len(b), 0, bs)
            take == Lesser(UniformInt(d, k, bounds[1], bounds[2] + 1), n - cursor)
        IN IF cursor = n THEN bs ELSE Append(bs, [i \in 1 .. take |-> cursor + i])
  IN Fold(block, <<>>, Everyone(n))

FallbackOther(p, n) == IF n <= 1 THEN p ELSE 1 + (p % n)

\* drawLocal, drawGlobal and drawCross: what the alias tables gave, the tries that
\* hit the person itself or its own block used up.
DrawLocal(d, k, p, block, n) ==
  LET others == SelectSeq(block, LAMBDA q : q # p)
  IN IF Len(block) <= 1 THEN FallbackOther(p, n) ELSE PickOne(d, k, others)
DrawGlobal(d, k, p, n) ==
  IF n <= 1 THEN p ELSE IF Coin(d, k) THEN FallbackOther(p, n)
  ELSE PickOne(d, k, SelectSeq(Everyone(n), LAMBDA q : q # p))
DrawCross(d, k, p, block, n) ==
  LET strangers == SelectSeq(Everyone(n), LAMBDA q : \A i \in DOMAIN block : block[i] # q)
  IN IF strangers = <<>> THEN DrawGlobal(d, k, p, n) ELSE PickOne(d, k, strangers)
DrawCandidate(d, k, p, block, n) ==
  IF Len(block) > 1 /\ Coin(d, k) THEN DrawLocal(d, k, p, block, n)
  ELSE IF n > Len(block) /\ Coin(d, k + 1) THEN DrawCross(d, k, p, block, n) ELSE DrawGlobal(d, k, p, n)

\* The candidates of a walk that are new, up to a number.
TakeUnique(p, wanted, drawn, walk) ==
  Fold(LAMBDA out, q : IF Len(out) >= wanted \/ q = p \/ \E i \in DOMAIN out : out[i] = q THEN out ELSE Append(out, q),
       drawn, walk)

\* fillRemainingUnique: round the population by a stride, then one by one.
FillRemainingUnique(p, wanted, n, drawn) ==
  LET stride == LET s == (2 * p + 1) % n IN IF s = 0 THEN 1 ELSE s
      strided == [step \in 1 .. n - 1 |-> 1 + ((p - 1 + step * stride) % n)]
      nearby == [step \in 1 .. n - 1 |-> 1 + ((p - 1 + step) % n)]
  IN TakeUnique(p, wanted, drawn, strided \o nearby)

\* drawUnique
DrawUnique(d, p, desired, blocks, n) ==
  LET wanted == Lesser(desired, n - 1)
      block == blocks[Least({b \in DOMAIN blocks : \E i \in DOMAIN blocks[b] : blocks[b][i] = p})]
      tries == [k \in 1 .. 3 |-> DrawCandidate(d, k + p, p, block, n)]
  IN IF n = 1 THEN <<p>> ELSE FillRemainingUnique(p, wanted, n, TakeUnique(p, wanted, <<>>, tries))

\* baseUniqueCount and ContactRowBuilder: a row of `degree` slots over the unique ones.
BaseUniqueCount(degree) == Greater(1, Lesser(degree, Greater(3, (degree + 1) \div 2)))
ContactRow(d, p, degree, blocks, n) ==
  LET uniques == DrawUnique(d, p, Lesser(degree, BaseUniqueCount(degree)), blocks, n)
  IN [slot \in 1 .. degree |-> PickOne(d, slot, uniques)]
=============================================================================
