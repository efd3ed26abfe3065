---------------------------- MODULE AccessInfra -----------------------------
(***************************************************************************)
(* AccessInfraStage::build: who holds which device and address, and when.  *)
(* A line is a chain of links that tiles the window; a person holds one or *)
(* more lines at once, may share a household line, and a ring shares one   *)
(* endpoint for a burst.  Attackers hold lines over their campaign,        *)
(* terminals and carrier addresses belong to nobody.                       *)
(*                                                                         *)
(* dr holds the draws of one world: deviceChains[p], ipChains[p] (for each *)
(* line its day counts, the first is the phase), addresses[p], sharesDevice*)
(* and sharesIp (the anchors' coins), peerCount, groupChain, groupAddress, *)
(* burst and offset of each ring, deviceCoins, ipCoins, ringAddress,       *)
(* operators, hosts, terminals and carrier.  Time is in minutes.           *)
(***************************************************************************)
EXTENDS Draws

(***************************************************************************)
(* The endpoints a row is attributed to: the devices and addresses people  *)
(* hold, with the interval each was held (entities/infra/tenure.hpp), the  *)
(* router that walks a person over them, the campaigns of the attackers,   *)
(* the terminals and carrier addresses nobody owns, and Factory::make,     *)
(* which stamps a row with all of these.                                   *)
(*                                                                         *)
(* An optional value is a set of at most one element.  A pool is a         *)
(* sequence of links [item, first, last], the parallel vectors of items    *)
(* and tenures zipped: the builders push both in the same statement, so    *)
(* the router's branch for vectors of different sizes, which only          *)
(* hand-built fixtures reach, is left out.  Randomness and hashes are      *)
(* parameters of the operators or constants.                               *)
(***************************************************************************)

CONSTANTS
  HomeUnit(_, _),        \* the HOME hash of <<pool, person>>, 0 .. 99
  OnPublic(_, _, _),     \* whether the USE hash of <<pool, person, ts>> is below the row share
  SlotHash(_, _),        \* the burner slot hash of <<sequence, device>>
  BucketLength,          \* AttackerInfra::bucketSeconds
  ExternallyInitiated    \* channels that are no session of the customer

AttackerBase == 1000     \* kAttackerOwnerIdBase
BurnerSlotBase == 1000   \* kBurnerSlotBase

(* ------------------------------- tenures ------------------------------- *)

Contains(link, ts) == link.first <= ts /\ ts < link.last
CoversSpan(link, ts, end) == Contains(link, ts) /\ link.last >= end
LiveIn(pool, ts) == {i \in DOMAIN pool : Contains(pool[i], ts)}
CoveringIn(pool, ts, end) == {i \in DOMAIN pool : CoversSpan(pool[i], ts, end)}

(* -------------------------------- Router ------------------------------- *)

Unanchored == 0

\* routeFromPool: stay while the current link is live, else succeed to the next
\* live link of a higher position, else wrap; switch > 0 is the coin and the
\* choice among the other links that are live.
Succeed(live, ahead, cur) == IF cur \in live THEN cur ELSE Least(IF ahead # {} THEN ahead ELSE live)
SwitchFrom(at, others, switch) ==
  IF others # {} /\ switch > 0 THEN Nth(others, (switch - 1) % Cardinality(others)) ELSE at
LinkAt(pool, i) == [item |-> {pool[i].item}, cur |-> i]
RouteFrom(pool, live, at, switch) == LinkAt(pool, SwitchFrom(at, live \ {at}, switch))
RouteAmong(pool, live, cur, switch) ==
  IF live = {} THEN [item |-> {}, cur |-> cur]
  ELSE RouteFrom(pool, live, Succeed(live, {i \in live : i > cur}, cur), switch)
RouteFromPool(pool, cur, ts, switch) == RouteAmong(pool, LiveIn(pool, ts), cur, switch)

SaltPick(pool, held, salt) ==
  IF held = {} THEN {} ELSE {pool[Nth(held, salt % Cardinality(held))].item}

\* (mutant: the link need only be live when the case starts)
LiveAtStart(pool, ts, end, salt) == SaltPick(pool, LiveIn(pool, ts), salt)

\* liveFromPool and AttackerInfra::coveringSpan: the salt-th of the links held
\* over the whole of [ts, end).  No draw, no state.
LiveFromPool(pool, ts, end, salt) == SaltPick(pool, CoveringIn(pool, ts, end), salt)

(* --------------------------- public endpoints -------------------------- *)
\* A pool is [lines, cdf]: each line is a pool of links, cdf the running share
\* of its reach in percent.

Active(pub) == pub.lines # <<>>
HomeLineFor(pub, name, p) ==
  LET below == {i \in DOMAIN pub.cdf : HomeUnit(name, p) < pub.cdf[i]}
  IN IF below # {} THEN Least(below) ELSE Len(pub.cdf)
LiveOn(line, ts) ==
  LET live == LiveIn(line, ts) IN IF live = {} THEN {} ELSE {line[Least(live)].item}
CoveringOn(line, from, to) ==
  LET held == {i \in DOMAIN line : Contains(line[i], from) /\ Contains(line[i], to - 1)}
  IN IF to <= from \/ held = {} THEN {} ELSE {line[Least(held)].item}
Resolve(pub, name, p, ts) ==
  IF Active(pub) /\ OnPublic(name, p, ts)
  THEN LiveOn(pub.lines[HomeLineFor(pub, name, p)], ts) ELSE {}
PublicDeviceForCase(pub, p, from, to) ==
  IF Active(pub) THEN CoveringOn(pub.lines[HomeLineFor(pub, "terminal", p)], from, to) ELSE {}

(* --------------------------- attacker campaigns ------------------------ *)
\* An operator is [first, last, weight, devices, ips].  index() files it under
\* every bucket its campaign overlaps.

LiveAt(op, ts) == op.first <= ts /\ ts < op.last
BucketFirst(ops) == Least({ops[i].first : i \in DOMAIN ops})
BucketCount(ops) ==
  LET last == CHOOSE x \in {ops[i].last : i \in DOMAIN ops} : \A i \in DOMAIN ops : ops[i].last <= x
      span == IF last - BucketFirst(ops) > 1 THEN last - BucketFirst(ops) ELSE 1
  IN (span + BucketLength - 1) \div BucketLength

InBucket(op, b, first, count) ==
  /\ Lesser((op.first - first) \div BucketLength, count - 1) <= b
  /\ b <= Lesser((op.last - 1 - first) \div BucketLength, count - 1)

\* The operators operatorAt walks over: those filed under the bucket of ts
\* whose campaign contains ts.
OperatorsIn(ops, ts, first, count) ==
  LET b == (ts - first) \div BucketLength
  IN IF ts < first \/ b >= count THEN {}
     ELSE {i \in DOMAIN ops : InBucket(ops[i], b, first, count) /\ LiveAt(ops[i], ts)}
OperatorsAt(ops, ts) ==
  IF ops = <<>> THEN {} ELSE OperatorsIn(ops, ts, BucketFirst(ops), BucketCount(ops))

\* operatorAt: the first whose cumulated weight passes u percent of the total.
WeightOf(ops, S) == Fold(LAMBDA t, i : t + (IF i \in S THEN ops[i].weight ELSE 0), 0, Indices(ops))
PassedAmong(ops, u, live) ==
  {i \in live : 100 * WeightOf(ops, {j \in live : j <= i}) > u * WeightOf(ops, live)}
FirstOf(S) == IF S = {} THEN {} ELSE {Least(S)}
OperatorAt(ops, u, ts) == FirstOf(PassedAmong(ops, u, OperatorsAt(ops, ts)))

DeviceAt(ops, i, ts, end, salt) == LiveFromPool(ops[i].devices, ts, end, salt)
IpAt(ops, i, ts, end, salt) == LiveFromPool(ops[i].ips, ts, end, salt)
\* hosts is the sorted vector compromisedHosts.
HostAt(hosts, salt) == IF hosts = <<>> THEN {} ELSE {hosts[1 + (salt % Len(hosts))]}

(* --------------------------- derived endpoints ------------------------- *)
\* A device is <<owner type, owner id, slot>>.

EndpointIp(device) == <<"exit", device>>
BurnerDeviceFrom(device, seq) == <<device[1], device[2], BurnerSlotBase + SlotHash(seq, device)>>
IsBurnerDevice(device) ==
  device[1] = "ring" /\ device[2] >= AttackerBase /\ device[3] >= BurnerSlotBase

(* ------------------------ transactions::Factory ------------------------ *)
\* net is the infrastructure the factory holds: owner, devices and ips (pools by
\* person), terminals, carrier (public pools), ringDevice and ringIp.

NoneResolved == [device |-> {}, ip |-> {}]

\* The shared infrastructure of a ring, each leg on a coin of its own.
RingInfra(net, draft, d) ==
  IF draft.ring = 0 THEN NoneResolved
  ELSE [device |-> IF d.ringDevice /\ draft.ring \in DOMAIN net.ringDevice
                   THEN {net.ringDevice[draft.ring]} ELSE {},
        ip |-> IF d.ringIp /\ draft.ring \in DOMAIN net.ringIp
               THEN {net.ringIp[draft.ring]} ELSE {}]

\* The router's calls for the legs the ring left open, at the row's own time.
Leg(taken, pool, at, ts, switch) ==
  IF taken = {} THEN RouteFromPool(pool, at, ts, switch) ELSE [item |-> taken, cur |-> at]
Walked(cur, p, dev, ip) ==
  [device |-> dev.item, ip |-> ip.item, cur |-> [cur EXCEPT ![p] = [device |-> dev.cur, ip |-> ip.cur]]]
Walk(net, cur, draft, d, ring) ==
  LET p == net.owner[draft.src]
  IN Walked(cur, p, Leg(ring.device, net.devices[p], cur[p].device, draft.ts, d.switch),
            Leg(ring.ip, net.ips[p], cur[p].ip, draft.ts, d.switch))

\* The endpoints a person passes through: a terminal overrides both legs or
\* neither, and its address travels with it; a carrier address overrides only
\* the address, and yields to the two others.
Passing(term, nat) == [device |-> term, ip |-> IF term # {} THEN {EndpointIp(x) : x \in term} ELSE nat]
PassThrough(net, draft, ring) ==
  LET p == net.owner[draft.src]
  IN Passing(IF ring = NoneResolved THEN Resolve(net.terminals, "terminal", p, draft.ts) ELSE {},
             IF ring.ip = {} THEN Resolve(net.carrier, "carrier", p, draft.ts) ELSE {})

Stamped(draft, device, ip) == draft @@ [device |-> device, ip |-> ip]
Routed(net, draft, ring) ==
  draft.chan \notin ExternallyInitiated /\ draft.src \in DOMAIN net.owner
    /\ (ring.device = {} \/ ring.ip = {})

\* make
Made(draft, own, pass) ==
  [row |-> Stamped(draft, IF pass.device # {} THEN pass.device ELSE own.device,
                   IF pass.ip # {} THEN pass.ip ELSE own.ip),
   cur |-> own.cur]
MakeFor(net, cur, draft, d, ring) ==
  IF ~Routed(net, draft, ring) THEN [row |-> Stamped(draft, ring.device, ring.ip), cur |-> cur]
  ELSE Made(draft, Walk(net, cur, draft, d, ring), PassThrough(net, draft, ring))
Make(net, cur, draft, d) == MakeFor(net, cur, draft, d, RingInfra(net, draft, d))

\* The rows of a generator, made one after the other.
MakeAll(net, cur, drafts, d) ==
  LET push(rows, made) == [rows |-> Append(rows, made.row), cur |-> made.cur]
  IN Fold(LAMBDA acc, x : push(acc.rows, Make(net, acc.cur, x, d)), [rows |-> <<>>, cur |-> cur], drafts)

-----------------------------------------------------------------------------

CONSTANTS NumPeople, WindowStart, WindowDays,
          FraudPeople,         \* Roster flag fraud
          RingTopology,        \* Topology::rings, a sequence of [id, members]
          SharedGroupMaxExtra, \* rules of the device and address assignment
          MinLines, PeoplePerLine,
          MaxOperators

People == 1 .. NumPeople
Day == 1440
WindowEnd == WindowStart + WindowDays * Day

(* ------------------------------- chains -------------------------------- *)

ChainCuts(start, days, lengths) ==
  LET end == start + days * Day
      cut[i \in 0 .. days] ==
        IF i = 0 THEN start
        ELSE Lesser(end, cut[i - 1] + Greater(1, lengths[1 + ((i - 1) % Len(lengths))]) * Day)
  IN cut

\* sampleChain: consecutive tenures that partition the days, the last one cut
\* off at the end.
SampleChain(start, days, lengths) ==
  LET cut == ChainCuts(start, days, lengths)
      n == Least({i \in 0 .. days : cut[i] = start + days * Day})
  IN IF days <= 0 THEN <<>> ELSE [i \in 1 .. n |-> [first |-> cut[i - 1], last |-> cut[i]]]

\* The chains of several lines, one after the other.
Lines(start, days, chains) ==
  Concat(LAMBDA lengths : SampleChain(start, days, lengths), chains)
Named(links, item(_)) == [i \in DOMAIN links |-> links[i] @@ [item |-> item(i)]]

(* --------------------------- the ring plans ---------------------------- *)

\* sampleWindow: a burst of some days, cut to the window, at some offset.
SampleWindow(burst, offset) ==
  LET length == Lesser(WindowDays, Greater(1, burst))
      start == Lesser(offset, Greater(0, WindowDays - length))
  IN [first |-> WindowStart + start * Day, last |-> WindowStart + (start + length - 1) * Day]

\* sampleMembers: the members whose coin says so, and two of them when it says
\* so of fewer.
SampleMembers(members, coins) ==
  LET chosen == SelectSeq(members, LAMBDA p : p \in coins)
      least == Lesser(2, Len(members))
  IN IF Len(chosen) >= least THEN chosen ELSE SubSeq(members, 1, least)

RingPlans(dr) ==
  [r \in DOMAIN RingTopology |->
     SampleWindow(dr.burst[r], dr.offset[r]) @@
     [id |-> RingTopology[r].id,
      deviceMembers |-> SampleMembers(RingTopology[r].members, dr.deviceCoins),
      ipMembers |-> SampleMembers(RingTopology[r].members, dr.ipCoins)]]

RingLink(plan, item) == [item |-> item, first |-> plan.first, last |-> plan.last + Day]

(* --------------------------- household groups -------------------------- *)

LegitPool == SelectSeq([p \in People |-> p], LAMBDA p : p \notin FraudPeople)
SwapDelete(pool, x) ==
  LET at == CHOOSE i \in DOMAIN pool : pool[i] = x
  IN SubSeq([pool EXCEPT ![at] = pool[Len(pool)]], 1, Len(pool) - 1)
In(x, s) == \E i \in DOMAIN s : s[i] = x

\* One anchor of the household pass: leave the pool, take one or more peers out
\* of it, and share a line with them.
GroupStep(st, anchor, shares, peerCount) ==
  LET rest == SwapDelete(st.left, anchor)
      extra == Lesser(peerCount, Lesser(Len(rest), SharedGroupMaxExtra))
      peers == SubSeq(rest, 1, extra)
  IN IF ~In(anchor, st.left) \/ anchor \notin shares THEN st
     ELSE IF rest = <<>> THEN [st EXCEPT !.left = rest]
     ELSE [left |-> Fold(SwapDelete, rest, peers), groups |-> Append(st.groups, <<anchor>> \o peers)]

Households(shares, peerCount) ==
  Fold(LAMBDA st, p : GroupStep(st, p, shares, peerCount),
       [left |-> LegitPool, groups |-> <<>>], LegitPool).groups

(* ------------------------------- devices ------------------------------- *)

PersonDevices(dr, p) ==
  Named(Lines(WindowStart, WindowDays, dr.deviceChains[p]), LAMBDA i : <<"person", p, i>>)
GroupDevices(dr, g) ==
  Named(SampleChain(WindowStart, WindowDays, dr.groupChain), LAMBDA i : <<"shared", g, i>>)

\* devices::AssignmentRules::build: the person's lines, then the household line,
\* then the ring's device.
DevicesOf(dr, p) ==
  LET groups == Households(dr.sharesDevice, dr.peerCount)
      plans == RingPlans(dr)
  IN PersonDevices(dr, p)
     \o Concat(LAMBDA g : IF In(p, groups[g]) THEN GroupDevices(dr, g) ELSE <<>>, Indices(groups))
     \o Concat(LAMBDA r : IF In(p, plans[r].deviceMembers)
                          THEN <<RingLink(plans[r], <<"ring", plans[r].id, 0>>)>> ELSE <<>>,
               Indices(plans))

RingDevice(dr) ==
  [id \in {RingTopology[r].id : r \in DOMAIN RingTopology} |-> <<"ring", id, 0>>]

(* ------------------------------ addresses ------------------------------ *)

PersonIps(dr, p) ==
  Named(Lines(WindowStart, WindowDays, dr.ipChains[p]),
        LAMBDA i : dr.addresses[p][1 + ((i - 1) % Len(dr.addresses[p]))])
GroupIps(dr, g) ==
  Named(SampleChain(WindowStart, WindowDays, dr.groupChain), LAMBDA i : dr.groupAddress)

IpsOf(dr, p) ==
  LET groups == Households(dr.sharesIp, dr.peerCount)
      plans == RingPlans(dr)
  IN PersonIps(dr, p)
     \o Concat(LAMBDA g : IF In(p, groups[g]) THEN GroupIps(dr, g) ELSE <<>>, Indices(groups))
     \o Concat(LAMBDA r : IF In(p, plans[r].ipMembers)
                          THEN <<RingLink(plans[r], dr.ringAddress[r])>> ELSE <<>>, Indices(plans))

RingIp(dr) ==
  [id \in {RingTopology[r].id : r \in DOMAIN RingTopology} |->
     dr.ringAddress[CHOOSE r \in DOMAIN RingTopology : RingTopology[r].id = id]]

\* registerIfNew: the first registration of an address keeps its record.
RegisterIfNew(records, ip) == IF ip \in DOMAIN records THEN records ELSE records @@ (ip :> FALSE)

\* A ring's address is blacklisted, also when somebody else drew it before.
RegisterRingIp(records, ip) == (ip :> TRUE) @@ records

\* The address records, in the order of the build: people, households, rings,
\* carrier addresses.
IpRecords(dr) ==
  LET items(pool) == [i \in DOMAIN pool |-> pool[i].item]
      people == Fold(RegisterIfNew, <<>>, Concat(LAMBDA p : items(PersonIps(dr, p)), Indices(dr.addresses)))
      shared == IF Households(dr.sharesIp, dr.peerCount) = <<>> THEN people
                ELSE RegisterIfNew(people, dr.groupAddress)
      rings == Fold(RegisterRingIp, shared, dr.ringAddress)
  IN Fold(RegisterIfNew, rings, dr.carrierAddresses)

(* --------------------------- public endpoints -------------------------- *)

LineCountFor == IF NumPeople = 0 THEN 0
                ELSE Greater((NumPeople + PeoplePerLine \div 2) \div PeoplePerLine, MinLines)

\* buildPublicPool: a chain for every line, and the running share of the lines'
\* weights; the last share is set to the whole.  minted[l, k] is the k-th item of
\* line l.
BuildPublicPool(weights, lengths, minted) ==
  LET total == Fold(LAMBDA t, w : t + w, 0, SubSeq(weights, 1, LineCountFor))
      running(i) == Fold(LAMBDA t, w : t + w, 0, SubSeq(weights, 1, i))
  IN [lines |-> [l \in 1 .. LineCountFor |->
                   Named(SampleChain(WindowStart, WindowDays, lengths), LAMBDA k : minted[l, k])],
      cdf |-> [l \in 1 .. LineCountFor |->
                 IF l = LineCountFor THEN 100 ELSE (100 * running(l)) \div total]]

Terminals(dr) ==
  BuildPublicPool(dr.weights, dr.publicChain,
                  [l \in 1 .. LineCountFor, k \in 1 .. WindowDays |-> <<"terminal", l, k>>])
CarrierNat(dr) ==
  BuildPublicPool(dr.weights, dr.publicChain,
                  [l \in 1 .. LineCountFor, k \in 1 .. WindowDays |->
                     dr.carrierAddresses[1 + ((l + k) % Len(dr.carrierAddresses))]])

(* ------------------------------ attackers ------------------------------ *)

\* operatorCountFor, with the two sizing laws drawn.
OperatorCountFor(byPopulation, byCoverage) ==
  IF NumPeople = 0 \/ WindowDays <= 0 THEN 0
  ELSE Lesser(MaxOperators, Greater(1, Greater(byPopulation, byCoverage)))

\* One operator of attackers::AssignmentRules::build: a campaign that may start
\* before the window, clipped to it, with lines that tile what is left.
Operator(i, o) ==
  LET raw == WindowStart + o.start * Day
      first == Greater(WindowStart, raw)
      last == Lesser(WindowEnd, raw + o.length * Day)
      usable == Greater(1, (last - first) \div Day)
  IN [first |-> first, last |-> Greater(first + 1, last), weight |-> o.weight,
      devices |-> Named(Lines(first, usable, o.deviceChains), LAMBDA k : <<"ring", AttackerBase + i, k - 1>>),
      ips |-> Named(Lines(first, usable, o.ipChains), LAMBDA k : o.addresses[1 + (k % Len(o.addresses))])]

Operators(dr) ==
  [i \in 1 .. OperatorCountFor(Len(dr.operators), 1) |-> Operator(i, dr.operators[i])]

(* --------------------------- AccessInfraStage -------------------------- *)

\* buildOwnerMap: the accounts with an owner, and the cards.
BuildOwnerMap(accounts, cards) == cards @@ accounts

BuildAccessInfra(dr, accounts, cards) ==
  [owner |-> BuildOwnerMap(accounts, cards),
   devices |-> [p \in People |-> DevicesOf(dr, p)],
   ips |-> [p \in People |-> IpsOf(dr, p)],
   terminals |-> Terminals(dr), carrier |-> CarrierNat(dr),
   ringDevice |-> RingDevice(dr), ringIp |-> RingIp(dr), records |-> IpRecords(dr),
   plans |-> RingPlans(dr), operators |-> Operators(dr), hosts |-> dr.hosts]

NoAnchors == [p \in People |-> [device |-> Unanchored, ip |-> Unanchored]]
=============================================================================
