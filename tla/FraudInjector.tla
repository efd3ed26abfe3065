--------------------------- MODULE FraudInjector ---------------------------
(***************************************************************************)
(* Injector::inject as a machine, behind the rows of the customers that    *)
(* share its router: cover rows for every ring, then the playbook of every *)
(* ring one phase at a time, then the cases.  batch holds the rows of the  *)
(* last step, in the order they were pushed; what came before lives on in  *)
(* the counters and in the anchors of the router.                          *)
(*                                                                         *)
(* A case is emitted when it is planned, where the code plans all of them  *)
(* first: the planner reads nothing that emission writes.                  *)
(***************************************************************************)
EXTENDS FraudCases

CONSTANTS Draws,          \* the draws of each world
          Accounts,       \* account -> owner
          Cards,          \* card -> owner
          Shells,         \* people whose account is a shell
          RingCast,       \* the rings: [id, frauds, mules, victims]
          MonthStarts,
          Profiles,       \* realized base count and the two target percentages
          LegitDrafts, LegitDraws, CamoDraws, RingDraws(_), Playbooks(_), CaseDraws, EmitDraws,
          MaxLegitRows,   \* bound on the customer rows before the injection
          MaxBoundaryResamples,
          Nets,           \* the infrastructure of each world
          RingCasts       \* buildRingPlans: the plan of each ring

\* The two stages that run before the injector have built their products.
ASSUME StagesBuilt ==
  /\ Nets = [x \in DOMAIN Draws |-> BuildAccessInfra(Draws[x], Accounts, Cards)]
  /\ RingCasts = [r \in DOMAIN RingCast |-> BuildPlan(RingCast[r], PrimaryOf, Shells, DiedAt)]

VARIABLES w,         \* the world
          pc,
          profile,
          cur,       \* the router's anchors
          ring,      \* the ring in hand
          phases,    \* what is left of its playbook
          money,     \* counters: base, camo, illicit, target, perRing, ringLeft, txn, left, emitted, legit
          next,      \* the next chain id
          seq, rejects,
          plan,      \* the case in hand
          batch

vars == <<w, pc, profile, cur, ring, phases, money, next, seq, rejects, plan, batch>>

net == Nets[w]
Excluded == RingAccounts(RingCasts)

(* ------------------------------- budgets ------------------------------- *)

RingScheduleGuardDays == 22

\* ringWindow: the window of a ring ends the guard's days before the first
\* death among its participants.
RingWindow(aliveEnd) ==
  [start |-> WindowStart,
   days |-> IF aliveEnd >= WindowEnd THEN WindowDays
            ELSE Greater(1, Lesser(WindowDays,
                   Greater(0, aliveEnd - WindowStart) \div Day - RingScheduleGuardDays))]

RingBudget(left, ringsLeft) == Lesser(left, Greater(1, left \div Greater(1, ringsLeft)))

PhaseBudget(left, perRing, percent, final) ==
  IF left <= 0 THEN 0
  ELSE IF final THEN left
  ELSE IF percent <= 0 THEN 0
  ELSE Greater(1, Lesser(left, (perRing * percent + 99) \div 100))

(* -------------------------------- steps -------------------------------- *)

NoMoney == [base |-> 0, camo |-> 0, illicit |-> 0, target |-> 0, perRing |-> 0, ringLeft |-> 0,
            txn |-> 0, left |-> 0, emitted |-> 0, legit |-> 0]

Init ==
  /\ w \in DOMAIN Draws
  /\ pc = "legit" /\ profile = {} /\ cur = NoAnchors
  /\ ring = 0 /\ phases = <<>> /\ money = NoMoney /\ next = 0
  /\ seq = 0 /\ rejects = 0 /\ plan = {} /\ batch = <<>>

\* The rows of a step, and where the router stands after them.
Push(made) == batch' = made.rows /\ cur' = made.cur

\* A row of a customer, made by the same factory.
LegitRow ==
  /\ pc = "legit" /\ money.legit < MaxLegitRows
  /\ \E draft \in LegitDrafts, d \in LegitDraws : Push(MakeAll(net, cur, <<draft>>, d))
  /\ money' = [money EXCEPT !.legit = @ + 1]
  /\ UNCHANGED <<w, pc, profile, ring, phases, next, seq, rejects, plan>>

Inject ==
  /\ pc = "legit"
  /\ \E x \in Profiles : profile' = {x} /\ money' = [money EXCEPT !.base = x.base]
  /\ pc' = "camo" /\ ring' = 1 /\ batch' = <<>>
  /\ UNCHANGED <<w, cur, phases, next, seq, rejects, plan>>

\* The cover rows of one ring, inside its own window.
GenerateCamouflage ==
  /\ pc = "camo" /\ ring <= Len(RingCast)
  /\ \E d \in CamoDraws :
       \E rows \in {Camouflage(RingWindow(RingCasts[ring].aliveEnd), RingCasts[ring], MonthStarts, d)} :
         /\ Push(MakeAll(net, cur, rows, d))
         /\ money' = [money EXCEPT !.camo = @ + Len(rows)]
  /\ ring' = ring + 1
  /\ UNCHANGED <<w, pc, profile, phases, next, seq, rejects, plan>>

\* The budget of the rings counts the cover rows.
BudgetIllicit ==
  /\ pc = "camo" /\ ring > Len(RingCast)
  /\ money' = [money EXCEPT !.target = IllicitBudget(The(profile).illicit, money.base + money.camo)]
  /\ pc' = "rings" /\ ring' = 1 /\ batch' = <<>>
  /\ UNCHANGED <<w, profile, cur, phases, next, seq, rejects, plan>>

\* generateIllicit enters a ring: its chain ids, its share, its playbook.
StartRing ==
  /\ pc = "rings" /\ ring <= Len(RingCast) /\ money.target > money.illicit
  /\ LET share == RingBudget(money.target - money.illicit, Len(RingCast) - ring + 1)
     IN money' = [money EXCEPT !.perRing = share, !.ringLeft = share]
  /\ next' = SeedChainIds(RingCast[ring].id)
  /\ \E b \in Playbooks(ring) : phases' = b
  /\ pc' = "phase" /\ batch' = <<>>
  /\ UNCHANGED <<w, profile, cur, ring, seq, rejects, plan>>

\* (mutant: every phase counts its chains from the start)
RunTypologyReseeded(d) ==
  LET cx == RingWindow(RingCasts[ring].aliveEnd) @@ [next |-> SeedChainIds(RingCast[ring].id)]
      budget == PhaseBudget(money.ringLeft, money.perRing, phases[1].percent, Len(phases) = 1)
  IN Dispatch(cx, RingCasts[ring], phases[1].typology, budget, d)

RunTypology(d) ==
  LET cx == RingWindow(RingCasts[ring].aliveEnd) @@ [next |-> next]
      budget == PhaseBudget(money.ringLeft, money.perRing, phases[1].percent, Len(phases) = 1)
  IN Dispatch(cx, RingCasts[ring], phases[1].typology, budget, d)

\* One phase of runRingPlaybook.
RunPhase ==
  /\ pc = "phase" /\ phases # <<>> /\ money.ringLeft > 0
  /\ \E d \in RingDraws(ring) :
       \E out \in {RunTypology(d)} :
         /\ Push(MakeAll(net, cur, out.rows, d)) /\ next' = out.next
         /\ money' = [money EXCEPT !.ringLeft = @ - Len(out.rows), !.illicit = @ + Len(out.rows)]
  /\ phases' = Tail(phases)
  /\ UNCHANGED <<w, pc, profile, ring, seq, rejects, plan>>

EndRing ==
  /\ pc = "phase" /\ (phases = <<>> \/ money.ringLeft <= 0)
  /\ pc' = "rings" /\ ring' = ring + 1 /\ phases' = <<>> /\ batch' = <<>>
  /\ UNCHANGED <<w, profile, cur, money, next, seq, rejects, plan>>

\* The budget of the cases counts the rows of the rings as well.
BudgetCases ==
  /\ pc = "rings" /\ (ring > Len(RingCast) \/ money.target <= money.illicit)
  /\ LET txn == IllicitBudget(The(profile).txn, money.base + money.camo + money.illicit)
     IN money' = [money EXCEPT !.txn = txn, !.left = txn]
  /\ pc' = "cases" /\ batch' = <<>>
  /\ UNCHANGED <<w, profile, cur, ring, phases, next, seq, rejects, plan>>

Stop == pc' = "done" /\ UNCHANGED <<money, seq, rejects, plan>>

\* One iteration of buildCompromisePlans: a case, a resample, or the end.
PlanCase ==
  /\ pc = "cases" /\ money.left > 0
  /\ batch' = <<>>
  /\ \E c \in CaseDraws : \E victim \in {VictimOf(c, Excluded)} : \E drop \in {DropOf(c, victim, Excluded)} :
       IF victim = NoPick \/ (HasDrop(c.rail) /\ drop.key \in {{}, victim.key}) THEN Stop
       ELSE IF ~SpanFits(c, EventEnd(c, victim, drop))
       THEN IF rejects + 1 >= MaxBoundaryResamples THEN Stop
            ELSE rejects' = rejects + 1 /\ UNCHANGED <<pc, money, seq, plan>>
       ELSE /\ plan' = {CompromisePlan(net, c, victim, drop, seq, money.left, CampaignOf(net, c))}
            /\ money' = [money EXCEPT !.left = @ - Lesser(@, c.events)]
            /\ seq' = seq + 1 /\ rejects' = 0 /\ pc' = "emit"
  /\ UNCHANGED <<w, profile, cur, ring, phases, next>>

EmitCase ==
  /\ pc = "emit"
  /\ \E d \in EmitDraws : Push(GenerateCase(net, cur, The(plan), money.txn - money.emitted, d))
  /\ money' = [money EXCEPT !.emitted = @ + Len(SelectSeq(batch', LAMBDA r : r.fraud))]
  /\ pc' = "cases"
  /\ UNCHANGED <<w, profile, ring, phases, next, seq, rejects, plan>>

AssembleOutput ==
  /\ pc = "cases" /\ money.left = 0
  /\ pc' = "done" /\ batch' = <<>>
  /\ UNCHANGED <<w, profile, cur, ring, phases, money, next, seq, rejects, plan>>

Next == LegitRow \/ Inject \/ GenerateCamouflage \/ BudgetIllicit \/ StartRing \/ RunPhase \/ EndRing
          \/ BudgetCases \/ PlanCase \/ EmitCase \/ AssembleOutput

Spec == Init /\ [][Next]_vars

(* ------------------------------ properties ----------------------------- *)

\* The counters, the steps and the case in hand keep their shapes.
TypeOK ==
  /\ w \in DOMAIN Draws /\ pc \in {"legit", "camo", "rings", "phase", "cases", "emit", "done"}
  /\ \A k \in DOMAIN money : money[k] \in Nat
  /\ \A p \in People : cur[p].device \in 0 .. Len(net.devices[p]) /\ cur[p].ip \in 0 .. Len(net.ips[p])
  /\ Cardinality(plan) <= 1 /\ Cardinality(profile) <= 1
  /\ \A i \in DOMAIN batch : batch[i].amount >= 0 /\ Cardinality(batch[i].device) <= 1

HeldAt(pool, item, ts) == \E i \in DOMAIN pool : pool[i].item = item /\ Contains(pool[i], ts)
OnLine(pub, item, ts) == \E l \in DOMAIN pub.lines : HeldAt(pub.lines[l], item, ts)
SomeoneHolds(pools, operatorPools, item, ts) ==
  (\E p \in People : HeldAt(pools[p], item, ts)) \/ (\E o \in DOMAIN operatorPools : HeldAt(operatorPools[o], item, ts))
OperatorDevices == [o \in DOMAIN net.operators |-> net.operators[o].devices]
OperatorIps == [o \in DOMAIN net.operators |-> net.operators[o].ips]

\* The endpoint a ring shares.  make stamps it on a row of the ring at any time, also
\* before and after the burst in which the members hold it, and on rows of members
\* who do not: the comment there, "must resolve as of the row's own timestamp", is
\* true of what the router answers and not of this.
SharedByRing(shared, r, leg) == r.ring \in DOMAIN shared /\ leg = {shared[r.ring]}

\* A case uses what the victim, the campaign or another customer holds; a row of a
\* ring only what the owner of its source holds.
Holds(pools, operatorPools, r, item) ==
  IF r.ring = 0 THEN SomeoneHolds(pools, operatorPools, item, r.ts)
  ELSE r.src \in DOMAIN net.owner /\ HeldAt(pools[net.owner[r.src]], item, r.ts)

AtTerminal(r) ==
  /\ r.device # {} /\ (OnLine(net.terminals, The(r.device), r.ts) \/ IsBurnerDevice(The(r.device)))
  /\ r.ip = {EndpointIp(The(r.device))}

\* The session a row shows was possible at the row's own time, but for the endpoint
\* its ring shares: a terminal or a burner comes with its own address, any other
\* device and address were held then, also on the last row of a case that began
\* days before, and beside a shared endpoint as well; one comes with the other
\* (router.hpp "attributed inside its tenure", AttackerInfra::coveringSpan).
SessionHeld ==
  \A i \in DOMAIN batch :
    LET r == batch[i]
        ringDevice == SharedByRing(net.ringDevice, r, r.device)
        ringIp == SharedByRing(net.ringIp, r, r.ip)
    IN /\ r.device # {} /\ ~AtTerminal(r) /\ ~ringDevice =>
            Holds(net.devices, OperatorDevices, r, The(r.device))
       /\ r.ip # {} /\ ~AtTerminal(r) /\ ~ringIp =>
            Holds(net.ips, OperatorIps, r, The(r.ip)) \/ OnLine(net.carrier, The(r.ip), r.ts)
       /\ ~ringDevice /\ ~ringIp => (r.device = {} <=> r.ip = {})

\* A customer's row inside the window always has a session, also when its ring
\* shares one of the two: the links of a line leave no gap between them
\* (timeline::sampleChain, Factory::make).
SessionComplete ==
  \A i \in DOMAIN batch :
    LET r == batch[i]
    IN r.src \in DOMAIN net.owner /\ r.chan \notin ExternallyInitiated
         /\ WindowStart <= r.ts /\ r.ts < WindowEnd => r.device # {} /\ r.ip # {}

\* When an endpoint is replaced its owner goes on with the next link of the same
\* line, not with another machine (Router::routeFromPool over the tiled lines).
SameLine(pool, i, j) ==
  \A k \in Lesser(i, j) .. Greater(i, j) - 1 : pool[k].last = pool[k + 1].first
SuccessionKeepsLine ==
  pc = "legit" /\ batch = <<>> =>
    \A p \in People : \A i \in 1 .. Len(PersonDevices(Draws[w], p)), day \in 0 .. WindowDays - 1 :
      LET pool == net.devices[p]
          then == WindowStart + day * Day
      IN then >= pool[i].last => SameLine(pool, i, RouteFromPool(pool, i, then, 0).cur)

\* Nobody is in two households that share a device, and fraudsters are in none
\* (devices.cpp: anchor and peers leave the pool).
HouseholdsDisjoint ==
  pc = "legit" /\ batch = <<>> =>
    LET groups == Households(Draws[w].sharesDevice, Draws[w].peerCount)
    IN \A g \in DOMAIN groups : \A i \in DOMAIN groups[g] :
         /\ groups[g][i] \notin FraudPeople
         /\ \A h \in DOMAIN groups : \A j \in DOMAIN groups[h] :
              groups[g][i] = groups[h][j] => g = h /\ i = j

\* An address is blacklisted exactly when some ring exits through it, whoever
\* drew it first (ips.cpp promoteToBlacklisted).
BlacklistExact ==
  pc = "legit" /\ batch = <<>> =>
    \A ip \in DOMAIN net.records :
      net.records[ip] <=> \E r \in DOMAIN RingTopology : Draws[w].ringAddress[r] = ip

\* The index finds the campaigns that are running, no more and no less, and each
\* of them holds a device and an address at that moment (AttackerInfra::index,
\* operatorAt and the campaign's tiled lines).
CampaignReachable ==
  \A x \in plan :
    \A o \in DOMAIN net.operators :
      /\ o \in OperatorsAt(net.operators, x.start) <=> LiveAt(net.operators[o], x.start)
      /\ LiveAt(net.operators[o], x.start) =>
           /\ LiveIn(net.operators[o].devices, x.start) # {}
           /\ LiveIn(net.operators[o].ips, x.start) # {}

\* The rings never emit more than the illicit target, no ring more than its
\* share, and the cases emit their whole budget unless the planner gave up
\* (ringBudget, phaseBudget, buildCompromisePlans).
BudgetExact ==
  /\ pc # "camo" => money.illicit <= money.target
  /\ pc = "phase" => money.ringLeft <= money.perRing /\ money.perRing <= money.target
  /\ pc = "cases" => money.emitted + money.left = money.txn
  /\ pc = "emit" => \A x \in plan : money.emitted + money.left + x.target = money.txn

\* Every phase continues the chain ids of its ring: no id is used again, and none
\* leaves the ring's band (seedChainIds, allocateChainId).
ChainFresh ==
  [][\A i \in DOMAIN batch' :
       batch'[i].ring > 0 => /\ next <= batch'[i].chain /\ batch'[i].chain < next'
                             /\ batch'[i].chain \div ChainSpan = batch'[i].ring]_vars

FundedBy(chan) ==
  CASE chan = "muleForward" -> {"muleIn"} [] chan = "funnelOut" -> {"funnelIn"}
    [] chan = "sgMerge" -> {"sgSplit"} [] chan \in {"layeringHop", "layeringOut"} -> {"layeringIn", "layeringHop"}
    [] OTHER -> {}
Total(rows) == Fold(LAMBDA t, r : t + r.amount, 0, rows)

\* Money is passed on after it came in and never more than came in: for every
\* account of a chain, what it has sent so far is covered by what it had received
\* before (mule, funnel, layering and scatter-gather), within one price year.
FundedInTime ==
  \A i \in DOMAIN batch :
    LET r == batch[i]
        sofar == SelectSeq(batch, LAMBDA x : x.chain = r.chain /\ x.ts <= r.ts)
        sent == SelectSeq(sofar, LAMBDA x : x.src = r.src /\ x.chan = r.chan)
        received == SelectSeq(sofar, LAMBDA x : x.dst = r.src /\ x.ts < r.ts /\ x.chan \in FundedBy(r.chan))
    IN /\ FundedBy(r.chan) # {}
       /\ \A k \in DOMAIN sofar : PriceScale(sofar[k].ts) = PriceScale(r.ts)
       => Total(sent) <= Total(received)

InReach == RingCasts[ring].aliveEnd >= WindowStart + (RingScheduleGuardDays + 1) * Day

\* The rows of a ring whose first death lies beyond the guard come before that
\* death; not the invoices, whose weeks reach up to three weeks past the guard
\* (ringWindow, invoice.cpp).
HorizonKept ==
  \A i \in DOMAIN batch :
    pc = "phase" /\ batch[i].chan # "invoice" /\ InReach => batch[i].ts < RingCasts[ring].aliveEnd

\* Every row of a case, its refunds included, falls into the time its victim and
\* its payee were customers, and a scam into the victim's life (pickFrom and the
\* boundary check of buildCompromisePlans, the refund guard of generate).
CaseInsideMembership ==
  pc = "cases" =>
    \A x \in plan : \A i \in DOMAIN batch :
      /\ Member(x.person, batch[i].ts, AuthorizedRail(x.rail))
      /\ x.dropPerson # 0 => Member(x.dropPerson, batch[i].ts, FALSE)

\* The cases and the rings have no account in common, and a victim is not their
\* own payee (the exclusion set of buildCompromisePlans).
PopulationsDisjoint ==
  \A x \in plan : x.victim \notin Excluded /\ x.drop \cap (Excluded \cup {x.victim}) = {}

\* Every session of the corpus was possible, but for the endpoints a ring shares: the
\* pools of the infrastructure stage, the router that walks them and the campaign
\* index agree at the time of each row (AccessInfraStage::build, Router, Factory::make,
\* AttackerInfra).
SessionsPossible ==
  /\ SessionHeld /\ SessionComplete /\ SuccessionKeepsLine
  /\ CampaignReachable /\ HouseholdsDisjoint /\ BlacklistExact

\* Rings and cases stay inside their budgets, their money and the lives and
\* memberships of their people (FraudInjector: ringBudget, runTypology,
\* buildCompromisePlans, generate).
WithinBounds ==
  /\ TypeOK /\ BudgetExact /\ FundedInTime
  /\ HorizonKept /\ CaseInsideMembership /\ PopulationsDisjoint
=============================================================================
