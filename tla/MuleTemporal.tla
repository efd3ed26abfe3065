---------------------------- MODULE MuleTemporal ----------------------------
(***************************************************************************)
(* The mule-temporal export (StreamingMuleTemporalExport::Impl): payments  *)
(* and changes of tenures in one sequence of numbers, with a Zelle rail    *)
(* that registers its tokens at first use.                                 *)
(*                                                                         *)
(* append takes a payment, lets advance() work off every change that is    *)
(* due by then, one turn of its loop at a time, and then writes the        *)
(* payment.  The probability gates of the rail are draws: draws.           *)
(***************************************************************************)
EXTENDS SequencesExt, FiniteSetsExt, Draws

(***************************************************************************)
(* The tenures of the mule-temporal export, planned when the sink is       *)
(* built: who owns which account, which device, address and IP is on file  *)
(* for whom and when.  Times are ticks from the start of the window.       *)
(*                                                                         *)
(* A node is <<kind, identity>>; the digest that hides the identity is     *)
(* injective.  Within a table the order of the digests is some order of    *)
(* the pairs: the order in which they are first met stands for it.         *)
(***************************************************************************)

CONSTANTS End,           \* end of the window, exclusive; its start is 0
          Day,           \* one day, in ticks
          Registry,      \* registry.records, [key, role, bank, owner, ext, mule]
          Join, Close,   \* membership of each owner, the close may lie behind End
          HomesOf,       \* relocation tenures of each owner, [area, from]
          StreetOf       \* the street and country of each owner

NoOwner == 0
Forever == End + Day     \* int64 max

Party(p) == <<"Party", p>>
Acct(k) == <<"Account", k>>
Dev(d) == <<"Device", d>>
Ip(i) == <<"IP", i>>
Addr(p, area) == <<"Address", <<StreetOf[p], area>>>>

Owners == {Registry[i].owner : i \in DOMAIN Registry} \ {NoOwner}
KeysOf(p) == SelectSeq([i \in DOMAIN Registry |-> Registry[i].key],
                       LAMBDA k : \E i \in DOMAIN Registry : Registry[i].key = k /\ Registry[i].owner = p)

\* tenure: clipped to the start of the window; nothing that is empty or begins
\* behind its end.
Tenure(table, from, to, first, last) ==
  IF last <= Max({first, 0}) \/ Max({first, 0}) >= End THEN <<>>
  ELSE <<[table |-> table, from |-> from, to |-> to, start |-> Max({first, 0}), end |-> last]>>

OwnerTenures ==
  Concat(LAMBDA r : IF r.owner = NoOwner THEN <<>>
                    ELSE Tenure("Party_Owns_Account", Party(r.owner), Acct(r.key),
                                Join[r.owner], Close[r.owner]), Registry)

\* A home lasts until the next one begins.
HomeTenures(p) ==
  LET h == HomesOf[p]
  IN Concat(LAMBDA i : Tenure("Party_Has_Address", Party(p), Addr(p, h[i].area),
                              Max({h[i].from, Join[p]}),
                              Min({IF i < Len(h) THEN h[i + 1].from ELSE Forever, Close[p]})),
            [i \in DOMAIN h |-> i])

\* A usage [person, item, first, last, enrolled] of a device or an address: the
\* day it was last seen belongs to the tenure.
UsageSpan(u) == [first |-> Max({u.first, Join[u.person]}), last |-> Min({u.last + Day, Close[u.person]})]
OnFile(u) == u.enrolled /\ u.person \in Owners
DeviceTenures(u) ==
  IF ~OnFile(u) THEN <<>>
  ELSE Tenure("Party_Uses_Device", Party(u.person), Dev(u.item), UsageSpan(u).first, UsageSpan(u).last)
       \o Concat(LAMBDA k : Tenure("Account_Uses_Device", Acct(k), Dev(u.item),
                                   UsageSpan(u).first, UsageSpan(u).last), KeysOf(u.person))
IpTenures(u) ==
  IF ~OnFile(u) THEN <<>>
  ELSE Tenure("Party_Uses_IP", Party(u.person), Ip(u.item), UsageSpan(u).first, UsageSpan(u).last)

RawTenures(devices, ips) ==
  OwnerTenures \o Concat(HomeTenures, SetToSortSeq(Owners, <))
  \o Concat(DeviceTenures, devices) \o Concat(IpTenures, ips)

PairOf(a) == <<a.table, a.from, a.to>>
TableOrder == <<"Account_Uses_Device", "Party_Has_Address", "Party_Owns_Account",
                "Party_Uses_Device", "Party_Uses_IP">>
Pairs(tenures) ==
  LET met == Fold(LAMBDA acc, a : IF PairOf(a) \in Range(acc) THEN acc
                                      ELSE Append(acc, PairOf(a)), <<>>, tenures)
  IN Concat(LAMBDA t : SelectSeq(met, LAMBDA pair : pair[1] = t), TableOrder)

\* (mutant: an enclosed tenure cuts the one that encloses it)
MergeOneCut(merged, a) ==
  IF merged # <<>> /\ PairOf(Last(merged)) = PairOf(a) /\ a.start <= Last(merged).end
  THEN [merged EXCEPT ![Len(merged)].end = a.end]
  ELSE Append(merged, a)

\* Sorted by pair, start and end; what overlaps or adjoins the tenure before it
\* extends that.
MergeOne(merged, a) ==
  IF merged # <<>> /\ PairOf(Last(merged)) = PairOf(a) /\ a.start <= Last(merged).end
  THEN [merged EXCEPT ![Len(merged)].end = Max({@, a.end})]
  ELSE Append(merged, a)

Associations(devices, ips) ==
  LET raw == RawTenures(devices, ips)
      sorted(pair) == SortSeq(SelectSeq(raw, LAMBDA a : PairOf(a) = pair),
                              LAMBDA a, b : a.start < b.start \/ (a.start = b.start /\ a.end < b.end))
  IN Fold(MergeOne, <<>>, Concat(sorted, Pairs(raw)))

\* The openings, and the closures inside the window: closures come before
\* openings of the same second.
Changes(assoc) ==
  LET all == [i \in DOMAIN assoc |-> [epoch |-> assoc[i].start, opening |-> TRUE, ref |-> i]]
             \o SelectSeq([i \in DOMAIN assoc |-> [epoch |-> assoc[i].end, opening |-> FALSE, ref |-> i]],
                          LAMBDA c : c.epoch < End)
      before(c, d) ==
        \/ c.epoch < d.epoch
        \/ c.epoch = d.epoch /\ ~c.opening /\ d.opening
        \/ c.epoch = d.epoch /\ c.opening = d.opening /\ c.ref < d.ref
  IN SortSeq(all, before)

Plan(devices, ips) ==
  [raw |-> RawTenures(devices, ips), assoc |-> Associations(devices, ips),
   changes |-> Changes(Associations(devices, ips))]

-----------------------------------------------------------------------------

CONSTANTS Usages,         \* sequence of the usages the sink may be built with: [devices, ips]
          Payments,       \* payments: [src, dst, chan, amount, device, ip]
          MaxPayments,    \* bound on the payments of a behaviour
          Month,          \* thirty days, in ticks
          DailyCap(_), MonthlyCap(_),   \* by "the sender is a business"
          Us,             \* the owners in the United States
          Senders,        \* profiles whose sender draw is below the propensity
          RingOf          \* home ring of an owner, -1 without one

VARIABLES world,      \* the usages it was built with
          seq, rows, lastEpoch,
          status,     \* streaming, finishing, finished; rejected, failed: thrown
          pending,    \* the payment append is working on
          nextChange,
          opened,     \* associations -> valid_from_seq, 0 before the opening
          seen,       \* nodes -> [seq, ts] of their vertex row
          edges,      \* association rows written: [table, from, to, start, end, lo, hi]
          tokens,     \* keys with a token
          bound,      \* tokenAssociations, with the row's emitted flag
          closures,   \* tokenClosures: indexes of bound, by epoch
          sent,       \* sendWindows
          active,     \* mule accounts -> first laundering payment
          events,     \* payments written, with their participations
          labels      \* Account rows, written at the end

stream == <<seq, rows, lastEpoch, nextChange, opened, seen, edges, tokens, bound, closures,
            sent, active, events, labels>>
vars == <<world, status, pending, stream>>

PlanTable == [i \in DOMAIN Usages |-> Plan(Usages[i].devices, Usages[i].ips)]
plan == PlanTable[world]

RecordOf(k) == Registry[CHOOSE i \in DOMAIN Registry : Registry[i].key = k]
Keys == {Registry[i].key : i \in DOMAIN Registry}
OwnerOf(k) == RecordOf(k).owner
IsExternal(k) == RecordOf(k).ext \/ RecordOf(k).bank = "external"
Mules == {k \in Keys : RecordOf(k).mule}
Token(k) == <<"Token", k>>
NoPayment == [ts |-> -1]
NoItem == "none"
NoAmount == -1           \* NaN
Infinity == Forever + Day

(* ------------------------------ the rail ------------------------------- *)

DepositAccount(k) == RecordOf(k).role \in {"account", "business", "family", "landlord"}

\* baseRail, by group of channels
BaseRail(chan) ==
  CASE chan \in {"atm", "cashDeposit"} -> "cash"
    [] chan \in {"checkDeposit", "rentCheck"} -> "check"
    [] chan \in {"merchant", "cardPurchase", "refund", "chargeback"} -> "card"
    [] chan \in {"overdraftFee", "locInterest", "interest", "lateFee", "selfTransfer"} -> "internal"
    [] chan \in {"salary", "camouflageSalary", "clientAchCredit", "rentAch"} -> "ach"
    [] OTHER -> "unknown"
IsFraud(chan) == chan \in {"layeringHop", "muleIn", "muleForward"}
P2pPurpose(chan) ==
  chan \in {"p2p", "camouflageP2p", "rentP2p", "allowance", "familySupport"} \/ IsFraud(chan)

\* (mutant: an account that is closed or not yet open may still use the rail)
EligibleAnyTime(k, ts) == DepositAccount(k) /\ (OwnerOf(k) = NoOwner \/ OwnerOf(k) \in Us)

Eligible(k, ts) ==
  /\ DepositAccount(k)
  /\ OwnerOf(k) # NoOwner =>
       Join[OwnerOf(k)] <= ts /\ ts < Close[OwnerOf(k)] /\ OwnerOf(k) \in Us

IsBusiness(k) == RecordOf(k).role \in {"business", "landlord"}

\* profile: the owner's accounts share one, apart from the business ones.
Profile(k) == <<IsBusiness(k), IF OwnerOf(k) = NoOwner THEN <<"key", k>> ELSE <<"owner", OwnerOf(k)>>>>

\* SendingWindow::accept: what is older than a month leaves the window first.
Window(profile, ts) ==
  IF profile \in DOMAIN sent THEN SelectSeq(sent[profile], LAMBDA s : s.epoch > ts - Month) ELSE <<>>
Sum(w) == Fold(LAMBDA t, s : t + s.cents, 0, w)
LastDay(w, ts) == SelectSeq(w, LAMBDA s : s.epoch > ts - Day)
AmountAllowed(tx) == tx.amount > 0 /\ tx.amount <= DailyCap(IsBusiness(tx.src))
WithinCaps(tx, w) ==
  /\ Sum(LastDay(w, tx.ts)) + tx.amount <= DailyCap(IsBusiness(tx.src))
  /\ Sum(w) + tx.amount <= MonthlyCap(IsBusiness(tx.src))

\* railFor, up to the window's verdict.
AsksForZelle(tx) ==
  /\ BaseRail(tx.chan) = "unknown" /\ P2pPurpose(tx.chan)
  /\ tx.src # tx.dst
  /\ Eligible(tx.src, tx.ts) /\ Eligible(tx.dst, tx.ts)
  /\ Profile(tx.src) # Profile(tx.dst)
  /\ Profile(tx.src) \in Senders /\ tx.draw
  /\ AmountAllowed(tx)
Zelle(tx) == AsksForZelle(tx) /\ WithinCaps(tx, Window(Profile(tx.src), tx.ts))

(* ------------------------------ the stream ----------------------------- *)

Init ==
  /\ world \in DOMAIN Usages
  /\ seq = 0 /\ rows = 0 /\ lastEpoch = 0
  /\ status = "streaming" /\ pending = NoPayment
  /\ nextChange = 1 /\ opened = [i \in DOMAIN plan.assoc |-> 0]
  /\ seen = <<>> /\ edges = {}
  /\ tokens = {} /\ bound = <<>> /\ closures = {}
  /\ sent = <<>> /\ active = [k \in Mules |-> [seq |-> 0, ts |-> 0]]
  /\ events = {} /\ labels = {}

\* The checks at the head of append's loop; what fails them is thrown.
Acceptable(tx) ==
  /\ tx.ts >= lastEpoch /\ tx.ts >= 0 /\ tx.ts < End
  /\ tx.src \in Keys /\ tx.dst \in Keys
  /\ tx.amount >= 0 \/ tx.amount = NoAmount

Receive ==
  /\ status = "streaming" /\ pending = NoPayment /\ rows < MaxPayments
  /\ \E p \in Payments, ts \in lastEpoch .. End, d \in BOOLEAN :
       LET tx == [p EXCEPT !.ts = ts, !.draw = d]
       IN IF Acceptable(tx) THEN pending' = tx /\ UNCHANGED status
          ELSE status' = "rejected" /\ UNCHANGED pending
  /\ UNCHANGED <<world, stream>>

\* observe: a vertex row at the first sight of each of the nodes.
Observe(s, nodes, at, ts) ==
  [n \in DOMAIN s \cup nodes |-> IF n \in DOMAIN s THEN s[n] ELSE [seq |-> at, ts |-> ts]]

\* emitAssociation
EdgeRow(a, lo, hi) ==
  [table |-> a.table, from |-> a.from, to |-> a.to, start |-> a.start, end |-> a.end, lo |-> lo, hi |-> hi]

PlannedEpoch == IF nextChange <= Len(plan.changes) THEN plan.changes[nextChange].epoch ELSE Infinity
NextClosure == CHOOSE c \in closures : \A d \in closures : c[1] < d[1] \/ (c[1] = d[1] /\ c[2] <= d[2])
TokenEnd == IF closures = {} THEN Infinity ELSE NextClosure[1]

\* How far advance() works the changes off: to the payment in hand, or through
\* the quiet tail of the window.
Horizon == IF status = "finishing" THEN End - 1 ELSE pending.ts

Due == status \in {"streaming", "finishing"} /\ Min({PlannedEpoch, TokenEnd}) <= Horizon

CloseToken ==
  /\ Due /\ TokenEnd <= PlannedEpoch
  /\ LET r == NextClosure[2]
     IN /\ edges' = edges \cup {EdgeRow(bound[r], bound[r].lo, seq + 1)}
        /\ bound' = [bound EXCEPT ![r].emitted = TRUE]
        /\ closures' = closures \ {NextClosure}
  /\ seq' = seq + 1
  /\ UNCHANGED <<world, status, pending, rows, lastEpoch, nextChange, opened, seen, tokens, sent,
                 active, events, labels>>

OpenTenure ==
  /\ Due /\ PlannedEpoch < TokenEnd /\ plan.changes[nextChange].opening
  /\ LET c == plan.changes[nextChange]
         a == plan.assoc[c.ref]
     IN /\ opened' = [opened EXCEPT ![c.ref] = seq + 1]
        /\ seen' = Observe(seen, {a.from, a.to}, seq + 1, c.epoch)
  /\ seq' = seq + 1 /\ nextChange' = nextChange + 1
  /\ UNCHANGED <<world, status, pending, rows, lastEpoch, edges, tokens, bound, closures, sent,
                 active, events, labels>>

\* A closure of a tenure that was never opened throws.
CloseTenure ==
  /\ Due /\ PlannedEpoch < TokenEnd /\ ~plan.changes[nextChange].opening
  /\ LET r == plan.changes[nextChange].ref
     IN IF opened[r] = 0 THEN status' = "failed" /\ UNCHANGED edges
        ELSE edges' = edges \cup {EdgeRow(plan.assoc[r], opened[r], seq + 1)} /\ UNCHANGED status
  /\ seq' = seq + 1 /\ nextChange' = nextChange + 1
  /\ UNCHANGED <<world, pending, rows, lastEpoch, opened, seen, tokens, bound, closures, sent,
                 active, events, labels>>

(* ------------------------------ the payment ---------------------------- *)

\* One binding of enrollToken: a number of its own, and a closure when the owner
\* closes inside the window.
Bind(g, table, from, to, ts, last) ==
  [g EXCEPT !.seq = @ + 1,
            !.seen = Observe(@, {from, to}, g.seq + 1, ts),
            !.bound = Append(@, [table |-> table, from |-> from, to |-> to, start |-> ts,
                                 end |-> last, lo |-> g.seq + 1, emitted |-> FALSE]),
            !.closures = IF last < End THEN @ \cup {<<last, Len(g.bound) + 1>>} ELSE @]

EnrollToken(g, k, ts) ==
  IF k \in g.tokens THEN g
  ELSE LET last == IF OwnerOf(k) = NoOwner THEN Infinity ELSE Close[OwnerOf(k)]
           h == Bind([g EXCEPT !.tokens = @ \cup {k}], "Token_Bound_To_Account", Token(k), Acct(k), ts, last)
       IN IF OwnerOf(k) = NoOwner THEN h
          ELSE Bind(h, "Party_Uses_Token", Party(OwnerOf(k)), Token(k), ts, last)

\* The endpoints a payment row refers to.
Participants(tx, zelle) ==
  {<<"From_Account", Acct(tx.src)>>, <<"To_Account", Acct(tx.dst)>>}
  \cup (IF zelle THEN {<<"From_Token", Token(tx.src)>>, <<"To_Token", Token(tx.dst)>>} ELSE {})
  \cup (IF tx.device = NoItem THEN {} ELSE {<<"Used_Device", Dev(tx.device)>>})
  \cup (IF tx.ip = NoItem THEN {} ELSE {<<"Used_IP", Ip(tx.ip)>>})

Registered(g, tx) == EnrollToken(EnrollToken(g, tx.src, tx.ts), tx.dst, tx.ts)

FirstLaundering(tx, at) ==
  [k \in DOMAIN active |-> IF IsFraud(tx.chan) /\ k \in {tx.src, tx.dst} /\ active[k].seq = 0
                           THEN [seq |-> at, ts |-> tx.ts] ELSE active[k]]

\* The rest of append, once advance() has nothing left: the verdict arrives one
\* number after a Zelle payment.
Pay ==
  /\ status = "streaming" /\ pending # NoPayment /\ ~Due
  /\ LET tx == pending
         z == Zelle(tx)
         g0 == [seq |-> seq, seen |-> seen, tokens |-> tokens, bound |-> bound, closures |-> closures]
         g == IF z THEN Registered(g0, tx) ELSE g0
         at == g.seq + 1
         parts == Participants(tx, z)
         w == Window(Profile(tx.src), tx.ts)
     IN /\ seq' = at + IF z THEN 1 ELSE 0
        /\ seen' = Observe(g.seen, {p[2] : p \in parts}, at, tx.ts)
        /\ tokens' = g.tokens /\ bound' = g.bound /\ closures' = g.closures
        /\ sent' = IF ~AsksForZelle(tx) THEN sent
                   ELSE [q \in DOMAIN sent \cup {Profile(tx.src)} |->
                           IF q # Profile(tx.src) THEN sent[q]
                           ELSE IF z THEN Append(w, [epoch |-> tx.ts, cents |-> tx.amount]) ELSE w]
        /\ active' = FirstLaundering(tx, at)
        /\ events' = events \cup
             {[id |-> rows + 1, seq |-> at, arrival |-> IF z THEN at + 1 ELSE 0, ts |-> tx.ts,
               zelle |-> z, rail |-> IF z THEN "zelle" ELSE BaseRail(tx.chan), src |-> tx.src,
               dst |-> tx.dst, fraud |-> IsFraud(tx.chan), amount |-> Max({tx.amount, 0}),
               present |-> tx.amount # NoAmount, parts |-> parts]}
        /\ rows' = rows + 1 /\ lastEpoch' = tx.ts
  /\ pending' = NoPayment
  /\ UNCHANGED <<world, status, nextChange, opened, edges, labels>>

(* -------------------------------- finish ------------------------------- *)

BeginFinish ==
  /\ status = "streaming" /\ pending = NoPayment
  /\ status' = "finishing" /\ UNCHANGED <<world, pending, stream>>

\* writeAccount: the label of a mule holds from its first laundering payment;
\* one of an external account has no clock.
LabelRow(k) ==
  LET clock == CASE k \in Mules /\ active[k].seq # 0 -> active[k]
                 [] ~(k \in Mules /\ active[k].seq # 0) /\ ~IsExternal(k) -> seen[Acct(k)]
                 [] OTHER -> [seq |-> 0, ts |-> 0]
  IN [key |-> k, seen |-> seen[Acct(k)], effective |-> clock,
      ring |-> IF k \in Mules THEN RingOf[OwnerOf(k)] ELSE -1]

\* The tenures that are still open get no end; then the account rows.
Complete ==
  /\ status = "finishing" /\ ~Due
  /\ edges' = edges
       \cup {EdgeRow(plan.assoc[i], opened[i], 0) :
             i \in {j \in DOMAIN plan.assoc : opened[j] # 0
                      /\ \A e \in edges : <<e.table, e.from, e.to, e.lo>> #
                            <<plan.assoc[j].table, plan.assoc[j].from, plan.assoc[j].to, opened[j]>>}}
       \cup {EdgeRow(bound[i], bound[i].lo, 0) : i \in {j \in DOMAIN bound : ~bound[j].emitted}}
  /\ labels' = {LabelRow(k) : k \in {q \in Keys : Acct(q) \in DOMAIN seen}}
  /\ status' = "finished"
  /\ UNCHANGED <<world, pending, seq, rows, lastEpoch, nextChange, opened, seen, tokens, bound,
                 closures, sent, active, events>>

Next ==
  \/ Receive \/ CloseToken \/ OpenTenure \/ CloseTenure \/ Pay \/ BeginFinish \/ Complete
  \/ (status \in {"finished", "rejected", "failed"} /\ UNCHANGED vars)

Spec == Init /\ [][Next]_vars

(* ------------------------------ properties ----------------------------- *)

\* The state has the shape of Impl's members.
TypeOK ==
  /\ seq \in Nat /\ rows \in 0 .. MaxPayments /\ lastEpoch \in 0 .. End - 1
  /\ status \in {"streaming", "finishing", "finished", "rejected", "failed"}
  /\ nextChange \in 1 .. Len(plan.changes) + 1
  /\ DOMAIN opened = DOMAIN plan.assoc /\ tokens \subseteq Keys
  /\ \A c \in closures : c[2] \in DOMAIN bound /\ ~bound[c[2]].emitted

\* Whatever takes a number: <<what, epoch, class, number>>, the class being the
\* order within a second.
Stamps ==
  {<<<<"close", e.table, e.from, e.to, e.lo>>, e.end, 0, e.hi>> : e \in {x \in edges : x.hi # 0}}
  \cup {<<<<"open", i>>, plan.assoc[i].start, 1, opened[i]>> : i \in {j \in DOMAIN opened : opened[j] # 0}}
  \cup {<<<<"register", i>>, bound[i].start, 2, bound[i].lo>> : i \in DOMAIN bound}
  \cup {<<<<"pay", e.id>>, e.ts, 2, e.seq>> : e \in events}
  \cup {<<<<"verdict", e.id>>, e.ts, 2, e.arrival>> : e \in {x \in events : x.zelle}}

\* advance() and append(): every number from 1 to seq is taken exactly once, and
\* the numbers follow the clock; within a second the closures come first, then
\* the openings, then registrations and payments.
OneOrder ==
  LET stamps == Stamps
  IN
  /\ Cardinality(stamps) = seq /\ {s[4] : s \in stamps} = 1 .. seq
  /\ \A s, t \in stamps : s[4] < t[4] => s[2] < t[2] \/ (s[2] = t[2] /\ s[3] <= t[3])

\* A tenure of the plan, or a binding, holds at a number of the sequence.
ClosedBy(table, lo, at) == \E e \in edges : e.table = table /\ e.lo = lo /\ e.hi # 0 /\ e.hi <= at
Holds(table, from, to, at) ==
  \/ \E i \in DOMAIN opened :
       /\ PairOf(plan.assoc[i]) = <<table, from, to>> /\ opened[i] \in 1 .. at
       /\ ~ClosedBy(table, opened[i], at)
  \/ \E i \in DOMAIN bound :
       /\ PairOf(bound[i]) = <<table, from, to>> /\ bound[i].lo <= at
       /\ ~ClosedBy(table, bound[i].lo, at)

\* railFor and enrollToken: at the number of a Zelle payment the token of either
\* side is bound to its account and, where the account has an owner, the owner
\* holds the token and the account.
ZelleBound ==
  \A e \in {x \in events : x.zelle} : \A k \in {e.src, e.dst} :
    /\ Holds("Token_Bound_To_Account", Token(k), Acct(k), e.seq)
    /\ OwnerOf(k) # NoOwner =>
         /\ Holds("Party_Uses_Token", Party(OwnerOf(k)), Token(k), e.seq)
         /\ Holds("Party_Owns_Account", Party(OwnerOf(k)), Acct(k), e.seq)

\* observe: a vertex exists exactly for what some row refers to, and its first
\* sight is the number of the first of those rows.
Uses(n) ==
  {opened[i] : i \in {j \in DOMAIN opened : opened[j] # 0 /\ n \in {plan.assoc[j].from, plan.assoc[j].to}}}
  \cup {bound[i].lo : i \in {j \in DOMAIN bound : n \in {bound[j].from, bound[j].to}}}
  \cup {e.seq : e \in {x \in events : \E p \in x.parts : p[2] = n}}
Referenced ==
  UNION {{plan.assoc[i].from, plan.assoc[i].to} : i \in {j \in DOMAIN opened : opened[j] # 0}}
  \cup UNION {{b.from, b.to} : b \in Range(bound)} \cup UNION {{p[2] : p \in e.parts} : e \in events}
FirstSight ==
  /\ DOMAIN seen = Referenced
  /\ \A n \in Referenced : seen[n].seq = Min(Uses(n))

\* SendingWindow: what one sender, over all the accounts of the kind, sends by
\* Zelle within a day or a month keeps to the limits.
SameSender(a, b) ==
  /\ IsBusiness(a) = IsBusiness(b)
  /\ a = b \/ (OwnerOf(a) = OwnerOf(b) /\ OwnerOf(a) # NoOwner)
SentIn(e, span) ==
  MapThenSumSet(LAMBDA x : x.amount,
    {x \in events : x.zelle /\ SameSender(x.src, e.src) /\ x.seq <= e.seq /\ x.ts > e.ts - span})
SendLimits ==
  \A e \in {x \in events : x.zelle} :
    /\ SentIn(e, Day) <= DailyCap(IsBusiness(e.src))
    /\ SentIn(e, Month) <= MonthlyCap(IsBusiness(e.src))

\* plan() and finish(): the edges of a pair cover exactly the ticks of its raw
\* tenures, each tick once, with a gap between two edges; an edge has an end
\* exactly when that lies inside the window.
PlannedTables == {"Party_Owns_Account", "Party_Has_Address", "Party_Uses_Device",
                  "Account_Uses_Device", "Party_Uses_IP"}
TenuresExact ==
  status = "finished" =>
    /\ \A a \in Range(plan.raw) \cup {x \in edges : x.table \in PlannedTables} : \A t \in 0 .. End - 1 :
         LET of == {e \in edges : PairOf(e) = PairOf(a) /\ e.start <= t /\ t < e.end}
         IN /\ Cardinality(of) <= 1
            /\ of # {} <=> \E r \in Range(plan.raw) : PairOf(r) = PairOf(a) /\ r.start <= t /\ t < r.end
    /\ \A e, f \in edges : PairOf(e) = PairOf(f) => e.end # f.start
    /\ \A e \in edges : e.hi = 0 <=> e.end >= End

\* plan() and advance(): no closure is reached before its opening, so the sink
\* throws for a payment only.
OpenBeforeClose == status # "failed"

\* writeAccount: the label clock of a mule is its first laundering payment; of
\* another internal account, its first sight; never before the first sight.
LabelClock ==
  \A l \in labels :
    LET laundered == {e.seq : e \in {x \in events : x.fraud /\ l.key \in {x.src, x.dst}}}
    IN /\ l.key \in Mules /\ laundered # {} => l.effective.seq = Min(laundered)
       /\ l.key \in Mules \/ ~IsExternal(l.key) => l.effective.seq >= l.seen.seq /\ l.seen.seq > 0
       /\ l.key \notin Mules /\ IsExternal(l.key) => l.effective.seq = 0

\* The numbers of the export are one causal order: nothing is referred to before it
\* exists, used while it is not held, or closed before it was opened
\* (StreamingMuleTemporalExport: advance, append, observe, enrollToken).
CausalOrder == TypeOK /\ OneOrder /\ FirstSight /\ ZelleBound /\ OpenBeforeClose

\* The tenures, the labels and the sending windows that the export writes are those
\* of the world and of the payments (plan, finish, writeAccount, SendingWindow).
RecordsExact == TenuresExact /\ LabelClock /\ SendLimits
=============================================================================
