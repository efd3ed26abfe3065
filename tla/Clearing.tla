------------------------------ MODULE Clearing ------------------------------
(***************************************************************************)
(* The clearing ledger as operators on a book: funding decisions, external *)
(* boundaries, overdraft fees (transactions/clearing/ledger) and the       *)
(* line-of-credit accrual with its billing queue (clearing/loc_accrual).   *)
(*                                                                         *)
(* Amounts are integers; cash may be negative.  The three overdraft        *)
(* capacity arrays are one field, buffer: every setter that fills one of   *)
(* them clears the others.  Interest is dollar-seconds times the rate      *)
(* (the division by the year is a change of unit).                         *)
(***************************************************************************)
EXTENDS Integers, Sequences, FiniteSets, SequencesExt

CONSTANTS NumAccounts,  \* accounts of the bank, by posting index
          Cards,        \* the indices whose key has the card role
          External,     \* the policy kind of each registered external key
                        \* (keys outside the bank are numbers past Accounts)
          Period        \* kBillingPeriodSeconds, in units of the model's clock

Accounts == 0 .. (NumAccounts - 1)
Unknown == -1                          \* a key that was never registered
ExternalKeys == DOMAIN External
Endpoints == Accounts \cup ExternalKeys \cup {Unknown}

ASSUME ClearingAssumption ==
  /\ NumAccounts \in Nat /\ Cards \subseteq Accounts /\ Period \in Nat \ {0}
  /\ ExternalKeys \subseteq Nat \ Accounts

NotQueued == -1
Protections == {"none", "courtesy", "linked", "loc"}

\* Ledger::initialize.
EmptyBook ==
  [cash     |-> [i \in Accounts |-> 0],
   buffer   |-> [i \in Accounts |-> 0],
   prot     |-> [i \in Accounts |-> "none"],
   fee      |-> [i \in Accounts |-> 0],
   on       |-> [i \in Accounts |-> FALSE],
   apr      |-> [i \in Accounts |-> 0],
   integral |-> [i \in Accounts |-> 0],
   lastUpd  |-> [i \in Accounts |-> 0],
   lastBill |-> [i \in Accounts |-> 0],
   queued   |-> [i \in Accounts |-> NotQueued],
   queue    |-> {},
   emit     |-> TRUE]
-----------------------------------------------------------------------------
\* LocAccrualTracker.  The heap is the set of its entries: a second copy of an
\* entry is popped in the same sweep and finds the token cleared.

\* scheduleBilling supersedes whatever is queued: queued is the token of the
\* valid entry.
Enable(b, i, rate) ==
  [b EXCEPT !.on[i] = TRUE, !.apr[i] = rate, !.integral[i] = 0,
            !.lastUpd[i] = 0, !.lastBill[i] = 0,
            !.queued[i] = 0, !.queue = @ \cup {<<0, i>>}]

\* The entry stays in the queue; its token no longer matches.
Disable(b, i) ==
  [b EXCEPT !.on[i] = FALSE, !.apr[i] = 0, !.integral[i] = 0,
            !.lastUpd[i] = 0, !.lastBill[i] = 0, !.queued[i] = NotQueued]

\* Dollar-seconds of slot i up to ts, at the balance it has had since the
\* last update.
Accrued(b, i, ts) ==
  b.integral[i] +
    IF b.lastUpd[i] # 0 /\ ts > b.lastUpd[i] /\ b.cash[i] < 0
    THEN (-b.cash[i]) * (ts - b.lastUpd[i]) ELSE 0

\* update(): a timestamp of 0 is the untimestamped transfer, not an instant.
Update(b, i, ts) ==
  IF i \in Accounts /\ b.on[i] /\ ts # 0
  THEN [b EXCEPT !.integral[i] = Accrued(b, i, ts), !.lastUpd[i] = ts]
  ELSE b

\* (mutant: no token, any entry of the slot makes it due)
DueSlotsAnyEntry(b, ts) ==
  {i \in Accounts : b.on[i] /\ \E e \in b.queue : e[1] <= ts /\ e[2] = i}

\* The slots whose valid entry sweep pops; entries with another token are
\* stale and dropped.
DueSlots(b, ts) ==
  {i \in Accounts : b.on[i] /\ \E e \in b.queue :
                      e[1] <= ts /\ e[2] = i /\ e[1] = b.queued[i]}

InterestOf(b, i, ts) == Accrued(b, i, ts) * b.apr[i]

\* The accruals of a sweep, in ascending slot order.  A slot whose billing
\* clock has not started is not billed.
Matured(b, ts) ==
  LET billed == {i \in DueSlots(b, ts) :
                   b.lastBill[i] # 0 /\ InterestOf(b, i, ts) > 0}
  IN  [k \in 1 .. Cardinality(billed) |->
         LET i == CHOOSE x \in billed : Cardinality({y \in billed : y < x}) = k - 1
         IN  [acct |-> i, amount |-> InterestOf(b, i, ts),
              chan |-> "locInterest", ts |-> ts]]

\* The book after sweep(): every due slot is rolled forward and queued again.
Swept(b, ts) ==
  LET due == DueSlots(b, ts) IN
  [b EXCEPT
     !.integral = [i \in Accounts |->
                     IF i \notin due THEN b.integral[i]
                     ELSE IF b.lastBill[i] = 0 THEN Accrued(b, i, ts) ELSE 0],
     !.lastUpd  = [i \in Accounts |-> IF i \in due THEN ts ELSE b.lastUpd[i]],
     !.lastBill = [i \in Accounts |-> IF i \in due THEN ts ELSE b.lastBill[i]],
     !.queued   = [i \in Accounts |-> IF i \in due THEN ts + Period ELSE b.queued[i]],
     !.queue    = {e \in b.queue : e[1] > ts} \cup {<<ts + Period, i>> : i \in due}]

\* accrueLocInterestThrough: what is billed is debited, funded or not.
Accrue(b, ts) ==
  IF ~b.emit THEN Swept(b, ts)
  ELSE [Swept(b, ts) EXCEPT
          !.cash = [i \in Accounts |->
             b.cash[i] - IF i \in DueSlots(b, ts) /\ b.lastBill[i] # 0
                              /\ InterestOf(b, i, ts) > 0
                         THEN InterestOf(b, i, ts) ELSE 0]]
AccrueEvents(b, ts) == IF b.emit THEN Matured(b, ts) ELSE << >>
-----------------------------------------------------------------------------
\* Setup.

SetProtection(b, i, type, amount) ==
  LET c == [b EXCEPT !.prot[i] = type,
                     !.buffer[i] = IF type = "none" THEN 0 ELSE amount]
  IN  IF type = "loc" THEN Enable(c, i, 0) ELSE Disable(c, i)

SetLoc(b, i, rate) == IF b.prot[i] = "loc" THEN Enable(b, i, rate) ELSE b

SetOverdraftOnly(b, i, limit) ==
  Disable([b EXCEPT !.cash[i] = 0, !.buffer[i] = limit,
                    !.prot[i] = IF limit > 0 THEN "courtesy" ELSE "none"], i)

SetBankTier(b, i, amount) == [b EXCEPT !.fee[i] = amount]

\* seedOwnedAccount, with the values it draws in s.
SeedOwnedAccount(b, i, s) ==
  LET tier == SetBankTier([b EXCEPT !.cash[i] = s.cash], i, s.fee)
      kept == SetProtection(tier, i, s.type, s.buffer)
  IN  IF s.type = "loc" THEN SetLoc(kept, i, s.rate) ELSE kept

\* seedOwnedAccounts: every account is owned.
SeededAccounts(seed) ==
  LET seeded[n \in 0 .. NumAccounts] ==
        IF n = 0 THEN EmptyBook
        ELSE SeedOwnedAccount(seeded[n - 1], n - 1, seed[n - 1])
  IN  seeded[NumAccounts]

\* applyCreditCardLimits: every card becomes overdraft-only at its limit.
WithCardLimits(b, seed) ==
  LET limited[n \in 0 .. NumAccounts] ==
        IF n = 0 THEN b
        ELSE IF n - 1 \in Cards
             THEN SetOverdraftOnly(limited[n - 1], n - 1, seed[n - 1].limit)
        ELSE limited[n - 1]
  IN  limited[NumAccounts]

\* OpeningBook::build, with addBurdenBuffer between the two.
OpeningBook(seed) ==
  LET seeded == SeededAccounts(seed) IN
  WithCardLimits([seeded EXCEPT !.cash = [i \in Accounts |-> @[i] + seed[i].burden]], seed)

\* (mutant: the timestamps are restored, the billing queue is kept)
RestoreKeepsQueue(b, saved) ==
  [b EXCEPT !.cash = saved.cash, !.buffer = saved.buffer,
            !.integral = saved.integral, !.lastUpd = saved.lastUpd,
            !.lastBill = saved.lastBill]

\* restore(): balances and accrual state, not the account setup.
Restore(b, saved) ==
  [b EXCEPT !.cash = saved.cash, !.buffer = saved.buffer,
            !.integral = saved.integral, !.lastUpd = saved.lastUpd,
            !.lastBill = saved.lastBill, !.queued = saved.queued,
            !.queue = saved.queue]
-----------------------------------------------------------------------------
\* Transfers.  A posting is [src, dst, amount, chan, ts].

IsLiquidity(chan) == chan \in {"overdraftFee", "locInterest"}

\* The typed boundary a channel requires: kind and direction.
BoundaryRequirement ==
  [atm          |-> <<"atmTerminal", "outbound">>,
   cashDeposit  |-> <<"cashDepository", "inbound">>,
   checkDeposit |-> <<"checkCapture", "inbound">>,
   rampOut      |-> <<"cryptoVenue", "outbound">>,
   rampIn       |-> <<"cryptoVenue", "inbound">>]

\* A generic key may not carry a typed channel, nor a typed key another one.
\* Service endpoints are registered with the flows their kind supports.
AllowsBoundary(key, chan, flow) ==
  IF External[key] = "generic"
  THEN chan \notin DOMAIN BoundaryRequirement
  ELSE chan \in DOMAIN BoundaryRequirement
         /\ BoundaryRequirement[chan] = <<External[key], flow>>

\* The keys resolve and may carry the posting.
Booked(p) ==
  /\ p.src # Unknown /\ p.dst # Unknown
  /\ p.src \in ExternalKeys => AllowsBoundary(p.src, p.chan, "inbound")
  /\ p.dst \in ExternalKeys => AllowsBoundary(p.dst, p.chan, "outbound")

\* (mutant: an overdrawn account has its whole buffer again)
SpendableAgain(b, i, chan) ==
  IF b.cash[i] < 0 THEN b.buffer[i] ELSE b.cash[i] + b.buffer[i]

\* A transfer between a customer's own accounts may not draw on credit.
Spendable(b, i, chan) ==
  IF chan = "selfTransfer" THEN b.cash[i] ELSE b.cash[i] + b.buffer[i]

\* transferAt(KeyPosting)'s boundary checks, then decide().
Decision(b, p) ==
  IF ~Booked(p) THEN "unbooked"
  ELSE IF p.amount <= 0 THEN "invalid"
  ELSE IF p.src \in ExternalKeys /\ p.dst \in ExternalKeys THEN "unbooked"
  ELSE IF p.src \in Accounts /\ ~IsLiquidity(p.chan)
            /\ Spendable(b, p.src, p.chan) < p.amount THEN "unfunded"
  ELSE "accepted"

\* Both legs are rolled forward on the balances before the transfer, whatever
\* is decided then.
Rolled(b, p) ==
  IF ~Booked(p) THEN b ELSE Update(Update(b, p.src, p.ts), p.dst, p.ts)

\* (mutant: a fee on every debit that ends below zero)
FeeFiresBelowZero(b, p, after) ==
  /\ b.prot[p.src] \in {"courtesy", "linked"} /\ p.src \notin Cards
  /\ ~IsLiquidity(p.chan) /\ b.fee[p.src] > 0
  /\ after < 0

\* assessOverdraftFee: only a balance that crosses zero is charged, and never
\* a card's.
FeeFires(b, p, after) ==
  /\ b.prot[p.src] \in {"courtesy", "linked"} /\ p.src \notin Cards
  /\ ~IsLiquidity(p.chan) /\ b.fee[p.src] > 0
  /\ b.cash[p.src] >= 0 /\ after < 0

Moved(b, p) ==
  [i \in Accounts |-> b.cash[i] - (IF i = p.src THEN p.amount ELSE 0)
                                + (IF i = p.dst THEN p.amount ELSE 0)]

Charged(b, p) ==
  /\ Decision(b, p) = "accepted" /\ b.emit /\ p.src \in Accounts
  /\ FeeFires(b, p, Moved(b, p)[p.src])

TransferAt(b, p) ==
  IF Decision(b, p) # "accepted" THEN Rolled(b, p)
  ELSE [Rolled(b, p) EXCEPT
          !.cash = IF Charged(b, p)
                   THEN [Moved(b, p) EXCEPT ![p.src] = @ - b.fee[p.src]]
                   ELSE Moved(b, p)]

TransferEvents(b, p) ==
  IF Charged(b, p)
  THEN <<[acct |-> p.src, amount |-> b.fee[p.src], chan |-> "overdraftFee",
          ts |-> p.ts]>>
  ELSE << >>
=============================================================================
