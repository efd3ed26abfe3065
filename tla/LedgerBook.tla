----------------------------- MODULE LedgerBook -----------------------------
(***************************************************************************)
(* One clearing::Ledger in use: accounts are set up, postings settle in    *)
(* clock order, interest is accrued, and a scratch copy is restored to a   *)
(* saved book.  The operations are those of Clearing; this module is the   *)
(* state machine around them, and the refinement of LocScan.               *)
(***************************************************************************)
EXTENDS Clearing

CONSTANTS Rates,      \* APRs given to setLoc
          Fee,        \* the overdraft fee of a bank tier
          Scenarios   \* what the callers of a behaviour do: records of
                      \*   seeds     what the opening balances are drawn from
                      \*   channels, amounts  of the postings
                      \*   types     the protections given to setProtection
                      \*   calls     the other setup calls
                      \*   horizon   bound: the last instant
                      \*   setups, posts, restores  bounds: how many of each

\* What OpeningBalanceSeeder draws for an account, its burden and its card limit:
\* none of them is negative.
Seeds == [cash : Nat, fee : Nat, type : Protections, buffer : Nat, rate : Nat,
          burden : Nat, limit : Nat]

ASSUME LedgerBookAssumption ==
  /\ Rates \subseteq Nat /\ Fee \in Nat
  /\ \A s \in Scenarios :
       /\ s.seeds \subseteq Seeds /\ s.amounts \subseteq Nat /\ s.types \subseteq Protections
       /\ s.horizon \in Nat \ {0}
       /\ \A c \in s.channels : ~IsLiquidity(c)  \* the ledger alone makes such rows

VARIABLES sc,       \* the scenario, an element of Scenarios
          book, now,
          events,   \* the liquidity events sent to the sink, in order
          saved,    \* the book restore() copies from, and when it was saved
          sweeps,   \* the parity of the sweeps made, so that one that bills nothing shows
          setups, posts, restores, changedSetup

vars == <<sc, book, now, events, saved, sweeps, setups, posts, restores, changedSetup>>

Init ==
  /\ sc \in Scenarios
  /\ \E seed \in [Accounts -> sc.seeds] : book = OpeningBook(seed)
  /\ now = 1 /\ events = << >>
  /\ saved = [book |-> book, now |-> now]
  /\ sweeps = 0 /\ setups = 0 /\ posts = 0 /\ restores = 0 /\ changedSetup = FALSE

Tick ==
  /\ now < sc.horizon
  /\ now' = now + 1
  /\ UNCHANGED <<book, events, saved, setups, posts, sweeps, restores, changedSetup>>

Configure(b) ==
  /\ setups < sc.setups
  /\ book' = b /\ setups' = setups + 1 /\ changedSetup' = TRUE
  /\ UNCHANGED <<now, events, saved, posts, sweeps, restores>>

Setup(i) ==
  \/ \E type \in sc.types, a \in sc.amounts : Configure(SetProtection(book, i, type, a))
  \/ \E r \in Rates : Configure(SetLoc(book, i, r))
  \/ \E a \in sc.amounts :
       "overdraft" \in sc.calls /\ Configure(SetOverdraftOnly(book, i, a))
  \/ "tier" \in sc.calls /\ Configure(SetBankTier(book, i, Fee))

\* transferAt at the present instant.
Post ==
  /\ posts < sc.posts
  /\ \E src, dst \in Endpoints, a \in sc.amounts, chan \in sc.channels :
       LET p == [src |-> src, dst |-> dst, amount |-> a, chan |-> chan, ts |-> now] IN
         /\ book' = TransferAt(book, p)
         /\ events' = events \o TransferEvents(book, p)
  /\ posts' = posts + 1
  /\ UNCHANGED <<now, saved, setups, sweeps, restores, changedSetup>>

AccrueThrough ==
  /\ book' = Accrue(book, now)
  /\ events' = events \o AccrueEvents(book, now)
  /\ sweeps' = 1 - sweeps
  /\ UNCHANGED <<now, saved, setups, posts, restores, changedSetup>>

SetEmitLiquidity ==
  /\ setups < sc.setups /\ "emit" \in sc.calls
  /\ book' = [book EXCEPT !.emit = ~@]
  /\ setups' = setups + 1
  /\ UNCHANGED <<now, events, saved, posts, sweeps, restores, changedSetup>>

\* clone(), and restore() onto a book whose account setup is the clone's.
Clone ==
  /\ restores < sc.restores
  /\ saved' = [book |-> book, now |-> now] /\ changedSetup' = FALSE
  /\ UNCHANGED <<book, now, events, setups, posts, sweeps, restores>>

RestoreBook ==
  /\ ~changedSetup /\ restores < sc.restores
  /\ restores' = restores + 1
  /\ book' = Restore(book, saved.book) /\ now' = saved.now
  /\ UNCHANGED <<events, saved, setups, posts, changedSetup, sweeps>>

Next ==
  /\ \/ Tick \/ Post \/ AccrueThrough \/ SetEmitLiquidity \/ Clone \/ RestoreBook
     \/ \E i \in Accounts : Setup(i)
  /\ UNCHANGED sc

Spec == Init /\ [][Next]_vars
-----------------------------------------------------------------------------
\* Every account has its fields in range, no instant is in the future, and
\* dollar-seconds are never negative.
TypeOK ==
  /\ \A i \in Accounts :
       /\ book.cash[i] \in Int /\ book.buffer[i] \in Nat /\ book.fee[i] \in Nat
       /\ book.prot[i] \in Protections /\ book.on[i] \in BOOLEAN
       /\ book.apr[i] \in Nat /\ book.integral[i] \in Nat
       /\ book.lastUpd[i] \in 0 .. now /\ book.lastBill[i] \in 0 .. now
       /\ book.queued[i] \in {NotQueued} \cup 0 .. (now + Period)
  /\ book.queue \subseteq (0 .. sc.horizon + Period) \X Accounts
  /\ book.emit \in BOOLEAN /\ now \in 1 .. sc.horizon /\ sweeps \in {0, 1}

\* An account accrues interest exactly while it is protected by a line of
\* credit, and its next billing is in the queue, due one period after the last
\* one, however it was enabled, disabled and enabled again.
QueueExact ==
  \A i \in Accounts :
    /\ book.on[i] <=> book.prot[i] = "loc"
    /\ book.on[i] =>
         /\ <<book.queued[i], i>> \in book.queue
         /\ book.queued[i] = IF book.lastBill[i] = 0 THEN 0
                             ELSE book.lastBill[i] + Period

\* The lazy accrual implements the scan: what the slot owes is its integral and
\* the interval since its last update.
Owed(b, t) == [i \in Accounts |-> IF b.on[i] THEN Accrued(b, i, t) ELSE 0]
Started(b) == [i \in Accounts |-> b.lastUpd[i] # 0]
StateOf(b, t) == <<b.cash, Owed(b, t), Started(b), b.lastBill>>
SavedState == <<saved.now, StateOf(saved.book, saved.now)>>

\* The interest rows among the events.
InterestRows(ev) ==
  LET rows[n \in 0 .. Len(ev)] ==
        IF n = 0 THEN << >>
        ELSE IF ev[n].chan = "locInterest" THEN Append(rows[n - 1], ev[n])
        ELSE rows[n - 1]
  IN  rows[Len(ev)]

Scan == INSTANCE LocScan WITH
  Slots <- Accounts, cash <- book.cash, on <- book.on, apr <- book.apr,
  emit <- book.emit, owed <- Owed(book, now), started <- Started(book),
  lastBill <- book.lastBill,
  bills <- InterestRows(events),
  saved <- SavedState
\* Every interest row has the instant, the amount and the place in the order
\* that the scan over all slots would give it.
ImplementsScan == Scan!Spec

\* What the bank has charged account i, after each of the events.
ChargesOf(ev, i) ==
  LET sum[n \in 0 .. Len(ev)] ==
        IF n = 0 THEN 0 ELSE sum[n - 1] + IF ev[n].acct = i THEN ev[n].amount ELSE 0
  IN  sum[Len(ev)]
Charges(i) == ChargesOf(events, i)

\* In a book set up by OpeningBook, no sequence of transfers takes an account
\* further below zero than its buffer and what the bank itself has charged it:
\* fees and interest bypass the funding check, nothing else does.
BufferFloor ==
  setups = 0 => \A i \in Accounts : book.cash[i] + book.buffer[i] + Charges(i) >= 0

\* An overdraft fee is charged once per excursion below zero: an account that
\* is already overdrawn is not charged again, and no card is.
FeeOncePerCrossing ==
  [][\A k \in DOMAIN events' \ DOMAIN events :
       events'[k].chan = "overdraftFee" =>
         /\ events'[k].acct \notin Cards
         /\ book.cash[events'[k].acct] >= 0
         /\ book'.cash[events'[k].acct] < 0]_vars

\* The book keeps its ranges, and its queue of billings agrees with the slots
\* (Ledger with LocAccrual: setProtection, transferAt, sweep, clone, restore).
BookInvariant == TypeOK /\ QueueExact
=============================================================================
