-------------------------- MODULE LedgerBook_proofs -------------------------
(***************************************************************************)
(* The clearing ledger for every number of accounts, every opening and     *)
(* every sequence of setups, postings, sweeps, clones and restores.        *)
(***************************************************************************)
EXTENDS LedgerBook, InductionLemmas

Books ==
  [cash : [Accounts -> Int], buffer : [Accounts -> Nat],
   prot : [Accounts -> Protections], fee : [Accounts -> Nat],
   on : [Accounts -> BOOLEAN], apr : [Accounts -> Nat],
   integral : [Accounts -> Nat], lastUpd : [Accounts -> Nat],
   lastBill : [Accounts -> Nat], queued : [Accounts -> Int],
   queue : SUBSET (Nat \X Accounts), emit : BOOLEAN]

Shape(c) ==
  c = [cash |-> c.cash, buffer |-> c.buffer, prot |-> c.prot, fee |-> c.fee,
       on |-> c.on, apr |-> c.apr, integral |-> c.integral, lastUpd |-> c.lastUpd,
       lastBill |-> c.lastBill, queued |-> c.queued, queue |-> c.queue, emit |-> c.emit]

Typed(c) ==
  /\ c.cash \in [Accounts -> Int] /\ c.buffer \in [Accounts -> Nat]
  /\ c.prot \in [Accounts -> Protections] /\ c.fee \in [Accounts -> Nat]
  /\ c.on \in [Accounts -> BOOLEAN] /\ c.apr \in [Accounts -> Nat]
  /\ c.integral \in [Accounts -> Nat] /\ c.lastUpd \in [Accounts -> Nat]
  /\ c.lastBill \in [Accounts -> Nat] /\ c.queued \in [Accounts -> Int]
  /\ c.queue \in SUBSET (Nat \X Accounts) /\ c.emit \in BOOLEAN

LEMMA ShapeTyped == ASSUME NEW c, Shape(c), Typed(c) PROVE c \in Books
BY DEF Shape, Typed, Books

\* Slot i of book b at time t: no instant is in the future, an enabled slot is in
\* the queue at its token, a disabled one is reset, and one whose billing clock
\* runs has been updated.
SlotOK(b, t, i) ==
  /\ b.lastUpd[i] <= t /\ b.lastBill[i] <= t
  /\ b.queued[i] \in {NotQueued} \cup 0 .. (t + Period)
  /\ b.on[i] <=> b.prot[i] = "loc"
  /\ b.on[i] => /\ <<b.queued[i], i>> \in b.queue
                /\ b.queued[i] = IF b.lastBill[i] = 0 THEN 0 ELSE b.lastBill[i] + Period
  /\ ~b.on[i] => b.lastUpd[i] = 0 /\ b.lastBill[i] = 0
  /\ b.lastBill[i] # 0 => b.lastUpd[i] # 0

BookOK(b, t) ==
  /\ b \in Books
  /\ b.queue \subseteq (0 .. t + Period) \X Accounts
  /\ \A i \in Accounts : SlotOK(b, t, i)

-----------------------------------------------------------------------------
\* Dollar-seconds are never negative.
LEMMA Product == ASSUME NEW x \in Nat, NEW y \in Nat PROVE x * y \in Nat
OBVIOUS

LEMMA AccruedNat ==
  ASSUME NEW b \in Books, NEW i \in Accounts, NEW t \in Nat PROVE Accrued(b, i, t) \in Nat
<1>1. b.cash[i] \in Int /\ b.integral[i] \in Nat /\ b.lastUpd[i] \in Nat
  BY DEF Books
<1>2. CASE t > b.lastUpd[i] /\ b.cash[i] < 0
  <2>1. (-b.cash[i]) * (t - b.lastUpd[i]) \in Nat
    BY <1>1, <1>2, Product
  <2> QED BY <1>1, <2>1 DEF Accrued
<1> QED BY <1>1, <1>2 DEF Accrued

\* What concerns a slot j is in c as it is in b.
SameSlot(b, c, j) ==
  /\ c.prot[j] = b.prot[j] /\ c.on[j] = b.on[j] /\ c.apr[j] = b.apr[j]
  /\ c.integral[j] = b.integral[j] /\ c.lastUpd[j] = b.lastUpd[j]
  /\ c.lastBill[j] = b.lastBill[j] /\ c.queued[j] = b.queued[j]

\* Nor does any slot accrue differently in c.
SameAccrual(b, c) ==
  /\ c.on = b.on /\ c.apr = b.apr /\ c.integral = b.integral
  /\ c.lastUpd = b.lastUpd /\ c.lastBill = b.lastBill /\ c.emit = b.emit

\* Slot i of c starts afresh, the other slots are as in b.
Reset(b, c, i) ==
  /\ c \in Books /\ c.emit = b.emit
  /\ c.integral[i] = 0 /\ c.lastUpd[i] = 0 /\ c.lastBill[i] = 0
  /\ \A j \in Accounts \ {i} : SameSlot(b, c, j) /\ c.cash[j] = b.cash[j]

\* c is b with slot i enabled, or disabled, and every other slot left alone.
EnabledSlot(b, c, i) ==
  /\ c \in Books
  /\ c.cash = b.cash /\ c.buffer = b.buffer /\ c.prot = b.prot /\ c.emit = b.emit
  /\ c.on[i] = TRUE /\ c.integral[i] = 0 /\ c.lastUpd[i] = 0 /\ c.lastBill[i] = 0
  /\ c.queued[i] = 0
  /\ c.queue = b.queue \cup {<<0, i>>}
  /\ \A j \in Accounts \ {i} : SameSlot(b, c, j)

DisabledSlot(b, c, i) ==
  /\ c \in Books
  /\ c.cash = b.cash /\ c.buffer = b.buffer /\ c.prot = b.prot /\ c.emit = b.emit
  /\ c.on[i] = FALSE /\ c.integral[i] = 0 /\ c.lastUpd[i] = 0 /\ c.lastBill[i] = 0
  /\ c.queued[i] = NotQueued /\ c.queue = b.queue
  /\ \A j \in Accounts \ {i} : SameSlot(b, c, j)

LEMMA EnableOK ==
  ASSUME NEW b \in Books, NEW i \in Accounts, NEW rate \in Nat
  PROVE  EnabledSlot(b, Enable(b, i, rate), i)
<1>1. PICK c : c = Enable(b, i, rate)
  OBVIOUS
<1>2. /\ c.on = [b.on EXCEPT ![i] = TRUE] /\ c.apr = [b.apr EXCEPT ![i] = rate]
      /\ c.integral = [b.integral EXCEPT ![i] = 0]
      /\ c.lastUpd = [b.lastUpd EXCEPT ![i] = 0]
      /\ c.lastBill = [b.lastBill EXCEPT ![i] = 0]
      /\ c.queued = [b.queued EXCEPT ![i] = 0] /\ c.queue = b.queue \cup {<<0, i>>}
      /\ c.cash = b.cash /\ c.buffer = b.buffer /\ c.prot = b.prot /\ c.fee = b.fee
      /\ c.emit = b.emit
  BY <1>1 DEF Enable, Books
<1>3. Shape(c)
  BY <1>1 DEF Enable, Books, Shape
<1>4. Typed(c)
  BY <1>2 DEF Books, Typed
<1>5. c \in Books
  BY <1>3, <1>4, ShapeTyped
<1> QED BY <1>1, <1>2, <1>5 DEF Books, SameSlot, EnabledSlot

LEMMA DisableOK ==
  ASSUME NEW b \in Books, NEW i \in Accounts
  PROVE  DisabledSlot(b, Disable(b, i), i)
<1>1. PICK c : c = Disable(b, i)
  OBVIOUS
<1>2. /\ c.on = [b.on EXCEPT ![i] = FALSE] /\ c.apr = [b.apr EXCEPT ![i] = 0]
      /\ c.integral = [b.integral EXCEPT ![i] = 0]
      /\ c.lastUpd = [b.lastUpd EXCEPT ![i] = 0]
      /\ c.lastBill = [b.lastBill EXCEPT ![i] = 0]
      /\ c.queued = [b.queued EXCEPT ![i] = NotQueued] /\ c.queue = b.queue
      /\ c.cash = b.cash /\ c.buffer = b.buffer /\ c.prot = b.prot /\ c.fee = b.fee
      /\ c.emit = b.emit
  BY <1>1 DEF Disable, Books
<1>3. Shape(c)
  BY <1>1 DEF Disable, Books, Shape
<1>4. Typed(c)
  BY <1>2 DEF Books, Typed, NotQueued
<1>5. c \in Books
  BY <1>3, <1>4, ShapeTyped
<1> QED BY <1>1, <1>2, <1>5 DEF Books, SameSlot, DisabledSlot

\* A setup call that leaves the other slots alone keeps the book in order if it
\* leaves slot i in order.
LEMMA OneSlot ==
  ASSUME NEW t \in Nat, NEW b, BookOK(b, t), NEW i \in Accounts, NEW c \in Books,
         \A j \in Accounts \ {i} : SameSlot(b, c, j),
         b.queue \subseteq c.queue, c.queue \subseteq b.queue \cup {<<0, i>>},
         SlotOK(c, t, i)
  PROVE  BookOK(c, t)
<1>1. ASSUME NEW j \in Accounts \ {i} PROVE SlotOK(c, t, j)
  BY <1>1 DEF BookOK, SlotOK, SameSlot
<1>2. 0 \in 0 .. t + Period
  BY ClearingAssumption
<1> QED BY <1>1, <1>2 DEF BookOK

LEMMA SetProtectionOK ==
  ASSUME NEW t \in Nat, NEW b, BookOK(b, t), NEW i \in Accounts,
         NEW type \in Protections, NEW amount \in Nat,
         NEW c, c = SetProtection(b, i, type, amount)
  PROVE  BookOK(c, t) /\ c.cash = b.cash /\ Reset(b, c, i)
<1> DEFINE kept == IF type = "none" THEN 0 ELSE amount
<1>1. b \in Books /\ kept \in Nat
  BY DEF BookOK
<1>2. PICK d : d = [b EXCEPT !.prot[i] = type, !.buffer[i] = kept]
  OBVIOUS
<1>3. c = IF type = "loc" THEN Enable(d, i, 0) ELSE Disable(d, i)
  BY <1>2 DEF SetProtection
<1> HIDE DEF kept
<1>4. /\ d.prot = [b.prot EXCEPT ![i] = type]
      /\ d.buffer = [b.buffer EXCEPT ![i] = kept]
      /\ d.cash = b.cash /\ d.fee = b.fee /\ d.on = b.on /\ d.apr = b.apr
      /\ d.integral = b.integral /\ d.lastUpd = b.lastUpd /\ d.lastBill = b.lastBill
      /\ d.queued = b.queued /\ d.queue = b.queue /\ d.emit = b.emit
  BY <1>1, <1>2 DEF Books
<1>5. d \in Books
  <2>1. Shape(d)
    BY <1>1, <1>2 DEF Books, Shape
  <2>2. Typed(d)
    BY <1>1, <1>4 DEF Books, Typed
  <2> QED BY <2>1, <2>2, ShapeTyped
<1>6. d.prot[i] = type /\ \A j \in Accounts \ {i} : SameSlot(b, d, j)
  BY <1>1, <1>4 DEF Books, SameSlot
<1>7. CASE type = "loc"
  <2>1. c = Enable(d, i, 0)
    BY <1>3, <1>7
  <2>2. EnabledSlot(d, c, i)
    BY <1>5, <2>1, EnableOK
  <2>3. SlotOK(c, t, i)
    BY <1>6, <1>7, <2>2, ClearingAssumption DEF SlotOK, EnabledSlot
  <2>4. \A j \in Accounts \ {i} : SameSlot(b, c, j)
    BY <1>6, <2>2 DEF SameSlot, EnabledSlot
  <2>5. Reset(b, c, i)
    BY <1>4, <2>2, <2>4 DEF EnabledSlot, Reset
  <2> QED BY <1>4, <2>2, <2>3, <2>4, <2>5, OneSlot DEF EnabledSlot
<1>8. CASE type # "loc"
  <2>1. c = Disable(d, i)
    BY <1>3, <1>8
  <2>2. DisabledSlot(d, c, i)
    BY <1>5, <2>1, DisableOK
  <2>3. SlotOK(c, t, i)
    BY <1>6, <1>8, <2>2, ClearingAssumption DEF SlotOK, DisabledSlot
  <2>4. \A j \in Accounts \ {i} : SameSlot(b, c, j)
    BY <1>6, <2>2 DEF SameSlot, DisabledSlot
  <2>5. Reset(b, c, i)
    BY <1>4, <2>2, <2>4 DEF DisabledSlot, Reset
  <2> QED BY <1>4, <2>2, <2>3, <2>4, <2>5, OneSlot DEF DisabledSlot
<1> QED BY <1>7, <1>8

LEMMA SetLocOK ==
  ASSUME NEW t \in Nat, NEW b, BookOK(b, t), NEW i \in Accounts, NEW rate \in Nat,
         NEW c, c = SetLoc(b, i, rate)
  PROVE  BookOK(c, t) /\ c.cash = b.cash /\ (Reset(b, c, i) \/ c = b)
<1>1. CASE b.prot[i] = "loc"
  <2>1. c = Enable(b, i, rate) /\ b \in Books
    BY <1>1 DEF SetLoc, BookOK
  <2>2. EnabledSlot(b, c, i)
    BY <2>1, EnableOK
  <2>3. SlotOK(c, t, i)
    BY <1>1, <2>2, ClearingAssumption DEF SlotOK, EnabledSlot
  <2>4. Reset(b, c, i)
    BY <2>2 DEF EnabledSlot, Reset
  <2> QED BY <2>2, <2>3, <2>4, OneSlot DEF EnabledSlot
<1> QED BY <1>1 DEF SetLoc

LEMMA SetOverdraftOnlyOK ==
  ASSUME NEW t \in Nat, NEW b, BookOK(b, t), NEW i \in Accounts, NEW limit \in Nat,
         NEW c, c = SetOverdraftOnly(b, i, limit)
  PROVE  BookOK(c, t) /\ c.cash = [b.cash EXCEPT ![i] = 0] /\ Reset(b, c, i)
<1> DEFINE type == IF limit > 0 THEN "courtesy" ELSE "none"
<1>1. b \in Books /\ type \in Protections /\ type # "loc"
  BY DEF BookOK, Protections
<1>2. PICK d : d = [b EXCEPT !.cash[i] = 0, !.buffer[i] = limit, !.prot[i] = type]
  OBVIOUS
<1>3. c = Disable(d, i)
  BY <1>2 DEF SetOverdraftOnly
<1> HIDE DEF type
<1>4. /\ d.cash = [b.cash EXCEPT ![i] = 0] /\ d.buffer = [b.buffer EXCEPT ![i] = limit]
      /\ d.prot = [b.prot EXCEPT ![i] = type]
      /\ d.fee = b.fee /\ d.on = b.on /\ d.apr = b.apr
      /\ d.integral = b.integral /\ d.lastUpd = b.lastUpd /\ d.lastBill = b.lastBill
      /\ d.queued = b.queued /\ d.queue = b.queue /\ d.emit = b.emit
  BY <1>1, <1>2 DEF Books
<1>5. d \in Books
  <2>1. Shape(d)
    BY <1>1, <1>2 DEF Books, Shape
  <2>2. Typed(d)
    BY <1>1, <1>4 DEF Books, Typed
  <2> QED BY <2>1, <2>2, ShapeTyped
<1>6. d.prot[i] # "loc" /\ \A j \in Accounts \ {i} : SameSlot(b, d, j)
  BY <1>1, <1>4 DEF Books, SameSlot
<1>7. DisabledSlot(d, c, i)
  BY <1>5, <1>3, DisableOK
<1>8. SlotOK(c, t, i)
  BY <1>6, <1>7, ClearingAssumption DEF SlotOK, DisabledSlot
<1>9. \A j \in Accounts \ {i} : SameSlot(b, c, j)
  BY <1>6, <1>7 DEF SameSlot, DisabledSlot
<1>10. Reset(b, c, i)
  <2>1. \A j \in Accounts \ {i} : c.cash[j] = b.cash[j]
    BY <1>1, <1>4, <1>7 DEF Books, DisabledSlot
  <2> QED BY <1>4, <1>7, <1>9, <2>1 DEF DisabledSlot, Reset
<1> QED BY <1>4, <1>7, <1>8, <1>9, <1>10, OneSlot DEF DisabledSlot

LEMMA SetBankTierOK ==
  ASSUME NEW t \in Nat, NEW b, BookOK(b, t), NEW i \in Accounts, NEW amount \in Nat,
         NEW c, c = SetBankTier(b, i, amount)
  PROVE  BookOK(c, t) /\ c.cash = b.cash /\ SameAccrual(b, c)
<1>1. b \in Books
  BY DEF BookOK
<1>2. /\ c.fee = [b.fee EXCEPT ![i] = amount]
      /\ c.cash = b.cash /\ c.buffer = b.buffer /\ c.prot = b.prot /\ c.on = b.on
      /\ c.apr = b.apr /\ c.integral = b.integral /\ c.lastUpd = b.lastUpd
      /\ c.lastBill = b.lastBill /\ c.queued = b.queued /\ c.queue = b.queue
      /\ c.emit = b.emit
  BY <1>1 DEF SetBankTier, Books
<1>3. Shape(c)
  BY <1>1 DEF SetBankTier, Books, Shape
<1>4. Typed(c)
  BY <1>1, <1>2 DEF Books, Typed
<1>5. c \in Books
  BY <1>3, <1>4, ShapeTyped
<1>6. ASSUME NEW j \in Accounts PROVE SlotOK(c, t, j)
  BY <1>2 DEF BookOK, SlotOK
<1> QED BY <1>2, <1>5, <1>6 DEF BookOK, SameAccrual

\* Another cash array is no concern of the slots.
LEMMA CashOK ==
  ASSUME NEW t \in Nat, NEW b, BookOK(b, t), NEW cash \in [Accounts -> Int],
         NEW c, c = [b EXCEPT !.cash = cash]
  PROVE  BookOK(c, t) /\ c.cash = cash /\ c.buffer = b.buffer /\ SameAccrual(b, c)
<1>1. b \in Books
  BY DEF BookOK
<1>2. /\ c.cash = cash
      /\ c.buffer = b.buffer /\ c.prot = b.prot /\ c.fee = b.fee /\ c.on = b.on
      /\ c.apr = b.apr /\ c.integral = b.integral /\ c.lastUpd = b.lastUpd
      /\ c.lastBill = b.lastBill /\ c.queued = b.queued /\ c.queue = b.queue
      /\ c.emit = b.emit
  BY <1>1 DEF Books
<1>3. Shape(c)
  BY <1>1 DEF Books, Shape
<1>4. Typed(c)
  BY <1>1, <1>2 DEF Books, Typed
<1>5. c \in Books
  BY <1>3, <1>4, ShapeTyped
<1>6. ASSUME NEW j \in Accounts PROVE SlotOK(c, t, j)
  BY <1>2 DEF BookOK, SlotOK
<1> QED BY <1>2, <1>5, <1>6 DEF BookOK, SameAccrual
-----------------------------------------------------------------------------
\* No slot has been touched.
Fresh(b) ==
  /\ b.emit = TRUE
  /\ \A i \in Accounts : b.integral[i] = 0 /\ b.lastUpd[i] = 0 /\ b.lastBill[i] = 0

LEMMA FreshSame == ASSUME NEW b, NEW c, Fresh(b), SameAccrual(b, c) PROVE Fresh(c)
BY DEF Fresh, SameAccrual

LEMMA FreshReset ==
  ASSUME NEW b, NEW c, Fresh(b), NEW i \in Accounts, Reset(b, c, i) PROVE Fresh(c)
<1>1. \A j \in Accounts \ {i} : SameSlot(b, c, j)
  BY DEF Reset
<1> QED BY <1>1 DEF Fresh, Reset, SameSlot

\* A book that opens: nobody is below zero, and nothing has accrued.
Opening == {b \in Books : BookOK(b, 1) /\ Fresh(b) /\ \A i \in Accounts : b.cash[i] >= 0}

LEMMA EmptyOpens == EmptyBook \in Opening
<1>1. PICK c : c = EmptyBook
  OBVIOUS
<1>2. /\ c.cash = [i \in Accounts |-> 0] /\ c.buffer = [i \in Accounts |-> 0]
      /\ c.prot = [i \in Accounts |-> "none"] /\ c.fee = [i \in Accounts |-> 0]
      /\ c.on = [i \in Accounts |-> FALSE] /\ c.apr = [i \in Accounts |-> 0]
      /\ c.integral = [i \in Accounts |-> 0] /\ c.lastUpd = [i \in Accounts |-> 0]
      /\ c.lastBill = [i \in Accounts |-> 0]
      /\ c.queued = [i \in Accounts |-> NotQueued] /\ c.queue = {} /\ c.emit = TRUE
  BY <1>1 DEF EmptyBook
<1>3. Shape(c) /\ Typed(c)
  BY <1>1, <1>2 DEF EmptyBook, Shape, Typed, Protections, NotQueued
<1>4. \A i \in Accounts : SlotOK(c, 1, i)
  BY <1>2, ClearingAssumption DEF SlotOK, NotQueued
<1>5. Fresh(c)
  BY <1>2 DEF Fresh
<1> QED BY <1>1, <1>2, <1>3, <1>4, <1>5, ShapeTyped DEF Opening, BookOK

LEMMA SeedOpens ==
  ASSUME NEW b \in Opening, NEW i \in Accounts, NEW s \in Seeds
  PROVE  SeedOwnedAccount(b, i, s) \in Opening
<1>1. /\ BookOK(b, 1) /\ b \in Books /\ b.cash \in [Accounts -> Int]
      /\ \A j \in Accounts : b.cash[j] >= 0
  BY DEF Opening, Books
<1>2. /\ s.cash \in Nat /\ s.fee \in Nat /\ s.type \in Protections
      /\ s.buffer \in Nat /\ s.rate \in Nat
  BY DEF Seeds
<1>3. PICK cash : cash = [b.cash EXCEPT ![i] = s.cash]
  OBVIOUS
<1>4. cash \in [Accounts -> Int] /\ \A j \in Accounts : cash[j] >= 0
  BY <1>1, <1>2, <1>3
<1>5. PICK c0 : c0 = [b EXCEPT !.cash = cash]
  OBVIOUS
<1>6. PICK c1 : c1 = SetBankTier(c0, i, s.fee)
  OBVIOUS
<1>7. PICK c2 : c2 = SetProtection(c1, i, s.type, s.buffer)
  OBVIOUS
<1>8. PICK c3 : c3 = SetLoc(c2, i, s.rate)
  OBVIOUS
<1>9. BookOK(c0, 1) /\ c0.cash = cash /\ Fresh(c0)
  BY <1>1, <1>4, <1>5, CashOK, FreshSame DEF Opening
<1>10. BookOK(c1, 1) /\ c1.cash = cash /\ Fresh(c1)
  BY <1>2, <1>6, <1>9, SetBankTierOK, FreshSame
<1>11. BookOK(c2, 1) /\ c2.cash = cash /\ Fresh(c2)
  BY <1>2, <1>7, <1>10, SetProtectionOK, FreshReset
<1>12. BookOK(c3, 1) /\ c3.cash = cash /\ Fresh(c3)
  BY <1>2, <1>8, <1>11, SetLocOK, FreshReset
<1>13. [b EXCEPT !.cash[i] = s.cash] = c0
  BY <1>1, <1>3, <1>5 DEF Books
<1>14. SeedOwnedAccount(b, i, s) = IF s.type = "loc" THEN c3 ELSE c2
  BY <1>6, <1>7, <1>8, <1>13 DEF SeedOwnedAccount
<1> QED BY <1>4, <1>11, <1>12, <1>14 DEF Opening, BookOK

\* The two loops of the opening end in a book that opens.
LEMMA SeededOpens ==
  ASSUME NEW seed \in [Accounts -> Seeds] PROVE SeededAccounts(seed) \in Opening
<1> DEFINE N == NumAccounts
           Def(f) == f = [n \in 0 .. N |->
                            IF n = 0 THEN EmptyBook
                            ELSE SeedOwnedAccount(f[n - 1], n - 1, seed[n - 1])]
           step == [x \in Opening \X (1 .. N) |->
                      SeedOwnedAccount(x[1], x[2] - 1, seed[x[2] - 1])]
<1>1. N \in Nat
  BY ClearingAssumption
<1>2. ASSUME NEW b \in Opening, NEW n \in 1 .. N
      PROVE  /\ step[<<b, n>>] = SeedOwnedAccount(b, n - 1, seed[n - 1])
             /\ step[<<b, n>>] \in Opening
  <2>1. n - 1 \in Accounts
    BY <1>1 DEF Accounts
  <2> QED BY <2>1, SeedOpens
<1>3. step \in [Opening \X (1 .. N) -> Opening]
  BY <1>2
<1> HIDE DEF step
<1>4. PICK f : LoopRun(N, Opening, EmptyBook, step, f)
  BY <1>1, <1>3, EmptyOpens, LoopExists
<1>5. Def(f)
  <2>1. ASSUME NEW n \in 0 .. N, n # 0
        PROVE  f[n] = SeedOwnedAccount(f[n - 1], n - 1, seed[n - 1])
    <3>1. n \in 1 .. N /\ n - 1 \in 0 .. N
      BY <1>1, <2>1
    <3> QED BY <1>2, <1>4, <3>1 DEF LoopRun
  <2> QED BY <1>1, <1>4, <2>1 DEF LoopRun
<1> DEFINE g == CHOOSE g : Def(g)
<1>6. Def(g)
  BY <1>5
<1>7. SeededAccounts(seed) = g[N]
  BY DEF SeededAccounts
<1>8. /\ g[0] = EmptyBook
      /\ \A n \in 0 .. N - 1 : g[n + 1] = SeedOwnedAccount(g[n], n, seed[n])
  <2> HIDE DEF g
  <2>1. ASSUME NEW n \in 0 .. N - 1
        PROVE  n + 1 \in 0 .. N /\ n + 1 # 0 /\ (n + 1) - 1 = n
    BY <1>1
  <2> QED BY <1>1, <1>6, <2>1
<1> DEFINE T == {n \in 0 .. N : g[n] \in Opening}
<1>9. 0 \in T
  BY <1>1, <1>8, EmptyOpens
<1>10. ASSUME NEW n \in 0 .. N - 1, n \in T PROVE n + 1 \in T
  <2>1. n + 1 \in 0 .. N /\ n \in Accounts
    BY <1>1 DEF Accounts
  <2> HIDE DEF g
  <2> QED BY <1>8, <1>10, <2>1, SeedOpens
<1> HIDE DEF T
<1>11. 0 .. N \subseteq T
  BY <1>1, <1>9, <1>10, BoundedInduction
<1> HIDE DEF g
<1> QED BY <1>1, <1>7, <1>11 DEF T

LEMMA LimitOpens ==
  ASSUME NEW b \in Opening, NEW i \in Accounts, NEW limit \in Nat
  PROVE  SetOverdraftOnly(b, i, limit) \in Opening
<1>1. PICK c : c = SetOverdraftOnly(b, i, limit)
  OBVIOUS
<1>2. BookOK(c, 1) /\ c.cash = [b.cash EXCEPT ![i] = 0] /\ Fresh(c)
  BY <1>1, SetOverdraftOnlyOK, FreshReset DEF Opening
<1> QED BY <1>1, <1>2 DEF Opening, BookOK, Books

LEMMA LimitedOpens ==
  ASSUME NEW b \in Opening, NEW seed \in [Accounts -> Seeds]
  PROVE  WithCardLimits(b, seed) \in Opening
<1> DEFINE Limit(c, n) ==
             IF n - 1 \in Cards THEN SetOverdraftOnly(c, n - 1, seed[n - 1].limit) ELSE c
<1> DEFINE N == NumAccounts
           Def(f) == f = [n \in 0 .. N |->
                            IF n = 0 THEN b
                            ELSE IF n - 1 \in Cards
                                 THEN SetOverdraftOnly(f[n - 1], n - 1, seed[n - 1].limit)
                            ELSE f[n - 1]]
           step == [x \in Opening \X (1 .. N) |->
                      Limit(x[1], x[2])]
<1>1. N \in Nat
  BY ClearingAssumption
<1>2. ASSUME NEW c \in Opening, NEW n \in 1 .. N
      PROVE  /\ step[<<c, n>>] = Limit(c, n)
             /\ step[<<c, n>>] \in Opening
  <2>1. n - 1 \in Accounts /\ seed[n - 1].limit \in Nat
    BY <1>1 DEF Accounts, Seeds
  <2> QED BY <2>1, LimitOpens
<1>3. step \in [Opening \X (1 .. N) -> Opening]
  BY <1>2
<1> HIDE DEF step
<1>4. PICK f : LoopRun(N, Opening, b, step, f)
  BY <1>1, <1>3, LoopExists
<1>5. Def(f)
  <2>1. ASSUME NEW n \in 0 .. N, n # 0
        PROVE  f[n] = Limit(f[n - 1], n)
    <3>1. n \in 1 .. N /\ n - 1 \in 0 .. N
      BY <1>1, <2>1
    <3> QED BY <1>2, <1>4, <3>1 DEF LoopRun
  <2> QED BY <1>1, <1>4, <2>1 DEF LoopRun
<1> DEFINE g == CHOOSE g : Def(g)
<1>6. Def(g)
  BY <1>5
<1>7. WithCardLimits(b, seed) = g[N]
  BY DEF WithCardLimits
<1>8. /\ g[0] = b
      /\ \A n \in 0 .. N - 1 : g[n + 1] = Limit(g[n], n + 1)
  <2> HIDE DEF g
  <2>1. ASSUME NEW n \in 0 .. N - 1
        PROVE  n + 1 \in 0 .. N /\ n + 1 # 0 /\ (n + 1) - 1 = n
    BY <1>1
  <2> QED BY <1>1, <1>6, <2>1
<1> DEFINE T == {n \in 0 .. N : g[n] \in Opening}
<1>9. 0 \in T
  BY <1>1, <1>8
<1>10. ASSUME NEW n \in 0 .. N - 1, n \in T PROVE n + 1 \in T
  <2>1. n + 1 \in 0 .. N /\ n \in Accounts
    BY <1>1 DEF Accounts
  <2>2. seed[n].limit \in Nat /\ (n + 1) - 1 = n
    BY <2>1 DEF Seeds
  <2> HIDE DEF g
  <2> QED BY <1>8, <1>10, <2>1, <2>2, LimitOpens
<1> HIDE DEF T
<1>11. 0 .. N \subseteq T
  BY <1>1, <1>9, <1>10, BoundedInduction
<1> HIDE DEF g
<1> QED BY <1>1, <1>7, <1>11 DEF T

LEMMA OpeningOpens ==
  ASSUME NEW seed \in [Accounts -> Seeds] PROVE OpeningBook(seed) \in Opening
<1>1. PICK b : b = SeededAccounts(seed)
  OBVIOUS
<1>2. PICK cash : cash = [i \in Accounts |-> b.cash[i] + seed[i].burden]
  OBVIOUS
<1>3. PICK c : c = [b EXCEPT !.cash = cash]
  OBVIOUS
<1>4. b \in Opening /\ BookOK(b, 1) /\ b.cash \in [Accounts -> Int]
  BY <1>1, SeededOpens DEF Opening, Books
<1>5. cash \in [Accounts -> Int] /\ \A i \in Accounts : cash[i] >= 0
  <2>1. \A i \in Accounts : seed[i].burden \in Nat /\ b.cash[i] \in Int /\ b.cash[i] >= 0
    BY <1>4 DEF Opening, Seeds
  <2> QED BY <1>2, <2>1
<1>6. c \in Opening
  BY <1>3, <1>4, <1>5, CashOK, FreshSame DEF Opening, BookOK
<1>7. [b EXCEPT !.cash = [i \in Accounts |-> @[i] + seed[i].burden]] = c
  BY <1>2, <1>3, <1>4 DEF Opening, Books
<1>8. OpeningBook(seed) = WithCardLimits(c, seed)
  BY <1>1, <1>7 DEF OpeningBook
<1> QED BY <1>6, <1>8, LimitedOpens
-----------------------------------------------------------------------------
\* What no posting and no sweep changes.
SameSetup(b, c) ==
  c.prot = b.prot /\ c.on = b.on /\ c.buffer = b.buffer /\ c.fee = b.fee

\* Slots of c are those of b rolled forward to t, or left alone.
RolledSlot(b, c, t, j) ==
  \/ c.integral[j] = b.integral[j] /\ c.lastUpd[j] = b.lastUpd[j]
  \/ b.on[j] /\ c.integral[j] = Accrued(b, j, t) /\ c.lastUpd[j] = t
RolledTo(b, c, t) ==
  /\ c.apr = b.apr /\ c.lastBill = b.lastBill /\ c.emit = b.emit
  /\ \A j \in Accounts : RolledSlot(b, c, t, j)

\* update() moves the integral of one slot to the present.
LEMMA UpdateOK ==
  ASSUME NEW t \in Nat \ {0}, NEW b, BookOK(b, t), NEW i, NEW c, c = Update(b, i, t)
  PROVE  /\ BookOK(c, t) /\ SameSetup(b, c) /\ c.cash = b.cash /\ RolledTo(b, c, t)
         /\ i \in Accounts /\ b.on[i] => c.lastUpd[i] = t
<1>1. b \in Books
  BY DEF BookOK
<1>2. CASE i \in Accounts /\ b.on[i] /\ t # 0
  <2>1. PICK owed : owed = Accrued(b, i, t)
    OBVIOUS
  <2>2. owed \in Nat
    BY <1>1, <1>2, <2>1, AccruedNat
  <2>3. c = [b EXCEPT !.integral[i] = owed, !.lastUpd[i] = t]
    BY <1>2, <2>1 DEF Update
  <2>4. /\ c.integral = [b.integral EXCEPT ![i] = owed]
        /\ c.lastUpd = [b.lastUpd EXCEPT ![i] = t]
        /\ c.cash = b.cash /\ c.buffer = b.buffer /\ c.prot = b.prot /\ c.fee = b.fee
        /\ c.on = b.on /\ c.apr = b.apr /\ c.lastBill = b.lastBill
        /\ c.queued = b.queued /\ c.queue = b.queue /\ c.emit = b.emit
    BY <1>1, <2>3 DEF Books
  <2>5. Shape(c)
    BY <1>1, <2>3 DEF Books, Shape
  <2>6. Typed(c)
    <3>1. c.integral \in [Accounts -> Nat] /\ c.lastUpd \in [Accounts -> Nat]
      BY <1>1, <1>2, <2>2, <2>4 DEF Books
    <3> QED BY <1>1, <2>4, <3>1 DEF Books, Typed
  <2>7. ASSUME NEW j \in Accounts PROVE SlotOK(c, t, j)
    <3>1. SlotOK(b, t, j)
      BY DEF BookOK
    <3>2. c.lastUpd[j] = b.lastUpd[j] \/ (c.lastUpd[j] = t /\ b.on[j])
      BY <1>1, <1>2, <2>4 DEF Books
    <3> QED BY <2>4, <3>1, <3>2 DEF SlotOK
  <2>8. RolledTo(b, c, t) /\ c.lastUpd[i] = t
    BY <1>1, <1>2, <2>1, <2>4 DEF Books, RolledTo, RolledSlot
  <2> QED BY <2>4, <2>5, <2>6, <2>7, <2>8, ShapeTyped DEF BookOK, SameSetup
<1>3. CASE ~(i \in Accounts /\ b.on[i] /\ t # 0)
  <2>1. c = b
    BY <1>3 DEF Update
  <2> QED BY <1>3, <2>1 DEF SameSetup, RolledTo, RolledSlot
<1> QED BY <1>2, <1>3

LEMMA RolledOK ==
  ASSUME NEW t \in Nat \ {0}, NEW b, BookOK(b, t), NEW p, p.ts = t,
         NEW c, c = Rolled(b, p)
  PROVE  /\ BookOK(c, t) /\ SameSetup(b, c) /\ c.cash = b.cash /\ RolledTo(b, c, t)
         /\ \A j \in Accounts : Booked(p) /\ b.on[j] /\ j \in {p.src, p.dst}
                                  => c.lastUpd[j] = t
<1>1. PICK d : d = Update(b, p.src, t)
  OBVIOUS
<1>2. PICK e : e = Update(d, p.dst, t)
  OBVIOUS
<1>3. BookOK(d, t) /\ SameSetup(b, d) /\ d.cash = b.cash /\ RolledTo(b, d, t)
  BY <1>1, UpdateOK
<1>4. BookOK(e, t) /\ SameSetup(d, e) /\ e.cash = d.cash /\ RolledTo(d, e, t)
  BY <1>2, <1>3, UpdateOK
<1>5. c = IF Booked(p) THEN e ELSE b
  BY <1>1, <1>2 DEF Rolled
<1>6. ASSUME NEW j \in Accounts
      PROVE  /\ RolledSlot(b, e, t, j)
             /\ b.on[j] /\ j \in {p.src, p.dst} => e.lastUpd[j] = t
  <2>1. RolledSlot(b, d, t, j) /\ RolledSlot(d, e, t, j)
    BY <1>3, <1>4 DEF RolledTo
  <2>2. d.on = b.on
    BY <1>3 DEF SameSetup
  <2>3. d.integral[j] \in Nat
    BY <1>3 DEF BookOK, Books
  <2>4. d.lastUpd[j] = t => Accrued(d, j, t) = d.integral[j]
    BY <2>3 DEF Accrued
  <2>5. d.integral[j] = b.integral[j] /\ d.lastUpd[j] = b.lastUpd[j]
          => Accrued(d, j, t) = Accrued(b, j, t)
    BY <1>3 DEF Accrued
  <2>6. b.on[j] /\ j = p.src => d.lastUpd[j] = t
    BY <1>1, UpdateOK
  <2>7. b.on[j] /\ j = p.dst => e.lastUpd[j] = t
    BY <1>2, <1>3, <2>2, UpdateOK
  <2> QED BY <2>2, <2>1, <2>4, <2>5, <2>6, <2>7 DEF RolledSlot
<1>7. RolledTo(b, e, t) /\ RolledTo(b, b, t)
  <2>1. \A j \in Accounts : RolledSlot(b, e, t, j) /\ RolledSlot(b, b, t, j)
    BY <1>6 DEF RolledSlot
  <2>2. e.apr = b.apr /\ e.lastBill = b.lastBill /\ e.emit = b.emit
    BY <1>3, <1>4 DEF RolledTo
  <2> QED BY <2>1, <2>2 DEF RolledTo
<1>8. SameSetup(b, e) /\ e.cash = b.cash
  BY <1>3, <1>4 DEF SameSetup
<1> QED BY <1>4, <1>5, <1>6, <1>7, <1>8 DEF SameSetup

\* The cash after a posting.
CashAfter(b, p) ==
  IF Decision(b, p) # "accepted" THEN b.cash
  ELSE IF Charged(b, p) THEN [Moved(b, p) EXCEPT ![p.src] = @ - b.fee[p.src]]
  ELSE Moved(b, p)

LEMMA CashAfterType ==
  ASSUME NEW b \in Books, NEW p, p.amount \in Nat
  PROVE  /\ Moved(b, p) \in [Accounts -> Int] /\ CashAfter(b, p) \in [Accounts -> Int]
         /\ \A i \in Accounts :
              Moved(b, p)[i] = b.cash[i] - (IF i = p.src THEN p.amount ELSE 0)
                                         + (IF i = p.dst THEN p.amount ELSE 0)
<1>1. b.cash \in [Accounts -> Int] /\ b.fee \in [Accounts -> Nat]
  BY DEF Books
<1>2. \A i \in Accounts : /\ (IF i = p.src THEN p.amount ELSE 0) \in Int
                          /\ (IF i = p.dst THEN p.amount ELSE 0) \in Int
  OBVIOUS
<1>3. /\ Moved(b, p) \in [Accounts -> Int]
      /\ \A i \in Accounts :
              Moved(b, p)[i] = b.cash[i] - (IF i = p.src THEN p.amount ELSE 0)
                                         + (IF i = p.dst THEN p.amount ELSE 0)
  BY <1>1, <1>2 DEF Moved
<1>4. CashAfter(b, p) \in [Accounts -> Int]
  BY <1>1, <1>3 DEF CashAfter, Charged
<1> QED BY <1>3, <1>4

LEMMA TransferOK ==
  ASSUME NEW t \in Nat \ {0}, NEW b, BookOK(b, t), NEW p, p.ts = t, p.amount \in Nat,
         NEW c, c = TransferAt(b, p)
  PROVE  /\ BookOK(c, t) /\ SameSetup(b, c) /\ c.cash = CashAfter(b, p)
         /\ RolledTo(b, c, t)
         /\ \A j \in Accounts : Booked(p) /\ b.on[j] /\ j \in {p.src, p.dst}
                                  => c.lastUpd[j] = t
<1>1. PICK d : d = Rolled(b, p)
  OBVIOUS
<1>2. /\ BookOK(d, t) /\ SameSetup(b, d) /\ d.cash = b.cash /\ RolledTo(b, d, t)
      /\ \A j \in Accounts : Booked(p) /\ b.on[j] /\ j \in {p.src, p.dst}
                               => d.lastUpd[j] = t
  BY <1>1, RolledOK
<1>3. CashAfter(b, p) \in [Accounts -> Int]
  BY CashAfterType DEF BookOK
<1>4. CASE Decision(b, p) = "accepted"
  <2>1. c = [d EXCEPT !.cash = CashAfter(b, p)]
    BY <1>1, <1>4 DEF TransferAt, CashAfter
  <2>2. /\ BookOK(c, t) /\ c.cash = CashAfter(b, p) /\ c.buffer = d.buffer
        /\ SameAccrual(d, c)
    BY <1>2, <1>3, <2>1, CashOK
  <2>3. c.prot = d.prot /\ c.on = d.on /\ c.fee = d.fee
    BY <1>2, <2>1 DEF BookOK, Books
  <2>4. RolledTo(b, c, t)
    BY <1>2, <2>2 DEF SameAccrual, RolledTo, RolledSlot
  <2> QED BY <1>2, <2>2, <2>3, <2>4 DEF SameSetup, SameAccrual
<1>5. CASE Decision(b, p) # "accepted"
  BY <1>1, <1>2, <1>5 DEF TransferAt, CashAfter
<1> QED BY <1>4, <1>5

\* sweep() rolls every due slot forward and queues it one period on; the entry of
\* any other enabled slot is still ahead.
LEMMA SweptOK ==
  ASSUME NEW t \in Nat \ {0}, NEW b, BookOK(b, t), NEW c, c = Swept(b, t)
  PROVE  BookOK(c, t) /\ SameSetup(b, c) /\ c.cash = b.cash
<1>1. b \in Books /\ Period \in Nat
  BY ClearingAssumption DEF BookOK
<1>2. PICK due : due = DueSlots(b, t)
  OBVIOUS
<1>3. due \subseteq Accounts /\ \A i \in due : b.on[i]
  BY <1>2 DEF DueSlots
<1>4. PICK owed : owed = [i \in Accounts |-> Accrued(b, i, t)]
  OBVIOUS
<1>5. owed \in [Accounts -> Nat]
  BY <1>1, <1>4, AccruedNat
<1>6. /\ c.integral = [i \in Accounts |->
                         IF i \notin due THEN b.integral[i]
                         ELSE IF b.lastBill[i] = 0 THEN owed[i] ELSE 0]
      /\ c.lastUpd = [i \in Accounts |-> IF i \in due THEN t ELSE b.lastUpd[i]]
      /\ c.lastBill = [i \in Accounts |-> IF i \in due THEN t ELSE b.lastBill[i]]
      /\ c.queued = [i \in Accounts |-> IF i \in due THEN t + Period ELSE b.queued[i]]
      /\ c.queue = {e \in b.queue : e[1] > t} \cup {<<t + Period, i>> : i \in due}
      /\ c.cash = b.cash /\ c.buffer = b.buffer /\ c.prot = b.prot /\ c.fee = b.fee
      /\ c.on = b.on /\ c.apr = b.apr /\ c.emit = b.emit
  BY <1>1, <1>2, <1>4 DEF Swept, Books
<1>7. Shape(c)
  BY <1>1 DEF Swept, Books, Shape
<1>8. Typed(c)
  <2>1. c.queue \in SUBSET (Nat \X Accounts)
    BY <1>1, <1>3, <1>6 DEF Books
  <2>2. /\ c.integral \in [Accounts -> Nat] /\ c.lastUpd \in [Accounts -> Nat]
        /\ c.lastBill \in [Accounts -> Nat] /\ c.queued \in [Accounts -> Int]
    BY <1>1, <1>5, <1>6 DEF Books
  <2> QED BY <1>1, <1>6, <2>1, <2>2 DEF Books, Typed
<1>9. ASSUME NEW i \in Accounts PROVE SlotOK(c, t, i)
  <2>1. SlotOK(b, t, i) /\ b.queued[i] \in Int
    BY <1>1 DEF BookOK, Books
  <2>2. CASE i \in due
    BY <1>1, <1>3, <1>6, <2>1, <2>2 DEF SlotOK
  <2>3. CASE i \notin due
    <3>1. b.on[i] => b.queued[i] > t
      BY <1>2, <2>1, <2>3 DEF DueSlots, SlotOK
    <3>2. b.on[i] => <<b.queued[i], i>> \in c.queue
      BY <1>6, <2>1, <3>1 DEF SlotOK
    <3> QED BY <1>6, <2>1, <2>3, <3>2 DEF SlotOK
  <2> QED BY <2>2, <2>3
<1>10. c.queue \subseteq (0 .. t + Period) \X Accounts
  BY <1>1, <1>3, <1>6 DEF BookOK
<1> QED BY <1>6, <1>7, <1>8, <1>9, <1>10, ShapeTyped DEF BookOK, SameSetup

LEMMA InterestNat ==
  ASSUME NEW b \in Books, NEW i \in Accounts, NEW t \in Nat PROVE InterestOf(b, i, t) \in Nat
<1>1. Accrued(b, i, t) \in Nat /\ b.apr[i] \in Nat
  BY AccruedNat DEF Books
<1> QED BY <1>1, Product DEF InterestOf

\* The slots a sweep bills.
Billed(b, t) ==
  {i \in DueSlots(b, t) : b.lastBill[i] # 0 /\ InterestOf(b, i, t) > 0}

\* accrueLocInterestThrough debits what it bills and nothing else.
LEMMA AccrueOK ==
  ASSUME NEW t \in Nat \ {0}, NEW b, BookOK(b, t), NEW c, c = Accrue(b, t)
  PROVE  /\ BookOK(c, t) /\ SameSetup(b, c)
         /\ \A i \in Accounts :
              c.cash[i] = b.cash[i] -
                IF b.emit /\ i \in Billed(b, t) THEN InterestOf(b, i, t) ELSE 0
<1>1. PICK d : d = Swept(b, t)
  OBVIOUS
<1>2. BookOK(d, t) /\ SameSetup(b, d) /\ d.cash = b.cash
  BY <1>1, SweptOK
<1>3. CASE ~b.emit
  <2>1. c = d
    BY <1>1, <1>3 DEF Accrue
  <2>2. \A i \in Accounts : b.cash[i] \in Int
    BY DEF BookOK, Books
  <2> QED BY <1>2, <1>3, <2>1, <2>2
<1>4. CASE b.emit
  <2>1. PICK cash : cash = [i \in Accounts |->
             b.cash[i] - IF i \in DueSlots(b, t) /\ b.lastBill[i] # 0
                              /\ InterestOf(b, i, t) > 0
                         THEN InterestOf(b, i, t) ELSE 0]
    OBVIOUS
  <2>2. cash \in [Accounts -> Int]
    <3>1. \A i \in Accounts : b.cash[i] \in Int /\ InterestOf(b, i, t) \in Nat
      BY InterestNat DEF BookOK, Books
    <3> QED BY <2>1, <3>1
  <2>3. c = [d EXCEPT !.cash = cash]
    BY <1>1, <1>4, <2>1 DEF Accrue
  <2>4. BookOK(c, t) /\ c.buffer = d.buffer /\ c.cash = cash
    BY <1>2, <2>2, <2>3, CashOK
  <2>5. c.prot = d.prot /\ c.on = d.on /\ c.fee = d.fee
    BY <1>2, <2>3 DEF BookOK, Books
  <2>6. ASSUME NEW i \in Accounts
        PROVE  cash[i] = b.cash[i] -
                 IF b.emit /\ i \in Billed(b, t) THEN InterestOf(b, i, t) ELSE 0
    BY <1>4, <2>1 DEF Billed
  <2> QED BY <1>2, <2>4, <2>5, <2>6 DEF SameSetup
<1> QED BY <1>3, <1>4

\* restore() onto a book with the protections of the saved one.
LEMMA RestoreOK ==
  ASSUME NEW t \in Nat, NEW u \in Nat, NEW b, BookOK(b, t), NEW sv, BookOK(sv, u),
         sv.prot = b.prot, sv.on = b.on, NEW c, c = Restore(b, sv)
  PROVE  /\ BookOK(c, u) /\ c.prot = b.prot /\ c.on = b.on
         /\ c.cash = sv.cash /\ c.buffer = sv.buffer
<1>1. b \in Books /\ sv \in Books
  BY DEF BookOK
<1>2. /\ c.cash = sv.cash /\ c.buffer = sv.buffer /\ c.integral = sv.integral
      /\ c.lastUpd = sv.lastUpd /\ c.lastBill = sv.lastBill /\ c.queued = sv.queued
      /\ c.queue = sv.queue
      /\ c.prot = b.prot /\ c.fee = b.fee /\ c.on = b.on /\ c.apr = b.apr
      /\ c.emit = b.emit
  BY <1>1 DEF Restore, Books
<1>3. Shape(c)
  BY <1>1 DEF Restore, Books, Shape
<1>4. Typed(c)
  BY <1>1, <1>2 DEF Books, Typed
<1>5. \A j \in Accounts : SlotOK(c, u, j)
  BY <1>2 DEF BookOK, SlotOK
<1> QED BY <1>2, <1>3, <1>4, <1>5, ShapeTyped DEF BookOK
-----------------------------------------------------------------------------
\* The liquidity events.
Events == [acct : Accounts, amount : Nat, chan : {"overdraftFee", "locInterest"}, ts : Nat]

\* The events of a sweep are interest, one for every slot that is billed.
LEMMA MaturedEvents ==
  ASSUME NEW b \in Books, NEW t \in Nat
  PROVE  /\ Matured(b, t) \in Seq(Events)
         /\ \A k \in 1 .. Len(Matured(b, t)) : Matured(b, t)[k].chan = "locInterest"
         /\ \A i \in Billed(b, t) : \E k \in 1 .. Len(Matured(b, t)) :
              /\ Matured(b, t)[k].acct = i
              /\ Matured(b, t)[k].amount = InterestOf(b, i, t)
<1> DEFINE S == Billed(b, t)
           M == Matured(b, t)
           Slot(k) == CHOOSE x \in S : Cardinality(Below(S, x)) = k - 1
<1>1. S \in SUBSET (0 .. NumAccounts) /\ S \subseteq Accounts /\ NumAccounts \in Nat
  BY ClearingAssumption DEF Billed, DueSlots, Accounts
<1>2. Cardinality(S) \in Nat
  BY <1>1, FiniteUpTo
<1>3. M = [k \in 1 .. Cardinality(S) |->
             [acct |-> Slot(k), amount |-> InterestOf(b, Slot(k), t),
              chan |-> "locInterest", ts |-> t]]
  BY DEF Matured, Billed, Below
<1>4. ASSUME NEW k \in 1 .. Cardinality(S)
      PROVE  Slot(k) \in S /\ Cardinality(Below(S, Slot(k))) = k - 1
  <2> HIDE DEF S
  <2>1. \E x \in S : Cardinality(Below(S, x)) = k - 1
    BY <1>1, Ranked
  <2> QED BY <2>1
<1> HIDE DEF M, S, Slot
<1>5. ASSUME NEW k \in 1 .. Cardinality(S) PROVE M[k] \in Events
  <2>1. Slot(k) \in Accounts
    BY <1>1, <1>4
  <2>2. InterestOf(b, Slot(k), t) \in Nat
    BY <2>1, InterestNat
  <2>3. M[k] = [acct |-> Slot(k), amount |-> InterestOf(b, Slot(k), t),
                chan |-> "locInterest", ts |-> t]
    BY <1>3
  <2> QED BY <2>1, <2>2, <2>3 DEF Events
<1>6. M \in Seq(Events) /\ Len(M) = Cardinality(S)
  <2>1. M \in [1 .. Cardinality(S) -> Events]
    BY <1>3, <1>5
  <2> QED BY <1>2, <2>1
<1>7. ASSUME NEW i \in S
      PROVE  \E k \in 1 .. Len(M) : M[k].acct = i /\ M[k].amount = InterestOf(b, i, t)
  <2>1. PICK k : k = Cardinality(Below(S, i)) + 1
    OBVIOUS
  <2>2. k \in 1 .. Cardinality(S) /\ Cardinality(Below(S, i)) = k - 1
    <3>1. Cardinality(Below(S, i)) \in Nat
      BY <1>1, FiniteUpTo
    <3>2. Cardinality(Below(S, i)) + 1 \in 1 .. Cardinality(S)
      BY <1>1, RankRange
    <3> QED BY <2>1, <3>1, <3>2
  <2>3. Slot(k) = i
    BY <1>1, <1>4, <2>2, RankUnique
  <2> QED BY <1>3, <1>6, <2>2, <2>3
<1>8. \A k \in 1 .. Len(M) : M[k].chan = "locInterest"
  BY <1>3, <1>6
<1> QED BY <1>6, <1>7, <1>8 DEF M, S

\* What event e charges account i.
ChargeTo(e, i) == IF e.acct = i THEN e.amount ELSE 0

\* What the bank has charged, event by event.
ChargesSum(ev, i, sum) ==
  /\ sum \in [0 .. Len(ev) -> Nat] /\ sum[0] = 0
  /\ \A n \in 1 .. Len(ev) : sum[n] = sum[n - 1] + ChargeTo(ev[n], i)

LEMMA ChargesRun ==
  ASSUME NEW ev \in Seq(Events), NEW i
  PROVE  \E sum : ChargesSum(ev, i, sum) /\ ChargesOf(ev, i) = sum[Len(ev)]
<1> DEFINE N == Len(ev)
           Due(n) == ChargeTo(ev[n], i)
           Def(f) == f = [n \in 0 .. N |->
                            IF n = 0 THEN 0
                            ELSE f[n - 1] + IF ev[n].acct = i THEN ev[n].amount ELSE 0]
           step == [x \in Nat \X (1 .. N) |-> x[1] + Due(x[2])]
<1>1. N \in Nat
  BY LenProperties
<1>2. \A n \in 1 .. N : Due(n) \in Nat
  <2>1. \A n \in 1 .. N : ev[n] \in Events
    BY ElementOfSeq
  <2> QED BY <2>1 DEF Events, ChargeTo
<1> HIDE DEF Due
<1>3. \A x \in Nat, n \in 1 .. N : step[<<x, n>>] = x + Due(n)
  OBVIOUS
<1>4. step \in [Nat \X (1 .. N) -> Nat]
  <2>1. \A x \in Nat \X (1 .. N) : x[1] + Due(x[2]) \in Nat
    BY <1>2
  <2> QED BY <2>1
<1> HIDE DEF step, N
<1>5. PICK f : LoopRun(N, Nat, 0, step, f)
  BY <1>1, <1>4, LoopExists
<1>6. Def(f)
  <2>1. ASSUME NEW n \in 0 .. N, n # 0 PROVE f[n] = f[n - 1] + Due(n)
    <3>1. n \in 1 .. N /\ n - 1 \in 0 .. N
      BY <1>1, <2>1
    <3> QED BY <1>3, <1>5, <3>1 DEF LoopRun
  <2> QED BY <1>1, <1>5, <2>1 DEF LoopRun, Due, ChargeTo
<1> DEFINE g == CHOOSE g : Def(g)
<1>7. Def(g)
  BY <1>6
<1>8. ChargesOf(ev, i) = g[N]
  BY DEF ChargesOf, N
<1>9. g[0] = 0 /\ \A n \in 1 .. N : g[n] = g[n - 1] + Due(n)
  <2> HIDE DEF g
  <2>1. \A n \in 1 .. N : n \in 0 .. N /\ n # 0
    BY <1>1
  <2> QED BY <1>1, <1>7, <2>1 DEF Due, ChargeTo
<1> DEFINE T == {n \in 0 .. N : g[n] \in Nat}
<1> HIDE DEF g
<1>10. 0 \in T
  BY <1>1, <1>9
<1>11. ASSUME NEW n \in 0 .. N - 1, n \in T PROVE n + 1 \in T
  <2>1. n + 1 \in 1 .. N /\ (n + 1) - 1 = n
    BY <1>1
  <2>2. g[n + 1] = g[n] + Due(n + 1)
    BY <1>9, <2>1
  <2> QED BY <1>2, <1>11, <2>1, <2>2
<1> HIDE DEF T
<1>12. 0 .. N \subseteq T
  BY <1>1, <1>10, <1>11, BoundedInduction
<1>13. g \in [0 .. N -> Nat]
  BY <1>7, <1>12 DEF T
<1> QED BY <1>8, <1>9, <1>13 DEF N, Due, ChargesSum

\* Further events add to what was charged, each of them at least its own amount.
LEMMA ChargesGrow ==
  ASSUME NEW ev \in Seq(Events), NEW more \in Seq(Events), NEW i
  PROVE  /\ ChargesOf(ev, i) \in Nat /\ ChargesOf(ev \o more, i) \in Nat
         /\ ChargesOf(ev \o more, i) >= ChargesOf(ev, i)
         /\ \A k \in 1 .. Len(more) :
              more[k].acct = i =>
                ChargesOf(ev \o more, i) >= ChargesOf(ev, i) + more[k].amount
<1> DEFINE all == ev \o more
           N == Len(ev)
           M == Len(more)
<1>1. /\ all \in Seq(Events) /\ Len(all) = N + M /\ N \in Nat /\ M \in Nat
      /\ \A n \in 1 .. N : all[n] = ev[n]
      /\ \A n \in 1 .. M : all[N + n] = more[n]
  <2>1. N \in Nat /\ M \in Nat
    BY LenProperties
  <2>2. /\ all \in Seq(Events) /\ Len(all) = N + M
        /\ \A n \in 1 .. N + M : all[n] = IF n <= N THEN ev[n] ELSE more[n - N]
    BY ConcatProperties
  <2> HIDE DEF all, N, M
  <2>3. ASSUME NEW n \in 1 .. M PROVE all[N + n] = more[n]
    <3>1. N + n \in 1 .. N + M /\ ~(N + n <= N) /\ (N + n) - N = n
      BY <2>1
    <3> QED BY <2>2, <3>1
  <2>4. \A n \in 1 .. N : n \in 1 .. N + M /\ n <= N
    BY <2>1
  <2>5. \A n \in 1 .. N : all[n] = ev[n]
    BY <2>2, <2>4
  <2> QED BY <2>1, <2>2, <2>3, <2>5
<1>2. \A n \in 1 .. M : ChargeTo(more[n], i) \in Nat
  <2>1. \A n \in 1 .. M : more[n] \in Events
    BY ElementOfSeq
  <2> QED BY <2>1 DEF Events, ChargeTo
<1> HIDE DEF all
<1>3. PICK f : ChargesSum(ev, i, f) /\ ChargesOf(ev, i) = f[N]
  BY ChargesRun
<1>4. PICK g : ChargesSum(all, i, g) /\ ChargesOf(all, i) = g[Len(all)]
  BY <1>1, ChargesRun
<1>5. /\ f[0] = 0 /\ \A n \in 1 .. N : f[n] = f[n - 1] + ChargeTo(ev[n], i)
      /\ g \in [0 .. N + M -> Nat] /\ g[0] = 0
      /\ \A n \in 1 .. N + M : g[n] = g[n - 1] + ChargeTo(all[n], i)
  BY <1>1, <1>3, <1>4 DEF ChargesSum
<1> HIDE DEF N, M
<1>6. g[N] = f[N]
  <2> DEFINE T == {n \in 0 .. N : g[n] = f[n]}
  <2>1. 0 \in T
    BY <1>1, <1>5
  <2>2. ASSUME NEW n \in 0 .. N - 1, n \in T PROVE n + 1 \in T
    <3>1. n + 1 \in 1 .. N /\ (n + 1) - 1 = n /\ n + 1 \in 1 .. N + M
      BY <1>1
    <3>2. g[n + 1] = g[n] + ChargeTo(ev[n + 1], i)
      BY <1>1, <1>5, <3>1
    <3>3. f[n + 1] = f[n] + ChargeTo(ev[n + 1], i)
      BY <1>5, <3>1
    <3> QED BY <2>2, <3>1, <3>2, <3>3
  <2> HIDE DEF T
  <2>3. 0 .. N \subseteq T
    BY <1>1, <2>1, <2>2, BoundedInduction
  <2> QED BY <1>1, <2>3 DEF T
\* From there on the sum never falls, and rises by each event of slot i.
<1> DEFINE h(n) == g[N + n]
<1>7. \A n \in 0 .. M : h(n) \in Nat
  <2>1. \A n \in 0 .. M : N + n \in 0 .. N + M
    BY <1>1
  <2> QED BY <1>5, <2>1
<1>8. \A n \in 1 .. M : h(n) = h(n - 1) + ChargeTo(more[n], i)
  <2>1. \A n \in 1 .. M : N + n \in 1 .. N + M /\ (N + n) - 1 = N + (n - 1)
    BY <1>1
  <2> QED BY <1>1, <1>5, <2>1
<1>9. h(0) = f[N] /\ h(M) = ChargesOf(all, i)
  <2>1. N + 0 = N
    BY <1>1
  <2> QED BY <1>1, <1>4, <1>6, <2>1
<1> HIDE DEF h
<1>10. \A n \in 0 .. M : \A k \in 0 .. n : h(k) <= h(n)
  <2> DEFINE Rising(n) == \A k \in 0 .. n : h(k) <= h(n)
             T == {n \in 0 .. M : Rising(n)}
  <2>1. M \in Nat
    BY <1>1
  <2>2. 0 \in T
    BY <1>1, <1>7
  <2>3. ASSUME NEW n \in 0 .. M - 1, n \in T PROVE n + 1 \in T
    <3>1. n + 1 \in 1 .. M /\ n + 1 \in 0 .. M /\ (n + 1) - 1 = n /\ n \in 0 .. M
      BY <2>1
    <3>2. h(n + 1) >= h(n) /\ h(n + 1) \in Nat /\ h(n) \in Nat
      BY <1>2, <1>7, <1>8, <3>1
    <3>3. Rising(n)
      BY <2>3
    <3>4. ASSUME NEW k \in 0 .. n + 1 PROVE h(k) <= h(n + 1)
      <4>1. CASE k = n + 1
        <5>1. h(k) = h(n + 1)
          BY <4>1
        <5> QED BY <3>2, <5>1
      <4>2. CASE k \in 0 .. n
        <5>1. h(k) <= h(n)
          BY <3>3, <4>2
        <5>2. k \in 0 .. M
          BY <1>1, <3>1, <4>2
        <5>3. h(k) \in Nat
          BY <1>7, <5>2
        <5> QED BY <3>2, <5>1, <5>3
      <4>3. k = n + 1 \/ k \in 0 .. n
        BY <3>1
      <4> QED BY <4>1, <4>2, <4>3
    <3>5. Rising(n + 1)
      BY <3>4
    <3> QED BY <3>1, <3>5
  <2> HIDE DEF T
  <2>4. 0 .. M \subseteq T
    BY <1>1, <2>2, <2>3, BoundedInduction
  <2> QED BY <2>4 DEF T
<1>11. h(0) \in Nat /\ h(M) \in Nat /\ h(0) <= h(M)
  BY <1>1, <1>7, <1>10
<1>12. ASSUME NEW k \in 1 .. M, more[k].acct = i PROVE h(M) >= h(0) + more[k].amount
  <2>1. k - 1 \in 0 .. M /\ k \in 0 .. M /\ 0 \in 0 .. k - 1
    BY <1>1
  <2>2. h(k) <= h(M) /\ h(0) <= h(k - 1)
    BY <1>1, <1>10, <2>1
  <2>3. h(k) = h(k - 1) + more[k].amount /\ more[k].amount \in Nat
    BY <1>2, <1>8, <1>12 DEF ChargeTo
  <2>4. h(k) \in Nat /\ h(k - 1) \in Nat
    BY <1>7, <2>1
  <2> QED BY <1>11, <2>2, <2>3, <2>4
<1> QED BY <1>3, <1>9, <1>11, <1>12 DEF all, M
-----------------------------------------------------------------------------
\* No account of book b is further below zero than its buffer and the charges of ev.
Floor(b, ev) ==
  \A i \in Accounts : b.cash[i] + b.buffer[i] + ChargesOf(ev, i) >= 0

\* Charging more never breaks the floor of a book.
LEMMA FloorGrows ==
  ASSUME NEW b \in Books, NEW ev \in Seq(Events), NEW more \in Seq(Events), Floor(b, ev)
  PROVE  Floor(b, ev \o more)
<1>1. ASSUME NEW i \in Accounts
      PROVE  b.cash[i] + b.buffer[i] + ChargesOf(ev \o more, i) >= 0
  <2>1. b.cash[i] \in Int /\ b.buffer[i] \in Nat
    BY DEF Books
  <2>2. /\ ChargesOf(ev, i) \in Nat /\ ChargesOf(ev \o more, i) \in Nat
        /\ ChargesOf(ev \o more, i) >= ChargesOf(ev, i)
    BY ChargesGrow
  <2>3. b.cash[i] + b.buffer[i] + ChargesOf(ev, i) >= 0
    BY DEF Floor
  <2> QED BY <2>1, <2>2, <2>3
<1> QED BY <1>1 DEF Floor

\* A sweep's debits are the events it sends.
LEMMA AccrueFloor ==
  ASSUME NEW t \in Nat \ {0}, NEW b, BookOK(b, t), NEW ev \in Seq(Events), Floor(b, ev),
         NEW c, c = Accrue(b, t)
  PROVE  Floor(c, ev \o AccrueEvents(b, t))
<1>1. b \in Books
  BY DEF BookOK
<1>2. PICK more : more = AccrueEvents(b, t)
  OBVIOUS
<1>3. more \in Seq(Events)
  BY <1>1, <1>2, MaturedEvents DEF AccrueEvents
<1>4. ASSUME NEW i \in Accounts
      PROVE  c.cash[i] + c.buffer[i] + ChargesOf(ev \o more, i) >= 0
  <2>1. b.cash[i] \in Int /\ b.buffer[i] \in Nat /\ c.buffer[i] = b.buffer[i]
    BY <1>1, AccrueOK DEF Books, SameSetup
  <2>2. /\ ChargesOf(ev, i) \in Nat /\ ChargesOf(ev \o more, i) \in Nat
        /\ ChargesOf(ev \o more, i) >= ChargesOf(ev, i)
    BY <1>3, ChargesGrow
  <2>3. b.cash[i] + b.buffer[i] + ChargesOf(ev, i) >= 0
    BY DEF Floor
  <2>4. CASE b.emit /\ i \in Billed(b, t)
    <3>1. InterestOf(b, i, t) \in Nat
      BY <1>1, InterestNat
    <3>2. c.cash[i] = b.cash[i] - InterestOf(b, i, t)
      BY <2>4, AccrueOK
    <3>3. more = Matured(b, t)
      BY <1>2, <2>4 DEF AccrueEvents
    <3>4. PICK k \in 1 .. Len(more) : more[k].acct = i /\ more[k].amount = InterestOf(b, i, t)
      BY <1>1, <2>4, <3>3, MaturedEvents
    <3>5. ChargesOf(ev \o more, i) >= ChargesOf(ev, i) + InterestOf(b, i, t)
      BY <1>3, <3>4, ChargesGrow
    <3> QED BY <2>1, <2>2, <2>3, <3>1, <3>2, <3>5
  <2>5. CASE ~(b.emit /\ i \in Billed(b, t))
    <3>1. c.cash[i] = b.cash[i]
      BY <2>1, <2>5, AccrueOK
    <3> QED BY <2>1, <2>2, <2>3, <3>1
  <2> QED BY <2>4, <2>5
<1> QED BY <1>2, <1>4 DEF Floor

\* The postings of the callers: the liquidity channels are the ledger's own.
Posting(p) ==
  /\ p.amount \in Nat /\ p.ts \in Nat
  /\ ~IsLiquidity(p.chan)

LEMMA TransferEventsType ==
  ASSUME NEW b \in Books, NEW p, Posting(p) PROVE TransferEvents(b, p) \in Seq(Events)
<1>1. CASE Charged(b, p)
  <2>1. PICK e : e = [acct |-> p.src, amount |-> b.fee[p.src], chan |-> "overdraftFee",
                      ts |-> p.ts]
    OBVIOUS
  <2>2. p.src \in Accounts /\ b.fee[p.src] \in Nat
    BY <1>1 DEF Charged, Books
  <2>3. e \in Events
    BY <2>1, <2>2 DEF Posting, Events
  <2>4. TransferEvents(b, p) = <<e>>
    BY <1>1, <2>1 DEF TransferEvents
  <2> QED BY <2>3, <2>4
<1>2. CASE ~Charged(b, p)
  BY <1>2 DEF TransferEvents
<1> QED BY <1>1, <1>2

\* An accepted posting takes from its source no more than it can spend, and the
\* fee is an event.
LEMMA TransferFloor ==
  ASSUME NEW t \in Nat \ {0}, NEW b, BookOK(b, t), NEW p, p.ts = t, Posting(p),
         NEW ev \in Seq(Events), Floor(b, ev), NEW c, c = TransferAt(b, p)
  PROVE  Floor(c, ev \o TransferEvents(b, p))
<1>1. b \in Books
  BY DEF BookOK
<1>2. PICK more : more = TransferEvents(b, p)
  OBVIOUS
<1>3. more \in Seq(Events)
  BY <1>1, <1>2, TransferEventsType
<1>4. c.cash = CashAfter(b, p) /\ c.buffer = b.buffer
  BY TransferOK DEF Posting, SameSetup
<1>5. ASSUME NEW i \in Accounts
      PROVE  c.cash[i] + c.buffer[i] + ChargesOf(ev \o more, i) >= 0
  <2>1. /\ b.cash[i] \in Int /\ b.buffer[i] \in Nat /\ b.fee[i] \in Nat
        /\ p.amount \in Nat
    BY <1>1 DEF Books, Posting
  <2>2. /\ ChargesOf(ev, i) \in Nat /\ ChargesOf(ev \o more, i) \in Nat
        /\ ChargesOf(ev \o more, i) >= ChargesOf(ev, i)
    BY <1>3, ChargesGrow
  <2>3. b.cash[i] + b.buffer[i] + ChargesOf(ev, i) >= 0
    BY DEF Floor
  <2>4. PICK m : m = Moved(b, p)
    OBVIOUS
  <2>5. m \in [Accounts -> Int]
    BY <1>1, <2>4, CashAfterType DEF Posting
  <2>6. m[i] = b.cash[i] - (IF i = p.src THEN p.amount ELSE 0)
                         + (IF i = p.dst THEN p.amount ELSE 0)
    BY <1>1, <2>4, CashAfterType DEF Posting
  <2>7. CASE Decision(b, p) # "accepted"
    <3>1. c.cash[i] = b.cash[i]
      BY <1>4, <2>7 DEF CashAfter
    <3> QED BY <1>4, <2>1, <2>2, <2>3, <3>1
  <2>8. CASE Decision(b, p) = "accepted" /\ i = p.src
    <3>1. Spendable(b, i, p.chan) >= p.amount
      <4>1. Spendable(b, i, p.chan) \in Int
        BY <2>1 DEF Spendable
      <4>2. ~(Spendable(b, i, p.chan) < p.amount)
        BY <2>8 DEF Decision, Posting
      <4> QED BY <2>1, <4>1, <4>2
    <3>2. b.cash[i] + b.buffer[i] >= p.amount
      BY <2>1, <3>1 DEF Spendable
    <3>3. m[i] >= b.cash[i] - p.amount /\ m[i] \in Int
      BY <2>1, <2>5, <2>6, <2>8
    <3>4. CASE Charged(b, p)
      <4>1. c.cash[i] = m[i] - b.fee[i]
        BY <1>4, <2>4, <2>5, <2>8, <3>4 DEF CashAfter
      <4>2. more = <<[acct |-> i, amount |-> b.fee[i], chan |-> "overdraftFee",
                      ts |-> p.ts]>>
        BY <1>2, <2>8, <3>4 DEF TransferEvents
      <4>3. 1 \in 1 .. Len(more) /\ more[1].acct = i /\ more[1].amount = b.fee[i]
        BY <4>2
      <4>4. ChargesOf(ev \o more, i) >= ChargesOf(ev, i) + b.fee[i]
        BY <1>3, <4>3, ChargesGrow
      <4>5. c.cash[i] + c.buffer[i] + b.fee[i] >= 0
        BY <1>4, <2>1, <3>2, <3>3, <4>1
      <4>6. c.cash[i] \in Int /\ c.buffer[i] \in Int
        BY <1>4, <2>1, <3>3, <4>1
      <4> QED BY <2>1, <2>2, <4>4, <4>5, <4>6
    <3>5. CASE ~Charged(b, p)
      <4>1. c.cash[i] = m[i]
        BY <1>4, <2>4, <2>8, <3>5 DEF CashAfter
      <4> QED BY <1>4, <2>1, <2>2, <3>2, <3>3, <4>1
    <3> QED BY <3>4, <3>5
  <2>9. CASE Decision(b, p) = "accepted" /\ i # p.src
    <3>1. c.cash[i] = m[i]
      BY <1>4, <2>4, <2>5, <2>9 DEF CashAfter
    <3>2. m[i] >= b.cash[i]
      BY <2>1, <2>6, <2>9
    <3> QED BY <1>4, <2>1, <2>2, <2>3, <2>5, <3>1, <3>2
  <2> QED BY <2>7, <2>8, <2>9
<1> QED BY <1>2, <1>5 DEF Floor
-----------------------------------------------------------------------------
\* The inductive invariant.  A saved book is one the ledger was in; as long as no
\* setup follows it has the protections of the present one, and in a book nobody
\* has set up since its opening both keep the floor.
BooksOK ==
  /\ now \in 1 .. sc.horizon /\ BookOK(book, now)
  /\ saved.now \in 1 .. sc.horizon /\ BookOK(saved.book, saved.now)
SameProtections == ~changedSetup => saved.book.prot = book.prot /\ saved.book.on = book.on
Floors == setups = 0 => Floor(book, events) /\ Floor(saved.book, events)

IndInv ==
  /\ sc \in Scenarios /\ events \in Seq(Events) /\ setups \in Nat /\ sweeps \in {0, 1}
  /\ BooksOK /\ SameProtections /\ Floors

LEMMA HorizonNat == IndInv => /\ sc.horizon \in Nat /\ now \in Nat \ {0} /\ saved.now \in Nat
                              /\ sc.amounts \subseteq Nat /\ sc.types \subseteq Protections
                              /\ \A c \in sc.channels : ~IsLiquidity(c)
BY LedgerBookAssumption DEF IndInv, BooksOK

\* Nobody is below zero in the opening book, and nothing is charged yet.
LEMMA InitInd == Init => IndInv
<1> SUFFICES ASSUME Init PROVE IndInv
  OBVIOUS
<1>1. sc \in Scenarios /\ sc.seeds \subseteq Seeds /\ sc.horizon \in Nat \ {0}
  BY LedgerBookAssumption DEF Init
<1>2. PICK seed \in [Accounts -> Seeds] : book = OpeningBook(seed)
  BY <1>1 DEF Init
<1>3. book \in Opening
  BY <1>2, OpeningOpens
<1>4. /\ BookOK(book, 1) /\ book \in Books /\ now = 1 /\ events = << >>
      /\ saved.now = 1 /\ saved.book = book /\ setups = 0 /\ sweeps = 0
  BY <1>3 DEF Opening, Init
<1>5. events \in Seq(Events)
  BY <1>4
<1>6. Floor(book, events)
  <2>1. ASSUME NEW i \in Accounts
        PROVE  book.cash[i] + book.buffer[i] + ChargesOf(events, i) >= 0
    <3>1. book.cash[i] \in Int /\ book.cash[i] >= 0 /\ book.buffer[i] \in Nat
      BY <1>3 DEF Opening, Books
    <3>2. ChargesOf(events, i) \in Nat
      BY <1>5, ChargesGrow
    <3> QED BY <3>1, <3>2
  <2> QED BY <2>1 DEF Floor
<1> QED BY <1>1, <1>4, <1>5, <1>6 DEF IndInv, BooksOK, SameProtections, Floors

\* A later instant only widens the ranges of a slot.
LEMMA LaterOK ==
  ASSUME NEW t \in Nat, NEW b, BookOK(b, t) PROVE BookOK(b, t + 1)
<1>1. b \in Books /\ Period \in Nat
  BY ClearingAssumption DEF BookOK
<1>2. 0 .. t + Period \subseteq 0 .. (t + 1) + Period
  BY <1>1
<1>3. ASSUME NEW j \in Accounts PROVE SlotOK(b, t + 1, j)
  <2>1. b.lastUpd[j] \in Nat /\ b.lastBill[j] \in Nat
    BY <1>1 DEF Books
  <2> QED BY <1>2, <2>1 DEF BookOK, SlotOK
<1> QED BY <1>1, <1>2, <1>3 DEF BookOK

LEMMA TickInd == IndInv /\ Tick /\ UNCHANGED sc => IndInv'
<1> SUFFICES ASSUME IndInv, Tick, UNCHANGED sc PROVE IndInv'
  OBVIOUS
<1>1. /\ now' = now + 1 /\ now < sc.horizon
      /\ UNCHANGED <<sc, book, events, saved, setups, sweeps, changedSetup>>
  BY DEF Tick
<1>2. BookOK(book, now + 1)
  BY HorizonNat, LaterOK DEF IndInv, BooksOK
<1>3. now + 1 \in 1 .. sc.horizon
  BY <1>1, HorizonNat
<1>4. BooksOK'
  BY <1>1, <1>2, <1>3 DEF IndInv, BooksOK
<1> QED BY <1>1, <1>4 DEF IndInv, SameProtections, Floors

\* A step that sets no account up: what it leaves must be shown of the book alone.
LEMMA BookStep ==
  ASSUME IndInv, UNCHANGED <<sc, now, saved, setups, changedSetup>>, sweeps' \in {0, 1},
         events' \in Seq(Events), BookOK(book', now), SameSetup(book, book'),
         setups = 0 => Floor(book', events') /\ Floor(saved.book, events')
  PROVE  IndInv'
<1>1. BooksOK'
  BY DEF IndInv, BooksOK
<1>2. SameProtections'
  BY DEF IndInv, SameProtections, SameSetup
<1>3. Floors'
  BY DEF Floors
<1> QED BY <1>1, <1>2, <1>3 DEF IndInv

LEMMA SavedFloor ==
  ASSUME IndInv, setups = 0, NEW more \in Seq(Events)
  PROVE  Floor(saved.book, events \o more)
<1>1. saved.book \in Books /\ events \in Seq(Events) /\ Floor(saved.book, events)
  BY DEF IndInv, BooksOK, BookOK, Floors
<1> QED BY <1>1, FloorGrows

LEMMA PostInd == IndInv /\ Post /\ UNCHANGED sc => IndInv'
<1> SUFFICES ASSUME IndInv, Post, UNCHANGED sc PROVE IndInv'
  OBVIOUS
<1>1. PICK p : /\ p.ts = now /\ p.amount \in sc.amounts /\ p.chan \in sc.channels
               /\ book' = TransferAt(book, p) /\ events' = events \o TransferEvents(book, p)
               /\ UNCHANGED <<now, saved, setups, sweeps, changedSetup>>
  BY DEF Post
<1>2. Posting(p) /\ now \in Nat \ {0}
  BY <1>1, HorizonNat DEF Posting
<1>3. BookOK(book, now) /\ events \in Seq(Events) /\ book \in Books
  BY DEF IndInv, BooksOK, BookOK
<1>4. BookOK(book', now) /\ SameSetup(book, book')
  BY <1>1, <1>2, <1>3, TransferOK DEF Posting
<1>5. TransferEvents(book, p) \in Seq(Events)
  BY <1>2, <1>3, TransferEventsType
<1>6. ASSUME setups = 0 PROVE Floor(book', events') /\ Floor(saved.book, events')
  <2>1. Floor(book, events)
    BY <1>6 DEF IndInv, Floors
  <2>2. Floor(book', events')
    BY <1>1, <1>2, <1>3, <2>1, TransferFloor
  <2> QED BY <1>1, <1>5, <1>6, <2>2, SavedFloor
<1>7. events' \in Seq(Events)
  BY <1>1, <1>3, <1>5
<1>8. sweeps' \in {0, 1}
  BY <1>1 DEF IndInv
<1> QED BY <1>1, <1>4, <1>6, <1>7, <1>8, BookStep

LEMMA AccrueInd == IndInv /\ AccrueThrough /\ UNCHANGED sc => IndInv'
<1> SUFFICES ASSUME IndInv, AccrueThrough, UNCHANGED sc PROVE IndInv'
  OBVIOUS
<1>1. /\ book' = Accrue(book, now) /\ events' = events \o AccrueEvents(book, now)
      /\ sweeps' = 1 - sweeps /\ UNCHANGED <<now, saved, setups, changedSetup>>
  BY DEF AccrueThrough
<1>2. BookOK(book, now) /\ events \in Seq(Events) /\ book \in Books /\ now \in Nat \ {0}
  BY HorizonNat DEF IndInv, BooksOK, BookOK
<1>3. BookOK(book', now) /\ SameSetup(book, book')
  BY <1>1, <1>2, AccrueOK
<1>4. AccrueEvents(book, now) \in Seq(Events)
  BY <1>2, MaturedEvents DEF AccrueEvents
<1>5. ASSUME setups = 0 PROVE Floor(book', events') /\ Floor(saved.book, events')
  <2>1. Floor(book, events)
    BY <1>5 DEF IndInv, Floors
  <2>2. Floor(book', events')
    BY <1>1, <1>2, <2>1, AccrueFloor
  <2> QED BY <1>1, <1>4, <1>5, <2>2, SavedFloor
<1>6. events' \in Seq(Events)
  BY <1>1, <1>2, <1>4
<1>7. sweeps' \in {0, 1}
  BY <1>1 DEF IndInv
<1> QED BY <1>1, <1>3, <1>5, <1>6, <1>7, BookStep

\* A setup call may break the floor; it ends the claim.
LEMMA ConfigureInd ==
  ASSUME IndInv, UNCHANGED sc, NEW b, BookOK(b, now), Configure(b)
  PROVE  IndInv'
<1>1. /\ book' = b /\ setups' = setups + 1 /\ changedSetup' = TRUE
      /\ UNCHANGED <<now, events, saved, sweeps>>
  BY DEF Configure
<1>2. setups' \in Nat /\ setups' # 0
  BY <1>1 DEF IndInv
<1>3. BooksOK'
  BY <1>1 DEF IndInv, BooksOK
<1> QED BY <1>1, <1>2, <1>3 DEF IndInv, SameProtections, Floors

LEMMA SetupInd ==
  ASSUME IndInv, UNCHANGED sc, NEW i \in Accounts, Setup(i) PROVE IndInv'
<1>1. BookOK(book, now) /\ now \in Nat
  BY HorizonNat DEF IndInv, BooksOK
<1>2. CASE \E type \in sc.types, a \in sc.amounts : Configure(SetProtection(book, i, type, a))
  <2>1. PICK type \in Protections, a \in Nat : Configure(SetProtection(book, i, type, a))
    BY <1>2, HorizonNat
  <2>2. BookOK(SetProtection(book, i, type, a), now)
    BY <1>1, SetProtectionOK
  <2> QED BY <2>1, <2>2, ConfigureInd
<1>3. CASE \E r \in Rates : Configure(SetLoc(book, i, r))
  <2>1. PICK r \in Nat : Configure(SetLoc(book, i, r))
    BY <1>3, LedgerBookAssumption
  <2>2. BookOK(SetLoc(book, i, r), now)
    BY <1>1, SetLocOK
  <2> QED BY <2>1, <2>2, ConfigureInd
<1>4. CASE \E a \in sc.amounts : Configure(SetOverdraftOnly(book, i, a))
  <2>1. PICK a \in Nat : Configure(SetOverdraftOnly(book, i, a))
    BY <1>4, HorizonNat
  <2>2. BookOK(SetOverdraftOnly(book, i, a), now)
    BY <1>1, SetOverdraftOnlyOK
  <2> QED BY <2>1, <2>2, ConfigureInd
<1>5. CASE Configure(SetBankTier(book, i, Fee))
  <2>1. BookOK(SetBankTier(book, i, Fee), now)
    BY <1>1, LedgerBookAssumption, SetBankTierOK
  <2> QED BY <1>5, <2>1, ConfigureInd
<1> QED BY <1>2, <1>3, <1>4, <1>5 DEF Setup

LEMMA EmitOK ==
  ASSUME NEW t \in Nat, NEW b, BookOK(b, t), NEW c, c = [b EXCEPT !.emit = ~@]
  PROVE  BookOK(c, t) /\ c.prot = b.prot /\ c.on = b.on
<1>1. b \in Books
  BY DEF BookOK
<1>2. PICK emit \in BOOLEAN : c = [b EXCEPT !.emit = emit]
  BY <1>1 DEF Books
<1>3. /\ c.cash = b.cash
      /\ c.buffer = b.buffer /\ c.prot = b.prot /\ c.fee = b.fee /\ c.on = b.on
      /\ c.apr = b.apr /\ c.integral = b.integral /\ c.lastUpd = b.lastUpd
      /\ c.lastBill = b.lastBill /\ c.queued = b.queued /\ c.queue = b.queue
      /\ c.emit = emit
  BY <1>1, <1>2 DEF Books
<1>4. Shape(c)
  BY <1>1, <1>2 DEF Books, Shape
<1>5. Typed(c)
  BY <1>1, <1>2, <1>3 DEF Books, Typed
<1>6. c \in Books
  BY <1>4, <1>5, ShapeTyped
<1>7. ASSUME NEW j \in Accounts PROVE SlotOK(c, t, j)
  BY <1>3 DEF BookOK, SlotOK
<1> QED BY <1>3, <1>6, <1>7 DEF BookOK

LEMMA SetEmitInd == IndInv /\ SetEmitLiquidity /\ UNCHANGED sc => IndInv'
<1> SUFFICES ASSUME IndInv, SetEmitLiquidity, UNCHANGED sc PROVE IndInv'
  OBVIOUS
<1>1. /\ book' = [book EXCEPT !.emit = ~@] /\ setups' = setups + 1
      /\ UNCHANGED <<now, events, saved, sweeps, changedSetup>>
  BY DEF SetEmitLiquidity
<1>2. BookOK(book', now) /\ book'.prot = book.prot /\ book'.on = book.on
  BY <1>1, HorizonNat, EmitOK DEF IndInv, BooksOK
<1>3. setups' \in Nat /\ setups' # 0
  BY <1>1 DEF IndInv
<1>4. BooksOK'
  BY <1>1, <1>2 DEF IndInv, BooksOK
<1> QED BY <1>1, <1>2, <1>3, <1>4 DEF IndInv, SameProtections, Floors

LEMMA CloneInd == IndInv /\ Clone /\ UNCHANGED sc => IndInv'
<1> SUFFICES ASSUME IndInv, Clone, UNCHANGED sc PROVE IndInv'
  OBVIOUS
<1>1. /\ saved'.book = book /\ saved'.now = now
      /\ UNCHANGED <<book, now, events, setups, sweeps>>
  BY DEF Clone
<1>2. BooksOK'
  BY <1>1 DEF IndInv, BooksOK
<1> QED BY <1>1, <1>2 DEF IndInv, SameProtections, Floors

\* The restored book was once the ledger's, and what has been charged since then
\* only adds to its floor.
LEMMA RestoreInd == IndInv /\ RestoreBook /\ UNCHANGED sc => IndInv'
<1> SUFFICES ASSUME IndInv, RestoreBook, UNCHANGED sc PROVE IndInv'
  OBVIOUS
<1>1. /\ book' = Restore(book, saved.book) /\ now' = saved.now /\ ~changedSetup
      /\ UNCHANGED <<events, saved, setups, changedSetup, sweeps>>
  BY DEF RestoreBook
<1>2. saved.book.prot = book.prot /\ saved.book.on = book.on
  BY <1>1 DEF IndInv, SameProtections
<1>3. /\ BookOK(book', saved.now) /\ book'.prot = book.prot /\ book'.on = book.on
      /\ book'.cash = saved.book.cash /\ book'.buffer = saved.book.buffer
  BY <1>1, <1>2, HorizonNat, RestoreOK DEF IndInv, BooksOK
<1>4. BooksOK'
  BY <1>1, <1>3 DEF IndInv, BooksOK
<1>5. SameProtections'
  BY <1>1, <1>2, <1>3 DEF SameProtections
<1>6. Floors'
  BY <1>1, <1>3 DEF IndInv, Floors, Floor
<1> QED BY <1>1, <1>4, <1>5, <1>6 DEF IndInv

LEMMA NextInd == IndInv /\ [Next]_vars => IndInv'
<1> SUFFICES ASSUME IndInv, [Next]_vars PROVE IndInv'
  OBVIOUS
<1>1. CASE UNCHANGED vars
  BY <1>1 DEF vars, IndInv, BooksOK, SameProtections, Floors
<1>2. CASE Next
  BY <1>2, TickInd, PostInd, AccrueInd, SetupInd, SetEmitInd, CloneInd, RestoreInd DEF Next
<1> QED BY <1>1, <1>2

LEMMA Inductive == Spec => []IndInv
BY InitInd, NextInd, PTL DEF Spec
-----------------------------------------------------------------------------
LEMMA Typing == IndInv => TypeOK
<1> SUFFICES ASSUME IndInv PROVE TypeOK
  OBVIOUS
<1>1. /\ book \in Books /\ book.queue \subseteq (0 .. now + Period) \X Accounts
      /\ now \in 1 .. sc.horizon /\ sc.horizon \in Nat /\ Period \in Nat /\ sweeps \in {0, 1}
  BY HorizonNat, ClearingAssumption DEF IndInv, BooksOK, BookOK
<1>2. ASSUME NEW i \in Accounts
      PROVE  /\ book.cash[i] \in Int /\ book.buffer[i] \in Nat /\ book.fee[i] \in Nat
             /\ book.prot[i] \in Protections /\ book.on[i] \in BOOLEAN
             /\ book.apr[i] \in Nat /\ book.integral[i] \in Nat
             /\ book.lastUpd[i] \in 0 .. now /\ book.lastBill[i] \in 0 .. now
             /\ book.queued[i] \in {NotQueued} \cup 0 .. (now + Period)
  <2>1. SlotOK(book, now, i)
    BY DEF IndInv, BooksOK, BookOK
  <2>2. book.lastUpd[i] \in Nat /\ book.lastBill[i] \in Nat
    BY <1>1 DEF Books
  <2>3. book.lastUpd[i] \in 0 .. now /\ book.lastBill[i] \in 0 .. now
    BY <1>1, <2>1, <2>2 DEF SlotOK
  <2> QED BY <1>1, <2>1, <2>3 DEF Books, SlotOK
<1>3. 0 .. now + Period \subseteq 0 .. sc.horizon + Period
  BY <1>1
<1>4. book.queue \subseteq (0 .. sc.horizon + Period) \X Accounts
  BY <1>1, <1>3
<1>5. book.emit \in BOOLEAN
  BY <1>1 DEF Books
<1> QED BY <1>1, <1>2, <1>4, <1>5 DEF TypeOK

LEMMA Queueing == IndInv => QueueExact
BY DEF IndInv, BooksOK, BookOK, SlotOK, QueueExact

\* However accounts are configured, reconfigured, swept, saved and restored, the
\* queue holds the next billing of exactly the slots that accrue, and no instant
\* the tracker keeps is ahead of the clock.
THEOREM QueueOfBillings == Spec => []BookInvariant
<1>1. IndInv => BookInvariant
  BY Typing, Queueing DEF BookInvariant
<1> QED BY <1>1, Inductive, PTL

\* No postings take an account further below zero than its buffer and what the
\* bank has charged it, for any number of accounts and any opening balances.
THEOREM FundedOnly == Spec => []BufferFloor
<1>1. IndInv => BufferFloor
  BY DEF IndInv, Floors, Floor, Charges, BufferFloor
<1> QED BY <1>1, Inductive, PTL

\* What a step may add to the events: a fee belongs to a crossing of zero.
FeesCross ==
  \A k \in DOMAIN events' \ DOMAIN events :
    events'[k].chan = "overdraftFee" =>
      /\ events'[k].acct \notin Cards
      /\ book.cash[events'[k].acct] >= 0 /\ book'.cash[events'[k].acct] < 0

LEMMA PostCrosses == IndInv /\ Post => FeesCross
<1> SUFFICES ASSUME IndInv, Post, NEW k \in DOMAIN events' \ DOMAIN events
             PROVE  /\ events'[k].acct \notin Cards
                    /\ book.cash[events'[k].acct] >= 0 /\ book'.cash[events'[k].acct] < 0
  BY DEF FeesCross
<1>1. PICK p : /\ p.ts = now /\ p.amount \in sc.amounts /\ p.chan \in sc.channels
               /\ book' = TransferAt(book, p) /\ events' = events \o TransferEvents(book, p)
  BY DEF Post
<1>2. Posting(p) /\ now \in Nat \ {0}
  BY <1>1, HorizonNat DEF Posting
<1>3. BookOK(book, now) /\ events \in Seq(Events) /\ book \in Books
  BY DEF IndInv, BooksOK, BookOK
<1>4. Charged(book, p)
  <2>1. ASSUME ~Charged(book, p) PROVE FALSE
    <3>1. events' = events
      BY <1>1, <1>3, <2>1 DEF TransferEvents
    <3> QED BY <3>1
  <2> QED BY <2>1
<1>5. PICK e : e = [acct |-> p.src, amount |-> book.fee[p.src], chan |-> "overdraftFee",
                    ts |-> p.ts]
  OBVIOUS
<1>6. events' = Append(events, e)
  <2>1. TransferEvents(book, p) = <<e>>
    BY <1>4, <1>5 DEF TransferEvents
  <2>2. e \in Events
    BY <1>2, <1>3, <1>4, <1>5 DEF Charged, Books, Posting, Events
  <2> QED BY <1>1, <1>3, <2>1, <2>2
<1>7. events'[k].acct = p.src
  <2>1. k = Len(events) + 1
    BY <1>3, <1>6
  <2> QED BY <1>3, <1>5, <1>6, <2>1
<1>8. p.src \in Accounts /\ p.src \notin Cards /\ book.cash[p.src] >= 0
  BY <1>4 DEF Charged, FeeFires
<1>9. book'.cash[p.src] < 0
  <2>1. PICK m : m = Moved(book, p)
    OBVIOUS
  <2>2. m \in [Accounts -> Int]
    BY <1>2, <1>3, <2>1, CashAfterType DEF Posting
  <2>3. m[p.src] < 0 /\ book.fee[p.src] > 0 /\ Decision(book, p) = "accepted"
    BY <1>4, <2>1 DEF Charged, FeeFires
  <2>4. book'.cash = CashAfter(book, p)
    <3>1. p.ts = now /\ p.amount \in Nat /\ book' = TransferAt(book, p)
      BY <1>1, <1>2 DEF Posting
    <3> QED BY <1>2, <1>3, <3>1, TransferOK
  <2>5. book'.cash[p.src] = m[p.src] - book.fee[p.src]
    BY <1>4, <1>8, <2>1, <2>2, <2>3, <2>4 DEF CashAfter
  <2>6. m[p.src] \in Int /\ book.fee[p.src] \in Nat
    BY <1>3, <1>8, <2>2 DEF Books
  <2> QED BY <2>3, <2>5, <2>6
<1> QED BY <1>7, <1>8, <1>9

\* A sweep sends interest alone.
LEMMA AccrueCrosses == IndInv /\ AccrueThrough => FeesCross
<1> SUFFICES ASSUME IndInv, AccrueThrough, NEW k \in DOMAIN events' \ DOMAIN events
             PROVE  events'[k].chan # "overdraftFee"
  BY DEF FeesCross
<1>1. PICK more : more = AccrueEvents(book, now)
  OBVIOUS
<1>2. events \in Seq(Events) /\ events' = events \o more /\ book \in Books /\ now \in Nat
  BY <1>1, HorizonNat DEF AccrueThrough, IndInv, BooksOK, BookOK
<1>3. more \in Seq(Events) /\ \A n \in 1 .. Len(more) : more[n].chan = "locInterest"
  <2>1. CASE book.emit
    <3>1. more = Matured(book, now)
      BY <1>1, <2>1 DEF AccrueEvents
    <3> QED BY <1>2, <3>1, MaturedEvents
  <2>2. CASE ~book.emit
    <3>1. more = << >>
      BY <1>1, <2>2 DEF AccrueEvents
    <3> QED BY <3>1
  <2> QED BY <2>1, <2>2
<1>4. PICK n \in 1 .. Len(more) : events'[k] = more[n]
  <2>1. /\ DOMAIN events = 1 .. Len(events) /\ DOMAIN events' = 1 .. Len(events) + Len(more)
        /\ Len(events) \in Nat /\ Len(more) \in Nat
    BY <1>2, <1>3
  <2>2. k - Len(events) \in 1 .. Len(more)
    BY <2>1
  <2>3. events'[k] = more[k - Len(events)]
    BY <1>2, <1>3, <2>1
  <2> QED BY <2>2, <2>3
<1> QED BY <1>3, <1>4

\* An account that is already overdrawn is not charged again, and no card is,
\* whatever came before the posting.
THEOREM OneFeePerCrossing == Spec => FeeOncePerCrossing
<1>1. IndInv /\ [Next]_vars => [FeesCross]_vars
  <2> SUFFICES ASSUME IndInv, Next PROVE FeesCross
    BY DEF vars
  <2>1. CASE events' = events
    BY <2>1 DEF FeesCross
  <2>2. CASE Post \/ AccrueThrough
    BY <2>2, PostCrosses, AccrueCrosses
  <2> QED BY <2>1, <2>2 DEF Next, Tick, SetEmitLiquidity, Clone, RestoreBook, Setup, Configure
<1>2. [FeesCross]_vars =>
        [\A k \in DOMAIN events' \ DOMAIN events :
           events'[k].chan = "overdraftFee" =>
             /\ events'[k].acct \notin Cards
             /\ book.cash[events'[k].acct] >= 0
             /\ book'.cash[events'[k].acct] < 0]_vars
  BY DEF FeesCross
<1> QED BY <1>1, <1>2, Inductive, PTL DEF Spec, FeeOncePerCrossing
-----------------------------------------------------------------------------
\* The refinement of the scan.  First the rows it sees: those of a sequence of
\* events are collected one by one.
RowsOf(ev, rows) ==
  /\ rows \in [0 .. Len(ev) -> Seq(Events)] /\ rows[0] = << >>
  /\ \A n \in 1 .. Len(ev) :
       rows[n] = IF ev[n].chan = "locInterest" THEN Append(rows[n - 1], ev[n])
                 ELSE rows[n - 1]

LEMMA RowsRun ==
  ASSUME NEW ev \in Seq(Events)
  PROVE  \E rows : RowsOf(ev, rows) /\ InterestRows(ev) = rows[Len(ev)]
<1> DEFINE N == Len(ev)
           X == Seq(Events)
           Put(x, n) == IF ev[n].chan = "locInterest" THEN Append(x, ev[n]) ELSE x
           Def(f) == f = [n \in 0 .. N |->
                            IF n = 0 THEN << >>
                            ELSE IF ev[n].chan = "locInterest" THEN Append(f[n - 1], ev[n])
                            ELSE f[n - 1]]
           step == [x \in X \X (1 .. N) |-> Put(x[1], x[2])]
<1>1. N \in Nat /\ << >> \in X
  BY LenProperties
<1>2. ASSUME NEW x \in X, NEW n \in 1 .. N PROVE Put(x, n) \in X
  <2>1. ev[n] \in Events
    BY ElementOfSeq
  <2> QED BY <2>1, AppendProperties
<1>3. ASSUME NEW x \in X, NEW n \in 1 .. N PROVE step[<<x, n>>] = Put(x, n)
  OBVIOUS
<1>4. step \in [X \X (1 .. N) -> X]
  <2> HIDE DEF Put
  <2> QED BY <1>2
<1> HIDE DEF step, N, X
<1>5. PICK f : LoopRun(N, X, << >>, step, f)
  BY <1>1, <1>4, LoopExists
<1>6. Def(f)
  <2>1. ASSUME NEW n \in 0 .. N, n # 0 PROVE f[n] = Put(f[n - 1], n)
    <3>1. n \in 1 .. N /\ n - 1 \in 0 .. N
      BY <1>1, <2>1
    <3> HIDE DEF Put
    <3> QED BY <1>3, <1>5, <3>1 DEF LoopRun
  <2> QED BY <1>1, <1>5, <2>1 DEF LoopRun
<1> DEFINE g == CHOOSE g : Def(g)
<1>7. Def(g)
  BY <1>6
<1>8. InterestRows(ev) = g[N]
  BY DEF InterestRows, N
<1>9. g[0] = << >> /\ \A n \in 1 .. N : g[n] = Put(g[n - 1], n)
  <2> HIDE DEF g
  <2>1. \A n \in 1 .. N : n \in 0 .. N /\ n # 0
    BY <1>1
  <2>2. \A n \in 0 .. N : g[n] = IF n = 0 THEN << >> ELSE Put(g[n - 1], n)
    BY <1>7
  <2> HIDE DEF Put, Def
  <2> QED BY <1>1, <2>1, <2>2
<1> DEFINE T == {n \in 0 .. N : g[n] \in X}
<1> HIDE DEF g
<1>10. 0 \in T
  BY <1>1, <1>9
<1>11. ASSUME NEW n \in 0 .. N - 1, n \in T PROVE n + 1 \in T
  <2>1. n + 1 \in 1 .. N /\ (n + 1) - 1 = n /\ n + 1 \in 0 .. N
    BY <1>1
  <2> HIDE DEF Put
  <2>2. g[n + 1] = Put(g[n], n + 1)
    BY <1>9, <2>1
  <2> QED BY <1>2, <1>11, <2>1, <2>2
<1> HIDE DEF T
<1>12. 0 .. N \subseteq T
  BY <1>1, <1>10, <1>11, BoundedInduction
<1>13. g \in [0 .. N -> X]
  BY <1>7, <1>12 DEF T
<1> QED BY <1>8, <1>9, <1>13 DEF N, X, RowsOf

LEMMA AppendToConcat ==
  ASSUME NEW S, NEW a \in Seq(S), NEW b \in Seq(S), NEW e \in S
  PROVE  Append(a \o b, e) = a \o (b \o <<e>>)
<1>1. PICK c : c = <<e>>
  OBVIOUS
<1>2. c \in Seq(S) /\ a \o b \in Seq(S)
  BY <1>1, ConcatProperties
<1>3. (a \o b) \o c = a \o (b \o c)
  BY <1>2, ConcatAssociative
<1>4. Append(a \o b, e) = (a \o b) \o c
  BY <1>1, <1>2, AppendIsConcat
<1> QED BY <1>1, <1>3, <1>4

\* Further events: fees leave the rows as they are, interest is added in order.
LEMMA RowsGrow ==
  ASSUME NEW ev \in Seq(Events), NEW more \in Seq(Events)
  PROVE  /\ (\A n \in 1 .. Len(more) : more[n].chan # "locInterest")
              => InterestRows(ev \o more) = InterestRows(ev)
         /\ (\A n \in 1 .. Len(more) : more[n].chan = "locInterest")
              => InterestRows(ev \o more) = InterestRows(ev) \o more
<1> DEFINE all == ev \o more
           N == Len(ev)
           M == Len(more)
<1>1. N \in Nat /\ M \in Nat
  BY LenProperties
<1>2. /\ all \in Seq(Events) /\ Len(all) = N + M
      /\ \A n \in 1 .. N + M : all[n] = IF n <= N THEN ev[n] ELSE more[n - N]
  BY ConcatProperties
<1> HIDE DEF all
<1>3. PICK f : RowsOf(ev, f) /\ InterestRows(ev) = f[N]
  BY RowsRun
<1>4. PICK g : RowsOf(all, g) /\ InterestRows(all) = g[Len(all)]
  BY <1>2, RowsRun
<1> DEFINE Put(x, e) == IF e.chan = "locInterest" THEN Append(x, e) ELSE x
<1>5. /\ f \in [0 .. N -> Seq(Events)] /\ f[0] = << >>
      /\ \A n \in 1 .. N : f[n] = Put(f[n - 1], ev[n])
  BY <1>3 DEF RowsOf
<1>6. g[0] = << >> /\ \A n \in 1 .. N + M : g[n] = Put(g[n - 1], all[n])
  BY <1>2, <1>4 DEF RowsOf
<1> HIDE DEF N, M
<1>7. g[N] = f[N]
  <2> DEFINE T == {n \in 0 .. N : g[n] = f[n]}
  <2> HIDE DEF Put
  <2>1. 0 \in T
    BY <1>1, <1>5, <1>6
  <2>2. ASSUME NEW n \in 0 .. N - 1, n \in T PROVE n + 1 \in T
    <3>1. n + 1 \in 1 .. N /\ (n + 1) - 1 = n /\ n + 1 \in 1 .. N + M /\ n + 1 <= N
      BY <1>1
    <3>2. g[n + 1] = Put(g[n], ev[n + 1])
      BY <1>2, <1>6, <3>1
    <3>3. f[n + 1] = Put(f[n], ev[n + 1])
      BY <1>5, <3>1
    <3> QED BY <2>2, <3>1, <3>2, <3>3
  <2> HIDE DEF T
  <2>3. 0 .. N \subseteq T
    BY <1>1, <2>1, <2>2, BoundedInduction
  <2> QED BY <1>1, <2>3 DEF T
<1> DEFINE h(n) == g[N + n]
<1>8. ASSUME NEW n \in 0 .. M - 1 PROVE h(n + 1) = Put(h(n), more[n + 1])
  <2>1. /\ N + (n + 1) \in 1 .. N + M /\ (N + (n + 1)) - 1 = N + n
        /\ ~(N + (n + 1) <= N) /\ (N + (n + 1)) - N = n + 1
    BY <1>1
  <2>2. all[N + (n + 1)] = more[n + 1]
    BY <1>2, <2>1
  <2> HIDE DEF Put
  <2> QED BY <1>6, <2>1, <2>2
<1>9. h(0) = f[N] /\ h(M) = InterestRows(all) /\ f[N] \in Seq(Events)
  <2>1. N + 0 = N /\ N \in 0 .. N
    BY <1>1
  <2> QED BY <1>2, <1>4, <1>5, <1>7, <2>1
<1> HIDE DEF h
<1>10. ASSUME \A n \in 1 .. M : more[n].chan # "locInterest"
       PROVE  InterestRows(all) = f[N]
  <2> DEFINE T == {n \in 0 .. M : h(n) = f[N]}
  <2>1. 0 \in T
    BY <1>1, <1>9
  <2>2. ASSUME NEW n \in 0 .. M - 1, n \in T PROVE n + 1 \in T
    <3>1. n + 1 \in 1 .. M /\ n + 1 \in 0 .. M
      BY <1>1
    <3> QED BY <1>8, <1>10, <2>2, <3>1
  <2> HIDE DEF T
  <2>3. 0 .. M \subseteq T
    BY <1>1, <2>1, <2>2, BoundedInduction
  <2> QED BY <1>1, <1>9, <2>3 DEF T
<1>11. ASSUME \A n \in 1 .. M : more[n].chan = "locInterest"
       PROVE  InterestRows(all) = f[N] \o more
  <2> DEFINE part(n) == SubSeq(more, 1, n)
             T == {n \in 0 .. M : h(n) = f[N] \o part(n)}
  <2>1. part(M) = more
    BY SubSeqFull DEF M
  <2>2. 0 \in T
    <3>1. part(0) = << >>
      BY SubSeqEmpty
    <3>2. f[N] \o << >> = f[N]
      BY <1>9, ConcatEmptySeq
    <3> QED BY <1>1, <1>9, <3>1, <3>2
  <2>3. ASSUME NEW n \in 0 .. M - 1, n \in T PROVE n + 1 \in T
    <3>1. n + 1 \in 1 .. M /\ n + 1 \in 0 .. M /\ n \in 0 .. M
      BY <1>1
    <3>2. h(n + 1) = Append(f[N] \o part(n), more[n + 1])
      BY <1>8, <1>11, <2>3, <3>1
    <3>3. part(n) \in Seq(Events) /\ part(n + 1) = part(n) \o <<more[n + 1]>>
      <4>1. (n + 1) - 1 = n /\ 1 <= n + 1 /\ n + 1 <= Len(more)
        BY <1>1 DEF M
      <4>2. SubSeq(more, 1, n + 1) = SubSeq(more, 1, (n + 1) - 1) \o <<more[n + 1]>>
        BY <3>1, <4>1, SubSeqRecursiveSecond DEF M
      <4>3. part(n) \in Seq(Events)
        BY <3>1, SubSeqProperties DEF M
      <4> QED BY <4>1, <4>2, <4>3
    <3>4. more[n + 1] \in Events
      BY <3>1, ElementOfSeq DEF M
    <3> HIDE DEF part
    <3>5. Append(f[N] \o part(n), more[n + 1]) = f[N] \o (part(n) \o <<more[n + 1]>>)
      BY <1>9, <3>3, <3>4, AppendToConcat
    <3> QED BY <3>1, <3>2, <3>3, <3>5
  <2> HIDE DEF T
  <2>4. 0 .. M \subseteq T
    BY <1>1, <2>2, <2>3, BoundedInduction
  <2> HIDE DEF part
  <2>5. h(M) = f[N] \o part(M)
    BY <1>1, <2>4 DEF T
  <2> QED BY <1>9, <2>1, <2>5
<1> QED BY <1>3, <1>10, <1>11 DEF all, M
-----------------------------------------------------------------------------
\* What a slot owes grows with the clock as the scan has it.
LEMMA Distributes ==
  ASSUME NEW x \in Nat, NEW y \in Nat PROVE x * (y + 1) = x * y + x
OBVIOUS

LEMMA AccruedLater ==
  ASSUME NEW t \in Nat \ {0}, NEW b, BookOK(b, t), NEW i \in Accounts
  PROVE  Accrued(b, i, t + 1) =
           Accrued(b, i, t) + IF b.lastUpd[i] # 0 /\ b.cash[i] < 0 THEN -b.cash[i] ELSE 0
<1>1. /\ b.cash[i] \in Int /\ b.integral[i] \in Nat /\ b.lastUpd[i] \in Nat
      /\ b.lastUpd[i] <= t
  BY DEF BookOK, Books, SlotOK
<1>2. CASE b.lastUpd[i] # 0 /\ b.cash[i] < 0
  <2>1. PICK x \in Nat : x = -b.cash[i]
    BY <1>1, <1>2
  <2>2. PICK y \in Nat : y = t - b.lastUpd[i]
    BY <1>1
  <2>3. Accrued(b, i, t + 1) = b.integral[i] + x * (y + 1)
    <3>1. (t + 1) - b.lastUpd[i] = y + 1 /\ t + 1 > b.lastUpd[i]
      BY <1>1, <2>2
    <3> QED BY <1>2, <2>1, <3>1 DEF Accrued
  <2>4. Accrued(b, i, t) = b.integral[i] + x * y
    <3>1. CASE t > b.lastUpd[i]
      BY <1>2, <2>1, <2>2, <3>1 DEF Accrued
    <3>2. CASE ~(t > b.lastUpd[i])
      <4>1. y = 0 /\ x * y = 0
        BY <1>1, <2>1, <2>2, <3>2
      <4> QED BY <1>1, <3>2, <4>1 DEF Accrued
    <3> QED BY <3>1, <3>2
  <2>5. x * y \in Nat /\ x * (y + 1) = x * y + x
    BY Distributes, Product
  <2> HIDE DEF Accrued
  <2> QED BY <1>1, <1>2, <2>1, <2>3, <2>4, <2>5
<1>3. CASE ~(b.lastUpd[i] # 0 /\ b.cash[i] < 0)
  BY <1>1, <1>3 DEF Accrued
<1> QED BY <1>2, <1>3

LEMMA TickScan == IndInv /\ Tick => Scan!Tick
<1> SUFFICES ASSUME IndInv, Tick PROVE Scan!Tick
  OBVIOUS
<1>1. now' = now + 1 /\ UNCHANGED <<book, events, saved, sweeps>>
  BY DEF Tick
<1>2. BookOK(book, now) /\ now \in Nat \ {0} /\ book \in Books
  BY HorizonNat DEF IndInv, BooksOK, BookOK
<1>3. Owed(book, now + 1) =
        [i \in Accounts |-> Owed(book, now)[i] +
           IF book.on[i] /\ Started(book)[i] /\ book.cash[i] < 0 THEN -book.cash[i] ELSE 0]
  <2>1. ASSUME NEW i \in Accounts
        PROVE  (IF book.on[i] THEN Accrued(book, i, now + 1) ELSE 0)
                 = (IF book.on[i] THEN Accrued(book, i, now) ELSE 0) +
                   IF book.on[i] /\ book.lastUpd[i] # 0 /\ book.cash[i] < 0
                   THEN -book.cash[i] ELSE 0
    BY <1>2, AccruedLater
  <2> QED BY <2>1 DEF Owed, Started
<1>4. Owed(book, now)' = Owed(book, now + 1) /\ Started(book)' = Started(book)
      /\ InterestRows(events)' = InterestRows(events)
  BY <1>1
<1>5. /\ book.cash' = book.cash /\ book.apr' = book.apr /\ book.on' = book.on
      /\ book.emit' = book.emit /\ book.lastBill' = book.lastBill
      /\ SavedState' = SavedState
  BY <1>1 DEF SavedState
<1> QED BY <1>1, <1>3, <1>4, <1>5 DEF Scan!Tick

\* A posting rolls both of its legs forward before it moves cash, so that neither
\* owes more or less than before.
LEMMA TransferOwed ==
  ASSUME NEW t \in Nat \ {0}, NEW b, BookOK(b, t), NEW p, p.ts = t, p.amount \in Nat,
         NEW c, c = TransferAt(b, p)
  PROVE  /\ Owed(c, t) = Owed(b, t)
         /\ \A i \in Accounts :
              /\ c.cash[i] # b.cash[i] => c.lastUpd[i] # 0 \/ ~b.on[i]
              /\ b.lastUpd[i] # 0 => c.lastUpd[i] # 0
              /\ c.lastUpd[i] # 0 => b.lastUpd[i] # 0 \/ b.on[i]
<1>1. /\ BookOK(c, t) /\ SameSetup(b, c) /\ c.cash = CashAfter(b, p) /\ RolledTo(b, c, t)
      /\ \A j \in Accounts : Booked(p) /\ b.on[j] /\ j \in {p.src, p.dst}
                               => c.lastUpd[j] = t
  BY TransferOK
<1>2. ASSUME NEW i \in Accounts
      PROVE  /\ b.on[i] => Accrued(c, i, t) = Accrued(b, i, t)
             /\ c.cash[i] # b.cash[i] => c.lastUpd[i] # 0 \/ ~b.on[i]
             /\ b.lastUpd[i] # 0 => c.lastUpd[i] # 0
             /\ c.lastUpd[i] # 0 => b.lastUpd[i] # 0 \/ b.on[i]
  <2>1. RolledSlot(b, c, t, i) /\ c.on = b.on /\ c.on[i] \in BOOLEAN
    BY <1>1 DEF RolledTo, SameSetup, BookOK, Books
  <2>2. b.integral[i] \in Nat /\ c.integral[i] \in Nat
    BY <1>1 DEF BookOK, Books
  <2>3. c.cash[i] # b.cash[i] => Booked(p) /\ i \in {p.src, p.dst}
    <3>1. CASE Decision(b, p) # "accepted"
      BY <1>1, <3>1 DEF CashAfter
    <3>2. CASE Decision(b, p) = "accepted"
      <4>1. Booked(p)
        BY <3>2 DEF Decision
      <4>2. i \notin {p.src, p.dst} => CashAfter(b, p)[i] = b.cash[i]
        <5>1. b.cash[i] \in Int /\ Moved(b, p) \in [Accounts -> Int] /\ b \in Books
          BY CashAfterType DEF BookOK, Books
        <5>2. i \notin {p.src, p.dst} => Moved(b, p)[i] = b.cash[i]
          BY <5>1, CashAfterType
        <5> QED BY <3>2, <5>1, <5>2 DEF CashAfter
      <4> QED BY <1>1, <4>1, <4>2
    <3> QED BY <3>1, <3>2
  <2>4. c.cash[i] # b.cash[i] /\ b.on[i] => c.lastUpd[i] = t
    BY <1>1, <2>3
  <2>5. c.lastUpd[i] = t => Accrued(c, i, t) = c.integral[i]
    BY <2>2 DEF Accrued
  <2>6. b.lastUpd[i] = t => Accrued(b, i, t) = b.integral[i]
    BY <2>2 DEF Accrued
  <2>7. c.cash[i] = b.cash[i] /\ c.integral[i] = b.integral[i] /\ c.lastUpd[i] = b.lastUpd[i]
          => Accrued(c, i, t) = Accrued(b, i, t)
    BY DEF Accrued
  <2>8. b.on[i] => Accrued(c, i, t) = Accrued(b, i, t)
    BY <2>1, <2>4, <2>5, <2>6, <2>7 DEF RolledSlot
  <2> QED BY <2>1, <2>4, <2>8 DEF RolledSlot
<1>3. Owed(c, t) = Owed(b, t)
  BY <1>1, <1>2 DEF Owed, SameSetup
<1> QED BY <1>2, <1>3

LEMMA PostScan == IndInv /\ Post => Scan!Post
<1> SUFFICES ASSUME IndInv, Post PROVE Scan!Post
  OBVIOUS
<1>1. PICK p : /\ p.ts = now /\ p.amount \in sc.amounts /\ p.chan \in sc.channels
               /\ book' = TransferAt(book, p) /\ events' = events \o TransferEvents(book, p)
               /\ UNCHANGED <<now, saved, sweeps>>
  BY DEF Post
<1>2. Posting(p) /\ p.amount \in Nat /\ now \in Nat \ {0}
  BY <1>1, HorizonNat DEF Posting
<1>3. BookOK(book, now) /\ events \in Seq(Events) /\ book \in Books
  BY DEF IndInv, BooksOK, BookOK
<1>4. BookOK(book', now) /\ SameSetup(book, book') /\ RolledTo(book, book', now)
  BY <1>1, <1>2, <1>3, TransferOK
<1>5. /\ Owed(book', now) = Owed(book, now)
      /\ \A i \in Accounts :
           /\ book'.cash[i] # book.cash[i] => book'.lastUpd[i] # 0 \/ ~book.on[i]
           /\ book.lastUpd[i] # 0 => book'.lastUpd[i] # 0
           /\ book'.lastUpd[i] # 0 => book.lastUpd[i] # 0 \/ book.on[i]
  BY <1>1, <1>2, <1>3, TransferOwed
<1>6. InterestRows(events') = InterestRows(events)
  <2>1. PICK more : more = TransferEvents(book, p)
    OBVIOUS
  <2>2. more \in Seq(Events)
    BY <1>2, <1>3, <2>1, TransferEventsType
  <2>3. \A n \in 1 .. Len(more) : more[n].chan # "locInterest"
    BY <2>1 DEF TransferEvents
  <2> QED BY <1>1, <1>3, <2>1, <2>2, <2>3, RowsGrow
<1>7. Owed(book, now)' = Owed(book, now)
  BY <1>1, <1>5
<1>8. /\ book'.cash \in [Accounts -> Int]
      /\ book'.on = book.on /\ book'.apr = book.apr /\ book'.emit = book.emit
      /\ book'.lastBill = book.lastBill
  BY <1>4 DEF BookOK, Books, SameSetup, RolledTo
<1>9. Started(book') \in [Accounts -> BOOLEAN]
  BY DEF Started
<1>10. /\ \A i \in Accounts : book'.cash[i] # book.cash[i] => Started(book')[i] \/ ~book.on[i]
       /\ \A i \in Accounts : Started(book)[i] => Started(book')[i]
       /\ \A i \in Accounts : Started(book')[i] => Started(book)[i] \/ book.on[i]
  BY <1>5 DEF Started
<1>11. SavedState' = SavedState
  BY <1>1 DEF SavedState
<1> QED BY <1>1, <1>6, <1>7, <1>8, <1>9, <1>10, <1>11 DEF Scan!Post

\* The queue finds the slots the scan would: those whose billing clock has not
\* started, and those whose period has passed.
LEMMA DueWhenScanned ==
  ASSUME NEW t \in Nat \ {0}, NEW b, BookOK(b, t), NEW i \in Accounts
  PROVE  i \in DueSlots(b, t) <=> b.on[i] /\ (b.lastBill[i] = 0 \/ t - b.lastBill[i] >= Period)
<1>1. /\ SlotOK(b, t, i) /\ b.lastBill[i] \in Nat /\ b.queued[i] \in Int /\ Period \in Nat
  BY ClearingAssumption DEF BookOK, Books
<1>2. i \in DueSlots(b, t) <=> b.on[i] /\ b.queued[i] <= t
  BY <1>1 DEF DueSlots, SlotOK
<1> QED BY <1>1, <1>2 DEF SlotOK

\* What accrueLocInterestThrough leaves in the slots.
LEMMA AccrueSlots ==
  ASSUME NEW t \in Nat \ {0}, NEW b, BookOK(b, t), NEW c, c = Accrue(b, t)
  PROVE  /\ c.apr = b.apr /\ c.emit = b.emit
         /\ \A i \in Accounts :
              IF i \in DueSlots(b, t)
              THEN /\ c.integral[i] = IF b.lastBill[i] = 0 THEN Accrued(b, i, t) ELSE 0
                   /\ c.lastUpd[i] = t /\ c.lastBill[i] = t
              ELSE /\ c.integral[i] = b.integral[i] /\ c.lastUpd[i] = b.lastUpd[i]
                   /\ c.lastBill[i] = b.lastBill[i]
<1>1. PICK due : due = DueSlots(b, t)
  OBVIOUS
<1>2. PICK owed : owed = [i \in Accounts |-> Accrued(b, i, t)]
  OBVIOUS
<1>3. PICK d : d = Swept(b, t)
  OBVIOUS
<1>4. b \in Books
  BY DEF BookOK
<1>5. /\ d.integral = [i \in Accounts |->
                         IF i \notin due THEN b.integral[i]
                         ELSE IF b.lastBill[i] = 0 THEN owed[i] ELSE 0]
      /\ d.lastUpd = [i \in Accounts |-> IF i \in due THEN t ELSE b.lastUpd[i]]
      /\ d.lastBill = [i \in Accounts |-> IF i \in due THEN t ELSE b.lastBill[i]]
      /\ d.apr = b.apr /\ d.emit = b.emit
  BY <1>1, <1>2, <1>3, <1>4 DEF Swept, Books
<1>6. d \in Books
  BY <1>3, SweptOK DEF BookOK
<1>7. /\ c.integral = d.integral /\ c.lastUpd = d.lastUpd /\ c.lastBill = d.lastBill
      /\ c.apr = d.apr /\ c.emit = d.emit
  <2>1. CASE ~b.emit
    BY <1>3, <2>1 DEF Accrue
  <2>2. CASE b.emit
    <3>1. PICK cash : c = [d EXCEPT !.cash = cash]
      BY <1>3, <2>2 DEF Accrue
    <3> QED BY <1>6, <3>1 DEF Books
  <2> QED BY <2>1, <2>2
<1> QED BY <1>1, <1>2, <1>5, <1>7

\* Both modules count with FiniteSets.
LEMMA SameCardinality == \A S : Scan!Cardinality(S) = Cardinality(S)
BY DEF Scan!Cardinality, Cardinality

LEMMA SweepScan == IndInv /\ AccrueThrough => Scan!Sweep
<1> SUFFICES ASSUME IndInv, AccrueThrough PROVE Scan!Sweep
  OBVIOUS
<1> DEFINE due == DueSlots(book, now)
<1>1. /\ book' = Accrue(book, now) /\ events' = events \o AccrueEvents(book, now)
      /\ sweeps' = 1 - sweeps /\ UNCHANGED <<now, saved>>
  BY DEF AccrueThrough
<1>2. /\ BookOK(book, now) /\ events \in Seq(Events) /\ book \in Books
      /\ now \in Nat \ {0} /\ Period \in Nat \ {0}
  BY HorizonNat, ClearingAssumption DEF IndInv, BooksOK, BookOK
<1>3. /\ BookOK(book', now) /\ SameSetup(book, book')
      /\ \A i \in Accounts :
           book'.cash[i] = book.cash[i] -
             IF book.emit /\ i \in Billed(book, now) THEN InterestOf(book, i, now) ELSE 0
  BY <1>1, <1>2, AccrueOK
<1>4. /\ book'.apr = book.apr /\ book'.emit = book.emit
      /\ \A i \in Accounts :
           IF i \in due
           THEN /\ book'.integral[i] =
                     IF book.lastBill[i] = 0 THEN Accrued(book, i, now) ELSE 0
                /\ book'.lastUpd[i] = now /\ book'.lastBill[i] = now
           ELSE /\ book'.integral[i] = book.integral[i]
                /\ book'.lastUpd[i] = book.lastUpd[i]
                /\ book'.lastBill[i] = book.lastBill[i]
  BY <1>1, <1>2, AccrueSlots
<1>5. ASSUME NEW i \in Accounts
      PROVE  /\ i \in due <=> Scan!Matures(i) \/ (book.on[i] /\ book.lastBill[i] = 0)
             /\ Scan!Matures(i) <=> i \in due /\ book.lastBill[i] # 0
             /\ i \in due => book.on[i]
             /\ Scan!Matures(i) => book.lastUpd[i] # 0
  <2>1. i \in due <=> book.on[i] /\ (book.lastBill[i] = 0 \/ now - book.lastBill[i] >= Period)
    BY <1>2, DueWhenScanned
  <2>2. book.lastBill[i] # 0 => book.lastUpd[i] # 0
    BY <1>2 DEF BookOK, SlotOK
  <2> QED BY <2>1, <2>2 DEF Scan!Matures
<1>6. book'.on = book.on /\ \A i \in Accounts : book.on[i] \in BOOLEAN
  BY <1>2, <1>3 DEF SameSetup, Books
<1> HIDE DEF due
<1>7. Started(book') =
        [i \in Accounts |-> Started(book)[i] \/ (book.on[i] /\ book.lastBill[i] = 0)]
  <2>1. ASSUME NEW i \in Accounts
        PROVE  book'.lastUpd[i] # 0 <=>
                 book.lastUpd[i] # 0 \/ (book.on[i] /\ book.lastBill[i] = 0)
    BY <1>2, <1>4, <1>5
  <2> QED BY <2>1 DEF Started
<1>8. book'.lastBill =
        [i \in Accounts |-> IF Scan!Matures(i) \/ (book.on[i] /\ book.lastBill[i] = 0)
                            THEN now ELSE book.lastBill[i]]
  <2>1. book'.lastBill \in [Accounts -> Nat]
    BY <1>3 DEF BookOK, Books
  <2>2. \A i \in Accounts :
          book'.lastBill[i] = IF Scan!Matures(i) \/ (book.on[i] /\ book.lastBill[i] = 0)
                              THEN now ELSE book.lastBill[i]
    BY <1>4, <1>5
  <2> QED BY <2>1, <2>2
\* A slot that is billed starts again from nothing; any other owes what it owed.
<1>9. ASSUME NEW i \in Accounts, book.on[i]
      PROVE  Accrued(book', i, now) =
               IF Scan!Matures(i) THEN 0 ELSE Accrued(book, i, now)
  <2>1. book'.integral[i] \in Nat /\ Accrued(book, i, now) \in Nat
    BY <1>2, <1>3, AccruedNat DEF BookOK, Books
  <2>2. CASE i \in due
    <3>1. Accrued(book', i, now) = book'.integral[i]
      BY <1>2, <1>4, <2>1, <2>2 DEF Accrued
    <3> QED BY <1>4, <1>5, <2>2, <3>1
  <2>3. CASE i \notin due
    <3>1. i \notin Billed(book, now)
      BY <2>3 DEF Billed, due
    <3>2. book.cash[i] \in Int
      BY <1>2 DEF Books
    <3>3. book'.cash[i] = book.cash[i]
      BY <1>3, <3>1, <3>2
    <3>4. Accrued(book', i, now) = Accrued(book, i, now)
      BY <1>4, <2>3, <3>3 DEF Accrued
    <3> QED BY <1>5, <2>3, <3>4
  <2> QED BY <2>2, <2>3
<1>10. Owed(book', now) =
         [i \in Accounts |-> IF Scan!Matures(i) THEN 0 ELSE Owed(book, now)[i]]
  <2>1. ASSUME NEW i \in Accounts
        PROVE  (IF book'.on[i] THEN Accrued(book', i, now) ELSE 0) =
                 IF Scan!Matures(i) THEN 0
                 ELSE IF book.on[i] THEN Accrued(book, i, now) ELSE 0
    BY <1>5, <1>6, <1>9
  <2> QED BY <2>1 DEF Owed
<1>11. ASSUME NEW i \in Accounts, book.on[i]
       PROVE  Owed(book, now)[i] * book.apr[i] = InterestOf(book, i, now)
  BY <1>11 DEF Owed, InterestOf
<1>12. Billed(book, now) = Scan!Billed
  <2>1. ASSUME NEW i \in Accounts
        PROVE  i \in Billed(book, now) <=> Scan!Matures(i) /\ Scan!Owes(i)
    BY <1>5, <1>11 DEF Billed, due, Scan!Owes
  <2>2. Billed(book, now) \subseteq Accounts
    BY DEF Billed, DueSlots
  <2> QED BY <2>1, <2>2 DEF Scan!Billed
<1>13. Matured(book, now) = Scan!BillsOf(Scan!Billed)
  <2> DEFINE S == Billed(book, now)
             Slot(k) == CHOOSE x \in S : Cardinality(Below(S, x)) = k - 1
  <2>1. /\ S \in SUBSET (0 .. NumAccounts) /\ S \subseteq Accounts /\ NumAccounts \in Nat
        /\ \A i \in S : book.on[i]
    BY ClearingAssumption DEF Billed, DueSlots, Accounts
  <2>2. Matured(book, now) =
          [k \in 1 .. Cardinality(S) |->
             [acct |-> Slot(k), amount |-> InterestOf(book, Slot(k), now),
              chan |-> "locInterest", ts |-> now]]
    BY DEF Matured, Billed, Below
  <2>3. Scan!BillsOf(S) =
          [k \in 1 .. Cardinality(S) |->
             [acct |-> Slot(k), amount |-> Owed(book, now)[Slot(k)] * book.apr[Slot(k)],
              chan |-> "locInterest", ts |-> now]]
    BY SameCardinality DEF Scan!BillsOf, Below
  <2>4. ASSUME NEW k \in 1 .. Cardinality(S)
        PROVE  Owed(book, now)[Slot(k)] * book.apr[Slot(k)] = InterestOf(book, Slot(k), now)
    <3> HIDE DEF S
    <3>1. \E x \in S : Cardinality(Below(S, x)) = k - 1
      BY <2>1, Ranked
    <3>2. Slot(k) \in S
      BY <3>1
    <3> QED BY <1>11, <2>1, <3>2
  <2> HIDE DEF S, Slot
  <2>5. Matured(book, now) = Scan!BillsOf(S)
    BY <2>2, <2>3, <2>4
  <2> QED BY <1>12, <2>5 DEF S
<1>14. IF book.emit
       THEN /\ InterestRows(events') = InterestRows(events) \o Scan!BillsOf(Scan!Billed)
            /\ book'.cash = [i \in Accounts |-> book.cash[i] -
                               IF i \in Scan!Billed THEN Owed(book, now)[i] * book.apr[i] ELSE 0]
       ELSE InterestRows(events') = InterestRows(events) /\ book'.cash = book.cash
  <2>1. CASE book.emit
    <3>1. PICK more : more = Matured(book, now)
      OBVIOUS
    <3>2. more \in Seq(Events) /\ \A n \in 1 .. Len(more) : more[n].chan = "locInterest"
      BY <1>2, <3>1, MaturedEvents
    <3>3. events' = events \o more
      BY <1>1, <2>1, <3>1 DEF AccrueEvents
    <3>4. InterestRows(events') = InterestRows(events) \o Scan!BillsOf(Scan!Billed)
      <4>1. events \in Seq(Events)
        BY <1>2
      <4>2. InterestRows(events \o more) = InterestRows(events) \o more
        BY <3>2, <4>1, RowsGrow
      <4>3. more = Scan!BillsOf(Scan!Billed)
        BY <1>13, <3>1
      <4> HIDE DEF InterestRows
      <4> QED BY <3>3, <4>2, <4>3
    <3>5. \A i \in Accounts : i \in Scan!Billed => book.on[i]
      BY <1>12 DEF Billed, DueSlots
    <3>6. \A i \in Accounts :
            book'.cash[i] = book.cash[i] -
              IF i \in Scan!Billed THEN Owed(book, now)[i] * book.apr[i] ELSE 0
      BY <1>3, <1>11, <1>12, <2>1, <3>5
    <3>7. book'.cash \in [Accounts -> Int]
      BY <1>3 DEF BookOK, Books
    <3> QED BY <2>1, <3>4, <3>6, <3>7
  <2>2. CASE ~book.emit
    <3>1. events' = events
      BY <1>1, <1>2, <2>2 DEF AccrueEvents
    <3>2. book'.cash \in [Accounts -> Int] /\ book.cash \in [Accounts -> Int]
      BY <1>2, <1>3 DEF BookOK, Books
    <3>3. book'.cash = book.cash
      BY <1>3, <2>2, <3>2
    <3> QED BY <2>2, <3>1, <3>3
  <2> QED BY <2>1, <2>2
<1>15. Owed(book, now)' = Owed(book', now) /\ Started(book)' = Started(book')
  BY <1>1
<1>16. SavedState' = SavedState
  BY <1>1 DEF SavedState
<1> QED BY <1>1, <1>4, <1>6, <1>7, <1>8, <1>10, <1>14, <1>15, <1>16 DEF Scan!Sweep

\* A setup call starts the accrual of its slot afresh, or touches none.
LEMMA ResetScan ==
  ASSUME IndInv, NEW i \in Accounts, NEW b, b \in Books, Configure(b), Reset(book, b, i)
  PROVE  Scan!Setup(i)
<1>1. book' = b /\ UNCHANGED <<now, events, saved, sweeps>>
  BY DEF Configure
<1>2. book \in Books /\ now \in Nat
  BY HorizonNat DEF IndInv, BooksOK, BookOK
<1>3. /\ b.on \in [Accounts -> BOOLEAN] /\ b.apr \in [Accounts -> Int]
      /\ b.cash \in [Accounts -> Int] /\ b.emit = book.emit
      /\ b.lastBill \in [Accounts -> Nat] /\ book.lastBill \in [Accounts -> Nat]
  <2>1. b.apr \in [Accounts -> Nat] /\ b.emit = book.emit
    BY DEF Books, Reset
  <2> QED BY <1>2, <2>1 DEF Books
<1>4. \A j \in Accounts \ {i} : SameSlot(book, b, j) /\ b.cash[j] = book.cash[j]
  BY DEF Reset
<1>5. b.integral[i] = 0 /\ b.lastUpd[i] = 0 /\ b.lastBill[i] = 0
  BY DEF Reset
<1>6. Owed(b, now) = [Owed(book, now) EXCEPT ![i] = 0]
  <2>1. Accrued(b, i, now) = 0
    BY <1>5 DEF Accrued
  <2>2. \A j \in Accounts \ {i} :
          Accrued(b, j, now) = Accrued(book, j, now) /\ b.on[j] = book.on[j]
    BY <1>4 DEF Accrued, SameSlot
  <2> QED BY <2>1, <2>2 DEF Owed
<1>7. Started(b) = [Started(book) EXCEPT ![i] = FALSE]
  BY <1>4, <1>5 DEF Started, SameSlot
<1>8. b.lastBill = [book.lastBill EXCEPT ![i] = 0]
  BY <1>2, <1>3, <1>4, <1>5 DEF SameSlot
<1>9. \A j \in Accounts \ {i} :
        b.on[j] = book.on[j] /\ b.apr[j] = book.apr[j] /\ b.cash[j] = book.cash[j]
  BY <1>4 DEF SameSlot
<1>10. /\ Owed(book, now)' = Owed(b, now) /\ Started(book)' = Started(b)
       /\ InterestRows(events)' = InterestRows(events)
       /\ SavedState' = SavedState
  BY <1>1 DEF SavedState
<1> QED BY <1>1, <1>3, <1>6, <1>7, <1>8, <1>9, <1>10 DEF Scan!Setup

LEMMA SameScan ==
  ASSUME NEW b, Configure(b), b.cash = book.cash, SameAccrual(book, b)
  PROVE  UNCHANGED Scan!vars
<1>1. book' = b /\ UNCHANGED <<now, events, saved, sweeps>>
  BY DEF Configure
<1>2. Owed(b, now) = Owed(book, now) /\ Started(b) = Started(book)
  BY DEF Owed, Started, Accrued, SameAccrual
<1>3. /\ Owed(book, now)' = Owed(book, now) /\ Started(book)' = Started(book)
      /\ InterestRows(events)' = InterestRows(events)
      /\ SavedState' = SavedState
  BY <1>1, <1>2 DEF SavedState
<1> QED BY <1>1, <1>3 DEF SameAccrual, Scan!vars

LEMMA SetupScan ==
  ASSUME IndInv, NEW i \in Accounts, Setup(i) PROVE Scan!Setup(i) \/ UNCHANGED Scan!vars
<1>1. BookOK(book, now) /\ now \in Nat
  BY HorizonNat DEF IndInv, BooksOK
<1>2. CASE \E type \in sc.types, a \in sc.amounts : Configure(SetProtection(book, i, type, a))
  <2>1. PICK type \in Protections, a \in Nat : Configure(SetProtection(book, i, type, a))
    BY <1>2, HorizonNat
  <2>2. PICK b : b = SetProtection(book, i, type, a)
    OBVIOUS
  <2>3. BookOK(b, now) /\ Reset(book, b, i)
    BY <1>1, <2>2, SetProtectionOK
  <2> QED BY <2>1, <2>2, <2>3, ResetScan DEF BookOK
<1>3. CASE \E r \in Rates : Configure(SetLoc(book, i, r))
  <2>1. PICK r \in Nat : Configure(SetLoc(book, i, r))
    BY <1>3, LedgerBookAssumption
  <2>2. PICK b : b = SetLoc(book, i, r)
    OBVIOUS
  <2>3. BookOK(b, now) /\ (Reset(book, b, i) \/ b = book)
    BY <1>1, <2>2, SetLocOK
  <2>4. SameAccrual(book, book)
    BY DEF SameAccrual
  <2> QED BY <2>1, <2>2, <2>3, <2>4, ResetScan, SameScan DEF BookOK
<1>4. CASE \E a \in sc.amounts : Configure(SetOverdraftOnly(book, i, a))
  <2>1. PICK a \in Nat : Configure(SetOverdraftOnly(book, i, a))
    BY <1>4, HorizonNat
  <2>2. PICK b : b = SetOverdraftOnly(book, i, a)
    OBVIOUS
  <2>3. BookOK(b, now) /\ Reset(book, b, i)
    BY <1>1, <2>2, SetOverdraftOnlyOK
  <2> QED BY <2>1, <2>2, <2>3, ResetScan DEF BookOK
<1>5. CASE Configure(SetBankTier(book, i, Fee))
  <2>1. PICK b : b = SetBankTier(book, i, Fee)
    OBVIOUS
  <2>2. b.cash = book.cash /\ SameAccrual(book, b)
    BY <1>1, <2>1, LedgerBookAssumption, SetBankTierOK
  <2> QED BY <1>5, <2>1, <2>2, SameScan
<1> QED BY <1>2, <1>3, <1>4, <1>5 DEF Setup

LEMMA SetEmitScan == IndInv /\ SetEmitLiquidity => Scan!SetEmit
<1> SUFFICES ASSUME IndInv, SetEmitLiquidity PROVE Scan!SetEmit
  OBVIOUS
<1>1. book' = [book EXCEPT !.emit = ~@] /\ UNCHANGED <<now, events, saved, sweeps>>
  BY DEF SetEmitLiquidity
<1>2. book \in Books
  BY DEF IndInv, BooksOK, BookOK
<1>3. /\ book'.cash = book.cash /\ book'.on = book.on /\ book'.apr = book.apr
      /\ book'.integral = book.integral /\ book'.lastUpd = book.lastUpd
      /\ book'.lastBill = book.lastBill /\ book'.emit \in BOOLEAN
  BY <1>1, <1>2 DEF Books
<1>4. Owed(book', now) = Owed(book, now) /\ Started(book') = Started(book)
  BY <1>3 DEF Owed, Started, Accrued
<1>5. /\ Owed(book, now)' = Owed(book, now) /\ Started(book)' = Started(book)
      /\ InterestRows(events)' = InterestRows(events)
      /\ SavedState' = SavedState
  BY <1>1, <1>4 DEF SavedState
<1> QED BY <1>1, <1>3, <1>5 DEF Scan!SetEmit

LEMMA CloneScan == IndInv /\ Clone => Scan!Save
<1> SUFFICES ASSUME Clone PROVE Scan!Save
  OBVIOUS
<1>1. saved'.book = book /\ saved'.now = now /\ UNCHANGED <<book, now, events, sweeps>>
  BY DEF Clone
<1>2. SavedState' = <<now, StateOf(book, now)>>
  BY <1>1 DEF SavedState
<1>3. /\ Owed(book, now)' = Owed(book, now) /\ Started(book)' = Started(book)
      /\ InterestRows(events)' = InterestRows(events)
  BY <1>1
<1> QED BY <1>1, <1>2, <1>3 DEF Scan!Save, Scan!state, StateOf

\* What restore() brings back is all that the scan remembers of a slot.
LEMMA RestoreScan == IndInv /\ RestoreBook => Scan!RestoreSaved
<1> SUFFICES ASSUME IndInv, RestoreBook PROVE Scan!RestoreSaved
  OBVIOUS
<1>1. /\ book' = Restore(book, saved.book) /\ now' = saved.now /\ ~changedSetup
      /\ UNCHANGED <<events, saved, sweeps>>
  BY DEF RestoreBook
<1>2. saved.book.on = book.on /\ book \in Books /\ saved.book \in Books
  BY <1>1 DEF IndInv, SameProtections, BooksOK, BookOK
<1>3. /\ book'.cash = saved.book.cash /\ book'.integral = saved.book.integral
      /\ book'.lastUpd = saved.book.lastUpd /\ book'.lastBill = saved.book.lastBill
      /\ book'.on = book.on /\ book'.apr = book.apr /\ book'.emit = book.emit
  BY <1>1, <1>2 DEF Restore, Books
<1>4. /\ Owed(book', saved.now) = Owed(saved.book, saved.now)
      /\ Started(book') = Started(saved.book)
  BY <1>2, <1>3 DEF Owed, Started, Accrued
<1>5. /\ Owed(book, now)' = Owed(book', saved.now) /\ Started(book)' = Started(book')
      /\ InterestRows(events)' = InterestRows(events)
      /\ SavedState' = SavedState
  BY <1>1 DEF SavedState
<1> QED BY <1>1, <1>3, <1>4, <1>5 DEF Scan!RestoreSaved, Scan!state, StateOf, SavedState

LEMMA InitScan == Init => Scan!Init
<1> SUFFICES ASSUME Init PROVE Scan!Init
  OBVIOUS
<1>1. sc \in Scenarios /\ sc.seeds \subseteq Seeds
  BY LedgerBookAssumption DEF Init
<1>2. PICK seed \in [Accounts -> Seeds] : book = OpeningBook(seed)
  BY <1>1 DEF Init
<1>3. book \in Books /\ Fresh(book)
  BY <1>2, OpeningOpens DEF Opening
<1>4. Owed(book, 1) = [i \in Accounts |-> 0] /\ Started(book) = [i \in Accounts |-> FALSE]
  <2>1. \A i \in Accounts : Accrued(book, i, 1) = 0 /\ book.lastUpd[i] = 0
    BY <1>3 DEF Fresh, Accrued
  <2> QED BY <2>1 DEF Owed, Started
<1>5. book.lastBill = [i \in Accounts |-> 0]
  BY <1>3 DEF Fresh, Books
<1>6. InterestRows(<< >>) = << >>
  <2>1. << >> \in Seq(Events) /\ Len(<< >>) = 0
    OBVIOUS
  <2>2. PICK rows : RowsOf(<< >>, rows) /\ InterestRows(<< >>) = rows[Len(<< >>)]
    BY <2>1, RowsRun
  <2> QED BY <2>1, <2>2 DEF RowsOf
<1>7. /\ book.cash \in [Accounts -> Int] /\ book.apr \in [Accounts -> Int]
      /\ book.on \in [Accounts -> BOOLEAN] /\ book.emit = TRUE
  BY <1>3 DEF Books, Fresh
<1>8. now = 1 /\ events = << >> /\ saved.now = now /\ saved.book = book /\ sweeps = 0
  BY DEF Init
<1> QED BY <1>4, <1>5, <1>6, <1>7, <1>8 DEF Scan!Init, Scan!state, StateOf, SavedState

\* Lazy accrual and a queue of billings are the scan over all slots: every interest
\* row has the instant, the amount and the place that the scan would give it.
THEOREM LazyIsScan == Spec => ImplementsScan
<1>1. IndInv /\ [Next]_vars => [Scan!Next]_Scan!vars
  <2> SUFFICES ASSUME IndInv, [Next]_vars PROVE [Scan!Next]_Scan!vars
    OBVIOUS
  <2>1. CASE UNCHANGED vars
    BY <2>1 DEF vars, Scan!vars, SavedState
  <2>2. CASE Tick
    BY <2>2, TickScan DEF Scan!Next
  <2>3. CASE Post
    BY <2>3, PostScan DEF Scan!Next
  <2>4. CASE AccrueThrough
    BY <2>4, SweepScan DEF Scan!Next
  <2>5. CASE SetEmitLiquidity
    BY <2>5, SetEmitScan DEF Scan!Next
  <2>6. CASE Clone
    BY <2>6, CloneScan DEF Scan!Next
  <2>7. CASE RestoreBook
    BY <2>7, RestoreScan DEF Scan!Next
  <2>8. CASE \E i \in Accounts : Setup(i)
    BY <2>8, SetupScan DEF Scan!Next
  <2> QED BY <2>1, <2>2, <2>3, <2>4, <2>5, <2>6, <2>7, <2>8 DEF Next
<1> QED BY <1>1, InitScan, Inductive, PTL DEF Spec, ImplementsScan, Scan!Spec
=============================================================================
