----------------------- MODULE ThreadProtocols_proofs -----------------------
(***************************************************************************)
(* The two small protocols of threads.  The account locks, for every set   *)
(* of threads and every array size: the locks exclude, and ordering by     *)
(* index prevents deadlock.  The asynchronous sink, for every number of    *)
(* spans and every queue size: what the inner sink has seen is a prefix of *)
(* the run, and nothing more reaches it once one of its calls has thrown.  *)
(***************************************************************************)
EXTENDS AccountLocks, AsyncSink, SequenceTheorems, WellFoundedInduction, NaturalsInduction, TLAPS
-----------------------------------------------------------------------------
(* The account locks *)

\* What one thread's program counter says of its two lists.
ThreadInv(t) ==
  /\ pc[t] = "idle" => held[t] = << >>
  /\ pc[t] \in {"idle", "unlock", "notify"} => want[t] = << >>
  /\ pc[t] \in {"wait", "asleep"} => want[t] # << >>
  /\ pc[t] = "notify" => held[t] # << >>
  /\ pc[t] # "idle" => done[t] < MaxTransfers
  /\ Entries(want[t]) \subseteq Entries(held[t])
  /\ \A i \in Entries(want[t]) :
       \A j \in Entries(held[t]) \ Entries(want[t]) : j < i

\* A flag is set exactly by the thread that holds the account.
OwnerInv ==
  \A i \in Accounts : \A t \in Threads : owner[i] = t <=> i \in Holds(t)

IndInv == TypeOK /\ (\A t \in Threads : ThreadInv(t)) /\ OwnerInv
-----------------------------------------------------------------------------
\* The first account leaves the list: what TestAndSet and NotifyOne rely on.
LEMMA PairsTail ==
  ASSUME NEW s \in Pairs, s # << >>
  PROVE  /\ Head(s) \in Accounts /\ Head(s) \in Entries(s)
         /\ Tail(s) \in Pairs
         /\ Entries(Tail(s)) = Entries(s) \ {Head(s)}
<1>1. CASE \E a \in Accounts : s = <<a>>
  BY <1>1 DEF Pairs, Entries
<1>2. CASE \E p \in Accounts \X Accounts : p[1] # p[2] /\ s = p
  <2>1. PICK a \in Accounts, b \in Accounts : a # b /\ s = <<a, b>>
    BY <1>2
  <2>2. Head(s) = a /\ Tail(s) = <<b>>
    BY <2>1
  <2>3. Entries(s) = {a, b} /\ Entries(<<b>>) = {b}
    BY <2>1 DEF Entries
  <2> QED BY <2>1, <2>2, <2>3 DEF Pairs
<1> QED BY <1>1, <1>2 DEF Pairs

\* What lockPair has still to lock stays in ascending order.
LEMMA AscendingTail ==
  ASSUME NEW s \in Ascending, s # << >>
  PROVE  /\ s \in Pairs
         /\ Tail(s) \in Ascending
         /\ \A j \in Entries(Tail(s)) : Head(s) < j
<1> USE DEF Accounts
<1>1. CASE \E a \in Accounts : s = <<a>>
  BY <1>1 DEF Pairs, Ascending, Entries
<1>2. CASE \E p \in Accounts \X Accounts : p[1] < p[2] /\ s = p
  <2>1. PICK a \in Accounts, b \in Accounts : a < b /\ s = <<a, b>>
    BY <1>2
  <2>2. Head(s) = a /\ Tail(s) = <<b>>
    BY <2>1
  <2>3. Entries(<<b>>) = {b}
    BY <2>1 DEF Entries
  <2>4. s \in Pairs
    BY <2>1, AccountsAssumption DEF Pairs
  <2> QED BY <2>1, <2>2, <2>3, <2>4 DEF Ascending
<1> QED BY <1>1, <1>2 DEF Ascending

\* lockPair and unlockPair visit the same accounts, the valid sides, once each.
LEMMA OrdersAgree ==
  ASSUME NEW a \in Sides, NEW b \in Sides
  PROVE  /\ LockOrder(a, b) \in Ascending
         /\ UnlockOrder(a, b) \in Pairs
         /\ Entries(LockOrder(a, b)) = Entries(UnlockOrder(a, b))
<1>1. /\ Entries(<< >>) = {}
      /\ \A x \in Accounts : Entries(<<x>>) = {x}
      /\ \A x, y \in Accounts : Entries(<<x, y>>) = {x, y}
  BY DEF Entries
<1>2. /\ << >> \in Ascending /\ << >> \in Pairs
      /\ \A x \in Accounts : <<x>> \in Ascending /\ <<x>> \in Pairs
      /\ \A x, y \in Accounts : x # y => <<x, y>> \in Pairs
      /\ \A x, y \in Accounts : x < y => <<x, y>> \in Ascending
  BY DEF Ascending, Pairs
<1>3. CASE a = Invalid \/ b = Invalid \/ a = b
  BY <1>1, <1>2, <1>3 DEF LockOrder, UnlockOrder, Sides
<1>4. CASE a # Invalid /\ b # Invalid /\ a # b
  <2>1. a \in Accounts /\ b \in Accounts
    BY <1>4 DEF Sides
  <2>2. a < b \/ b < a
    BY <1>4, <2>1, AccountsAssumption DEF Accounts
  <2>3. UnlockOrder(a, b) = <<a, b>>
    BY <1>4 DEF UnlockOrder
  <2>4. LockOrder(a, b) = IF a < b THEN <<a, b>> ELSE <<b, a>>
    BY <1>4 DEF LockOrder
  <2>5. CASE a < b
    BY <1>1, <1>2, <1>4, <2>1, <2>3, <2>4, <2>5
  <2>6. CASE ~(a < b)
    <3>1. LockOrder(a, b) = <<b, a>> /\ b < a
      BY <2>2, <2>4, <2>6
    <3>2. Entries(<<b, a>>) = Entries(<<a, b>>)
      <4>1. Entries(<<b, a>>) = {b, a}
        BY <1>1, <2>1
      <4>2. Entries(<<a, b>>) = {a, b}
        BY <1>1, <2>1
      <4>3. {b, a} = {a, b}
        OBVIOUS
      <4> QED BY <4>1, <4>2, <4>3
    <3> QED BY <1>2, <1>4, <2>1, <2>3, <3>1, <3>2
  <2> QED BY <2>5, <2>6
<1> QED BY <1>3, <1>4
-----------------------------------------------------------------------------
\* A new array: every flag is clear and no thread is inside lockPair.
THEOREM InitIndInv == Init => IndInv
<1> SUFFICES ASSUME Init PROVE IndInv
  OBVIOUS
<1>1. TypeOK
  BY BoundAssumption DEF Init, TypeOK, Ascending, Pairs
<1>2. ASSUME NEW t \in Threads PROVE held[t] = << >> /\ want[t] = << >>
  BY DEF Init
<1>3. Entries(<< >>) = {}
  BY DEF Entries
<1>4. \A t \in Threads : ThreadInv(t)
  BY <1>2, <1>3 DEF Init, ThreadInv
<1>5. OwnerInv
  <2>1. \A t \in Threads : Holds(t) = {}
    BY <1>2, <1>3 DEF Holds
  <2> QED BY <2>1, ThreadsAssumption DEF Init, OwnerInv, Free
<1> QED BY <1>1, <1>4, <1>5 DEF IndInv

\* Every step of every thread, from test_and_set to notify_one, keeps the
\* invariant.
LEMMA StepIndInv ==
  ASSUME IndInv, NEW t \in Threads, Step(t)
  PROVE  IndInv'
<1> USE DEF IndInv
<1>a. \A s \in Threads :
        /\ pc[s] \in {"idle", "lock", "wait", "asleep", "unlock", "notify"}
        /\ want[s] \in Ascending /\ held[s] \in Pairs
        /\ done[s] \in 0 .. MaxTransfers
  BY DEF TypeOK
<1>1. CASE Begin(t)
  <2>1. PICK a \in Sides, b \in Sides :
          /\ want' = [want EXCEPT ![t] = LockOrder(a, b)]
          /\ held' = [held EXCEPT ![t] = UnlockOrder(a, b)]
    BY <1>1 DEF Begin
  <2>2. /\ LockOrder(a, b) \in Ascending
        /\ UnlockOrder(a, b) \in Pairs
        /\ Entries(LockOrder(a, b)) = Entries(UnlockOrder(a, b))
    BY OrdersAgree
  <2>3. TypeOK'
    BY <1>1, <2>1, <2>2 DEF Begin, TypeOK
  <2>4. /\ want'[t] = LockOrder(a, b) /\ held'[t] = UnlockOrder(a, b)
        /\ pc'[t] = "lock" /\ done' = done /\ done[t] < MaxTransfers
        /\ \A s \in Threads \ {t} :
             want'[s] = want[s] /\ held'[s] = held[s] /\ pc'[s] = pc[s]
    BY <1>1, <2>1 DEF Begin, TypeOK
  <2>5. ASSUME NEW s \in Threads PROVE ThreadInv(s)'
    <3>1. CASE s = t
      BY <2>2, <2>4, <3>1 DEF ThreadInv
    <3>2. CASE s # t
      BY <2>4, <3>2 DEF ThreadInv
    <3> QED BY <3>1, <3>2
  <2>6. Holds(t)' = {}
    BY <2>2, <2>4 DEF Holds
  <2>7. Holds(t) = {}
    <3>1. held[t] = << >>
      BY <1>1 DEF Begin, ThreadInv
    <3>2. Entries(<< >>) = {}
      BY DEF Entries
    <3> QED BY <3>1, <3>2 DEF Holds
  <2>8. \A s \in Threads \ {t} : Holds(s)' = Holds(s)
    BY <2>4 DEF Holds
  <2>9. OwnerInv'
    BY <1>1, <2>6, <2>7, <2>8 DEF Begin, OwnerInv
  <2> QED BY <2>3, <2>5, <2>9
<1>2. CASE TestAndSet(t)
  <2> DEFINE i == Head(want[t])
  <2>1. /\ want[t] \in Pairs /\ Tail(want[t]) \in Ascending
        /\ \A j \in Entries(Tail(want[t])) : i < j
    BY <1>2, <1>a, AscendingTail DEF TestAndSet
  <2>2. /\ i \in Accounts /\ i \in Entries(want[t])
        /\ Entries(Tail(want[t])) = Entries(want[t]) \ {i}
    BY <1>2, <2>1, PairsTail DEF TestAndSet
  <2>3. CASE owner[i] = Free
    <3>1. /\ owner' = [owner EXCEPT ![i] = t]
          /\ want' = [want EXCEPT ![t] = Tail(want[t])]
          /\ pc[t] = "lock" /\ UNCHANGED <<pc, held, done>>
      BY <1>2, <2>3 DEF TestAndSet
    <3>2. TypeOK'
      BY <2>1, <2>2, <3>1 DEF TypeOK
    <3>3. /\ want'[t] = Tail(want[t])
          /\ \A s \in Threads \ {t} : want'[s] = want[s]
      BY <3>1 DEF TypeOK
    <3>4. ASSUME NEW s \in Threads PROVE ThreadInv(s)'
      <4>1. CASE s # t
        BY <3>1, <3>3, <4>1 DEF ThreadInv
      <4>2. CASE s = t
        <5>1. Entries(want[t])' = Entries(want[t]) \ {i}
          BY <2>2, <3>3 DEF Entries
        <5>2. held'[t] = held[t] /\ pc'[t] = "lock"
          BY <3>1
        <5>3. \A k \in Entries(want[t])' :
                \A j \in Entries(held'[t]) \ Entries(want[t])' : j < k
          <6> SUFFICES ASSUME NEW k \in Entries(want[t])',
                              NEW j \in Entries(held'[t]) \ Entries(want[t])'
                       PROVE  j < k
            OBVIOUS
          <6>1. CASE j = i
            BY <2>1, <3>3, <6>1 DEF Entries
          <6>2. CASE j # i
            BY <5>1, <5>2, <6>2 DEF ThreadInv
          <6> QED BY <6>1, <6>2
        <5>4. Entries(want[t])' \subseteq Entries(held'[t])
          BY <5>1, <5>2 DEF ThreadInv
        <5>5. done'[t] < MaxTransfers
          BY <3>1 DEF ThreadInv
        <5> QED BY <4>2, <5>2, <5>3, <5>4, <5>5 DEF ThreadInv
      <4> QED BY <4>1, <4>2
    <3>5. Holds(t)' = Holds(t) \cup {i}
      BY <2>2, <3>1, <3>3 DEF Holds, ThreadInv
    <3>6. \A s \in Threads \ {t} : Holds(s)' = Holds(s)
      BY <3>1, <3>3 DEF Holds
    <3>7. \A s \in Threads : i \notin Holds(s)
      BY <2>2, <2>3, ThreadsAssumption DEF OwnerInv, Free
    <3>8. OwnerInv'
      <4> SUFFICES ASSUME NEW k \in Accounts, NEW s \in Threads
                   PROVE  owner'[k] = s <=> k \in Holds(s)'
        BY DEF OwnerInv
      <4>1. owner'[k] = IF k = i THEN t ELSE owner[k]
        BY <3>1 DEF TypeOK
      <4>2. CASE s = t
        BY <3>5, <4>1, <4>2 DEF OwnerInv
      <4>3. CASE s # t
        BY <3>6, <3>7, <4>1, <4>3 DEF OwnerInv
      <4> QED BY <4>2, <4>3
    <3> QED BY <3>2, <3>4, <3>8
  <2>4. CASE owner[i] # Free
    <3>1. /\ pc' = [pc EXCEPT ![t] = "wait"] /\ want[t] # << >>
          /\ pc[t] = "lock" /\ UNCHANGED <<owner, want, held, done>>
      BY <1>2, <2>4 DEF TestAndSet
    <3>2. TypeOK'
      BY <3>1 DEF TypeOK
    <3>3. \A s \in Threads : ThreadInv(s)' /\ Holds(s)' = Holds(s)
      BY <3>1 DEF ThreadInv, Holds, TypeOK
    <3> QED BY <3>1, <3>2, <3>3 DEF OwnerInv
  <2> QED BY <2>3, <2>4
<1>3. CASE WaitOnFlag(t)
  <2>1. TypeOK'
    BY <1>3 DEF WaitOnFlag, TypeOK
  <2>2. \A s \in Threads : ThreadInv(s)' /\ Holds(s)' = Holds(s)
    BY <1>3 DEF WaitOnFlag, ThreadInv, Holds, TypeOK
  <2> QED BY <1>3, <2>1, <2>2 DEF OwnerInv, WaitOnFlag
<1>4. CASE Post(t)
  <2>1. TypeOK'
    BY <1>4 DEF Post, TypeOK
  <2>2. \A s \in Threads : ThreadInv(s)' /\ Holds(s)' = Holds(s)
    BY <1>4 DEF Post, ThreadInv, Holds, TypeOK
  <2> QED BY <1>4, <2>1, <2>2 DEF OwnerInv, Post
<1>5. CASE Clear(t)
  <2> DEFINE i == Head(held[t])
  <2>1. /\ pc[t] = "unlock" /\ held[t] # << >>
        /\ owner' = [owner EXCEPT ![i] = Free]
        /\ pc' = [pc EXCEPT ![t] = "notify"]
        /\ UNCHANGED <<want, held, done>>
    BY <1>5 DEF Clear
  <2>2. i \in Accounts /\ i \in Entries(held[t])
    BY <1>a, <2>1, PairsTail
  <2>3. TypeOK'
    BY <2>1, <2>2 DEF TypeOK, Free
  <2>4. \A s \in Threads : ThreadInv(s)'
    BY <2>1 DEF ThreadInv, TypeOK
  <2>5. want[t] = << >> /\ Entries(<< >>) = {}
    BY <2>1 DEF ThreadInv, Entries
  <2>6. Holds(t)' = Holds(t) \ {i} /\ i \in Holds(t)
    BY <2>1, <2>2, <2>5 DEF Holds, TypeOK
  <2>7. \A s \in Threads \ {t} : Holds(s)' = Holds(s)
    BY <2>1 DEF Holds, TypeOK
  <2>8. OwnerInv'
    <3> SUFFICES ASSUME NEW k \in Accounts, NEW s \in Threads
                 PROVE  owner'[k] = s <=> k \in Holds(s)'
      BY DEF OwnerInv
    <3>1. owner'[k] = IF k = i THEN Free ELSE owner[k]
      BY <2>1 DEF TypeOK
    <3>2. owner[i] = t /\ Free # s
      BY <2>2, <2>6, ThreadsAssumption DEF OwnerInv, Free
    <3>3. CASE s = t
      BY <2>6, <3>1, <3>2, <3>3 DEF OwnerInv
    <3>4. CASE s # t
      BY <2>2, <2>7, <3>1, <3>2, <3>4 DEF OwnerInv
    <3> QED BY <3>3, <3>4
  <2> QED BY <2>3, <2>4, <2>8
<1>6. CASE NotifyOne(t)
  <2> DEFINE i == Head(held[t])
  <2>1. /\ pc[t] = "notify" /\ UNCHANGED <<owner, want, done>>
        /\ held' = [held EXCEPT ![t] = Tail(held[t])]
        /\ held[t] # << >>
    BY <1>6 DEF NotifyOne, ThreadInv
  <2>2. /\ Tail(held[t]) \in Pairs
        /\ Entries(Tail(held[t])) = Entries(held[t]) \ {i}
    BY <1>a, <2>1, PairsTail
  <2>3. /\ pc' \in [Threads -> {"idle", "lock", "wait", "asleep", "unlock", "notify"}]
        /\ pc'[t] = "unlock"
        /\ \A s \in Threads \ {t} :
             pc'[s] = pc[s] \/ (pc[s] = "asleep" /\ pc'[s] = "wait")
    BY <1>6 DEF NotifyOne, Sleepers, TypeOK
  <2>4. TypeOK'
    BY <2>1, <2>2, <2>3 DEF TypeOK
  <2>5. /\ held'[t] = Tail(held[t])
        /\ \A s \in Threads \ {t} : held'[s] = held[s]
    BY <2>1 DEF TypeOK
  <2>6. want[t] = << >> /\ Entries(<< >>) = {}
    BY <2>1 DEF ThreadInv, Entries
  <2>7. ASSUME NEW s \in Threads PROVE ThreadInv(s)'
    <3>1. CASE s = t
      BY <2>1, <2>3, <2>6, <3>1 DEF ThreadInv
    <3>2. CASE s # t
      BY <2>1, <2>3, <2>5, <3>2 DEF ThreadInv
    <3> QED BY <3>1, <3>2
  <2>8. \A s \in Threads : Holds(s)' = Holds(s)
    BY <2>1, <2>2, <2>3, <2>5, <2>6 DEF Holds
  <2> QED BY <2>1, <2>4, <2>7, <2>8 DEF OwnerInv
<1>7. CASE Complete(t)
  <2>1. TypeOK'
    <3>1. done[t] + 1 \in 0 .. MaxTransfers
      BY <1>7, <1>a, BoundAssumption DEF Complete, ThreadInv
    <3> QED BY <1>7, <3>1 DEF Complete, TypeOK
  <2>2. \A s \in Threads : ThreadInv(s)' /\ Holds(s)' = Holds(s)
    BY <1>7 DEF Complete, ThreadInv, Holds, TypeOK
  <2> QED BY <1>7, <2>1, <2>2 DEF OwnerInv, Complete
<1> QED BY <1>1, <1>2, <1>3, <1>4, <1>5, <1>6, <1>7 DEF Step

\* The flags, the threads' lists and their program counters stay in step, in
\* every interleaving of lockPair and unlockPair.
THEOREM SpecIndInv == Spec => []IndInv
<1>1. IndInv /\ [Next]_vars => IndInv'
  <2>1. IndInv /\ Next => IndInv'
    BY StepIndInv DEF Next
  <2>2. IndInv /\ UNCHANGED vars => IndInv'
    BY DEF IndInv, TypeOK, ThreadInv, OwnerInv, Holds, vars
  <2> QED BY <2>1, <2>2
<1> QED BY InitIndInv, <1>1, PTL DEF Spec

\* TypeOK: every thread locks the distinct accounts of its transfer in
\* ascending order.
THEOREM TypeCorrect == Spec => []TypeOK
<1>1. IndInv => TypeOK
  BY DEF IndInv
<1> QED BY SpecIndInv, <1>1, PTL

\* Two transfers never have the same account locked, for any number of threads.
THEOREM MutualExclusion == Spec => []Exclusive
<1>1. IndInv => Exclusive
  <2> SUFFICES ASSUME IndInv, NEW s \in Threads, NEW t \in Threads, s # t,
                      NEW i \in Holds(s) \cap Holds(t)
               PROVE  FALSE
    BY DEF Exclusive
  <2>1. i \in Accounts
    <3>1. \A p \in Pairs : Entries(p) \subseteq Accounts
      BY DEF Pairs, Entries
    <3> QED BY <3>1 DEF IndInv, TypeOK, Holds
  <2> QED BY <2>1 DEF IndInv, OwnerInv
<1> QED BY SpecIndInv, <1>1, PTL

\* A nonempty set of accounts has a highest one.
LEMMA HighestAccount ==
  ASSUME NEW T \in SUBSET Accounts, T # {}
  PROVE  \E m \in T : \A x \in T : x <= m
<1> DEFINE D == {NumAccounts - x : x \in T}
<1>1. D \subseteq Nat /\ D # {}
  BY AccountsAssumption DEF Accounts
<1>2. PICK d \in D : \A y \in D : <<y, d>> \notin OpToRel(<, Nat)
  BY <1>1, NatLessThanWellFounded, WFMin, Zenon
<1>3. PICK m \in T : d = NumAccounts - m
  BY <1>2
<1>4. ASSUME NEW x \in T PROVE x <= m
  <2>1. ~(NumAccounts - x < NumAccounts - m)
    BY <1>1, <1>2, <1>3 DEF OpToRel
  <2> QED BY <2>1, AccountsAssumption DEF Accounts
<1> QED BY <1>4

\* Locking by index leaves no circular wait, for any number of threads and
\* accounts: a waiter's account is above all that it holds, so the waiter for
\* the highest account of a circle could not be waiting inside it.
THEOREM DeadlockFree == Spec => []NoCircularWait
<1>1. IndInv => NoCircularWait
  <2> SUFFICES ASSUME IndInv, NEW S \in SUBSET Threads, S # {},
                      \A t \in S : \E s \in S : WaitsFor(t, s)
               PROVE  FALSE
    BY DEF NoCircularWait
  <2> DEFINE T == {Head(want[t]) : t \in S}
  <2>1. ASSUME NEW t \in S
        PROVE  Head(want[t]) \in Accounts /\ Head(want[t]) \in Entries(want[t])
    <3>1. want[t] # << >> /\ want[t] \in Ascending
      BY DEF WaitsFor, IndInv, TypeOK
    <3>2. want[t] \in Pairs
      BY <3>1, AscendingTail
    <3> QED BY <3>1, <3>2, PairsTail
  <2>a. T \in SUBSET Accounts /\ T # {}
    BY <2>1
  <2> HIDE DEF T
  <2>2. PICK m \in T : \A x \in T : x <= m
    BY <2>a, HighestAccount
  <2> USE DEF T
  <2>3. PICK t \in S, s \in S : m = Head(want[t]) /\ WaitsFor(t, s)
    BY <2>2
  <2>4. m \in Entries(held[s]) \ Entries(want[s])
    BY <2>3 DEF WaitsFor, Holds
  <2>5. m < Head(want[s])
    BY <2>1, <2>4 DEF IndInv, ThreadInv
  <2>6. Head(want[s]) <= m
    BY <2>2
  <2> QED BY <2>1, <2>2, <2>3, <2>5, <2>6 DEF Accounts
<1> QED BY SpecIndInv, <1>1, PTL

-----------------------------------------------------------------------------
(* The asynchronous sink *)

\* The span between the queue and the inner sink.
Held == IF wpc \in {"popped", "write"} THEN 1 ELSE 0

\* The spans endSpan has queued so far.
Queued == IF ppc = "queued" THEN current ELSE current - 1

Types ==
  /\ ppc \in {"ready", "open", "enqueue", "queued", "finish", "join", "finished",
             "threw", "destroy", "joinDestroy", "gone"}
  /\ current \in 1 .. NumSpans + 1
  /\ wpc \in {"top", "popped", "write", "inner", "exit"}
  /\ item \in Nat /\ queue \in Seq(Nat) /\ written \in Seq(Nat)
  /\ finishing \in BOOLEAN /\ stopping \in BOOLEAN /\ failed \in BOOLEAN
  /\ innerDone \in BOOLEAN

\* What the place of the producer says.
ProducerPlace ==
  /\ ppc \in {"open", "enqueue", "queued"} => current \in Spans
  /\ finishing => /\ current = NumSpans + 1
                  /\ ppc \notin {"ready", "open", "enqueue", "queued"}
  /\ ppc \in {"finish", "join", "finished"} => finishing
  /\ stopping => ppc \in {"destroy", "joinDestroy", "gone"}
  /\ ppc = "finished" => innerDone

\* What the place of the worker says.
WorkerPlace ==
  /\ failed => wpc = "exit"
  /\ wpc = "inner" => finishing /\ queue = << >>
  /\ wpc = "exit" /\ ~failed => innerDone \/ stopping
  /\ innerDone => /\ wpc = "exit" /\ ~failed /\ finishing
                  /\ Len(written) = NumSpans

\* Written, held and queued spans follow one another; until a failure, which
\* loses the one held, they are all that were handed over.
NoneLost ==
  /\ \A n \in 1 .. Len(written) : written[n] = n
  /\ Held = 1 => item = Len(written) + 1
  /\ ~failed => /\ Len(written) + Held + Len(queue) = Queued
                /\ \A n \in 1 .. Len(queue) : queue[n] = Len(written) + Held + n
  /\ Len(queue) <= MaxQueued

SinkInv == Types /\ ProducerPlace /\ WorkerPlace /\ NoneLost
-----------------------------------------------------------------------------
LEMMA InitStep == ASSUME SinkInit PROVE SinkInv
<1>1. << >> \in Seq(Nat) /\ Len(<< >>) = 0
  BY EmptySeq
<1>2. 1 \in 1 .. NumSpans + 1
  BY AsyncAssumption
<1>3. Types /\ ProducerPlace /\ WorkerPlace
  BY <1>1, <1>2 DEF SinkInit, Types, ProducerPlace, WorkerPlace, NoSpan
<1>4. NoneLost
  BY <1>1, AsyncAssumption DEF SinkInit, NoneLost, Held, Queued
<1> QED BY <1>3, <1>4 DEF SinkInv

\* A step that moves no span keeps the order of the spans.
LEMMA PlaceStep ==
  ASSUME SinkInv,
         \/ BeginSpan \/ EndSpan \/ AwaitRoom \/ Finish \/ NotifyFinish \/ JoinFinish
         \/ Destroy \/ NotifyDestroy \/ JoinDestroy \/ AwaitWork \/ UNCHANGED sinkVars
  PROVE  SinkInv'
<1> USE AsyncAssumption
        DEF SinkInv, Types, ProducerPlace, WorkerPlace, NoneLost, Held, Queued, Spans,
            producer, worker, Proceed, NotifyAll
<1>1. CASE BeginSpan
  BY <1>1 DEF BeginSpan
<1>2. CASE EndSpan
  BY <1>2 DEF EndSpan
<1>3. CASE AwaitRoom
  BY <1>3 DEF AwaitRoom
<1>4. CASE Finish
  BY <1>4 DEF Finish
<1>5. CASE NotifyFinish
  BY <1>5 DEF NotifyFinish
<1>6. CASE JoinFinish
  BY <1>6 DEF JoinFinish
<1>7. CASE Destroy
  BY <1>7 DEF Destroy
<1>8. CASE NotifyDestroy
  BY <1>8 DEF NotifyDestroy
<1>9. CASE JoinDestroy
  BY <1>9 DEF JoinDestroy
<1>10. CASE AwaitWork
  BY <1>10 DEF AwaitWork
<1>11. CASE UNCHANGED sinkVars
  BY <1>11 DEF sinkVars
<1> QED BY <1>1, <1>2, <1>3, <1>4, <1>5, <1>6, <1>7, <1>8, <1>9, <1>10, <1>11

\* The span that is queued is the next one.
LEMMA EnqueueStep == ASSUME SinkInv, Enqueue \/ NotifyQueued PROVE SinkInv'
<1> USE DEF SinkInv, producer, worker
<1>1. CASE Enqueue /\ failed
  BY <1>1 DEF Enqueue, Types, ProducerPlace, WorkerPlace, NoneLost, Held, Queued
<1>2. CASE Enqueue /\ ~failed
  <2>1. /\ ppc = "enqueue" /\ ppc' = "queued" /\ queue' = Append(queue, current)
        /\ current' = current /\ written' = written /\ wpc' = wpc /\ item' = item
        /\ failed' = failed /\ finishing' = finishing /\ stopping' = stopping
        /\ innerDone' = innerDone
    BY <1>2 DEF Enqueue
  <2>2. current \in 1 .. NumSpans + 1 /\ current \in Nat /\ ~finishing /\ ~stopping
    BY <2>1, AsyncAssumption DEF Types, ProducerPlace
  <2>3. /\ queue' \in Seq(Nat) /\ Len(queue') = Len(queue) + 1 /\ queue' # << >>
        /\ \A n \in 1 .. Len(queue) : queue'[n] = queue[n]
        /\ queue'[Len(queue) + 1] = current
    BY <2>1, <2>2, AppendProperties DEF Types
  <2>4. /\ Len(queue) \in Nat /\ Len(written) \in Nat /\ Held \in 0 .. 1 /\ Held' = Held
        /\ Len(written) + Held + Len(queue) = current - 1
        /\ \A n \in 1 .. Len(queue) : queue[n] = Len(written) + Held + n
        /\ Queued' = current
    BY <1>2, <2>1, LenProperties DEF Types, NoneLost, Held, Queued
  <2>5. Types' /\ ProducerPlace' /\ WorkerPlace'
    BY <1>2, <2>1, <2>2, <2>3 DEF Types, ProducerPlace, WorkerPlace, Spans
  <2>6. Len(queue') <= MaxQueued
    BY <1>2, <2>2, <2>3, <2>4, AsyncAssumption DEF Enqueue, HasRoom
  <2>7. Len(written') + Held' + Len(queue') = Queued'
    BY <2>1, <2>2, <2>3, <2>4
  <2>8. ASSUME NEW n \in 1 .. Len(queue')
        PROVE  queue'[n] = Len(written') + Held' + n
    <3>1. n \in 1 .. Len(queue) \/ n = Len(queue) + 1
      BY <2>3, <2>4
    <3>2. CASE n \in 1 .. Len(queue)
      BY <3>2, <2>1, <2>3, <2>4
    <3>3. CASE n = Len(queue) + 1
      <4>1. queue'[n] = current
        BY <3>3, <2>3
      <4>2. Len(written) + Held + n = current
        BY <3>3, <2>2, <2>4
      <4> QED BY <4>1, <4>2, <2>1, <2>4
    <3> QED BY <3>1, <3>2, <3>3
  <2>9. NoneLost'
    BY <2>1, <2>4, <2>6, <2>7, <2>8 DEF NoneLost
  <2> QED BY <2>5, <2>9
<1>3. CASE NotifyQueued
  BY <1>3, AsyncAssumption
  DEF NotifyQueued, NotifyAll, Types, ProducerPlace, WorkerPlace, NoneLost, Held, Queued, Spans
<1> QED BY <1>1, <1>2, <1>3

\* The span that is taken is the one after the last written.
LEMMA TakeStep == ASSUME SinkInv, Take PROVE SinkInv'
<1> USE DEF SinkInv, producer
<1>1. /\ wpc = "top" /\ ~failed /\ HasWork
      /\ ppc' = ppc /\ current' = current /\ written' = written /\ failed' = failed
      /\ finishing' = finishing /\ stopping' = stopping /\ innerDone' = innerDone
  BY DEF Take, WorkerPlace
<1>2. CASE queue = << >>
  BY <1>1, <1>2
  DEF Take, HasWork, Types, ProducerPlace, WorkerPlace, NoneLost, Held, Queued
<1>3. CASE queue # << >>
  <2>1. wpc' = "popped" /\ item' = Head(queue) /\ queue' = Tail(queue)
    BY <1>3 DEF Take
  <2>2. /\ queue' \in Seq(Nat) /\ Len(queue') = Len(queue) - 1
        /\ Len(queue) \in Nat /\ Len(queue) >= 1
        /\ \A n \in 1 .. Len(queue') : queue'[n] = queue[n + 1]
        /\ item' = queue[1] /\ item' \in Nat
    BY <1>3, <2>1, HeadTailProperties, EmptySeq, LenProperties, ElementOfSeq DEF Types
  <2>3. /\ Held' = 1 /\ Queued' = Queued /\ Len(written) \in Nat
        /\ Len(written) + Len(queue) = Queued
        /\ \A n \in 1 .. Len(queue) : queue[n] = Len(written) + n
        /\ Len(queue) <= MaxQueued
    BY <1>1, <2>1, LenProperties DEF Types, NoneLost, Held, Queued
  <2>4. Types' /\ ProducerPlace' /\ WorkerPlace'
    BY <1>1, <2>1, <2>2 DEF Types, ProducerPlace, WorkerPlace
  <2>5. item' = Len(written') + 1
    BY <1>1, <2>2, <2>3
  <2>6. Len(written') + Held' + Len(queue') = Queued' /\ Len(queue') <= MaxQueued
    BY <1>1, <2>2, <2>3, AsyncAssumption
  <2>7. ASSUME NEW n \in 1 .. Len(queue')
        PROVE  queue'[n] = Len(written') + Held' + n
    <3>1. n + 1 \in 1 .. Len(queue) /\ queue'[n] = queue[n + 1]
      BY <2>2
    <3>2. queue'[n] = Len(written) + (n + 1)
      BY <3>1, <2>3
    <3> QED BY <3>2, <1>1, <2>3, <2>2
  <2>8. NoneLost'
    BY <1>1, <2>5, <2>6, <2>7 DEF NoneLost
  <2> QED BY <2>4, <2>8
<1> QED BY <1>2, <1>3

\* The calls of the inner sink, that return or throw.
LEMMA InnerStep ==
  ASSUME SinkInv, NotifyPopped \/ Write \/ InnerFinish \/ InnerThrows PROVE SinkInv'
<1> USE AsyncAssumption
        DEF SinkInv, Types, ProducerPlace, WorkerPlace, NoneLost, Held, Queued, Spans,
            producer, NoSpan, NotifyAll
<1>1. CASE NotifyPopped
  BY <1>1 DEF NotifyPopped
<1>2. CASE Write
  <2>1. /\ written' \in Seq(Nat) /\ Len(written') = Len(written) + 1
        /\ \A n \in 1 .. Len(written) : written'[n] = written[n]
        /\ written'[Len(written) + 1] = item
    BY <1>2, AppendProperties DEF Write
  <2> QED BY <1>2, <2>1 DEF Write
<1>3. CASE InnerFinish
  BY <1>3 DEF InnerFinish
<1>4. CASE InnerThrows
  BY <1>4 DEF InnerThrows
<1> QED BY <1>1, <1>2, <1>3, <1>4

\* The invariant behind both theorems.
LEMMA SinkInvariance == SinkSpec => []SinkInv
<1>1. SinkInv /\ [SinkNext]_sinkVars => SinkInv'
  BY PlaceStep, EnqueueStep, TakeStep, InnerStep DEF SinkNext, Producer, Worker
<1> QED BY <1>1, InitStep, PTL DEF SinkSpec

\* What the inner sink has completed is a prefix of the run in order, at most
\* maxQueued spans wait, finish() returns only for a whole run, and a sink that was
\* abandoned is never finished underneath, for every size of run and queue.
THEOREM OnlyPrefixes == SinkSpec => []PrefixWritten
<1>1. SinkInv => PrefixWritten
  <2> SUFFICES ASSUME SinkInv PROVE PrefixWritten
    OBVIOUS
  <2>1. InOrder
    BY LenProperties DEF SinkInv, Types, NoneLost, InOrder
  <2> QED BY <2>1 DEF SinkInv, Types, NoneLost, WorkerPlace, ProducerPlace,
             PrefixWritten, Backpressure, FinishIsComplete, AbandonedNotFinished
<1> QED BY <1>1, SinkInvariance, PTL

\* After a call of the inner sink has thrown, the worker calls it no more.
THEOREM NothingAfterFailure == SinkSpec => FailStop
<1> DEFINE Quiet == failed => written' = written /\ innerDone' = innerDone
<1>1. SinkInv /\ [SinkNext]_sinkVars => [Quiet]_sinkVars
  BY DEF SinkInv, WorkerPlace, SinkNext, Producer, Worker, sinkVars, producer, worker,
         BeginSpan, EndSpan, AwaitRoom, Enqueue, NotifyQueued, Finish, NotifyFinish,
         JoinFinish, NotifyDestroy, JoinDestroy, Destroy, AwaitWork, Take,
         NotifyPopped, Write, InnerFinish, InnerThrows
<1> QED BY <1>1, SinkInvariance, PTL DEF SinkSpec, FailStop
=============================================================================
