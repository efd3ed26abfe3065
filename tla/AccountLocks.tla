---------------------------- MODULE AccountLocks ----------------------------
(***************************************************************************)
(* primitives/concurrent/account_lock_array.hpp: one spinlock per account, *)
(* an atomic_flag that a thread acquires with test_and_set and, when that  *)
(* fails, waits on (atomic wait/notify).  lockPair takes the two accounts  *)
(* of a transfer in index order; unlockPair releases them and wakes one    *)
(* waiter per account.  A transfer may name one account twice, or have a   *)
(* side that is no account (the invalid sentinel).                         *)
(***************************************************************************)
EXTENDS Integers, Sequences

CONSTANTS Threads,      \* the threads that post transfers
          NumAccounts,  \* flags_.size()
          Invalid,      \* invalidSentinel, no account
          MaxTransfers  \* bound: transfers posted by each thread

Accounts == 0 .. (NumAccounts - 1)

ASSUME AccountsAssumption == NumAccounts \in Nat /\ Invalid \notin Accounts
ASSUME BoundAssumption == MaxTransfers \in Nat
ASSUME ThreadsAssumption == "free" \notin Threads

VARIABLES owner,   \* owner[i]: the thread whose test_and_set holds flag i, or Free
          pc,      \* where each thread is in lockPair / unlockPair
          want,    \* accounts lockPair has still to lock, in order
          held,    \* accounts the thread has locked, in unlockPair's order
          done     \* transfers completed

vars == <<owner, pc, want, held, done>>

Free == "free"

Sides == Accounts \cup {Invalid}

\* (mutant: the sides locked as given)
LockOrderAsGiven(a, b) ==
  IF a = Invalid /\ b = Invalid THEN << >>
  ELSE IF b = Invalid \/ a = b THEN <<a>>
  ELSE IF a = Invalid THEN <<b>>
  ELSE <<a, b>>

\* The order in which lockPair locks the two sides.
LockOrder(a, b) ==
  IF a = Invalid /\ b = Invalid THEN << >>
  ELSE IF b = Invalid \/ a = b THEN <<a>>
  ELSE IF a = Invalid THEN <<b>>
  ELSE IF a < b THEN <<a, b>> ELSE <<b, a>>

\* The accounts unlockPair clears, in order.
UnlockOrder(a, b) ==
  IF a = Invalid /\ b = Invalid THEN << >>
  ELSE IF a = Invalid THEN <<b>>
  ELSE IF b # Invalid /\ b # a THEN <<a, b>> ELSE <<a>>

Init ==
  /\ owner = [i \in Accounts |-> Free]
  /\ pc = [t \in Threads |-> "idle"]
  /\ want = [t \in Threads |-> << >>]
  /\ held = [t \in Threads |-> << >>]
  /\ done = [t \in Threads |-> 0]

\* A thread starts a transfer between two sides.
Begin(t) ==
  /\ pc[t] = "idle"
  /\ done[t] < MaxTransfers
  /\ \E a, b \in Sides :
       /\ want' = [want EXCEPT ![t] = LockOrder(a, b)]
       /\ held' = [held EXCEPT ![t] = UnlockOrder(a, b)]
  /\ pc' = [pc EXCEPT ![t] = "lock"]
  /\ UNCHANGED <<owner, done>>

\* (mutant: a plain store, the old value is not looked at)
TestAndSetBlind(t) ==
  /\ pc[t] = "lock"
  /\ want[t] # << >>
  /\ owner' = [owner EXCEPT ![Head(want[t])] = t]
  /\ want' = [want EXCEPT ![t] = Tail(@)]
  /\ UNCHANGED <<pc, held, done>>

\* lock(): flags_[idx].test_and_set.  On success the next account follows.
TestAndSet(t) ==
  /\ pc[t] = "lock"
  /\ want[t] # << >>
  /\ LET i == Head(want[t]) IN
       IF owner[i] = Free
       THEN /\ owner' = [owner EXCEPT ![i] = t]
            /\ want' = [want EXCEPT ![t] = Tail(@)]
            /\ UNCHANGED pc
       ELSE /\ pc' = [pc EXCEPT ![t] = "wait"]
            /\ UNCHANGED <<owner, want>>
  /\ UNCHANGED <<held, done>>

\* lock(): flags_[idx].wait(true) returns at once when the flag is clear and
\* otherwise sleeps; a notified waiter compares again before it returns.
WaitOnFlag(t) ==
  /\ pc[t] = "wait"
  /\ pc' = [pc EXCEPT ![t] = IF owner[Head(want[t])] = Free THEN "lock" ELSE "asleep"]
  /\ UNCHANGED <<owner, want, held, done>>

\* Both locks are held; the transfer is posted and unlockPair begins.
Post(t) ==
  /\ pc[t] = "lock"
  /\ want[t] = << >>
  /\ pc' = [pc EXCEPT ![t] = "unlock"]
  /\ UNCHANGED <<owner, want, held, done>>

\* unlock(): the flag is cleared ...
Clear(t) ==
  /\ pc[t] = "unlock"
  /\ held[t] # << >>
  /\ owner' = [owner EXCEPT ![Head(held[t])] = Free]
  /\ pc' = [pc EXCEPT ![t] = "notify"]
  /\ UNCHANGED <<want, held, done>>

Sleepers(i) == {t \in Threads : pc[t] = "asleep" /\ Head(want[t]) = i}

\* (mutant: unlock() without the notification)
NotifyNobody(t) ==
  /\ pc[t] = "notify"
  /\ pc' = [pc EXCEPT ![t] = "unlock"]
  /\ held' = [held EXCEPT ![t] = Tail(@)]
  /\ UNCHANGED <<owner, want, done>>

\* ... and one sleeping waiter of that flag, if there is any, is woken.
NotifyOne(t) ==
  /\ pc[t] = "notify"
  /\ LET i == Head(held[t]) IN
       IF Sleepers(i) = {}
       THEN pc' = [pc EXCEPT ![t] = "unlock"]
       ELSE \E s \in Sleepers(i) :
              pc' = [pc EXCEPT ![t] = "unlock", ![s] = "wait"]
  /\ held' = [held EXCEPT ![t] = Tail(@)]
  /\ UNCHANGED <<owner, want, done>>

Complete(t) ==
  /\ pc[t] = "unlock"
  /\ held[t] = << >>
  /\ pc' = [pc EXCEPT ![t] = "idle"]
  /\ done' = [done EXCEPT ![t] = @ + 1]
  /\ UNCHANGED <<owner, want, held>>

Step(t) ==
  \/ Begin(t) \/ TestAndSet(t) \/ WaitOnFlag(t) \/ Post(t)
  \/ Clear(t) \/ NotifyOne(t) \/ Complete(t)

Next == \E t \in Threads : Step(t)

\* Every running thread is scheduled; a sleeping one only runs once woken.
Spec == Init /\ [][Next]_vars /\ \A t \in Threads : WF_vars(Step(t))

-----------------------------------------------------------------------------
Entries(s) == {s[k] : k \in DOMAIN s}

\* The accounts of one transfer, no account twice; and in ascending order.
Pairs == {<< >>} \cup {<<a>> : a \in Accounts}
            \cup {p \in Accounts \X Accounts : p[1] # p[2]}
Ascending == {<< >>} \cup {<<a>> : a \in Accounts}
                \cup {p \in Accounts \X Accounts : p[1] < p[2]}

\* Flags are owned by threads, and every thread has still to lock accounts in
\* ascending order, each at most once.
TypeOK ==
  /\ owner \in [Accounts -> Threads \cup {Free}]
  /\ pc \in [Threads -> {"idle", "lock", "wait", "asleep", "unlock", "notify"}]
  /\ want \in [Threads -> Ascending]
  /\ held \in [Threads -> Pairs]
  /\ done \in [Threads -> 0 .. MaxTransfers]

\* The accounts that thread t may touch: those of its transfer that lock() has
\* returned for and that unlock() has not cleared yet.
Holds(t) ==
  (Entries(held[t]) \ Entries(want[t]))
    \ (IF pc[t] = "notify" THEN {Head(held[t])} ELSE {})

\* No account is ever in the hands of two transfers, whatever mix of single,
\* double, equal and invalid sides lockPair and unlockPair are given.
Exclusive ==
  \A s, t \in Threads : s # t => Holds(s) \cap Holds(t) = {}

\* The thread is inside lock() for an account that thread s has.
WaitsFor(t, s) ==
  /\ pc[t] \in {"lock", "wait", "asleep"}
  /\ want[t] # << >>
  /\ Head(want[t]) \in Holds(s)

\* "lockPair orders its two acquisitions by index, which is what keeps
\* concurrent two-account transfers deadlock-free": no group of threads has
\* each member waiting for an account of another member.
NoCircularWait ==
  \A S \in SUBSET Threads :
    (\A t \in S : \E s \in S : WaitsFor(t, s)) => S = {}

\* Every transfer of every thread gets its locks and gives them back: the one
\* waiter that unlock() notifies is enough, no wakeup is lost.
AllComplete == <>(\A t \in Threads : pc[t] = "idle" /\ done[t] = MaxTransfers)
=============================================================================
