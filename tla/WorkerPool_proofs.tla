------------------------- MODULE WorkerPool_proofs -------------------------
(***************************************************************************)
(* Proofs about WorkerPool, for every number of threads, spenders and      *)
(* days: the caller waits for exactly the workers that have not reported,  *)
(* so no worker ever runs a job that is not the present one; and the rows  *)
(* that the threads of a day emit, merged in thread order, are the rows a  *)
(* single thread would have emitted, whatever the interleaving.            *)
(***************************************************************************)
EXTENDS WorkerPool, InductionLemmas, SequenceTheorems, FiniteSetTheorems, TLAPS

MainPlaces == {"prepare", "published", "emit", "await", "merge", "stopping",
               "join", "joined"}
WorkerPlaces == {"top", "emit", "report", "exit"}

\* run() has published a job and not yet seen every worker report.
Running == pc[0] \in {"published", "emit", "await"}

\* The workers that have still to report.
Busy == {t \in Workers : seen[t] # generation \/ pc[t] \in {"emit", "report"}}

TypeInv ==
  /\ pc \in [Threads -> MainPlaces \cup WorkerPlaces]
  /\ pc[0] \in MainPlaces
  /\ \A t \in Workers : pc[t] \in WorkerPlaces
  /\ day \in Nat \ {0} /\ body \in Nat /\ generation \in Nat
  /\ remaining \in Int /\ stop \in BOOLEAN
  /\ seen \in [Workers -> Nat] /\ job \in [Workers -> Nat]

\* What the place of the caller says of the pool.
PoolInv ==
  /\ Running => body = day /\ remaining = Cardinality(Busy)
  /\ stop => pc[0] \in {"stopping", "join"}
  /\ pc[0] = "joined" => \A t \in Workers : pc[t] = "exit"

\* What it says of worker t.
WorkerInv(t) ==
  /\ Running => pc[t] # "exit"
  /\ pc[0] \in {"prepare", "merge"} => pc[t] = "top" /\ seen[t] = generation
  /\ pc[t] \in {"emit", "report"} =>
       Running /\ seen[t] = generation /\ job[t] = day
  /\ pc[0] \in {"stopping", "join"} => stop

IndInv == TypeInv /\ PoolInv /\ \A t \in Workers : WorkerInv(t)
-----------------------------------------------------------------------------
\* The workers are a finite set of one less than the threads.
LEMMA WorkersFinite ==
  /\ Workers = 1 .. (NumThreads - 1)
  /\ IsFiniteSet(Workers) /\ Cardinality(Workers) = NumThreads - 1
  /\ 0 \in Threads /\ 0 \notin Workers /\ Workers \subseteq Threads
<1>1. Workers = 1 .. (NumThreads - 1)
  BY PoolAssumption DEF Workers, Threads
<1>2. 1 \in Int /\ NumThreads - 1 \in Int /\ NumThreads - 1 >= 1
  BY PoolAssumption
<1>3. IsFiniteSet(1 .. (NumThreads - 1))
      /\ Cardinality(1 .. (NumThreads - 1)) = (NumThreads - 1) - 1 + 1
  BY <1>2, FS_Interval
<1>4. 0 \in Threads /\ 0 \notin Workers /\ Workers \subseteq Threads
  BY PoolAssumption DEF Workers, Threads
<1> QED BY <1>1, <1>2, <1>3, <1>4

\* The pool starts idle, every worker about to wait.
LEMMA InitIndInv == Init => IndInv
<1> SUFFICES ASSUME Init PROVE IndInv
  OBVIOUS
<1> USE WorkersFinite
<1>1. TypeInv
  BY DEF Init, TypeInv, MainPlaces, WorkerPlaces, None
<1>2. PoolInv
  BY DEF Init, PoolInv, Running
<1>3. \A t \in Workers : WorkerInv(t)
  BY DEF Init, WorkerInv, Running
<1> QED BY <1>1, <1>2, <1>3 DEF IndInv

\* A step that leaves the places, the seen generations and the counters as they
\* are keeps the invariant.
LEMMA QuietStep ==
  ASSUME IndInv, UNCHANGED <<pc, day, body, generation, remaining, stop, seen, job>>
  PROVE  IndInv'
BY DEF IndInv, TypeInv, PoolInv, WorkerInv, Running, Busy

\* The caller's steps.
LEMMA MainIndInv == IndInv /\ Main => IndInv'
<1> SUFFICES ASSUME IndInv, Main PROVE IndInv'
  OBVIOUS
<1> USE WorkersFinite
<1>1. CASE Publish
  <2>1. Busy' = Workers
    BY <1>1 DEF Publish, IndInv, TypeInv, WorkerInv, Busy, threads
  <2>2. PoolInv'
    BY <1>1, <2>1 DEF Publish, IndInv, TypeInv, PoolInv, Running, threads
  <2>3. TypeInv' /\ \A t \in Workers : WorkerInv(t)'
    BY <1>1 DEF Publish, IndInv, TypeInv, WorkerInv, Running, threads, MainPlaces
  <2> QED BY <2>2, <2>3 DEF IndInv
<1>2. CASE NotifyWorkers
  BY <1>2 DEF NotifyWorkers, IndInv, TypeInv, PoolInv, WorkerInv, Running, Busy,
              pool, MainPlaces
<1>3. CASE AwaitAll
  BY <1>3, QuietStep DEF AwaitAll, pool, threads
<1>4. CASE AllReported
  <2>1. Busy = {}
    <3>1. IsFiniteSet(Busy)
      BY FS_Subset DEF Busy
    <3>2. Cardinality(Busy) = 0
      BY <1>4 DEF AllReported, IndInv, PoolInv, Running
    <3> QED BY <3>1, <3>2, FS_EmptySet
  <2>2. \A t \in Workers : pc[t] = "top" /\ seen[t] = generation
    BY <1>4, <2>1 DEF AllReported, IndInv, TypeInv, WorkerInv, Running, Busy, WorkerPlaces
  <2>3. TypeInv'
    BY <1>4 DEF AllReported, IndInv, TypeInv, MainPlaces, threads, None
  <2>4. PoolInv' /\ \A t \in Workers : WorkerInv(t)'
    BY <1>4, <2>2 DEF AllReported, IndInv, TypeInv, PoolInv, WorkerInv, Running, threads
  <2> QED BY <2>3, <2>4 DEF IndInv
<1>5. CASE Merge
  BY <1>5 DEF Merge, IndInv, TypeInv, PoolInv, WorkerInv, Running, Busy, pool, MainPlaces
<1>6. CASE Stop
  BY <1>6 DEF Stop, IndInv, TypeInv, PoolInv, WorkerInv, Running, Busy, threads, MainPlaces
<1>7. CASE NotifyStop
  BY <1>7 DEF NotifyStop, IndInv, TypeInv, PoolInv, WorkerInv, Running, Busy, pool,
              threads, MainPlaces
<1>8. CASE Join
  BY <1>8 DEF Join, IndInv, TypeInv, PoolInv, WorkerInv, Running, Busy, threads,
              MainPlaces, WorkerPlaces
<1>9. CASE Emit(0)
  BY <1>9, QuietStep DEF Emit, pool
<1>10. CASE EmitDone(0)
  BY <1>10 DEF EmitDone, IndInv, TypeInv, PoolInv, WorkerInv, Running, Busy, pool,
               threads, MainPlaces
<1> QED BY <1>1, <1>2, <1>3, <1>4, <1>5, <1>6, <1>7, <1>8, <1>9, <1>10 DEF Main

\* A worker's steps.
LEMMA WorkerIndInv ==
  ASSUME IndInv, NEW t \in Workers, Worker(t)
  PROVE  IndInv'
<1> USE WorkersFinite
<1>1. CASE Sleep(t)
  BY <1>1, QuietStep DEF Sleep, pool, threads
<1>2. CASE Take(t)
  <2>1. CASE stop
    BY <1>2, <2>1 DEF Take, IndInv, TypeInv, PoolInv, WorkerInv, Running, Busy, pool,
                      WorkerPlaces
  <2>2. CASE ~stop
    <3>1. Running /\ seen[t] # generation /\ body = day /\ pc[t] = "top"
      BY <1>2, <2>2 DEF Take, Woken, IndInv, TypeInv, PoolInv, WorkerInv, Running, MainPlaces
    <3>2. Busy' = Busy
      BY <1>2, <2>2, <3>1 DEF Take, IndInv, TypeInv, Busy, pool
    <3>3. TypeInv'
      BY <1>2, <2>2 DEF Take, IndInv, TypeInv, pool, WorkerPlaces
    <3>4. PoolInv' /\ \A u \in Workers : WorkerInv(u)'
      BY <1>2, <2>2, <3>1, <3>2 DEF Take, IndInv, TypeInv, PoolInv, WorkerInv, Running, pool
    <3> QED BY <3>3, <3>4 DEF IndInv
  <2> QED BY <2>1, <2>2
<1>3. CASE Emit(t)
  BY <1>3, QuietStep DEF Emit, pool
<1>4. CASE EmitDone(t)
  <2>1. Busy' = Busy
    BY <1>4 DEF EmitDone, IndInv, TypeInv, Busy, pool, threads
  <2>2. TypeInv'
    BY <1>4 DEF EmitDone, IndInv, TypeInv, pool, threads, WorkerPlaces
  <2>3. PoolInv' /\ \A u \in Workers : WorkerInv(u)'
    BY <1>4, <2>1 DEF EmitDone, IndInv, TypeInv, PoolInv, WorkerInv, Running, pool, threads
  <2> QED BY <2>2, <2>3 DEF IndInv
<1>5. CASE Report(t)
  <2>1. Running /\ seen[t] = generation
    BY <1>5 DEF Report, IndInv, WorkerInv
  <2>2. t \in Busy /\ Busy' = Busy \ {t}
    BY <1>5, <2>1 DEF Report, IndInv, TypeInv, Busy, threads
  <2>3. IsFiniteSet(Busy)
    BY FS_Subset DEF Busy
  <2>4. Cardinality(Busy') = Cardinality(Busy) - 1
    BY <2>2, <2>3, FS_RemoveElement
  <2>5. TypeInv'
    BY <1>5 DEF Report, IndInv, TypeInv, threads, WorkerPlaces
  <2>6. PoolInv' /\ \A u \in Workers : WorkerInv(u)'
    BY <1>5, <2>1, <2>4 DEF Report, IndInv, TypeInv, PoolInv, WorkerInv, Running, threads
  <2> QED BY <2>5, <2>6 DEF IndInv
<1> QED BY <1>1, <1>2, <1>3, <1>4, <1>5 DEF Worker

\* The invariant is inductive.
THEOREM SpecIndInv == Spec => []IndInv
<1>1. Init => IndInv
  BY InitIndInv
<1>2. IndInv /\ [Next]_vars => IndInv'
  <2> SUFFICES ASSUME IndInv, [Next]_vars PROVE IndInv'
    OBVIOUS
  <2>1. CASE Main
    BY <2>1, MainIndInv
  <2>2. CASE \E t \in Workers : Worker(t)
    BY <2>2, WorkerIndInv
  <2>3. CASE UNCHANGED vars
    BY <2>3, QuietStep DEF vars, pool, threads
  <2> QED BY <2>1, <2>2, <2>3 DEF Next
<1> QED BY <1>1, <1>2, PTL DEF Spec

\* run() waits for exactly the workers that have still to report, for every
\* number of threads: remaining_ never goes wrong.
THEOREM RemainingIsExact == Spec => []RemainingExact
<1>1. IndInv => RemainingExact
  BY DEF IndInv, PoolInv, Running, Busy, RemainingExact
<1> QED BY <1>1, SpecIndInv, PTL

\* No worker emits without a job, with a job of another day, or after the
\* caller has taken the job back.
THEOREM JobsAreCurrent == Spec => []JobIsCurrent
<1>1. IndInv => JobIsCurrent
  BY DEF IndInv, PoolInv, WorkerInv, JobIsCurrent
<1> QED BY <1>1, SpecIndInv, PTL

-----------------------------------------------------------------------------
\* The rows of a day, as sequences.

\* The rows of the spenders from a on and before b, on day d.
Rows(d, a, b) == [k \in 1 .. b - a |-> <<d, a + k - 1>>]
Row == Nat \X Nat

\* They are a sequence.
LEMMA RowsType ==
  ASSUME NEW d \in Nat, NEW a \in Nat, NEW b \in Nat, a <= b
  PROVE  Rows(d, a, b) \in Seq(Row) /\ Len(Rows(d, a, b)) = b - a
<1>1. PICK n \in Nat : n = b - a
  OBVIOUS
<1>2. PICK r : r = Rows(d, a, b)
  OBVIOUS
<1> DEFINE row(k) == <<d, a + k - 1>>
<1>3. r = [k \in 1 .. n |-> row(k)]
  BY <1>1, <1>2 DEF Rows
<1>4. \A k \in 1 .. n : row(k) \in Row
  BY DEF Row
<1> HIDE DEF row
<1>5. r \in Seq(Row) /\ Len(r) = n
  BY <1>3, <1>4
<1>6. Len(r) = b - a
  BY <1>1, <1>5
<1> QED BY <1>2, <1>5, <1>6

\* No rows before the first one.
LEMMA RowsNone ==
  ASSUME NEW d, NEW a \in Nat
  PROVE  Rows(d, a, a) = << >>
<1>1. a - a = 0
  OBVIOUS
<1> QED BY <1>1 DEF Rows

\* The rows before b and those from b on are the rows before c.
LEMMA RowsConcat ==
  ASSUME NEW d \in Nat, NEW a \in Nat, NEW b \in Nat, NEW c \in Nat, a <= b, b <= c
  PROVE  Rows(d, a, b) \o Rows(d, b, c) = Rows(d, a, c)
<1>1. PICK r : r = Rows(d, a, b)
  OBVIOUS
<1>2. PICK s : s = Rows(d, b, c)
  OBVIOUS
<1>3. PICK u : u = Rows(d, a, c)
  OBVIOUS
<1>4. PICK n \in Nat : n = b - a
  OBVIOUS
<1>5. PICK m \in Nat : m = c - b
  OBVIOUS
<1>6. PICK l \in Nat : l = c - a
  OBVIOUS
<1>7. l = n + m
  BY <1>4, <1>5, <1>6
<1>8. r \in Seq(Row) /\ Len(r) = n
  BY <1>1, <1>4, RowsType
<1>9. s \in Seq(Row) /\ Len(s) = m
  BY <1>2, <1>5, RowsType
<1>10. u \in Seq(Row) /\ Len(u) = l
  <2>1. a <= c
    OBVIOUS
  <2> QED BY <1>3, <1>6, <2>1, RowsType
<1>11. \A k \in 1 .. n : r[k] = <<d, a + k - 1>>
  BY <1>1, <1>4 DEF Rows
<1>12. \A k \in 1 .. m : s[k] = <<d, b + k - 1>>
  BY <1>2, <1>5 DEF Rows
<1>13. \A k \in 1 .. l : u[k] = <<d, a + k - 1>>
  BY <1>3, <1>6 DEF Rows
<1>14. PICK q : q = r \o s
  OBVIOUS
<1>15. /\ q \in Seq(Row) /\ Len(q) = n + m
       /\ \A i \in 1 .. n + m : q[i] = IF i <= n THEN r[i] ELSE s[i - n]
  BY <1>8, <1>9, <1>14, ConcatProperties
<1>16. \A i \in 1 .. Len(q) : q[i] = u[i]
  <2> SUFFICES ASSUME NEW i \in 1 .. n + m PROVE q[i] = u[i]
    BY <1>15
  <2>1. u[i] = <<d, a + i - 1>>
    BY <1>7, <1>13
  <2>2. CASE i <= n
    <3>1. i \in 1 .. n
      BY <2>2
    <3>2. r[i] = <<d, a + i - 1>>
      BY <1>11, <3>1
    <3> QED BY <1>15, <2>1, <2>2, <3>2
  <2>3. CASE ~(i <= n)
    <3>1. PICK k : k = i - n
      OBVIOUS
    <3>2. k \in 1 .. m /\ b + k - 1 = a + i - 1
      BY <1>4, <2>3, <3>1
    <3>3. s[k] = <<d, a + i - 1>>
      BY <1>12, <3>2
    <3> QED BY <1>15, <2>1, <2>3, <3>1, <3>3
  <2> QED BY <2>2, <2>3
<1>17. q = u
  <2>1. q \in Seq(Row) /\ u \in Seq(Row) /\ Len(q) = Len(u)
    BY <1>7, <1>10, <1>15
  <2> QED BY <1>16, <2>1, SeqEqual
<1> QED BY <1>1, <1>2, <1>3, <1>14, <1>17

\* One more spender.
LEMMA RowsAppend ==
  ASSUME NEW d \in Nat, NEW a \in Nat, NEW b \in Nat, a <= b
  PROVE  Append(Rows(d, a, b), <<d, b>>) = Rows(d, a, b + 1)
<1>1. PICK c \in Nat : c = b + 1
  OBVIOUS
<1>2. PICK e : e = Rows(d, b, c)
  OBVIOUS
<1>3. PICK x : x = <<d, b>>
  OBVIOUS
<1>4. e = <<x>>
  <2>1. c - b = 1 /\ b + 1 - 1 = b
    BY <1>1
  <2>2. e = [k \in 1 .. 1 |-> <<d, b + k - 1>>]
    BY <1>2, <2>1 DEF Rows
  <2> QED BY <1>3, <2>1, <2>2
<1>5. PICK r : r = Rows(d, a, b)
  OBVIOUS
<1>6. r \in Seq(Row)
  BY <1>5, RowsType
<1>7. x \in Row
  BY <1>3 DEF Row
<1>8. Append(r, x) = r \o <<x>>
  BY <1>6, <1>7, AppendIsConcat
<1>9. b <= c
  BY <1>1
<1>10. r \o e = Rows(d, a, c)
  BY <1>2, <1>5, <1>9, RowsConcat
<1> QED BY <1>1, <1>3, <1>4, <1>5, <1>8, <1>10

\* The ranges of the threads follow on from each other and cover all spenders.
LEMMA Ranges ==
  /\ \A t \in Threads : /\ PartitionRange(t).begin \in Nat /\ PartitionRange(t).end \in Nat
                        /\ PartitionRange(t).begin <= PartitionRange(t).end
  /\ PartitionRange(0).begin = 0 /\ PartitionRange(NumThreads - 1).end = NumSpenders
  /\ \A t \in Threads \ {0} : PartitionRange(t).begin = PartitionRange(t - 1).end
<1>1. PICK base, rem : base = NumSpenders \div NumThreads /\ rem = NumSpenders % NumThreads
  OBVIOUS
<1>2. /\ base \in Nat /\ rem \in 0 .. NumThreads - 1 /\ NumSpenders = NumThreads * base + rem
      /\ NumThreads \in Nat /\ NumThreads >= 2
  BY <1>1, PoolAssumption
<1> DEFINE b(t) == t * base + (IF t < rem THEN t ELSE rem)
           e(t) == b(t) + base + (IF t < rem THEN 1 ELSE 0)
<1>3. \A t : PartitionRange(t).begin = b(t) /\ PartitionRange(t).end = e(t)
  BY <1>1 DEF PartitionRange
<1>4. \A t \in Nat : t * base \in Nat
  BY <1>2
<1>5. \A t \in Threads : b(t) \in Nat /\ e(t) \in Nat /\ b(t) <= e(t)
  <2> TAKE t \in Threads
  <2>1. t \in Nat
    BY <1>2 DEF Threads
  <2>2. PICK p \in Nat : p = t * base
    BY <1>4, <2>1
  <2> QED BY <1>2, <2>1, <2>2
<1>6. b(0) = 0
  BY <1>2
<1>7. e(NumThreads - 1) = NumSpenders
  <2>1. (NumThreads - 1) * base = NumThreads * base - base
    BY <1>2
  <2>2. PICK p \in Nat : p = NumThreads * base
    BY <1>2, <1>4
  <2> QED BY <1>2, <2>1, <2>2
<1>8. \A t \in Threads \ {0} : b(t) = e(t - 1)
  <2> TAKE t \in Threads \ {0}
  <2>1. t \in Nat \ {0}
    BY <1>2 DEF Threads
  <2>2. (t - 1) * base = t * base - base
    BY <1>2, <2>1
  <2>3. PICK p \in Nat : p = t * base
    BY <1>4, <2>1
  <2> QED BY <1>2, <2>1, <2>2, <2>3
<1> HIDE DEF b, e
<1> QED BY <1>3, <1>5, <1>6, <1>7, <1>8, PoolAssumption DEF Threads

\* One day more of the sequential run.
LEMMA NextDay ==
  ASSUME NEW d \in Nat \ {0}
  PROVE  /\ Sequential(0) = << >> /\ Sequential(d - 1) \in Seq(Row)
         /\ Sequential(d) = Sequential(d - 1) \o Rows(d, 0, NumSpenders)
<1>1. PICK N \in Nat : N = NumSpenders
  BY PoolAssumption
<1> DEFINE seq(k) == <<1 + (k - 1) \div N, (k - 1) % N>>
<1>2. \A e : Sequential(e) = [k \in 1 .. e * N |-> seq(k)]
  BY <1>1 DEF Sequential
<1>3. Sequential(0) = << >>
  <2>1. 0 * N = 0
    OBVIOUS
  <2> QED BY <1>2, <2>1
<1>4. PICK c \in Nat : c = d - 1
  OBVIOUS
<1>5. PICK n \in Nat : n = c * N
  BY <1>1, <1>4
<1>6. d * N = n + N
  BY <1>1, <1>4, <1>5
<1>7. \A k \in 1 .. n + N : seq(k) \in Row
  <2> TAKE k \in 1 .. n + N
  <2>1. CASE N = 0
    <3>1. n = 0
      BY <1>4, <1>5, <2>1
    <3> QED BY <2>1, <3>1
  <2>2. CASE N # 0
    <3>1. (k - 1) \div N \in Nat /\ (k - 1) % N \in Nat
      BY <2>2
    <3> QED BY <3>1 DEF Row
  <2> QED BY <2>1, <2>2
<1>8. \A k \in 1 .. N : seq(n + k) = <<d, k - 1>>
  <2> TAKE k \in 1 .. N
  <2>1. (n + k - 1) \div N = c /\ (n + k - 1) % N = k - 1
    BY <1>4, <1>5
  <2>2. 1 + c = d
    BY <1>4
  <2> QED BY <2>1, <2>2
<1> HIDE DEF seq
<1>9. PICK p : p = Sequential(c)
  OBVIOUS
<1>10. p = [k \in 1 .. n |-> seq(k)]
  BY <1>2, <1>5, <1>9
<1>11. p \in Seq(Row) /\ Len(p) = n
  <2>1. \A k \in 1 .. n : seq(k) \in Row
    BY <1>7
  <2> QED BY <1>10, <2>1
<1>12. PICK s : s = Rows(d, 0, N)
  OBVIOUS
<1>13. s \in Seq(Row) /\ Len(s) = N /\ \A k \in 1 .. N : s[k] = <<d, k - 1>>
  <2>1. N - 0 = N /\ \A k \in 1 .. N : 0 + k - 1 = k - 1
    OBVIOUS
  <2>2. s = [k \in 1 .. N |-> <<d, 0 + k - 1>>]
    BY <1>12, <2>1 DEF Rows
  <2>3. \A k \in 1 .. N : s[k] = <<d, k - 1>>
    BY <2>1, <2>2
  <2>4. \A k \in 1 .. N : <<d, 0 + k - 1>> \in Row
    BY DEF Row
  <2> QED BY <2>2, <2>3, <2>4
<1>14. PICK q : q = p \o s
  OBVIOUS
<1>15. /\ q \in Seq(Row) /\ Len(q) = n + N
       /\ \A i \in 1 .. n + N : q[i] = IF i <= n THEN p[i] ELSE s[i - n]
  BY <1>11, <1>13, <1>14, ConcatProperties
<1>16. PICK u : u = Sequential(d)
  OBVIOUS
<1>17. u = [k \in 1 .. n + N |-> seq(k)]
  BY <1>2, <1>6, <1>16
<1>18. u \in Seq(Row) /\ Len(u) = n + N
  BY <1>7, <1>17
<1>19. \A i \in 1 .. Len(q) : q[i] = u[i]
  <2> SUFFICES ASSUME NEW i \in 1 .. n + N PROVE q[i] = u[i]
    BY <1>15
  <2>1. CASE i <= n
    <3>1. p[i] = seq(i) /\ u[i] = seq(i)
      BY <1>10, <1>17, <2>1
    <3> QED BY <1>15, <2>1, <3>1
  <2>2. CASE ~(i <= n)
    <3>1. PICK k : k = i - n
      OBVIOUS
    <3>2. k \in 1 .. N /\ n + k = i
      BY <2>2, <3>1
    <3>3. s[k] = <<d, k - 1>>
      BY <1>13, <3>2
    <3>4. u[i] = seq(i) /\ seq(n + k) = <<d, k - 1>>
      BY <1>8, <1>17, <3>2
    <3> QED BY <1>15, <2>2, <3>1, <3>2, <3>3, <3>4
  <2> QED BY <2>1, <2>2
<1>20. u = q
  <2>1. Len(q) = Len(u)
    BY <1>15, <1>18
  <2> QED BY <1>15, <1>18, <1>19, <2>1, SeqEqual
<1> QED BY <1>1, <1>3, <1>4, <1>9, <1>11, <1>12, <1>14, <1>16, <1>20

-----------------------------------------------------------------------------
\* What the threads have emitted so far: the invariant.

First(t) == PartitionRange(t).begin
Last1(t) == PartitionRange(t).end

\* The rows of thread t's range, and of the part of it before its cursor.
Share(t) == Rows(day, First(t), Last1(t))
Part(t) ==
  /\ cursor[t] \in First(t) .. Last1(t)
  /\ scratch[t] = Rows(day, First(t), cursor[t])

\* What the scratch of the caller, and of a worker, holds.
CallerRows ==
  /\ pc[0] \in {"prepare", "published"} => scratch[0] = << >>
  /\ pc[0] = "emit" => Part(0)
  /\ pc[0] \in {"await", "merge"} => scratch[0] = Share(0)
WorkerRows(t) ==
  /\ pc[0] = "prepare" \/ (Running /\ seen[t] # generation) => scratch[t] = << >>
  /\ Running /\ pc[t] = "emit" => Part(t)
  /\ (Running /\ seen[t] = generation /\ pc[t] \in {"top", "report"}) \/ pc[0] = "merge" =>
       scratch[t] = Share(t)

RowsInv ==
  /\ scratch \in [Threads -> Seq(Row)] /\ cursor \in [Threads -> Nat]
  /\ merged = Sequential(day - 1)
  /\ CallerRows
  /\ \A t \in Workers : WorkerRows(t)
-----------------------------------------------------------------------------
\* The range of a thread, and its rows before the first spender.
LEMMA RangeOf ==
  ASSUME NEW t \in Threads, NEW d \in Nat
  PROVE  /\ First(t) \in Nat /\ Last1(t) \in Nat /\ First(t) <= Last1(t)
         /\ Rows(d, First(t), First(t)) = << >>
<1>1. First(t) \in Nat /\ Last1(t) \in Nat /\ First(t) <= Last1(t)
  BY Ranges DEF First, Last1
<1>2. Rows(d, First(t), First(t)) = << >>
  BY <1>1, RowsNone
<1> QED BY <1>1, <1>2

\* The scratch of all threads, one after the other, is the day of one thread.
LEMMA MergedDay ==
  ASSUME NEW d \in Nat, NEW s, s = [k \in 1 .. NumThreads |->
                                      Rows(d, First(k - 1), Last1(k - 1))]
  PROVE  FlattenSeq(s) = Rows(d, 0, NumSpenders)
<1> DEFINE upto(n) == IF n = 0 THEN 0 ELSE Last1(n - 1)
           f == [n \in 0 .. NumThreads |-> Rows(d, 0, upto(n))]
<1>0. NumThreads \in Nat /\ NumThreads >= 2
  BY PoolAssumption
<1>1. \A k \in 1 .. NumThreads : k - 1 \in Threads
  BY <1>0 DEF Threads
<1>2. \A t \in Threads : First(t) \in Nat /\ Last1(t) \in Nat /\ First(t) <= Last1(t)
  BY Ranges DEF First, Last1
<1>3. \A n \in 1 .. NumThreads : First(n - 1) = upto(n - 1)
  <2> TAKE n \in 1 .. NumThreads
  <2>1. CASE n = 1
    BY <2>1, Ranges DEF First
  <2>2. CASE n # 1
    <3>1. PICK m : m = n - 1
      OBVIOUS
    <3>2. m \in Threads \ {0}
      BY <1>1, <2>2, <3>1
    <3>3. First(m) = Last1(m - 1) /\ m # 0
      BY <3>2, Ranges DEF First, Last1
    <3> QED BY <3>1, <3>3
  <2> QED BY <2>1, <2>2
<1>4. \A n \in 0 .. NumThreads : upto(n) \in Nat
  BY <1>1, <1>2
<1>5. s \in Seq(Seq(Row)) /\ Len(s) = NumThreads
  <2>1. \A k \in 1 .. NumThreads :
          Rows(d, First(k - 1), Last1(k - 1)) \in Seq(Row)
    <3> TAKE k \in 1 .. NumThreads
    <3>1. First(k - 1) \in Nat /\ Last1(k - 1) \in Nat /\ First(k - 1) <= Last1(k - 1)
      BY <1>1, <1>2
    <3> QED BY <3>1, RowsType
  <2> QED BY <1>0, <2>1
<1>6. \A n \in 1 .. NumThreads : s[n] = Rows(d, First(n - 1), Last1(n - 1))
  OBVIOUS
<1>7. f \in [0 .. NumThreads -> Seq(Row)]
  <2>1. \A b \in Nat : 0 <= b => Rows(d, 0, b) \in Seq(Row)
    BY RowsType
  <2>2. \A n \in 0 .. NumThreads : 0 <= upto(n) /\ upto(n) \in Nat
    BY <1>4
  <2>3. \A n \in 0 .. NumThreads : Rows(d, 0, upto(n)) \in Seq(Row)
    BY <2>1, <2>2
  <2> QED BY <2>3
<1>8. f[0] = << >>
  <2>1. f[0] = Rows(d, 0, 0)
    BY <1>0
  <2> QED BY <2>1, RowsNone
<1>9. \A n \in 1 .. NumThreads : f[n] = f[n - 1] \o s[n]
  <2> TAKE n \in 1 .. NumThreads
  <2>1. PICK m : m = n - 1
    OBVIOUS
  <2>2. m \in 0 .. NumThreads /\ n \in 0 .. NumThreads /\ m \in Threads /\ n # 0
    BY <1>0, <1>1, <2>1
  <2>3. PICK a : a = First(m)
    OBVIOUS
  <2>4. PICK b : b = Last1(m)
    OBVIOUS
  <2>5. a \in Nat /\ b \in Nat /\ 0 <= a /\ a <= b
    BY <1>2, <2>2, <2>3, <2>4
  <2>6. f[m] = Rows(d, 0, a)
    <3>1. upto(m) = a
      BY <1>3, <2>1, <2>3
    <3> QED BY <2>2, <3>1
  <2>7. f[n] = Rows(d, 0, b)
    <3>1. upto(n) = b
      BY <2>1, <2>2, <2>4
    <3> QED BY <2>2, <3>1
  <2>8. s[n] = Rows(d, a, b)
    BY <1>6, <2>1, <2>3, <2>4
  <2>9. Rows(d, 0, a) \o Rows(d, a, b) = Rows(d, 0, b)
    BY <2>5, RowsConcat
  <2> QED BY <2>1, <2>6, <2>7, <2>8, <2>9
<1>10. f[NumThreads] = Rows(d, 0, NumSpenders)
  <2>1. upto(NumThreads) = NumSpenders
    BY <1>0, Ranges DEF Last1
  <2> QED BY <1>0, <2>1
<1> HIDE DEF f
<1>11. FlattenRun(s, Row, f)
  BY <1>5, <1>7, <1>8, <1>9 DEF FlattenRun
<1>12. FlattenSeq(s) = f[Len(s)]
  BY <1>5, <1>11, FlattenIsRun
<1> QED BY <1>5, <1>10, <1>12

\* Steps that leave the rows, the cursors and the day alone, and where the callers'
\* and the workers' places ask for nothing new.
LEMMA SameRows ==
  ASSUME IndInv, RowsInv, UNCHANGED <<scratch, cursor, merged, day>>
  PROVE  /\ scratch' \in [Threads -> Seq(Row)] /\ cursor' \in [Threads -> Nat]
         /\ merged' = Sequential(day' - 1)
         /\ \A t : Share(t)' = Share(t) /\ Part(t)' = Part(t)
BY DEF RowsInv, Share, Part

\* Thread t emits one spender: its part is one spender longer.
LEMMA EmitPart ==
  ASSUME IndInv, RowsInv, NEW t \in Threads, Emit(t), Part(t), JobOf(t) = day
  PROVE  /\ Part(t)' /\ UNCHANGED <<pc, day, generation, seen, merged>>
         /\ scratch' \in [Threads -> Seq(Row)] /\ cursor' \in [Threads -> Nat]
         /\ \A u \in Threads \ {t} : scratch'[u] = scratch[u] /\ cursor'[u] = cursor[u]
<1>1. day \in Nat /\ scratch \in [Threads -> Seq(Row)] /\ cursor \in [Threads -> Nat]
  BY DEF IndInv, TypeInv, RowsInv
<1>2. First(t) \in Nat /\ Last1(t) \in Nat
  BY <1>1, RangeOf
<1>3. PICK a, b, c : a = First(t) /\ b = Last1(t) /\ c = cursor[t]
  OBVIOUS
<1>4. /\ a \in Nat /\ b \in Nat /\ c \in Nat /\ a <= c /\ c + 1 \in a .. b
      /\ scratch[t] = Rows(day, a, c)
  BY <1>1, <1>2, <1>3 DEF Emit, Part, Last1
<1>5. scratch' = [scratch EXCEPT ![t] = Append(scratch[t], <<day, c>>)]
  BY <1>3 DEF Emit
<1>6. cursor' = [cursor EXCEPT ![t] = c + 1]
  BY <1>3 DEF Emit
<1>7. Append(scratch[t], <<day, c>>) = Rows(day, a, c + 1)
  <2>1. Append(Rows(day, a, c), <<day, c>>) = Rows(day, a, c + 1)
    BY <1>1, <1>4, RowsAppend
  <2> QED BY <1>4, <2>1
<1>8. PICK n \in Nat : n = c + 1
  BY <1>4
<1>9. PICK r : r = Rows(day, a, n)
  OBVIOUS
<1>10. r \in Seq(Row)
  <2>1. a <= n
    BY <1>4, <1>8
  <2> QED BY <1>1, <1>4, <1>9, <2>1, RowsType
<1>11. scratch' = [scratch EXCEPT ![t] = r]
  BY <1>5, <1>7, <1>8, <1>9
<1>12. /\ scratch' \in [Threads -> Seq(Row)] /\ scratch'[t] = r
       /\ \A u \in Threads \ {t} : scratch'[u] = scratch[u]
  BY <1>1, <1>10, <1>11
<1>13. /\ cursor' \in [Threads -> Nat] /\ cursor'[t] = n
       /\ \A u \in Threads \ {t} : cursor'[u] = cursor[u]
  BY <1>1, <1>6, <1>8
<1>14. UNCHANGED <<pc, day, generation, seen, merged>>
  BY DEF Emit, pool
<1>15. cursor'[t] \in First(t) .. Last1(t)
  BY <1>3, <1>4, <1>8, <1>13
<1>16. scratch'[t] = Rows(day', First(t), cursor'[t])
  BY <1>3, <1>9, <1>12, <1>13, <1>14
<1>17. Part(t)'
  BY <1>15, <1>16 DEF Part, First, Last1
<1> QED BY <1>12, <1>13, <1>14, <1>17

\* The cursor at the end of the range: the part is the whole share.
LEMMA PartDone ==
  ASSUME IndInv, RowsInv, NEW t \in Threads, Part(t), cursor[t] >= Last1(t)
  PROVE  scratch[t] = Share(t)
<1>1. cursor[t] = Last1(t)
  BY Ranges DEF Part, First, Last1
<1> QED BY <1>1 DEF Part, Share


-----------------------------------------------------------------------------
\* The steps preserve it.

\* What the places of the threads say of the rows, when a step leaves the rows as
\* they are.
LEMMA PlacesKeep ==
  ASSUME IndInv, RowsInv, UNCHANGED <<scratch, cursor, merged, day>>,
         CallerRows', \A t \in Workers : WorkerRows(t)'
  PROVE  RowsInv'
BY SameRows DEF RowsInv

\* A step that leaves the rows and the places as they are.
LEMMA QuietRows ==
  ASSUME IndInv, RowsInv, UNCHANGED <<scratch, cursor, merged, day, pc, seen, generation>>
  PROVE  RowsInv'
<1>1. /\ \A t : Share(t)' = Share(t) /\ Part(t)' = Part(t)
      /\ Running' = Running
  BY SameRows DEF Running
<1>2. CallerRows'
  BY <1>1 DEF RowsInv, CallerRows
<1>3. \A t \in Workers : WorkerRows(t)'
  BY <1>1 DEF RowsInv, WorkerRows
<1> QED BY <1>2, <1>3, PlacesKeep

\* A spender that is emitted: its thread's part is longer, the others' are as they were.
LEMMA EmitRows ==
  ASSUME IndInv, RowsInv, NEW t \in Threads, Emit(t), Part(t), JobOf(t) = day,
         pc[t] = "emit", t # 0 => seen[t] = generation
  PROVE  RowsInv'
<1>1. /\ Part(t)' /\ UNCHANGED <<pc, day, generation, seen, merged>>
      /\ scratch' \in [Threads -> Seq(Row)] /\ cursor' \in [Threads -> Nat]
      /\ \A u \in Threads \ {t} : scratch'[u] = scratch[u] /\ cursor'[u] = cursor[u]
  BY EmitPart
<1>2. Running' = Running
  BY <1>1 DEF Running
<1>3. \A u \in Threads \ {t} : Part(u)' = Part(u)
  BY <1>1 DEF Part
<1>4. \A u : Share(u)' = Share(u)
  BY <1>1 DEF Share
<1>5. CallerRows'
  <2>1. CASE t = 0
    BY <1>1, <2>1 DEF CallerRows
  <2>2. CASE t # 0
    <3>1. 0 \in Threads \ {t}
      BY <2>2, WorkersFinite
    <3> QED BY <1>1, <1>3, <1>4, <3>1 DEF CallerRows, RowsInv
  <2> QED BY <2>1, <2>2
<1>6. \A u \in Workers : WorkerRows(u)'
  <2> TAKE u \in Workers
  <2>1. CASE u = t
    <3>1. pc[0] \notin {"prepare", "merge"} /\ seen[t] = generation
      BY <2>1, WorkersFinite DEF IndInv, WorkerInv, Workers
    <3> QED BY <1>1, <2>1, <3>1 DEF WorkerRows
  <2>2. CASE u # t
    <3>1. u \in Threads \ {t} /\ WorkerRows(u)
      BY <2>2, WorkersFinite DEF RowsInv
    <3> QED BY <1>1, <1>2, <1>3, <1>4, <3>1 DEF WorkerRows
  <2> QED BY <2>1, <2>2
<1> QED BY <1>1, <1>5, <1>6 DEF RowsInv

\* The caller merges a day.
LEMMA MergeRows ==
  ASSUME IndInv, RowsInv, Merge
  PROVE  RowsInv'
<1>1. /\ pc[0] = "merge" /\ day' = day + 1 /\ pc' = [pc EXCEPT ![0] = "prepare"]
      /\ scratch' = [t \in Threads |-> << >>] /\ cursor' = cursor
      /\ merged' = merged \o FlattenSeq([k \in 1 .. NumThreads |-> scratch[k - 1]])
  BY DEF Merge
<1>2. day \in Nat \ {0} /\ day + 1 - 1 = day
  BY DEF IndInv, TypeInv
<1>3. pc'[0] = "prepare" /\ ~Running' /\ pc[0] # "published"
  BY <1>1, WorkersFinite DEF IndInv, TypeInv, Running
<1>4. \A t \in Threads : scratch[t] = Rows(day, First(t), Last1(t))
  <2>1. scratch[0] = Share(0)
    BY <1>1 DEF RowsInv, CallerRows
  <2>2. \A t \in Workers : scratch[t] = Share(t)
    BY <1>1 DEF RowsInv, WorkerRows
  <2>3. \A t \in Threads : t = 0 \/ t \in Workers
    BY DEF Workers
  <2> QED BY <2>1, <2>2, <2>3 DEF Share
<1>5. \A k \in 1 .. NumThreads : k - 1 \in Threads
  BY PoolAssumption DEF Threads
<1>6. PICK s : s = [k \in 1 .. NumThreads |-> Rows(day, First(k - 1), Last1(k - 1))]
  OBVIOUS
<1>7. [k \in 1 .. NumThreads |-> scratch[k - 1]] = s
  BY <1>4, <1>5, <1>6
<1>8. FlattenSeq(s) = Rows(day, 0, NumSpenders)
  BY <1>2, <1>6, MergedDay
<1>9. merged' = Sequential(day - 1) \o Rows(day, 0, NumSpenders)
  BY <1>1, <1>7, <1>8 DEF RowsInv
<1>10. merged' = Sequential(day' - 1)
  <2>1. Sequential(day) = Sequential(day - 1) \o Rows(day, 0, NumSpenders)
    BY <1>2, NextDay
  <2>2. day' - 1 = day
    BY <1>1, <1>2
  <2>3. merged' = Sequential(day)
    BY <1>9, <2>1
  <2> QED BY <2>2, <2>3
<1>11. \A t \in Threads : scratch'[t] = << >>
  BY <1>1
<1>12. scratch' \in [Threads -> Seq(Row)]
  <2>1. << >> \in Seq(Row)
    BY EmptySeq
  <2> QED BY <1>1, <2>1
<1>13. CallerRows' /\ \A t \in Workers : WorkerRows(t)'
  BY <1>3, <1>11, WorkersFinite DEF CallerRows, WorkerRows
<1> QED BY <1>1, <1>10, <1>12, <1>13 DEF RowsInv

\* The caller's steps.
LEMMA MainRows ==
  ASSUME IndInv, RowsInv, IndInv', Main
  PROVE  RowsInv'
<1> USE WorkersFinite
<1>0. /\ pc \in [Threads -> MainPlaces \cup WorkerPlaces] /\ day \in Nat
      /\ seen \in [Workers -> Nat] /\ generation \in Nat
      /\ scratch \in [Threads -> Seq(Row)] /\ cursor \in [Threads -> Nat]
      /\ CallerRows /\ \A t \in Workers : WorkerRows(t)
  BY DEF IndInv, TypeInv, RowsInv
<1>1. CASE Publish
  <2>1. UNCHANGED <<scratch, cursor, merged, day, seen>> /\ generation' = generation + 1
        /\ pc[0] = "prepare" /\ pc' = [pc EXCEPT ![0] = "published"]
    BY <1>1 DEF Publish, threads
  <2>2. pc'[0] = "published" /\ \A t \in Workers : pc'[t] = pc[t]
    BY <1>0, <2>1
  <2>3. \A t \in Workers : pc[t] = "top" /\ seen[t] = generation /\ scratch[t] = << >>
    BY <1>0, <2>1 DEF IndInv, WorkerInv, WorkerRows
  <2>4. \A t \in Workers : seen'[t] # generation'
    BY <1>0, <2>1, <2>3
  <2>5. CallerRows'
    BY <1>0, <2>1, <2>2 DEF CallerRows
  <2>6. \A t \in Workers : WorkerRows(t)'
    BY <2>1, <2>2, <2>3, <2>4 DEF WorkerRows
  <2> QED BY <2>1, <2>5, <2>6, PlacesKeep
<1>2. CASE NotifyWorkers
  <2>1. /\ pc[0] = "published" /\ pc' = [pc EXCEPT ![0] = "emit"]
        /\ cursor' = [cursor EXCEPT ![0] = First(0)]
        /\ UNCHANGED <<scratch, merged, day, seen, generation>>
    BY <1>2 DEF NotifyWorkers, pool, First
  <2>2. /\ First(0) \in Nat /\ Last1(0) \in Nat /\ First(0) <= Last1(0)
        /\ Rows(day, First(0), First(0)) = << >>
    BY <1>0, RangeOf
  <2>3. pc'[0] = "emit" /\ \A t \in Workers : pc'[t] = pc[t]
    BY <1>0, <2>1
  <2>4. /\ cursor' \in [Threads -> Nat] /\ cursor'[0] = First(0)
        /\ \A t \in Workers : cursor'[t] = cursor[t]
    BY <1>0, <2>1, <2>2
  <2>5. scratch[0] = << >>
    BY <1>0, <2>1 DEF CallerRows
  <2>6. Part(0)'
    BY <2>1, <2>2, <2>4, <2>5 DEF Part, First, Last1
  <2>7. CallerRows'
    BY <2>3, <2>6 DEF CallerRows
  <2>8. \A t \in Workers : Part(t)' = Part(t) /\ Share(t)' = Share(t)
    BY <2>1, <2>4 DEF Part, Share
  <2>9. Running /\ Running'
    BY <2>1, <2>3 DEF Running
  <2>10. \A t \in Workers : WorkerRows(t)'
    BY <1>0, <2>1, <2>3, <2>8, <2>9 DEF WorkerRows
  <2> QED BY <1>0, <2>1, <2>4, <2>7, <2>10 DEF RowsInv
<1>3. CASE AwaitAll
  BY <1>3, QuietRows DEF AwaitAll, pool, threads
<1>4. CASE AllReported
  <2>1. UNCHANGED <<scratch, cursor, merged, day, seen, generation>>
        /\ pc[0] = "await" /\ pc' = [pc EXCEPT ![0] = "merge"]
    BY <1>4 DEF AllReported, threads
  <2>2. pc'[0] = "merge" /\ \A t \in Workers : pc'[t] = pc[t]
    BY <1>0, <2>1
  <2>3. \A t \in Workers : pc[t] = "top" /\ seen[t] = generation
    <3>1. \A t \in Workers : pc'[t] = "top" /\ seen'[t] = generation'
      BY <2>2 DEF IndInv, WorkerInv
    <3> QED BY <2>1, <2>2, <3>1
  <2>4. \A t : Share(t)' = Share(t)
    BY <2>1 DEF Share
  <2>5. Running /\ ~Running'
    BY <2>1, <2>2 DEF Running
  <2>6. scratch[0] = Share(0) /\ \A t \in Workers : scratch[t] = Share(t)
    BY <1>0, <2>1, <2>3, <2>5 DEF CallerRows, WorkerRows
  <2>7. CallerRows'
    BY <2>1, <2>2, <2>4, <2>6 DEF CallerRows
  <2>8. \A t \in Workers : WorkerRows(t)'
    BY <2>1, <2>2, <2>4, <2>5, <2>6 DEF WorkerRows
  <2> QED BY <2>1, <2>7, <2>8, PlacesKeep
<1>5. CASE Merge
  BY <1>5, MergeRows
<1>6. CASE Stop \/ NotifyStop \/ Join
  <2>1. UNCHANGED <<scratch, cursor, merged, day>>
        /\ pc'[0] \in {"stopping", "join", "joined"}
    BY <1>0, <1>6 DEF Stop, NotifyStop, Join, threads
  <2>2. ~Running'
    BY <2>1 DEF Running
  <2>3. CallerRows' /\ \A t \in Workers : WorkerRows(t)'
    BY <2>1, <2>2 DEF CallerRows, WorkerRows
  <2> QED BY <2>1, <2>3, PlacesKeep
<1>7. CASE Emit(0)
  <2>1. pc[0] = "emit" /\ JobOf(0) = day
    BY <1>7 DEF Emit, JobOf
  <2>2. Part(0)
    BY <1>0, <2>1 DEF CallerRows
  <2> QED BY <1>7, <2>1, <2>2, EmitRows
<1>8. CASE EmitDone(0)
  <2>1. UNCHANGED <<scratch, cursor, merged, day, seen, generation>>
        /\ pc[0] = "emit" /\ cursor[0] >= Last1(0) /\ pc' = [pc EXCEPT ![0] = "await"]
    BY <1>8 DEF EmitDone, threads, pool, Last1
  <2>2. pc'[0] = "await" /\ \A t \in Workers : pc'[t] = pc[t]
    BY <1>0, <2>1
  <2>3. scratch[0] = Share(0)
    BY <1>0, <2>1, PartDone DEF CallerRows
  <2>4. \A t : Share(t)' = Share(t) /\ Part(t)' = Part(t)
    BY <2>1, SameRows
  <2>5. Running /\ Running'
    BY <2>1, <2>2 DEF Running
  <2>6. CallerRows'
    BY <2>1, <2>2, <2>3, <2>4 DEF CallerRows
  <2>7. \A t \in Workers : WorkerRows(t)'
    BY <1>0, <2>1, <2>2, <2>4, <2>5 DEF WorkerRows
  <2> QED BY <2>1, <2>6, <2>7, PlacesKeep
<1> QED BY <1>1, <1>2, <1>3, <1>4, <1>5, <1>6, <1>7, <1>8 DEF Main

\* A worker's steps.
LEMMA WorkerRowsStep ==
  ASSUME IndInv, RowsInv, IndInv', NEW t \in Workers, Worker(t)
  PROVE  RowsInv'
<1> USE WorkersFinite
<1>0. /\ pc \in [Threads -> MainPlaces \cup WorkerPlaces] /\ day \in Nat
      /\ seen \in [Workers -> Nat] /\ generation \in Nat
      /\ scratch \in [Threads -> Seq(Row)] /\ cursor \in [Threads -> Nat]
      /\ CallerRows /\ \A u \in Workers : WorkerRows(u)
      /\ t \in Threads /\ t # 0
  BY DEF IndInv, TypeInv, RowsInv
<1>1. CASE Sleep(t)
  BY <1>1, QuietRows DEF Sleep, pool, threads
<1>2. CASE Take(t)
  <2>1. CASE stop
    <3>1. UNCHANGED <<scratch, cursor, merged, day>> /\ pc'[0] = pc[0]
      BY <1>0, <1>2, <2>1 DEF Take
    <3>2. pc[0] \in {"stopping", "join"}
      BY <2>1 DEF IndInv, PoolInv
    <3>3. ~Running'
      BY <3>1, <3>2 DEF Running
    <3>4. CallerRows' /\ \A u \in Workers : WorkerRows(u)'
      BY <3>1, <3>2, <3>3 DEF CallerRows, WorkerRows
    <3> QED BY <3>1, <3>4, PlacesKeep
  <2>2. CASE ~stop
    <3>1. /\ pc[t] = "top" /\ generation # seen[t] /\ seen' = [seen EXCEPT ![t] = generation]
          /\ pc' = [pc EXCEPT ![t] = "emit"] /\ cursor' = [cursor EXCEPT ![t] = First(t)]
          /\ UNCHANGED <<scratch, merged, day, generation>>
      BY <1>2, <2>2 DEF Take, Woken, First, pool
    <3>2. pc'[t] = "emit" /\ \A u \in Threads \ {t} : pc'[u] = pc[u]
      BY <1>0, <3>1
    <3>3. Running' /\ Running
      <4>1. Running'
        BY <3>2 DEF IndInv, WorkerInv
      <4>2. pc'[0] = pc[0]
        BY <1>0, <3>2
      <4> QED BY <4>1, <4>2 DEF Running
    <3>4. scratch[t] = << >>
      BY <1>0, <3>1, <3>3 DEF WorkerRows
    <3>5. /\ First(t) \in Nat /\ Last1(t) \in Nat /\ First(t) <= Last1(t)
          /\ Rows(day, First(t), First(t)) = << >>
      BY <1>0, RangeOf
    <3>6. /\ cursor' \in [Threads -> Nat] /\ cursor'[t] = First(t)
          /\ \A u \in Threads \ {t} : cursor'[u] = cursor[u]
      BY <1>0, <3>1, <3>5
    <3>7. seen'[t] = generation /\ \A u \in Workers \ {t} : seen'[u] = seen[u]
      BY <1>0, <3>1
    <3>8. Part(t)'
      BY <3>1, <3>4, <3>5, <3>6 DEF Part, First, Last1
    <3>9. \A u \in Threads \ {t} : Part(u)' = Part(u) /\ Share(u)' = Share(u)
      BY <3>1, <3>6 DEF Part, Share
    <3>10. CallerRows'
      <4>1. 0 \in Threads \ {t}
        BY <1>0
      <4> QED BY <1>0, <3>1, <3>2, <3>9, <4>1 DEF CallerRows
    <3>11. \A u \in Workers : WorkerRows(u)'
      <4> TAKE u \in Workers
      <4>1. CASE u = t
        <5>1. pc'[0] \notin {"prepare", "merge"}
          BY <3>3 DEF Running
        <5> QED BY <3>1, <3>2, <3>7, <3>8, <4>1, <5>1 DEF WorkerRows
      <4>2. CASE u # t
        <5>1. u \in Threads \ {t} /\ u \in Workers \ {t} /\ WorkerRows(u) /\ pc'[0] = pc[0]
          BY <1>0, <3>2, <4>2
        <5> QED BY <3>1, <3>2, <3>3, <3>7, <3>9, <5>1 DEF WorkerRows
      <4> QED BY <4>1, <4>2
    <3> QED BY <1>0, <3>1, <3>6, <3>10, <3>11 DEF RowsInv
  <2> QED BY <2>1, <2>2
<1>3. CASE Emit(t)
  <2>1. pc[t] = "emit" /\ Running /\ seen[t] = generation /\ JobOf(t) = day
    BY <1>0, <1>3 DEF Emit, JobOf, IndInv, WorkerInv
  <2>2. Part(t)
    BY <1>0, <2>1 DEF WorkerRows
  <2> QED BY <1>0, <1>3, <2>1, <2>2, EmitRows
<1>4. CASE EmitDone(t) \/ Report(t)
  <2>1. UNCHANGED <<scratch, cursor, merged, day, seen, generation>>
        /\ pc[t] \in {"emit", "report"} /\ (pc[t] = "emit" => cursor[t] >= Last1(t))
        /\ (pc' = [pc EXCEPT ![t] = "report"] \/ pc' = [pc EXCEPT ![t] = "top"])
    BY <1>0, <1>4 DEF EmitDone, Report, threads, pool, Last1
  <2>2. pc'[t] \in {"report", "top"} /\ \A u \in Threads \ {t} : pc'[u] = pc[u]
    BY <1>0, <2>1
  <2>3. Running /\ seen[t] = generation
    BY <2>1 DEF IndInv, WorkerInv
  <2>4. scratch[t] = Share(t)
    <3>1. CASE pc[t] = "emit"
      <4>1. Part(t)
        BY <1>0, <2>3, <3>1 DEF WorkerRows
      <4> QED BY <1>0, <2>1, <3>1, <4>1, PartDone
    <3>2. CASE pc[t] = "report"
      BY <1>0, <2>3, <3>2 DEF WorkerRows
    <3> QED BY <2>1, <3>1, <3>2
  <2>5. \A u : Share(u)' = Share(u) /\ Part(u)' = Part(u)
    BY <2>1, SameRows
  <2>6. pc'[0] = pc[0]
    BY <1>0, <2>2
  <2>7. Running' /\ pc'[0] # "prepare"
    BY <2>3, <2>6 DEF Running
  <2>8. CallerRows'
    BY <1>0, <2>1, <2>5, <2>6 DEF CallerRows
  <2>9. \A u \in Workers : WorkerRows(u)'
    <3> TAKE u \in Workers
    <3>1. CASE u = t
      BY <2>1, <2>2, <2>3, <2>4, <2>5, <2>7, <3>1 DEF WorkerRows
    <3>2. CASE u # t
      <4>1. WorkerRows(u) /\ pc'[u] = pc[u]
        BY <1>0, <2>2, <3>2
      <4> QED BY <2>1, <2>3, <2>5, <2>6, <2>7, <4>1 DEF WorkerRows
    <3> QED BY <3>1, <3>2
  <2> QED BY <2>1, <2>8, <2>9, PlacesKeep
<1> QED BY <1>1, <1>2, <1>3, <1>4 DEF Worker

\* The rows that the threads have emitted are those of their ranges, always.
THEOREM SpecRowsInv == Spec => []RowsInv
<1>1. Init => RowsInv
  <2> SUFFICES ASSUME Init PROVE RowsInv
    OBVIOUS
  <2>1. /\ pc[0] = "prepare" /\ day = 1 /\ merged = << >>
        /\ cursor = [t \in Threads |-> 0] /\ scratch = [t \in Threads |-> << >>]
    BY WorkersFinite DEF Init
  <2>2. << >> \in Seq(Row)
    BY EmptySeq
  <2>3. merged = Sequential(day - 1)
    <3>1. day \in Nat \ {0} /\ day - 1 = 0
      BY <2>1
    <3>2. Sequential(0) = << >>
      BY <3>1, NextDay
    <3> QED BY <2>1, <3>1, <3>2
  <2>4. CallerRows /\ \A t \in Workers : WorkerRows(t)
    BY <2>1, WorkersFinite DEF CallerRows, WorkerRows, Running
  <2> QED BY <2>1, <2>2, <2>3, <2>4 DEF RowsInv
<1>2. IndInv /\ IndInv' /\ RowsInv /\ [Next]_vars => RowsInv'
  <2> SUFFICES ASSUME IndInv, IndInv', RowsInv, [Next]_vars PROVE RowsInv'
    OBVIOUS
  <2>1. CASE Main
    BY <2>1, MainRows
  <2>2. CASE \E t \in Workers : Worker(t)
    BY <2>2, WorkerRowsStep
  <2>3. CASE UNCHANGED vars
    BY <2>3, QuietRows DEF vars, pool, threads
  <2> QED BY <2>1, <2>2, <2>3 DEF Next
<1> QED BY <1>1, <1>2, SpecIndInv, PTL DEF Spec

\* Whatever the interleaving and the number of threads, each day's merge is what one
\* thread would have emitted: every spender once, in order.
THEOREM MergeIsSequential == Spec => []ThreadInvariant
<1>1. RowsInv => ThreadInvariant
  BY DEF RowsInv, ThreadInvariant
<1> QED BY <1>1, SpecRowsInv, PTL
=============================================================================
