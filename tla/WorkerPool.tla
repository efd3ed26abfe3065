----------------------------- MODULE WorkerPool -----------------------------
(***************************************************************************)
(* The spending simulator's parallel day (SpenderEmissionDriver::emitDay)  *)
(* over its persistent WorkerPool (thread_runner.hpp).  Each day the main  *)
(* thread publishes a job, every thread emits the spenders of its own      *)
(* contiguous range into its own scratch, and the main thread merges the   *)
(* scratch in thread order once all have reported.                         *)
(***************************************************************************)
EXTENDS Integers, Sequences, FiniteSets, SequencesExt

CONSTANTS NumThreads, NumSpenders, NumDays

ASSUME PoolAssumption ==
  /\ NumThreads \in Nat \ {0, 1}       \* one thread runs the job inline
  /\ NumSpenders \in Nat /\ NumDays \in Nat

Threads == 0 .. (NumThreads - 1)       \* 0 is the caller of run()
Workers == Threads \ {0}
None == 0                              \* no job: body_ is null

VARIABLES
  pc,          \* where each thread is
  day,         \* the day the main thread is at
  body,        \* the published job: the day it emits, or None
  generation, remaining, stop,
  seen, job,   \* per worker: the generation last seen, the job taken
  cursor,      \* per thread: the next spender of its range
  scratch,     \* per thread: the rows <<day, spender>> emitted
  merged,      \* the rows handed to the day's settlement, day after day
  asleep, mainAsleep   \* who waits on wakeCv_, and on doneCv_

pool == <<body, generation, remaining, stop>>
threads == <<seen, job, cursor, scratch>>
vars == <<pc, day, pool, threads, merged, asleep, mainAsleep>>

\* (mutant: the remainder goes to no thread)
PartitionRangeNoRemainder(t) ==
  LET base == NumSpenders \div NumThreads
  IN  [begin |-> t * base, end |-> (t + 1) * base]

PartitionRange(t) ==
  LET base  == NumSpenders \div NumThreads
      rem   == NumSpenders % NumThreads
      begin == t * base + IF t < rem THEN t ELSE rem
  IN  [begin |-> begin, end |-> begin + base + IF t < rem THEN 1 ELSE 0]

Init ==
  /\ pc = [t \in Threads |-> IF t = 0 THEN "prepare" ELSE "top"]
  /\ day = 1 /\ body = None /\ generation = 0 /\ remaining = 0 /\ stop = FALSE
  /\ seen = [t \in Workers |-> 0] /\ job = [t \in Workers |-> None]
  /\ cursor = [t \in Threads |-> 0] /\ scratch = [t \in Threads |-> << >>]
  /\ merged = << >> /\ asleep = {} /\ mainAsleep = FALSE
-----------------------------------------------------------------------------
\* run(): publish under the lock, then notify.
Publish ==
  /\ pc[0] = "prepare" /\ day <= NumDays
  /\ body' = day /\ remaining' = NumThreads - 1 /\ generation' = generation + 1
  /\ pc' = [pc EXCEPT ![0] = "published"]
  /\ UNCHANGED <<day, stop, threads, merged, asleep, mainAsleep>>

NotifyWorkers ==
  /\ pc[0] = "published"
  /\ asleep' = {}
  /\ pc' = [pc EXCEPT ![0] = "emit"]
  /\ cursor' = [cursor EXCEPT ![0] = PartitionRange(0).begin]
  /\ UNCHANGED <<day, pool, seen, job, scratch, merged, mainAsleep>>

\* One spender of thread t's range, with the spender's own random stream.
JobOf(t) == IF t = 0 THEN day ELSE job[t]
Emit(t) ==
  /\ pc[t] = "emit" /\ cursor[t] < PartitionRange(t).end
  /\ scratch' = [scratch EXCEPT ![t] = Append(@, <<JobOf(t), cursor[t]>>)]
  /\ cursor' = [cursor EXCEPT ![t] = @ + 1]
  /\ UNCHANGED <<pc, day, pool, seen, job, merged, asleep, mainAsleep>>

EmitDone(t) ==
  /\ pc[t] = "emit" /\ cursor[t] >= PartitionRange(t).end
  /\ pc' = [pc EXCEPT ![t] = IF t = 0 THEN "await" ELSE "report"]
  /\ UNCHANGED <<day, pool, threads, merged, asleep, mainAsleep>>

AwaitAll ==
  /\ pc[0] = "await" /\ ~mainAsleep /\ remaining # 0
  /\ mainAsleep' = TRUE
  /\ UNCHANGED <<pc, day, pool, threads, merged, asleep>>

\* (mutant: the caller does not wait for the workers)
AllReportedUnchecked ==
  /\ pc[0] = "await" /\ ~mainAsleep
  /\ body' = None
  /\ pc' = [pc EXCEPT ![0] = "merge"]
  /\ UNCHANGED <<day, generation, remaining, stop, threads, merged, asleep, mainAsleep>>

AllReported ==
  /\ pc[0] = "await" /\ ~mainAsleep /\ remaining = 0
  /\ body' = None
  /\ pc' = [pc EXCEPT ![0] = "merge"]
  /\ UNCHANGED <<day, generation, remaining, stop, threads, merged, asleep, mainAsleep>>

\* mergeThreadTxns, in thread order.
Merge ==
  /\ pc[0] = "merge"
  /\ merged' = merged \o FlattenSeq([k \in 1 .. NumThreads |-> scratch[k - 1]])
  /\ scratch' = [t \in Threads |-> << >>]
  /\ day' = day + 1
  /\ pc' = [pc EXCEPT ![0] = "prepare"]
  /\ UNCHANGED <<pool, seen, job, cursor, asleep, mainAsleep>>

\* stop(), from the destructor.
Stop ==
  /\ pc[0] = "prepare" /\ day > NumDays
  /\ stop' = TRUE /\ generation' = generation + 1
  /\ pc' = [pc EXCEPT ![0] = "stopping"]
  /\ UNCHANGED <<day, body, remaining, threads, merged, asleep, mainAsleep>>

NotifyStop ==
  /\ pc[0] = "stopping"
  /\ asleep' = {}
  /\ pc' = [pc EXCEPT ![0] = "join"]
  /\ UNCHANGED <<day, pool, threads, merged, mainAsleep>>

Join ==
  /\ pc[0] = "join" /\ \A t \in Workers : pc[t] = "exit"
  /\ stop' = FALSE
  /\ pc' = [pc EXCEPT ![0] = "joined"]
  /\ UNCHANGED <<day, body, generation, remaining, threads, merged, asleep, mainAsleep>>
-----------------------------------------------------------------------------
\* workerLoop.

\* (mutant: a worker that is late for a job waits for the next one)
WokenByNotifyOnly(t) == stop

Woken(t) == stop \/ generation # seen[t]

Sleep(t) ==
  /\ pc[t] = "top" /\ t \notin asleep /\ ~Woken(t)
  /\ asleep' = asleep \cup {t}
  /\ UNCHANGED <<pc, day, pool, threads, merged, mainAsleep>>

Take(t) ==
  /\ pc[t] = "top" /\ t \notin asleep /\ Woken(t)
  /\ seen' = [seen EXCEPT ![t] = generation]
  /\ IF stop
     THEN /\ pc' = [pc EXCEPT ![t] = "exit"]
          /\ UNCHANGED <<job, cursor>>
     ELSE /\ pc' = [pc EXCEPT ![t] = "emit"]
          /\ job' = [job EXCEPT ![t] = body]
          /\ cursor' = [cursor EXCEPT ![t] = PartitionRange(t).begin]
  /\ UNCHANGED <<day, pool, scratch, merged, asleep, mainAsleep>>

Report(t) ==
  /\ pc[t] = "report"
  /\ remaining' = remaining - 1
  /\ mainAsleep' = IF remaining = 1 THEN FALSE ELSE mainAsleep
  /\ pc' = [pc EXCEPT ![t] = "top"]
  /\ UNCHANGED <<day, body, generation, stop, threads, merged, asleep>>
-----------------------------------------------------------------------------
Main ==
  \/ Publish \/ NotifyWorkers \/ AwaitAll \/ AllReported \/ Merge
  \/ Stop \/ NotifyStop \/ Join \/ Emit(0) \/ EmitDone(0)
Worker(t) == Sleep(t) \/ Take(t) \/ Emit(t) \/ EmitDone(t) \/ Report(t)

Next == Main \/ \E t \in Workers : Worker(t)

\* Every thread is scheduled.
Fairness == WF_vars(Main) /\ \A t \in Workers : WF_vars(Worker(t))

Spec == Init /\ [][Next]_vars /\ Fairness
-----------------------------------------------------------------------------
\* The rows a sequential run would hand on.
Sequential(days) ==
  [k \in 1 .. (days * NumSpenders) |->
     <<1 + (k - 1) \div NumSpenders, (k - 1) % NumSpenders>>]

\* Whatever the interleaving and the number of threads, each day's merge is
\* what one thread would have emitted: every spender once, in order.
ThreadInvariant ==
  pc[0] = "prepare" => merged = Sequential(day - 1)

\* No worker runs without a job, or with the job of another day.
JobIsCurrent ==
  \A t \in Workers : pc[t] = "emit" => job[t] = day /\ body = day

\* The number the caller waits for is the number of workers that have still to
\* report, so neither is the wait cut short nor does a worker report twice.
RemainingExact ==
  pc[0] \in {"published", "emit", "await"} =>
    remaining = Cardinality({t \in Workers : seen[t] # generation
                                               \/ pc[t] \in {"emit", "report"}})

\* No wakeup is lost: every day is emitted and the pool shuts down.
ShutsDown == <>(pc[0] = "joined")
=============================================================================
