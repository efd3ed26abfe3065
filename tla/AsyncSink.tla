------------------------------ MODULE AsyncSink ------------------------------
(***************************************************************************)
(* chunk::Async (pipeline/chunk/async_sink.hpp): the spans of a run are    *)
(* queued by the producer and written to the inner sink by one worker      *)
(* thread.  A step under the mutex is one action; a notification outside   *)
(* the mutex is a step of its own.  The inner sink may throw at any call.  *)
(***************************************************************************)
EXTENDS Integers, Sequences, SequencesExt

CONSTANTS NumSpans,   \* spans of the run
          MaxQueued   \* maxQueued_

ASSUME AsyncAssumption == NumSpans \in Nat /\ MaxQueued \in Nat \ {0}

Spans == 1 .. NumSpans
NoSpan == 0

VARIABLES
  ppc,        \* where the producer is
  current,    \* the span the producer is at (current_)
  wpc, item,  \* where the worker is, and the span it holds
  queue, finishing, stopping, failed,
  asleep,     \* who waits on the condition variable
  written,    \* the spans the inner sink has completed, in order
  innerDone   \* the inner sink has been finished

producer == <<ppc, current>>
worker == <<wpc, item, written, innerDone>>
sinkVars == <<ppc, current, wpc, item, queue, finishing, stopping, failed, asleep,
              written, innerDone>>

SinkInit ==
  /\ ppc = "ready" /\ current = 1
  /\ wpc = "top" /\ item = NoSpan
  /\ queue = << >> /\ finishing = FALSE /\ stopping = FALSE /\ failed = FALSE
  /\ asleep = {} /\ written = << >> /\ innerDone = FALSE

NotifyAll == asleep' = {}
-----------------------------------------------------------------------------
\* The producer.

\* rethrowIfFailed, or on to the next place.
Proceed(to) == ppc' = IF failed THEN "threw" ELSE to

BeginSpan ==
  /\ ppc = "ready" /\ current \in Spans
  /\ Proceed("open")
  /\ UNCHANGED <<current, worker, queue, finishing, stopping, failed, asleep>>

\* endSpan up to the lock; what append copies belongs to the span.
EndSpan ==
  /\ ppc = "open"
  /\ Proceed("enqueue")
  /\ UNCHANGED <<current, worker, queue, finishing, stopping, failed, asleep>>

HasRoom == Len(queue) < MaxQueued \/ failed \/ stopping

AwaitRoom ==
  /\ ppc = "enqueue" /\ "producer" \notin asleep /\ ~HasRoom
  /\ asleep' = asleep \cup {"producer"}
  /\ UNCHANGED <<producer, worker, queue, finishing, stopping, failed>>

Enqueue ==
  /\ ppc = "enqueue" /\ "producer" \notin asleep /\ HasRoom
  /\ IF failed THEN ppc' = "threw" /\ UNCHANGED queue
     ELSE ppc' = "queued" /\ queue' = Append(queue, current)
  /\ UNCHANGED <<current, worker, finishing, stopping, failed, asleep>>

NotifyQueued ==
  /\ ppc = "queued"
  /\ ppc' = "ready" /\ current' = current + 1 /\ NotifyAll
  /\ UNCHANGED <<worker, queue, finishing, stopping, failed>>

\* finish() sets the flag, notifies, joins and rethrows.
Finish ==
  /\ ppc = "ready" /\ current \notin Spans
  /\ ppc' = "finish" /\ finishing' = TRUE
  /\ UNCHANGED <<current, worker, queue, stopping, failed, asleep>>

NotifyFinish ==
  /\ ppc = "finish"
  /\ ppc' = "join" /\ NotifyAll
  /\ UNCHANGED <<current, worker, queue, finishing, stopping, failed>>

JoinFinish ==
  /\ ppc = "join" /\ wpc = "exit"
  /\ Proceed("finished")
  /\ UNCHANGED <<current, worker, queue, finishing, stopping, failed, asleep>>

\* The destructor: after finish, after a throw, or because the producer failed
\* elsewhere.
Destroy ==
  /\ ppc \in {"ready", "open", "finished", "threw"}
  /\ ppc' = "destroy" /\ stopping' = TRUE
  /\ UNCHANGED <<current, worker, queue, finishing, failed, asleep>>

NotifyDestroy ==
  /\ ppc = "destroy"
  /\ ppc' = "joinDestroy" /\ NotifyAll
  /\ UNCHANGED <<current, worker, queue, finishing, stopping, failed>>

JoinDestroy ==
  /\ ppc = "joinDestroy" /\ wpc = "exit"
  /\ ppc' = "gone"
  /\ UNCHANGED <<current, worker, queue, finishing, stopping, failed, asleep>>
-----------------------------------------------------------------------------
\* The worker.

HasWork == queue # << >> \/ finishing \/ stopping

AwaitWork ==
  /\ wpc = "top" /\ "worker" \notin asleep /\ ~HasWork
  /\ asleep' = asleep \cup {"worker"}
  /\ UNCHANGED <<producer, worker, queue, finishing, stopping, failed>>

\* (mutant: a stop is obeyed before the queue is looked at)
TakeUnlessStopping ==
  /\ wpc = "top" /\ "worker" \notin asleep /\ HasWork
  /\ IF stopping \/ finishing
     THEN /\ wpc' = IF stopping THEN "exit" ELSE "inner"
          /\ UNCHANGED <<queue, item>>
     ELSE wpc' = "popped" /\ item' = Head(queue) /\ queue' = Tail(queue)
  /\ UNCHANGED <<producer, written, innerDone, finishing, stopping, failed, asleep>>

\* A queued span comes first; a stop drops the inner finish, not the queue.
Take ==
  /\ wpc = "top" /\ "worker" \notin asleep /\ HasWork
  /\ IF queue = << >>
     THEN /\ wpc' = IF stopping THEN "exit" ELSE "inner"
          /\ UNCHANGED <<queue, item>>
     ELSE wpc' = "popped" /\ item' = Head(queue) /\ queue' = Tail(queue)
  /\ UNCHANGED <<producer, written, innerDone, finishing, stopping, failed, asleep>>

\* (mutant: a freed place is not announced)
NotifyPoppedSilently ==
  /\ wpc = "popped"
  /\ wpc' = "write"
  /\ UNCHANGED <<producer, item, written, innerDone, queue, finishing, stopping,
                 failed, asleep>>

NotifyPopped ==
  /\ wpc = "popped"
  /\ wpc' = "write" /\ NotifyAll
  /\ UNCHANGED <<producer, item, written, innerDone, queue, finishing, stopping, failed>>

Write ==
  /\ wpc = "write"
  /\ wpc' = "top" /\ item' = NoSpan /\ written' = Append(written, item)
  /\ UNCHANGED <<producer, innerDone, queue, finishing, stopping, failed, asleep>>

InnerFinish ==
  /\ wpc = "inner"
  /\ wpc' = "exit" /\ innerDone' = TRUE
  /\ UNCHANGED <<producer, item, written, queue, finishing, stopping, failed, asleep>>

\* (mutant: the worker goes on after an exception)
InnerThrowsGoOn ==
  /\ wpc \in {"write", "inner"}
  /\ wpc' = IF wpc = "write" THEN "top" ELSE "exit"
  /\ item' = NoSpan /\ failed' = TRUE /\ NotifyAll
  /\ UNCHANGED <<producer, written, innerDone, queue, finishing, stopping>>

\* runGuarded: the exception is kept and the worker ends.
InnerThrows ==
  /\ wpc \in {"write", "inner"}
  /\ wpc' = "exit" /\ item' = NoSpan /\ failed' = TRUE /\ NotifyAll
  /\ UNCHANGED <<producer, written, innerDone, queue, finishing, stopping>>
-----------------------------------------------------------------------------
Producer ==
  \/ BeginSpan \/ EndSpan \/ AwaitRoom \/ Enqueue \/ NotifyQueued
  \/ Finish \/ NotifyFinish \/ JoinFinish \/ NotifyDestroy \/ JoinDestroy
Worker ==
  \/ AwaitWork \/ Take \/ NotifyPopped \/ Write \/ InnerFinish \/ InnerThrows

SinkNext == Producer \/ Worker \/ Destroy

\* Both threads run; the inner sink's calls return.  An owner that is done with
\* the sink destroys it.
Fairness ==
  /\ WF_sinkVars(Producer) /\ WF_sinkVars(Worker)
  /\ WF_sinkVars(Destroy /\ ppc \in {"finished", "threw"})

SinkSpec == SinkInit /\ [][SinkNext]_sinkVars
FairSpec == SinkSpec /\ Fairness
-----------------------------------------------------------------------------
\* Spans reach the inner sink in the order they were produced, none twice and
\* none skipped: what is written is a prefix of the run.
InOrder == \A n \in DOMAIN written : written[n] = n

\* At most maxQueued spans wait, so that many are all the memory the queue
\* holds.
Backpressure == Len(queue) <= MaxQueued

\* finish() returns only when every span has been written and the inner sink
\* finished; otherwise it throws.  No error is swallowed.
FinishIsComplete ==
  ppc = "finished" => Len(written) = NumSpans /\ innerDone /\ ~failed

\* A sink abandoned without finish() is never finished underneath: the inner
\* sink does not take a broken run for a complete one.
AbandonedNotFinished == innerDone => finishing /\ Len(written) = NumSpans

\* Nothing is written after a call of the inner sink has thrown.
FailStop == [][failed => written' = written /\ innerDone' = innerDone]_sinkVars

\* The producer is never left waiting for room or for the worker: every run
\* ends with the sink destroyed, whatever fails and whenever it is abandoned.
AlwaysEnds == <>(ppc = "gone")

\* What the inner sink has seen is a prefix of the run, and is taken for the whole
\* run only if it is; the queue is bounded (endSpan, finish, ~Async, workerLoop).
PrefixWritten == InOrder /\ Backpressure /\ FinishIsComplete /\ AbandonedNotFinished
=============================================================================
