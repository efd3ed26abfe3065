------------------------- MODULE Checkpoint_proofs -------------------------
(***************************************************************************)
(* Proofs about Checkpoint, for every set of configurations and builds,    *)
(* every stream and every number of runs, kills and faults: the journal    *)
(* belongs to the newest run, a run is only resumed over its own rows, the *)
(* rows of committed spans stay in the table, and a stream that ends has   *)
(* put exactly its own rows there.                                         *)
(***************************************************************************)
EXTENDS Checkpoint, InductionLemmas, FunctionTheorems, SequenceTheorems, FiniteSetTheorems, TLAPS

Statuses == {"running", "complete", "superseded", "failed"}

NoneRunning == \A i \in DOMAIN manifest : manifest[i].status # "running"

\* The manifest is a sequence of runs, and a journal row implies that there is
\* one; a plan without an id is no plan.
Shape ==
  /\ manifest \in Seq([cfg : Configs, status : Statuses])
  /\ cfg \in Configs
  /\ journal # {} => Len(manifest) # 0
  /\ plan.id \in Nat /\ (plan.id = 0 => plan = NoPlan)

\* What the statement to come says of the manifest, the journal and the plan.
PlaceInv ==
  /\ pc \in {"trim", "match", "fail", "pruneFailed", "pruneDone"} =>
       plan.id = Len(manifest) /\ plan.id # 0
  /\ pc \in {"pruneFailed", "pruneDone", "sweep", "begin"} => NoneRunning
  /\ pc \in {"begin", "drop", "create"} => journal = {}
  /\ pc \in {"supersede", "sweep", "begin", "drop", "create"} => plan.id = 0
  /\ pc \in {"drop", "create", "stream", "record"} =>
       runId = Len(manifest) /\ runId # 0
  /\ pc \in {"stream", "record"} => plan.id \in {0, Len(manifest)}

IsRow(r) == r = [seq |-> r.seq, span |-> r.span, row |-> r.row, by |-> r.by]
Owned == \A r \in table : IsRow(r) /\ r.by = Len(manifest)

\* Whose rows the table holds.  Rows of older runs may be there until the new
\* run drops the table, and then its journal is still empty.
OwnInv ==
  /\ table # Absent => \A r \in table : IsRow(r)
  /\ pc \in {"match", "stream", "record"} => Owned
  /\ (pc = "trim" \/ (journal # {} /\ ~NoneRunning)) => (table # Absent => Owned)

IndInv == Shape /\ JournalBounded /\ PlaceInv /\ OwnInv
-----------------------------------------------------------------------------
\* An empty list of spans has no row.
LEMMA NoSpansNoRows == \A s : s = << >> => RowCount(s) = 0
BY DEF RowCount, FlattenSeq

\* findResumable only ever finds the newest run, while it is running, and only
\* when its journal is not empty.
LEMMA FindsNewest ==
  ASSUME Shape, JournalBounded, NEW c, FindResumable(c) # NoPlan
  PROVE  /\ FindResumable(c).id = Len(manifest)
         /\ Len(manifest) \in Nat \ {0}
         /\ manifest[Len(manifest)].status = "running"
         /\ journal # {}
<1> DEFINE R == RunningWith(c)
<1> DEFINE id == CHOOSE i \in R : \A j \in R : j <= i
<1> DEFINE recs == {r \in journal : r.id = id}
<1> DEFINE n == Cardinality(recs)
<1> DEFINE spans == [k \in 1 .. n |-> (CHOOSE r \in recs : r.index = k - 1).digest]
<1>1. R # {}
  BY DEF FindResumable
<1>2. DOMAIN manifest = 1 .. Len(manifest) /\ Len(manifest) \in Nat
  BY LenProperties DEF Shape
<1>3. \A i \in R : i = Len(manifest) /\ manifest[i].status = "running" /\ i # 0
  BY <1>2 DEF RunningWith, JournalBounded
<1>4. \E i \in R : \A j \in R : j <= i
  BY <1>1, <1>2, <1>3
<1>5. id \in R
  BY <1>4
<1>6. /\ RowCount(spans) # 0
      /\ FindResumable(c) = [id |-> id, spans |-> spans]
  BY <1>1 DEF FindResumable
<1>7. journal # {}
  <2> SUFFICES ASSUME journal = {} PROVE FALSE
    OBVIOUS
  <2>1. recs = {} /\ n = 0
    BY FS_EmptySet
  <2>2. spans = << >>
    BY <2>1
  <2> QED BY <2>2, <1>6, NoSpansNoRows
<1> QED BY <1>2, <1>3, <1>5, <1>6, <1>7

\* Before the first run there is nothing.
LEMMA InitIndInv == Init => IndInv
BY DEF Init, IndInv, Shape, NoPlan, JournalBounded, PlaceInv, OwnInv, Down, NoneRunning
\* UPDATE ... SET status of one run.
LEMMA UpdateStatus ==
  ASSUME NEW m \in Seq([cfg : Configs, status : Statuses]),
         NEW i \in DOMAIN m, NEW st \in Statuses
  PROVE  LET u == [m EXCEPT ![i].status = st] IN
           /\ u \in Seq([cfg : Configs, status : Statuses])
           /\ Len(u) = Len(m) /\ DOMAIN u = DOMAIN m
           /\ \A j \in DOMAIN m :
                u[j].status = IF j = i THEN st ELSE m[j].status
<1> DEFINE e == [m[i] EXCEPT !.status = st]
<1>1. DOMAIN m = 1 .. Len(m) /\ m[i] \in [cfg : Configs, status : Statuses]
  BY LenProperties, ElementOfSeq
<1>2. e \in [cfg : Configs, status : Statuses] /\ e.status = st
  BY <1>1
<1>3. [m EXCEPT ![i].status = st] = [m EXCEPT ![i] = e]
  OBVIOUS
<1> HIDE DEF e
<1>4. /\ [m EXCEPT ![i] = e] \in Seq([cfg : Configs, status : Statuses])
      /\ Len([m EXCEPT ![i] = e]) = Len(m)
      /\ \A j \in 1 .. Len(m) : [m EXCEPT ![i] = e][j] = IF j = i THEN e ELSE m[j]
  BY <1>1, <1>2, ExceptSeq
<1>5. DOMAIN [m EXCEPT ![i] = e] = DOMAIN m
  OBVIOUS
<1> QED BY <1>1, <1>2, <1>3, <1>4, <1>5
-----------------------------------------------------------------------------
\* Every statement of the process, and every fault, keeps the invariant.

\* Starting the program and choosing between resuming and rewriting.
LEMMA ChooseStep ==
  ASSUME IndInv, Launch \/ Find \/ Trim \/ Match
  PROVE  IndInv'
<1> USE DEF IndInv, Shape, JournalBounded, PlaceInv, OwnInv, Owned, NoneRunning,
            database, process
<1>1. CASE Launch
  BY <1>1 DEF Launch, NoPlan
<1>2. CASE Find
  <2>1. CASE FindResumable(cfg) = NoPlan
    BY <1>2, <2>1 DEF Find, NoPlan
  <2>2. CASE FindResumable(cfg) # NoPlan
    <3>1. /\ FindResumable(cfg).id = Len(manifest)
          /\ Len(manifest) \in Nat \ {0}
          /\ manifest[Len(manifest)].status = "running"
          /\ journal # {}
      BY <2>2, FindsNewest
    <3>2. Len(manifest) \in DOMAIN manifest
      BY <3>1
    <3> QED BY <1>2, <2>2, <3>1, <3>2 DEF Find
  <2> QED BY <2>1, <2>2
<1>3. CASE Trim
  BY <1>3 DEF Trim
<1>4. CASE Match
  BY <1>4 DEF Match
<1> QED BY <1>1, <1>2, <1>3, <1>4

\* Giving up a run: its status, then its journal.
LEMMA FailStep ==
  ASSUME IndInv, MarkFailed \/ PruneFailed
  PROVE  IndInv'
<1> USE DEF IndInv, Shape, JournalBounded, PlaceInv, OwnInv, Owned, NoneRunning,
            database, process
<1>1. CASE MarkFailed
  <2>1. plan.id \in DOMAIN manifest
    BY <1>1, LenProperties DEF MarkFailed
  <2>2. /\ manifest' \in Seq([cfg : Configs, status : Statuses])
        /\ Len(manifest') = Len(manifest)
        /\ \A i \in DOMAIN manifest' :
             i \in DOMAIN manifest
               /\ manifest'[i].status = IF i = plan.id THEN "failed" ELSE manifest[i].status
    BY <1>1, <2>1, UpdateStatus DEF MarkFailed, Statuses
  <2> QED BY <1>1, <2>1, <2>2 DEF MarkFailed
<1>2. CASE PruneFailed
  BY <1>2 DEF PruneFailed, NoPlan
<1> QED BY <1>1, <1>2

\* Starting a new run.
LEMMA BeginStep ==
  ASSUME IndInv, Supersede \/ Sweep \/ BeginRun \/ DropTable \/ CreateTable
  PROVE  IndInv'
<1> USE DEF IndInv, Shape, JournalBounded, PlaceInv, OwnInv, Owned, NoneRunning,
            database, process
<1>0. DOMAIN manifest = 1 .. Len(manifest) /\ Len(manifest) \in Nat
  BY LenProperties
<1>1. CASE Supersede
  <2>1. /\ manifest' \in Seq([cfg : Configs, status : Statuses])
        /\ Len(manifest') = Len(manifest)
        /\ DOMAIN manifest' = DOMAIN manifest
        /\ \A i \in DOMAIN manifest' : manifest'[i].status # "running"
    <3> DEFINE f(i) == IF manifest[i].status = "running"
                       THEN [manifest[i] EXCEPT !.status = "superseded"]
                       ELSE manifest[i]
    <3>1. manifest' = [i \in 1 .. Len(manifest) |-> f(i)]
      BY <1>0, <1>1 DEF Supersede
    <3>2. \A i \in 1 .. Len(manifest) :
            f(i) \in [cfg : Configs, status : Statuses] /\ f(i).status # "running"
      <4> TAKE i \in 1 .. Len(manifest)
      <4>1. manifest[i] \in [cfg : Configs, status : Statuses]
        BY ElementOfSeq
      <4> QED BY <4>1 DEF Statuses
    <3> HIDE DEF f
    <3>3. manifest' \in Seq([cfg : Configs, status : Statuses])
      BY <1>0, <3>1, <3>2, IsASeq
    <3>4. Len(manifest') = Len(manifest) /\ DOMAIN manifest' = DOMAIN manifest
      BY <1>0, <3>1
    <3> QED BY <1>0, <3>1, <3>2, <3>3, <3>4
  <2> QED BY <1>1, <2>1 DEF Supersede
<1>2. CASE Sweep
  <2>1. \A r \in journal : r.id \in DOMAIN manifest
    BY <1>0, <1>2 DEF Sweep
  <2>2. journal' = {}
    BY <1>2, <2>1 DEF Sweep
  <2> QED BY <1>2, <2>2 DEF Sweep
<1>3. CASE BeginRun
  <2>1. /\ manifest' \in Seq([cfg : Configs, status : Statuses])
        /\ Len(manifest') = Len(manifest) + 1
        /\ \A i \in DOMAIN manifest' : i # Len(manifest') =>
             i \in DOMAIN manifest /\ manifest'[i] = manifest[i]
    BY <1>0, <1>3, AppendProperties DEF BeginRun, Statuses
  <2> QED BY <1>3, <2>1 DEF BeginRun
<1>4. CASE DropTable
  BY <1>4 DEF DropTable
<1>5. CASE CreateTable
  BY <1>5 DEF CreateTable
<1> QED BY <1>1, <1>2, <1>3, <1>4, <1>5

\* Streaming.
LEMMA StreamStep ==
  ASSUME IndInv, VerifySpan \/ Mismatch \/ CopySpan \/ RecordSpan \/ FinishStream
  PROVE  IndInv'
<1> USE DEF IndInv, Shape, JournalBounded, PlaceInv, OwnInv, Owned, NoneRunning,
            database, process
<1>1. CASE VerifySpan
  BY <1>1 DEF VerifySpan
<1>2. CASE Mismatch
  BY <1>2 DEF Mismatch
<1>3. CASE CopySpan
  BY <1>3 DEF CopySpan, IsRow
<1>4. CASE RecordSpan
  BY <1>4 DEF RecordSpan
<1>5. CASE FinishStream
  BY <1>5 DEF FinishStream
<1> QED BY <1>1, <1>2, <1>3, <1>4, <1>5

\* Marking the run complete.
LEMMA FinalStep ==
  ASSUME IndInv, Finalize \/ PruneDone
  PROVE  IndInv'
<1> USE DEF IndInv, Shape, JournalBounded, PlaceInv, OwnInv, Owned, NoneRunning,
            database, process
<1>1. CASE Finalize
  <2>1. CASE FindResumable(cfg) = NoPlan
    BY <1>1, <2>1 DEF Finalize, NoPlan
  <2>2. CASE FindResumable(cfg) # NoPlan
    <3>1. /\ FindResumable(cfg).id = Len(manifest)
          /\ Len(manifest) \in Nat \ {0}
      BY <2>2, FindsNewest
    <3>2. Len(manifest) \in DOMAIN manifest /\ "complete" \in Statuses
      BY <3>1, LenProperties DEF Statuses
    <3>3. /\ manifest' = [manifest EXCEPT ![Len(manifest)].status = "complete"]
          /\ plan' = FindResumable(cfg) /\ pc' = "pruneDone"
          /\ UNCHANGED <<journal, table, cfg>>
      BY <1>1, <2>2, <3>1 DEF Finalize
    <3>4. /\ manifest' \in Seq([cfg : Configs, status : Statuses])
          /\ Len(manifest') = Len(manifest)
          /\ \A i \in DOMAIN manifest' :
               i \in DOMAIN manifest
                 /\ manifest'[i].status = IF i = Len(manifest) THEN "complete"
                                          ELSE manifest[i].status
      BY <3>2, <3>3, UpdateStatus
    <3> QED BY <3>1, <3>2, <3>3, <3>4
  <2> QED BY <2>1, <2>2
<1>2. CASE PruneDone
  BY <1>2 DEF PruneDone
<1> QED BY <1>1, <1>2

\* Kills, server crashes and changes of the table.
LEMMA FaultStep ==
  ASSUME IndInv, Kill \/ ServerCrash \/ Tamper
  PROVE  IndInv'
<1> USE DEF IndInv, Shape, JournalBounded, PlaceInv, OwnInv, Owned, NoneRunning,
            database, process, Down
<1>1. CASE Kill
  BY <1>1 DEF Kill
<1>2. CASE ServerCrash
  BY <1>2 DEF ServerCrash
<1>3. CASE Tamper
  BY <1>3 DEF Tamper, IsRow
<1> QED BY <1>1, <1>2, <1>3

\* The invariant is inductive.
THEOREM SpecIndInv == Spec => []IndInv
<1>1. IndInv /\ [Next]_vars => IndInv'
  <2> SUFFICES ASSUME IndInv, [Next]_vars PROVE IndInv'
    OBVIOUS
  <2>1. CASE Next
    BY <2>1, ChooseStep, FailStep, BeginStep, StreamStep, FinalStep, FaultStep
    DEF Next, Proceed
  <2>2. CASE UNCHANGED vars
    BY <2>2 DEF vars, IndInv, Shape, JournalBounded, PlaceInv, OwnInv, Owned, NoneRunning
  <2> QED BY <2>1, <2>2
<1> QED BY <1>1, InitIndInv, PTL DEF Spec

\* Journal rows never accumulate: whatever statements a crash separates, they
\* all belong to the newest run, and at most that one is in flight.
THEOREM JournalStaysBounded == Spec => []JournalBounded
<1>1. IndInv => JournalBounded
  BY DEF IndInv
<1> QED BY <1>1, SpecIndInv, PTL

\* A crash record is never resumed over another run's rows.
THEOREM ResumeIsOwn == Spec => []ResumesOwnRows
<1>1. IndInv => ResumesOwnRows
  BY DEF IndInv, Shape, PlaceInv, OwnInv, Owned, ResumesOwnRows, Authors
<1> QED BY <1>1, SpecIndInv, PTL
-----------------------------------------------------------------------------
(* The rows of a list of spans, numbered through.                          *)

\* A numbered row: its span and its content.
Entry == [span : Nat, row : Rows]
\* The numbered rows of span k, which holds the rows s.
Tagged(k, s) == [n \in DOMAIN s |-> [span |-> k - 1, row |-> s[n]]]
AllTagged(spans) == [k \in DOMAIN spans |-> Tagged(k, spans[k])]

\* The rows of one span, numbered, are as many as its rows.
LEMMA TaggedType ==
  ASSUME NEW k \in Nat \ {0}, NEW s \in Seq(Rows)
  PROVE  /\ Tagged(k, s) \in Seq(Entry) /\ Len(Tagged(k, s)) = Len(s)
         /\ \A n \in 1 .. Len(s) : Tagged(k, s)[n] = [span |-> k - 1, row |-> s[n]]
<1>1. Len(s) \in Nat /\ DOMAIN s = 1 .. Len(s) /\ \A n \in 1 .. Len(s) : s[n] \in Rows
  BY LenProperties, ElementOfSeq
<1>2. Tagged(k, s) = [n \in 1 .. Len(s) |-> [span |-> k - 1, row |-> s[n]]]
  BY <1>1 DEF Tagged
<1>3. \A n \in 1 .. Len(s) : [span |-> k - 1, row |-> s[n]] \in Entry
  BY <1>1 DEF Entry
<1> QED BY <1>1, <1>2, <1>3

\* Each span is numbered by itself.
LEMMA AllTaggedType ==
  ASSUME NEW J \in Seq(Seq(Rows))
  PROVE  /\ AllTagged(J) \in Seq(Seq(Entry)) /\ Len(AllTagged(J)) = Len(J)
         /\ \A k \in 1 .. Len(J) : AllTagged(J)[k] = Tagged(k, J[k])
<1>1. Len(J) \in Nat /\ DOMAIN J = 1 .. Len(J) /\ \A k \in 1 .. Len(J) : J[k] \in Seq(Rows)
  BY LenProperties, ElementOfSeq
<1>2. AllTagged(J) = [k \in 1 .. Len(J) |-> Tagged(k, J[k])]
  BY <1>1 DEF AllTagged
<1>3. \A k \in 1 .. Len(J) : Tagged(k, J[k]) \in Seq(Entry)
  BY <1>1, TaggedType
<1> QED BY <1>1, <1>2, <1>3

\* Numbered puts the numbered spans one after the other.
LEMMA NumberedIs ==
  ASSUME NEW J PROVE Numbered(J) = FlattenSeq(AllTagged(J))
BY DEF Numbered, AllTagged, Tagged

\* One more span is one more list of numbered rows.
LEMMA AllTaggedAppend ==
  ASSUME NEW J \in Seq(Seq(Rows)), NEW s \in Seq(Rows)
  PROVE  AllTagged(Append(J, s)) = Append(AllTagged(J), Tagged(Len(J) + 1, s))
<1>1. PICK K : K = Append(J, s)
  OBVIOUS
<1>2. /\ K \in Seq(Seq(Rows)) /\ Len(K) = Len(J) + 1 /\ K[Len(J) + 1] = s
      /\ \A k \in 1 .. Len(J) : K[k] = J[k]
  BY <1>1, AppendProperties
<1>3. Len(J) \in Nat
  BY LenProperties
<1>4. PICK A : A = AllTagged(J)
  OBVIOUS
<1>5. /\ A \in Seq(Seq(Entry)) /\ Len(A) = Len(J)
      /\ \A k \in 1 .. Len(J) : A[k] = Tagged(k, J[k])
  BY <1>4, AllTaggedType
<1>6. PICK B : B = AllTagged(K)
  OBVIOUS
<1>7. /\ B \in Seq(Seq(Entry)) /\ Len(B) = Len(K)
      /\ \A k \in 1 .. Len(K) : B[k] = Tagged(k, K[k])
  BY <1>2, <1>6, AllTaggedType
<1>8. PICK e : e = Tagged(Len(J) + 1, s)
  OBVIOUS
<1>9. e \in Seq(Entry)
  BY <1>3, <1>8, TaggedType
<1>10. PICK C : C = Append(A, e)
  OBVIOUS
<1>11. /\ C \in Seq(Seq(Entry)) /\ Len(C) = Len(A) + 1 /\ C[Len(A) + 1] = e
       /\ \A k \in 1 .. Len(A) : C[k] = A[k]
  BY <1>5, <1>9, <1>10, AppendProperties
<1>12. Len(B) = Len(C) /\ Len(B) = Len(J) + 1
  BY <1>2, <1>5, <1>7, <1>11
<1>13. ASSUME NEW k \in 1 .. Len(B) PROVE B[k] = C[k]
  <2>1. CASE k = Len(J) + 1
    <3>1. B[k] = Tagged(Len(J) + 1, s)
      BY <1>2, <1>7, <1>12, <2>1
    <3>2. C[k] = e
      BY <1>5, <1>11, <2>1
    <3> QED BY <1>8, <3>1, <3>2
  <2>2. CASE k # Len(J) + 1
    <3>1. k \in 1 .. Len(J) /\ k \in 1 .. Len(K) /\ k \in 1 .. Len(A)
      BY <1>2, <1>3, <1>5, <1>12, <2>2
    <3>2. B[k] = Tagged(k, K[k]) /\ K[k] = J[k] /\ A[k] = Tagged(k, J[k]) /\ C[k] = A[k]
      BY <1>2, <1>5, <1>7, <1>11, <3>1
    <3> QED BY <3>2
  <2> QED BY <2>1, <2>2
<1>14. B \in Seq(Seq(Entry)) /\ C \in Seq(Seq(Entry))
  BY <1>7, <1>11
<1>15. B = C
  BY <1>12, <1>13, <1>14, SeqEqual
<1> QED BY <1>1, <1>4, <1>6, <1>8, <1>10, <1>15

\* What one more span adds to the numbered rows.
LEMMA OneMoreSpan ==
  ASSUME NEW J \in Seq(Seq(Rows)), NEW s \in Seq(Rows)
  PROVE  /\ RowCount(J) \in Nat /\ RowCount(Append(J, s)) = RowCount(J) + Len(s)
         /\ Numbered(J) \in Seq(Entry)
         /\ Numbered(Append(J, s)) = Numbered(J) \o Tagged(Len(J) + 1, s)
<1>1. FlattenSeq(J) \in Seq(Rows) /\ FlattenSeq(Append(J, s)) = FlattenSeq(J) \o s
  BY FlattenType, FlattenAppend
<1>2. Len(FlattenSeq(J) \o s) = Len(FlattenSeq(J)) + Len(s) /\ Len(FlattenSeq(J)) \in Nat
  BY <1>1, ConcatProperties, LenProperties
<1>3. Len(J) \in Nat
  BY LenProperties
<1>4. PICK e : e = Tagged(Len(J) + 1, s)
  OBVIOUS
<1>5. e \in Seq(Entry)
  BY <1>3, <1>4, TaggedType
<1>6. AllTagged(J) \in Seq(Seq(Entry))
  BY AllTaggedType
<1>7. FlattenSeq(AllTagged(J)) \in Seq(Entry)
  BY <1>6, FlattenType
<1>8. FlattenSeq(Append(AllTagged(J), e)) = FlattenSeq(AllTagged(J)) \o e
  BY <1>5, <1>6, FlattenAppend
<1>9. AllTagged(Append(J, s)) = Append(AllTagged(J), e)
  BY <1>4, AllTaggedAppend
<1>10. Numbered(Append(J, s)) = Numbered(J) \o e
  BY <1>8, <1>9, NumberedIs
<1> QED BY <1>1, <1>2, <1>4, <1>7, <1>10, NumberedIs DEF RowCount

\* The first k spans, and one more.
LEMMA FirstSpans ==
  ASSUME NEW J \in Seq(Seq(Rows))
  PROVE  /\ Len(J) \in Nat /\ SubSeq(J, 1, 0) = << >> /\ SubSeq(J, 1, Len(J)) = J
         /\ \A k \in 0 .. Len(J) : SubSeq(J, 1, k) \in Seq(Seq(Rows)) /\ Len(SubSeq(J, 1, k)) = k
         /\ \A k \in 0 .. Len(J) - 1 : /\ J[k + 1] \in Seq(Rows)
                                       /\ SubSeq(J, 1, k + 1) = Append(SubSeq(J, 1, k), J[k + 1])
<1>1. Len(J) \in Nat /\ \A k \in 1 .. Len(J) : J[k] \in Seq(Rows)
  BY LenProperties, ElementOfSeq
<1>2. SubSeq(J, 1, 0) = << >> /\ SubSeq(J, 1, Len(J)) = J
  BY SubSeqEmpty, SubSeqFull
<1>3. ASSUME NEW k \in 0 .. Len(J)
      PROVE  /\ SubSeq(J, 1, k) \in Seq(Seq(Rows)) /\ Len(SubSeq(J, 1, k)) = k
             /\ \A i \in 1 .. k : SubSeq(J, 1, k)[i] = J[i]
  <2>1. k \in Int /\ \A i \in 1 .. k : J[i] \in Seq(Rows)
    BY <1>1
  <2>2. /\ SubSeq(J, 1, k) \in Seq(Seq(Rows))
        /\ Len(SubSeq(J, 1, k)) = IF 1 <= k THEN k - 1 + 1 ELSE 0
        /\ \A i \in 1 .. k - 1 + 1 : SubSeq(J, 1, k)[i] = J[1 + i - 1]
    BY <2>1, SubSeqProperties
  <2> QED BY <1>1, <2>2
<1>4. ASSUME NEW k \in 0 .. Len(J) - 1
      PROVE  J[k + 1] \in Seq(Rows) /\ SubSeq(J, 1, k + 1) = Append(SubSeq(J, 1, k), J[k + 1])
  <2>1. k \in 0 .. Len(J) /\ k + 1 \in 0 .. Len(J) /\ k + 1 \in 1 .. Len(J)
    BY <1>1
  <2>2. PICK P : P = SubSeq(J, 1, k)
    OBVIOUS
  <2>3. P \in Seq(Seq(Rows)) /\ Len(P) = k /\ \A i \in 1 .. k : P[i] = J[i]
    BY <1>3, <2>1, <2>2
  <2>4. PICK Q : Q = SubSeq(J, 1, k + 1)
    OBVIOUS
  <2>5. Q \in Seq(Seq(Rows)) /\ Len(Q) = k + 1 /\ \A i \in 1 .. k + 1 : Q[i] = J[i]
    BY <1>3, <2>1, <2>4
  <2>6. J[k + 1] \in Seq(Rows)
    BY <1>1, <2>1
  <2>7. PICK R : R = Append(P, J[k + 1])
    OBVIOUS
  <2>8. /\ R \in Seq(Seq(Rows)) /\ Len(R) = k + 1 /\ R[k + 1] = J[k + 1]
        /\ \A i \in 1 .. k : R[i] = P[i]
    BY <2>3, <2>6, <2>7, AppendProperties
  <2>9. \A i \in 1 .. Len(Q) : Q[i] = R[i]
    <3> SUFFICES ASSUME NEW i \in 1 .. k + 1 PROVE Q[i] = R[i]
      BY <2>5
    <3>1. CASE i = k + 1
      BY <2>5, <2>8, <3>1
    <3>2. CASE i \in 1 .. k
      BY <2>3, <2>5, <2>8, <3>2
    <3> QED BY <2>1, <3>1, <3>2
  <2>10. Q = R
    <3>1. Q \in Seq(Seq(Rows)) /\ R \in Seq(Seq(Rows)) /\ Len(Q) = Len(R)
      BY <2>5, <2>8
    <3> QED BY <3>1, <2>9, SeqEqual
  <2> QED BY <2>2, <2>4, <2>6, <2>7, <2>10
<1> QED BY <1>1, <1>2, <1>3, <1>4

\* There are as many numbered rows as rows.
LEMMA NumberedLength ==
  ASSUME NEW J \in Seq(Seq(Rows))
  PROVE  /\ RowCount(J) \in Nat /\ Numbered(J) \in Seq(Entry)
         /\ Len(Numbered(J)) = RowCount(J) /\ DOMAIN Numbered(J) = 1 .. RowCount(J)
<1> DEFINE Good(k) == Len(Numbered(SubSeq(J, 1, k))) = RowCount(SubSeq(J, 1, k))
           S == {k \in 0 .. Len(J) : Good(k)}
<1>1. Good(0)
  <2>1. Numbered(<< >>) = << >>
    BY DEF Numbered, FlattenSeq
  <2>2. RowCount(<< >>) = 0
    BY DEF RowCount, FlattenSeq
  <2>3. SubSeq(J, 1, 0) = << >> /\ Len(<< >>) = 0
    BY FirstSpans
  <2>4. Len(Numbered(SubSeq(J, 1, 0))) = 0 /\ RowCount(SubSeq(J, 1, 0)) = 0
    BY <2>1, <2>2, <2>3, Zenon
  <2> QED BY <2>4
<1>2. ASSUME NEW k \in 0 .. Len(J) - 1, Good(k) PROVE Good(k + 1)
  <2>1. PICK P : P = SubSeq(J, 1, k)
    OBVIOUS
  <2>2. PICK s : s = J[k + 1]
    OBVIOUS
  <2>3. P \in Seq(Seq(Rows)) /\ Len(P) = k /\ s \in Seq(Rows) /\ SubSeq(J, 1, k + 1) = Append(P, s)
    BY <2>1, <2>2, FirstSpans
  <2>4. PICK e : e = Tagged(Len(P) + 1, s)
    OBVIOUS
  <2>5. e \in Seq(Entry) /\ Len(e) = Len(s)
    BY <2>3, <2>4, TaggedType
  <2>6. /\ RowCount(Append(P, s)) = RowCount(P) + Len(s)
        /\ Numbered(P) \in Seq(Entry)
        /\ Numbered(Append(P, s)) = Numbered(P) \o e
    BY <2>3, <2>4, OneMoreSpan
  <2>7. Len(Numbered(P) \o e) = Len(Numbered(P)) + Len(e)
    BY <2>5, <2>6, ConcatProperties
  <2> QED BY <1>2, <2>1, <2>3, <2>5, <2>6, <2>7
<1> HIDE DEF Good
<1>3. 0 \in S
  BY <1>1, FirstSpans
<1>4. \A k \in 0 .. Len(J) - 1 : k \in S => k + 1 \in S
  BY <1>2, FirstSpans
<1> HIDE DEF S
<1>5. 0 .. Len(J) \subseteq S
  BY <1>3, <1>4, FirstSpans, BoundedInduction
<1>6. Good(Len(J))
  BY <1>5, FirstSpans DEF S
<1>7. Len(Numbered(J)) = RowCount(J)
  BY <1>6, FirstSpans DEF Good
<1>8. RowCount(J) \in Nat
  <2>1. FlattenSeq(J) \in Seq(Rows)
    BY FlattenType
  <2> QED BY <2>1, LenProperties DEF RowCount
<1>9. Numbered(J) \in Seq(Entry)
  <2>1. AllTagged(J) \in Seq(Seq(Entry))
    BY AllTaggedType
  <2> QED BY <2>1, FlattenType, NumberedIs
<1>10. DOMAIN Numbered(J) = 1 .. Len(Numbered(J))
  BY <1>9, LenProperties
<1> QED BY <1>7, <1>8, <1>9, <1>10

\* One more span keeps the numbers of the rows before it and continues them.
LEMMA NumberedAppend ==
  ASSUME NEW J \in Seq(Seq(Rows)), NEW s \in Seq(Rows)
  PROVE  /\ RowCount(J) \in Nat /\ Len(s) \in Nat
         /\ RowCount(Append(J, s)) = RowCount(J) + Len(s)
         /\ \A i \in 1 .. RowCount(J) : Numbered(Append(J, s))[i] = Numbered(J)[i]
         /\ \A n \in 1 .. Len(s) :
              Numbered(Append(J, s))[RowCount(J) + n] = [span |-> Len(J), row |-> s[n]]
<1>1. Len(J) \in Nat /\ Len(s) \in Nat
  BY LenProperties
<1>2. PICK e : e = Tagged(Len(J) + 1, s)
  OBVIOUS
<1>3. /\ e \in Seq(Entry) /\ Len(e) = Len(s)
      /\ \A n \in 1 .. Len(s) : e[n] = [span |-> Len(J) + 1 - 1, row |-> s[n]]
  BY <1>1, <1>2, TaggedType
<1>4. PICK f : f = Numbered(J)
  OBVIOUS
<1>5. f \in Seq(Entry) /\ Len(f) = RowCount(J) /\ RowCount(J) \in Nat
  BY <1>4, NumberedLength
<1>6. /\ RowCount(Append(J, s)) = RowCount(J) + Len(s)
      /\ Numbered(Append(J, s)) = f \o e
  BY <1>2, <1>4, OneMoreSpan
<1>7. \A i \in 1 .. Len(f) + Len(e) : (f \o e)[i] = IF i <= Len(f) THEN f[i] ELSE e[i - Len(f)]
  BY <1>3, <1>5, ConcatProperties
<1>8. \A i \in 1 .. RowCount(J) : (f \o e)[i] = f[i]
  BY <1>1, <1>3, <1>5, <1>7
<1>9. ASSUME NEW n \in 1 .. Len(s) PROVE (f \o e)[RowCount(J) + n] = [span |-> Len(J), row |-> s[n]]
  <2>1. PICK i : i = RowCount(J) + n
    OBVIOUS
  <2>2. i \in 1 .. Len(f) + Len(e) /\ ~(i <= Len(f)) /\ i - Len(f) = n
    BY <1>1, <1>3, <1>5, <2>1
  <2>3. (f \o e)[i] = e[n]
    BY <1>7, <2>2
  <2>4. e[n] = [span |-> Len(J), row |-> s[n]]
    <3>1. Len(J) + 1 - 1 = Len(J)
      BY <1>1
    <3> QED BY <1>3, <3>1
  <2> QED BY <2>1, <2>3, <2>4
<1> QED BY <1>1, <1>4, <1>5, <1>6, <1>8, <1>9

\* The first k spans hold the first rows, numbered as in the whole.
FirstRows(J, k, m) ==
  /\ RowCount(SubSeq(J, 1, k)) <= RowCount(SubSeq(J, 1, m))
  /\ \A i \in 1 .. RowCount(SubSeq(J, 1, k)) :
       Numbered(SubSeq(J, 1, k))[i] = Numbered(SubSeq(J, 1, m))[i]

\* The rows of a prefix are numbered as in the whole list.
LEMMA NumberedPrefix ==
  ASSUME NEW J \in Seq(Seq(Rows)), NEW k \in 0 .. Len(J)
  PROVE  /\ RowCount(SubSeq(J, 1, k)) \in Nat /\ RowCount(SubSeq(J, 1, k)) <= RowCount(J)
         /\ \A i \in 1 .. RowCount(SubSeq(J, 1, k)) : Numbered(SubSeq(J, 1, k))[i] = Numbered(J)[i]
<1>1. Len(J) \in Nat /\ SubSeq(J, 1, Len(J)) = J
  BY FirstSpans
<1>2. \A m \in 0 .. Len(J) : SubSeq(J, 1, m) \in Seq(Seq(Rows)) /\ RowCount(SubSeq(J, 1, m)) \in Nat
  BY FirstSpans, NumberedLength
<1> DEFINE S == {m \in 0 .. Len(J) : k <= m => FirstRows(J, k, m)}
<1>3. FirstRows(J, k, k)
  BY <1>2 DEF FirstRows
<1>4. 0 \in S
  BY <1>1, <1>3
<1>5. ASSUME NEW m \in 0 .. Len(J) - 1, m \in S PROVE m + 1 \in S
  <2>1. m \in 0 .. Len(J) /\ m + 1 \in 0 .. Len(J)
    BY <1>1
  <2> SUFFICES ASSUME k <= m + 1 PROVE FirstRows(J, k, m + 1)
    BY <2>1
  <2>2. CASE k = m + 1
    BY <1>3, <2>2
  <2>3. CASE k # m + 1
    <3>1. k <= m
      BY <1>1, <2>1, <2>3
    <3>2. FirstRows(J, k, m)
      BY <1>5, <3>1
    <3>3. PICK P : P = SubSeq(J, 1, m)
      OBVIOUS
    <3>4. PICK s : s = J[m + 1]
      OBVIOUS
    <3>5. P \in Seq(Seq(Rows)) /\ s \in Seq(Rows) /\ SubSeq(J, 1, m + 1) = Append(P, s)
      BY <2>1, <3>3, <3>4, FirstSpans
    <3>6. /\ RowCount(P) \in Nat /\ Len(s) \in Nat
          /\ RowCount(Append(P, s)) = RowCount(P) + Len(s)
          /\ \A i \in 1 .. RowCount(P) : Numbered(Append(P, s))[i] = Numbered(P)[i]
      BY <3>5, NumberedAppend
    <3>7. PICK K : K = SubSeq(J, 1, k)
      OBVIOUS
    <3>8. RowCount(K) \in Nat
      BY <1>2, <3>7
    <3>9. RowCount(K) <= RowCount(P) /\ \A i \in 1 .. RowCount(K) : Numbered(K)[i] = Numbered(P)[i]
      BY <3>2, <3>3, <3>7 DEF FirstRows
    <3>10. RowCount(K) <= RowCount(Append(P, s))
      BY <3>6, <3>8, <3>9
    <3>11. \A i \in 1 .. RowCount(K) : Numbered(K)[i] = Numbered(Append(P, s))[i]
      BY <3>6, <3>8, <3>9
    <3> QED BY <3>5, <3>7, <3>10, <3>11 DEF FirstRows
  <2> QED BY <2>2, <2>3
<1> HIDE DEF S
<1>6. 0 .. Len(J) \subseteq S
  BY <1>1, <1>4, <1>5, BoundedInduction
<1>7. FirstRows(J, k, Len(J))
  <2>1. Len(J) \in S /\ k <= Len(J)
    BY <1>1, <1>6
  <2> QED BY <2>1 DEF S
<1> QED BY <1>1, <1>2, <1>7 DEF FirstRows
-----------------------------------------------------------------------------
(* Tables that hold numbered rows, and journals that list spans.           *)

\* The rows of t are numbered 1 .. n, no number twice.
Ordered(t, n) ==
  /\ \A r \in t : r.seq \in 1 .. n
  /\ \A i \in 1 .. n : \E r \in t : r.seq = i
  /\ \A r, x \in t : r.seq = x.seq => r = x

\* The rows of t with number i, and that there is one, of a span and with a content.
RowsAt(t, i) == {r \in t : r.seq = i}
HoldsAt(t, i, e) ==
  /\ \E r \in t : r.seq = i /\ r.span = e.span /\ r.row = e.row
  /\ Cardinality(RowsAt(t, i)) = 1

\* Exactly one row has a given number.
LEMMA OrderedOne ==
  ASSUME NEW n \in Nat, NEW t, Ordered(t, n), NEW i \in 1 .. n
  PROVE  \E r \in t : r.seq = i /\ RowsAt(t, i) = {r} /\ Cardinality(RowsAt(t, i)) = 1
<1>1. PICK r \in t : r.seq = i
  BY DEF Ordered
<1>2. RowsAt(t, i) = {r}
  BY <1>1 DEF Ordered, RowsAt
<1>3. Cardinality({r}) = 1
  BY FS_Singleton
<1> QED BY <1>1, <1>2, <1>3

\* HoldsPrefix, one number at a time.
LEMMA HoldsIs ==
  ASSUME NEW J \in Seq(Seq(Rows)), NEW t
  PROVE  HoldsPrefix(t, J) <=> \A i \in 1 .. RowCount(J) : HoldsAt(t, i, Numbered(J)[i])
<1>1. DOMAIN Numbered(J) = 1 .. RowCount(J)
  BY NumberedLength
<1>2. PICK f : f = Numbered(J)
  OBVIOUS
<1>3. HoldsPrefix(t, J) <=> \A i \in DOMAIN f : HoldsAt(t, i, f[i])
  BY <1>2 DEF HoldsPrefix, HoldsAt, RowsAt
<1> QED BY <1>1, <1>2, <1>3

\* There are n of them.
LEMMA OrderedCount ==
  ASSUME NEW n \in Nat, NEW t, Ordered(t, n)
  PROVE  IsFiniteSet(t) /\ Cardinality(t) = n
<1> DEFINE f == [r \in t |-> r.seq]
<1>1. f \in Bijection(t, 1 .. n)
  <2>1. f \in [t -> 1 .. n]
    BY DEF Ordered
  <2>2. f \in Surjection(t, 1 .. n)
    BY <2>1 DEF Ordered, Surjection
  <2>3. f \in Injection(t, 1 .. n)
    BY <2>1 DEF Ordered, Injection, IsInjective
  <2> QED BY <2>2, <2>3 DEF Bijection
<1> HIDE DEF f
<1>2. IsFiniteSet(1 .. n) /\ Cardinality(1 .. n) = n
  BY FS_Interval
<1>3. ExistsBijection(1 .. n, t)
  <2>1. ExistsBijection(t, 1 .. n)
    BY <1>1 DEF ExistsBijection
  <2> QED BY <2>1, Fun_ExistsBijSymmetric
<1> QED BY <1>2, <1>3, FS_Bijection

\* A span of m rows continues the numbers.
LEMMA OrderedAdd ==
  ASSUME NEW n \in Nat, NEW m \in Nat, NEW t, NEW u, Ordered(t, n),
         \A r \in u : r.seq \in n + 1 .. n + m,
         \A i \in 1 .. m : \E r \in u : r.seq = n + i,
         \A r, x \in u : r.seq = x.seq => r = x
  PROVE  Ordered(t \cup u, n + m)
<1>1. \A r \in t \cup u : r.seq \in 1 .. n + m
  BY DEF Ordered
<1>2. ASSUME NEW i \in 1 .. n + m PROVE \E r \in t \cup u : r.seq = i
  <2>1. CASE i \in 1 .. n
    BY <2>1 DEF Ordered
  <2>2. CASE i \notin 1 .. n
    <3>1. i - n \in 1 .. m /\ n + (i - n) = i
      BY <2>2
    <3>2. PICK r \in u : r.seq = n + (i - n)
      BY <3>1
    <3> QED BY <3>1, <3>2
  <2> QED BY <2>1, <2>2
<1>3. ASSUME NEW r \in t \cup u, NEW x \in t \cup u, r.seq = x.seq PROVE r = x
  <2>1. \A a \in t, b \in u : a.seq # b.seq
    <3>1. \A a \in t : a.seq \in 1 .. n
      BY DEF Ordered
    <3> QED BY <3>1
  <2> QED BY <1>3, <2>1 DEF Ordered
<1> QED BY <1>1, <1>2, <1>3 DEF Ordered

\* What the queries of prepareResume establish.
LEMMA MatchesOrdered ==
  ASSUME NEW spans, RowCount(spans) \in Nat, table \in SUBSET TableRow, IsFiniteSet(table),
         Matches(spans)
  PROVE  Ordered(table, RowCount(spans))
<1> DEFINE n == RowCount(spans)
           seqs == {r.seq : r \in table}
           f == [r \in table |-> r.seq]
<1>1. /\ Cardinality(table) = n /\ Cardinality(seqs) = n
      /\ \A s \in seqs : s <= n
  BY DEF Matches
<1>2. \A r \in table : r.seq \in Nat \ {0}
  BY DEF TableRow
<1>3. seqs \in SUBSET (1 .. n)
  BY <1>1, <1>2
<1>4. IsFiniteSet(1 .. n) /\ Cardinality(1 .. n) = n
  BY FS_Interval
<1>5. seqs = 1 .. n
  <2> HIDE DEF seqs, n
  <2> QED BY <1>1, <1>3, <1>4, FS_Subset
<1>6. \A r \in table : r.seq \in 1 .. n
  BY <1>5
<1>7. \A i \in 1 .. n : \E r \in table : r.seq = i
  BY <1>5
<1>8. f \in Surjection(table, 1 .. n)
  BY <1>6, <1>7 DEF Surjection
<1>9. f \in Injection(table, 1 .. n)
  <2> HIDE DEF f, n, seqs
  <2> QED BY <1>1, <1>4, <1>8, FS_SurjSameCardinalityImpliesInj
<1>10. \A r, x \in table : r.seq = x.seq => r = x
  <2> SUFFICES ASSUME NEW r \in table, NEW x \in table, r.seq = x.seq PROVE r = x
    OBVIOUS
  <2>1. f[r] = f[x]
    OBVIOUS
  <2>2. \A a, b \in table : f[a] = f[b] => a = b
    <3> HIDE DEF f
    <3> QED BY <1>9 DEF Injection, IsInjective
  <2> QED BY <2>1, <2>2
<1> QED BY <1>6, <1>7, <1>10 DEF Ordered
-----------------------------------------------------------------------------
\* Whether t holds a prefix depends only on its rows with those numbers.
LEMMA KeepsPrefix ==
  ASSUME NEW J \in Seq(Seq(Rows)), NEW t, NEW u, HoldsPrefix(t, J),
         \A i \in 1 .. RowCount(J) : RowsAt(t, i) = RowsAt(u, i)
  PROVE  HoldsPrefix(u, J)
<1> SUFFICES ASSUME NEW i \in 1 .. RowCount(J) PROVE HoldsAt(u, i, Numbered(J)[i])
  BY HoldsIs
<1>1. HoldsAt(t, i, Numbered(J)[i])
  BY HoldsIs
<1>2. \A r : r \in t /\ r.seq = i <=> r \in u /\ r.seq = i
  BY DEF RowsAt
<1> QED BY <1>1, <1>2 DEF HoldsAt

\* Without rows there is nothing to hold.
LEMMA HoldsNothing ==
  ASSUME NEW J \in Seq(Seq(Rows)), NEW t, RowCount(J) = 0
  PROVE  HoldsPrefix(t, J)
BY HoldsIs

\* A table that is numbered and whose rows are those of J holds J.
LEMMA HoldsAll ==
  ASSUME NEW J \in Seq(Seq(Rows)), NEW n \in Nat, NEW t, Ordered(t, n), RowCount(J) <= n,
         \A r \in t : r.seq <= RowCount(J) =>
           r.span = Numbered(J)[r.seq].span /\ r.row = Numbered(J)[r.seq].row
  PROVE  HoldsPrefix(t, J)
<1> SUFFICES ASSUME NEW i \in 1 .. RowCount(J) PROVE HoldsAt(t, i, Numbered(J)[i])
  BY HoldsIs
<1>1. RowCount(J) \in Nat
  BY NumberedLength
<1>2. i \in 1 .. n /\ i <= RowCount(J)
  BY <1>1
<1>3. PICK r \in t : r.seq = i /\ RowsAt(t, i) = {r} /\ Cardinality(RowsAt(t, i)) = 1
  BY <1>2, OrderedOne
<1>4. r.span = Numbered(J)[i].span /\ r.row = Numbered(J)[i].row
  BY <1>2, <1>3
<1> QED BY <1>3, <1>4 DEF HoldsAt

\* The table after the COPY of a span whose journal row is written: the rows
\* of the spans before are where they were, and the new ones follow them.
LEMMA HoldsOneMore ==
  ASSUME NEW J \in Seq(Seq(Rows)), NEW s \in Seq(Rows), NEW t,
         Ordered(t, RowCount(J) + Len(s)), HoldsPrefix(t, J),
         \A r \in t : r.seq > RowCount(J) =>
           r.span = Len(J) /\ r.row = s[r.seq - RowCount(J)]
  PROVE  HoldsPrefix(t, Append(J, s))
<1>1. PICK K : K = Append(J, s)
  OBVIOUS
<1>2. PICK n : n = RowCount(J)
  OBVIOUS
<1>3. K \in Seq(Seq(Rows))
  BY <1>1, AppendProperties
<1>4. /\ n \in Nat /\ Len(s) \in Nat /\ RowCount(K) = n + Len(s)
      /\ \A i \in 1 .. n : Numbered(K)[i] = Numbered(J)[i]
      /\ \A m \in 1 .. Len(s) : Numbered(K)[n + m] = [span |-> Len(J), row |-> s[m]]
  BY <1>1, <1>2, NumberedAppend
<1>5. ASSUME NEW i \in 1 .. n + Len(s) PROVE HoldsAt(t, i, Numbered(K)[i])
  <2>1. CASE i \in 1 .. n
    <3>1. Numbered(K)[i] = Numbered(J)[i]
      BY <1>4, <2>1
    <3>2. HoldsAt(t, i, Numbered(J)[i])
      BY <1>2, <2>1, HoldsIs
    <3> QED BY <3>1, <3>2
  <2>2. CASE i \notin 1 .. n
    <3>1. PICK N \in Nat : N = n + Len(s) /\ Ordered(t, N) /\ i \in 1 .. N
      BY <1>2, <1>4
    <3>2. PICK r \in t : r.seq = i /\ RowsAt(t, i) = {r} /\ Cardinality(RowsAt(t, i)) = 1
      BY <3>1, OrderedOne
    <3>3. PICK m : m = i - n
      OBVIOUS
    <3>4. m \in 1 .. Len(s) /\ n + m = i /\ i > n
      BY <1>4, <2>2, <3>3
    <3>5. Numbered(K)[i] = [span |-> Len(J), row |-> s[m]]
      BY <1>4, <3>4
    <3>6. r.span = Len(J) /\ r.row = s[m]
      BY <1>2, <3>2, <3>3, <3>4
    <3> QED BY <3>2, <3>5, <3>6 DEF HoldsAt
  <2> QED BY <2>1, <2>2
<1>6. HoldsPrefix(t, K)
  <2>1. \A i \in 1 .. RowCount(K) : HoldsAt(t, i, Numbered(K)[i])
    BY <1>4, <1>5
  <2> QED BY <1>3, <2>1, HoldsIs
<1> QED BY <1>1, <1>6
-----------------------------------------------------------------------------
\* The journal of run id that lists the spans J, and the list it is read as.
Records(id, J) == {[id |-> id, index |-> k - 1, digest |-> J[k]] : k \in 1 .. Len(J)}
SpansIn(jr, id) ==
  LET recs == {r \in jr : r.id = id}
  IN  [k \in 1 .. Cardinality(recs) |-> (CHOOSE r \in recs : r.index = k - 1).digest]

\* What a journal lists is what was recorded in it.
LEMMA ReadsBack ==
  ASSUME NEW id, NEW J \in Seq(Seq(Rows))
  PROVE  SpansIn(Records(id, J), id) = J
<1> DEFINE jr == Records(id, J)
           rec(k) == [id |-> id, index |-> k - 1, digest |-> J[k]]
           f == [k \in 1 .. Len(J) |-> rec(k)]
<1>1. Len(J) \in Nat /\ J = [k \in 1 .. Len(J) |-> J[k]]
  BY LenProperties
<1>2. {r \in jr : r.id = id} = jr
  BY DEF Records
<1>3. f \in Bijection(1 .. Len(J), jr)
  <2>1. f \in [1 .. Len(J) -> jr]
    BY DEF Records
  <2>2. \A r \in jr : \E k \in 1 .. Len(J) : f[k] = r
    BY DEF Records
  <2>3. \A k, m \in 1 .. Len(J) : f[k] = f[m] => k = m
    <3> SUFFICES ASSUME NEW k \in 1 .. Len(J), NEW m \in 1 .. Len(J), f[k] = f[m] PROVE k = m
      OBVIOUS
    <3>1. f[k].index = k - 1 /\ f[m].index = m - 1
      OBVIOUS
    <3>2. k - 1 = m - 1
      BY <3>1
    <3> QED BY <1>1, <3>2
  <2>4. DOMAIN f = 1 .. Len(J)
    OBVIOUS
  <2> HIDE DEF f, jr
  <2>5. f \in Surjection(1 .. Len(J), jr)
    BY <2>1, <2>2 DEF Surjection
  <2>6. f \in Injection(1 .. Len(J), jr)
    BY <2>1, <2>3, <2>4 DEF Injection, IsInjective
  <2> QED BY <2>5, <2>6 DEF Bijection
<1>4. Cardinality(jr) = Len(J)
  <2>1. IsFiniteSet(1 .. Len(J)) /\ Cardinality(1 .. Len(J)) = Len(J)
    <3>1. PICK n \in Nat : n = Len(J)
      BY <1>1
    <3>2. IsFiniteSet(1 .. n) /\ Cardinality(1 .. n) = n
      BY FS_Interval
    <3> QED BY <3>1, <3>2
  <2>2. ExistsBijection(1 .. Len(J), jr)
    BY <1>3 DEF ExistsBijection
  <2> HIDE DEF jr, f
  <2> QED BY <2>1, <2>2, FS_Bijection
<1>5. ASSUME NEW k \in 1 .. Len(J) PROVE (CHOOSE r \in jr : r.index = k - 1).digest = J[k]
  <2>1. rec(k) \in jr /\ rec(k).index = k - 1
    BY DEF Records
  <2>2. ASSUME NEW r \in jr, r.index = k - 1 PROVE r = rec(k)
    <3>1. PICK m \in 1 .. Len(J) : r = rec(m)
      BY DEF Records
    <3>2. m - 1 = k - 1
      BY <2>2, <3>1
    <3>3. m = k
      BY <1>1, <3>2
    <3> QED BY <3>1, <3>3
  <2>3. PICK c : c = CHOOSE r \in jr : r.index = k - 1
    OBVIOUS
  <2>4. c \in jr /\ c.index = k - 1
    <3> HIDE DEF jr, rec
    <3>1. \E r \in jr : r.index = k - 1
      BY <2>1
    <3> QED BY <2>3, <3>1
  <2>5. c = rec(k)
    <3> HIDE DEF jr, rec
    <3> QED BY <2>2, <2>4
  <2>6. c.digest = J[k]
    BY <2>5
  <2> HIDE DEF jr, rec
  <2> QED BY <2>3, <2>6
<1>6. SpansIn(jr, id) = [k \in 1 .. Len(J) |-> (CHOOSE r \in jr : r.index = k - 1).digest]
  <2>1. PICK u : u = jr
    OBVIOUS
  <2>2. SpansIn(u, id) =
          LET recs == {r \in u : r.id = id}
          IN  [k \in 1 .. Cardinality(recs) |-> (CHOOSE r \in recs : r.index = k - 1).digest]
    BY DEF SpansIn
  <2>3. {r \in u : r.id = id} = u /\ Cardinality(u) = Len(J)
    BY <1>2, <1>4, <2>1
  <2>4. SpansIn(u, id) = [k \in 1 .. Len(J) |-> (CHOOSE r \in u : r.index = k - 1).digest]
    BY <2>2, <2>3
  <2> QED BY <2>1, <2>4
<1>7. [k \in 1 .. Len(J) |-> (CHOOSE r \in jr : r.index = k - 1).digest] = [k \in 1 .. Len(J) |-> J[k]]
  BY <1>5
<1> QED BY <1>1, <1>6, <1>7

\* recordSpan.
LEMMA OneMoreRecord ==
  ASSUME NEW id, NEW J \in Seq(Seq(Rows)), NEW s \in Seq(Rows)
  PROVE  Records(id, Append(J, s)) =
           Records(id, J) \cup {[id |-> id, index |-> Len(J), digest |-> s]}
<1>1. PICK K : K = Append(J, s)
  OBVIOUS
<1>2. /\ Len(K) = Len(J) + 1 /\ K[Len(J) + 1] = s /\ \A k \in 1 .. Len(J) : K[k] = J[k]
      /\ Len(J) \in Nat
  BY <1>1, AppendProperties, LenProperties
<1> DEFINE rec(X, k) == [id |-> id, index |-> k - 1, digest |-> X[k]]
<1>3. \A k \in 1 .. Len(J) : rec(K, k) = rec(J, k)
  BY <1>2
<1>4. rec(K, Len(J) + 1) = [id |-> id, index |-> Len(J), digest |-> s]
  <2>1. Len(J) + 1 - 1 = Len(J)
    BY <1>2
  <2> QED BY <1>2, <2>1
<1>5. 1 .. Len(K) = 1 .. Len(J) \cup {Len(J) + 1}
  BY <1>2
<1>6. Records(id, K) = {rec(K, k) : k \in 1 .. Len(K)} /\ Records(id, J) = {rec(J, k) : k \in 1 .. Len(J)}
  BY DEF Records
<1> HIDE DEF rec
<1>7. Records(id, K) = Records(id, J) \cup {rec(K, Len(J) + 1)}
  <2>1. {rec(K, k) : k \in 1 .. Len(K)} = {rec(K, k) : k \in 1 .. Len(J)} \cup {rec(K, Len(J) + 1)}
    BY <1>5, Zenon
  <2>2. {rec(K, k) : k \in 1 .. Len(J)} = {rec(J, k) : k \in 1 .. Len(J)}
    BY <1>3, Zenon
  <2> QED BY <1>6, <2>1, <2>2, Zenon
<1> QED BY <1>1, <1>4, <1>7
-----------------------------------------------------------------------------
(* The second invariant: what the journal lists is what was streamed.      *)

\* The spans that the journal lists for the newest run, and whether that run is
\* in flight.
Journaled == JournaledSpans(Len(manifest))
Running == Len(manifest) # 0 /\ manifest[Len(manifest)].status = "running"

\* The statements before the first span.
Deciding == {"find", "trim", "match", "fail", "pruneFailed", "supersede", "sweep", "begin"}
Starting == Deciding \cup {"drop", "create"}

\* There is room for the run that a starting process will insert.
ManifestRoom ==
  /\ Len(manifest) <= MaxRuns
  /\ pc \in Deciding => Len(manifest) < MaxRuns

ProcessTypes ==
  /\ pc \in Down \cup Starting \cup {"stream", "record", "finalize", "pruneDone"}
  /\ cfg \in Configs /\ build \in Builds
  /\ plan.id \in 0 .. MaxRuns /\ plan.spans \in Seq(Seq(Rows))
  /\ runId \in 0 .. MaxRuns /\ span \in 0 .. Len(Spans) /\ rows \in Nat
  /\ pc \in Starting => span = 0 /\ rows = 0

\* The journal lists the spans of the newest run from the first one on.
JournalForm ==
  /\ Journaled \in Seq(Seq(Rows))
  /\ journal = Records(Len(manifest), Journaled)

TableForm ==
  /\ table # Absent => table \in SUBSET TableRow /\ IsFiniteSet(table)
  /\ pc \in {"match", "stream", "record"} => table # Absent

\* What the process knows of the journal: its plan is the list, or the first part
\* of it, and the spans it has streamed are those of the list.
PlanForm ==
  /\ pc \in {"trim", "match"} => plan.spans = Journaled
  /\ pc \in {"stream", "record"} =>
       /\ Len(plan.spans) <= Len(Journaled)
       /\ \A k \in 1 .. Len(plan.spans) : plan.spans[k] = Journaled[k]
       /\ span <= Len(Journaled)
       /\ \A k \in 1 .. span : Journaled[k] = Spans[k]
       /\ span < Len(Journaled) => Len(Journaled) = Len(plan.spans)
  /\ pc = "stream" => rows = RowCount(Journaled)
  /\ pc = "record" => /\ Len(Journaled) = span /\ span < Len(Spans)
                      /\ rows = RowCount(Journaled) + Len(Spans[span + 1])

\* The committed rows, unless the table was changed by something else.
Durable == Running /\ Len(manifest) \notin changed => HoldsPrefix(table, Journaled)

\* No change of the table moves a row to another span.
Placed ==
  table # Absent =>
    \A r \in table : r.seq <= RowCount(Journaled) => r.span = Numbered(Journaled)[r.seq].span

\* While the process streams, the rows are numbered without gap, those of the
\* spans streamed so far are verified or copied, and at most one span, already
\* copied, is not journaled yet.
Verified ==
  \A r \in table : r.seq <= RowCount(SubSeq(Journaled, 1, span)) =>
                     r.row = Numbered(Journaled)[r.seq].row
Copied ==
  \A r \in table : r.seq > RowCount(Journaled) =>
                     r.span = span /\ r.row = Spans[span + 1][r.seq - RowCount(Journaled)]
StreamForm ==
  /\ pc \in {"stream", "record"} => Ordered(table, rows) /\ Verified
  /\ pc = "record" => Copied

DurableInv ==
  /\ ManifestRoom /\ ProcessTypes /\ JournalForm /\ TableForm /\ PlanForm
  /\ Durable /\ Placed /\ StreamForm
-----------------------------------------------------------------------------
\* A stream is a list of spans, each a list of rows.
LEMMA StreamTypes ==
  ASSUME cfg \in Configs, build \in Builds
  PROVE  /\ Spans \in Seq(Seq(Rows)) /\ Len(Spans) \in Nat
         /\ \A k \in 1 .. Len(Spans) : Spans[k] \in Seq(Rows) /\ Len(Spans[k]) \in Nat
<1>1. Spans \in Seq(Seq(Rows))
  BY StreamAssumption DEF Spans
<1>2. Len(Spans) \in Nat /\ \A k \in 1 .. Len(Spans) : Spans[k] \in Seq(Rows)
  BY <1>1, LenProperties, ElementOfSeq
<1>3. \A k \in 1 .. Len(Spans) : Len(Spans[k]) \in Nat
  BY <1>2, LenProperties
<1> QED BY <1>1, <1>2, <1>3

\* Only a new run makes the manifest longer.
LEMMA SameLength ==
  ASSUME IndInv, IndInv', [Next]_vars
  PROVE  /\ ~BeginRun => Len(manifest') = Len(manifest)
         /\ BeginRun => Len(manifest') = Len(manifest) + 1
         /\ Len(manifest) \in Nat /\ Len(manifest') \in Nat
<1>1. /\ Len(manifest) \in Nat /\ Len(manifest') \in Nat
      /\ DOMAIN manifest = 1 .. Len(manifest) /\ DOMAIN manifest' = 1 .. Len(manifest')
  BY LenProperties DEF IndInv, Shape
<1>2. ASSUME BeginRun PROVE Len(manifest') = Len(manifest) + 1
  <2>1. [cfg |-> cfg, status |-> "running"] \in [cfg : Configs, status : Statuses]
    BY DEF IndInv, Shape, Statuses
  <2> QED BY <1>2, <2>1, AppendProperties DEF BeginRun, IndInv, Shape
<1>3. ASSUME ~BeginRun PROVE Len(manifest') = Len(manifest)
  <2>1. DOMAIN manifest' = DOMAIN manifest
    <3>1. CASE MarkFailed
      BY <3>1 DEF MarkFailed
    <3>2. CASE Supersede
      BY <3>2 DEF Supersede
    <3>3. CASE Finalize
      BY <3>3 DEF Finalize
    <3>4. CASE UNCHANGED manifest
      BY <3>4
    <3> QED BY <1>3, <3>1, <3>2, <3>3, <3>4
        DEF Next, Proceed, vars, database, Launch, Find, Trim, Match, PruneFailed, Sweep,
            DropTable, CreateTable, VerifySpan, Mismatch, CopySpan, RecordSpan, FinishStream,
            PruneDone, Kill, ServerCrash, Tamper
  <2>2. 1 .. Len(manifest') = 1 .. Len(manifest)
    BY <1>1, <2>1
  <2>3. \A a, b \in Nat : 1 .. a = 1 .. b => a = b
    <3> TAKE a, b \in Nat
    <3> HAVE 1 .. a = 1 .. b
    <3>1. a <= b
      <4>1. CASE a = 0
        BY <4>1
      <4>2. CASE a # 0
        <5>1. a \in 1 .. a
          BY <4>2
        <5> QED BY <5>1
      <4> QED BY <4>1, <4>2
    <3>2. b <= a
      <4>1. CASE b = 0
        BY <4>1
      <4>2. CASE b # 0
        <5>1. b \in 1 .. b
          BY <4>2
        <5> QED BY <5>1
      <4> QED BY <4>1, <4>2
    <3> QED BY <3>1, <3>2
  <2> QED BY <1>1, <2>2, <2>3
<1> QED BY <1>1, <1>2, <1>3

\* What findResumable finds is the journal.
LEMMA FindsJournal ==
  ASSUME IndInv, NEW c, FindResumable(c) # NoPlan
  PROVE  /\ FindResumable(c) = [id |-> Len(manifest), spans |-> Journaled]
         /\ RowCount(Journaled) # 0
<1> DEFINE id == CHOOSE i \in RunningWith(c) : \A j \in RunningWith(c) : j <= i
<1>1. FindResumable(c).id = Len(manifest)
  BY FindsNewest DEF IndInv
<1>2. /\ FindResumable(c) = [id |-> id, spans |-> JournaledSpans(id)]
      /\ RowCount(JournaledSpans(id)) # 0
  BY DEF FindResumable, JournaledSpans
<1> HIDE DEF id
<1>3. id = Len(manifest)
  BY <1>1, <1>2
<1> QED BY <1>2, <1>3 DEF Journaled

\* No journal row, no span.
LEMMA NoJournal ==
  ASSUME NEW id
  PROVE  /\ SpansIn({}, id) = << >> /\ << >> \in Seq(Seq(Rows)) /\ Len(<< >>) = 0
         /\ Records(id, << >>) = {} /\ RowCount(<< >>) = 0
<1>1. << >> \in Seq(Seq(Rows)) /\ Len(<< >>) = 0
  BY EmptySeq
<1>2. Records(id, << >>) = {}
  BY <1>1 DEF Records
<1> QED BY <1>1, <1>2, ReadsBack, NoSpansNoRows

\* Every step but two leaves the list as it is; giving up, sweeping, completing
\* and beginning a run empty it, and recordSpan adds one span.
LEMMA JournalStep ==
  ASSUME IndInv, IndInv', DurableInv, [Next]_vars
  PROVE  /\ JournalForm'
         /\ PruneFailed \/ Sweep \/ PruneDone \/ BeginRun => Journaled' = << >>
         /\ RecordSpan => Journaled' = Append(Journaled, Spans[span + 1])
         /\ ~(PruneFailed \/ Sweep \/ PruneDone \/ BeginRun \/ RecordSpan) => Journaled' = Journaled
<1>1. Journaled = SpansIn(journal, Len(manifest)) /\ Journaled' = SpansIn(journal', Len(manifest'))
  BY DEF Journaled, JournaledSpans, SpansIn
<1>2. /\ Journaled \in Seq(Seq(Rows)) /\ journal = Records(Len(manifest), Journaled)
  BY DEF DurableInv, JournalForm
<1>3. ASSUME journal' = {} PROVE JournalForm' /\ Journaled' = << >>
  <2>1. Journaled' = << >>
    BY <1>1, <1>3, NoJournal
  <2> QED BY <1>3, <2>1, NoJournal DEF JournalForm
<1>4. CASE PruneFailed
  <2>1. plan.id = Len(manifest)
    BY <1>4 DEF PruneFailed, IndInv, PlaceInv
  <2>2. journal' = {}
    BY <1>4, <2>1 DEF PruneFailed, IndInv, JournalBounded
  <2> QED BY <1>3, <1>4, <2>2 DEF PruneFailed, RecordSpan
<1>5. CASE PruneDone
  <2>1. plan.id = Len(manifest)
    BY <1>5 DEF PruneDone, IndInv, PlaceInv
  <2>2. journal' = {}
    BY <1>5, <2>1 DEF PruneDone, IndInv, JournalBounded
  <2> QED BY <1>3, <1>5, <2>2 DEF PruneDone, RecordSpan
<1>6. CASE Sweep
  <2>1. journal' = {}
    BY <1>6 DEF Sweep, IndInv, PlaceInv
  <2> QED BY <1>3, <1>6, <2>1 DEF Sweep, RecordSpan
<1>7. CASE BeginRun
  <2>1. journal' = {}
    BY <1>7 DEF BeginRun, IndInv, PlaceInv
  <2> QED BY <1>3, <1>7, <2>1 DEF BeginRun, RecordSpan
<1>8. CASE RecordSpan
  <2>1. /\ runId = Len(manifest) /\ Len(Journaled) = span /\ span \in 0 .. Len(Spans)
        /\ span < Len(Spans)
    BY <1>8 DEF RecordSpan, IndInv, PlaceInv, DurableInv, PlanForm, ProcessTypes
  <2>2. PICK s : s = Spans[span + 1]
    OBVIOUS
  <2>3. s \in Seq(Rows)
    <3>1. cfg \in Configs /\ build \in Builds
      BY DEF DurableInv, ProcessTypes
    <3>2. Len(Spans) \in Nat /\ \A k \in 1 .. Len(Spans) : Spans[k] \in Seq(Rows)
      BY <3>1, StreamTypes
    <3>3. span + 1 \in 1 .. Len(Spans)
      BY <2>1, <3>2
    <3> QED BY <2>2, <3>2, <3>3
  <2>4. journal' = journal \cup {[id |-> Len(manifest), index |-> Len(Journaled), digest |-> s]}
    BY <1>8, <2>1, <2>2 DEF RecordSpan
  <2>5. Len(manifest') = Len(manifest)
    BY <1>8 DEF RecordSpan
  <2>6. PICK K : K = Append(Journaled, s)
    OBVIOUS
  <2>7. K \in Seq(Seq(Rows))
    BY <1>2, <2>3, <2>6, AppendProperties
  <2>8. journal' = Records(Len(manifest'), K)
    BY <1>2, <2>3, <2>4, <2>5, <2>6, OneMoreRecord
  <2>9. Journaled' = K
    BY <1>1, <2>7, <2>8, ReadsBack
  <2>10. JournalForm'
    BY <2>7, <2>8, <2>9 DEF JournalForm
  <2>11. ~(PruneFailed \/ Sweep \/ PruneDone \/ BeginRun)
    BY <1>8 DEF RecordSpan, PruneFailed, Sweep, PruneDone, BeginRun
  <2> QED BY <1>8, <2>2, <2>6, <2>9, <2>10, <2>11
<1>9. CASE ~(PruneFailed \/ Sweep \/ PruneDone \/ BeginRun \/ RecordSpan)
  <2>1. journal' = journal
    BY <1>9 DEF Next, Proceed, vars, database, Launch, Find, Trim, Match, MarkFailed, Supersede,
            DropTable, CreateTable, VerifySpan, Mismatch, CopySpan, FinishStream,
            Finalize, Kill, ServerCrash, Tamper
  <2>2. Len(manifest') = Len(manifest)
    BY <1>9, SameLength
  <2>3. Journaled' = Journaled
    BY <1>1, <2>1, <2>2
  <2> QED BY <1>2, <1>9, <2>1, <2>2, <2>3 DEF JournalForm
<1> QED BY <1>4, <1>5, <1>6, <1>7, <1>8, <1>9

\* Room for the runs to come.
LEMMA RoomStep ==
  ASSUME IndInv, IndInv', DurableInv, [Next]_vars
  PROVE  ManifestRoom'
<1>1. /\ Len(manifest) \in Nat /\ Len(manifest') \in Nat /\ MaxRuns \in Nat
      /\ BeginRun => Len(manifest') = Len(manifest) + 1
      /\ ~BeginRun => Len(manifest') = Len(manifest)
  BY SameLength, BoundsAssumption
<1>2. Len(manifest) <= MaxRuns /\ (pc \in Deciding => Len(manifest) < MaxRuns)
  BY DEF DurableInv, ManifestRoom
<1>3. CASE BeginRun
  <2>1. pc \in Deciding /\ pc' \notin Deciding
    BY <1>3 DEF BeginRun, Deciding
  <2> QED BY <1>1, <1>2, <1>3, <2>1 DEF ManifestRoom
<1>4. CASE ~BeginRun
  <2>1. pc' \in Deciding => pc \in Deciding \/ Len(manifest) < MaxRuns
    BY <1>4
    DEF Next, Proceed, vars, Launch, Find, Trim, Match, MarkFailed, PruneFailed, Supersede, Sweep,
        DropTable, CreateTable, VerifySpan, Mismatch, CopySpan, RecordSpan, FinishStream,
        Finalize, PruneDone, Kill, ServerCrash, Tamper, Down, Deciding
  <2> QED BY <1>1, <1>2, <1>4, <2>1 DEF ManifestRoom
<1> QED BY <1>3, <1>4

\* A plan is no plan, or the journal of the newest run.
LEMMA PlanTypes ==
  ASSUME IndInv, DurableInv, NEW c
  PROVE  FindResumable(c).id \in 0 .. MaxRuns /\ FindResumable(c).spans \in Seq(Seq(Rows))
<1>1. MaxRuns \in Nat /\ Len(manifest) \in Nat /\ Len(manifest) <= MaxRuns
  BY BoundsAssumption, LenProperties DEF DurableInv, ManifestRoom, IndInv, Shape
<1>2. CASE FindResumable(c) = NoPlan
  <2>1. << >> \in Seq(Seq(Rows))
    BY EmptySeq
  <2> QED BY <1>1, <1>2, <2>1 DEF NoPlan
<1>3. CASE FindResumable(c) # NoPlan
  <2>1. FindResumable(c) = [id |-> Len(manifest), spans |-> Journaled]
    BY <1>3, FindsJournal
  <2>2. Journaled \in Seq(Seq(Rows))
    BY DEF DurableInv, JournalForm
  <2> QED BY <1>1, <2>1, <2>2
<1> QED BY <1>2, <1>3

\* What the process remembers keeps its type.
LEMMA TypesStep ==
  ASSUME IndInv, IndInv', DurableInv, [Next]_vars
  PROVE  ProcessTypes'
<1> DEFINE Pcs == Down \cup Starting \cup {"stream", "record", "finalize", "pruneDone"}
<1>1. /\ pc \in Pcs /\ cfg \in Configs /\ build \in Builds
      /\ plan.id \in 0 .. MaxRuns /\ plan.spans \in Seq(Seq(Rows))
      /\ runId \in 0 .. MaxRuns /\ span \in 0 .. Len(Spans) /\ rows \in Nat
      /\ pc \in Starting => span = 0 /\ rows = 0
  BY DEF DurableInv, ProcessTypes
<1>2. Len(Spans) \in Nat /\ \A k \in 1 .. Len(Spans) : Spans[k] \in Seq(Rows) /\ Len(Spans[k]) \in Nat
  BY <1>1, StreamTypes
<1>3. MaxRuns \in Nat
  BY BoundsAssumption
<1>4. pc' \in Pcs
  BY <1>1
  DEF Next, Proceed, vars, Launch, Find, Trim, Match, MarkFailed, PruneFailed, Supersede, Sweep,
      BeginRun, DropTable, CreateTable, VerifySpan, Mismatch, CopySpan, RecordSpan, FinishStream,
      Finalize, PruneDone, Kill, ServerCrash, Tamper, Down, Starting, Deciding
<1>5. /\ cfg' \in Configs /\ build' \in Builds
      /\ ~Launch => cfg' = cfg /\ build' = build
  BY <1>1
  DEF Next, Proceed, vars, process, Launch, Find, Trim, Match, MarkFailed, PruneFailed, Supersede,
      Sweep, BeginRun, DropTable, CreateTable, VerifySpan, Mismatch, CopySpan, RecordSpan,
      FinishStream, Finalize, PruneDone, Kill, ServerCrash, Tamper
<1>6. plan'.id \in 0 .. MaxRuns /\ plan'.spans \in Seq(Seq(Rows))
  <2>1. NoPlan.id \in 0 .. MaxRuns /\ NoPlan.spans \in Seq(Seq(Rows))
    BY <1>3, EmptySeq DEF NoPlan
  <2>2. FindResumable(cfg).id \in 0 .. MaxRuns /\ FindResumable(cfg).spans \in Seq(Seq(Rows))
    BY PlanTypes
  <2>3. plan' = plan \/ plan' = NoPlan \/ plan' = FindResumable(cfg)
    BY DEF Next, Proceed, vars, process, Launch, Find, Trim, Match, MarkFailed, PruneFailed,
      Supersede, Sweep, BeginRun, DropTable, CreateTable, VerifySpan, Mismatch, CopySpan, RecordSpan,
      FinishStream, Finalize, PruneDone, Kill, ServerCrash, Tamper
  <2> QED BY <1>1, <2>1, <2>2, <2>3
<1>7. runId' \in 0 .. MaxRuns
  <2>1. Len(manifest') \in Nat /\ Len(manifest') <= MaxRuns
    BY RoomStep, SameLength DEF ManifestRoom
  <2>2. runId' = runId \/ runId' = plan.id \/ runId' = 0 \/ runId' = Len(manifest')
    BY DEF Next, Proceed, vars, process, Launch, Find, Trim, Match, MarkFailed, PruneFailed,
      Supersede, Sweep, BeginRun, DropTable, CreateTable, VerifySpan, Mismatch, CopySpan, RecordSpan,
      FinishStream, Finalize, PruneDone, Kill, ServerCrash, Tamper
  <2> QED BY <1>1, <1>3, <2>1, <2>2
<1>8. span' \in 0 .. Len(Spans)'
  <2>1. CASE Launch
    <3>1. Len(Spans') \in Nat
      <4>1. Stream[cfg'][build'] \in Seq(Seq(Rows))
        BY <1>5, StreamAssumption
      <4> QED BY <4>1, LenProperties DEF Spans
    <3> QED BY <2>1, <3>1 DEF Launch
  <2>2. CASE ~Launch
    <3>1. Spans' = Spans
      BY <1>5, <2>2 DEF Spans
    <3>2. span' = span \/ (span' = span + 1 /\ span < Len(Spans))
      <4>1. CASE RecordSpan
        BY <4>1 DEF RecordSpan, DurableInv, PlanForm
      <4>2. CASE VerifySpan
        BY <4>2 DEF VerifySpan
      <4>3. CASE ~RecordSpan /\ ~VerifySpan
        BY <2>2, <4>3
        DEF Next, Proceed, vars, process, Find, Trim, Match, MarkFailed, PruneFailed,
            Supersede, Sweep, BeginRun, DropTable, CreateTable, Mismatch, CopySpan,
            FinishStream, Finalize, PruneDone, Kill, ServerCrash, Tamper
      <4> QED BY <4>1, <4>2, <4>3
    <3> QED BY <1>1, <1>2, <3>1, <3>2
  <2> QED BY <2>1, <2>2
<1>9. rows' \in Nat
  <2>1. CASE CopySpan
    <3>1. span + 1 \in 1 .. Len(Spans)
      BY <1>1, <1>2, <2>1 DEF CopySpan
    <3>2. Len(Spans[span + 1]) \in Nat
      BY <1>2, <3>1
    <3> QED BY <1>1, <2>1, <3>2 DEF CopySpan
  <2>2. CASE Match
    <3>1. RowCount(plan.spans) \in Nat
      BY <1>1, NumberedLength
    <3> QED BY <1>1, <2>2, <3>1 DEF Match
  <2>3. CASE ~CopySpan /\ ~Match
    <3>1. rows' = rows \/ rows' = 0
      BY <2>3
      DEF Next, Proceed, vars, process, Launch, Find, Trim, MarkFailed, PruneFailed,
          Supersede, Sweep, BeginRun, DropTable, CreateTable, VerifySpan, Mismatch, RecordSpan,
          FinishStream, Finalize, PruneDone, Kill, ServerCrash, Tamper
    <3> QED BY <1>1, <3>1
  <2> QED BY <2>1, <2>2, <2>3
<1>10. pc' \in Starting => span' = 0 /\ rows' = 0
  <2>1. CASE Launch
    BY <2>1 DEF Launch
  <2>2. CASE ~Launch
    <3>1. pc' \in Starting => pc \in Starting /\ span' = span /\ rows' = rows
      BY <2>2
      DEF Next, Proceed, vars, process, Find, Trim, Match, MarkFailed, PruneFailed,
          Supersede, Sweep, BeginRun, DropTable, CreateTable, VerifySpan, Mismatch, CopySpan,
          RecordSpan, FinishStream, Finalize, PruneDone, Kill, ServerCrash, Tamper,
          Starting, Deciding, Down
    <3> QED BY <1>1, <3>1
  <2> QED BY <2>1, <2>2
<1> QED BY <1>4, <1>5, <1>6, <1>7, <1>8, <1>9, <1>10 DEF ProcessTypes, Down, Starting, Deciding

\* The rows of one span that is not committed yet.
NewRows == {[seq |-> rows + n, span |-> span, row |-> Spans[span + 1][n], by |-> runId] :
              n \in DOMAIN Spans[span + 1]}

\* Before a span is copied, what is streamed is what the journal lists.
LEMMA BeforeCopy ==
  ASSUME IndInv, DurableInv, CopySpan
  PROVE  /\ span = Len(Journaled) /\ span \in Nat /\ span < Len(Spans)
         /\ rows = RowCount(Journaled) /\ rows \in Nat
         /\ Spans[span + 1] \in Seq(Rows) /\ Len(Spans[span + 1]) \in Nat
         /\ DOMAIN Spans[span + 1] = 1 .. Len(Spans[span + 1])
         /\ runId = Len(manifest) /\ runId \in Ids
         /\ table' = table \cup NewRows /\ rows' = rows + Len(Spans[span + 1])
<1>1. /\ cfg \in Configs /\ build \in Builds /\ runId \in 0 .. MaxRuns
      /\ span \in 0 .. Len(Spans) /\ rows \in Nat /\ plan.spans \in Seq(Seq(Rows))
  BY DEF DurableInv, ProcessTypes
<1>2. pc = "stream" /\ ~(span < Len(plan.spans)) /\ span < Len(Spans)
  BY DEF CopySpan, InPrefix
<1>3. /\ Len(plan.spans) <= Len(Journaled) /\ span <= Len(Journaled)
      /\ span < Len(Journaled) => Len(Journaled) = Len(plan.spans)
      /\ rows = RowCount(Journaled) /\ Journaled \in Seq(Seq(Rows))
  BY <1>2 DEF DurableInv, PlanForm, JournalForm
<1>4. Len(plan.spans) \in Nat /\ Len(Journaled) \in Nat
  BY <1>1, <1>3, LenProperties
<1>5. /\ Len(Spans) \in Nat
      /\ \A k \in 1 .. Len(Spans) : Spans[k] \in Seq(Rows) /\ Len(Spans[k]) \in Nat
  BY <1>1, StreamTypes
<1>6. span = Len(Journaled) /\ span \in Nat
  BY <1>1, <1>2, <1>3, <1>4, <1>5
<1>7. Spans[span + 1] \in Seq(Rows) /\ Len(Spans[span + 1]) \in Nat
  <2>1. span + 1 \in 1 .. Len(Spans)
    BY <1>2, <1>5, <1>6
  <2> QED BY <1>5, <2>1
<1>8. DOMAIN Spans[span + 1] = 1 .. Len(Spans[span + 1])
  BY <1>7, LenProperties
<1>9. runId = Len(manifest) /\ runId # 0
  BY <1>2 DEF IndInv, PlaceInv
<1>10. runId \in Ids
  BY <1>1, <1>9, BoundsAssumption DEF Ids
<1>11. table' = table \cup NewRows /\ rows' = rows + Len(Spans[span + 1])
  BY DEF CopySpan, NewRows
<1> QED BY <1>1, <1>2, <1>3, <1>6, <1>7, <1>8, <1>9, <1>10, <1>11

\* The new rows continue the numbering.
LEMMA NewRowsAre ==
  ASSUME IndInv, DurableInv, CopySpan
  PROVE  /\ NewRows \in SUBSET TableRow /\ IsFiniteSet(NewRows)
         /\ \A r \in NewRows : /\ r.seq \in rows + 1 .. rows + Len(Spans[span + 1])
                               /\ r.span = span /\ r.row = Spans[span + 1][r.seq - rows]
         /\ \A i \in 1 .. Len(Spans[span + 1]) : \E r \in NewRows : r.seq = rows + i
         /\ \A r, x \in NewRows : r.seq = x.seq => r = x
<1>1. PICK s : s = Spans[span + 1]
  OBVIOUS
<1>2. /\ span \in Nat /\ rows \in Nat /\ s \in Seq(Rows) /\ Len(s) \in Nat
      /\ DOMAIN s = 1 .. Len(s) /\ runId \in Ids
  BY <1>1, BeforeCopy
<1>3. \A n \in 1 .. Len(s) : s[n] \in Rows
  BY <1>2, ElementOfSeq
<1> DEFINE new(n) == [seq |-> rows + n, span |-> span, row |-> s[n], by |-> runId]
<1>4. NewRows = {new(n) : n \in 1 .. Len(s)}
  BY <1>1, <1>2 DEF NewRows
<1>5. \A n \in 1 .. Len(s) : /\ new(n) \in TableRow /\ new(n).seq = rows + n /\ new(n).span = span
                             /\ new(n).row = s[n]
  BY <1>2, <1>3 DEF TableRow
<1>6. IsFiniteSet(NewRows)
  <2> DEFINE f == [n \in 1 .. Len(s) |-> new(n)]
  <2>1. f \in Surjection(1 .. Len(s), NewRows)
    <3>1. f \in [1 .. Len(s) -> NewRows] /\ \A r \in NewRows : \E n \in 1 .. Len(s) : f[n] = r
      BY <1>4
    <3> QED BY <3>1 DEF Surjection
  <2> HIDE DEF f
  <2>2. IsFiniteSet(1 .. Len(s))
    BY <1>2, FS_Interval
  <2> QED BY <2>1, <2>2, FS_Surjection
<1> HIDE DEF new
<1>7. \A r \in NewRows : /\ r.seq \in rows + 1 .. rows + Len(s)
                         /\ r.span = span /\ r.row = s[r.seq - rows]
  <2> SUFFICES ASSUME NEW n \in 1 .. Len(s), NEW r, r = new(n)
               PROVE  /\ r.seq \in rows + 1 .. rows + Len(s)
                      /\ r.span = span /\ r.row = s[r.seq - rows]
    BY <1>4
  <2>1. r.seq = rows + n /\ r.span = span /\ r.row = s[n]
    BY <1>5
  <2>2. r.seq - rows = n /\ r.seq \in rows + 1 .. rows + Len(s)
    BY <1>2, <2>1
  <2> QED BY <2>1, <2>2
<1>8. \A i \in 1 .. Len(s) : \E r \in NewRows : r.seq = rows + i
  BY <1>4, <1>5
<1>9. \A r, x \in NewRows : r.seq = x.seq => r = x
  <2> SUFFICES ASSUME NEW n \in 1 .. Len(s), NEW m \in 1 .. Len(s), new(n).seq = new(m).seq
               PROVE  new(n) = new(m)
    BY <1>4
  <2>1. n = m
    BY <1>2, <1>5
  <2> QED BY <2>1
<1>10. NewRows \in SUBSET TableRow
  BY <1>4, <1>5
<1> QED BY <1>1, <1>6, <1>7, <1>8, <1>9, <1>10

\* A table stays a finite table.
LEMMA TableStep ==
  ASSUME IndInv, IndInv', DurableInv, [Next]_vars
  PROVE  TableForm'
<1>1. /\ table # Absent => table \in SUBSET TableRow /\ IsFiniteSet(table)
      /\ pc \in {"match", "stream", "record"} => table # Absent
  BY DEF DurableInv, TableForm
<1>2. \A t \in SUBSET TableRow : t # Absent
  BY AbsentAssumption
<1>3. CASE Trim
  <2>1. CASE table = Absent
    BY <1>3, <2>1 DEF Trim, TableForm
  <2>2. CASE table # Absent
    <3>1. table' \subseteq table
      BY <1>3, <2>2 DEF Trim
    <3>2. IsFiniteSet(table') /\ table' \in SUBSET TableRow
      BY <1>1, <2>2, <3>1, FS_Subset
    <3> QED BY <1>2, <3>2 DEF TableForm
  <2> QED BY <2>1, <2>2
<1>4. CASE CreateTable
  BY <1>2, <1>4, FS_EmptySet DEF CreateTable, TableForm
<1>5. CASE CopySpan
  <2>1. table' = table \cup NewRows
    BY <1>5, BeforeCopy
  <2>2. table # Absent
    BY <1>1, <1>5 DEF CopySpan
  <2>3. NewRows \in SUBSET TableRow /\ IsFiniteSet(NewRows)
    BY <1>5, NewRowsAre
  <2>4. IsFiniteSet(table')
    BY <1>1, <2>1, <2>2, <2>3, FS_Union
  <2>5. table' \in SUBSET TableRow
    BY <1>1, <2>1, <2>2, <2>3
  <2> QED BY <1>2, <2>4, <2>5 DEF TableForm
<1>6. CASE ServerCrash
  <2>1. table' = Absent \/ table' = {}
    BY <1>6 DEF ServerCrash
  <2>2. pc' \notin {"match", "stream", "record"}
    BY <1>6 DEF ServerCrash, Down
  <2> QED BY <2>1, <2>2, FS_EmptySet DEF TableForm
<1>7. CASE Tamper
  <2>1. pc' \notin {"match", "stream", "record"} /\ table # Absent
    BY <1>7 DEF Tamper, Down
  <2>2. CASE table' = Absent
    BY <2>1, <2>2 DEF TableForm
  <2>3. CASE \E r \in table : table' = table \ {r}
    <3>1. table' \subseteq table
      BY <2>3
    <3>2. IsFiniteSet(table') /\ table' \in SUBSET TableRow
      BY <1>1, <2>1, <3>1, FS_Subset
    <3> QED BY <2>1, <3>2 DEF TableForm
  <2>4. CASE \E r \in table : table' = (table \ {r}) \cup {[r EXCEPT !.row = "tampered"]}
    <3>1. PICK r \in table : table' = (table \ {r}) \cup {[r EXCEPT !.row = "tampered"]}
      BY <2>4
    <3>2. r \in TableRow
      BY <1>1, <2>1
    <3>3. "tampered" \in Rows
      BY DEF Rows
    <3>4. [r EXCEPT !.row = "tampered"] \in TableRow
      BY <3>2, <3>3 DEF TableRow
    <3>5. PICK x : x = [r EXCEPT !.row = "tampered"]
      OBVIOUS
    <3>6. table \ {r} \subseteq table
      OBVIOUS
    <3>7. IsFiniteSet(table \ {r})
      BY <1>1, <2>1, <3>6, FS_Subset
    <3>8. IsFiniteSet((table \ {r}) \cup {x})
      BY <3>7, FS_AddElement
    <3>9. IsFiniteSet(table')
      BY <3>1, <3>5, <3>8
    <3>10. table' \in SUBSET TableRow
      BY <1>1, <2>1, <3>1, <3>4
    <3> QED BY <2>1, <3>9, <3>10 DEF TableForm
  <2> QED BY <1>7, <2>2, <2>3, <2>4 DEF Tamper
<1>8. CASE ~(Trim \/ CreateTable \/ CopySpan \/ ServerCrash \/ Tamper)
  <2>1. table' = table \/ table' = Absent
    BY <1>8
    DEF Next, Proceed, vars, database, Launch, Find, Match, MarkFailed, PruneFailed, Supersede, Sweep,
        BeginRun, DropTable, VerifySpan, Mismatch, RecordSpan, FinishStream, Finalize, PruneDone, Kill
  <2>2. pc' \in {"match", "stream", "record"} =>
          pc \in {"match", "stream", "record"} /\ table' = table
    BY <1>8
    DEF Next, Proceed, vars, database, Launch, Find, Match, MarkFailed, PruneFailed, Supersede, Sweep,
        BeginRun, DropTable, VerifySpan, Mismatch, RecordSpan, FinishStream, Finalize, PruneDone, Kill
  <2> QED BY <1>1, <2>1, <2>2 DEF TableForm
<1> QED BY <1>3, <1>4, <1>5, <1>6, <1>7, <1>8

\* While the process is on its way to stream, or streams, its plan and what it has
\* streamed agree with the journal.
LEMMA PlanStep ==
  ASSUME IndInv, IndInv', DurableInv, [Next]_vars
  PROVE  PlanForm'
<1>1. /\ Journaled \in Seq(Seq(Rows)) /\ Len(Journaled) \in Nat
      /\ plan.spans \in Seq(Seq(Rows)) /\ Len(plan.spans) \in Nat
  BY LenProperties DEF DurableInv, JournalForm, ProcessTypes
<1>2. PlanForm
  BY DEF DurableInv
<1>3. CASE Find
  <2>1. pc' = "trim" => plan'.spans = Journaled /\ FindResumable(cfg) # NoPlan
    <3> SUFFICES ASSUME pc' = "trim" PROVE plan'.spans = Journaled /\ FindResumable(cfg) # NoPlan
      OBVIOUS
    <3>1. plan' = FindResumable(cfg) /\ FindResumable(cfg) # NoPlan
      BY <1>3 DEF Find
    <3>2. FindResumable(cfg) = [id |-> Len(manifest), spans |-> Journaled]
      BY <3>1, FindsJournal
    <3> QED BY <3>1, <3>2
  <2>2. pc' \in {"trim", "supersede"}
    BY <1>3 DEF Find
  <2>3. Journaled' = Journaled
    BY <1>3, JournalStep DEF Find, PruneFailed, Sweep, PruneDone, BeginRun, RecordSpan
  <2> QED BY <2>1, <2>2, <2>3 DEF PlanForm
<1>4. CASE Trim
  <2>1. plan' = plan /\ pc' \in {"match", "fail"} /\ plan.spans = Journaled
    BY <1>2, <1>4 DEF Trim, PlanForm, process
  <2>2. Journaled' = Journaled
    BY <1>4, JournalStep DEF Trim, PruneFailed, Sweep, PruneDone, BeginRun, RecordSpan
  <2> QED BY <2>1, <2>2 DEF PlanForm
<1>5. CASE Match
  <2>1. plan' = plan /\ plan.spans = Journaled /\ span' = span
    BY <1>2, <1>5 DEF Match, PlanForm
  <2>2. Journaled' = Journaled
    BY <1>5, JournalStep DEF Match, PruneFailed, Sweep, PruneDone, BeginRun, RecordSpan
  <2>3. span = 0
    BY <1>5 DEF Match, DurableInv, ProcessTypes, Starting, Deciding
  <2>4. pc' = "fail" \/ (pc' = "stream" /\ rows' = RowCount(Journaled))
    BY <1>5, <2>1 DEF Match
  <2> QED BY <1>1, <2>1, <2>2, <2>3, <2>4 DEF PlanForm
<1>6. CASE CreateTable
  <2>1. journal = {} /\ plan = NoPlan
    BY <1>6 DEF CreateTable, IndInv, PlaceInv, Shape
  <2>2. span = 0 /\ rows = 0
    BY <1>6 DEF CreateTable, DurableInv, ProcessTypes, Starting
  <2>3. Journaled' = Journaled
    BY <1>6, JournalStep DEF CreateTable, PruneFailed, Sweep, PruneDone, BeginRun, RecordSpan
  <2>4. Journaled = << >>
    BY <2>1, NoJournal DEF Journaled, JournaledSpans, SpansIn
  <2>5. plan'.spans = << >> /\ span' = 0 /\ rows' = 0 /\ pc' = "stream"
    BY <1>6, <2>1, <2>2 DEF CreateTable, process, NoPlan
  <2>6. RowCount(Journaled) = 0 /\ Len(Journaled) = 0
    BY <2>4, NoJournal
  <2>7. Len(plan'.spans) = 0
    BY <2>5, NoJournal
  <2> QED BY <2>3, <2>5, <2>6, <2>7 DEF PlanForm
<1>7. CASE VerifySpan
  <2>1. /\ span < Len(plan.spans) /\ Spans[span + 1] = plan.spans[span + 1]
        /\ span' = span + 1 /\ plan' = plan /\ rows' = rows /\ pc = "stream" /\ pc' = "stream"
        /\ cfg' = cfg /\ build' = build
    BY <1>7 DEF VerifySpan, InPrefix, Reproduces
  <2>2. Journaled' = Journaled
    BY <1>7, JournalStep DEF VerifySpan, PruneFailed, Sweep, PruneDone, BeginRun, RecordSpan
  <2>3. /\ Len(plan.spans) <= Len(Journaled)
        /\ \A k \in 1 .. Len(plan.spans) : plan.spans[k] = Journaled[k]
        /\ \A k \in 1 .. span : Journaled[k] = Spans[k]
        /\ span < Len(Journaled) => Len(Journaled) = Len(plan.spans)
        /\ rows = RowCount(Journaled)
    BY <1>2, <2>1 DEF PlanForm
  <2>4. span \in Nat
    BY DEF DurableInv, ProcessTypes
  <2>5. Spans' = Spans
    BY <2>1 DEF Spans
  <2>6. \A k \in 1 .. span + 1 : Journaled[k] = Spans[k]
    <3> TAKE k \in 1 .. span + 1
    <3>1. CASE k \in 1 .. span
      BY <2>3, <3>1
    <3>2. CASE k = span + 1
      <4>1. k \in 1 .. Len(plan.spans)
        BY <1>1, <2>1, <2>4, <3>2
      <4> QED BY <2>1, <2>3, <3>2, <4>1
    <3> QED BY <2>4, <3>1, <3>2
  <2>7. span + 1 <= Len(Journaled) /\ span < Len(Journaled)
    BY <1>1, <2>1, <2>3, <2>4
  <2> QED BY <2>1, <2>2, <2>3, <2>5, <2>6, <2>7 DEF PlanForm
<1>8. CASE CopySpan
  <2>1. /\ span = Len(Journaled) /\ span < Len(Spans) /\ rows = RowCount(Journaled)
        /\ rows' = rows + Len(Spans[span + 1])
    BY <1>8, BeforeCopy
  <2>2. /\ pc = "stream" /\ pc' = "record" /\ plan' = plan /\ span' = span /\ cfg' = cfg /\ build' = build
    BY <1>8 DEF CopySpan
  <2>3. Journaled' = Journaled
    BY <1>8, JournalStep DEF CopySpan, PruneFailed, Sweep, PruneDone, BeginRun, RecordSpan
  <2>4. Spans' = Spans
    BY <2>2 DEF Spans
  <2>5. /\ Len(plan.spans) <= Len(Journaled)
        /\ \A k \in 1 .. Len(plan.spans) : plan.spans[k] = Journaled[k]
        /\ \A k \in 1 .. span : Journaled[k] = Spans[k]
    BY <1>2, <2>2 DEF PlanForm
  <2>6. span <= Len(Journaled) /\ ~(span < Len(Journaled))
    BY <1>1, <2>1
  <2> QED BY <2>1, <2>2, <2>3, <2>4, <2>5, <2>6 DEF PlanForm
<1>9. CASE RecordSpan
  <2>1. pc = "record" /\ pc' = "stream" /\ plan' = plan /\ span' = span + 1 /\ cfg' = cfg /\ build' = build
        /\ rows' = rows
    BY <1>9 DEF RecordSpan
  <2>2. /\ Len(plan.spans) <= Len(Journaled)
        /\ \A k \in 1 .. Len(plan.spans) : plan.spans[k] = Journaled[k]
        /\ \A k \in 1 .. span : Journaled[k] = Spans[k]
        /\ Len(Journaled) = span /\ span < Len(Spans)
        /\ rows = RowCount(Journaled) + Len(Spans[span + 1])
    BY <1>2, <2>1 DEF PlanForm
  <2>3. PICK s : s = Spans[span + 1]
    OBVIOUS
  <2>4. s \in Seq(Rows)
    <3>1. cfg \in Configs /\ build \in Builds
      BY DEF DurableInv, ProcessTypes
    <3>2. Len(Spans) \in Nat /\ \A k \in 1 .. Len(Spans) : Spans[k] \in Seq(Rows)
      BY <3>1, StreamTypes
    <3>3. span + 1 \in 1 .. Len(Spans)
      BY <1>1, <2>2, <3>2
    <3> QED BY <2>3, <3>2, <3>3
  <2>5. PICK K : K = Append(Journaled, s)
    OBVIOUS
  <2>6. Journaled' = K
    BY <1>9, <2>3, <2>5, JournalStep
  <2>7. /\ Len(K) = Len(Journaled) + 1 /\ K[Len(Journaled) + 1] = s
        /\ \A k \in 1 .. Len(Journaled) : K[k] = Journaled[k]
    BY <1>1, <2>4, <2>5, AppendProperties
  <2>8. RowCount(K) = RowCount(Journaled) + Len(s)
    BY <1>1, <2>4, <2>5, NumberedAppend
  <2>9. \A k \in 1 .. Len(plan.spans) : plan.spans[k] = K[k]
    <3> TAKE k \in 1 .. Len(plan.spans)
    <3>1. k \in 1 .. Len(Journaled)
      BY <1>1, <2>2
    <3> QED BY <2>2, <2>7, <3>1
  <2>10. \A k \in 1 .. span + 1 : K[k] = Spans[k]
    <3> TAKE k \in 1 .. span + 1
    <3>1. CASE k \in 1 .. span
      BY <2>2, <2>7, <3>1
    <3>2. CASE k = span + 1
      BY <2>2, <2>3, <2>7, <3>2
    <3> QED BY <1>1, <2>2, <3>1, <3>2
  <2>11. Len(plan.spans) <= Len(K) /\ span + 1 <= Len(K) /\ ~(span + 1 < Len(K))
    BY <1>1, <2>2, <2>7
  <2>12. Spans' = Spans /\ rows' = RowCount(K)
    BY <2>1, <2>2, <2>3, <2>8 DEF Spans
  <2> QED BY <2>1, <2>6, <2>9, <2>10, <2>11, <2>12 DEF PlanForm
<1>10. CASE ~(Find \/ Trim \/ Match \/ CreateTable \/ VerifySpan \/ CopySpan \/ RecordSpan)
  <2>1. pc' \in {"trim", "match", "stream", "record"} => UNCHANGED vars
    BY <1>10
    DEF Next, Proceed, Launch, MarkFailed, PruneFailed, Supersede, Sweep, BeginRun,
        DropTable, Mismatch, FinishStream, Finalize, PruneDone, Kill, ServerCrash, Tamper, Down
  <2>2. CASE UNCHANGED vars
    <3>1. Journaled' = Journaled
      BY <2>2 DEF Journaled, JournaledSpans, vars
    <3>2. Spans' = Spans /\ plan' = plan /\ span' = span /\ rows' = rows /\ pc' = pc
      BY <2>2 DEF Spans, vars
    <3> QED BY <1>2, <3>1, <3>2 DEF PlanForm
  <2>3. CASE pc' \notin {"trim", "match", "stream", "record"}
    BY <2>3 DEF PlanForm
  <2> QED BY <2>1, <2>2, <2>3
<1> QED BY <1>3, <1>4, <1>5, <1>6, <1>7, <1>8, <1>9, <1>10

\* The rows of committed spans stay where they are.
LEMMA DurableStep ==
  ASSUME IndInv, IndInv', DurableInv, [Next]_vars
  PROVE  Durable'
<1> SUFFICES ASSUME Running', Len(manifest') \notin changed' PROVE HoldsPrefix(table', Journaled')
  BY DEF Durable
<1>1. Journaled \in Seq(Seq(Rows)) /\ Journaled' \in Seq(Seq(Rows)) /\ RowCount(Journaled) \in Nat
  BY JournalStep, NumberedLength DEF JournalForm, DurableInv
<1>2. Running /\ Len(manifest) \notin changed => HoldsPrefix(table, Journaled)
  BY DEF DurableInv, Durable
<1>3. ASSUME Journaled' = << >> PROVE HoldsPrefix(table', Journaled')
  BY <1>1, <1>3, NoJournal, HoldsNothing
<1>4. CASE PruneFailed \/ Sweep \/ PruneDone \/ BeginRun
  BY <1>3, <1>4, JournalStep
<1>5. CASE DropTable \/ CreateTable
  <2>1. journal' = {}
    BY <1>5 DEF DropTable, CreateTable, IndInv, PlaceInv
  <2>2. Journaled' = << >>
    BY <2>1, NoJournal DEF Journaled, JournaledSpans, SpansIn
  <2> QED BY <1>3, <2>2
<1>6. CASE MarkFailed \/ Supersede \/ (Finalize /\ pc' = "pruneDone")
  <2>1. NoneRunning'
    <3>1. pc' \in {"pruneFailed", "pruneDone", "sweep"}
      BY <1>6 DEF MarkFailed, Supersede
    <3> QED BY <3>1 DEF IndInv, PlaceInv
  <2>2. Len(manifest') \in DOMAIN manifest'
    <3>1. DOMAIN manifest' = 1 .. Len(manifest') /\ Len(manifest') \in Nat
      BY LenProperties DEF IndInv, Shape
    <3> QED BY <3>1 DEF Running
  <2> QED BY <2>1, <2>2 DEF NoneRunning, Running
<1>7. ASSUME Journaled' = Journaled, UNCHANGED <<manifest, changed>>
      PROVE  HoldsPrefix(table, Journaled)
  <2>1. Running /\ Len(manifest) \notin changed
    BY <1>7 DEF Running
  <2> QED BY <1>2, <2>1
<1>8. CASE Trim
  <2>1. Journaled' = Journaled /\ UNCHANGED <<manifest, changed>>
    BY <1>8, JournalStep DEF Trim, PruneFailed, Sweep, PruneDone, BeginRun, RecordSpan
  <2>2. HoldsPrefix(table, Journaled)
    BY <1>7, <2>1
  <2>3. CASE table = Absent
    BY <1>8, <2>1, <2>2, <2>3 DEF Trim
  <2>4. CASE table # Absent
    <3>1. plan.spans = Journaled
      BY <1>8 DEF Trim, DurableInv, PlanForm
    <3>2. table' = {r \in table : r.seq <= RowCount(Journaled)}
      BY <1>8, <2>4, <3>1 DEF Trim
    <3>3. \A i \in 1 .. RowCount(Journaled) : RowsAt(table, i) = RowsAt(table', i)
      <4> TAKE i \in 1 .. RowCount(Journaled)
      <4>1. i <= RowCount(Journaled)
        BY <1>1
      <4> QED BY <3>2, <4>1 DEF RowsAt
    <3>4. HoldsPrefix(table', Journaled)
      BY <1>1, <2>2, <3>3, KeepsPrefix
    <3> QED BY <2>1, <3>4
  <2> QED BY <2>3, <2>4
<1>9. CASE CopySpan
  <2>1. Journaled' = Journaled /\ UNCHANGED <<manifest, changed>>
    BY <1>9, JournalStep DEF CopySpan, PruneFailed, Sweep, PruneDone, BeginRun, RecordSpan
  <2>2. HoldsPrefix(table, Journaled)
    BY <1>7, <2>1
  <2>3. /\ rows = RowCount(Journaled) /\ table' = table \cup NewRows /\ Len(Spans[span + 1]) \in Nat
    BY <1>9, BeforeCopy
  <2>4. \A r \in NewRows : r.seq \in rows + 1 .. rows + Len(Spans[span + 1])
    BY <1>9, NewRowsAre
  <2>5. \A r \in NewRows : ~(r.seq \in 1 .. RowCount(Journaled))
    BY <1>1, <2>3, <2>4
  <2>6. \A i \in 1 .. RowCount(Journaled) : RowsAt(table, i) = RowsAt(table', i)
    BY <2>3, <2>5 DEF RowsAt
  <2>7. HoldsPrefix(table', Journaled)
    BY <1>1, <2>2, <2>6, KeepsPrefix
  <2> QED BY <2>1, <2>7
<1>10. CASE RecordSpan
  <2>1. UNCHANGED <<manifest, changed, table>> /\ pc = "record"
    BY <1>10 DEF RecordSpan
  <2>2. HoldsPrefix(table, Journaled)
    <3>1. Running /\ Len(manifest) \notin changed
      BY <2>1 DEF Running
    <3> QED BY <1>2, <3>1
  <2>3. PICK s : s = Spans[span + 1]
    OBVIOUS
  <2>4. /\ Len(Journaled) = span /\ rows = RowCount(Journaled) + Len(s) /\ span < Len(Spans)
    BY <2>1, <2>3 DEF DurableInv, PlanForm
  <2>5. s \in Seq(Rows)
    <3>1. cfg \in Configs /\ build \in Builds /\ span \in Nat
      BY DEF DurableInv, ProcessTypes
    <3>2. Len(Spans) \in Nat /\ \A k \in 1 .. Len(Spans) : Spans[k] \in Seq(Rows)
      BY <3>1, StreamTypes
    <3>3. span + 1 \in 1 .. Len(Spans)
      BY <2>4, <3>1, <3>2
    <3> QED BY <2>3, <3>2, <3>3
  <2>6. Ordered(table, RowCount(Journaled) + Len(s))
    BY <2>1, <2>4 DEF DurableInv, StreamForm
  <2>7. \A r \in table : r.seq > RowCount(Journaled) =>
          r.span = Len(Journaled) /\ r.row = s[r.seq - RowCount(Journaled)]
    BY <2>1, <2>3, <2>4 DEF DurableInv, StreamForm, Copied
  <2>8. HoldsPrefix(table, Append(Journaled, s))
    BY <1>1, <2>2, <2>5, <2>6, <2>7, HoldsOneMore
  <2>9. Journaled' = Append(Journaled, s)
    BY <1>10, <2>3, JournalStep
  <2> QED BY <2>1, <2>8, <2>9
<1>11. CASE ServerCrash \/ Tamper
  <2>1. Journaled' = Journaled /\ manifest' = manifest /\ changed' = changed \cup Authors
        /\ journal' = journal
    <3>1. manifest' = manifest /\ changed' = changed \cup Authors /\ journal' = journal
      BY <1>11 DEF ServerCrash, Tamper
    <3> QED BY <3>1 DEF Journaled, JournaledSpans
  <2>2. Running /\ Len(manifest) \notin changed /\ Len(manifest) \notin Authors
    BY <2>1 DEF Running
  <2>3. HoldsPrefix(table, Journaled)
    BY <1>2, <2>2
  <2>4. CASE table = Absent
    BY <1>11, <2>1, <2>3, <2>4 DEF ServerCrash, Tamper
  <2>5. CASE table # Absent /\ journal = {}
    <3>1. Journaled' = << >>
      BY <2>1, <2>5, NoJournal DEF Journaled, JournaledSpans, SpansIn
    <3> QED BY <1>3, <3>1
  <2>6. CASE table # Absent /\ journal # {}
    <3>1. ~NoneRunning
      <4>1. DOMAIN manifest = 1 .. Len(manifest) /\ Len(manifest) \in Nat
        BY LenProperties DEF IndInv, Shape
      <4>2. Len(manifest) \in DOMAIN manifest /\ manifest[Len(manifest)].status = "running"
        BY <2>2, <4>1 DEF Running
      <4> QED BY <4>2 DEF NoneRunning
    <3>2. \A r \in table : r.by = Len(manifest)
      BY <2>6, <3>1 DEF IndInv, OwnInv, Owned
    <3>3. table = {}
      BY <2>2, <2>6, <3>2 DEF Authors
    <3>4. RowCount(Journaled) = 0
      <4>1. \A i \in 1 .. RowCount(Journaled) : \E r \in table : r.seq = i
        BY <1>1, <2>3, HoldsIs DEF HoldsAt
      <4>2. ~(1 \in 1 .. RowCount(Journaled))
        BY <3>3, <4>1
      <4> QED BY <1>1, <4>2
    <3>5. HoldsPrefix(table', Journaled)
      BY <1>1, <3>4, HoldsNothing
    <3> QED BY <2>1, <3>5
  <2> QED BY <2>4, <2>5, <2>6
<1>12. CASE ~(\/ PruneFailed \/ Sweep \/ PruneDone \/ BeginRun \/ DropTable \/ CreateTable
              \/ MarkFailed \/ Supersede \/ Trim \/ CopySpan \/ RecordSpan \/ ServerCrash \/ Tamper)
  <2>1. UNCHANGED <<table, changed>> /\ (manifest' = manifest \/ (Finalize /\ pc' = "pruneDone"))
    BY <1>12
    DEF Next, Proceed, vars, database, process, Launch, Find, Match, VerifySpan, Mismatch,
        FinishStream, Finalize, Kill
  <2>2. Journaled' = Journaled
    BY <1>12, JournalStep
  <2>3. CASE manifest' = manifest
    BY <1>7, <2>1, <2>2, <2>3
  <2>4. CASE Finalize /\ pc' = "pruneDone"
    BY <1>6, <2>4
  <2> QED BY <2>1, <2>3, <2>4
<1>13. CASE PruneFailed \/ Sweep \/ PruneDone \/ BeginRun \/ DropTable \/ CreateTable
              \/ MarkFailed \/ Supersede
  BY <1>4, <1>5, <1>6, <1>13
<1>14. CASE Trim \/ CopySpan \/ RecordSpan \/ ServerCrash \/ Tamper
  BY <1>8, <1>9, <1>10, <1>11, <1>14
<1> QED BY <1>12, <1>13, <1>14

\* No row moves to another span.
LEMMA PlacedStep ==
  ASSUME IndInv, IndInv', DurableInv, [Next]_vars
  PROVE  Placed'
<1>1. Journaled \in Seq(Seq(Rows)) /\ Journaled' \in Seq(Seq(Rows)) /\ RowCount(Journaled) \in Nat
  BY JournalStep, NumberedLength DEF JournalForm, DurableInv
<1>2. table # Absent =>
        \A r \in table : r.seq <= RowCount(Journaled) => r.span = Numbered(Journaled)[r.seq].span
  BY DEF DurableInv, Placed
<1>3. table' # Absent => \A r \in table' : r.seq \in Nat \ {0}
  BY TableStep DEF TableForm, TableRow
<1>4. ASSUME Journaled' = << >> PROVE Placed'
  <2> SUFFICES ASSUME table' # Absent, NEW r \in table'
               PROVE  ~(r.seq <= RowCount(Journaled'))
    BY DEF Placed
  <2>1. RowCount(Journaled') = 0
    BY <1>4, NoJournal
  <2> QED BY <1>3, <2>1
<1>5. ASSUME Journaled' = Journaled,
             table' # Absent =>
               /\ table # Absent
               /\ \A r \in table' : r.seq <= RowCount(Journaled) =>
                    \E x \in table : x.seq = r.seq /\ x.span = r.span
      PROVE  Placed'
  <2> SUFFICES ASSUME table' # Absent, NEW r \in table', r.seq <= RowCount(Journaled)
               PROVE  r.span = Numbered(Journaled)[r.seq].span
    BY <1>5 DEF Placed
  <2>1. PICK x \in table : x.seq = r.seq /\ x.span = r.span
    BY <1>5
  <2>2. x.span = Numbered(Journaled)[x.seq].span
    BY <1>2, <1>5, <2>1
  <2> QED BY <2>1, <2>2
<1>6. CASE PruneFailed \/ Sweep \/ PruneDone \/ BeginRun
  BY <1>4, <1>6, JournalStep
<1>7. CASE RecordSpan
  <2>1. table' = table /\ pc = "record"
    BY <1>7 DEF RecordSpan
  <2>2. PICK s : s = Spans[span + 1]
    OBVIOUS
  <2>3. /\ Len(Journaled) = span /\ rows = RowCount(Journaled) + Len(s) /\ span < Len(Spans)
    BY <2>1, <2>2 DEF DurableInv, PlanForm
  <2>4. s \in Seq(Rows)
    <3>1. cfg \in Configs /\ build \in Builds /\ span \in Nat
      BY DEF DurableInv, ProcessTypes
    <3>2. Len(Spans) \in Nat /\ \A k \in 1 .. Len(Spans) : Spans[k] \in Seq(Rows)
      BY <3>1, StreamTypes
    <3>3. span + 1 \in 1 .. Len(Spans)
      BY <2>3, <3>1, <3>2
    <3> QED BY <2>2, <3>2, <3>3
  <2>5. PICK K : K = Append(Journaled, s)
    OBVIOUS
  <2>6. Journaled' = K
    BY <1>7, <2>2, <2>5, JournalStep
  <2>7. PICK n : n = RowCount(Journaled)
    OBVIOUS
  <2>8. /\ n \in Nat /\ Len(s) \in Nat /\ RowCount(K) = n + Len(s)
        /\ \A i \in 1 .. n : Numbered(K)[i] = Numbered(Journaled)[i]
        /\ \A m \in 1 .. Len(s) : Numbered(K)[n + m] = [span |-> Len(Journaled), row |-> s[m]]
    BY <1>1, <2>4, <2>5, <2>7, NumberedAppend
  <2>9. table # Absent /\ \A r \in table : r.seq > n => r.span = span
    BY <2>1, <2>7 DEF DurableInv, StreamForm, Copied, TableForm
  <2> SUFFICES ASSUME NEW r \in table, r.seq <= n + Len(s) PROVE r.span = Numbered(K)[r.seq].span
    BY <2>1, <2>6, <2>8 DEF Placed
  <2>10. r.seq \in Nat \ {0}
    BY <1>3, <2>1, <2>9
  <2>11. CASE r.seq <= n
    <3>1. r.seq \in 1 .. n
      BY <2>8, <2>10, <2>11
    <3>2. Numbered(K)[r.seq] = Numbered(Journaled)[r.seq]
      BY <2>8, <3>1
    <3>3. r.span = Numbered(Journaled)[r.seq].span
      BY <1>2, <2>7, <2>9, <2>11
    <3> QED BY <3>2, <3>3
  <2>12. CASE ~(r.seq <= n)
    <3>1. PICK m : m = r.seq - n
      OBVIOUS
    <3>2. m \in 1 .. Len(s) /\ n + m = r.seq /\ r.seq > n
      BY <2>8, <2>10, <2>12, <3>1
    <3>3. Numbered(K)[r.seq] = [span |-> Len(Journaled), row |-> s[m]]
      BY <2>8, <3>2
    <3>4. r.span = span
      BY <2>9, <3>2
    <3> QED BY <2>3, <3>3, <3>4
  <2> QED BY <2>11, <2>12
<1>8. CASE ~(PruneFailed \/ Sweep \/ PruneDone \/ BeginRun \/ RecordSpan)
  <2>1. Journaled' = Journaled
    BY <1>8, JournalStep
  <2>2. CASE Trim
    <3>1. table' = table \/ table' = {r \in table : r.seq <= RowCount(plan.spans)}
      BY <2>2 DEF Trim
    <3>2. table' # Absent => table # Absent /\ \A r \in table' : r \in table
      BY <2>2, <3>1 DEF Trim
    <3> QED BY <1>5, <2>1, <3>2
  <2>3. CASE CreateTable
    <3>1. journal' = {}
      BY <2>3 DEF CreateTable, IndInv, PlaceInv
    <3>2. Journaled' = << >>
      BY <3>1, NoJournal DEF Journaled, JournaledSpans, SpansIn
    <3> QED BY <1>4, <3>2
  <2>4. CASE CopySpan
    <3>1. /\ rows = RowCount(Journaled) /\ table' = table \cup NewRows /\ Len(Spans[span + 1]) \in Nat
      BY <2>4, BeforeCopy
    <3>2. \A r \in NewRows : r.seq \in rows + 1 .. rows + Len(Spans[span + 1])
      BY <2>4, NewRowsAre
    <3>3. \A r \in NewRows : ~(r.seq <= RowCount(Journaled))
      BY <1>1, <3>1, <3>2
    <3>4. table # Absent
      BY <2>4 DEF CopySpan, DurableInv, TableForm
    <3>5. \A r \in table' : r.seq <= RowCount(Journaled) => r \in table
      BY <3>1, <3>3
    <3> QED BY <1>5, <2>1, <3>4, <3>5
  <2>5. CASE ServerCrash
    <3>1. table' # Absent => table # Absent /\ table' = {}
      BY <2>5 DEF ServerCrash
    <3> QED BY <1>5, <2>1, <3>1
  <2>6. CASE Tamper
    <3>1. table # Absent
      BY <2>6 DEF Tamper
    <3>2. \A r \in table : r = [seq |-> r.seq, span |-> r.span, row |-> r.row, by |-> r.by]
      BY <3>1 DEF DurableInv, TableForm, TableRow
    <3>3. \A r \in table : [r EXCEPT !.row = "tampered"].seq = r.seq
                             /\ [r EXCEPT !.row = "tampered"].span = r.span
      BY <3>2
    <3>4. table' # Absent => \A r \in table' : \E x \in table : x.seq = r.seq /\ x.span = r.span
      <4> SUFFICES ASSUME table' # Absent, NEW r \in table'
                   PROVE  \E x \in table : x.seq = r.seq /\ x.span = r.span
        OBVIOUS
      <4>1. PICK y \in table :
              \/ table' = table \ {y}
              \/ table' = (table \ {y}) \cup {[y EXCEPT !.row = "tampered"]}
        BY <2>6 DEF Tamper
      <4>2. r \in table \/ r = [y EXCEPT !.row = "tampered"]
        BY <4>1
      <4> QED BY <3>3, <4>2
    <3> QED BY <1>5, <2>1, <3>1, <3>4
  <2>7. CASE ~(Trim \/ CreateTable \/ CopySpan \/ ServerCrash \/ Tamper)
    <3>1. table' = table \/ table' = Absent
      BY <1>8, <2>7
      DEF Next, Proceed, vars, database, process, Launch, Find, Match, MarkFailed, Supersede,
          DropTable, VerifySpan, Mismatch, FinishStream, Finalize, Kill
    <3> QED BY <1>5, <2>1, <3>1
  <2> QED BY <2>2, <2>3, <2>4, <2>5, <2>6, <2>7
<1> QED BY <1>6, <1>7, <1>8

\* Two plans that agree on their first spans have the same first part.
LEMMA SameFirst ==
  ASSUME NEW J \in Seq(Seq(Rows)), NEW P \in Seq(Seq(Rows)), NEW k \in Nat,
         k <= Len(J), k <= Len(P), \A i \in 1 .. Len(P) : P[i] = J[i]
  PROVE  SubSeq(P, 1, k) = SubSeq(J, 1, k)
<1>1. Len(J) \in Nat /\ Len(P) \in Nat
  BY LenProperties
<1>2. /\ \A i \in 1 .. k : J[i] \in Seq(Rows)
      /\ \A i \in 1 .. k : P[i] \in Seq(Rows)
  BY <1>1, ElementOfSeq
<1>3. k \in Int
  OBVIOUS
<1>4. PICK A : A = SubSeq(P, 1, k)
  OBVIOUS
<1>5. PICK B : B = SubSeq(J, 1, k)
  OBVIOUS
<1>6. /\ A \in Seq(Seq(Rows)) /\ Len(A) = (IF 1 <= k THEN k - 1 + 1 ELSE 0)
      /\ \A i \in 1 .. k - 1 + 1 : A[i] = P[1 + i - 1]
  BY <1>2, <1>3, <1>4, SubSeqProperties
<1>7. /\ B \in Seq(Seq(Rows)) /\ Len(B) = (IF 1 <= k THEN k - 1 + 1 ELSE 0)
      /\ \A i \in 1 .. k - 1 + 1 : B[i] = J[1 + i - 1]
  BY <1>2, <1>3, <1>5, SubSeqProperties
<1>8. Len(A) = k /\ Len(B) = k
  BY <1>6, <1>7
<1>9. \A i \in 1 .. Len(A) : A[i] = B[i]
  <2> SUFFICES ASSUME NEW i \in 1 .. k PROVE A[i] = B[i]
    BY <1>8
  <2>1. A[i] = P[i] /\ B[i] = J[i]
    BY <1>6, <1>7
  <2>2. i \in 1 .. Len(P)
    BY <1>1
  <2> QED BY <2>1, <2>2
<1>10. Len(A) = Len(B)
  BY <1>8
<1> QED BY <1>4, <1>5, <1>6, <1>7, <1>9, <1>10, SeqEqual

\* The rows of one more span are verified.
LEMMA VerifyStep ==
  ASSUME IndInv, IndInv', DurableInv, [Next]_vars, VerifySpan
  PROVE  StreamForm'
<1>1. /\ span < Len(plan.spans) /\ Spans[span + 1] = plan.spans[span + 1]
      /\ \A n \in DOMAIN Spans[span + 1] : DurableRows(n) = {Spans[span + 1][n]}
      /\ span' = span + 1 /\ pc = "stream" /\ pc' = "stream" /\ UNCHANGED <<table, rows>>
  BY DEF VerifySpan, InPrefix, Reproduces, database
<1>2. Journaled' = Journaled
  BY JournalStep DEF VerifySpan, PruneFailed, Sweep, PruneDone, BeginRun, RecordSpan
<1>3. PICK J : J = Journaled
  OBVIOUS
<1>4. PICK P : P = plan.spans
  OBVIOUS
<1>5. /\ J \in Seq(Seq(Rows)) /\ P \in Seq(Seq(Rows)) /\ span \in Nat
      /\ Len(P) <= Len(J) /\ \A k \in 1 .. Len(P) : P[k] = J[k]
  BY <1>1, <1>3, <1>4 DEF DurableInv, JournalForm, ProcessTypes, PlanForm
<1>6. Len(J) \in Nat /\ Len(P) \in Nat
  BY <1>5, LenProperties
<1>7. /\ span \in 0 .. Len(J) - 1 /\ span \in 0 .. Len(J) /\ span + 1 \in 0 .. Len(J)
      /\ span <= Len(P) /\ span <= Len(J) /\ span + 1 \in 1 .. Len(P)
  BY <1>1, <1>4, <1>5, <1>6
<1>8. PICK s : s = J[span + 1]
  OBVIOUS
<1>9. s = Spans[span + 1]
  BY <1>1, <1>4, <1>5, <1>7, <1>8
<1>10. PICK A : A = SubSeq(J, 1, span)
  OBVIOUS
<1>11. /\ A \in Seq(Seq(Rows)) /\ Len(A) = span /\ s \in Seq(Rows)
       /\ SubSeq(J, 1, span + 1) = Append(A, s)
  BY <1>5, <1>7, <1>8, <1>10, FirstSpans
<1>12. SubSeq(P, 1, span) = A
  BY <1>5, <1>7, <1>10, SameFirst
<1>13. PICK B : B = Append(A, s)
  OBVIOUS
<1>14. PICK n : n = RowCount(A)
  OBVIOUS
<1>15. /\ n \in Nat /\ Len(s) \in Nat /\ RowCount(B) = n + Len(s)
       /\ \A m \in 1 .. Len(s) : Numbered(B)[n + m] = [span |-> Len(A), row |-> s[m]]
  BY <1>11, <1>13, <1>14, NumberedAppend
<1>16. \A i \in 1 .. RowCount(B) : Numbered(B)[i] = Numbered(J)[i]
  <2>1. PICK k : k = span + 1
    OBVIOUS
  <2>2. k \in 0 .. Len(J) /\ SubSeq(J, 1, k) = B
    BY <1>7, <1>11, <1>13, <2>1
  <2> QED BY <1>5, <2>2, NumberedPrefix
<1>17. DOMAIN s = 1 .. Len(s)
  BY <1>11, LenProperties
<1>18. Ordered(table, rows) /\ \A r \in table : r.seq <= n => r.row = Numbered(J)[r.seq].row
  BY <1>1, <1>3, <1>10, <1>14 DEF DurableInv, StreamForm, Verified
<1>19. ASSUME NEW r \in table, r.seq <= RowCount(B) PROVE r.row = Numbered(J)[r.seq].row
  <2>1. r.seq \in Nat \ {0}
    BY <1>18 DEF Ordered
  <2>2. CASE r.seq <= n
    BY <1>18, <2>2
  <2>3. CASE ~(r.seq <= n)
    <3>1. PICK m : m = r.seq - n
      OBVIOUS
    <3>2. m \in 1 .. Len(s) /\ n + m = r.seq /\ r.seq \in 1 .. RowCount(B)
      BY <1>15, <1>19, <2>1, <2>3, <3>1
    <3>3. DurableRows(m) = {s[m]}
      BY <1>1, <1>9, <1>17, <3>2
    <3>4. r.row \in DurableRows(m)
      BY <1>4, <1>12, <1>14, <3>2 DEF DurableRows
    <3>5. r.row = s[m]
      BY <3>3, <3>4
    <3>6. Numbered(B)[r.seq] = [span |-> Len(A), row |-> s[m]]
      BY <1>15, <3>2
    <3>7. Numbered(B)[r.seq] = Numbered(J)[r.seq]
      BY <1>16, <3>2
    <3> QED BY <3>5, <3>6, <3>7
  <2> QED BY <2>2, <2>3
<1>20. Verified'
  BY <1>1, <1>2, <1>3, <1>11, <1>13, <1>19 DEF Verified
<1> QED BY <1>1, <1>18, <1>20 DEF StreamForm

\* A copied span continues the numbering.
LEMMA CopyStep ==
  ASSUME IndInv, IndInv', DurableInv, [Next]_vars, CopySpan
  PROVE  StreamForm'
<1>1. /\ pc = "stream" /\ pc' = "record" /\ span' = span /\ cfg' = cfg /\ build' = build
  BY DEF CopySpan
<1>2. Journaled' = Journaled
  BY JournalStep DEF CopySpan, PruneFailed, Sweep, PruneDone, BeginRun, RecordSpan
<1>3. Journaled \in Seq(Seq(Rows)) /\ RowCount(Journaled) \in Nat
  BY NumberedLength DEF DurableInv, JournalForm
<1>4. PICK s : s = Spans[span + 1]
  OBVIOUS
<1>5. /\ span = Len(Journaled) /\ rows = RowCount(Journaled) /\ rows \in Nat /\ Len(s) \in Nat
      /\ table' = table \cup NewRows /\ rows' = rows + Len(s)
  BY <1>4, BeforeCopy
<1>6. /\ \A r \in NewRows : /\ r.seq \in rows + 1 .. rows + Len(s)
                            /\ r.span = span /\ r.row = s[r.seq - rows]
      /\ \A i \in 1 .. Len(s) : \E r \in NewRows : r.seq = rows + i
      /\ \A r, x \in NewRows : r.seq = x.seq => r = x
  BY <1>4, NewRowsAre
<1>7. SubSeq(Journaled, 1, span) = Journaled
  BY <1>3, <1>5, FirstSpans
<1>8. Ordered(table, rows) /\ \A r \in table : r.seq <= rows => r.row = Numbered(Journaled)[r.seq].row
  BY <1>1, <1>5, <1>7 DEF DurableInv, StreamForm, Verified
<1>9. Ordered(table', rows')
  <2>1. \A r \in NewRows : r.seq \in rows + 1 .. rows + Len(s)
    BY <1>6
  <2>2. Ordered(table \cup NewRows, rows + Len(s))
    BY <1>5, <1>6, <1>8, <2>1, OrderedAdd
  <2> QED BY <1>5, <2>2
<1>10. \A r \in NewRows : ~(r.seq <= rows)
  BY <1>5, <1>6
<1>11. \A r \in table : ~(r.seq > rows)
  BY <1>5, <1>8 DEF Ordered
<1>12. Verified'
  <2>1. \A r \in table' : r.seq <= rows => r.row = Numbered(Journaled)[r.seq].row
    BY <1>5, <1>8, <1>10
  <2> QED BY <1>1, <1>2, <1>5, <1>7, <2>1 DEF Verified
<1>13. Copied'
  <2>1. Spans' = Spans
    BY <1>1 DEF Spans
  <2>2. \A r \in table' : r.seq > rows => r.span = span /\ r.row = s[r.seq - rows]
    BY <1>5, <1>6, <1>11
  <2> QED BY <1>1, <1>2, <1>4, <1>5, <2>1, <2>2 DEF Copied
<1> QED BY <1>9, <1>12, <1>13 DEF StreamForm

\* A journaled span has the rows that were copied.
LEMMA RecordStep ==
  ASSUME IndInv, IndInv', DurableInv, [Next]_vars, RecordSpan
  PROVE  StreamForm'
<1>1. /\ pc = "record" /\ pc' = "stream" /\ span' = span + 1 /\ table' = table /\ rows' = rows
  BY DEF RecordSpan
<1>2. PICK J : J = Journaled
  OBVIOUS
<1>3. PICK s : s = Spans[span + 1]
  OBVIOUS
<1>4. /\ Len(J) = span /\ rows = RowCount(J) + Len(s) /\ span < Len(Spans)
  BY <1>1, <1>2, <1>3 DEF DurableInv, PlanForm
<1>5. s \in Seq(Rows)
  <2>1. cfg \in Configs /\ build \in Builds /\ span \in Nat
    BY DEF DurableInv, ProcessTypes
  <2>2. Len(Spans) \in Nat /\ \A k \in 1 .. Len(Spans) : Spans[k] \in Seq(Rows)
    BY <2>1, StreamTypes
  <2>3. span + 1 \in 1 .. Len(Spans)
    BY <1>4, <2>1, <2>2
  <2> QED BY <1>3, <2>2, <2>3
<1>6. J \in Seq(Seq(Rows))
  BY <1>2 DEF DurableInv, JournalForm
<1>7. PICK K : K = Append(J, s)
  OBVIOUS
<1>8. Journaled' = K
  BY <1>2, <1>3, <1>7, JournalStep
<1>9. K \in Seq(Seq(Rows)) /\ Len(K) = Len(J) + 1
  BY <1>5, <1>6, <1>7, AppendProperties
<1>10. PICK n : n = RowCount(J)
  OBVIOUS
<1>11. /\ n \in Nat /\ Len(s) \in Nat /\ RowCount(K) = n + Len(s)
       /\ \A i \in 1 .. n : Numbered(K)[i] = Numbered(J)[i]
       /\ \A m \in 1 .. Len(s) : Numbered(K)[n + m] = [span |-> Len(J), row |-> s[m]]
  BY <1>5, <1>6, <1>7, <1>10, NumberedAppend
<1>12. SubSeq(J, 1, span) = J
  BY <1>4, <1>6, FirstSpans
<1>13. SubSeq(K, 1, span + 1) = K
  <2>1. Len(K) = span + 1
    BY <1>4, <1>9
  <2>2. SubSeq(K, 1, Len(K)) = K
    BY <1>9, FirstSpans
  <2> QED BY <2>1, <2>2
<1>14. /\ Ordered(table, rows)
       /\ \A r \in table : r.seq <= n => r.row = Numbered(J)[r.seq].row
       /\ \A r \in table : r.seq > n => r.row = s[r.seq - n]
  BY <1>1, <1>2, <1>3, <1>10, <1>12 DEF DurableInv, StreamForm, Verified, Copied
<1>15. ASSUME NEW r \in table, r.seq <= RowCount(K) PROVE r.row = Numbered(K)[r.seq].row
  <2>1. r.seq \in Nat \ {0}
    BY <1>14 DEF Ordered
  <2>2. CASE r.seq <= n
    <3>1. r.seq \in 1 .. n
      BY <1>11, <2>1, <2>2
    <3>2. r.row = Numbered(J)[r.seq].row
      BY <1>14, <2>2
    <3>3. Numbered(K)[r.seq] = Numbered(J)[r.seq]
      BY <1>11, <3>1
    <3> QED BY <3>2, <3>3
  <2>3. CASE ~(r.seq <= n)
    <3>1. PICK m : m = r.seq - n
      OBVIOUS
    <3>2. m \in 1 .. Len(s) /\ n + m = r.seq /\ r.seq > n
      BY <1>11, <1>15, <2>1, <2>3, <3>1
    <3>3. Numbered(K)[r.seq] = [span |-> Len(J), row |-> s[m]]
      BY <1>11, <3>2
    <3>4. r.row = s[m]
      BY <1>14, <3>1, <3>2
    <3> QED BY <3>3, <3>4
  <2> QED BY <2>2, <2>3
<1>16. Verified'
  BY <1>1, <1>8, <1>13, <1>15 DEF Verified
<1> QED BY <1>1, <1>14, <1>16 DEF StreamForm

\* A table that is taken up is numbered, and none of its rows is verified yet.
LEMMA StreamFormStep ==
  ASSUME IndInv, IndInv', DurableInv, [Next]_vars
  PROVE  StreamForm'
<1>1. ASSUME Ordered(table', rows'), span' = 0, pc' # "record" PROVE StreamForm'
  <2>1. SubSeq(Journaled', 1, 0) = << >>
    BY JournalStep, FirstSpans DEF JournalForm
  <2>2. RowCount(SubSeq(Journaled', 1, span')) = 0
    BY <1>1, <2>1, NoJournal
  <2>3. \A r \in table' : ~(r.seq <= 0)
    BY <1>1 DEF Ordered
  <2>4. Verified'
    BY <2>2, <2>3 DEF Verified
  <2> QED BY <1>1, <2>4 DEF StreamForm
<1>2. CASE Match
  <2>1. CASE pc' = "stream"
    <3>1. Matches(plan.spans) /\ rows' = RowCount(plan.spans) /\ table' = table /\ span' = span
          /\ pc = "match"
      BY <1>2, <2>1 DEF Match, database
    <3>2. span = 0 /\ RowCount(plan.spans) \in Nat
      BY <3>1, NumberedLength DEF DurableInv, ProcessTypes, Starting, Deciding
    <3>3. table \in SUBSET TableRow /\ IsFiniteSet(table)
      BY <3>1 DEF DurableInv, TableForm
    <3>4. Ordered(table, RowCount(plan.spans))
      BY <3>1, <3>2, <3>3, MatchesOrdered
    <3> QED BY <1>1, <2>1, <3>1, <3>2, <3>4
  <2>2. CASE pc' # "stream"
    BY <1>2, <2>2 DEF Match, StreamForm
  <2> QED BY <2>1, <2>2
<1>3. CASE CreateTable
  <2>1. table' = {} /\ rows' = 0 /\ span' = 0 /\ pc' = "stream"
    BY <1>3 DEF CreateTable, process, DurableInv, ProcessTypes, Starting
  <2>2. Ordered({}, 0)
    BY DEF Ordered
  <2> QED BY <1>1, <2>1, <2>2
<1>4. CASE VerifySpan \/ CopySpan \/ RecordSpan
  BY <1>4, VerifyStep, CopyStep, RecordStep
<1>5. CASE ~(Match \/ CreateTable \/ VerifySpan \/ CopySpan \/ RecordSpan)
  <2>1. pc' \in {"stream", "record"} => UNCHANGED vars
    BY <1>5
    DEF Next, Proceed, Launch, Find, Trim, MarkFailed, PruneFailed, Supersede, Sweep, BeginRun,
        DropTable, Mismatch, FinishStream, Finalize, PruneDone, Kill, ServerCrash, Tamper, Down
  <2>2. CASE UNCHANGED vars
    <3>1. Journaled' = Journaled
      BY <2>2 DEF Journaled, JournaledSpans, vars
    <3>2. Spans' = Spans /\ table' = table /\ span' = span /\ rows' = rows /\ pc' = pc
      BY <2>2 DEF Spans, vars
    <3>3. StreamForm
      BY DEF DurableInv
    <3> QED BY <3>1, <3>2, <3>3 DEF StreamForm, Verified, Copied
  <2>3. CASE pc' \notin {"stream", "record"}
    BY <2>3 DEF StreamForm
  <2> QED BY <2>1, <2>2, <2>3
<1> QED BY <1>2, <1>3, <1>4, <1>5
-----------------------------------------------------------------------------
\* Before the first run there is nothing to lose.
LEMMA InitDurableInv == Init => DurableInv
<1> SUFFICES ASSUME Init PROVE DurableInv
  OBVIOUS
<1>1. /\ manifest = << >> /\ journal = {} /\ table = Absent /\ pc = "off"
      /\ cfg \in Configs /\ build \in Builds /\ plan = NoPlan /\ runId = 0 /\ span = 0 /\ rows = 0
  BY DEF Init
<1>2. Len(manifest) = 0 /\ MaxRuns \in Nat
  BY <1>1, EmptySeq, BoundsAssumption
<1>3. Journaled = << >>
  BY <1>1, NoJournal DEF Journaled, JournaledSpans, SpansIn
<1>4. ManifestRoom
  BY <1>1, <1>2 DEF ManifestRoom, Deciding
<1>5. ProcessTypes
  <2>1. Len(Spans) \in Nat
    BY <1>1, StreamTypes
  <2>2. plan.id = 0 /\ plan.spans \in Seq(Seq(Rows))
    BY <1>1, NoJournal DEF NoPlan
  <2> QED BY <1>1, <1>2, <2>1, <2>2 DEF ProcessTypes, Down, Starting, Deciding
<1>6. JournalForm
  BY <1>1, <1>3, NoJournal DEF JournalForm
<1>7. TableForm /\ PlanForm /\ Placed /\ StreamForm
  BY <1>1 DEF TableForm, PlanForm, Placed, StreamForm
<1>8. Durable
  BY <1>2 DEF Durable, Running
<1> QED BY <1>4, <1>5, <1>6, <1>7, <1>8 DEF DurableInv

\* The invariant is inductive, given that the journal belongs to the newest run.
THEOREM SpecDurableInv == Spec => []DurableInv
<1>1. IndInv /\ IndInv' /\ DurableInv /\ [Next]_vars => DurableInv'
  <2> SUFFICES ASSUME IndInv, IndInv', DurableInv, [Next]_vars PROVE DurableInv'
    OBVIOUS
  <2>1. ManifestRoom' /\ ProcessTypes' /\ JournalForm'
    BY RoomStep, TypesStep, JournalStep
  <2>2. TableForm' /\ PlanForm' /\ Durable' /\ Placed' /\ StreamForm'
    BY TableStep, PlanStep, DurableStep, PlacedStep, StreamFormStep
  <2> QED BY <2>1, <2>2 DEF DurableInv
<1> QED BY <1>1, InitDurableInv, SpecIndInv, PTL DEF Spec

\* The database stays well formed, and the rows of every span that the journal of a
\* running run lists stay in the table, through every kill, crash and restart.
THEOREM DurablePrefix == Spec => []DurableInvariant
<1>1. ASSUME IndInv, DurableInv PROVE TypeOK
  <2>1. /\ manifest \in Seq([cfg : Configs,
                             status : {"running", "complete", "superseded", "failed"}])
        /\ Len(manifest) <= MaxRuns
    BY <1>1 DEF IndInv, Shape, Statuses, DurableInv, ManifestRoom
  <2>2. \A r \in journal : r.id \in DOMAIN manifest /\ r.index \in Nat /\ r.digest \in Seq(Rows)
    <3> SUFFICES ASSUME NEW r \in journal
                 PROVE  r.id \in DOMAIN manifest /\ r.index \in Nat /\ r.digest \in Seq(Rows)
      OBVIOUS
    <3>1. r.id \in DOMAIN manifest
      <4>1. r.id = Len(manifest) /\ Len(manifest) # 0
        BY <1>1 DEF IndInv, JournalBounded, Shape
      <4>2. DOMAIN manifest = 1 .. Len(manifest) /\ Len(manifest) \in Nat
        BY <1>1, LenProperties DEF IndInv, Shape
      <4> QED BY <4>1, <4>2
    <3>2. Journaled \in Seq(Seq(Rows)) /\ journal = Records(Len(manifest), Journaled)
      BY <1>1 DEF DurableInv, JournalForm
    <3>3. Len(Journaled) \in Nat /\ \A k \in 1 .. Len(Journaled) : Journaled[k] \in Seq(Rows)
      BY <3>2, LenProperties, ElementOfSeq
    <3>4. PICK k \in 1 .. Len(Journaled) :
            r = [id |-> Len(manifest), index |-> k - 1, digest |-> Journaled[k]]
      BY <3>2 DEF Records
    <3> QED BY <3>1, <3>3, <3>4
  <2>3. table = Absent \/ table \subseteq TableRow
    BY <1>1 DEF DurableInv, TableForm
  <2>4. ProcessTypes
    BY <1>1 DEF DurableInv
  <2> QED BY <2>1, <2>2, <2>3, <2>4 DEF TypeOK, ProcessTypes, Starting, Deciding, Down
<1>2. ASSUME IndInv, DurableInv PROVE CommittedIsDurable
  <2> SUFFICES ASSUME NEW i \in DOMAIN manifest, manifest[i].status = "running", i \notin changed
               PROVE  HoldsPrefix(table, JournaledSpans(i))
    BY DEF CommittedIsDurable
  <2>1. i = Len(manifest)
    BY <1>2 DEF IndInv, JournalBounded
  <2>2. DOMAIN manifest = 1 .. Len(manifest) /\ Len(manifest) \in Nat
    BY <1>2, LenProperties DEF IndInv, Shape
  <2>3. Running
    BY <2>1, <2>2 DEF Running
  <2>4. HoldsPrefix(table, Journaled)
    BY <1>2, <2>1, <2>3 DEF DurableInv, Durable
  <2> QED BY <2>1, <2>4 DEF Journaled
<1>3. IndInv /\ DurableInv => DurableInvariant
  BY <1>1, <1>2 DEF DurableInvariant
<1> QED BY <1>3, SpecIndInv, SpecDurableInv, PTL

\* When the stream ends, the table is exactly the stream that this build generates
\* from this configuration, in row_seq order, whatever happened on the way.
THEOREM StreamIsExact == Spec => StreamEndsExact
<1>1. ASSUME IndInv, DurableInv, Next, pc = "stream", pc' = "finalize"
      PROVE  IsStream(table, Spans)
  <2>1. FinishStream
    BY <1>1
    DEF Next, Proceed, Launch, Find, Trim, Match, MarkFailed, PruneFailed, Supersede, Sweep, BeginRun,
        DropTable, CreateTable, VerifySpan, Mismatch, CopySpan, RecordSpan, Finalize, PruneDone,
        Kill, ServerCrash, Tamper, Down
  <2>2. ~(span < Len(plan.spans)) /\ span = Len(Spans)
    BY <2>1 DEF FinishStream, InPrefix
  <2>3. PICK J : J = Journaled
    OBVIOUS
  <2>4. /\ J \in Seq(Seq(Rows)) /\ plan.spans \in Seq(Seq(Rows)) /\ cfg \in Configs /\ build \in Builds
        /\ span \in Nat
    BY <1>1, <2>3 DEF DurableInv, JournalForm, ProcessTypes
  <2>5. /\ span <= Len(J) /\ (span < Len(J) => Len(J) = Len(plan.spans))
        /\ \A k \in 1 .. span : J[k] = Spans[k]
        /\ rows = RowCount(J)
    BY <1>1, <2>3 DEF DurableInv, PlanForm
  <2>6. Len(J) \in Nat /\ Len(plan.spans) \in Nat
    BY <2>4, LenProperties
  <2>7. Spans \in Seq(Seq(Rows)) /\ Len(Spans) = Len(J) /\ span = Len(J)
    BY <2>2, <2>4, <2>5, <2>6, StreamTypes
  <2>8. J = Spans
    <3>1. \A k \in 1 .. Len(J) : J[k] = Spans[k]
      BY <2>5, <2>7
    <3> QED BY <2>4, <2>7, <3>1, SeqEqual
  <2>9. /\ Ordered(table, rows)
        /\ \A r \in table : r.seq <= RowCount(J) => r.row = Numbered(J)[r.seq].row
    <3>1. SubSeq(J, 1, span) = J
      BY <2>4, <2>7, FirstSpans
    <3> QED BY <1>1, <2>3, <3>1 DEF DurableInv, StreamForm, Verified
  <2>10. /\ table # Absent
         /\ \A r \in table : r.seq <= RowCount(J) => r.span = Numbered(J)[r.seq].span
    BY <1>1, <2>3 DEF DurableInv, TableForm, Placed
  <2>11. RowCount(J) \in Nat
    BY <2>4, NumberedLength
  <2>12. Ordered(table, RowCount(J))
    BY <2>5, <2>9
  <2>13. HoldsPrefix(table, J)
    BY <2>4, <2>9, <2>10, <2>11, <2>12, HoldsAll
  <2>14. Cardinality(table) = RowCount(J)
    BY <2>11, <2>12, OrderedCount
  <2> QED BY <2>8, <2>10, <2>13, <2>14 DEF IsStream
<1>2. ASSUME IndInv, DurableInv, [Next]_vars
      PROVE  [(pc = "stream" /\ pc' = "finalize") => IsStream(table, Spans)]_vars
  BY <1>1, <1>2
<1> QED BY <1>2, SpecIndInv, SpecDurableInv, PTL DEF Spec, StreamEndsExact
=============================================================================
